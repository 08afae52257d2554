---------------------------- MODULE Identities ----------------------------
(***************************************************************************)
(* One person, two addresses: WhatsApp delivers a chat under a hidden      *)
(* identity (@lid) until the number behind it is known.  Once it is, a     *)
(* sweep moves everything the hidden chat holds to the number's chat,      *)
(* while messages keep arriving under either.                              *)
(***************************************************************************)
EXTENDS Naturals

CONSTANTS
    WaIds,     \* WhatsApp message ids
    MaxUsage,  \* metered messages
    MaxFail    \* transactions that fail

Sides == {"lid", "number"}

ASSUME IdentitiesAssumption == MaxUsage \in Nat /\ MaxFail \in Nat

VARIABLES
    chatOf,    \* Sides -> a chats row exists
    stored,    \* Sides -> ids of the messages stored under it
    usage,     \* Sides -> metered messages
    resolved,  \* whatsmeow's own map knows the number of the lid
    pass,      \* the sweep: what it does about the lid
    failures,  \* failed transactions so far
    received,  \* history: ids ever received
    metered    \* history: messages ever metered

identityVars == <<chatOf, stored, usage, resolved, pass, failures, received, metered>>

IdentitiesInit ==
    /\ chatOf = [s \in Sides |-> FALSE]
    /\ stored = [s \in Sides |-> {}]
    /\ usage = [s \in Sides |-> 0]
    /\ resolved = FALSE /\ pass = "waiting" /\ failures = 0 /\ received = {} /\ metered = 0
-----------------------------------------------------------------------------
\* A message arrives under one address, perhaps the echo of one that already
\* arrived under the other: the chat is touched, the message stored once.
Deliver(side, id) ==
    /\ id \notin stored[side]
    /\ chatOf' = [chatOf EXCEPT ![side] = TRUE]
    /\ stored' = [stored EXCEPT ![side] = @ \cup {id}]
    /\ received' = received \cup {id}
    /\ UNCHANGED <<usage, resolved, pass, failures, metered>>

\* RecordUsage, when a message leaves or is measured.
Meter(side) ==
    /\ metered < MaxUsage /\ metered' = metered + 1
    /\ usage' = [usage EXCEPT ![side] = @ + 1]
    /\ UNCHANGED <<chatOf, stored, resolved, pass, failures, received>>

Resolve ==
    /\ ~resolved /\ resolved' = TRUE
    /\ UNCHANGED <<chatOf, stored, usage, pass, failures, received, metered>>

\* reconcileIdentitiesOnce, while identity_auto_reconcile is on: list the @lid chats, look up their number; then
\* see whether the number has a chat.
ListLids ==
    /\ pass = "waiting" /\ resolved /\ chatOf["lid"]
    /\ pass' = "listed"
    /\ UNCHANGED <<chatOf, stored, usage, resolved, failures, received, metered>>

\* Mutant: every pair is taken for a rename.
NeverTaken == FALSE

NumberTaken == chatOf["number"]

Compare ==
    /\ pass = "listed"
    /\ pass' = IF NumberTaken THEN "merge" ELSE "rename"
    /\ UNCHANGED <<chatOf, stored, usage, resolved, failures, received, metered>>

\* dedupeBeforeRekey: the lid's copy of a message both sides hold.
Duplicate(id) == id \in stored["number"]

\* Mutant: the number's count replaces the lid's.
Overwrite(lid, number) == lid

Summed(lid, number) == lid + number

\* rekeyReferencingRows and the chats row, in one transaction.
Move ==
    /\ stored' = [lid |-> {},
                  number |-> stored["number"] \cup {id \in stored["lid"] : ~Duplicate(id)}]
    /\ usage' = [lid |-> 0, number |-> Summed(usage["lid"], usage["number"])]
    /\ chatOf' = [lid |-> FALSE, number |-> chatOf["number"] \/ chatOf["lid"]]

\* rekeyChat fails on the primary key when the number's chat appeared since.
RekeyChat ==
    /\ pass = "rename"
    /\ IF chatOf["number"] THEN UNCHANGED <<chatOf, stored, usage>> ELSE Move
    /\ pass' = "waiting"
    /\ UNCHANGED <<resolved, failures, received, metered>>

MergeChat ==
    /\ pass = "merge"
    /\ Move
    /\ pass' = "waiting"
    /\ UNCHANGED <<resolved, failures, received, metered>>

\* The transaction fails, or the process ends: everything is rolled back, the
\* outcome recorded as failed, and the next pass tries again.
PairFails ==
    /\ pass # "waiting" /\ failures < MaxFail
    /\ pass' = "waiting" /\ failures' = failures + 1
    /\ UNCHANGED <<chatOf, stored, usage, resolved, received, metered>>

SweepIdentities == ListLids \/ Compare \/ RekeyChat \/ MergeChat

IdentitiesNext ==
    \/ \E side \in Sides : Meter(side) \/ \E id \in WaIds : Deliver(side, id)
    \/ Resolve \/ SweepIdentities \/ PairFails

IdentitiesSpec == IdentitiesInit /\ [][IdentitiesNext]_identityVars

\* reconcileIdentitiesSweepLoop comes round again as long as the process runs.
FairIdentitiesSpec == IdentitiesSpec /\ WF_identityVars(SweepIdentities)
-----------------------------------------------------------------------------
IdentitiesTypeOK ==
    /\ chatOf \in [Sides -> BOOLEAN]
    /\ stored \in [Sides -> SUBSET WaIds]
    /\ usage \in [Sides -> 0 .. MaxUsage]
    /\ resolved \in BOOLEAN
    /\ pass \in {"waiting", "listed", "merge", "rename"}
    /\ failures \in 0 .. MaxFail /\ received \subseteq WaIds /\ metered \in 0 .. MaxUsage

\* Every message received is stored under the person's hidden identity or
\* number, wherever a merge or a failure fell (rekeyReferencingRows: dropping
\* the lid's copy is "correct, not lossy").
NoMessageLost == received = stored["lid"] \cup stored["number"]

\* A merge neither loses nor doubles what was metered under either address
\* (mergeUsageRows sums the days both chats have).
UsageConserved == usage["lid"] + usage["number"] = metered

\* The reconciliation as a whole: nothing received or metered is lost or
\* counted twice (store.ReconcileIdentities).
NothingLost == NoMessageLost /\ UsageConserved

\* A hidden chat whose number is known ends up in the number's chat
\* (reconcileIdentitiesSweepLoop: what fails or arrives late is taken again).
HiddenChatMerges == (resolved /\ chatOf["lid"]) ~> ~chatOf["lid"]
=============================================================================
