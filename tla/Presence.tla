------------------------------ MODULE Presence ------------------------------
(***************************************************************************)
(* Several agents on one gateway: the claim that lets one of them work a   *)
(* chat while the others skip it (claim_chat, release_chat), and the count *)
(* of the agents shown on the dashboard (agentTracker), whose two writers  *)
(* publish after they let go of the lock.                                  *)
(***************************************************************************)
EXTENDS Naturals, FiniteSets

CONSTANTS
    Models,     \* identities agents pass as model
    Ttls,       \* lifetimes a claim may ask for, already capped
    IdleAfter,  \* ticks without a call after which a session is forgotten
    MaxClock,   \* ticks
    NoModel     \* the chat is not claimed

ASSUME PresenceAssumption ==
    /\ Ttls \subseteq Nat \ {0} /\ IdleAfter \in Nat \ {0} /\ MaxClock \in Nat \ {0}
    /\ IsFiniteSet(Models) /\ NoModel \notin Models

VARIABLES
    now,       \* the clock
    claim,     \* chats.claimed_by and claimed_until
    promised,  \* history: model -> until when a claim of its own was granted
    calls,   \* agentTracker.sessions: model -> its last call, or 0
    shown,     \* state.Agents
    untold     \* counts computed under the lock, still to be published

presenceVars == <<now, claim, promised, calls, shown, untold>>
claimVars == <<claim, promised>>
trackVars == <<calls, shown, untold>>

PresenceInit ==
    /\ now = 1
    /\ claim = [by |-> NoModel, until |-> 0]
    /\ promised = [m \in Models |-> 0]
    /\ calls = [m \in Models |-> 0] /\ shown = 0 /\ untold = {}

Live(s) == {m \in Models : s[m] # 0}

-----------------------------------------------------------------------------
(* The tracker: every tool call begins with seen. *)

\* Only a session that is new publishes the count, after the unlock.
Seen(m) ==
    /\ calls' = [calls EXCEPT ![m] = now]
    /\ untold' = IF calls[m] = 0
                 THEN untold \cup {[by |-> m, count |-> Cardinality(Live(calls'))]} ELSE untold
    /\ UNCHANGED shown

\* A session makes one call at a time.
MayCall(m) == (\A u \in untold : u.by # m)

Publishes ==
    \E u \in untold :
        /\ shown' = u.count /\ untold' = untold \ {u}
        /\ UNCHANGED <<now, claimVars, calls>>

\* sweep continues without a word if nobody was evicted.
Telling(before, after) == after # before

Evict ==
    LET kept == [m \in Models |-> IF now >= calls[m] + IdleAfter THEN 0 ELSE calls[m]]
    IN  /\ \A u \in untold : u.by # NoModel
        /\ kept # calls
        /\ calls' = kept
        /\ untold' = IF Telling(Cardinality(Live(calls)), Cardinality(Live(kept)))
                     THEN untold \cup {[by |-> NoModel, count |-> Cardinality(Live(kept))]}
                     ELSE untold
        /\ UNCHANGED <<now, claimVars, shown>>

-----------------------------------------------------------------------------
(* Claims. *)

\* effectiveClaim: one that expired is as if it had never been.
Holder == IF claim.until <= now THEN NoModel ELSE claim.by

\* ClaimChat's single UPDATE: nobody's, its own, or expired.
FreeFor(m) == Holder \in {NoModel, m}

ClaimChat(m, ttl) ==
    /\ MayCall(m) /\ Seen(m)
    /\ IF FreeFor(m)
       THEN /\ claim' = [by |-> m, until |-> now + ttl]
            /\ promised' = [promised EXCEPT ![m] = now + ttl]
       ELSE UNCHANGED claimVars
    /\ UNCHANGED now

\* Mutant: whoever asks clears the claim.
HoldsAny(m) == claim.by # NoModel

\* WHERE claimed_by = the caller: an expired claim counts, a foreign one not.
Holds(m) == claim.by = m

ReleaseChat(m) ==
    /\ MayCall(m) /\ Seen(m)
    /\ claim' = IF Holds(m) THEN [by |-> NoModel, until |-> 0] ELSE claim
    /\ promised' = [promised EXCEPT ![m] = 0]
    /\ UNCHANGED now

\* No call and no publication takes as long as a session needs to go idle.
ClockTicks ==
    /\ now < MaxClock /\ untold = {}
    /\ now' = now + 1
    /\ UNCHANGED <<claimVars, trackVars>>

PresenceNext ==
    \/ Publishes \/ Evict \/ ClockTicks
    \/ \E m \in Models : ReleaseChat(m) \/ \E t \in Ttls : ClaimChat(m, t)

PresenceSpec == PresenceInit /\ [][PresenceNext]_presenceVars
-----------------------------------------------------------------------------
PresenceTypeOK ==
    /\ now \in 1 .. MaxClock
    /\ claim.by \in Models \cup {NoModel} /\ claim.until \in Nat
    /\ promised \in [Models -> Nat]
    /\ calls \in [Models -> 0 .. MaxClock] /\ shown \in 0 .. Cardinality(Models)
    /\ untold \subseteq [by : Models \cup {NoModel}, count : 0 .. Cardinality(Models)]

\* Two agents are never both within the time they were promised: a claim
\* passes on only by release or expiry, and only its own agent releases it
\* (ClaimChat: "atomic against a concurrent attempt"; ReleaseChat: "never
\* clear someone ELSE's active claim").
ClaimExclusive ==
    \A m \in Models : promised[m] > now => Holder = m

\* When the last session has gone and every count is published, no agent is
\* shown (agentTracker.sweep).
NobodyShown == Live(calls) = {} /\ untold = {} => shown = 0

\* What the agents are shown of one another.
PresenceHolds == ClaimExclusive /\ NobodyShown
=============================================================================
