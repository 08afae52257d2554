------------------------------ MODULE Courier ------------------------------
(***************************************************************************)
(* What the outbox promises to whoever queues a message, whatever happens  *)
(* to the process, the database and the network: a queued message is tried *)
(* a bounded number of times and ends up delivered or failed, and neither  *)
(* verdict is ever taken back.  Outbox is shown to implement it.           *)
(***************************************************************************)
EXTENDS Naturals

CONSTANTS
    Letters,     \* the messages that may be posted
    MaxTries     \* failures after which a message is given up

VARIABLES
    mail,        \* the state of every letter
    tries        \* failures counted against every letter

courierVars == <<mail, tries>>

Verdicts == {"delivered", "failed"}

CourierInit ==
    /\ mail = [l \in Letters |-> "none"]
    /\ tries = [l \in Letters |-> 0]

Post(l) ==
    /\ mail[l] = "none"
    /\ mail' = [mail EXCEPT ![l] = "queued"]
    /\ UNCHANGED tries

Deliver(l) ==
    /\ mail[l] = "queued"
    /\ mail' = [mail EXCEPT ![l] = "delivered"]
    /\ UNCHANGED tries

Fail(l) ==
    /\ mail[l] = "queued"
    /\ tries' = [tries EXCEPT ![l] = @ + 1]
    /\ mail' = [mail EXCEPT ![l] = IF tries[l] + 1 = MaxTries THEN "failed" ELSE @]

\* The owner's "start from zero": every letter is thrown away.
Wipe ==
    /\ mail' = [l \in Letters |-> IF mail[l] = "none" THEN "none" ELSE "wiped"]
    /\ tries' = [l \in Letters |-> 0]

CourierNext ==
    \/ \E l \in Letters : Post(l) \/ Deliver(l) \/ Fail(l)
    \/ Wipe

CourierSpec ==
    /\ CourierInit /\ [][CourierNext]_courierVars
    /\ \A l \in Letters : WF_courierVars(Deliver(l) \/ Fail(l))
=============================================================================
