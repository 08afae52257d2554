-------------------------------- MODULE Turn --------------------------------
(***************************************************************************)
(* What the rest of the gateway may rely on about the gate: every terminal *)
(* has at most one turn, the dispatch it is bound to.  A turn below boss   *)
(* level is locked until its ritual is finished; a used turn stays, done,  *)
(* until another takes its place; only an unfinished one is ever taken     *)
(* away.  Gate implements this, and Dispatch is built on it.               *)
(***************************************************************************)
CONSTANTS
    Terminals,
    Chats,
    Bursts,      \* timestamps of the newest message of a dispatched burst
    NoTurn       \* a terminal that is bound to nothing

Levels == {"boss", "approver", "caution", "danger"}

Turns == [chat  : Chats,
          level : Levels,
          burst : Bursts,
          phase : {"locked", "ready", "done"}]

VARIABLE turn

Bound(t) == turn[t] # NoTurn
InFlight(t) == Bound(t) /\ turn[t].phase # "done"
Ready(t) == Bound(t) /\ turn[t].phase = "ready"
Busy == {t \in Terminals : InFlight(t)}

TurnInit == turn = [t \in Terminals |-> NoTurn]

NewTurn(c, l, b) ==
    [chat |-> c, level |-> l, burst |-> b,
     phase |-> IF l = "boss" THEN "ready" ELSE "locked"]

\* A registration also sweeps the stale turns S.
Bind(t, c, l, b, S) ==
    turn' = [u \in Terminals |-> IF u = t THEN NewTurn(c, l, b)
                                 ELSE IF u \in S THEN NoTurn ELSE turn[u]]

\* Cancelled after a failed push, or swept.
Release(S) == turn' = [t \in Terminals |-> IF t \in S THEN NoTurn ELSE turn[t]]

\* The ritual is finished.
Open(t) ==
    /\ Bound(t) /\ turn[t].phase = "locked"
    /\ turn' = [turn EXCEPT ![t].phase = "ready"]

\* Whatever turn the terminal has now is used.
Use(t) ==
    /\ Bound(t)
    /\ turn' = [turn EXCEPT ![t].phase = "done"]

TurnNext ==
    \/ \E t \in Terminals : Open(t) \/ Use(t)
    \/ \E S \in SUBSET Busy :
          \/ Release(S)
          \/ \E t \in Terminals, c \in Chats, l \in Levels, b \in Bursts : Bind(t, c, l, b, S)

TurnSpec == TurnInit /\ [][TurnNext]_turn
=============================================================================
