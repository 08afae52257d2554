------------------------------ MODULE MCOutbox ------------------------------
(* Instances of Outbox for TLC. *)
EXTENDS Outbox, TLC

Symmetry == Permutations(Owners)

\* What a scenario allows, and how often.
Calm == [m \in Mishaps |-> IF m = "queue" THEN 2 ELSE 0]

\* Everything that may come between a message and its delivery.
Rough == {[cap |-> 0, left |-> [Calm EXCEPT !["queue"] = 3, !["down"] = 1, !["fault"] = 1,
                                           !["drop"] = 1, !["reset"] = 1]]}

\* A day's cap of one, and two requests for the emergency stop.
Daily1 == [cap |-> 1, left |-> [Calm EXCEPT !["queue"] = 4, !["down"] = 2, !["midnight"] = 1,
                                           !["reset"] = 1, !["fault"] = 1]]
Halting == [cap |-> 0, left |-> [Calm EXCEPT !["down"] = 1, !["fault"] = 1, !["trip"] = 1,
                                           !["order"] = 1]]
Rules == {Daily1, Halting}

ResetOnce == {[cap |-> 1, left |-> [Calm EXCEPT !["down"] = 1, !["reset"] = 1]]}
BanOnce == {[cap |-> 0, left |-> [Calm EXCEPT !["down"] = 1, !["trip"] = 1, !["order"] = 1]]}
=============================================================================
