----------------------------- MODULE MCDispatch -----------------------------
(* Instances of Dispatch for TLC: the boss's chat b and another, c. *)
EXTENDS Dispatch, TLC

CONSTANTS p, a, b, c

NoAgent == [d \in Chats |-> NoTerminal]
ToAgent == [d \in Chats |-> IF d = c THEN a ELSE NoTerminal]

Seconds == 0 .. MaxNow
AgentCalls == {<<a, 1>>}
PrincipalCalls == {<<p, 1>>}
TwoCalls == {<<a, 1>>, <<a, 2>>}
=============================================================================
