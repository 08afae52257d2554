------------------------------- MODULE MCGate -------------------------------
(***************************************************************************)
(* Instances of Gate for TLC.  One run checks both uses of the gate: by    *)
(* callers that do anything in any order, and by the push with nonces no   *)
(* terminal still holds, where what the sweep promises holds too.          *)
(***************************************************************************)
EXTENDS Gate, TLC

VARIABLE use  \* who calls: "anyone" or "push"

GateUsesInit == use \in {"anyone", "push"} /\ GateInit

ByAnyone == use = "anyone" /\ Next /\ UNCHANGED use
ByPush == use = "push" /\ FreshNext /\ UNCHANGED use

GateUsesNext == ByAnyone \/ ByPush

GateUses == GateUsesInit /\ [][GateUsesNext]_<<use, gateVars>> /\ Fairness

\* The push as it is: a nonce that some terminal still holds may be drawn again.
NoncesReused == use = "push" /\ [][PushNext /\ UNCHANGED use]_<<use, gateVars>> /\ GateInit /\ Fairness

\* Used by the push, whatever is in flight can be swept (gate.go sweepLocked).
PushReclaims == use = "push" => InFlightReclaimable

\* Used by the push, a silent agent's terminal is freed (gate.go Sweep).
PushFrees == use = "push" => SilentTerminalFreed
=============================================================================
