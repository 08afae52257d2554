--------------------------- MODULE DispatchProofs ---------------------------
(***************************************************************************)
(* Type correctness of Dispatch, its cap on pushes included, for any       *)
(* number of messages, chats, terminals and concurrent calls; that a turn  *)
(* is answered once if every terminal makes one call at a time; and that   *)
(* no message is closed before somebody saw it, but for the late ones.     *)
(***************************************************************************)
EXTENDS Dispatch, FiniteSetTheorems, WellFoundedInduction, TLAPS

-----------------------------------------------------------------------------
(* Bursts. *)

LEMMA LeastNatural ==
    ASSUME NEW T, T \subseteq Nat, T # {}
    PROVE  \E x \in T : \A y \in T : x <= y
<1> DEFINE R == OpToRel(<, Nat)
<1>1. IsWellFoundedOn(R, Nat)
  BY NatLessThanWellFounded
<1> HIDE DEF R
<1>2. PICK x \in T : \A y \in T : ~ (<<y, x>> \in R)
  BY <1>1, WFMin
<1>3. \A y \in T : ~ (y < x)
  BY <1>2 DEF R, OpToRel
<1> QED BY <1>3

Timestamped(B) == \A m \in B : m \in Msgs /\ msg[m].ts \in Bursts

\* A burst has a newest message.
LEMMA NewestInBurst ==
    ASSUME NEW B, B # {}, Timestamped(B)
    PROVE  Newest(B) \in B
<1>1. /\ MaxMsg \in Nat /\ MaxNow \in Nat
      /\ \A m \in B : m \in 1 .. MaxMsg /\ msg[m].ts \in 0 .. MaxNow
  BY DispatchAssumption DEF Timestamped, Msgs
<1> DEFINE Age(m) == MaxNow - msg[m].ts
<1>2. PICK first \in B : \A n \in B : Age(first) <= Age(n)
  <2> DEFINE Ages == {Age(m) : m \in B}
  <2>1. Ages \subseteq Nat /\ Ages # {}
    BY <1>1
  <2>2. PICK k \in Ages : \A y \in Ages : k <= y
    BY <2>1, LeastNatural
  <2> QED BY <2>2
<1> DEFINE Last == {m \in B : msg[m].ts = msg[first].ts}
<1>3. PICK last \in Last : \A n \in Last : MaxMsg - last <= MaxMsg - n
  <2> DEFINE Ranks == {MaxMsg - m : m \in Last}
  <2>1. Ranks \subseteq Nat /\ Ranks # {}
    BY <1>1
  <2> HIDE DEF Ranks
  <2>2. PICK j \in Ranks : \A y \in Ranks : j <= y
    BY <2>1, LeastNatural
  <2> QED BY <2>2 DEF Ranks
<1>4. ASSUME NEW n \in B \ {last} PROVE Before(n, last)
  <2>1. msg[n].ts <= msg[last].ts
    BY <1>1, <1>2
  <2>2. msg[n].ts = msg[last].ts => n < last
    BY <1>1, <1>3
  <2> QED BY <1>1, <2>1, <2>2 DEF Before
<1>5. last \in B /\ \A n \in B \ {last} : Before(n, last)
  BY <1>4
<1> QED BY <1>5 DEF Newest

-----------------------------------------------------------------------------
(* Type correctness. *)

\* What the sweep holds on to stays what it was when the sweep took it: the
\* messages of its snapshot are there, and the anchor of the burst it is
\* injecting has a push left.
SweepOK ==
    /\ \A c \in Chats : \A m \in push.bursts[c] : Arrived(m)
    /\ push.at = "injecting" =>
          /\ push.chat \in Chats /\ push.term \in Terminals
          /\ push.anchor \in Msgs /\ tries[push.anchor] < MaxRedispatch

\* silent_act has two steps only.
CallsOK ==
    \A s \in Slots :
        call[s] # NoCall /\ call[s].tool = "silent" => call[s].at \in {"mark", "consume"}

DispatchInv == TypeOK /\ SweepOK /\ CallsOK

\* Marking messages handled leaves them where they are.
LEMMA HandleType ==
    ASSUME TypeOK, NEW S, \A m \in S : Arrived(m), Handle(S)
    PROVE  /\ msg' \in [Msgs -> Messages \cup {NoMsg}]
           /\ \A m \in Msgs : Arrived(m) => Arrived(m)'
<1>1. \A m \in S \cap Msgs : msg[m] \in Messages
  BY DEF TypeOK, Arrived
<1>2. \A m \in S \cap Msgs : [msg[m] EXCEPT !.handled = TRUE] \in Messages
  BY <1>1 DEF Messages
<1>3. msg' \in [Msgs -> Messages \cup {NoMsg}]
  BY <1>2 DEF Handle, TypeOK
<1>4. \A m \in Msgs : Arrived(m) => Arrived(m)'
  BY <1>2, DispatchAssumption DEF Handle, Arrived
<1> QED BY <1>3, <1>4

\* Turning to the next chat drops one burst.
LEMMA OnwardType ==
    ASSUME DispatchInv, NEW c \in Chats, Onward(c),
           \A m \in Msgs : Arrived(m) => Arrived(m)'
    PROVE  push' \in Sweeps /\ SweepOK'
<1> DEFINE rest == [push.bursts EXCEPT ![c] = {}]
<1>1. rest \in [Chats -> SUBSET Msgs] /\ \A d \in Chats : rest[d] \subseteq push.bursts[d]
  BY DEF DispatchInv, TypeOK, Sweeps
<1>2. push.swamped \in BOOLEAN /\ Idle \in Sweeps
  BY DEF DispatchInv, TypeOK, Sweeps, Idle
<1>3. push' = Idle \/ push' = [Idle EXCEPT !.at = "chats", !.bursts = rest, !.swamped = push.swamped]
  BY DEF Onward
<1> HIDE DEF rest
<1>4. [Idle EXCEPT !.at = "chats", !.bursts = rest, !.swamped = push.swamped] \in Sweeps
  BY <1>1, <1>2 DEF Idle, Sweeps
<1>5. push' \in Sweeps
  BY <1>2, <1>3, <1>4
<1>6. push'.at # "injecting" /\ \A d \in Chats : push'.bursts[d] \subseteq push.bursts[d]
  <2>1. CASE push' = Idle
    BY <2>1 DEF Idle
  <2>2. CASE push' = [Idle EXCEPT !.at = "chats", !.bursts = rest, !.swamped = push.swamped]
    <3>1. push'.at = "chats" /\ push'.bursts = rest
      BY <2>2 DEF Idle
    <3> QED BY <3>1, <1>1
  <2> QED BY <1>3, <2>1, <2>2
<1>7. \A d \in Chats : push.bursts[d] \subseteq Msgs
  BY DEF DispatchInv, TypeOK, Sweeps
<1>8. SweepOK'
  BY <1>6, <1>7 DEF SweepOK, DispatchInv
<1> QED BY <1>5, <1>8

LEMMA ReboundType ==
    ASSUME DispatchInv, NEW T, Rebound(T)
    PROVE  /\ call' \in [Slots -> Calls \cup {NoCall}] /\ CallsOK'
           /\ posted' \in [Terminals -> Nat] /\ told' \subseteq Terminals
<1>1. \A s \in Slots : call[s] # NoCall => [call[s] EXCEPT !.own = FALSE] \in Calls
  BY DEF DispatchInv, TypeOK, Calls
<1>2. call' \in [Slots -> Calls \cup {NoCall}]
  BY <1>1 DEF Rebound, DispatchInv, TypeOK
<1>3. posted' \in [Terminals -> Nat] /\ told' \subseteq Terminals
  BY DEF Rebound, DispatchInv, TypeOK
<1>4. ASSUME NEW s \in Slots, call'[s] # NoCall
      PROVE  /\ call[s] # NoCall /\ call'[s].tool = call[s].tool
             /\ call'[s].at = call[s].at
  BY <1>4 DEF Rebound, DispatchInv, TypeOK, Calls
<1>5. CallsOK'
  BY <1>4 DEF CallsOK, DispatchInv
<1> QED BY <1>2, <1>3, <1>5

LEMMA InitInv == Init => DispatchInv
<1> SUFFICES ASSUME Init PROVE DispatchInv
  OBVIOUS
<1>1. TypeOK
  BY DispatchAssumption DEF Init, TypeOK, TurnInit, Idle, Sweeps, Antennas
<1>2. SweepOK
  BY DEF Init, Idle, SweepOK
<1>3. CallsOK
  BY DEF Init, CallsOK
<1> QED BY <1>1, <1>2, <1>3 DEF DispatchInv

LEMMA SnapshotInv == DispatchInv /\ Snapshot => DispatchInv'
<1> SUFFICES ASSUME DispatchInv, Snapshot PROVE DispatchInv'
  OBVIOUS
<1> USE DispatchAssumption DEF DispatchInv, TypeOK
<1>1. push' \in Sweeps
  <2> DEFINE bursts == [c \in Chats |-> {m \in Window : msg[m].chat = c}]
  <2>1. bursts \in [Chats -> SUBSET Msgs]
    BY DEF Window
  <2>2. Swamped \in BOOLEAN
    BY DEF Swamped
  <2>3. push' = Idle \/ push' = [Idle EXCEPT !.at = "chats", !.bursts = bursts, !.swamped = Swamped]
    BY DEF Snapshot
  <2> HIDE DEF bursts
  <2>4. Idle \in Sweeps
    BY DEF Idle, Sweeps
  <2>5. [Idle EXCEPT !.at = "chats", !.bursts = bursts, !.swamped = Swamped] \in Sweeps
    BY <2>1, <2>2 DEF Idle, Sweeps
  <2> QED BY <2>3, <2>4, <2>5
<1>2. tries' \in [Msgs -> 0 .. MaxRedispatch]
  BY DEF Snapshot
<1>3. TypeOK'
  BY <1>1, <1>2 DEF Snapshot, historyVars
<1>4. SweepOK'
  BY DEF Snapshot, SweepOK, Idle, Window, Pending, Arrived
<1>5. CallsOK'
  BY DEF Snapshot, CallsOK
<1> QED BY <1>3, <1>4, <1>5

LEMMA HoldInv == ASSUME NEW c \in Chats, DispatchInv, Hold(c) PROVE DispatchInv'
<1>1. push' \in Sweeps /\ SweepOK'
  BY OnwardType DEF Hold, Arrived
<1>2. TypeOK'
  BY <1>1 DEF Hold, historyVars, DispatchInv, TypeOK
<1>3. CallsOK'
  BY DEF Hold, CallsOK, DispatchInv
<1> QED BY <1>1, <1>2, <1>3 DEF DispatchInv

LEMMA NotifyInv ==
    ASSUME NEW c \in Chats, NEW queued, NEW closed, DispatchInv,
           NotifyUnreachable(c, queued, closed)
    PROVE  DispatchInv'
<1>1. closed \subseteq Msgs /\ \A m \in closed : Arrived(m)
  BY DEF NotifyUnreachable, DispatchInv, SweepOK, TypeOK, Sweeps
<1>2. msg' \in [Msgs -> Messages \cup {NoMsg}] /\ \A m \in Msgs : Arrived(m) => Arrived(m)'
  BY <1>1, HandleType DEF NotifyUnreachable, DispatchInv
<1>3. push' \in Sweeps /\ SweepOK'
  BY <1>2, OnwardType DEF NotifyUnreachable
<1>4. left' \in 0 .. MaxTrouble
  BY DispatchAssumption DEF NotifyUnreachable, Write, Spend, DispatchInv, TypeOK
<1>5. shown' \in [Msgs -> SUBSET (Terminals \cup {NoTerminal})]
  BY DEF NotifyUnreachable, DispatchInv, TypeOK
<1>6. TypeOK'
  BY <1>2, <1>3, <1>4, <1>5 DEF NotifyUnreachable, DispatchInv, TypeOK
<1>7. CallsOK'
  BY DEF NotifyUnreachable, CallsOK, DispatchInv
<1> QED BY <1>3, <1>6, <1>7 DEF DispatchInv

\* Where a burst goes is a terminal.
LEMMA RouteType ==
    ASSUME DispatchInv, NEW c \in Chats, Taken(c)
    PROVE  /\ Newest(push.bursts[c]) \in push.bursts[c]
           /\ push.bursts[c] \subseteq Msgs
           /\ Goal(c) \in Terminals
<1> DEFINE B == push.bursts[c]
<1>1. B # {} /\ B \subseteq Msgs /\ \A m \in B : msg[m] \in Messages
  BY DEF Taken, DispatchInv, SweepOK, TypeOK, Sweeps, Arrived
<1>2. Newest(B) \in B
  <2>1. Timestamped(B)
    BY <1>1 DEF Timestamped, Messages
  <2> HIDE DEF B
  <2> QED BY <1>1, <2>1, NewestInBurst
<1>3. msg[Newest(B)].quotes \in Terminals \cup {NoTerminal}
  BY <1>1, <1>2 DEF Messages
<1>4. Exclusive[c] \in Terminals \cup {NoTerminal} /\ Routed[c] \in Terminals \cup {NoTerminal}
  BY DispatchAssumption
<1>5. Goal(c) \in Terminals
  BY <1>3, <1>4, DispatchAssumption DEF Goal, Route, IsReply
<1> QED BY <1>1, <1>2, <1>5

LEMMA RegisterInv == ASSUME NEW c \in Chats, DispatchInv, Register(c) PROVE DispatchInv'
<1> DEFINE B == push.bursts[c]
<1>1. Newest(B) \in B /\ B \subseteq Msgs /\ Goal(c) \in Terminals
  BY RouteType DEF Register
<1>2. msg[Newest(B)].ts \in Bursts
  BY <1>1 DEF DispatchInv, SweepOK, Arrived, TypeOK, Messages
<1>3. turn' \in [Terminals -> Turns \cup {NoTurn}]
  <2>1. NewTurn(c, Level(c), msg[Newest(B)].ts) \in Turns
    BY <1>2 DEF NewTurn, Level, Turns, Levels
  <2> QED BY <2>1 DEF Register, Bind, DispatchInv, TypeOK
<1>4. /\ call' \in [Slots -> Calls \cup {NoCall}] /\ CallsOK'
      /\ posted' \in [Terminals -> Nat] /\ told' \subseteq Terminals
  BY ReboundType DEF Register
<1>5. push' = [push EXCEPT !.at = "injecting", !.chat = c, !.term = Goal(c), !.anchor = Newest(B)]
  BY DEF Register
<1>6. push' \in Sweeps
  BY <1>1, <1>5 DEF DispatchInv, TypeOK, Sweeps
<1>7. TypeOK'
  BY <1>3, <1>4, <1>6 DEF Register, DispatchInv, TypeOK
<1>8. /\ push'.bursts = push.bursts /\ push'.chat = c /\ push'.term = Goal(c)
      /\ push'.anchor = Newest(B)
  BY <1>5 DEF DispatchInv, TypeOK, Sweeps
<1>9. tries[Newest(B)] < MaxRedispatch
  BY DEF Register, Clear
<1>10. SweepOK'
  BY <1>1, <1>8, <1>9 DEF SweepOK, DispatchInv, Register, Arrived
<1> QED BY <1>4, <1>7, <1>10 DEF DispatchInv

LEMMA DeliverInv == DispatchInv /\ Deliver => DispatchInv'
<1> SUFFICES ASSUME DispatchInv, Deliver PROVE DispatchInv'
  OBVIOUS
<1>1. push' = [push EXCEPT !.delivered = TRUE] /\ push.term \in Terminals
  BY DEF Deliver, DispatchInv, SweepOK
<1>2. push' \in Sweeps
  BY <1>1 DEF DispatchInv, TypeOK, Sweeps
<1>3. shown' \in [Msgs -> SUBSET (Terminals \cup {NoTerminal})] /\ told' \subseteq Terminals
  BY <1>1 DEF Deliver, DispatchInv, TypeOK
<1>4. TypeOK'
  BY <1>2, <1>3 DEF Deliver, DispatchInv, TypeOK
<1>5. /\ push'.bursts = push.bursts /\ push'.chat = push.chat /\ push'.term = push.term
      /\ push'.anchor = push.anchor /\ push'.at = push.at
  BY <1>1 DEF DispatchInv, TypeOK, Sweeps
<1>6. SweepOK'
  BY <1>5 DEF Deliver, SweepOK, DispatchInv, Arrived
<1>7. CallsOK'
  BY DEF Deliver, CallsOK, DispatchInv
<1> QED BY <1>4, <1>6, <1>7 DEF DispatchInv

\* A push that was received is counted, and there was one left.
LEMMA InjectOkInv == DispatchInv /\ InjectOk => DispatchInv'
<1> SUFFICES ASSUME DispatchInv, InjectOk PROVE DispatchInv'
  OBVIOUS
<1>1. /\ push.chat \in Chats /\ push.term \in Terminals /\ push.anchor \in Msgs
      /\ tries[push.anchor] < MaxRedispatch
  BY DEF InjectOk, DispatchInv, SweepOK
<1>2. push' \in Sweeps /\ SweepOK'
  BY <1>1, OnwardType DEF InjectOk, Arrived
<1>3. tries' \in [Msgs -> 0 .. MaxRedispatch]
  BY <1>1, DispatchAssumption DEF InjectOk, DispatchInv, TypeOK
<1>4. outage' \in [Terminals -> 1 .. MaxNow \cup {NoTime}] /\ noticed' \subseteq Terminals \X Chats
  BY <1>1 DEF InjectOk, DispatchInv, TypeOK
<1>5. TypeOK'
  BY <1>2, <1>3, <1>4 DEF InjectOk, historyVars, DispatchInv, TypeOK
<1>6. CallsOK'
  BY DEF InjectOk, CallsOK, DispatchInv
<1> QED BY <1>2, <1>5, <1>6 DEF DispatchInv

LEMMA CancelType ==
    ASSUME DispatchInv, NEW t \in Terminals, Cancel(t)
    PROVE  /\ turn' \in [Terminals -> Turns \cup {NoTurn}]
           /\ call' \in [Slots -> Calls \cup {NoCall}] /\ CallsOK'
           /\ posted' \in [Terminals -> Nat] /\ told' \subseteq Terminals
<1>1. CASE InFlight(t)
  <2>1. Release({t}) /\ Rebound({t})
    BY <1>1 DEF Cancel
  <2>2. turn' \in [Terminals -> Turns \cup {NoTurn}]
    BY <2>1 DEF Release, DispatchInv, TypeOK
  <2> QED BY <2>1, <2>2, ReboundType
<1>2. CASE ~InFlight(t)
  BY <1>2 DEF Cancel, DispatchInv, TypeOK, CallsOK
<1> QED BY <1>1, <1>2

LEMMA InjectFailsInv == DispatchInv /\ InjectFails => DispatchInv'
<1> SUFFICES ASSUME DispatchInv, InjectFails PROVE DispatchInv'
  OBVIOUS
<1>1. push.chat \in Chats /\ push.term \in Terminals
  BY DEF InjectFails, DispatchInv, SweepOK
<1>2. push' \in Sweeps /\ SweepOK'
  BY <1>1, OnwardType DEF InjectFails, Arrived
<1>3. /\ turn' \in [Terminals -> Turns \cup {NoTurn}]
      /\ call' \in [Slots -> Calls \cup {NoCall}] /\ CallsOK'
      /\ posted' \in [Terminals -> Nat] /\ told' \subseteq Terminals
  BY <1>1, CancelType DEF InjectFails
<1>4. outage' \in [Terminals -> 1 .. MaxNow \cup {NoTime}]
  BY <1>1 DEF InjectFails, DispatchInv, TypeOK
<1>5. noticed' \subseteq Terminals \X Chats
  BY <1>1 DEF InjectFails, Notices, DispatchInv, TypeOK
<1>6. left' \in 0 .. MaxTrouble
  BY DispatchAssumption DEF InjectFails, Spend, DispatchInv, TypeOK
<1>7. TypeOK'
  BY <1>2, <1>3, <1>4, <1>5, <1>6 DEF InjectFails, DispatchInv, TypeOK
<1> QED BY <1>2, <1>3, <1>7 DEF DispatchInv

LEMMA InjectGoneInv == DispatchInv /\ InjectGone => DispatchInv'
<1> SUFFICES ASSUME DispatchInv, InjectGone PROVE DispatchInv'
  OBVIOUS
<1>1. push.chat \in Chats /\ push.term \in Terminals
  BY DEF InjectGone, DispatchInv, SweepOK
<1>2. push' \in Sweeps /\ SweepOK'
  BY <1>1, OnwardType DEF InjectGone, Arrived
<1>3. /\ turn' \in [Terminals -> Turns \cup {NoTurn}]
      /\ call' \in [Slots -> Calls \cup {NoCall}] /\ CallsOK'
      /\ posted' \in [Terminals -> Nat] /\ told' \subseteq Terminals
  BY <1>1, CancelType DEF InjectGone
<1>4. left' \in 0 .. MaxTrouble
  BY DispatchAssumption DEF InjectGone, Spend, DispatchInv, TypeOK
<1>5. antenna' \in [Terminals -> Antennas]
  BY DEF InjectGone, Antennas, DispatchInv, TypeOK
<1>6. TypeOK'
  BY <1>2, <1>3, <1>4, <1>5 DEF InjectGone, DispatchInv, TypeOK
<1> QED BY <1>2, <1>3, <1>6 DEF DispatchInv
\* A call's next step is a step of its tool.
LEMMA DoneType ==
    ASSUME NEW k \in Calls, k.tool = "silent" => k.at \in {"mark", "consume"}
    PROVE  /\ Done(k) \in Calls \cup {NoCall}
           /\ Done(k) # NoCall => /\ Done(k).tool = k.tool
                                  /\ k.tool = "silent" => Done(k).at \in {"mark", "consume"}
<1>1. /\ k.tool \in {"send", "draft", "silent"}
      /\ k.at \in {"look", "post", "consume", "mark", "markOther"}
  BY DEF Calls
<1>2. After[k.tool][k.at] \in {"post", "consume", "mark", "markOther", "end"}
  <2>1. CASE k.tool = "send"
    BY <1>1, <2>1 DEF After
  <2>2. CASE k.tool = "draft"
    BY <1>1, <2>2 DEF After
  <2>3. CASE k.tool = "silent"
    BY <2>3 DEF After
  <2> QED BY <1>1, <2>1, <2>2, <2>3
<1>3. k.tool = "silent" => After[k.tool][k.at] \in {"consume", "end"}
  BY DEF After
<1>4. CASE After[k.tool][k.at] = "end"
  BY <1>4 DEF Done
<1>5. CASE After[k.tool][k.at] # "end"
  <2> DEFINE step == After[k.tool][k.at]
  <2>1. step \in {"post", "consume", "mark", "markOther"} /\ (k.tool = "silent" => step = "consume")
    BY <1>2, <1>3, <1>5
  <2>2. Done(k) = [k EXCEPT !.at = step]
    BY <1>5 DEF Done
  <2> HIDE DEF step
  <2>3. Done(k) \in Calls
    BY <2>1, <2>2 DEF Calls
  <2>4. Done(k).tool = k.tool /\ Done(k).at = step
    BY <2>2 DEF Calls
  <2> QED BY <2>1, <2>3, <2>4
<1> QED BY <1>4, <1>5

\* The calls stay calls when one of them gets to its next step or ends.
LEMMA CallType ==
    ASSUME DispatchInv, NEW s \in Slots, NEW k \in Calls \cup {NoCall},
           k # NoCall /\ k.tool = "silent" => k.at \in {"mark", "consume"},
           call' = [call EXCEPT ![s] = k]
    PROVE  call' \in [Slots -> Calls \cup {NoCall}] /\ CallsOK'
<1>1. call' \in [Slots -> Calls \cup {NoCall}]
  BY DEF DispatchInv, TypeOK
<1>2. \A r \in Slots : call'[r] = IF r = s THEN k ELSE call[r]
  BY DEF DispatchInv, TypeOK
<1>3. CallsOK'
  BY <1>2 DEF CallsOK, DispatchInv
<1> QED BY <1>1, <1>3

LEMMA StepDone ==
    ASSUME DispatchInv, NEW s \in Slots, call[s] # NoCall,
           call' = [call EXCEPT ![s] = Done(@)]
    PROVE  call' \in [Slots -> Calls \cup {NoCall}] /\ CallsOK'
<1>1. call[s] \in Calls /\ (call[s].tool = "silent" => call[s].at \in {"mark", "consume"})
  BY DEF DispatchInv, TypeOK, CallsOK
<1>2. call' = [call EXCEPT ![s] = Done(call[s])]
  BY DEF DispatchInv, TypeOK
<1>3. /\ Done(call[s]) \in Calls \cup {NoCall}
      /\ Done(call[s]) # NoCall /\ Done(call[s]).tool = "silent"
            => Done(call[s]).at \in {"mark", "consume"}
  BY <1>1, DoneType
<1> QED BY <1>2, <1>3, CallType

LEMMA ValidateInv ==
    ASSUME NEW s \in Slots, NEW tool \in {"send", "draft"}, NEW c \in Chats,
           DispatchInv, Validate(s, tool, c)
    PROVE  DispatchInv'
<1> DEFINE k == [NewCall(Acting(tool, c), "look", c) EXCEPT !.own = s[1] # Principal]
<1>1. Acting(tool, c) \in {"send", "draft"} /\ 0 \in Bursts
  BY DispatchAssumption DEF Acting
<1>2. k \in Calls /\ k.tool # "silent"
  BY <1>1 DEF NewCall, Calls
<1>3. call' = [call EXCEPT ![s] = k]
  BY DEF Validate
<1> HIDE DEF k
<1>4. call' \in [Slots -> Calls \cup {NoCall}] /\ CallsOK'
  BY <1>2, <1>3, CallType
<1>5. TypeOK'
  BY <1>4 DEF Validate, sweepVars, historyVars, DispatchInv, TypeOK
<1>6. SweepOK'
  BY DEF Validate, sweepVars, SweepOK, DispatchInv, Arrived
<1> QED BY <1>4, <1>5, <1>6 DEF DispatchInv

\* A ready turn has a chat and a burst.
LEMMA BoundTurn ==
    ASSUME DispatchInv, NEW t \in Terminals, Bound(t)
    PROVE  turn[t].chat \in Chats /\ turn[t].burst \in Bursts
BY DEF DispatchInv, TypeOK, Bound, Turns

LEMMA SilentActInv == ASSUME NEW s \in Slots, DispatchInv, SilentAct(s) PROVE DispatchInv'
<1> DEFINE t == s[1]
<1> DEFINE k == [NewCall("silent", "mark", turn[t].chat) EXCEPT
                   !.upto = turn[t].burst, !.own = TRUE, !.answers = t \in told]
<1>1. t \in Terminals /\ 0 \in Bursts
  BY DispatchAssumption
<1>2. Bound(t)
  BY DEF SilentAct, Ready, Bound
<1>3. turn[t].chat \in Chats /\ turn[t].burst \in Bursts
  BY <1>1, <1>2, BoundTurn
<1>4. k \in Calls /\ k.at = "mark"
  <2>1. turn[t].chat \in Chats /\ turn[t].burst \in Bursts /\ 0 \in Bursts /\ (t \in told) \in BOOLEAN
    BY <1>1, <1>3
  <2> HIDE DEF t
  <2> QED BY <2>1 DEF NewCall, Calls
<1>5. call' = [call EXCEPT ![s] = k]
  BY DEF SilentAct
<1> HIDE DEF k
<1>6. call' \in [Slots -> Calls \cup {NoCall}] /\ CallsOK'
  BY <1>4, <1>5, CallType
<1>7. TypeOK'
  BY <1>6 DEF SilentAct, sweepVars, historyVars, DispatchInv, TypeOK
<1>8. SweepOK'
  BY DEF SilentAct, sweepVars, SweepOK, DispatchInv, Arrived
<1> QED BY <1>6, <1>7, <1>8 DEF DispatchInv

LEMMA LookInv == ASSUME NEW s \in Slots, DispatchInv, Look(s) PROVE DispatchInv'
<1> DEFINE t == s[1]
<1> DEFINE seen == [call[s] EXCEPT
                      !.upto = UptoOf(t),
                      !.other = IF Bound(t) THEN turn[t].chat ELSE call[s].to,
                      !.otherUpto = IF Bound(t) THEN turn[t].burst ELSE 0,
                      !.answers = call[s].own /\ t \in told /\ turn[t].chat = call[s].to]
<1>1. /\ t \in Terminals /\ 0 \in Bursts
      /\ call[s] \in Calls /\ call[s].at = "look" /\ call[s].tool # "silent"
  <2>1. t \in Terminals /\ 0 \in Bursts
    BY DispatchAssumption
  <2>2. call[s] \in Calls /\ call[s].at = "look"
    BY DEF Look, At, DispatchInv, TypeOK
  <2>3. call[s].tool # "silent"
    BY <2>2 DEF Look, At, CallsOK, DispatchInv
  <2> QED BY <2>1, <2>2, <2>3
<1>2. Bound(t) => turn[t].chat \in Chats /\ turn[t].burst \in Bursts
  BY <1>1, BoundTurn
<1>3. UptoOf(t) \in Bursts
  BY <1>2, DispatchAssumption DEF UptoOf, DispatchInv, TypeOK
<1>4. call[s].own \in BOOLEAN /\ call[s].to \in Chats
  BY <1>1 DEF Calls
<1>5. seen \in Calls /\ seen.tool # "silent"
  BY <1>1, <1>2, <1>3, <1>4 DEF Calls
<1>6. call' = [call EXCEPT ![s] = Done(seen)]
  BY DEF Look
<1> HIDE DEF seen
<1>7. Done(seen) \in Calls \cup {NoCall} /\ (Done(seen) # NoCall => Done(seen).tool # "silent")
  BY <1>5, DoneType
<1>8. call' \in [Slots -> Calls \cup {NoCall}] /\ CallsOK'
  BY <1>6, <1>7, CallType
<1>9. TypeOK'
  BY <1>8 DEF Look, sweepVars, historyVars, DispatchInv, TypeOK
<1>10. SweepOK'
  BY DEF Look, sweepVars, SweepOK, DispatchInv, Arrived
<1> QED BY <1>8, <1>9, <1>10 DEF DispatchInv

\* A failed write is one mishap less.
LEMMA WriteType ==
    ASSUME DispatchInv, NEW ok, Write(ok)
    PROVE  left' \in 0 .. MaxTrouble
BY DispatchAssumption DEF Write, Spend, DispatchInv, TypeOK

LEMMA PostInv == ASSUME NEW s \in Slots, NEW ok, DispatchInv, Post(s, ok) PROVE DispatchInv'
<1>1. call' \in [Slots -> Calls \cup {NoCall}] /\ CallsOK'
  <2>1. CASE ok
    <3>1. call' = [call EXCEPT ![s] = Done(@)] /\ call[s] # NoCall
      BY <2>1 DEF Post, At
    <3> QED BY <3>1, StepDone
  <2>2. CASE ~ok
    <3>1. call' = [call EXCEPT ![s] = NoCall]
      BY <2>2 DEF Post
    <3> QED BY <3>1, CallType
  <2> QED BY <2>1, <2>2
<1>2. left' \in 0 .. MaxTrouble
  BY WriteType DEF Post
<1>3. posted' \in [Terminals -> Nat]
  <2>1. posted' = posted \/ posted' = [posted EXCEPT ![s[1]] = @ + 1]
    BY DEF Post
  <2> QED BY <2>1 DEF DispatchInv, TypeOK
<1>4. TypeOK'
  BY <1>1, <1>2, <1>3 DEF Post, sweepVars, DispatchInv, TypeOK
<1>5. SweepOK'
  BY DEF Post, sweepVars, SweepOK, DispatchInv, Arrived
<1> QED BY <1>1, <1>4, <1>5 DEF DispatchInv

LEMMA ConsumeInv == ASSUME NEW s \in Slots, DispatchInv, Consume(s) PROVE DispatchInv'
<1>1. call' \in [Slots -> Calls \cup {NoCall}] /\ CallsOK'
  BY StepDone DEF Consume, At
<1>2. turn' \in [Terminals -> Turns \cup {NoTurn}]
  BY DEF Consume, Use, Bound, Turns, DispatchInv, TypeOK
<1>3. TypeOK'
  BY <1>1, <1>2 DEF Consume, sweepVars, historyVars, DispatchInv, TypeOK
<1>4. SweepOK'
  BY DEF Consume, sweepVars, SweepOK, DispatchInv, Arrived
<1> QED BY <1>1, <1>3, <1>4 DEF DispatchInv

LEMMA UptoType ==
    ASSUME NEW c, NEW ts
    PROVE  Upto(c, ts) \subseteq Msgs /\ \A m \in Upto(c, ts) : Arrived(m)
BY DEF Upto, Pending

LEMMA MarkInv == ASSUME NEW s \in Slots, NEW ok, DispatchInv, Mark(s, ok) PROVE DispatchInv'
<1> DEFINE S == IF ok THEN Upto(call[s].to, call[s].upto) ELSE {}
<1>1. S \subseteq Msgs /\ \A m \in S : Arrived(m)
  BY UptoType
<1>2. Handle(S) /\ excused' = IF call[s].answers THEN excused ELSE excused \cup S
  BY DEF Mark
<1> HIDE DEF S
<1>3. msg' \in [Msgs -> Messages \cup {NoMsg}] /\ \A m \in Msgs : Arrived(m) => Arrived(m)'
  BY <1>1, <1>2, HandleType DEF DispatchInv
<1>4. call' \in [Slots -> Calls \cup {NoCall}] /\ CallsOK'
  BY StepDone DEF Mark, At
<1>5. left' \in 0 .. MaxTrouble
  BY WriteType DEF Mark
<1>6. excused' \subseteq Msgs
  BY <1>1, <1>2 DEF DispatchInv, TypeOK
<1>7. TypeOK'
  BY <1>3, <1>4, <1>5, <1>6 DEF Mark, sweepVars, DispatchInv, TypeOK
<1>8. SweepOK'
  BY <1>3 DEF Mark, sweepVars, SweepOK, DispatchInv, TypeOK, Sweeps
<1> QED BY <1>4, <1>7, <1>8 DEF DispatchInv

LEMMA MarkOtherInv ==
    ASSUME NEW s \in Slots, NEW ok, DispatchInv, MarkOther(s, ok) PROVE DispatchInv'
<1> DEFINE S == IF ok /\ call[s].other # call[s].to
                THEN Upto(call[s].other, call[s].otherUpto) ELSE {}
<1>1. S \subseteq Msgs /\ \A m \in S : Arrived(m)
  BY UptoType
<1>2. Handle(S) /\ excused' = excused \cup S
  BY DEF MarkOther
<1> HIDE DEF S
<1>3. msg' \in [Msgs -> Messages \cup {NoMsg}] /\ \A m \in Msgs : Arrived(m) => Arrived(m)'
  BY <1>1, <1>2, HandleType DEF DispatchInv
<1>4. call' \in [Slots -> Calls \cup {NoCall}] /\ CallsOK'
  BY StepDone DEF MarkOther, At
<1>5. left' \in 0 .. MaxTrouble
  BY WriteType DEF MarkOther
<1>6. excused' \subseteq Msgs
  BY <1>1, <1>2 DEF DispatchInv, TypeOK
<1>7. TypeOK'
  BY <1>3, <1>4, <1>5, <1>6 DEF MarkOther, sweepVars, DispatchInv, TypeOK
<1>8. SweepOK'
  BY <1>3 DEF MarkOther, sweepVars, SweepOK, DispatchInv, TypeOK, Sweeps
<1> QED BY <1>4, <1>7, <1>8 DEF DispatchInv

LEMMA RitualInv == ASSUME NEW t \in Terminals, DispatchInv, Ritual(t) PROVE DispatchInv'
<1>1. turn[t] \in Turns /\ turn' = [turn EXCEPT ![t].phase = "ready"]
  BY DEF Ritual, Open, Bound, DispatchInv, TypeOK
<1>2. turn' \in [Terminals -> Turns \cup {NoTurn}]
  BY <1>1 DEF Turns, DispatchInv, TypeOK
<1>3. TypeOK'
  BY <1>2 DEF Ritual, sweepVars, historyVars, DispatchInv, TypeOK
<1>4. SweepOK' /\ CallsOK'
  BY DEF Ritual, sweepVars, SweepOK, CallsOK, DispatchInv, Arrived
<1> QED BY <1>3, <1>4 DEF DispatchInv

LEMMA ExpireInv == ASSUME NEW t \in Terminals, DispatchInv, Expire(t) PROVE DispatchInv'
<1>1. turn' \in [Terminals -> Turns \cup {NoTurn}]
  BY DEF Expire, Release, DispatchInv, TypeOK
<1>2. /\ call' \in [Slots -> Calls \cup {NoCall}] /\ CallsOK'
      /\ posted' \in [Terminals -> Nat] /\ told' \subseteq Terminals
  BY ReboundType DEF Expire
<1>3. TypeOK'
  BY <1>1, <1>2 DEF Expire, sweepVars, DispatchInv, TypeOK
<1>4. SweepOK'
  BY DEF Expire, sweepVars, SweepOK, DispatchInv, Arrived
<1> QED BY <1>2, <1>3, <1>4 DEF DispatchInv

LEMMA ArriveInv ==
    ASSUME NEW m \in Msgs, NEW c \in Chats, NEW q \in Quotable \cup {NoTerminal}, NEW ts \in Bursts,
           DispatchInv, Arrive(m, c, q, ts)
    PROVE  DispatchInv'
<1> DEFINE new == [chat |-> c, quotes |-> q, ts |-> ts, handled |-> FALSE]
<1>1. new \in Messages
  BY DispatchAssumption DEF Messages
<1>2. msg' = [msg EXCEPT ![m] = new]
  BY DEF Arrive
<1> HIDE DEF new
<1>3. msg' \in [Msgs -> Messages \cup {NoMsg}]
  BY <1>1, <1>2 DEF DispatchInv, TypeOK
<1>4. \A n \in Msgs : Arrived(n) => Arrived(n)'
  BY <1>1, <1>2, DispatchAssumption DEF Arrived, DispatchInv, TypeOK
<1>5. left' \in 0 .. MaxTrouble
  BY DispatchAssumption DEF Arrive, Spend, DispatchInv, TypeOK
<1>6. excused' \subseteq Msgs
  BY DEF Arrive, DispatchInv, TypeOK
<1>7. TypeOK'
  BY <1>3, <1>5, <1>6 DEF Arrive, sweepVars, DispatchInv, TypeOK
<1>8. SweepOK'
  BY <1>4 DEF Arrive, sweepVars, SweepOK, DispatchInv, TypeOK, Sweeps
<1>9. CallsOK'
  BY DEF Arrive, CallsOK, DispatchInv
<1> QED BY <1>7, <1>8, <1>9 DEF DispatchInv

LEMMA TickInv == DispatchInv /\ Tick => DispatchInv'
<1> SUFFICES ASSUME DispatchInv, Tick PROVE DispatchInv'
  OBVIOUS
<1>1. now' \in 1 .. MaxNow
  BY DispatchAssumption DEF Tick, DispatchInv, TypeOK
<1>2. TypeOK'
  BY <1>1 DEF Tick, sweepVars, historyVars, DispatchInv, TypeOK
<1>3. SweepOK' /\ CallsOK'
  BY DEF Tick, sweepVars, SweepOK, CallsOK, DispatchInv, Arrived
<1> QED BY <1>2, <1>3 DEF DispatchInv

LEMMA RewireInv ==
    ASSUME NEW t \in Terminals, NEW v \in Antennas, DispatchInv, Rewire(t, v) PROVE DispatchInv'
<1>1. left' \in 0 .. MaxTrouble
  BY DispatchAssumption DEF Rewire, Spend, DispatchInv, TypeOK
<1>2. antenna' \in [Terminals -> Antennas]
  BY DEF Rewire, DispatchInv, TypeOK
<1>3. TypeOK'
  BY <1>1, <1>2 DEF Rewire, sweepVars, historyVars, DispatchInv, TypeOK
<1>4. SweepOK' /\ CallsOK'
  BY DEF Rewire, sweepVars, SweepOK, CallsOK, DispatchInv, Arrived
<1> QED BY <1>3, <1>4 DEF DispatchInv

LEMMA RestartInv == DispatchInv /\ Restart => DispatchInv'
<1> SUFFICES ASSUME DispatchInv, Restart PROVE DispatchInv'
  OBVIOUS
<1>1. left' \in 0 .. MaxTrouble /\ tries' \in [Msgs -> 0 .. MaxRedispatch]
  BY DispatchAssumption DEF Restart, Spend, DispatchInv, TypeOK
<1>2. antenna' \in [Terminals -> Antennas]
  BY DEF Restart, Antennas, DispatchInv, TypeOK
<1>3. push' \in Sweeps
  BY DEF Restart, Idle, Sweeps
<1>4. turn' \in [Terminals -> Turns \cup {NoTurn}] /\ posted' \in [Terminals -> Nat]
  BY DEF Restart, Release, DispatchInv, TypeOK
<1>5. TypeOK'
  BY <1>1, <1>2, <1>3, <1>4 DEF Restart, DispatchInv, TypeOK
<1>6. SweepOK'
  BY DEF Restart, Idle, SweepOK
<1>7. CallsOK'
  BY DEF Restart, CallsOK
<1> QED BY <1>5, <1>6, <1>7 DEF DispatchInv

LEMMA NextInv == DispatchInv /\ [Next]_vars => DispatchInv'
<1> SUFFICES ASSUME DispatchInv, [Next]_vars PROVE DispatchInv'
  OBVIOUS
<1>1. CASE SweepStep
  <2>1. ASSUME NEW c \in Chats, NEW queued \in BOOLEAN, NEW closed \in SUBSET push.bursts[c],
               NotifyUnreachable(c, queued, closed)
        PROVE  DispatchInv'
    BY <2>1, NotifyInv
  <2> QED BY <1>1, <2>1, SnapshotInv, HoldInv, RegisterInv, DeliverInv, InjectOkInv,
             InjectFailsInv, InjectGoneInv DEF SweepStep
<1>2. CASE \E s \in Slots : CallStep(s)
  BY <1>2, LookInv, ConsumeInv, PostInv, MarkInv, MarkOtherInv DEF CallStep
<1>3. CASE AgentStep
  BY <1>3, RitualInv, SilentActInv, ValidateInv DEF AgentStep
<1>4. CASE \E t \in Terminals : Expire(t) \/ \E v \in Antennas : Rewire(t, v)
  BY <1>4, ExpireInv, RewireInv
<1>5. CASE \E m \in Msgs, c \in Chats, q \in Quotable \cup {NoTerminal}, ts \in Bursts :
              Arrive(m, c, q, ts)
  BY <1>5, ArriveInv
<1>6. CASE Tick \/ Restart
  BY <1>6, TickInv, RestartInv
<1>7. CASE UNCHANGED vars
  <2>1. TypeOK'
    BY <1>7 DEF vars, sweepVars, historyVars, DispatchInv, TypeOK
  <2> QED BY <1>7, <2>1 DEF vars, sweepVars, SweepOK, CallsOK, DispatchInv, Arrived
<1> QED BY <1>1, <1>2, <1>3, <1>4, <1>5, <1>6, <1>7 DEF Next

\* Dispatch keeps its types, for all values of the constants: in particular no
\* anchor is pushed more than MaxRedispatch times.
THEOREM DispatchTypeCorrect == Spec => []TypeOK
<1>1. DispatchInv => TypeOK
  BY DEF DispatchInv
<1> QED BY InitInv, NextInv, <1>1, PTL DEF Spec

-----------------------------------------------------------------------------
(* One answer per turn. *)

\* Agents call one tool after the other.
OneCallAtATime == \A r, s \in Slots : r[1] = s[1] => r = s

Own(k) == k # NoCall /\ k.own
Unposted(k) == k.at \in {"look", "post"}

\* Only send uses the turn up before it marks.
BeforeUse(k) == ~ (k.tool = "send" /\ k.at \in {"mark", "markOther"})

\* What a terminal's call k, its turn u and the number n of answers to that turn
\* have to do with each other: a call let through for the turn finds it ready
\* until it uses it, and unanswered until it posts; an answered turn is done, or
\* the call that answered it is about to use it.
Fits(k, u, n) ==
    /\ n <= 1
    /\ Own(k) => /\ u # NoTurn
                 /\ BeforeUse(k) => u.phase = "ready"
                 /\ Unposted(k) => n = 0
    /\ n = 1 => /\ u # NoTurn
                /\ u.phase = "done" \/ (Own(k) /\ BeforeUse(k) /\ ~Unposted(k))

AnswerInv ==
    /\ \A s \in Slots : Fits(call[s], turn[s[1]], posted[s[1]])
    /\ \A t \in Terminals : (\A s \in Slots : s[1] # t) => posted[t] = 0

\* A step of one call, on its own terminal.
LEMMA SlotFits ==
    ASSUME OneCallAtATime, DispatchInv, AnswerInv, NEW s \in Slots, NEW k,
           call' = [call EXCEPT ![s] = k],
           \A t \in Terminals \ {s[1]} : turn'[t] = turn[t] /\ posted'[t] = posted[t],
           Fits(k, turn'[s[1]], posted'[s[1]])
    PROVE  AnswerInv'
<1>1. \A r \in Slots : r[1] \in Terminals
  BY DispatchAssumption
<1>2. ASSUME NEW r \in Slots PROVE Fits(call'[r], turn'[r[1]], posted'[r[1]])
  <2>1. CASE r = s
    <3>1. call'[r] = k
      BY <2>1 DEF DispatchInv, TypeOK
    <3> QED BY <2>1, <3>1
  <2>2. CASE r # s
    <3>1. call'[r] = call[r]
      BY <2>2 DEF DispatchInv, TypeOK
    <3>2. r[1] \in Terminals \ {s[1]}
      BY <1>1, <2>2 DEF OneCallAtATime
    <3>3. turn'[r[1]] = turn[r[1]] /\ posted'[r[1]] = posted[r[1]]
      BY <3>2
    <3>4. Fits(call[r], turn[r[1]], posted[r[1]])
      BY DEF AnswerInv
    <3> QED BY <3>1, <3>3, <3>4
  <2> QED BY <2>1, <2>2
<1>3. ASSUME NEW t \in Terminals, \A r \in Slots : r[1] # t PROVE posted'[t] = 0
  <2>1. t \in Terminals \ {s[1]}
    BY <1>3
  <2> QED BY <1>3, <2>1 DEF AnswerInv
<1> QED BY <1>2, <1>3 DEF AnswerInv

\* Turns that are taken away or replaced are nobody's any more.
LEMMA ReboundFits ==
    ASSUME DispatchInv, AnswerInv, NEW T, Rebound(T),
           \A t \in Terminals \ T : turn'[t] = turn[t]
    PROVE  AnswerInv'
<1>1. \A r \in Slots : r[1] \in Terminals
  BY DispatchAssumption
<1>2. ASSUME NEW r \in Slots PROVE Fits(call'[r], turn'[r[1]], posted'[r[1]])
  <2>1. CASE r[1] \in T
    <3>1. posted'[r[1]] = 0
      BY <1>1, <2>1 DEF Rebound
    <3>2. ~Own(call'[r])
      <4>1. CASE call[r] = NoCall
        BY <2>1, <4>1 DEF Rebound, Own
      <4>2. CASE call[r] # NoCall
        <5>1. call'[r] = [call[r] EXCEPT !.own = FALSE] /\ call[r] \in Calls
          BY <2>1, <4>2 DEF Rebound, DispatchInv, TypeOK
        <5> QED BY <5>1 DEF Own, Calls
      <4> QED BY <4>1, <4>2
    <3> QED BY <3>1, <3>2 DEF Fits
  <2>2. CASE r[1] \notin T
    <3>1. posted'[r[1]] = posted[r[1]] /\ turn'[r[1]] = turn[r[1]] /\ call'[r] = call[r]
      BY <1>1, <2>2 DEF Rebound
    <3> QED BY <3>1 DEF AnswerInv
  <2> QED BY <2>1, <2>2
<1>3. \A t \in Terminals : (\A r \in Slots : r[1] # t) => posted'[t] = 0
  BY DEF Rebound, AnswerInv
<1> QED BY <1>2, <1>3 DEF AnswerInv

\* A step that neither posts nor uses.
LEMMA DoneFits ==
    ASSUME NEW k \in Calls, k.tool = "silent" => k.at \in {"mark", "consume"},
           k.at \notin {"post", "consume"}, NEW u, NEW n \in Nat, Fits(k, u, n)
    PROVE  Fits(Done(k), u, n)
<1>1. \/ k.at = "look" /\ k.tool \in {"send", "draft"}
      \/ k.at = "mark" /\ k.tool \in {"send", "draft", "silent"}
      \/ k.at = "markOther" /\ k.tool \in {"send", "draft"}
  BY DEF Calls
<1>2. k # NoCall
  BY DispatchAssumption
<1> DEFINE step == After[k.tool][k.at]
<1>3. CASE step = "end"
  <2>1. k.tool = "send" /\ k.at = "markOther"
    BY <1>1, <1>3 DEF After
  <2>2. Done(k) = NoCall
    BY <1>3 DEF Done
  <2> QED BY <2>1, <2>2 DEF Fits, Own, BeforeUse
<1>4. CASE step # "end"
  <2>1. \/ k.at = "look" /\ step = "post"
        \/ k.tool = "send" /\ k.at = "mark" /\ step = "markOther"
        \/ k.tool = "draft" /\ k.at = "mark" /\ step = "markOther"
        \/ k.tool = "draft" /\ k.at = "markOther" /\ step = "consume"
        \/ k.tool = "silent" /\ k.at = "mark" /\ step = "consume"
    BY <1>1, <1>4 DEF After
  <2>2. Done(k) = [k EXCEPT !.at = step]
    BY <1>4 DEF Done
  <2> HIDE DEF step
  <2>3. Done(k).tool = k.tool /\ Done(k).at = step /\ Done(k).own = k.own
    BY <2>2 DEF Calls
  <2>4. Own(Done(k)) => Own(k)
    BY <1>2, <2>3 DEF Own
  <2>5. Done(k) # NoCall
    BY <2>1, <2>2, DoneType, DispatchAssumption DEF Calls
  <2>6. Own(k) => Own(Done(k))
    BY <2>3, <2>5 DEF Own
  <2>7. BeforeUse(k) <=> BeforeUse(Done(k))
    BY <2>1, <2>3 DEF BeforeUse
  <2>8. Unposted(k) <=> Unposted(Done(k))
    BY <2>1, <2>3 DEF Unposted
  <2> QED BY <2>4, <2>6, <2>7, <2>8 DEF Fits
<1> QED BY <1>3, <1>4

LEMMA InitAnswers == Init => AnswerInv
BY DispatchAssumption DEF Init, TurnInit, AnswerInv, Fits, Own

\* A ready turn whose terminal makes no call is unanswered.
LEMMA ReadyUnanswered ==
    ASSUME DispatchInv, AnswerInv, NEW s \in Slots, call[s] = NoCall, Ready(s[1])
    PROVE  posted[s[1]] = 0
<1>1. posted[s[1]] \in Nat
  BY DispatchAssumption DEF DispatchInv, TypeOK
<1>2. Fits(call[s], turn[s[1]], posted[s[1]])
  BY DEF AnswerInv
<1> QED BY <1>1, <1>2 DEF Fits, Own, Ready

LEMMA ValidateAnswers ==
    ASSUME OneCallAtATime, DispatchInv, AnswerInv, NEW s \in Slots,
           NEW tool \in {"send", "draft"}, NEW c \in Chats, Validate(s, tool, c)
    PROVE  AnswerInv'
<1> DEFINE k == [NewCall(Acting(tool, c), "look", c) EXCEPT !.own = s[1] # Principal]
<1>1. call' = [call EXCEPT ![s] = k] /\ turn' = turn /\ posted' = posted
  BY DEF Validate, historyVars
<1>2. k.own = (s[1] # Principal) /\ k.at = "look"
  BY DEF NewCall
<1> HIDE DEF k
<1>3. Fits(call[s], turn[s[1]], posted[s[1]]) /\ call[s] = NoCall
  BY DEF AnswerInv, Validate
<1>4. k.own => Ready(s[1]) /\ posted[s[1]] = 0
  BY <1>2, <1>3, ReadyUnanswered DEF Validate, LetThrough
<1>5. Fits(k, turn[s[1]], posted[s[1]])
  BY <1>2, <1>3, <1>4 DEF Fits, Own, Ready, Bound
<1> QED BY <1>1, <1>5, SlotFits

LEMMA SilentActAnswers ==
    ASSUME OneCallAtATime, DispatchInv, AnswerInv, NEW s \in Slots, SilentAct(s)
    PROVE  AnswerInv'
<1> DEFINE k == [NewCall("silent", "mark", turn[s[1]].chat) EXCEPT
                   !.upto = turn[s[1]].burst, !.own = TRUE, !.answers = s[1] \in told]
<1>1. call' = [call EXCEPT ![s] = k] /\ turn' = turn /\ posted' = posted
  BY DEF SilentAct, historyVars
<1>2. k.at = "mark"
  BY DEF NewCall
<1> HIDE DEF k
<1>3. Ready(s[1]) /\ posted[s[1]] = 0
  BY ReadyUnanswered DEF SilentAct
<1>4. Fits(k, turn[s[1]], posted[s[1]])
  BY <1>2, <1>3 DEF Fits, Ready, Bound
<1> QED BY <1>1, <1>4, SlotFits

\* What the call in a slot is.
LEMMA SlotCall ==
    ASSUME DispatchInv, AnswerInv, NEW s \in Slots, call[s] # NoCall
    PROVE  /\ call[s] \in Calls /\ (call[s].tool = "silent" => call[s].at \in {"mark", "consume"})
           /\ posted[s[1]] \in Nat
           /\ Fits(call[s], turn[s[1]], posted[s[1]])
BY DispatchAssumption DEF DispatchInv, TypeOK, CallsOK, AnswerInv

LEMMA LookAnswers ==
    ASSUME OneCallAtATime, DispatchInv, AnswerInv, NEW s \in Slots, Look(s)
    PROVE  AnswerInv'
<1> DEFINE t == s[1]
<1> DEFINE seen == [call[s] EXCEPT
                      !.upto = UptoOf(t),
                      !.other = IF Bound(t) THEN turn[t].chat ELSE call[s].to,
                      !.otherUpto = IF Bound(t) THEN turn[t].burst ELSE 0,
                      !.answers = call[s].own /\ t \in told /\ turn[t].chat = call[s].to]
<1>1. call[s] # NoCall /\ call[s].at = "look" /\ turn' = turn /\ posted' = posted
  BY DEF Look, At, historyVars
<1>2. call' = [call EXCEPT ![s] = Done(seen)]
  BY DEF Look
<1>3. /\ t \in Terminals /\ 0 \in Bursts
      /\ call[s] \in Calls /\ call[s].tool # "silent" /\ posted[t] \in Nat
      /\ Fits(call[s], turn[t], posted[t])
  BY <1>1, SlotCall, DispatchAssumption
<1>4. Bound(t) => turn[t].chat \in Chats /\ turn[t].burst \in Bursts
  BY <1>3, BoundTurn
<1>5. UptoOf(t) \in Bursts
  BY <1>4, DispatchAssumption DEF UptoOf, DispatchInv, TypeOK
<1>6. call[s].own \in BOOLEAN /\ call[s].to \in Chats
  BY <1>3 DEF Calls
<1>7. seen \in Calls /\ seen.tool = call[s].tool /\ seen.at = "look" /\ seen.own = call[s].own
  BY <1>1, <1>3, <1>4, <1>5, <1>6 DEF Calls
<1> HIDE DEF seen
<1>8. Fits(seen, turn[t], posted[t])
  BY <1>1, <1>3, <1>7 DEF Fits, Own, BeforeUse, Unposted
<1>9. Fits(Done(seen), turn[t], posted[t])
  BY <1>3, <1>7, <1>8, DoneFits
<1> QED BY <1>1, <1>2, <1>9, SlotFits

\* Marking: the answer and the turn stay what they are.
LEMMA MarkingAnswers ==
    ASSUME OneCallAtATime, DispatchInv, AnswerInv, NEW s \in Slots,
           call[s] # NoCall, call[s].at \in {"mark", "markOther"},
           call' = [call EXCEPT ![s] = Done(@)], turn' = turn, posted' = posted
    PROVE  AnswerInv'
<1>1. call' = [call EXCEPT ![s] = Done(call[s])]
  BY DEF DispatchInv, TypeOK
<1>2. Fits(Done(call[s]), turn[s[1]], posted[s[1]])
  BY SlotCall, DoneFits
<1> QED BY <1>1, <1>2, SlotFits

LEMMA ConsumeAnswers ==
    ASSUME OneCallAtATime, DispatchInv, AnswerInv, NEW s \in Slots, Consume(s)
    PROVE  AnswerInv'
<1> DEFINE t == s[1]
<1> DEFINE k == call[s]
<1>1. k # NoCall /\ k.at = "consume" /\ posted' = posted /\ t \in Terminals
  BY DispatchAssumption DEF Consume, At, historyVars
<1>2. call' = [call EXCEPT ![s] = Done(k)]
  BY DEF Consume, DispatchInv, TypeOK
<1>3. \A u \in Terminals \ {t} : turn'[u] = turn[u]
  BY <1>1 DEF Consume, Use, DispatchInv, TypeOK
<1>4. IF Bound(t) THEN turn'[t] # NoTurn /\ turn'[t].phase = "done" ELSE turn'[t] = turn[t]
  <2>1. CASE Bound(t)
    <3>1. turn[t] \in Turns /\ turn'[t] = [turn[t] EXCEPT !.phase = "done"]
      BY <1>1, <2>1 DEF Consume, Use, Bound, DispatchInv, TypeOK
    <3>2. turn'[t] \in Turns /\ turn'[t].phase = "done"
      BY <3>1 DEF Turns
    <3> QED BY <2>1, <3>2, DispatchAssumption
  <2>2. CASE ~Bound(t)
    BY <2>2 DEF Consume
  <2> QED BY <2>1, <2>2
<1>5. k \in Calls /\ posted[t] \in Nat /\ Fits(k, turn[t], posted[t])
  BY <1>1, SlotCall
<1>6. Own(Done(k)) => Own(k) /\ ~BeforeUse(Done(k)) /\ ~Unposted(Done(k))
  <2>1. k.tool \in {"send", "draft", "silent"}
    BY <1>5 DEF Calls
  <2>2. CASE k.tool = "send"
    <3>1. Done(k) = [k EXCEPT !.at = "mark"]
      BY <1>1, <2>2 DEF After, Done
    <3> QED BY <1>1, <1>5, <2>2, <3>1 DEF Calls, Own, BeforeUse, Unposted
  <2>3. CASE k.tool \in {"draft", "silent"}
    <3>1. Done(k) = NoCall
      BY <1>1, <2>3 DEF After, Done
    <3> QED BY <3>1 DEF Own
  <2> QED BY <2>1, <2>2, <2>3
<1>7. Fits(Done(k), turn'[t], posted[t])
  BY <1>4, <1>5, <1>6 DEF Fits, Bound
<1> QED BY <1>1, <1>2, <1>3, <1>7, SlotFits

LEMMA PostAnswers ==
    ASSUME OneCallAtATime, DispatchInv, AnswerInv, NEW s \in Slots, NEW ok \in BOOLEAN, Post(s, ok)
    PROVE  AnswerInv'
<1> DEFINE t == s[1]
<1> DEFINE k == call[s]
<1>1. k # NoCall /\ k.at = "post" /\ turn' = turn /\ t \in Terminals
  BY DispatchAssumption DEF Post, At
<1>2. /\ k \in Calls /\ k.tool \in {"send", "draft"} /\ posted[t] \in Nat
      /\ Fits(k, turn[t], posted[t]) /\ k.own \in BOOLEAN
  BY <1>1, SlotCall DEF Calls
<1>3. CASE ~ok
  <2>1. call' = [call EXCEPT ![s] = NoCall] /\ posted' = posted
    BY <1>3 DEF Post
  <2>2. Fits(NoCall, turn[t], posted[t])
    BY <1>1, <1>2 DEF Fits, Own, Unposted
  <2> QED BY <1>1, <2>1, <2>2, SlotFits
<1>4. CASE ok
  <2>1. call' = [call EXCEPT ![s] = Done(k)]
    BY <1>4 DEF Post, DispatchInv, TypeOK
  <2>2. \E step \in {"consume", "mark"} :
           /\ Done(k) = [k EXCEPT !.at = step]
           /\ k.tool = "send" => step = "consume"
    BY <1>1, <1>2 DEF After, Done
  <2>3. /\ Done(k).own = k.own /\ Done(k).at \in {"consume", "mark"}
        /\ Done(k).tool = "send" => Done(k).at = "consume"
        /\ Done(k) \in Calls
    BY <1>2, <2>2 DEF Calls
  <2>4. Done(k) # NoCall /\ BeforeUse(Done(k)) /\ ~Unposted(Done(k))
    BY <2>3, DispatchAssumption DEF BeforeUse, Unposted
  <2>5. CASE k.own
    <3>1. posted' = [posted EXCEPT ![t] = @ + 1]
      BY <1>4, <2>5 DEF Post
    <3>2. posted[t] = 0 /\ turn[t] # NoTurn /\ turn[t].phase = "ready"
      BY <1>1, <1>2, <2>5 DEF Fits, Own, Unposted, BeforeUse
    <3>3. posted'[t] = 1 /\ \A u \in Terminals \ {t} : posted'[u] = posted[u]
      BY <1>1, <3>1, <3>2 DEF DispatchInv, TypeOK
    <3>4. Fits(Done(k), turn[t], 1)
      BY <2>3, <2>4, <2>5, <3>2 DEF Fits, Own
    <3> QED BY <1>1, <2>1, <3>3, <3>4, SlotFits
  <2>6. CASE ~k.own
    <3>1. posted' = posted
      BY <2>6 DEF Post
    <3>2. Fits(Done(k), turn[t], posted[t])
      BY <1>2, <2>3, <2>6 DEF Fits, Own
    <3> QED BY <1>1, <2>1, <3>1, <3>2, SlotFits
  <2> QED BY <1>2, <2>5, <2>6
<1> QED BY <1>3, <1>4

\* The ritual makes a locked turn ready; nobody answers a locked turn.
LEMMA RitualAnswers ==
    ASSUME DispatchInv, AnswerInv, NEW t \in Terminals, Ritual(t)
    PROVE  AnswerInv'
<1>1. /\ call' = call /\ posted' = posted
      /\ turn[t] \in Turns /\ turn[t].phase = "locked" /\ turn' = [turn EXCEPT ![t].phase = "ready"]
  BY DEF Ritual, Open, Bound, historyVars, DispatchInv, TypeOK
<1>2. turn'[t] \in Turns /\ turn'[t].phase = "ready" /\ turn'[t] # NoTurn
  <2>1. turn'[t] = [turn[t] EXCEPT !.phase = "ready"]
    BY <1>1 DEF DispatchInv, TypeOK
  <2>2. turn'[t] \in Turns /\ turn'[t].phase = "ready"
    BY <1>1, <2>1 DEF Turns
  <2> QED BY <2>2, DispatchAssumption
<1>3. \A u \in Terminals \ {t} : turn'[u] = turn[u]
  BY <1>1 DEF DispatchInv, TypeOK
<1>4. ASSUME NEW s \in Slots PROVE Fits(call'[s], turn'[s[1]], posted'[s[1]])
  <2>1. Fits(call[s], turn[s[1]], posted[s[1]]) /\ s[1] \in Terminals
    BY DispatchAssumption DEF AnswerInv
  <2>2. CASE s[1] = t
    BY <1>1, <1>2, <2>1, <2>2 DEF Fits
  <2>3. CASE s[1] # t
    BY <1>1, <1>3, <2>1, <2>3
  <2> QED BY <2>2, <2>3
<1> QED BY <1>1, <1>4 DEF AnswerInv

LEMMA CancelAnswers ==
    ASSUME DispatchInv, AnswerInv, NEW t \in Terminals, Cancel(t)
    PROVE  AnswerInv'
<1>1. CASE InFlight(t)
  <2>1. Rebound({t}) /\ \A u \in Terminals \ {t} : turn'[u] = turn[u]
    BY <1>1 DEF Cancel, Release
  <2> QED BY <2>1, ReboundFits
<1>2. CASE ~InFlight(t)
  BY <1>2 DEF Cancel, AnswerInv
<1> QED BY <1>1, <1>2

LEMMA SweepAnswers ==
    ASSUME DispatchInv, AnswerInv, SweepStep
    PROVE  AnswerInv'
<1>1. CASE Snapshot \/ InjectOk
  BY <1>1 DEF Snapshot, InjectOk, historyVars, AnswerInv
<1>2. CASE \E c \in Chats : Hold(c)
  BY <1>2 DEF Hold, historyVars, AnswerInv
<1>3. CASE \E c \in Chats : \E queued \in BOOLEAN, closed \in SUBSET push.bursts[c] :
              NotifyUnreachable(c, queued, closed)
  BY <1>3 DEF NotifyUnreachable, AnswerInv
<1>4. CASE Deliver
  BY <1>4 DEF Deliver, AnswerInv
<1>5. ASSUME NEW c \in Chats, Register(c) PROVE AnswerInv'
  <2>1. Rebound({Goal(c)}) /\ \A t \in Terminals \ {Goal(c)} : turn'[t] = turn[t]
    BY <1>5 DEF Register, Bind
  <2> QED BY <2>1, ReboundFits
<1>6. CASE InjectFails
  <2>1. push.term \in Terminals /\ Cancel(push.term)
    BY <1>6 DEF InjectFails, DispatchInv, SweepOK
  <2> QED BY <2>1, CancelAnswers
<1>7. CASE InjectGone
  <2>1. push.term \in Terminals /\ Cancel(push.term)
    BY <1>7 DEF InjectGone, DispatchInv, SweepOK
  <2> QED BY <2>1, CancelAnswers
<1> QED BY <1>1, <1>2, <1>3, <1>4, <1>5, <1>6, <1>7 DEF SweepStep

LEMMA CallAnswers ==
    ASSUME OneCallAtATime, DispatchInv, AnswerInv, NEW s \in Slots, CallStep(s)
    PROVE  AnswerInv'
<1>1. CASE \E ok \in BOOLEAN : Mark(s, ok) \/ MarkOther(s, ok)
  BY <1>1, MarkingAnswers DEF Mark, MarkOther, At
<1>2. CASE \E ok \in BOOLEAN : Post(s, ok)
  BY <1>2, PostAnswers
<1>3. CASE Look(s) \/ Consume(s)
  BY <1>3, LookAnswers, ConsumeAnswers
<1> QED BY <1>1, <1>2, <1>3 DEF CallStep

LEMMA NextAnswers ==
    ASSUME OneCallAtATime, DispatchInv, AnswerInv, [Next]_vars
    PROVE  AnswerInv'
<1>1. CASE SweepStep
  BY <1>1, SweepAnswers
<1>2. CASE \E s \in Slots : CallStep(s)
  BY <1>2, CallAnswers
<1>3. CASE AgentStep
  BY <1>3, RitualAnswers, SilentActAnswers, ValidateAnswers DEF AgentStep
<1>4. ASSUME NEW t \in Terminals, Expire(t) PROVE AnswerInv'
  <2>1. Rebound({t}) /\ \A u \in Terminals \ {t} : turn'[u] = turn[u]
    BY <1>4 DEF Expire, Release
  <2> QED BY <2>1, ReboundFits
<1>5. CASE \E t \in Terminals, v \in Antennas : Rewire(t, v)
  BY <1>5 DEF Rewire, historyVars, AnswerInv
<1>6. CASE \E m \in Msgs, c \in Chats, q \in Quotable \cup {NoTerminal}, ts \in Bursts :
              Arrive(m, c, q, ts)
  BY <1>6 DEF Arrive, AnswerInv
<1>7. CASE Tick
  BY <1>7 DEF Tick, historyVars, AnswerInv
<1>8. CASE Restart
  BY <1>8, DispatchAssumption DEF Restart, AnswerInv, Fits, Own
<1>9. CASE UNCHANGED vars
  BY <1>9 DEF vars, historyVars, AnswerInv
<1> QED BY <1>1, <1>2, <1>3, <1>4, <1>5, <1>6, <1>7, <1>8, <1>9 DEF Next

\* One-shot: as long as no agent makes two calls at a time, no turn is answered
\* twice, whatever the sweep, the gate, other terminals and restarts do meanwhile.
THEOREM OneAnswer == OneCallAtATime => (Spec => []OneAnswerPerTurn)
<1>1. DispatchInv /\ AnswerInv => OneAnswerPerTurn
  <2> SUFFICES ASSUME DispatchInv, AnswerInv, NEW t \in Terminals PROVE posted[t] <= 1
    BY DEF OneAnswerPerTurn
  <2>1. CASE \E s \in Slots : s[1] = t
    BY <2>1 DEF AnswerInv, Fits
  <2>2. CASE \A s \in Slots : s[1] # t
    BY <2>2 DEF AnswerInv
  <2> QED BY <2>1, <2>2
<1>2. SUFFICES ASSUME OneCallAtATime PROVE Spec => []OneAnswerPerTurn
  OBVIOUS
<1>3. DispatchInv /\ AnswerInv /\ [Next]_vars => DispatchInv' /\ AnswerInv'
  BY <1>2, NextInv, NextAnswers
<1> QED BY <1>1, <1>3, InitInv, InitAnswers, PTL DEF Spec

-----------------------------------------------------------------------------
(* Nothing is closed unseen. *)

\* Seen by somebody, or an exception.
Shown(m) == shown[m] # {} \/ m \in excused

\* As old as one of its chat that came before it.
Overtaken(m, n) == n < m /\ msg[n].chat = msg[m].chat /\ msg[m].ts <= msg[n].ts

\* Chat c up to a burst ts it has a message of: all that is there was seen or
\* is in B, and whatever still comes is overtaken.
Accounted(c, ts, B) ==
    /\ \E n \in Msgs : Arrived(n) /\ msg[n].chat = c /\ ts <= msg[n].ts
    /\ \A m \in Msgs : Arrived(m) /\ msg[m].chat = c /\ msg[m].ts <= ts => m \in B \/ Shown(m)

\* Messages come one after the other, and those that were overtaken are excused.
BooksOK ==
    /\ \A m, n \in Msgs : Arrived(m) /\ n < m => Arrived(n)
    /\ \A m, n \in Msgs : Arrived(m) /\ Arrived(n) /\ Overtaken(m, n) => m \in excused

\* What the sweep has not pushed yet of a chat it has all in hand, and the turn
\* it is pushing is bound to that.
BurstsOK ==
    /\ \A c \in Chats : \A n \in push.bursts[c] :
          msg[n].chat = c /\ Accounted(c, msg[n].ts, push.bursts[c])
    /\ push.at = "injecting" =>
          /\ push.anchor \in push.bursts[push.chat]
          /\ Bound(push.term) => /\ turn[push.term].chat = push.chat
                                 /\ turn[push.term].burst = msg[push.anchor].ts

\* An agent that was pushed its turn has seen the burst of it.
ToldOK == \A t \in told : Bound(t) /\ Accounted(turn[t].chat, turn[t].burst, {})

\* A call that answers such a turn marks no more than its burst.
Honest(s, k) ==
    /\ k.answers => Accounted(k.to, k.upto, {})
    /\ k.at = "look" /\ k.own => s[1] # Principal
HonestCalls == \A s \in Slots : call[s] # NoCall => Honest(s, call[s])

SeenInv == BooksOK /\ ClosedOnlySeen /\ BurstsOK /\ ToldOK /\ HonestCalls

\* What a step does to the messages and to what is known of them.
Grows ==
    /\ \A m \in Msgs : Arrived(m) => /\ msg'[m] # NoMsg
                                     /\ msg'[m].chat = msg[m].chat /\ msg'[m].ts = msg[m].ts
    /\ \A m \in Msgs : shown[m] \subseteq shown'[m]
    /\ excused \subseteq excused'
    /\ \A m, n \in Msgs : /\ msg[m] = NoMsg /\ msg'[m] # NoMsg
                          /\ Arrived(n) /\ msg[n].chat = msg'[m].chat /\ msg'[m].ts <= msg[n].ts
                          => m \in excused'

LEMMA StampIsNat ==
    ASSUME DispatchInv
    PROVE  \A m \in Msgs : Arrived(m) => msg[m] \in Messages /\ msg[m].ts \in Nat /\ msg[m].chat \in Chats
<1>1. Bursts \subseteq Nat
  BY DispatchAssumption
<1> QED BY <1>1 DEF DispatchInv, TypeOK, Arrived, Messages

LEMMA AccountedStays ==
    ASSUME DispatchInv, DispatchInv', Grows, NEW c, NEW ts \in Nat, NEW B, Accounted(c, ts, B)
    PROVE  Accounted(c, ts, B)'
<1>1. PICK n \in Msgs : Arrived(n) /\ msg[n].chat = c /\ ts <= msg[n].ts
  BY DEF Accounted
<1>2. msg'[n] # NoMsg /\ msg'[n].chat = c /\ ts <= msg'[n].ts
  BY <1>1 DEF Grows
<1>3. ASSUME NEW m \in Msgs, msg'[m] # NoMsg, msg'[m].chat = c, msg'[m].ts <= ts
      PROVE  m \in B \/ shown'[m] # {} \/ m \in excused'
  <2>1. CASE Arrived(m)
    <3>1. msg[m].chat = c /\ msg[m].ts <= ts
      BY <1>3, <2>1 DEF Grows
    <3>2. m \in B \/ shown[m] # {} \/ m \in excused
      BY <2>1, <3>1 DEF Accounted, Shown
    <3> QED BY <3>2 DEF Grows
  <2>2. CASE ~Arrived(m)
    <3>1. msg'[m].ts \in Nat /\ msg[n].ts \in Nat
      <4>1. Bursts \subseteq Nat
        BY DispatchAssumption
      <4>2. msg'[m] \in Messages
        BY <1>3 DEF DispatchInv, TypeOK
      <4> QED BY <1>1, <4>1, <4>2, StampIsNat DEF Messages
    <3>2. msg'[m].ts <= msg[n].ts
      BY <1>1, <1>3, <3>1
    <3> QED BY <1>1, <1>3, <2>2, <3>2 DEF Grows, Arrived
  <2> QED BY <2>1, <2>2
<1> QED BY <1>1, <1>2, <1>3 DEF Accounted, Arrived, Shown

\* A step that leaves the messages and what is known of them.
LEMMA SameBooks ==
    ASSUME SeenInv, UNCHANGED <<msg, shown, excused>>
    PROVE  Grows /\ BooksOK' /\ ClosedOnlySeen'
<1>1. Grows
  BY DEF Grows, Arrived
<1>2. BooksOK' /\ ClosedOnlySeen'
  BY DEF SeenInv, BooksOK, ClosedOnlySeen, Overtaken, Arrived
<1> QED BY <1>1, <1>2

\* Marking messages that were seen, or are excused by it.
LEMMA HandleBooks ==
    ASSUME DispatchInv, SeenInv, NEW S, \A m \in S : Arrived(m), Handle(S),
           \A m \in Msgs : shown[m] \subseteq shown'[m], excused \subseteq excused',
           \A m \in S : shown'[m] # {} \/ m \in excused'
    PROVE  Grows /\ BooksOK' /\ ClosedOnlySeen'
<1>1. ASSUME NEW m \in Msgs
      PROVE  /\ Arrived(m) => /\ msg'[m] # NoMsg
                              /\ msg'[m].chat = msg[m].chat /\ msg'[m].ts = msg[m].ts
             /\ ~Arrived(m) => msg'[m] = NoMsg
             /\ m \notin S => msg'[m] = msg[m]
  <2>1. msg'[m] = IF m \in S THEN [msg[m] EXCEPT !.handled = TRUE] ELSE msg[m]
    BY DEF Handle
  <2>2. CASE m \in S
    <3>1. msg[m] \in Messages
      BY <2>2, StampIsNat
    <3>2. msg'[m] \in Messages /\ msg'[m].chat = msg[m].chat /\ msg'[m].ts = msg[m].ts
      BY <2>1, <2>2, <3>1 DEF Messages
    <3> QED BY <2>2, <3>2, DispatchAssumption
  <2>3. CASE m \notin S
    BY <2>1, <2>3 DEF Arrived
  <2> QED BY <2>2, <2>3
<1>2. Grows
  BY <1>1 DEF Grows, Arrived
<1>3. BooksOK'
  BY <1>1 DEF SeenInv, BooksOK, Overtaken, Arrived
<1>4. ClosedOnlySeen'
  <2> SUFFICES ASSUME NEW m \in Msgs, msg'[m] # NoMsg, msg'[m].handled
               PROVE  shown'[m] # {} \/ m \in excused'
    BY DEF ClosedOnlySeen, Arrived
  <2>1. CASE m \notin S
    <3>1. Arrived(m) /\ msg[m].handled
      BY <1>1, <2>1 DEF Arrived
    <3> QED BY <3>1 DEF SeenInv, ClosedOnlySeen
  <2> QED BY <2>1
<1> QED BY <1>2, <1>3, <1>4

LEMMA ArriveBooks ==
    ASSUME DispatchInv, SeenInv, NEW m \in Msgs, NEW c \in Chats, NEW q \in Quotable \cup {NoTerminal},
           NEW ts \in Bursts, Arrive(m, c, q, ts)
    PROVE  Grows /\ BooksOK' /\ ClosedOnlySeen'
<1> DEFINE new == [chat |-> c, quotes |-> q, ts |-> ts, handled |-> FALSE]
<1>1. new \in Messages /\ new.chat = c /\ new.ts = ts /\ ~new.handled
  BY DispatchAssumption DEF Messages
<1>2. /\ ~Arrived(m) /\ \A n \in 1 .. m - 1 : Arrived(n)
      /\ msg' = [msg EXCEPT ![m] = new] /\ shown' = shown
      /\ excused \subseteq excused'
      /\ (\E n \in 1 .. m - 1 : msg[n].chat = c /\ msg[n].ts >= ts) => m \in excused'
  BY DEF Arrive
<1> HIDE DEF new
<1>3. msg'[m] = new /\ msg'[m] # NoMsg /\ \A n \in Msgs : n # m => msg'[n] = msg[n]
  BY <1>1, <1>2, DispatchAssumption DEF DispatchInv, TypeOK
<1>4. \A n \in Msgs : n \in Nat /\ n >= 1
  BY DEF Msgs
<1>5. \A n \in Msgs : n < m => n \in 1 .. m - 1
  BY <1>4
<1>6. \A n \in Msgs : Arrived(n) <=> n < m
  <2> SUFFICES ASSUME NEW n \in Msgs PROVE Arrived(n) <=> n < m
    OBVIOUS
  <2>1. n < m => Arrived(n)
    BY <1>2, <1>5
  <2>2. m < n /\ Arrived(n) => Arrived(m)
    BY DEF SeenInv, BooksOK
  <2>3. n < m \/ n = m \/ m < n
    BY <1>4
  <2>4. ~(n < m /\ m < n) /\ ~(n = m /\ n < m)
    BY <1>4
  <2> QED BY <1>2, <2>1, <2>2, <2>3, <2>4
<1>7. \A n \in Msgs : Arrived(n) /\ msg[n].chat = c /\ ts <= msg[n].ts => m \in excused'
  <2> SUFFICES ASSUME NEW n \in Msgs, Arrived(n), msg[n].chat = c, ts <= msg[n].ts
               PROVE  m \in excused'
    OBVIOUS
  <2>1. n \in 1 .. m - 1
    BY <1>5, <1>6
  <2>2. msg[n].ts >= ts
    BY StampIsNat, DispatchAssumption
  <2> QED BY <1>2, <2>1, <2>2
<1>8. Grows
  BY <1>1, <1>2, <1>3, <1>7 DEF Grows, Arrived
<1>9. BooksOK'
  <2>1. ASSUME NEW k \in Msgs, NEW n \in Msgs, msg'[k] # NoMsg, n < k PROVE msg'[n] # NoMsg
    <3>1. CASE k = m
      BY <1>3, <1>4, <1>6, <2>1, <3>1 DEF Arrived
    <3>2. CASE k # m
      BY <1>3, <2>1, <3>2 DEF SeenInv, BooksOK, Arrived
    <3> QED BY <3>1, <3>2
  <2>2. ASSUME NEW k \in Msgs, NEW n \in Msgs, msg'[k] # NoMsg, msg'[n] # NoMsg, Overtaken(k, n)'
        PROVE  k \in excused'
    <3>1. n < k /\ msg'[n].chat = msg'[k].chat /\ msg'[k].ts <= msg'[n].ts
      BY <2>2 DEF Overtaken
    <3>2. CASE k = m
      <4>1. n # m
        BY <1>4, <3>1, <3>2
      <4>2. Arrived(n) /\ msg[n].chat = c /\ ts <= msg[n].ts
        BY <1>1, <1>3, <2>2, <3>1, <3>2, <4>1 DEF Arrived
      <4> QED BY <1>7, <3>2, <4>2
    <3>3. CASE n = m
      <4>1. m < k /\ k # m
        BY <1>4, <3>1, <3>3
      <4>2. Arrived(k)
        BY <1>3, <2>2, <4>1 DEF Arrived
      <4>3. ~(k < m)
        BY <1>4, <4>1
      <4> QED BY <1>6, <4>2, <4>3
    <3>4. CASE k # m /\ n # m
      <4>1. Arrived(k) /\ Arrived(n) /\ Overtaken(k, n)
        BY <1>3, <2>2, <3>1, <3>4 DEF Arrived, Overtaken
      <4> QED BY <1>2, <4>1 DEF SeenInv, BooksOK
    <3> QED BY <3>2, <3>3, <3>4
  <2> QED BY <2>1, <2>2 DEF BooksOK, Arrived
<1>10. ClosedOnlySeen'
  BY <1>1, <1>2, <1>3 DEF SeenInv, ClosedOnlySeen, Arrived
<1> QED BY <1>8, <1>9, <1>10

\* What the sweep holds of each chat is what it held before, or nothing.
LEMMA BurstsStay ==
    ASSUME DispatchInv, DispatchInv', SeenInv, Grows,
           \A c \in Chats : push'.bursts[c] = {} \/ push'.bursts[c] = push.bursts[c],
           push'.at = "injecting" =>
              /\ push'.anchor \in push'.bursts[push'.chat]
              /\ turn'[push'.term] # NoTurn => /\ turn'[push'.term].chat = push'.chat
                                               /\ turn'[push'.term].burst = msg'[push'.anchor].ts
    PROVE  BurstsOK'
<1>1. ASSUME NEW c \in Chats, NEW n \in push'.bursts[c]
      PROVE  msg'[n].chat = c /\ Accounted(c, msg[n].ts, push.bursts[c])'
  <2> DEFINE B == push.bursts[c]
  <2>1. push'.bursts[c] = B /\ n \in B
    BY <1>1
  <2>2. n \in Msgs /\ Arrived(n)
    BY <2>1 DEF DispatchInv, SweepOK, TypeOK, Sweeps
  <2>3. msg[n].chat = c /\ Accounted(c, msg[n].ts, B)
    BY <2>1 DEF SeenInv, BurstsOK
  <2>4. msg'[n].chat = c /\ msg'[n].ts = msg[n].ts /\ msg[n].ts \in Nat
    BY <2>2, <2>3, StampIsNat DEF Grows
  <2>5. PICK ts \in Nat : ts = msg[n].ts
    BY <2>4
  <2>6. PICK b \in SUBSET Msgs : b = B
    BY DEF DispatchInv, TypeOK, Sweeps
  <2>7. Accounted(c, ts, b)'
    BY <2>3, <2>5, <2>6, AccountedStays
  <2> QED BY <2>1, <2>4, <2>5, <2>6, <2>7
<1> QED BY <1>1 DEF BurstsOK, Bound

\* Turns told of are turns told of before, with the same chat and burst.
LEMMA ToldStays ==
    ASSUME DispatchInv, DispatchInv', SeenInv, Grows, NEW t \in told, t \in told',
           turn'[t] # NoTurn, turn'[t].chat = turn[t].chat, turn'[t].burst = turn[t].burst
    PROVE  (Bound(t) /\ Accounted(turn[t].chat, turn[t].burst, {}))'
<1>1. t \in Terminals
  BY DEF DispatchInv, TypeOK
<1>2. Bound(t) /\ Accounted(turn[t].chat, turn[t].burst, {})
  BY DEF SeenInv, ToldOK
<1>3. turn[t].chat \in Chats /\ turn[t].burst \in Nat
  BY <1>1, <1>2, BoundTurn, DispatchAssumption
<1>4. PICK c \in Chats, ts \in Nat : c = turn[t].chat /\ ts = turn[t].burst
  BY <1>3
<1>5. Accounted(c, ts, {})'
  BY <1>2, <1>4, AccountedStays
<1> QED BY <1>4, <1>5 DEF Bound

\* A call keeps what it may mark.
LEMMA HonestStays ==
    ASSUME DispatchInv, DispatchInv', SeenInv, Grows, NEW s \in Slots, call[s] # NoCall,
           NEW k, k.answers => call[s].answers, k.to = call[s].to, k.upto = call[s].upto,
           k.at = "look" /\ k.own => call[s].at = "look" /\ call[s].own
    PROVE  Honest(s, k)'
<1>1. Honest(s, call[s]) /\ call[s] \in Calls
  BY DEF SeenInv, HonestCalls, DispatchInv, TypeOK
<1>2. ASSUME k.answers PROVE Accounted(k.to, k.upto, {})'
  <2>1. call[s].to \in Chats /\ call[s].upto \in Nat
    BY <1>1, DispatchAssumption DEF Calls
  <2>2. PICK c \in Chats, ts \in Nat : c = k.to /\ ts = k.upto
    BY <2>1
  <2>3. Accounted(c, ts, {})
    BY <1>1, <1>2, <2>2 DEF Honest
  <2>4. Accounted(c, ts, {})'
    BY <2>3, AccountedStays
  <2> QED BY <2>2, <2>4
<1>3. k.at = "look" /\ k.own => s[1] # Principal
  BY <1>1 DEF Honest
<1> QED BY <1>2, <1>3 DEF Honest

\* Steps that leave the calls, but for whose turn they were let through for.
LEMMA CallsStay ==
    ASSUME DispatchInv, DispatchInv', SeenInv, Grows,
           \A s \in Slots : call'[s] # NoCall =>
              \/ call'[s] = call[s]
              \/ call[s] # NoCall /\ call'[s] = [call[s] EXCEPT !.own = FALSE]
    PROVE  HonestCalls'
<1> SUFFICES ASSUME NEW s \in Slots, call'[s] # NoCall PROVE Honest(s, call[s])'
  BY DEF HonestCalls
<1>1. PICK k \in Calls : k = call'[s]
  BY DEF DispatchInv, TypeOK
<1>2. call[s] # NoCall /\ (k = call[s] \/ k = [call[s] EXCEPT !.own = FALSE]) /\ call[s] \in Calls
  BY <1>1 DEF DispatchInv, TypeOK
<1>3. /\ k.answers => call[s].answers
      /\ k.to = call[s].to /\ k.upto = call[s].upto /\ k.at = call[s].at
      /\ k.own => call[s].own
  BY <1>2 DEF Calls
<1>4. Honest(s, k)'
  BY <1>2, <1>3, HonestStays
<1> QED BY <1>1, <1>4

\* A step binds no terminal anew.
Kept == \A t \in Terminals : turn'[t] # NoTurn =>
           Bound(t) /\ turn'[t].chat = turn[t].chat /\ turn'[t].burst = turn[t].burst

Fewer == push'.at # "injecting"
         /\ \A c \in Chats : push'.bursts[c] = {} \/ push'.bursts[c] = push.bursts[c]

\* Steps but the sweep's snapshot, registration and delivery.
LEMMA SweepStays ==
    ASSUME DispatchInv, DispatchInv', SeenInv, Grows, Kept, push' = push \/ Fewer,
           told' \subseteq told, \A t \in told' : turn'[t] # NoTurn
    PROVE  BurstsOK' /\ ToldOK'
<1>1. BurstsOK'
  <2>1. CASE push' = push
    <3>1. ASSUME push'.at = "injecting"
          PROVE  /\ push'.anchor \in push'.bursts[push'.chat]
                 /\ turn'[push'.term] # NoTurn =>
                       /\ turn'[push'.term].chat = push'.chat
                       /\ turn'[push'.term].burst = msg'[push'.anchor].ts
      <4>1. /\ push.at = "injecting" /\ push.anchor \in push.bursts[push.chat]
            /\ Bound(push.term) => /\ turn[push.term].chat = push.chat
                                   /\ turn[push.term].burst = msg[push.anchor].ts
        BY <2>1, <3>1 DEF SeenInv, BurstsOK
      <4>2. push.term \in Terminals /\ push.anchor \in Msgs /\ Arrived(push.anchor)
        BY <4>1 DEF DispatchInv, SweepOK
      <4>3. msg'[push.anchor].ts = msg[push.anchor].ts
        BY <4>2 DEF Grows
      <4> QED BY <2>1, <4>1, <4>2, <4>3 DEF Kept
    <3> QED BY <2>1, <3>1, BurstsStay
  <2>2. CASE Fewer
    BY <2>2, BurstsStay DEF Fewer
  <2> QED BY <2>1, <2>2
<1>2. ToldOK'
  <2>1. ASSUME NEW t \in told' PROVE (Bound(t) /\ Accounted(turn[t].chat, turn[t].burst, {}))'
    <3>1. t \in told /\ t \in Terminals
      BY <2>1 DEF DispatchInv, TypeOK
    <3> QED BY <2>1, <3>1, ToldStays DEF Kept
  <2> QED BY <2>1 DEF ToldOK
<1> QED BY <1>1, <1>2

LEMMA OnwardFewer == ASSUME DispatchInv, NEW c \in Chats, Onward(c) PROVE Fewer
<1> DEFINE rest == [push.bursts EXCEPT ![c] = {}]
<1>1. \A d \in Chats : rest[d] = {} \/ rest[d] = push.bursts[d]
  BY DEF DispatchInv, TypeOK, Sweeps
<1>2. push' = Idle \/ push' = [Idle EXCEPT !.at = "chats", !.bursts = rest, !.swamped = push.swamped]
  BY DEF Onward
<1> HIDE DEF rest
<1>3. CASE push' = Idle
  BY <1>3 DEF Idle, Fewer
<1>4. CASE push' = [Idle EXCEPT !.at = "chats", !.bursts = rest, !.swamped = push.swamped]
  <2>1. push'.at = "chats" /\ push'.bursts = rest
    BY <1>4 DEF Idle
  <2> QED BY <1>1, <2>1 DEF Fewer
<1> QED BY <1>2, <1>3, <1>4

\* Calls whose turn is gone are called off as answers of it.
CallsKept == \A s \in Slots : call'[s] # NoCall =>
                \/ call'[s] = call[s]
                \/ call[s] # NoCall /\ call'[s] = [call[s] EXCEPT !.own = FALSE]

LEMMA ReboundKeeps ==
    ASSUME DispatchInv, NEW T, Rebound(T)
    PROVE  told' = told \ T /\ CallsKept
BY DEF Rebound, CallsKept, DispatchInv, TypeOK

LEMMA ReleaseKeeps ==
    ASSUME DispatchInv, NEW T, Release(T), Rebound(T), SeenInv
    PROVE  Kept /\ CallsKept /\ told' \subseteq told /\ \A t \in told' : turn'[t] # NoTurn
<1>1. told' = told \ T /\ CallsKept
  BY ReboundKeeps
<1>2. \A t \in Terminals : turn'[t] = IF t \in T THEN NoTurn ELSE turn[t]
  BY DEF Release
<1>3. Kept
  BY <1>2 DEF Kept, Bound
<1>4. ASSUME NEW t \in told' PROVE turn'[t] # NoTurn
  <2>1. t \in told /\ t \notin T /\ t \in Terminals
    BY <1>1, <1>4 DEF DispatchInv, TypeOK
  <2> QED BY <1>2, <2>1 DEF SeenInv, ToldOK, Bound
<1> QED BY <1>1, <1>3, <1>4

LEMMA SameTurns ==
    ASSUME DispatchInv, SeenInv, UNCHANGED <<turn, told>>
    PROVE  Kept /\ told' \subseteq told /\ \A t \in told' : turn'[t] # NoTurn
BY DEF Kept, Bound, SeenInv, ToldOK

LEMMA CancelKeeps ==
    ASSUME DispatchInv, NEW t \in Terminals, Cancel(t), SeenInv
    PROVE  Kept /\ CallsKept /\ told' \subseteq told /\ \A u \in told' : turn'[u] # NoTurn
<1>1. CASE InFlight(t)
  <2>1. Release({t}) /\ Rebound({t})
    BY <1>1 DEF Cancel
  <2> QED BY <2>1, ReleaseKeeps
<1>2. CASE ~InFlight(t)
  <2>1. UNCHANGED <<turn, told, call>>
    BY <1>2 DEF Cancel
  <2> QED BY <2>1, SameTurns DEF CallsKept
<1> QED BY <1>1, <1>2
-----------------------------------------------------------------------------
(* The sweep. *)

\* Before a message of the window only the oldest Limit wait.
LEMMA WindowClosed ==
    ASSUME NEW m \in Msgs, NEW n \in Window, Pending(m),
           \A k \in Msgs : Pending(k) /\ Before(k, m) => Before(k, n)
    PROVE  m \in Window
<1> DEFINE A == {k \in Msgs : Pending(k) /\ Before(k, m)}
           B == {k \in Msgs : Pending(k) /\ Before(k, n)}
<1>1. A \subseteq B /\ B \subseteq Msgs
  OBVIOUS
<1>2. IsFiniteSet(Msgs)
  BY FS_Interval, DispatchAssumption DEF Msgs
<1>3. IsFiniteSet(B) /\ IsFiniteSet(A)
  BY <1>1, <1>2, FS_Subset
<1>4. Cardinality(A) <= Cardinality(B)
  BY <1>1, <1>3, FS_Subset
<1>5. Cardinality(B) < Limit
  BY DEF Window
<1>6. Cardinality(A) \in Nat /\ Cardinality(B) \in Nat /\ Limit \in Nat
  BY <1>3, FS_CardinalityType, DispatchAssumption
<1>7. Cardinality(A) < Limit
  BY <1>4, <1>5, <1>6
<1> QED BY <1>7 DEF Window

\* The window's messages of a chat account for it up to each of them.
LEMMA WindowAccounts ==
    ASSUME DispatchInv, SeenInv, NEW c \in Chats, NEW n \in {m \in Window : msg[m].chat = c}
    PROVE  Accounted(c, msg[n].ts, {m \in Window : msg[m].chat = c})
<1>1. n \in Window /\ n \in Msgs /\ Pending(n) /\ Arrived(n) /\ msg[n].chat = c
  BY DEF Window, Pending
<1>2. msg[n].ts \in Nat
  BY <1>1, StampIsNat
<1>3. ASSUME NEW m \in Msgs, Arrived(m), msg[m].chat = c, msg[m].ts <= msg[n].ts
      PROVE  m \in Window \/ Shown(m)
  <2>1. CASE msg[m].handled
    BY <1>3, <2>1 DEF SeenInv, ClosedOnlySeen, Shown
  <2>2. CASE n < m /\ msg[m].ts = msg[n].ts
    BY <1>1, <1>3, <2>2 DEF SeenInv, BooksOK, Overtaken, Shown
  <2>3. CASE ~msg[m].handled /\ ~(n < m /\ msg[m].ts = msg[n].ts)
    <3>1. msg[m].ts \in Nat /\ m \in Nat /\ n \in Nat
      <4>1. msg[m].ts \in Nat
        BY <1>3, StampIsNat
      <4>2. m \in Nat /\ n \in Nat
        BY <1>1 DEF Msgs
      <4> QED BY <4>1, <4>2
    <3>2. ASSUME NEW k \in Msgs, Pending(k), Before(k, m) PROVE Before(k, n)
      <4>1. msg[k].ts \in Nat /\ k \in Nat
        BY <3>2, StampIsNat DEF Pending, Msgs
      <4> QED BY <1>2, <1>3, <2>3, <3>1, <3>2, <4>1 DEF Before
    <3>3. Pending(m)
      BY <1>3, <2>3 DEF Pending
    <3> QED BY <1>1, <3>2, <3>3, WindowClosed
  <2> QED BY <2>1, <2>2, <2>3
<1>4. msg[n].ts <= msg[n].ts
  BY <1>2
<1> QED BY <1>1, <1>3, <1>4 DEF Accounted

LEMMA SnapshotSeen == ASSUME DispatchInv, SeenInv, Snapshot PROVE SeenInv'
<1> DEFINE bursts == [c \in Chats |-> {m \in Window : msg[m].chat = c}]
<1>1. /\ push' = Idle \/ push' = [Idle EXCEPT !.at = "chats", !.bursts = bursts, !.swamped = Swamped]
      /\ UNCHANGED <<msg, turn, call, shown, excused, told>>
  BY DEF Snapshot, historyVars
<1>2. DispatchInv'
  BY SnapshotInv
<1>3. Grows /\ BooksOK' /\ ClosedOnlySeen'
  BY <1>1, SameBooks
<1>4. /\ push'.at # "injecting"
      /\ \A c \in Chats : push'.bursts[c] = {} \/ push'.bursts[c] = {m \in Window : msg[m].chat = c}
  <2>1. CASE push' = Idle
    BY <2>1 DEF Idle
  <2>2. CASE push' = [Idle EXCEPT !.at = "chats", !.bursts = bursts, !.swamped = Swamped]
    <3>1. push'.at = "chats" /\ push'.bursts = bursts
      BY <2>2 DEF Idle
    <3> QED BY <3>1
  <2> QED BY <1>1, <2>1, <2>2
<1>5. ASSUME NEW c \in Chats, NEW n \in push'.bursts[c]
      PROVE  msg'[n].chat = c /\ Accounted(c, msg[n].ts, push.bursts[c])'
  <2>1. push'.bursts[c] = {m \in Window : msg[m].chat = c} /\ n \in Msgs /\ Arrived(n)
    BY <1>4, <1>5 DEF Window, Pending
  <2>2. PICK ts \in Nat, B \in SUBSET Msgs : ts = msg[n].ts /\ B = {m \in Window : msg[m].chat = c}
    BY <2>1, StampIsNat DEF Window
  <2>3. Accounted(c, ts, B) /\ msg[n].chat = c
    BY <1>5, <2>1, <2>2, WindowAccounts
  <2>4. Accounted(c, ts, B)'
    BY <1>2, <1>3, <2>3, AccountedStays
  <2> QED BY <1>1, <2>1, <2>2, <2>3, <2>4
<1>6. BurstsOK'
  BY <1>4, <1>5 DEF BurstsOK
<1>7. ToldOK' /\ HonestCalls'
  <2>1. Kept /\ told' \subseteq told /\ \A t \in told' : turn'[t] # NoTurn
    BY <1>1, SameTurns
  <2>2. ASSUME NEW t \in told' PROVE (Bound(t) /\ Accounted(turn[t].chat, turn[t].burst, {}))'
    BY <1>1, <1>2, <1>3, <2>1, <2>2, ToldStays
  <2> QED BY <1>1, <1>2, <1>3, <2>2, CallsStay DEF ToldOK
<1> QED BY <1>3, <1>6, <1>7 DEF SeenInv

LEMMA HoldSeen == ASSUME DispatchInv, SeenInv, NEW c \in Chats, Hold(c) PROVE SeenInv'
<1>1. UNCHANGED <<msg, turn, call, shown, excused, told>> /\ Fewer /\ DispatchInv'
  BY HoldInv, OnwardFewer DEF Hold, historyVars
<1>2. Grows /\ BooksOK' /\ ClosedOnlySeen'
  BY <1>1, SameBooks
<1>3. BurstsOK' /\ ToldOK'
  BY <1>1, <1>2, SameTurns, SweepStays
<1>4. HonestCalls'
  BY <1>1, <1>2, CallsStay
<1> QED BY <1>2, <1>3, <1>4 DEF SeenInv

\* The replies closed are replies whose sender was told.
LEMMA NotifySeen ==
    ASSUME DispatchInv, SeenInv, NEW c \in Chats, NEW queued \in BOOLEAN,
           NEW closed \in SUBSET push.bursts[c], NotifyUnreachable(c, queued, closed)
    PROVE  SeenInv'
<1> DEFINE replies == {m \in push.bursts[c] : msg[m].quotes = Goal(c)}
<1>1. /\ closed \subseteq (IF queued THEN replies ELSE {}) /\ Handle(closed) /\ Onward(c)
      /\ shown' = [m \in Msgs |-> IF queued /\ m \in replies THEN shown[m] \cup {NoTerminal}
                                  ELSE shown[m]]
      /\ UNCHANGED <<turn, call, excused, told>>
  BY DEF NotifyUnreachable
<1>2. DispatchInv' /\ Fewer
  BY <1>1, NotifyInv, OnwardFewer
<1>3. \A m \in closed : Arrived(m) /\ m \in Msgs
  BY DEF DispatchInv, SweepOK, TypeOK, Sweeps
<1>4. \A m \in closed : shown'[m] # {}
  BY <1>1, <1>3
<1>5. \A m \in Msgs : shown[m] \subseteq shown'[m]
  BY <1>1
<1> HIDE DEF replies
<1>6. Grows /\ BooksOK' /\ ClosedOnlySeen'
  BY <1>1, <1>3, <1>4, <1>5, HandleBooks
<1>7. BurstsOK' /\ ToldOK'
  BY <1>1, <1>2, <1>6, SameTurns, SweepStays
<1>8. HonestCalls'
  BY <1>1, <1>2, <1>6, CallsStay
<1> QED BY <1>6, <1>7, <1>8 DEF SeenInv

\* The terminal is bound to the burst, which its agent has not been told of.
LEMMA RegisterSeen == ASSUME DispatchInv, SeenInv, NEW c \in Chats, Register(c) PROVE SeenInv'
<1> DEFINE B == push.bursts[c]
           t == Goal(c)
           new == NewTurn(c, Level(c), msg[Newest(B)].ts)
<1>1. Newest(B) \in B /\ B \subseteq Msgs /\ t \in Terminals
  BY RouteType DEF Register
<1>2. /\ turn' = [u \in Terminals |-> IF u = t THEN new ELSE turn[u]]
      /\ Rebound({t}) /\ UNCHANGED <<msg, shown, excused>>
      /\ push' = [push EXCEPT !.at = "injecting", !.chat = c, !.term = t, !.anchor = Newest(B)]
  BY DEF Register, Bind
<1>3. new.chat = c /\ new.burst = msg[Newest(B)].ts
  BY DEF NewTurn
<1>4. DispatchInv'
  BY RegisterInv
<1>5. Grows /\ BooksOK' /\ ClosedOnlySeen'
  BY <1>2, SameBooks
<1>6. /\ push'.bursts = push.bursts /\ push'.chat = c /\ push'.term = t
      /\ push'.anchor = Newest(B)
  BY <1>2 DEF DispatchInv, TypeOK, Sweeps
<1>7. turn'[t].chat = c /\ turn'[t].burst = msg'[Newest(B)].ts
  BY <1>1, <1>2, <1>3
<1> HIDE DEF new, t
<1>8. BurstsOK'
  BY <1>1, <1>4, <1>5, <1>6, <1>7, BurstsStay
<1>9. told' = told \ {t} /\ CallsKept
  BY <1>2, ReboundKeeps
<1>10. ToldOK'
  <2>1. ASSUME NEW u \in told' PROVE (Bound(u) /\ Accounted(turn[u].chat, turn[u].burst, {}))'
    <3>1. u \in told /\ u # t /\ u \in Terminals
      BY <1>9, <2>1 DEF DispatchInv, TypeOK
    <3>2. turn'[u] = turn[u] /\ Bound(u)
      BY <1>2, <3>1 DEF SeenInv, ToldOK
    <3> QED BY <1>4, <1>5, <2>1, <3>1, <3>2, ToldStays DEF Bound
  <2> QED BY <2>1 DEF ToldOK
<1>11. HonestCalls'
  BY <1>4, <1>5, <1>9, CallsStay DEF CallsKept
<1> QED BY <1>5, <1>8, <1>10, <1>11 DEF SeenInv

\* What the agent is pushed is all that was left of its turn's burst.
LEMMA DeliverSeen == ASSUME DispatchInv, SeenInv, Deliver PROVE SeenInv'
<1>1. /\ push.at = "injecting" /\ push' = [push EXCEPT !.delivered = TRUE]
      /\ told' = (IF InFlight(push.term) THEN told \cup {push.term} ELSE told)
      /\ shown' = [m \in Msgs |-> IF m \in Pushed THEN shown[m] \cup {push.term} ELSE shown[m]]
      /\ UNCHANGED <<msg, turn, call, excused>>
  BY DEF Deliver
<1>2. DispatchInv'
  BY DeliverInv
<1>3. /\ push'.bursts = push.bursts /\ push'.chat = push.chat /\ push'.term = push.term
      /\ push'.anchor = push.anchor /\ push'.at = push.at
  BY <1>1 DEF DispatchInv, TypeOK, Sweeps
<1>4. \A m \in Msgs : shown[m] \subseteq shown'[m] /\ (m \in Pushed => shown'[m] # {})
  BY <1>1
<1>5. Grows
  BY <1>1, <1>4 DEF Grows, Arrived
<1>6. BooksOK' /\ ClosedOnlySeen'
  BY <1>1, <1>4 DEF SeenInv, BooksOK, ClosedOnlySeen, Overtaken, Arrived
<1>7. /\ push.chat \in Chats /\ push.term \in Terminals /\ push.anchor \in Pushed
      /\ push.anchor \in Msgs /\ Arrived(push.anchor)
      /\ Bound(push.term) => /\ turn[push.term].chat = push.chat
                             /\ turn[push.term].burst = msg[push.anchor].ts
  BY <1>1 DEF SeenInv, BurstsOK, DispatchInv, SweepOK, TypeOK, Sweeps, Pushed
<1>8. BurstsOK'
  BY <1>1, <1>2, <1>3, <1>5, <1>7, BurstsStay DEF Bound, Pushed
<1>9. Accounted(push.chat, msg[push.anchor].ts, Pushed)
  BY <1>7 DEF SeenInv, BurstsOK, Pushed
<1>10. PICK c \in Chats, ts \in Nat, B \in SUBSET Msgs :
          c = push.chat /\ ts = msg[push.anchor].ts /\ B = Pushed
  BY <1>7, StampIsNat DEF DispatchInv, TypeOK, Sweeps, Pushed
<1>11. Accounted(c, ts, {})'
  <2>1. Accounted(c, ts, B)'
    BY <1>2, <1>5, <1>9, <1>10, AccountedStays
  <2> QED BY <2>1, <1>4, <1>10 DEF Accounted, Shown
<1>12. ToldOK'
  <2>1. ASSUME NEW t \in told' PROVE (Bound(t) /\ Accounted(turn[t].chat, turn[t].burst, {}))'
    <3>1. CASE t \in told
      <4>1. Bound(t)
        BY <3>1 DEF SeenInv, ToldOK
      <4> QED BY <1>1, <1>2, <1>5, <2>1, <3>1, <4>1, ToldStays DEF Bound
    <3>2. CASE t \notin told
      <4>1. t = push.term /\ InFlight(push.term)
        BY <1>1, <2>1, <3>2
      <4>2. turn'[t] # NoTurn /\ turn'[t].chat = c /\ turn'[t].burst = ts
        BY <1>1, <1>7, <1>10, <4>1 DEF InFlight, Bound
      <4> QED BY <1>11, <4>2 DEF Bound
    <3> QED BY <3>1, <3>2
  <2> QED BY <2>1 DEF ToldOK
<1>13. HonestCalls'
  BY <1>1, <1>2, <1>5, CallsStay
<1> QED BY <1>6, <1>8, <1>12, <1>13 DEF SeenInv

\* The push ends, one way or another.
LEMMA PushEndsSeen ==
    ASSUME DispatchInv, SeenInv, InjectOk \/ InjectFails \/ InjectGone
    PROVE  SeenInv'
<1>1. push.chat \in Chats /\ push.term \in Terminals
  BY DEF InjectOk, InjectFails, InjectGone, DispatchInv, SweepOK
<1>2. DispatchInv'
  BY InjectOkInv, InjectFailsInv, InjectGoneInv
<1>3. UNCHANGED <<msg, shown, excused>> /\ Fewer
  BY <1>1, OnwardFewer DEF InjectOk, InjectFails, InjectGone, historyVars
<1>4. Kept /\ CallsKept /\ told' \subseteq told /\ \A t \in told' : turn'[t] # NoTurn
  <2>1. CASE InjectOk
    <3>1. UNCHANGED <<turn, told, call>>
      BY <2>1 DEF InjectOk, historyVars
    <3> QED BY <3>1, SameTurns DEF CallsKept
  <2>2. CASE InjectFails \/ InjectGone
    <3>1. Cancel(push.term)
      BY <2>2 DEF InjectFails, InjectGone
    <3> QED BY <1>1, <3>1, CancelKeeps
  <2> QED BY <2>1, <2>2
<1>5. Grows /\ BooksOK' /\ ClosedOnlySeen'
  BY <1>3, SameBooks
<1>6. BurstsOK' /\ ToldOK'
  BY <1>2, <1>3, <1>4, <1>5, SweepStays
<1>7. HonestCalls'
  BY <1>2, <1>4, <1>5, CallsStay DEF CallsKept
<1> QED BY <1>5, <1>6, <1>7 DEF SeenInv
-----------------------------------------------------------------------------
(* The tool calls. *)

\* The next step of a call is about the same messages.
LEMMA DoneKeeps ==
    ASSUME NEW k \in Calls, k.tool = "silent" => k.at \in {"mark", "consume"}, Done(k) # NoCall
    PROVE  /\ Done(k).answers = k.answers /\ Done(k).to = k.to /\ Done(k).upto = k.upto
           /\ Done(k).at # "look"
<1> DEFINE step == After[k.tool][k.at]
<1>1. /\ k.tool \in {"send", "draft", "silent"}
      /\ k.at \in {"look", "post", "consume", "mark", "markOther"}
  BY DEF Calls
<1>2. step # "look"
  <2>1. CASE k.tool = "send"
    BY <1>1, <2>1 DEF After
  <2>2. CASE k.tool = "draft"
    BY <1>1, <2>2 DEF After
  <2>3. CASE k.tool = "silent"
    BY <2>3 DEF After
  <2> QED BY <1>1, <2>1, <2>2, <2>3
<1>3. Done(k) = [k EXCEPT !.at = step]
  BY DEF Done
<1> HIDE DEF step
<1> QED BY <1>2, <1>3 DEF Calls

\* One call gets to its next step, or ends; the others stay.
LEMMA CallMoves ==
    ASSUME DispatchInv, DispatchInv', SeenInv, Grows, NEW s \in Slots, call[s] # NoCall,
           call' = [call EXCEPT ![s] = Done(@)] \/ call' = [call EXCEPT ![s] = NoCall]
    PROVE  HonestCalls'
<1>1. call[s] \in Calls /\ (call[s].tool = "silent" => call[s].at \in {"mark", "consume"})
  BY DEF DispatchInv, TypeOK, CallsOK
<1>2. /\ call'[s] = NoCall \/ call'[s] = Done(call[s])
      /\ \A r \in Slots : r # s => call'[r] = call[r]
  BY DEF DispatchInv, TypeOK
<1>3. ASSUME NEW r \in Slots, call'[r] # NoCall PROVE Honest(r, call[r])'
  <2>1. PICK k \in Calls : k = call'[r]
    BY <1>3 DEF DispatchInv, TypeOK
  <2>2. CASE r # s
    <3>1. k = call[r] /\ call[r] # NoCall
      BY <1>2, <1>3, <2>1, <2>2
    <3>2. Honest(r, k)'
      BY <3>1, HonestStays
    <3> QED BY <2>1, <3>2
  <2>3. CASE r = s
    <3>1. k = Done(call[s]) /\ Done(call[s]) # NoCall
      BY <1>2, <1>3, <2>1, <2>3
    <3>2. k.answers = call[s].answers /\ k.to = call[s].to /\ k.upto = call[s].upto /\ k.at # "look"
      BY <1>1, <3>1, DoneKeeps
    <3>3. Honest(s, k)'
      BY <3>2, HonestStays
    <3> QED BY <2>1, <2>3, <3>3
  <2> QED BY <2>2, <2>3
<1> QED BY <1>3 DEF HonestCalls

\* A new call, or one that has looked, beside the others.
LEMMA CallSet ==
    ASSUME DispatchInv, DispatchInv', SeenInv, Grows, NEW s \in Slots, NEW k \in Calls \cup {NoCall},
           call' = [call EXCEPT ![s] = k], k # NoCall => Honest(s, k)'
    PROVE  HonestCalls'
<1>1. call'[s] = k /\ \A r \in Slots : r # s => call'[r] = call[r]
  BY DEF DispatchInv, TypeOK
<1>2. ASSUME NEW r \in Slots, call'[r] # NoCall PROVE Honest(r, call[r])'
  <2>1. CASE r # s
    <3>1. PICK j \in Calls : j = call'[r]
      BY <1>2 DEF DispatchInv, TypeOK
    <3>2. j = call[r] /\ call[r] # NoCall
      BY <1>1, <1>2, <2>1, <3>1
    <3>3. Honest(r, j)'
      BY <3>2, HonestStays
    <3> QED BY <3>1, <3>3
  <2>2. CASE r = s
    BY <1>1, <1>2, <2>2
  <2> QED BY <2>1, <2>2
<1> QED BY <1>2 DEF HonestCalls

LEMMA ValidateSeen ==
    ASSUME DispatchInv, SeenInv, NEW s \in Slots, NEW tool \in {"send", "draft"}, NEW c \in Chats,
           Validate(s, tool, c)
    PROVE  SeenInv'
<1> DEFINE k == [NewCall(Acting(tool, c), "look", c) EXCEPT !.own = s[1] # Principal]
<1>1. Acting(tool, c) \in {"send", "draft"} /\ 0 \in Bursts
  BY DispatchAssumption DEF Acting
<1>2. k \in Calls /\ k.answers = FALSE /\ k.own = (s[1] # Principal)
  BY <1>1 DEF NewCall, Calls
<1>3. call' = [call EXCEPT ![s] = k] /\ UNCHANGED <<msg, turn, push, shown, excused, told>>
  BY DEF Validate, sweepVars, historyVars
<1> HIDE DEF k
<1>4. DispatchInv'
  BY ValidateInv
<1>5. Grows /\ BooksOK' /\ ClosedOnlySeen'
  BY <1>3, SameBooks
<1>6. BurstsOK' /\ ToldOK'
  BY <1>3, <1>4, <1>5, SameTurns, SweepStays
<1>7. ~k.answers /\ (k.own => s[1] # Principal)
  BY <1>2, Zenon
<1>8. Honest(s, k)'
  BY <1>7 DEF Honest
<1>9. HonestCalls'
  BY <1>2, <1>3, <1>4, <1>5, <1>8, CallSet
<1> QED BY <1>5, <1>6, <1>9 DEF SeenInv

\* silent_act marks the burst of its turn.
LEMMA SilentActSeen ==
    ASSUME DispatchInv, SeenInv, NEW s \in Slots, SilentAct(s)
    PROVE  SeenInv'
<1> DEFINE t == s[1]
           new == [NewCall("silent", "mark", turn[t].chat) EXCEPT
                     !.upto = turn[t].burst, !.own = TRUE, !.answers = t \in told]
<1>1. t \in Terminals /\ 0 \in Bursts /\ Bound(t)
  BY DispatchAssumption DEF SilentAct, Ready, Bound
<1>2. turn[t].chat \in Chats /\ turn[t].burst \in Bursts
  BY <1>1, BoundTurn
<1>3. new \in Calls /\ new.at = "mark" /\ new.to = turn[t].chat /\ new.upto = turn[t].burst
  <2>1. turn[t].chat \in Chats /\ turn[t].burst \in Bursts /\ 0 \in Bursts /\ (t \in told) \in BOOLEAN
    BY <1>1, <1>2
  <2> HIDE DEF t
  <2> QED BY <2>1 DEF NewCall, Calls
<1>4. new.answers = (t \in told)
  BY DEF NewCall
<1>5. call' = [call EXCEPT ![s] = new] /\ UNCHANGED <<msg, turn, push, shown, excused, told>>
  BY DEF SilentAct, sweepVars, historyVars
<1> HIDE DEF new
<1>6. PICK k \in Calls : k = new
  BY <1>3
<1>7. DispatchInv'
  BY SilentActInv
<1>8. Grows /\ BooksOK' /\ ClosedOnlySeen'
  BY <1>5, SameBooks
<1>9. BurstsOK' /\ ToldOK'
  BY <1>5, <1>7, <1>8, SameTurns, SweepStays
<1>10. PICK c \in Chats, ts \in Nat : c = k.to /\ ts = k.upto
  BY <1>2, <1>3, <1>6, DispatchAssumption
<1>11. Honest(s, k)'
  <2>1. ASSUME k.answers PROVE Accounted(c, ts, {})'
    <3>1. t \in told
      BY <1>4, <1>6, <2>1, Zenon
    <3>2. Accounted(c, ts, {})
      BY <1>3, <1>6, <1>10, <3>1 DEF SeenInv, ToldOK
    <3> QED BY <1>7, <1>8, <3>2, AccountedStays
  <2> QED BY <1>3, <1>6, <1>10, <2>1 DEF Honest
<1>12. HonestCalls'
  BY <1>5, <1>6, <1>7, <1>8, <1>11, CallSet
<1> QED BY <1>8, <1>9, <1>12 DEF SeenInv

\* The second look: only an agent that was pushed its turn answers it.
LEMMA LookSeen == ASSUME DispatchInv, SeenInv, NEW s \in Slots, Look(s) PROVE SeenInv'
<1> DEFINE t == s[1]
           answers == call[s].own /\ t \in told /\ turn[t].chat = call[s].to
           seen == [call[s] EXCEPT
                      !.upto = UptoOf(t),
                      !.other = IF Bound(t) THEN turn[t].chat ELSE call[s].to,
                      !.otherUpto = IF Bound(t) THEN turn[t].burst ELSE 0,
                      !.answers = answers]
<1>1. /\ t \in Terminals /\ 0 \in Bursts
      /\ call[s] \in Calls /\ call[s].at = "look" /\ call[s].tool # "silent" /\ call[s] # NoCall
  <2>1. t \in Terminals /\ 0 \in Bursts
    BY DispatchAssumption
  <2>2. call[s] \in Calls /\ call[s].at = "look" /\ call[s] # NoCall
    BY DEF Look, At, DispatchInv, TypeOK
  <2>3. call[s].tool # "silent"
    BY <2>2 DEF Look, At, CallsOK, DispatchInv
  <2> QED BY <2>1, <2>2, <2>3
<1>2. Bound(t) => turn[t].chat \in Chats /\ turn[t].burst \in Bursts
  BY <1>1, BoundTurn
<1>3. UptoOf(t) \in Bursts
  BY <1>2, DispatchAssumption DEF UptoOf, DispatchInv, TypeOK
<1>4. call[s].own \in BOOLEAN /\ call[s].to \in Chats
  BY <1>1 DEF Calls
<1>5. seen \in Calls /\ seen.tool # "silent" /\ seen.to = call[s].to /\ seen.upto = UptoOf(t)
  BY <1>1, <1>2, <1>3, <1>4 DEF Calls
<1>6. seen.answers = answers
  BY <1>1 DEF Calls
<1>7. call' = [call EXCEPT ![s] = Done(seen)] /\ UNCHANGED <<msg, turn, push, shown, excused, told>>
  BY DEF Look, sweepVars, historyVars
<1> HIDE DEF seen
<1>8. DispatchInv'
  BY LookInv
<1>9. Grows /\ BooksOK' /\ ClosedOnlySeen'
  BY <1>7, SameBooks
<1>10. BurstsOK' /\ ToldOK'
  BY <1>7, <1>8, <1>9, SameTurns, SweepStays
<1>11. ASSUME seen.answers PROVE Accounted(seen.to, seen.upto, {})
  <2>1. call[s].own /\ t \in told /\ turn[t].chat = call[s].to
    BY <1>6, <1>11, Zenon
  <2>2. t # Principal /\ Bound(t) /\ Accounted(turn[t].chat, turn[t].burst, {})
    BY <1>1, <2>1 DEF SeenInv, HonestCalls, Honest, ToldOK
  <2>3. UptoOf(t) = turn[t].burst
    BY <2>2 DEF UptoOf
  <2> QED BY <1>5, <2>1, <2>2, <2>3
<1>12. PICK k \in Calls \cup {NoCall} : k = Done(seen)
  BY <1>5, DoneType
<1>13. ASSUME k # NoCall PROVE Honest(s, k)'
  <2>1. k.answers = seen.answers /\ k.to = seen.to /\ k.upto = seen.upto /\ k.at # "look"
    BY <1>5, <1>12, <1>13, DoneKeeps
  <2>2. PICK c \in Chats, ts \in Nat : c = k.to /\ ts = k.upto
    BY <1>3, <1>4, <1>5, <2>1, DispatchAssumption
  <2>3. ASSUME k.answers PROVE Accounted(c, ts, {})'
    BY <1>8, <1>9, <1>11, <2>1, <2>2, <2>3, AccountedStays
  <2> QED BY <2>1, <2>2, <2>3 DEF Honest
<1>14. HonestCalls'
  BY <1>7, <1>8, <1>9, <1>12, <1>13, CallSet
<1> QED BY <1>9, <1>10, <1>14 DEF SeenInv

LEMMA PostSeen ==
    ASSUME DispatchInv, SeenInv, NEW s \in Slots, NEW ok, Post(s, ok) PROVE SeenInv'
<1>1. /\ call[s] # NoCall
      /\ call' = [call EXCEPT ![s] = Done(@)] \/ call' = [call EXCEPT ![s] = NoCall]
      /\ UNCHANGED <<msg, turn, push, shown, excused, told>>
  BY DEF Post, At, sweepVars
<1>2. DispatchInv'
  BY PostInv
<1>3. Grows /\ BooksOK' /\ ClosedOnlySeen'
  BY <1>1, SameBooks
<1>4. BurstsOK' /\ ToldOK'
  BY <1>1, <1>2, <1>3, SameTurns, SweepStays
<1>5. HonestCalls'
  BY <1>1, <1>2, <1>3, CallMoves
<1> QED BY <1>3, <1>4, <1>5 DEF SeenInv

\* A turn that is used stays the turn it was.
LEMMA PhaseKeeps ==
    ASSUME DispatchInv, SeenInv, NEW t \in Terminals,
           NEW phase \in {"locked", "ready", "done"}, Bound(t),
           turn' = [turn EXCEPT ![t].phase = phase], told' = told
    PROVE  Kept /\ told' \subseteq told /\ \A u \in told' : turn'[u] # NoTurn
<1>1. turn[t] \in Turns /\ turn \in [Terminals -> Turns \cup {NoTurn}]
  BY DEF DispatchInv, TypeOK, Bound
<1> DEFINE used == [turn[t] EXCEPT !.phase = phase]
<1>2. used.chat = turn[t].chat /\ used.burst = turn[t].burst /\ used # NoTurn
  <2>1. used \in Turns /\ used.chat = turn[t].chat /\ used.burst = turn[t].burst
    BY <1>1 DEF Turns
  <2> QED BY <2>1, DispatchAssumption
<1>3. turn'[t] = used /\ \A u \in Terminals : u # t => turn'[u] = turn[u]
  BY <1>1
<1> HIDE DEF used
<1>4. Kept
  BY <1>2, <1>3 DEF Kept, Bound
<1>5. ASSUME NEW u \in told PROVE turn'[u] # NoTurn
  <2>1. u \in Terminals /\ turn[u] # NoTurn
    BY DEF DispatchInv, TypeOK, SeenInv, ToldOK, Bound
  <2> QED BY <1>2, <1>3, <2>1
<1> QED BY <1>4, <1>5

LEMMA ConsumeSeen == ASSUME DispatchInv, SeenInv, NEW s \in Slots, Consume(s) PROVE SeenInv'
<1>1. /\ call[s] # NoCall /\ call' = [call EXCEPT ![s] = Done(@)]
      /\ UNCHANGED <<msg, push, shown, excused, told>> /\ s[1] \in Terminals
  BY DispatchAssumption DEF Consume, At, sweepVars, historyVars
<1>2. DispatchInv'
  BY ConsumeInv
<1>3. Kept /\ told' \subseteq told /\ \A u \in told' : turn'[u] # NoTurn
  <2>1. CASE Bound(s[1])
    <3>1. turn' = [turn EXCEPT ![s[1]].phase = "done"]
      BY <2>1 DEF Consume, Use
    <3> QED BY <1>1, <2>1, <3>1, PhaseKeeps
  <2>2. CASE ~Bound(s[1])
    BY <1>1, <2>2, SameTurns DEF Consume
  <2> QED BY <2>1, <2>2
<1>4. Grows /\ BooksOK' /\ ClosedOnlySeen'
  BY <1>1, SameBooks
<1>5. BurstsOK' /\ ToldOK'
  BY <1>1, <1>2, <1>3, <1>4, SweepStays
<1>6. HonestCalls'
  BY <1>1, <1>2, <1>4, CallMoves
<1> QED BY <1>4, <1>5, <1>6 DEF SeenInv

\* A call that answers a pushed turn marks what was seen; the others excuse it.
LEMMA MarkSeen ==
    ASSUME DispatchInv, SeenInv, NEW s \in Slots, NEW ok, Mark(s, ok) PROVE SeenInv'
<1> DEFINE S == IF ok THEN Upto(call[s].to, call[s].upto) ELSE {}
<1>1. S \subseteq Msgs /\ \A m \in S : Arrived(m) /\ msg[m].chat = call[s].to /\ msg[m].ts <= call[s].upto
  BY DEF Upto, Pending
<1>2. /\ call[s] # NoCall /\ Handle(S) /\ call' = [call EXCEPT ![s] = Done(@)]
      /\ excused' = (IF call[s].answers THEN excused ELSE excused \cup S)
      /\ UNCHANGED <<turn, push, shown, told>>
  BY DEF Mark, At, sweepVars
<1> HIDE DEF S
<1>3. DispatchInv'
  BY MarkInv
<1>4. \A m \in S : shown'[m] # {} \/ m \in excused'
  <2>1. CASE call[s].answers
    <3>1. Accounted(call[s].to, call[s].upto, {})
      BY <1>2, <2>1 DEF SeenInv, HonestCalls, Honest
    <3> QED BY <1>1, <1>2, <3>1 DEF Accounted, Shown
  <2>2. CASE ~call[s].answers
    BY <1>2, <2>2
  <2> QED BY <2>1, <2>2
<1>5. excused \subseteq excused' /\ \A m \in Msgs : shown[m] \subseteq shown'[m]
  BY <1>2
<1>6. Grows /\ BooksOK' /\ ClosedOnlySeen'
  BY <1>1, <1>2, <1>4, <1>5, HandleBooks
<1>7. BurstsOK' /\ ToldOK'
  BY <1>2, <1>3, <1>6, SameTurns, SweepStays
<1>8. HonestCalls'
  BY <1>2, <1>3, <1>6, CallMoves
<1> QED BY <1>6, <1>7, <1>8 DEF SeenInv

LEMMA MarkOtherSeen ==
    ASSUME DispatchInv, SeenInv, NEW s \in Slots, NEW ok, MarkOther(s, ok) PROVE SeenInv'
<1> DEFINE S == IF ok /\ call[s].other # call[s].to
                THEN Upto(call[s].other, call[s].otherUpto) ELSE {}
<1>1. S \subseteq Msgs /\ \A m \in S : Arrived(m)
  BY DEF Upto, Pending
<1>2. /\ call[s] # NoCall /\ Handle(S) /\ call' = [call EXCEPT ![s] = Done(@)]
      /\ excused' = excused \cup S
      /\ UNCHANGED <<turn, push, shown, told>>
  BY DEF MarkOther, At, sweepVars
<1> HIDE DEF S
<1>3. DispatchInv'
  BY MarkOtherInv
<1>4. \A m \in S : shown'[m] # {} \/ m \in excused'
  BY <1>2
<1>5. excused \subseteq excused' /\ \A m \in Msgs : shown[m] \subseteq shown'[m]
  BY <1>2
<1>6. Grows /\ BooksOK' /\ ClosedOnlySeen'
  BY <1>1, <1>2, <1>4, <1>5, HandleBooks
<1>7. BurstsOK' /\ ToldOK'
  BY <1>2, <1>3, <1>6, SameTurns, SweepStays
<1>8. HonestCalls'
  BY <1>2, <1>3, <1>6, CallMoves
<1> QED BY <1>6, <1>7, <1>8 DEF SeenInv
-----------------------------------------------------------------------------
(* Agents, time, the environment. *)

LEMMA TurnStepSeen ==
    ASSUME DispatchInv, SeenInv, NEW t \in Terminals, Ritual(t) \/ Expire(t) PROVE SeenInv'
<1>1. DispatchInv' /\ UNCHANGED <<msg, push, shown, excused>>
  BY RitualInv, ExpireInv DEF Ritual, Expire, sweepVars, historyVars
<1>2. Kept /\ CallsKept /\ told' \subseteq told /\ \A u \in told' : turn'[u] # NoTurn
  <2>1. CASE Ritual(t)
    <3>1. /\ Bound(t) /\ turn' = [turn EXCEPT ![t].phase = "ready"] /\ UNCHANGED <<call, told>>
      BY <2>1 DEF Ritual, Open, historyVars
    <3>2. CallsKept
      BY <3>1 DEF CallsKept
    <3> QED BY <3>1, <3>2, PhaseKeeps
  <2>2. CASE Expire(t)
    BY <2>2, ReleaseKeeps DEF Expire
  <2> QED BY <2>1, <2>2
<1>3. Grows /\ BooksOK' /\ ClosedOnlySeen'
  BY <1>1, SameBooks
<1>4. BurstsOK' /\ ToldOK'
  BY <1>1, <1>2, <1>3, SweepStays
<1>5. HonestCalls'
  BY <1>1, <1>2, <1>3, CallsStay DEF CallsKept
<1> QED BY <1>3, <1>4, <1>5 DEF SeenInv

LEMMA ArriveSeen ==
    ASSUME DispatchInv, SeenInv, NEW m \in Msgs, NEW c \in Chats, NEW q \in Quotable \cup {NoTerminal},
           NEW ts \in Bursts, Arrive(m, c, q, ts)
    PROVE  SeenInv'
<1>1. DispatchInv' /\ UNCHANGED <<turn, push, call, told>>
  BY ArriveInv DEF Arrive, sweepVars
<1>2. Grows /\ BooksOK' /\ ClosedOnlySeen'
  BY ArriveBooks
<1>3. BurstsOK' /\ ToldOK'
  BY <1>1, <1>2, SameTurns, SweepStays
<1>4. HonestCalls'
  BY <1>1, <1>2, CallsStay
<1> QED BY <1>2, <1>3, <1>4 DEF SeenInv

\* After a restart nobody has a turn, and what was not seen waits again.
LEMMA RestartSeen == ASSUME DispatchInv, SeenInv, Restart PROVE SeenInv'
<1>1. /\ UNCHANGED <<msg, shown, excused>> /\ push' = Idle /\ told' = {}
      /\ call' = [s \in Slots |-> NoCall] /\ turn' = [t \in Terminals |-> NoTurn]
  BY DEF Restart, Release
<1>2. Grows /\ BooksOK' /\ ClosedOnlySeen'
  BY <1>1, SameBooks
<1>3. BurstsOK'
  BY <1>1 DEF BurstsOK, Idle
<1>4. ToldOK' /\ HonestCalls'
  BY <1>1 DEF ToldOK, HonestCalls
<1> QED BY <1>2, <1>3, <1>4 DEF SeenInv

\* What touches nothing the invariant is about.
LEMMA AsideSeen ==
    ASSUME DispatchInv, DispatchInv', SeenInv, UNCHANGED <<msg, turn, push, call, shown, excused, told>>
    PROVE  SeenInv'
<1>1. Grows /\ BooksOK' /\ ClosedOnlySeen'
  BY SameBooks
<1>2. BurstsOK' /\ ToldOK'
  BY <1>1, SameTurns, SweepStays
<1>3. HonestCalls'
  BY <1>1, CallsStay
<1> QED BY <1>1, <1>2, <1>3 DEF SeenInv

LEMMA InitSeen == Init => SeenInv
<1> SUFFICES ASSUME Init PROVE SeenInv
  OBVIOUS
<1>1. BooksOK /\ ClosedOnlySeen
  BY DEF Init, BooksOK, ClosedOnlySeen, Arrived
<1>2. BurstsOK
  BY DEF Init, Idle, BurstsOK
<1>3. ToldOK /\ HonestCalls
  BY DEF Init, ToldOK, HonestCalls
<1> QED BY <1>1, <1>2, <1>3 DEF SeenInv

LEMMA NextSeen == ASSUME DispatchInv, SeenInv, [Next]_vars PROVE SeenInv'
<1>1. CASE SweepStep
  <2>1. ASSUME NEW c \in Chats, NEW queued \in BOOLEAN, NEW closed \in SUBSET push.bursts[c],
               NotifyUnreachable(c, queued, closed)
        PROVE  SeenInv'
    BY <2>1, NotifySeen
  <2> QED BY <1>1, <2>1, SnapshotSeen, HoldSeen, RegisterSeen, DeliverSeen, PushEndsSeen
          DEF SweepStep
<1>2. CASE \E s \in Slots : CallStep(s)
  BY <1>2, LookSeen, ConsumeSeen, PostSeen, MarkSeen, MarkOtherSeen DEF CallStep
<1>3. CASE AgentStep
  BY <1>3, TurnStepSeen, SilentActSeen, ValidateSeen DEF AgentStep
<1>4. CASE \E t \in Terminals : Expire(t)
  BY <1>4, TurnStepSeen
<1>5. CASE \E t \in Terminals, v \in Antennas : Rewire(t, v)
  <2>1. UNCHANGED <<msg, turn, push, call, shown, excused, told>>
    BY <1>5 DEF Rewire, sweepVars, historyVars
  <2> QED BY <2>1, NextInv, AsideSeen
<1>6. CASE \E m \in Msgs, c \in Chats, q \in Quotable \cup {NoTerminal}, ts \in Bursts :
              Arrive(m, c, q, ts)
  BY <1>6, ArriveSeen
<1>7. CASE Tick
  <2>1. UNCHANGED <<msg, turn, push, call, shown, excused, told>>
    BY <1>7 DEF Tick, sweepVars, historyVars
  <2> QED BY <2>1, NextInv, AsideSeen
<1>8. CASE Restart
  BY <1>8, RestartSeen
<1>9. CASE UNCHANGED vars
  <2>1. UNCHANGED <<msg, turn, push, call, shown, excused, told>>
    BY <1>9 DEF vars, sweepVars, historyVars
  <2> QED BY <2>1, NextInv, AsideSeen
<1> QED BY <1>1, <1>2, <1>3, <1>4, <1>5, <1>6, <1>7, <1>8, <1>9 DEF Next

\* Whatever tools, sweeps, failures, late messages and restarts do to each other,
\* a message is closed only after somebody was pushed it or its sender was told,
\* or by one of the named exceptions (send.go "mark only what was actually
\* dispatched", notifyAgentUnreachable).
THEOREM ClosedSeen == Spec => []ClosedOnlySeen
<1>1. DispatchInv /\ SeenInv => ClosedOnlySeen
  BY DEF SeenInv
<1>2. DispatchInv /\ SeenInv /\ [Next]_vars => DispatchInv' /\ SeenInv'
  BY NextInv, NextSeen
<1> QED BY <1>1, <1>2, InitInv, InitSeen, PTL DEF Spec
=============================================================================
