---------------------------- MODULE OutboxProofs ----------------------------
(***************************************************************************)
(* What holds of the outbox for any number of messages, retries, owners    *)
(* and mishaps: type correctness; how often a message is tried, delivered  *)
(* and in which order; the daily cap across restarts; the emergency stop;  *)
(* that every step is one of the courier's; and that two properties the    *)
(* code violates hold without a restart, and without a reset.              *)
(*                                                                         *)
(* QueueOK, CapOK and StopOK are the three parts of the inductive          *)
(* invariant, each proved on its own from TypeOK.                          *)
(***************************************************************************)
EXTENDS Outbox, FiniteSetTheorems, WellFoundedInduction, TLAPS

-----------------------------------------------------------------------------
(* The row in hand. *)

LEMMA LeastInSeqs ==
    ASSUME NEW S, S \subseteq Seqs, S # {}
    PROVE  First(S) \in S /\ \A j \in S : First(S) <= j
<1>1. S \subseteq Nat
  BY OutboxAssumption DEF Seqs
<1> DEFINE R == OpToRel(<, Nat)
<1>2. IsWellFoundedOn(R, Nat)
  BY NatLessThanWellFounded
<1> HIDE DEF R
<1>3. PICK x \in S : \A y \in S : ~ (<<y, x>> \in R)
  BY <1>1, <1>2, WFMin
<1>4. \A y \in S : ~ (y < x)
  BY <1>1, <1>3 DEF R, OpToRel
<1>5. \E i \in S : \A j \in S : i <= j
  BY <1>1, <1>4
<1> QED BY <1>5 DEF First

\* Outside "idle" the loop has a row in hand, the oldest of those left.
LEMMA RowInHand ==
    ASSUME TypeOK, loop.at # "idle"
    PROVE  /\ Item \in loop.rest /\ Item \in Seqs
           /\ \A j \in loop.rest : Item <= j
<1>1. loop.rest \subseteq Seqs /\ loop.rest # {}
  BY DEF TypeOK
<1> QED BY <1>1, LeastInSeqs DEF Item

LEMMA AdvanceMoves ==
    ASSUME TypeOK, loop.at # "idle", Advance
    PROVE  /\ loop' \in [at : Stages, rest : SUBSET Seqs, today : BOOLEAN]
           /\ loop'.at = "idle" <=> loop'.rest = {}
           /\ loop'.at \in {"idle", "head"} /\ ~loop'.today
           /\ loop'.rest = loop.rest \ {Item}
BY DEF TypeOK, Advance, Stages

LEMMA ReturnMoves ==
    ASSUME Return
    PROVE  /\ loop' \in [at : Stages, rest : SUBSET Seqs, today : BOOLEAN]
           /\ loop'.at = "idle" /\ loop'.rest = {} /\ ~loop'.today
BY DEF Return, Stages

LEMMA SpendLeft ==
    ASSUME TypeOK, NEW m \in Mishaps, Spend(m)
    PROVE  left' \in [Mishaps -> Nat]
BY DEF TypeOK, Spend

LEMMA WriteLeft ==
    ASSUME TypeOK, NEW ok \in BOOLEAN, Write(ok)
    PROVE  left' \in [Mishaps -> Nat]
<1>1. "fault" \in Mishaps
  BY DEF Mishaps
<1>2. CASE ok
  BY <1>2 DEF TypeOK, Write
<1>3. CASE ~ok
  BY <1>1, <1>3, SpendLeft DEF Write
<1> QED BY <1>2, <1>3

-----------------------------------------------------------------------------
(* Type correctness. *)

LEMMA InitTypeOK == Init => TypeOK
<1> SUFFICES ASSUME Init PROVE TypeOK
  OBVIOUS
<1>1. KillTypeOK
  <2>1. Idle \in Call
    BY DEF Idle, Call, Steps
  <2>2. up = TRUE /\ setting = FALSE /\ kill = FALSE /\ muted = FALSE
        /\ tripping = FALSE /\ brake = FALSE /\ banned = FALSE
    BY DEF Init, KillInit
  <2>3. {up, setting, kill, muted, tripping, brake, banned} \subseteq BOOLEAN
    BY <2>2
  <2> QED BY <2>1, <2>3 DEF Init, KillInit, KillTypeOK
<1>2. /\ rows \in [Seqs -> Row \cup {NoRow}] /\ last \in 0 .. MaxSeq
      /\ connected \in BOOLEAN
      /\ attempts \in [Seqs -> Nat] /\ delivered \in [Seqs -> Nat]
      /\ {recorded, sentToday, uncounted, erased, blurred} \subseteq Nat
  BY OutboxAssumption DEF Init, OutboxInit
<1>3. /\ left \in [Mishaps -> Nat]
      /\ gov \in [charged : Nat, today : BOOLEAN, tokens : 0 .. Burst, cap : Nat]
  BY OutboxAssumption DEF Init, OutboxInit
<1>4. /\ loop \in [at : Stages, rest : SUBSET Seqs, today : BOOLEAN]
      /\ loop.at = "idle" <=> loop.rest = {}
  BY DEF Init, OutboxInit, Stages
<1> QED BY <1>1, <1>2, <1>3, <1>4 DEF TypeOK

LEMMA KillStepType ==
    ASSUME TypeOK, KillStep
    PROVE  KillTypeOK' /\ left' \in [Mishaps -> Nat]
<1>0. Idle \in Call /\ "trip" \in Mishaps
  BY DEF Idle, Call, Steps, Mishaps
<1>1. call \in [Owners -> Call] /\ {up, setting, kill, muted, tripping, brake, banned} \subseteq BOOLEAN
  BY DEF TypeOK, KillTypeOK
<1>2. ASSUME NEW o \in Owners, NEW v \in BOOLEAN, Ask(o, v), UNCHANGED left
      PROVE  KillTypeOK' /\ left' \in [Mishaps -> Nat]
  <2>1. call' \in [Owners -> Call]
    <3> DEFINE New(p) == IF p = o
                         THEN [step |-> "persist", value |-> v, lone |-> ~Opposed(v)]
                         ELSE [call[p] EXCEPT !.lone = @ /\ call[p].value = v]
    <3>1. ASSUME NEW p \in Owners PROVE New(p) \in Call
      <4>1. CASE p = o
        <5>1. (~Opposed(v)) \in BOOLEAN
          BY SMT DEF Opposed
        <5> QED BY <4>1, <5>1 DEF Call, Steps
      <4>2. CASE p # o
        <5>1. (call[p].lone /\ call[p].value = v) \in BOOLEAN
          BY Zenon
        <5> QED BY <1>1, <4>2, <5>1 DEF Call
      <4> QED BY <4>1, <4>2
    <3>2. call' = [p \in Owners |-> New(p)]
      BY <1>2 DEF Ask
    <3> QED BY <3>1, <3>2, Zenon
  <2>2. brake' \in BOOLEAN /\ banned' \in BOOLEAN
    BY <1>2, Zenon DEF Ask
  <2> QED BY <1>1, <1>2, <2>1, <2>2 DEF Ask, KillTypeOK, TypeOK
<1>3. ASSUME NEW o \in Owners, NEW ok \in BOOLEAN, Persist(o, ok), Write(ok)
      PROVE  KillTypeOK' /\ left' \in [Mishaps -> Nat]
  <2>1. setting' \in BOOLEAN
    BY <1>1, <1>3 DEF Persist, Call
  <2>2. call' \in [Owners -> Call]
    <3> DEFINE New == [call[o] EXCEPT !.step = "govern", !.lone = @ /\ ok]
    <3>1. New \in Call
      BY <1>1 DEF Call, Steps
    <3>2. call' = [call EXCEPT ![o] = New]
      BY <1>3 DEF Persist
    <3> HIDE DEF New
    <3> QED BY <1>1, <3>1, <3>2
  <2> QED BY <1>1, <1>3, <2>1, <2>2, WriteLeft DEF Persist, KillTypeOK
<1>4. ASSUME NEW o \in Owners, Govern(o) \/ Mute(o), UNCHANGED left
      PROVE  KillTypeOK' /\ left' \in [Mishaps -> Nat]
  <2>1. call[o].value \in BOOLEAN
    BY <1>1 DEF Call
  <2>2. call' \in [Owners -> Call]
    BY <1>0, <1>1, <1>4 DEF Govern, Mute, Call, Steps
  <2>3. kill' \in BOOLEAN /\ muted' \in BOOLEAN /\ brake' \in BOOLEAN
    <3>1. kill \in BOOLEAN /\ muted \in BOOLEAN /\ brake \in BOOLEAN
      BY <1>1
    <3> QED BY <1>4, <2>1, <3>1, Zenon DEF Govern, Mute
  <2>4. UNCHANGED <<up, setting, tripping, banned>>
    BY <1>4 DEF Govern, Mute
  <2> QED BY <1>1, <1>4, <2>2, <2>3, <2>4 DEF KillTypeOK, TypeOK
<1>5. ASSUME Trip, Spend("trip")
      PROVE  KillTypeOK' /\ left' \in [Mishaps -> Nat]
  BY <1>0, <1>1, <1>5, SpendLeft DEF Trip, KillTypeOK
<1>6. ASSUME TripGovernor, UNCHANGED left
      PROVE  KillTypeOK' /\ left' \in [Mishaps -> Nat]
  <2>1. banned' \in BOOLEAN
    BY <1>6, Zenon DEF TripGovernor
  <2> QED BY <1>1, <1>6, <2>1 DEF TripGovernor, KillTypeOK, TypeOK
<1> QED BY <1>2, <1>3, <1>4, <1>5, <1>6 DEF KillStep

LEMMA ChargeType ==
    ASSUME TypeOK, Charge
    PROVE  gov' \in [charged : Nat, today : BOOLEAN, tokens : 0 .. Burst, cap : Nat]
<1>1. Charged \in Nat
  BY DEF TypeOK, Charged
<1>2. Daily(Charged + 1) \in Nat
  BY <1>1 DEF Daily
<1>3. gov.tokens - 1 \in 0 .. Burst
  BY OutboxAssumption DEF TypeOK, Charge, Allowed
<1> QED BY <1>2, <1>3 DEF TypeOK, Charge

LEMMA DenyType ==
    ASSUME TypeOK, Deny
    PROVE  gov' \in [charged : Nat, today : BOOLEAN, tokens : 0 .. Burst, cap : Nat]
<1>1. Charged \in Nat
  BY DEF TypeOK, Charged
<1> QED BY <1>1 DEF TypeOK, Deny

LEMMA MarkType ==
    ASSUME TypeOK, NEW i \in Seqs, NEW ok \in BOOLEAN, Mark(i, ok)
    PROVE  rows' \in [Seqs -> Row \cup {NoRow}]
<1>1. CASE ok /\ Queued(i)
  <2>1. [rows[i] EXCEPT !.status = "sent"] \in Row
    BY <1>1 DEF TypeOK, Queued, Row
  <2>2. rows' = [rows EXCEPT ![i] = [rows[i] EXCEPT !.status = "sent"]]
    BY <1>1 DEF Mark
  <2> QED BY <2>1, <2>2 DEF TypeOK
<1>2. CASE ~(ok /\ Queued(i))
  BY <1>2 DEF TypeOK, Mark
<1> QED BY <1>1, <1>2

LEMMA FailureType ==
    ASSUME NEW row \in Row
    PROVE  AfterFailure(row) \in Row
<1>1. MaxRetry \in Nat \ {0}
  BY OutboxAssumption
<1>2. CASE row.retries + 1 >= MaxRetry
  BY <1>1, <1>2 DEF AfterFailure, Row
<1>3. CASE ~(row.retries + 1 >= MaxRetry)
  <2>1. row.retries + 1 \in 0 .. MaxRetry
    BY <1>1, <1>3 DEF Row
  <2> QED BY <1>3, <2>1 DEF AfterFailure, Row
<1> QED BY <1>2, <1>3

LEMMA StepTypeOK ==
    ASSUME TypeOK, [Next]_vars
    PROVE  TypeOK'
<1> USE DEF queueVars, historyVars
<1>0. /\ "queue" \in Mishaps /\ "drop" \in Mishaps /\ "midnight" \in Mishaps
      /\ "reset" \in Mishaps /\ "down" \in Mishaps
  BY DEF Mishaps
<1>b. MaxSeq \in Nat /\ Burst \in Nat
  BY OutboxAssumption
<1>n. NewRow \in Row
  BY OutboxAssumption DEF NewRow, Row
<1>1. \A n \in Nat : Daily(n) \in Nat
  BY DEF Daily
<1>2. CASE Enqueue
  <2>1. last + 1 \in Seqs
    BY <1>b, <1>2 DEF Enqueue, TypeOK, Seqs
  <2>3. left' \in [Mishaps -> Nat]
    BY <1>0, <1>2, SpendLeft DEF Enqueue
  <2>2. last' \in 0 .. MaxSeq /\ rows' \in [Seqs -> Row \cup {NoRow}]
    BY <1>b, <1>n, <1>2, <2>1 DEF Enqueue, TypeOK
  <2> QED BY <1>2, <2>2, <2>3 DEF Enqueue, TypeOK, KillTypeOK, killVars
<1>3. CASE Refill
  <2>1. gov.tokens + 1 \in 0 .. Burst
    BY <1>b, <1>3 DEF Refill, TypeOK
  <2> QED BY <1>3, <2>1 DEF Refill, TypeOK, KillTypeOK, killVars
<1>4. CASE Tick
  <2>1. loop' \in [at : Stages, rest : SUBSET Seqs, today : BOOLEAN]
        /\ loop'.at # "idle" /\ loop'.rest # {}
    BY <1>4 DEF Tick, DueOutbox, Stages
  <2> QED BY <1>4, <2>1 DEF Tick, TypeOK, KillTypeOK, killVars
<1>5. CASE Defer
  <2>1. gov' \in [charged : Nat, today : BOOLEAN, tokens : 0 .. Burst, cap : Nat]
    BY <1>5, DenyType DEF Defer, TypeOK
  <2> QED BY <1>5, <2>1, ReturnMoves DEF Defer, TypeOK, KillTypeOK, killVars
<1>6. CASE Pace
  <2>1. loop' \in [at : Stages, rest : SUBSET Seqs, today : BOOLEAN]
        /\ loop'.at # "idle" /\ loop'.rest # {}
    BY <1>6 DEF Pace, At, Stages, TypeOK
  <2> QED BY <1>6, <2>1, ChargeType DEF Pace, TypeOK, KillTypeOK, killVars
<1>7. CASE Compose
  <2>1. /\ loop' \in [at : Stages, rest : SUBSET Seqs, today : BOOLEAN]
        /\ loop'.at = "idle" <=> loop'.rest = {}
    BY <1>7, ReturnMoves DEF Compose, At, Stages, TypeOK
  <2> QED BY <1>7, <2>1 DEF Compose, TypeOK, KillTypeOK, killVars
<1>8. ASSUME NEW taken \in BOOLEAN, NEW told \in BOOLEAN, Send(taken, told)
      PROVE  TypeOK'
  <2>1. Item \in Seqs
    BY <1>8, RowInHand DEF Send, At
  <2>2. /\ loop' \in [at : Stages, rest : SUBSET Seqs, today : BOOLEAN]
        /\ loop'.at # "idle" /\ loop'.rest # {}
    BY <1>8 DEF Send, At, Stages, TypeOK
  <2>3. attempts' \in [Seqs -> Nat]
    BY <1>8, <2>1 DEF Send, TypeOK
  <2>4. /\ delivered' \in [Seqs -> Nat]
        /\ sentToday' \in Nat /\ uncounted' \in Nat /\ blurred' \in Nat
    <3>1. CASE taken
      BY <1>1, <1>8, <2>1, <3>1 DEF Send, TypeOK
    <3>2. CASE ~taken
      BY <1>8, <3>2 DEF Send, TypeOK
    <3> QED BY <3>1, <3>2
  <2> QED BY <1>8, <2>2, <2>3, <2>4 DEF Send, TypeOK, KillTypeOK, killVars
<1>9. ASSUME NEW ok \in BOOLEAN, SkipUnaddressed(ok)
      PROVE  TypeOK'
  <2>1. rows' \in [Seqs -> Row \cup {NoRow}] /\ left' \in [Mishaps -> Nat]
    BY <1>9, RowInHand, MarkType, WriteLeft DEF SkipUnaddressed, At
  <2>2. /\ loop' \in [at : Stages, rest : SUBSET Seqs, today : BOOLEAN]
        /\ loop'.at = "idle" <=> loop'.rest = {}
    BY <1>9, AdvanceMoves DEF SkipUnaddressed, At
  <2>3. gov' \in [charged : Nat, today : BOOLEAN, tokens : 0 .. Burst, cap : Nat]
    BY <1>9, ChargeType DEF SkipUnaddressed
  <2> QED BY <1>9, <2>1, <2>2, <2>3 DEF SkipUnaddressed, TypeOK, KillTypeOK, killVars
<1>10. ASSUME NEW ok \in BOOLEAN, MarkSent(ok)
       PROVE  TypeOK'
  <2>1. rows' \in [Seqs -> Row \cup {NoRow}] /\ left' \in [Mishaps -> Nat]
    BY <1>10, RowInHand, MarkType, WriteLeft DEF MarkSent, At
  <2>2. /\ loop' \in [at : Stages, rest : SUBSET Seqs, today : BOOLEAN]
        /\ loop'.at = "idle" <=> loop'.rest = {}
    BY <1>10 DEF MarkSent, At, Stages, TypeOK
  <2>3. blurred' \in Nat
    BY <1>10 DEF MarkSent, TypeOK
  <2> QED BY <1>10, <2>1, <2>2, <2>3 DEF MarkSent, TypeOK, KillTypeOK, killVars
<1>11. ASSUME NEW ok \in BOOLEAN, AddMessage(ok)
       PROVE  TypeOK'
  <2>1. /\ loop' \in [at : Stages, rest : SUBSET Seqs, today : BOOLEAN]
        /\ loop'.at = "idle" <=> loop'.rest = {}
    BY <1>11, AdvanceMoves DEF AddMessage, At
  <2>2. recorded' \in Nat /\ uncounted' \in Nat
    BY <1>1, <1>11 DEF AddMessage, TypeOK
  <2>3. left' \in [Mishaps -> Nat]
    BY <1>11, WriteLeft DEF AddMessage
  <2> QED BY <1>11, <2>1, <2>2, <2>3 DEF AddMessage, TypeOK, KillTypeOK, killVars
<1>12. ASSUME NEW ok \in BOOLEAN, RetryOrDeadLetter(ok)
       PROVE  TypeOK'
  <2>1. rows' \in [Seqs -> Row \cup {NoRow}]
    <3>1. CASE ok /\ Queued(Item)
      <4>1. rows[Item] \in Row /\ Item \in Seqs
        BY <1>12, <3>1, RowInHand DEF RetryOrDeadLetter, At, Queued, TypeOK
      <4>2. AfterFailure(rows[Item]) \in Row
        BY <4>1, FailureType
      <4>3. rows' = [rows EXCEPT ![Item] = AfterFailure(rows[Item])]
        BY <1>12, <3>1 DEF RetryOrDeadLetter
      <4> QED BY <4>1, <4>2, <4>3 DEF TypeOK
    <3>2. CASE ~(ok /\ Queued(Item))
      BY <1>12, <3>2 DEF RetryOrDeadLetter, TypeOK
    <3> QED BY <3>1, <3>2
  <2>2. /\ loop' \in [at : Stages, rest : SUBSET Seqs, today : BOOLEAN]
        /\ loop'.at = "idle" <=> loop'.rest = {}
    BY <1>12, AdvanceMoves DEF RetryOrDeadLetter, At
  <2>3. blurred' \in Nat /\ left' \in [Mishaps -> Nat]
    BY <1>12, WriteLeft DEF RetryOrDeadLetter, TypeOK
  <2> QED BY <1>12, <2>1, <2>2, <2>3 DEF RetryOrDeadLetter, TypeOK, KillTypeOK, killVars
<1>13. CASE KillSwitch
  BY <1>13, KillStepType DEF KillSwitch, TypeOK
<1>14. ASSUME NEW i \in Seqs, BackoffEnds(i)
       PROVE  TypeOK'
  <2>1. [rows[i] EXCEPT !.waiting = FALSE] \in Row
    BY <1>14 DEF BackoffEnds, Unsent, Queued, Row, TypeOK
  <2>2. rows' = [rows EXCEPT ![i] = [rows[i] EXCEPT !.waiting = FALSE]]
    BY <1>14 DEF BackoffEnds
  <2> QED BY <1>14, <2>1, <2>2 DEF BackoffEnds, TypeOK, KillTypeOK, killVars
<1>15. CASE Disconnect
  BY <1>0, <1>15, SpendLeft DEF Disconnect, TypeOK, KillTypeOK, killVars
<1>16. CASE Reconnect
  BY <1>16 DEF Reconnect, TypeOK, KillTypeOK, killVars
<1>17. CASE Midnight
  <2>1. left' \in [Mishaps -> Nat]
    BY <1>0, <1>17, SpendLeft DEF Midnight
  <2>2. gov' \in [charged : Nat, today : BOOLEAN, tokens : 0 .. Burst, cap : Nat]
    BY <1>17 DEF Midnight, TypeOK
  <2>3. /\ loop' \in [at : Stages, rest : SUBSET Seqs, today : BOOLEAN]
        /\ loop'.at = "idle" <=> loop'.rest = {}
    BY <1>17 DEF Midnight, TypeOK
  <2> QED BY <1>17, <2>1, <2>2, <2>3 DEF Midnight, TypeOK, KillTypeOK, killVars
<1>18. CASE Reset
  <2>1. left' \in [Mishaps -> Nat]
    BY <1>0, <1>18, SpendLeft DEF Reset
  <2> QED BY <1>18, <2>1 DEF Reset, TypeOK, KillTypeOK, killVars
<1>19. CASE Down
  <2>1. left' \in [Mishaps -> Nat]
    BY <1>0, <1>19, SpendLeft DEF Down
  <2>2. KillTypeOK'
    <3>1. Idle \in Call
      BY DEF Idle, Call, Steps
    <3>2. call' \in [Owners -> Call]
      BY <1>19, <3>1 DEF Down, KillDown
    <3>3. brake' \in BOOLEAN
      BY <1>19, Zenon DEF Down, KillDown
    <3> QED BY <1>19, <3>2, <3>3 DEF Down, KillDown, TypeOK, KillTypeOK
  <2>3. gov' \in [charged : Nat, today : BOOLEAN, tokens : 0 .. Burst, cap : Nat]
    <3>1. Burst \in 0 .. Burst
      BY <1>b
    <3> QED BY <1>19, <3>1 DEF Down, TypeOK
  <2>4. uncounted' \in Nat /\ blurred' \in Nat
    BY <1>1, <1>19 DEF Down, TypeOK
  <2> QED BY <1>19, <2>1, <2>2, <2>3, <2>4, ReturnMoves DEF Down, TypeOK
<1>20. CASE Boot
  <2>1. gov' \in [charged : Nat, today : BOOLEAN, tokens : 0 .. Burst, cap : Nat]
    <3>1. Burst \in 0 .. Burst /\ recorded \in Nat
      BY <1>b DEF TypeOK
    <3> QED BY <1>20, <3>1 DEF Boot, Seed, TypeOK
  <2>2. KillTypeOK'
    <3>1. kill' \in BOOLEAN /\ muted' \in BOOLEAN
      BY <1>20 DEF Boot, KillUp, TypeOK, KillTypeOK
    <3> QED BY <1>20, <3>1 DEF Boot, KillUp, TypeOK, KillTypeOK
  <2> QED BY <1>20, <2>1, <2>2 DEF Boot, TypeOK
<1>21. CASE UNCHANGED vars
  BY <1>21 DEF vars, TypeOK, KillTypeOK, killVars, Charged
<1> QED
  BY <1>2, <1>3, <1>4, <1>5, <1>6, <1>7, <1>8, <1>9, <1>10, <1>11, <1>12, <1>13, <1>14,
     <1>15, <1>16, <1>17, <1>18, <1>19, <1>20, <1>21 DEF Next, LoopStep

\* TypeOK, for every instance.
THEOREM OutboxTypeOK == Spec => []TypeOK
BY InitTypeOK, StepTypeOK, PTL DEF Spec

-----------------------------------------------------------------------------
(* The row and the history of every message. *)

InHand(i) == loop.at # "idle" /\ i = Item

\* The message in hand was handed to gw.Send in this turn; and its outcome is
\* not on its row yet.
Handed(i) == InHand(i) /\ loop.at \in {"accepted", "refused", "marked"}
Unwritten(i) == InHand(i) /\ loop.at \in {"accepted", "refused"}

\* What the loop still has to do are rows queued before, unsent or gone, the
\* one just marked excepted; an unsent row has a retry left.
LoopOK ==
    /\ up \/ loop.at = "idle"
    /\ \A i \in loop.rest : i <= last
    /\ \A i \in loop.rest : Queued(i) => Unsent(i) \/ (InHand(i) /\ loop.at = "marked")
    /\ \A i \in Seqs : Handed(i) => attempts[i] > 0
    /\ \A i \in Seqs : Unsent(i) => rows[i].retries < MaxRetry

\* An unsent row counts every attempt, those lost to a crash or a failed write
\* and the one under way excepted; a row a reset has taken from under the loop
\* had an attempt left.
TriesOK ==
    /\ \A i \in Seqs : i > last => attempts[i] = 0 /\ delivered[i] = 0
    /\ NoResendLoop
    /\ \A i \in Seqs : Unsent(i) =>
          attempts[i] <= rows[i].retries + blurred + (IF Unwritten(i) THEN 1 ELSE 0)
    /\ \A i \in loop.rest : ~Queued(i) /\ ~Handed(i) => attempts[i] < MaxRetry + blurred

\* The same of the messages WhatsApp accepted: an unsent row has none that is
\* not accounted for.
DeliveredOK ==
    /\ NoDuplicate
    /\ \A i \in Seqs : Unsent(i) =>
          delivered[i] <= blurred + (IF InHand(i) /\ loop.at = "accepted" THEN 1 ELSE 0)
    /\ \A i \in loop.rest : ~Queued(i) /\ ~Handed(i) => delivered[i] <= blurred

Untried(i) == Queued(i) /\ i \notin Unaddressed /\ attempts[i] = 0

\* A message never tried is due, so a tick that took a later one took it too.
OrderOK ==
    /\ \A i \in Seqs : Untried(i) => Due(i)
    /\ \A i \in Seqs, j \in loop.rest : Untried(i) /\ i < j => i \in loop.rest
    /\ FirstTriesInOrder

QueueOK == LoopOK /\ TriesOK /\ DeliveredOK /\ OrderOK

LEMMA InitQueueOK == Init => QueueOK
<1> SUFFICES ASSUME Init PROVE QueueOK
  OBVIOUS
<1>0. \A i \in Seqs : ~Queued(i)
  BY DEF Init, OutboxInit, Queued
<1>1. LoopOK
  BY <1>0 DEF Init, OutboxInit, KillInit, LoopOK, Handed, InHand, Unsent
<1>2. TriesOK
  BY <1>0, OutboxAssumption DEF Init, OutboxInit, TriesOK, NoResendLoop, Unsent
<1>3. DeliveredOK
  BY <1>0 DEF Init, OutboxInit, DeliveredOK, NoDuplicate, Unsent
<1>4. OrderOK
  BY <1>0 DEF Init, OutboxInit, OrderOK, FirstTriesInOrder, Untried
<1> QED BY <1>1, <1>2, <1>3, <1>4 DEF QueueOK

\* Steps that touch neither a row, nor what the loop does, nor the history.
Quiet ==
    /\ UNCHANGED <<rows, last, attempts, delivered, blurred>>
    /\ loop'.at = loop.at /\ loop'.rest = loop.rest
    /\ up => up'

LEMMA QuietSteps ==
    ASSUME TypeOK,
           Refill \/ KillSwitch \/ Disconnect \/ Reconnect \/ Midnight \/ Boot \/ UNCHANGED vars
    PROVE  Quiet
<1> USE DEF killVars, queueVars, historyVars
<1>1. CASE KillSwitch
  <2>1. UNCHANGED up
    BY <1>1 DEF KillSwitch, KillStep, Ask, Persist, Govern, Mute, Trip, TripGovernor
  <2> QED BY <1>1, <2>1 DEF KillSwitch, Quiet
<1>2. CASE Midnight
  BY <1>2 DEF Midnight, TypeOK, Quiet
<1>3. CASE Boot
  BY <1>3 DEF Boot, KillUp, Quiet
<1>4. CASE Refill \/ Disconnect \/ Reconnect \/ UNCHANGED vars
  BY <1>4 DEF Refill, Disconnect, Reconnect, vars, Quiet
<1> QED BY <1>1, <1>2, <1>3, <1>4

LEMMA QuietQueueOK ==
    ASSUME QueueOK, Quiet
    PROVE  QueueOK'
<1>1. Item' = Item
  BY DEF Quiet, Item
<1>2. /\ \A i : (Queued(i)' <=> Queued(i)) /\ (Unsent(i)' <=> Unsent(i)) /\ (Due(i)' <=> Due(i))
      /\ \A i : (InHand(i)' <=> InHand(i)) /\ (Handed(i)' <=> Handed(i))
      /\ \A i : (Unwritten(i)' <=> Unwritten(i)) /\ (Untried(i)' <=> Untried(i))
  BY <1>1 DEF Quiet, Queued, Unsent, Due, InHand, Handed, Unwritten, Untried
<1>3. LoopOK'
  BY <1>2 DEF Quiet, QueueOK, LoopOK
<1>4. TriesOK'
  BY <1>2 DEF Quiet, QueueOK, TriesOK, NoResendLoop
<1>5. DeliveredOK'
  BY <1>2 DEF Quiet, QueueOK, DeliveredOK, NoDuplicate
<1>6. OrderOK'
  BY <1>2 DEF Quiet, QueueOK, OrderOK, FirstTriesInOrder
<1> QED BY <1>3, <1>4, <1>5, <1>6 DEF QueueOK

LEMMA RealRow == NewRow \in Row /\ NoRow \notin Row
<1>1. NewRow \in Row
  BY OutboxAssumption DEF NewRow, Row
<1>2. NoRow \notin Row
  BY OutboxAssumption DEF Row
<1> QED BY <1>1, <1>2

LEMMA RowsSame ==
    ASSUME UNCHANGED <<rows, last>>
    PROVE  \A i : /\ Queued(i)' <=> Queued(i)
                  /\ Unsent(i)' <=> Unsent(i)
                  /\ Due(i)' <=> Due(i)
BY DEF Queued, Unsent, Due

LEMMA EnqueueQueueOK ==
    ASSUME TypeOK, QueueOK, Enqueue
    PROVE  QueueOK'
<1>0. \A i \in Seqs : i \in Nat
  BY OutboxAssumption DEF Seqs
<1>n. PICK n \in Seqs : n = last + 1
  BY OutboxAssumption DEF Enqueue, TypeOK, Seqs
<1>1. /\ last \in Nat /\ last' = n /\ loop' = loop /\ up' = up
      /\ attempts' = attempts /\ delivered' = delivered /\ blurred' = blurred
      /\ rows'[n] = NewRow /\ \A i \in Seqs : i # n => rows'[i] = rows[i]
  BY <1>0, <1>n DEF Enqueue, TypeOK, historyVars, killVars
<1>a. /\ n \in Nat /\ last < n
      /\ \A i \in Seqs : i # n => (i <= n <=> i <= last) /\ (i <= n <=> i < n)
      /\ \A i \in Seqs : (i > n => i > last) /\ \A j \in Seqs : i < j /\ j < n => i # n
  BY <1>0, <1>n, <1>1
<1>2. NewRow # NoRow
  BY RealRow
<1>3. Item' = Item /\ loop.rest \subseteq Seqs
  BY <1>1 DEF Item, TypeOK
<1>4. \A i : /\ InHand(i)' <=> InHand(i)
             /\ Handed(i)' <=> Handed(i)
             /\ Unwritten(i)' <=> Unwritten(i)
  BY <1>1, <1>3 DEF InHand, Handed, Unwritten
<1>5. \A i \in Seqs : i # n => /\ Queued(i)' <=> Queued(i)
                               /\ Unsent(i)' <=> Unsent(i)
                               /\ Due(i)' <=> Due(i)
                               /\ Untried(i)' <=> Untried(i)
  BY <1>0, <1>a, <1>1 DEF Queued, Unsent, Due, Untried
<1>6. Queued(n)' /\ Unsent(n)' /\ Due(n)' /\ rows'[n].retries = 0
  BY <1>0, <1>a, <1>1, <1>2 DEF Queued, Unsent, Due, NewRow
<1>7. \A i \in loop.rest : i # n /\ i <= last
  BY <1>0, <1>a, <1>1, <1>3 DEF QueueOK, LoopOK
<1>8. attempts[n] = 0 /\ delivered[n] = 0 /\ \A i \in Seqs : ~(i <= last) => attempts[i] = 0
  BY <1>0, <1>a, <1>1 DEF QueueOK, TriesOK
<1>9. MaxRetry \in Nat \ {0} /\ blurred \in Nat
  BY OutboxAssumption DEF TypeOK
<1>10. ~InHand(n)
  BY <1>3, <1>7, RowInHand DEF InHand
<1>11. LoopOK'
  <2>2. \A i \in loop.rest : i <= n
    BY <1>3, <1>7, <1>a
  <2>3. \A i \in loop.rest : Queued(i)' => Unsent(i)' \/ (InHand(i)' /\ loop.at = "marked")
    BY <1>3, <1>4, <1>5, <1>7 DEF QueueOK, LoopOK
  <2>4. \A i \in Seqs : Unsent(i)' => rows'[i].retries < MaxRetry
    BY <1>1, <1>5, <1>6, <1>9 DEF QueueOK, LoopOK
  <2> QED BY <1>1, <1>4, <2>2, <2>3, <2>4 DEF QueueOK, LoopOK
<1>12. TriesOK'
  <2>1. \A i \in Seqs : i > n => attempts[i] = 0 /\ delivered[i] = 0
    BY <1>0, <1>a, <1>1 DEF QueueOK, TriesOK
  <2>2. NoResendLoop'
    BY <1>1, <1>a DEF QueueOK, TriesOK, NoResendLoop
  <2>3. 0 <= rows'[n].retries + blurred + (IF Unwritten(n)' THEN 1 ELSE 0)
    BY <1>6, <1>9
  <2>4. \A i \in Seqs : Unsent(i)' =>
           attempts[i] <= rows'[i].retries + blurred + (IF Unwritten(i)' THEN 1 ELSE 0)
    BY <1>1, <1>4, <1>5, <1>8, <2>3 DEF QueueOK, TriesOK
  <2>5. \A i \in loop.rest : ~Queued(i)' /\ ~Handed(i)' => attempts[i] < MaxRetry + blurred
    BY <1>3, <1>4, <1>5, <1>7 DEF QueueOK, TriesOK
  <2> QED BY <1>1, <2>1, <2>2, <2>4, <2>5 DEF TriesOK
<1>13. DeliveredOK'
  <2>1. \A i \in Seqs : Unsent(i)' =>
           delivered[i] <= blurred + (IF InHand(i)' /\ loop.at = "accepted" THEN 1 ELSE 0)
    BY <1>4, <1>5, <1>8, <1>9 DEF QueueOK, DeliveredOK
  <2>2. \A i \in loop.rest : ~Queued(i)' /\ ~Handed(i)' => delivered[i] <= blurred
    BY <1>3, <1>4, <1>5, <1>7 DEF QueueOK, DeliveredOK
  <2>3. NoDuplicate'
    BY <1>1 DEF QueueOK, DeliveredOK, NoDuplicate
  <2> QED BY <1>1, <2>1, <2>2, <2>3 DEF DeliveredOK
<1>14. OrderOK'
  <2>1. \A j \in Seqs : attempts[j] > 0 => j < n
    <3>1. ASSUME NEW j \in Seqs PROVE j < n \/ ~(j <= last)
      BY <1>0, <1>n, <1>1
    <3> QED BY <1>8, <3>1
  <2>2. \A j \in loop.rest : j < n
    BY <1>0, <1>a, <1>1, <1>3, <1>7
  <2>3. \A i \in Seqs : Untried(i)' => i = n \/ Untried(i)
    BY <1>5
  <2>4. \A i \in Seqs : Untried(i)' => Due(i)'
    BY <1>5, <1>6 DEF QueueOK, OrderOK
  <2>5. \A i \in Seqs, j \in loop.rest : Untried(i)' /\ i < j => i \in loop.rest
    BY <1>a, <1>3, <2>2, <2>3 DEF QueueOK, OrderOK
  <2>6. FirstTriesInOrder'
    BY <1>0, <1>a, <1>1, <1>5, <2>1 DEF QueueOK, OrderOK, FirstTriesInOrder
  <2> QED BY <1>1, <2>4, <2>5, <2>6 DEF OrderOK
<1> QED BY <1>11, <1>12, <1>13, <1>14 DEF QueueOK

\* DueOutbox leaves out no due row older than one it returns.
LEMMA DueOutboxIsPrefix ==
    ASSUME NEW j \in DueOutbox, NEW i \in Seqs, i < j, Due(i)
    PROVE  i \in DueOutbox
<1>1. \A k \in Seqs : k \in Nat
  BY OutboxAssumption DEF Seqs
<1> DEFINE Older(k) == {h \in Seqs : Due(h) /\ h < k}
<1>2. IsFiniteSet(Seqs)
  BY OutboxAssumption, FS_Interval DEF Seqs
<1>3. IsFiniteSet(Older(j)) /\ Cardinality(Older(j)) < Limit /\ j \in Seqs
  BY <1>2, FS_Subset DEF DueOutbox
<1>4. Older(i) \subseteq Older(j)
  BY <1>1, <1>3
<1>5. /\ Cardinality(Older(i)) <= Cardinality(Older(j))
      /\ Cardinality(Older(i)) \in Nat /\ Cardinality(Older(j)) \in Nat
  BY <1>3, <1>4, FS_Subset, FS_CardinalityType
<1> HIDE DEF Older
<1>6. Cardinality(Older(i)) < Limit
  BY <1>3, <1>5, OutboxAssumption
<1> QED BY <1>6 DEF DueOutbox, Older

LEMMA TickQueueOK ==
    ASSUME TypeOK, QueueOK, Tick
    PROVE  QueueOK'
<1>1. /\ loop'.at = "head" /\ loop'.rest = DueOutbox /\ loop.at = "idle" /\ up /\ up'
      /\ UNCHANGED <<rows, last, attempts, delivered, blurred>>
  BY DEF Tick, At, killVars, queueVars, historyVars
<1>2. \A i : /\ ~Handed(i) /\ ~Handed(i)'
             /\ ~Unwritten(i) /\ ~Unwritten(i)'
             /\ ~InHand(i)
             /\ Untried(i)' <=> Untried(i)
  BY <1>1, RowsSame DEF Handed, Unwritten, InHand, Untried
<1>3. \A i \in loop'.rest : i \in Seqs /\ i <= last /\ Unsent(i) /\ Queued(i)
  BY <1>1 DEF DueOutbox, Due, Unsent, Queued
<1>4. LoopOK'
  BY <1>1, <1>2, <1>3, RowsSame DEF QueueOK, LoopOK
<1>5. TriesOK'
  BY <1>1, <1>2, <1>3, RowsSame DEF QueueOK, TriesOK, NoResendLoop
<1>6. DeliveredOK'
  BY <1>1, <1>2, <1>3, RowsSame DEF QueueOK, DeliveredOK, NoDuplicate
<1>7. OrderOK'
  <2>1. \A i \in Seqs, j \in loop'.rest : Untried(i) /\ i < j => i \in loop'.rest
    BY <1>1, DueOutboxIsPrefix DEF QueueOK, OrderOK
  <2> QED BY <1>1, <1>2, <2>1, RowsSame DEF QueueOK, OrderOK, FirstTriesInOrder
<1> QED BY <1>4, <1>5, <1>6, <1>7 DEF QueueOK

\* The tick ends, and with it whatever was under way.
LEMMA ReturnQueueOK ==
    ASSUME TypeOK, QueueOK, Return, UNCHANGED <<rows, last, attempts, delivered>>,
           blurred' = IF loop.at \in {"accepted", "refused"} THEN blurred + 1 ELSE blurred
    PROVE  QueueOK'
<1>1. loop'.at = "idle" /\ loop'.rest = {} /\ blurred \in Nat /\ blurred' \in Nat
  BY ReturnMoves DEF TypeOK
<1>2. \A i : /\ ~Handed(i)' /\ ~Unwritten(i)' /\ ~InHand(i)'
             /\ Untried(i)' <=> Untried(i)
  BY <1>1, RowsSame DEF Handed, Unwritten, InHand, Untried
<1>3. LoopOK'
  BY <1>1, <1>2, RowsSame DEF QueueOK, LoopOK
<1>4. TriesOK'
  <2>1. \A i \in Seqs : attempts[i] \in Nat /\ MaxRetry \in Nat
    BY OutboxAssumption DEF TypeOK
  <2>2. NoResendLoop'
    BY <1>1, <2>1 DEF QueueOK, TriesOK, NoResendLoop
  <2>3. ASSUME NEW i \in Seqs, Unsent(i) PROVE attempts[i] <= rows[i].retries + blurred'
    <3>1. rows[i].retries \in Nat
      BY <2>3, OutboxAssumption, RealRow DEF Unsent, Queued, TypeOK, Row
    <3>2. attempts[i] <= rows[i].retries + blurred + (IF Unwritten(i) THEN 1 ELSE 0)
      BY <2>3 DEF QueueOK, TriesOK
    <3> QED BY <1>1, <2>1, <3>1, <3>2 DEF Unwritten
  <2>4. \A i \in Seqs : i > last => attempts[i] = 0 /\ delivered[i] = 0
    BY DEF QueueOK, TriesOK
  <2>5. \A i \in Seqs : Unsent(i)' =>
           attempts'[i] <= rows'[i].retries + blurred' + (IF Unwritten(i)' THEN 1 ELSE 0)
    <3>1. ASSUME NEW i \in Seqs, Unsent(i) PROVE attempts[i] <= rows[i].retries + blurred' + 0
      <4>1. rows[i].retries \in Nat
        BY <3>1, OutboxAssumption, RealRow DEF Unsent, Queued, TypeOK, Row
      <4> QED BY <1>1, <2>1, <2>3, <3>1, <4>1
    <3> QED BY <1>2, <3>1, RowsSame
  <2> QED BY <1>1, <2>2, <2>4, <2>5 DEF TriesOK
<1>5. DeliveredOK'
  <2>1. \A i \in Seqs : delivered[i] \in Nat
    BY DEF TypeOK
  <2>2. NoDuplicate'
    BY <1>1, <2>1 DEF QueueOK, DeliveredOK, NoDuplicate
  <2>3. ASSUME NEW i \in Seqs, Unsent(i) PROVE delivered[i] <= blurred' + 0
    <3>1. delivered[i] <= blurred + (IF InHand(i) /\ loop.at = "accepted" THEN 1 ELSE 0)
      BY <2>3 DEF QueueOK, DeliveredOK
    <3> QED BY <1>1, <2>1, <3>1
  <2> QED BY <1>1, <1>2, <2>2, <2>3, RowsSame DEF DeliveredOK
<1>6. OrderOK'
  BY <1>1, <1>2, RowsSame DEF QueueOK, OrderOK, FirstTriesInOrder
<1> QED BY <1>3, <1>4, <1>5, <1>6 DEF QueueOK

\* The loop is done with the row in hand: whatever the step did to it, its
\* count tells what was tried.
LEMMA RowDoneQueueOK ==
    ASSUME TypeOK, TypeOK', QueueOK, up, up', loop.at # "idle", Advance,
           UNCHANGED <<last, attempts, delivered>>, blurred <= blurred',
           NEW r \in Seqs, r = Item,
           \A i \in Seqs : i # r => rows'[i] = rows[i],
           Queued(r)' => Queued(r),
           Unsent(r)' => /\ attempts[r] <= rows'[r].retries + blurred'
                         /\ rows'[r].retries < MaxRetry
                         /\ delivered[r] <= blurred',
           ~Untried(r)
    PROVE  QueueOK'
<1>1. /\ loop'.at \in {"idle", "head"} /\ loop'.rest = loop.rest \ {r}
      /\ loop.rest \subseteq Seqs
      /\ blurred \in Nat /\ blurred' \in Nat /\ MaxRetry \in Nat
  BY AdvanceMoves, OutboxAssumption DEF TypeOK
<1>2. /\ \A i : ~Handed(i)' /\ ~Unwritten(i)' /\ ~(InHand(i)' /\ loop'.at = "accepted")
      /\ \A i : i # r => ~Handed(i) /\ ~Unwritten(i) /\ ~InHand(i)
  BY <1>1 DEF Handed, Unwritten, InHand
<1>3. \A i \in Seqs : i # r => /\ Queued(i)' <=> Queued(i)
                               /\ Unsent(i)' <=> Unsent(i)
                               /\ Due(i)' <=> Due(i)
                               /\ Untried(i)' <=> Untried(i)
  BY DEF Queued, Unsent, Due, Untried
<1>5. ~Untried(r)'
  BY DEF Untried
<1>6. \A i \in Seqs : /\ attempts[i] \in Nat /\ delivered[i] \in Nat
                      /\ Unsent(i)' => rows'[i].retries \in Nat
  BY OutboxAssumption, RealRow DEF TypeOK, Row, Unsent, Queued
<1>7. LoopOK'
  BY <1>1, <1>2, <1>3 DEF QueueOK, LoopOK
<1>8. TriesOK'
  <2>1. NoResendLoop'
    BY <1>1, <1>6 DEF QueueOK, TriesOK, NoResendLoop
  <2>2. \A i \in Seqs : i > last => attempts[i] = 0 /\ delivered[i] = 0
    BY DEF QueueOK, TriesOK
  <2>3. ASSUME NEW i \in Seqs, Unsent(i)'
        PROVE  attempts[i] <= rows'[i].retries + blurred' + 0
    <3>1. CASE i = r
      BY <1>1, <1>6, <2>3, <3>1
    <3>2. CASE i # r
      <4>1. attempts[i] <= rows[i].retries + blurred + 0 /\ rows'[i] = rows[i]
        BY <1>2, <1>3, <2>3, <3>2 DEF QueueOK, TriesOK
      <4> QED BY <1>1, <1>6, <2>3, <4>1
    <3> QED BY <3>1, <3>2
  <2>4. ASSUME NEW i \in loop'.rest, ~Queued(i)'
        PROVE  attempts[i] < MaxRetry + blurred'
    <3>1. i \in Seqs /\ i # r /\ attempts[i] < MaxRetry + blurred
      BY <1>1, <1>2, <1>3, <2>4 DEF QueueOK, TriesOK
    <3> QED BY <1>1, <1>6, <3>1
  <2> QED BY <1>2, <2>1, <2>2, <2>3, <2>4 DEF TriesOK
<1>9. DeliveredOK'
  <2>1. NoDuplicate'
    BY <1>1, <1>6 DEF QueueOK, DeliveredOK, NoDuplicate
  <2>2. ASSUME NEW i \in Seqs, Unsent(i)' PROVE delivered[i] <= blurred' + 0
    <3>1. CASE i = r
      BY <1>1, <1>6, <2>2, <3>1
    <3>2. CASE i # r
      <4>1. delivered[i] <= blurred + 0
        BY <1>2, <1>3, <2>2, <3>2 DEF QueueOK, DeliveredOK
      <4> QED BY <1>1, <1>6, <4>1
    <3> QED BY <3>1, <3>2
  <2>3. ASSUME NEW i \in loop'.rest, ~Queued(i)' PROVE delivered[i] <= blurred'
    <3>1. i \in Seqs /\ i # r /\ delivered[i] <= blurred
      BY <1>1, <1>2, <1>3, <2>3 DEF QueueOK, DeliveredOK
    <3> QED BY <1>1, <1>6, <3>1
  <2> QED BY <1>2, <2>1, <2>2, <2>3 DEF DeliveredOK
<1>10. OrderOK'
  <2>1. \A i \in Seqs : Untried(i)' => Due(i)'
    BY <1>3, <1>5 DEF QueueOK, OrderOK
  <2>2. \A i \in Seqs, j \in loop'.rest : Untried(i)' /\ i < j => i \in loop'.rest
    BY <1>1, <1>3, <1>5 DEF QueueOK, OrderOK
  <2>3. FirstTriesInOrder'
    <3>1. ASSUME NEW i \in Seqs, NEW j \in Seqs, i < j, Queued(i)', i \notin Unaddressed, attempts[j] > 0
          PROVE  attempts[i] > 0
      BY <1>3, <3>1 DEF QueueOK, OrderOK, FirstTriesInOrder
    <3> QED BY <3>1 DEF FirstTriesInOrder
  <2> QED BY <2>1, <2>2, <2>3 DEF OrderOK
<1> QED BY <1>7, <1>8, <1>9, <1>10 DEF QueueOK

LEMMA SkipQueueOK ==
    ASSUME TypeOK, TypeOK', QueueOK, NEW ok \in BOOLEAN, SkipUnaddressed(ok)
    PROVE  QueueOK'
<1> PICK r \in Seqs : r = Item
  BY RowInHand DEF SkipUnaddressed, At
<1>1. /\ up /\ up' /\ loop.at = "head" /\ r \in loop.rest /\ r \in Unaddressed /\ Advance
      /\ UNCHANGED <<last, attempts, delivered, blurred>> /\ blurred \in Nat
  BY RowInHand DEF SkipUnaddressed, At, killVars, historyVars, TypeOK
<1>2. /\ \A i \in Seqs : i # r => rows'[i] = rows[i]
      /\ \/ rows' = rows
         \/ Queued(r) /\ rows'[r].status = "sent"
  BY <1>1 DEF SkipUnaddressed, Mark, TypeOK, Queued, Row
<1>3. Queued(r)' => Queued(r)
  BY <1>1, <1>2 DEF Queued
<1>4. ~Untried(r) /\ ~Unwritten(r) /\ ~(InHand(r) /\ loop.at = "accepted")
  BY <1>1 DEF Untried, Unwritten
<1>5. Unsent(r)' => Unsent(r) /\ rows'[r] = rows[r]
  BY <1>1, <1>2 DEF Unsent, Queued
<1>6. Unsent(r) => /\ attempts[r] <= rows[r].retries + blurred + 0
                   /\ rows[r].retries < MaxRetry
                   /\ delivered[r] <= blurred + 0
  BY <1>4 DEF QueueOK, LoopOK, TriesOK, DeliveredOK
<1>7. Unsent(r) => attempts[r] \in Nat /\ delivered[r] \in Nat /\ rows[r].retries \in Nat
  BY OutboxAssumption, RealRow DEF TypeOK, Row, Unsent, Queued
<1> QED BY <1>1, <1>2, <1>3, <1>4, <1>5, <1>6, <1>7, RowDoneQueueOK

LEMMA AddMessageQueueOK ==
    ASSUME TypeOK, TypeOK', QueueOK, NEW ok \in BOOLEAN, AddMessage(ok)
    PROVE  QueueOK'
<1> PICK r \in Seqs : r = Item
  BY RowInHand DEF AddMessage, At
<1>1. /\ up /\ up' /\ loop.at = "marked" /\ r \in loop.rest /\ Advance
      /\ UNCHANGED <<rows, last, attempts, delivered, blurred>> /\ blurred \in Nat
  BY RowInHand DEF AddMessage, At, killVars, historyVars, TypeOK
<1>2. Handed(r) /\ ~Unwritten(r) /\ ~(InHand(r) /\ loop.at = "accepted")
  BY <1>1 DEF Handed, InHand, Unwritten
<1>3. ~Untried(r)
  BY <1>2, OutboxAssumption DEF QueueOK, LoopOK, Untried, TypeOK
<1>4. Unsent(r) => /\ attempts[r] <= rows[r].retries + blurred + 0
                   /\ rows[r].retries < MaxRetry
                   /\ delivered[r] <= blurred + 0
  BY <1>2 DEF QueueOK, LoopOK, TriesOK, DeliveredOK
<1>5. Unsent(r) => attempts[r] \in Nat /\ delivered[r] \in Nat /\ rows[r].retries \in Nat
  BY OutboxAssumption, RealRow DEF TypeOK, Row, Unsent, Queued
<1> QED BY <1>1, <1>3, <1>4, <1>5, RowsSame, RowDoneQueueOK

LEMMA RetryQueueOK ==
    ASSUME TypeOK, TypeOK', QueueOK, NEW ok \in BOOLEAN, RetryOrDeadLetter(ok)
    PROVE  QueueOK'
<1> PICK r \in Seqs : r = Item
  BY RowInHand DEF RetryOrDeadLetter, At
<1>1. /\ up /\ up' /\ loop.at = "refused" /\ r \in loop.rest /\ Advance
      /\ UNCHANGED <<last, attempts, delivered>> /\ blurred \in Nat
      /\ blurred' = IF ok THEN blurred ELSE blurred + 1
  BY RowInHand DEF RetryOrDeadLetter, At, killVars, TypeOK
<1>2. Handed(r) /\ ~(InHand(r) /\ loop.at = "accepted")
  BY <1>1 DEF Handed, InHand
<1>3. ~Untried(r)
  BY <1>2 DEF QueueOK, LoopOK, Untried, TypeOK
<1>4. Queued(r) => Unsent(r)
  BY <1>1 DEF QueueOK, LoopOK
<1>5. Unsent(r) => /\ attempts[r] <= rows[r].retries + blurred + 1
                   /\ rows[r].retries < MaxRetry
                   /\ delivered[r] <= blurred + 0
  <2>1. Unwritten(r)
    BY <1>1 DEF Unwritten, InHand
  <2> QED BY <1>2, <2>1 DEF QueueOK, LoopOK, TriesOK, DeliveredOK
<1>6. Unsent(r) => attempts[r] \in Nat /\ delivered[r] \in Nat /\ rows[r].retries \in Nat
  BY OutboxAssumption, RealRow DEF TypeOK, Row, Unsent, Queued
<1>7. CASE ok /\ Queued(r)
  <2>1. rows' = [rows EXCEPT ![r] = AfterFailure(rows[r])]
    BY <1>7 DEF RetryOrDeadLetter
  <2>2. rows'[r] = AfterFailure(rows[r]) /\ \A i \in Seqs : i # r => rows'[i] = rows[i]
    BY <2>1 DEF TypeOK
  <2>3. Unsent(r) /\ rows[r] \in Row
    BY <1>4, <1>7, RealRow DEF TypeOK, Queued
  <2>4. AfterFailure(rows[r]).status = "unsent" =>
           /\ AfterFailure(rows[r]).retries = rows[r].retries + 1
           /\ ~(rows[r].retries + 1 >= MaxRetry)
    BY <2>3 DEF AfterFailure, Row
  <2>5. Unsent(r)' => /\ attempts[r] <= rows'[r].retries + blurred'
                      /\ rows'[r].retries < MaxRetry
                      /\ delivered[r] <= blurred'
    BY <1>1, <1>5, <1>6, <1>7, <2>2, <2>3, <2>4, OutboxAssumption DEF Unsent
  <2> QED BY <1>1, <1>3, <1>7, <2>2, <2>5, RowDoneQueueOK
<1>8. CASE ~(ok /\ Queued(r))
  <2>1. rows' = rows
    BY <1>8 DEF RetryOrDeadLetter
  <2>2. Unsent(r) => blurred' = blurred + 1
    BY <1>1, <1>8 DEF Unsent
  <2>3. Unsent(r) => /\ attempts[r] <= rows[r].retries + blurred'
                     /\ delivered[r] <= blurred'
    BY <1>1, <1>5, <1>6, <2>2
  <2> QED BY <1>1, <1>3, <1>5, <2>1, <2>3, RowsSame, RowDoneQueueOK
<1> QED BY <1>7, <1>8

LEMMA PaceQueueOK ==
    ASSUME TypeOK, QueueOK, loop.at \in {"head", "pacing"}, up, up',
           loop'.at \in {"pacing", "composing"}, loop'.rest = loop.rest,
           UNCHANGED <<rows, last, attempts, delivered, blurred>>
    PROVE  QueueOK'
<1>1. /\ \A i : ~Handed(i) /\ ~Handed(i)' /\ ~Unwritten(i) /\ ~Unwritten(i)'
      /\ \A i : Untried(i)' <=> Untried(i)
      /\ loop.at # "accepted" /\ loop'.at # "accepted" /\ loop.at # "marked"
  BY RowsSame DEF Handed, Unwritten, InHand, Untried
<1>2. LoopOK'
  BY <1>1, RowsSame DEF QueueOK, LoopOK
<1>3. TriesOK'
  BY <1>1, RowsSame DEF QueueOK, TriesOK, NoResendLoop
<1>4. DeliveredOK'
  BY <1>1, RowsSame DEF QueueOK, DeliveredOK, NoDuplicate
<1>5. OrderOK'
  BY <1>1, RowsSame DEF QueueOK, OrderOK, FirstTriesInOrder
<1> QED BY <1>2, <1>3, <1>4, <1>5 DEF QueueOK

LEMMA SendQueueOK ==
    ASSUME TypeOK, TypeOK', QueueOK,
           NEW taken \in BOOLEAN, NEW told \in BOOLEAN, Send(taken, told)
    PROVE  QueueOK'
<1> PICK r \in Seqs : r = Item
  BY RowInHand DEF Send, At
<1>1. /\ up /\ up' /\ loop.at = "composing" /\ loop'.rest = loop.rest
      /\ loop'.at = IF told THEN "accepted" ELSE "refused"
      /\ UNCHANGED <<rows, last>> /\ r \in loop.rest /\ loop.rest \subseteq Seqs
      /\ \A j \in loop.rest : r <= j
  BY RowInHand DEF Send, At, killVars, queueVars, TypeOK
<1>2. /\ attempts'[r] = attempts[r] + 1
      /\ \A i \in Seqs : i # r => attempts'[i] = attempts[i]
  BY DEF Send, TypeOK
<1>3. /\ delivered'[r] = delivered[r] + (IF taken THEN 1 ELSE 0)
      /\ \A i \in Seqs : i # r => delivered'[i] = delivered[i]
      /\ blurred' = blurred + (IF taken /\ ~told THEN 1 ELSE 0)
      /\ told => taken
  BY DEF Send, TypeOK
<1>4. /\ \A i \in Seqs : /\ attempts[i] \in Nat /\ delivered[i] \in Nat
                         /\ attempts'[i] \in Nat /\ delivered'[i] \in Nat
                         /\ Unsent(i) => rows[i].retries \in Nat
      /\ blurred \in Nat /\ blurred' \in Nat /\ MaxRetry \in Nat /\ blurred <= blurred'
  BY <1>3, OutboxAssumption, RealRow DEF TypeOK, Row, Unsent, Queued
<1>5. Item' = r
  BY <1>1 DEF Item
<1>6. /\ \A i : ~Handed(i) /\ ~Unwritten(i) /\ ~(InHand(i) /\ loop.at = "accepted")
      /\ \A i : Handed(i)' <=> i = r
      /\ \A i : Unwritten(i)' <=> i = r
      /\ \A i : InHand(i)' <=> i = r
  BY <1>1, <1>5 DEF Handed, Unwritten, InHand
<1>7. \A i \in Seqs : i # r => (Untried(i)' <=> Untried(i))
  BY <1>1, <1>2, RowsSame DEF Untried
<1>8. ~Untried(r)'
  BY <1>2, <1>4 DEF Untried
<1>9. Queued(r) => Unsent(r)
  BY <1>1 DEF QueueOK, LoopOK
<1>10. LoopOK'
  <2>1. \A i \in loop.rest : Queued(i) => Unsent(i)
    BY <1>1 DEF QueueOK, LoopOK
  <2>2. attempts'[r] > 0
    BY <1>2, <1>4
  <2> QED BY <1>1, <1>6, <2>1, <2>2, RowsSame DEF QueueOK, LoopOK
<1>11. TriesOK'
  <2>1. attempts[r] < MaxRetry + blurred
    <3>1. CASE Unsent(r)
      <4>1. rows[r].retries < MaxRetry /\ attempts[r] <= rows[r].retries + blurred + 0
        BY <1>6, <3>1 DEF QueueOK, LoopOK, TriesOK
      <4> QED BY <1>4, <3>1, <4>1
    <3>2. CASE ~Unsent(r)
      BY <1>1, <1>6, <1>9, <3>2 DEF QueueOK, TriesOK
    <3> QED BY <3>1, <3>2
  <2>2. \A i \in Seqs : attempts'[i] <= MaxRetry + blurred'
    <3>1. \A i \in Seqs : attempts[i] <= MaxRetry + blurred
      BY DEF QueueOK, TriesOK, NoResendLoop
    <3> QED BY <1>2, <1>4, <2>1, <3>1
  <2>3. ASSUME NEW i \in Seqs, Unsent(i)
        PROVE  attempts'[i] <= rows[i].retries + blurred' + (IF i = r THEN 1 ELSE 0)
    <3>1. attempts[i] <= rows[i].retries + blurred + 0
      BY <1>6, <2>3 DEF QueueOK, TriesOK
    <3> QED BY <1>2, <1>4, <2>3, <3>1
  <2>4. \A i \in Seqs : i > last => attempts'[i] = 0 /\ delivered'[i] = 0
    <3>1. r <= last /\ r \in Nat /\ last \in Nat
      BY <1>1, OutboxAssumption DEF QueueOK, LoopOK, TypeOK, Seqs
    <3>2. \A i \in Seqs : i > last => i # r
      BY <3>1
    <3> QED BY <1>2, <1>3, <3>2 DEF QueueOK, TriesOK
  <2>5. \A i \in loop.rest : ~Queued(i) /\ i # r => attempts'[i] < MaxRetry + blurred'
    <3>1. \A i \in loop.rest : ~Queued(i) => attempts[i] < MaxRetry + blurred
      BY <1>6 DEF QueueOK, TriesOK
    <3> QED BY <1>1, <1>2, <1>4, <3>1
  <2> QED BY <1>1, <1>6, <2>2, <2>3, <2>4, <2>5, RowsSame DEF TriesOK, NoResendLoop
<1>12. DeliveredOK'
  <2>1. delivered[r] <= blurred
    <3>1. CASE Unsent(r)
      <4>1. delivered[r] <= blurred + 0
        BY <1>6, <3>1 DEF QueueOK, DeliveredOK
      <4> QED BY <1>4, <4>1
    <3>2. CASE ~Unsent(r)
      BY <1>1, <1>6, <1>9, <3>2 DEF QueueOK, DeliveredOK
    <3> QED BY <3>1, <3>2
  <2>2. delivered'[r] <= blurred' + (IF told THEN 1 ELSE 0)
    BY <1>3, <1>4, <2>1
  <2>3. \A i \in Seqs : delivered'[i] <= 1 + blurred'
    <3>1. \A i \in Seqs : delivered[i] <= 1 + blurred
      BY DEF QueueOK, DeliveredOK, NoDuplicate
    <3>2. delivered'[r] <= 1 + blurred'
      BY <1>4, <2>2
    <3> QED BY <1>3, <1>4, <3>1, <3>2
  <2>4. ASSUME NEW i \in Seqs, Unsent(i)
        PROVE  delivered'[i] <= blurred' + (IF i = r /\ told THEN 1 ELSE 0)
    <3>1. delivered[i] <= blurred + 0
      BY <1>6, <2>4 DEF QueueOK, DeliveredOK
    <3> QED BY <1>3, <1>4, <2>2, <3>1
  <2>5. \A i \in loop.rest : ~Queued(i) /\ i # r => delivered'[i] <= blurred'
    <3>1. \A i \in loop.rest : ~Queued(i) => delivered[i] <= blurred
      BY <1>6 DEF QueueOK, DeliveredOK
    <3> QED BY <1>1, <1>3, <1>4, <3>1
  <2>6. loop'.at = "accepted" <=> told
    BY <1>1
  <2> QED BY <1>1, <1>6, <2>3, <2>4, <2>5, <2>6, RowsSame DEF DeliveredOK, NoDuplicate
<1>13. OrderOK'
  <2>1. \A i \in Seqs : Untried(i)' => Due(i)'
    BY <1>1, <1>7, <1>8, RowsSame DEF QueueOK, OrderOK
  <2>2. \A i \in Seqs, j \in loop.rest : Untried(i)' /\ i < j => i \in loop.rest
    BY <1>7, <1>8 DEF QueueOK, OrderOK
  <2>3. ASSUME NEW i \in Seqs, NEW j \in Seqs, i < j, Queued(i), i \notin Unaddressed,
               attempts'[j] > 0
        PROVE  attempts'[i] > 0
    <3>1. CASE attempts[j] > 0
      <4>1. attempts[i] > 0
        BY <2>3, <3>1 DEF QueueOK, OrderOK, FirstTriesInOrder
      <4> QED BY <1>2, <1>4, <4>1
    <3>2. CASE ~(attempts[j] > 0)
      <4>1. j = r /\ i \notin loop.rest
        <5>1. j = r
          BY <1>2, <2>3, <3>2
        <5>2. i \in Nat /\ r \in Nat
          BY OutboxAssumption DEF Seqs
        <5> QED BY <1>1, <2>3, <5>1, <5>2
      <4>2. ~Untried(i)
        BY <1>1, <2>3, <4>1 DEF QueueOK, OrderOK
      <4>3. attempts[i] # 0
        BY <2>3, <4>2 DEF Untried
      <4> QED BY <1>2, <1>4, <4>3
    <3> QED BY <3>1, <3>2
  <2> QED BY <1>1, <2>1, <2>2, <2>3, RowsSame DEF OrderOK, FirstTriesInOrder
<1> QED BY <1>10, <1>11, <1>12, <1>13 DEF QueueOK

LEMMA MarkSentQueueOK ==
    ASSUME TypeOK, TypeOK', QueueOK, NEW ok \in BOOLEAN, MarkSent(ok)
    PROVE  QueueOK'
<1> PICK r \in Seqs : r = Item
  BY RowInHand DEF MarkSent, At
<1>1. /\ up /\ up' /\ loop.at = "accepted" /\ loop'.at = "marked" /\ loop'.rest = loop.rest
      /\ UNCHANGED <<last, attempts, delivered>> /\ r \in loop.rest /\ loop.rest \subseteq Seqs
      /\ blurred' = IF ok THEN blurred ELSE blurred + 1
  BY RowInHand DEF MarkSent, At, killVars, TypeOK
<1>2. /\ \A i \in Seqs : i # r => rows'[i] = rows[i]
      /\ ok /\ Queued(r) => rows'[r] = [rows[r] EXCEPT !.status = "sent"]
      /\ ~(ok /\ Queued(r)) => rows' = rows
  BY DEF MarkSent, Mark, TypeOK
<1>3. /\ \A i \in Seqs : /\ attempts[i] \in Nat /\ delivered[i] \in Nat
                         /\ Unsent(i) => rows[i].retries \in Nat
      /\ blurred \in Nat /\ blurred' \in Nat /\ MaxRetry \in Nat /\ blurred <= blurred'
  BY <1>1, OutboxAssumption, RealRow DEF TypeOK, Row, Unsent, Queued
<1>4. Item' = r
  BY <1>1 DEF Item
<1>5. /\ \A i : Handed(i) <=> i = r
      /\ \A i : Unwritten(i) <=> i = r
      /\ \A i : InHand(i) <=> i = r
      /\ \A i : Handed(i)' <=> i = r
      /\ \A i : ~Unwritten(i)'
      /\ \A i : InHand(i)' <=> i = r
  BY <1>1, <1>4 DEF Handed, Unwritten, InHand
<1>6. \A i \in Seqs : i # r => /\ Queued(i)' <=> Queued(i)
                               /\ Unsent(i)' <=> Unsent(i)
                               /\ Due(i)' <=> Due(i)
                               /\ Untried(i)' <=> Untried(i)
  BY <1>1, <1>2 DEF Queued, Unsent, Due, Untried
<1>7. Queued(r)' <=> Queued(r)
  <2>1. CASE ok /\ Queued(r)
    <3>1. rows[r] \in Row
      BY <2>1 DEF Queued, TypeOK
    <3>2. rows'[r].status = "sent" /\ rows'[r] \in Row
      BY <1>2, <2>1, <3>1 DEF Row
    <3> QED BY <1>1, <2>1, <3>2, RealRow DEF Queued
  <2>2. CASE ~(ok /\ Queued(r))
    BY <1>1, <1>2, <2>2 DEF Queued
  <2> QED BY <2>1, <2>2
<1>8. Unsent(r)' => Unsent(r) /\ ~ok /\ rows' = rows
  <2>1. CASE ok /\ Queued(r)
    <3>1. rows[r] \in Row
      BY <2>1 DEF Queued, TypeOK
    <3>2. rows'[r].status = "sent"
      BY <1>2, <2>1, <3>1 DEF Row
    <3> QED BY <3>2 DEF Unsent
  <2>2. CASE ~(ok /\ Queued(r))
    BY <1>1, <1>2, <2>2 DEF Unsent, Queued
  <2> QED BY <2>1, <2>2
<1>9. ~Untried(r)' /\ ~Untried(r)
  BY <1>1, <1>3, <1>5 DEF QueueOK, LoopOK, Untried
<1>10. LoopOK'
  <2>1. \A i \in loop.rest : Queued(i)' => Unsent(i)' \/ i = r
    BY <1>1, <1>6 DEF QueueOK, LoopOK
  <2>2. \A i \in Seqs : Unsent(i)' => rows'[i].retries < MaxRetry
    BY <1>2, <1>6, <1>8 DEF QueueOK, LoopOK
  <2>3. attempts[r] > 0
    BY <1>5 DEF QueueOK, LoopOK
  <2> QED BY <1>1, <1>5, <2>1, <2>2, <2>3 DEF QueueOK, LoopOK
<1>11. TriesOK'
  <2>1. NoResendLoop'
    BY <1>1, <1>3 DEF QueueOK, TriesOK, NoResendLoop
  <2>2. \A i \in Seqs : i > last => attempts[i] = 0 /\ delivered[i] = 0
    BY DEF QueueOK, TriesOK
  <2>3. ASSUME NEW i \in Seqs, Unsent(i)' PROVE attempts[i] <= rows'[i].retries + blurred' + 0
    <3>1. CASE i = r
      <4>1. Unsent(r) /\ rows' = rows /\ blurred' = blurred + 1
        BY <1>1, <1>8, <2>3, <3>1
      <4>2. attempts[r] <= rows[r].retries + blurred + 1
        BY <1>5, <4>1 DEF QueueOK, TriesOK
      <4> QED BY <1>3, <3>1, <4>1, <4>2
    <3>2. CASE i # r
      <4>1. Unsent(i) /\ rows'[i] = rows[i]
        BY <1>2, <1>6, <2>3, <3>2
      <4>2. attempts[i] <= rows[i].retries + blurred + 0
        BY <1>5, <3>2, <4>1 DEF QueueOK, TriesOK
      <4> QED BY <1>3, <4>1, <4>2
    <3> QED BY <3>1, <3>2
  <2>4. \A i \in loop.rest : ~Queued(i)' /\ i # r => attempts[i] < MaxRetry + blurred'
    <3>1. \A i \in loop.rest : ~Queued(i) /\ i # r => attempts[i] < MaxRetry + blurred
      BY <1>5 DEF QueueOK, TriesOK
    <3> QED BY <1>1, <1>3, <1>6, <3>1
  <2> QED BY <1>1, <1>5, <2>1, <2>2, <2>3, <2>4 DEF TriesOK
<1>12. DeliveredOK'
  <2>1. NoDuplicate'
    BY <1>1, <1>3 DEF QueueOK, DeliveredOK, NoDuplicate
  <2>2. ASSUME NEW i \in Seqs, Unsent(i)' PROVE delivered[i] <= blurred' + 0
    <3>1. CASE i = r
      <4>1. Unsent(r) /\ blurred' = blurred + 1
        BY <1>1, <1>8, <2>2, <3>1
      <4>2. delivered[r] <= blurred + 1
        BY <1>1, <1>5, <4>1 DEF QueueOK, DeliveredOK
      <4> QED BY <1>3, <3>1, <4>1, <4>2
    <3>2. CASE i # r
      <4>1. Unsent(i)
        BY <1>6, <2>2, <3>2
      <4>2. delivered[i] <= blurred + 0
        BY <1>5, <3>2, <4>1 DEF QueueOK, DeliveredOK
      <4> QED BY <1>3, <4>2
    <3> QED BY <3>1, <3>2
  <2>3. \A i \in loop.rest : ~Queued(i)' /\ i # r => delivered[i] <= blurred'
    <3>1. \A i \in loop.rest : ~Queued(i) /\ i # r => delivered[i] <= blurred
      BY <1>5 DEF QueueOK, DeliveredOK
    <3> QED BY <1>1, <1>3, <1>6, <3>1
  <2> QED BY <1>1, <1>5, <2>1, <2>2, <2>3 DEF DeliveredOK
<1>13. OrderOK'
  <2>1. \A i \in Seqs : Untried(i)' => Due(i)'
    BY <1>6, <1>9 DEF QueueOK, OrderOK
  <2>2. \A i \in Seqs, j \in loop.rest : Untried(i)' /\ i < j => i \in loop.rest
    BY <1>6, <1>9 DEF QueueOK, OrderOK
  <2>3. FirstTriesInOrder'
    BY <1>1, <1>6, <1>7 DEF QueueOK, OrderOK, FirstTriesInOrder
  <2> QED BY <1>1, <2>1, <2>2, <2>3 DEF OrderOK
<1> QED BY <1>10, <1>11, <1>12, <1>13 DEF QueueOK

LEMMA BackoffQueueOK ==
    ASSUME TypeOK, QueueOK, NEW r \in Seqs, BackoffEnds(r)
    PROVE  QueueOK'
<1>1. /\ UNCHANGED <<up, last, loop, attempts, delivered, blurred>>
      /\ Unsent(r) /\ rows' = [rows EXCEPT ![r].waiting = FALSE]
  BY DEF BackoffEnds, killVars, historyVars
<1>2. rows[r] \in Row
  BY <1>1 DEF Unsent, Queued, TypeOK
<1>3. /\ \A i \in Seqs : i # r => rows'[i] = rows[i]
      /\ rows'[r].status = rows[r].status /\ rows'[r].retries = rows[r].retries
      /\ ~rows'[r].waiting /\ rows'[r] \in Row
  BY <1>1, <1>2 DEF TypeOK, Row
<1>4. Item' = Item /\ loop.rest \subseteq Seqs
  BY <1>1 DEF Item, TypeOK
<1>5. \A i \in Seqs : /\ Queued(i)' <=> Queued(i)
                      /\ Unsent(i)' <=> Unsent(i)
                      /\ Due(i) => Due(i)'
                      /\ Untried(i)' <=> Untried(i)
                      /\ rows'[i].retries = rows[i].retries
  BY <1>1, <1>2, <1>3, RealRow DEF Queued, Unsent, Due, Untried
<1>6. \A i : /\ InHand(i)' <=> InHand(i)
             /\ Handed(i)' <=> Handed(i)
             /\ Unwritten(i)' <=> Unwritten(i)
  BY <1>1, <1>4 DEF InHand, Handed, Unwritten
<1>7. LoopOK'
  BY <1>1, <1>4, <1>5, <1>6 DEF QueueOK, LoopOK
<1>8. TriesOK'
  BY <1>1, <1>4, <1>5, <1>6 DEF QueueOK, TriesOK, NoResendLoop
<1>9. DeliveredOK'
  BY <1>1, <1>4, <1>5, <1>6 DEF QueueOK, DeliveredOK, NoDuplicate
<1>10. OrderOK'
  BY <1>1, <1>4, <1>5 DEF QueueOK, OrderOK, FirstTriesInOrder
<1> QED BY <1>7, <1>8, <1>9, <1>10 DEF QueueOK

LEMMA ResetQueueOK ==
    ASSUME TypeOK, QueueOK, Reset
    PROVE  QueueOK'
<1>1. /\ UNCHANGED <<up, last, loop, attempts, delivered, blurred>>
      /\ \A i \in Seqs : rows'[i] = NoRow
  BY DEF Reset, killVars
<1>2. Item' = Item /\ loop.rest \subseteq Seqs
  BY <1>1 DEF Item, TypeOK
<1>3. \A i \in Seqs : ~Queued(i)' /\ ~Unsent(i)' /\ ~Untried(i)'
  BY <1>1 DEF Queued, Unsent, Untried
<1>4. \A i : /\ InHand(i)' <=> InHand(i)
             /\ Handed(i)' <=> Handed(i)
             /\ Unwritten(i)' <=> Unwritten(i)
  BY <1>1, <1>2 DEF InHand, Handed, Unwritten
<1>5. \A i : ~Handed(i) => ~Unwritten(i) /\ ~(InHand(i) /\ loop.at \in {"accepted", "marked"})
  BY DEF Handed, Unwritten
<1>6. LoopOK'
  BY <1>1, <1>2, <1>3, <1>4 DEF QueueOK, LoopOK
<1>7. ASSUME NEW i \in loop.rest, ~Handed(i)
      PROVE  attempts[i] < MaxRetry + blurred /\ delivered[i] <= blurred
  <2>1. CASE Queued(i)
    <3>1. Unsent(i) /\ i \in Seqs
      BY <1>2, <1>5, <1>7, <2>1 DEF QueueOK, LoopOK
    <3>2. /\ rows[i].retries < MaxRetry
          /\ attempts[i] <= rows[i].retries + blurred + 0
          /\ delivered[i] <= blurred + 0
      BY <1>5, <1>7, <3>1 DEF QueueOK, LoopOK, TriesOK, DeliveredOK
    <3>3. /\ attempts[i] \in Nat /\ delivered[i] \in Nat /\ rows[i].retries \in Nat
          /\ blurred \in Nat /\ MaxRetry \in Nat
      BY <3>1, OutboxAssumption, RealRow DEF TypeOK, Row, Unsent, Queued
    <3> QED BY <3>2, <3>3
  <2>2. CASE ~Queued(i)
    BY <1>7, <2>2 DEF QueueOK, TriesOK, DeliveredOK
  <2> QED BY <2>1, <2>2
<1>8. TriesOK'
  BY <1>1, <1>3, <1>4, <1>7 DEF QueueOK, TriesOK, NoResendLoop
<1>9. DeliveredOK'
  BY <1>1, <1>3, <1>4, <1>7 DEF QueueOK, DeliveredOK, NoDuplicate
<1>10. OrderOK'
  BY <1>1, <1>2, <1>3 DEF QueueOK, OrderOK, FirstTriesInOrder
<1> QED BY <1>6, <1>8, <1>9, <1>10 DEF QueueOK

LEMMA StepQueueOK ==
    ASSUME TypeOK, TypeOK', QueueOK, [Next]_vars
    PROVE  QueueOK'
<1> USE DEF killVars, queueVars, historyVars
<1>1. CASE Enqueue
  BY <1>1, EnqueueQueueOK
<1>2. CASE Refill \/ KillSwitch \/ Disconnect \/ Reconnect \/ Midnight \/ Boot \/ UNCHANGED vars
  BY <1>2, QuietSteps, QuietQueueOK
<1>3. CASE Tick
  BY <1>3, TickQueueOK
<1>4. CASE Defer
  BY <1>4, ReturnQueueOK DEF Defer, At
<1>5. CASE Pace
  <2>1. loop'.at = "pacing" /\ loop'.rest = loop.rest
    BY <1>5 DEF Pace, TypeOK
  <2> QED BY <1>5, <2>1, PaceQueueOK DEF Pace, At
<1>6. CASE Compose
  <2>1. CASE KillActive
    BY <1>6, <2>1, ReturnQueueOK DEF Compose, At
  <2>2. CASE ~KillActive
    <3>1. loop'.at = "composing" /\ loop'.rest = loop.rest
      BY <1>6, <2>2 DEF Compose, TypeOK
    <3> QED BY <1>6, <3>1, PaceQueueOK DEF Compose, At
  <2> QED BY <2>1, <2>2
<1>7. ASSUME NEW taken \in BOOLEAN, NEW told \in BOOLEAN, Send(taken, told)
      PROVE  QueueOK'
  BY <1>7, SendQueueOK
<1>8. ASSUME NEW ok \in BOOLEAN,
             SkipUnaddressed(ok) \/ MarkSent(ok) \/ AddMessage(ok) \/ RetryOrDeadLetter(ok)
      PROVE  QueueOK'
  BY <1>8, SkipQueueOK, MarkSentQueueOK, AddMessageQueueOK, RetryQueueOK
<1>9. ASSUME NEW i \in Seqs, BackoffEnds(i)
      PROVE  QueueOK'
  BY <1>9, BackoffQueueOK
<1>10. CASE Reset
  BY <1>10, ResetQueueOK
<1>11. CASE Down
  BY <1>11, ReturnQueueOK DEF Down
<1> QED
  BY <1>1, <1>2, <1>3, <1>4, <1>5, <1>6, <1>7, <1>8, <1>9, <1>10, <1>11 DEF Next, LoopStep

LEMMA QueueInvariant == Spec => [](TypeOK /\ QueueOK)
<1>1. Init => TypeOK /\ QueueOK
  BY InitTypeOK, InitQueueOK
<1>2. TypeOK /\ QueueOK /\ [Next]_vars => (TypeOK /\ QueueOK)'
  BY StepTypeOK, StepQueueOK
<1> QED BY <1>1, <1>2, PTL DEF Spec

\* No resend loop, for any number of messages, retries, crashes, failed writes
\* and resets (retryOrDeadLetter).
THEOREM OutboxNoResendLoop == Spec => []NoResendLoop
<1>1. QueueOK => NoResendLoop
  BY DEF QueueOK, TriesOK
<1> QED BY <1>1, QueueInvariant, PTL

\* Nobody receives a message twice unless a result was lost (processOutbox:
\* MarkSent before AddMessage, the row read again at every tick).
THEOREM OutboxNoDuplicate == Spec => []NoDuplicate
<1>1. QueueOK => NoDuplicate
  BY DEF QueueOK, DeliveredOK
<1> QED BY <1>1, QueueInvariant, PTL

\* No message is first tried before an older one (DueOutbox's ORDER BY seq and
\* LIMIT, processOutbox's returns).
THEOREM OutboxFirstTriesInOrder == Spec => []FirstTriesInOrder
<1>1. QueueOK => FirstTriesInOrder
  BY DEF QueueOK, OrderOK
<1> QED BY <1>1, QueueInvariant, PTL

-----------------------------------------------------------------------------
(* The daily cap. *)

\* A message charged today and still to go; and one accepted today and still to
\* be recorded.
ToSend == IF loop.at \in {"pacing", "composing"} /\ loop.today THEN 1 ELSE 0
ToRecord == IF loop.at \in {"accepted", "marked"} /\ loop.today THEN 1 ELSE 0

\* The running governor knows of every send of today, and so does the cap, the
\* messages no count knows of excepted; and so will the governor of the next
\* process, which starts from the record.
CapOK ==
    gov.cap # 0 =>
        /\ up => sentToday + ToSend <= Charged + uncounted + erased
        /\ sentToday + ToSend <= gov.cap + uncounted + erased
        /\ sentToday <= recorded + ToRecord + uncounted + erased

LEMMA CapTypes ==
    ASSUME TypeOK
    PROVE  /\ sentToday \in Nat /\ uncounted \in Nat /\ erased \in Nat /\ recorded \in Nat
           /\ Charged \in Nat /\ gov.cap \in Nat
           /\ ToSend \in {0, 1} /\ ToRecord \in {0, 1}
BY DEF TypeOK, Charged, ToSend, ToRecord

LEMMA InitCapOK == Init => CapOK
<1> SUFFICES ASSUME Init PROVE CapOK
  OBVIOUS
<1>1. /\ sentToday = 0 /\ uncounted = 0 /\ erased = 0 /\ recorded = 0
      /\ ToSend = 0 /\ ToRecord = 0
  BY DEF Init, OutboxInit, ToSend, ToRecord
<1>2. Charged = 0 /\ gov.cap \in Nat
  BY OutboxAssumption DEF Init, OutboxInit, Charged
<1> QED BY <1>1, <1>2 DEF CapOK

\* A send is charged: there was room for it.
LEMMA ChargeCounts ==
    ASSUME TypeOK, Charge, gov.cap # 0
    PROVE  Charged' = Charged + 1 /\ Charged < gov.cap /\ gov'.cap = gov.cap
<1>1. /\ gov'.charged = Charged + 1 /\ gov'.today /\ gov'.cap = gov.cap
  BY DEF Charge, Daily, TypeOK
<1> QED BY <1>1 DEF Charge, Allowed, Charged

LEMMA DenyCounts ==
    ASSUME TypeOK, Deny
    PROVE  Charged' = Charged /\ gov'.cap = gov.cap
<1>1. CASE kill
  BY <1>1 DEF Deny, Charged
<1>2. CASE ~kill
  <2>1. gov'.charged = Charged /\ gov'.today /\ gov'.cap = gov.cap
    BY <1>2 DEF Deny, TypeOK
  <2> QED BY <2>1 DEF Charged
<1> QED BY <1>1, <1>2

LEMMA StepCapOK ==
    ASSUME TypeOK, TypeOK', LoopOK, CapOK, [Next]_vars
    PROVE  CapOK'
<1> USE DEF killVars, queueVars, historyVars
<1>0. /\ sentToday \in Nat /\ uncounted \in Nat /\ erased \in Nat /\ recorded \in Nat
      /\ Charged \in Nat /\ gov.cap \in Nat
      /\ ToSend \in {0, 1} /\ ToRecord \in {0, 1}
      /\ sentToday' \in Nat /\ uncounted' \in Nat /\ erased' \in Nat /\ recorded' \in Nat
      /\ Charged' \in Nat /\ gov'.cap \in Nat
      /\ ToSend \in Nat /\ ToRecord \in Nat
  BY CapTypes DEF TypeOK, Charged
<1>1. ASSUME UNCHANGED <<sentToday, uncounted, erased, recorded>>,
             gov'.cap = gov.cap, up /\ up' => Charged' = Charged, up' => up,
             ToSend' <= ToSend, ToSend' \in {0, 1}, ToRecord' = ToRecord
      PROVE  CapOK'
  BY <1>0, <1>1 DEF CapOK, Charged, ToSend, ToRecord
<1>2. CASE Enqueue \/ Disconnect \/ Reconnect \/ UNCHANGED vars \/ (\E i \in Seqs : BackoffEnds(i))
  <2>1. UNCHANGED <<sentToday, uncounted, erased, recorded, gov, up, loop>>
    BY <1>2 DEF Enqueue, Disconnect, Reconnect, vars, BackoffEnds
  <2>2. Charged' = Charged /\ ToSend' = ToSend /\ ToRecord' = ToRecord
    BY <2>1 DEF Charged, ToSend, ToRecord
  <2> QED BY <1>0, <1>1, <2>1, <2>2
<1>3. CASE Refill
  <2>1. gov'.charged = gov.charged /\ gov'.today = gov.today /\ gov'.cap = gov.cap
    BY <1>3 DEF Refill, TypeOK
  <2>2. UNCHANGED <<sentToday, uncounted, erased, recorded, up, loop>>
    BY <1>3 DEF Refill
  <2>3. Charged' = Charged /\ ToSend' = ToSend /\ ToRecord' = ToRecord
    BY <2>1, <2>2 DEF Charged, ToSend, ToRecord
  <2> QED BY <1>0, <1>1, <2>1, <2>2, <2>3
<1>4. CASE Tick
  <2>1. loop.at = "idle" /\ loop'.at = "head"
    BY <1>4 DEF Tick, At
  <2>2. UNCHANGED <<sentToday, uncounted, erased, recorded, up, gov>>
    BY <1>4 DEF Tick
  <2>3. Charged' = Charged /\ ToSend' = 0 /\ ToSend = 0 /\ ToRecord' = 0 /\ ToRecord = 0
    BY <2>1, <2>2 DEF Charged, ToSend, ToRecord
  <2> QED BY <1>0, <1>1, <2>2, <2>3
<1>5. CASE Defer
  <2>1. loop.at = "head" /\ loop'.at = "idle"
    BY <1>5, ReturnMoves DEF Defer, At
  <2>2. UNCHANGED <<sentToday, uncounted, erased, recorded, up>>
    BY <1>5 DEF Defer
  <2>3. Charged' = Charged /\ gov'.cap = gov.cap
    BY <1>5, DenyCounts DEF Defer, Charged
  <2>4. ToSend' = 0 /\ ToSend = 0 /\ ToRecord' = 0 /\ ToRecord = 0
    BY <2>1 DEF ToSend, ToRecord
  <2> QED BY <1>0, <1>1, <2>2, <2>3, <2>4
<1>6. CASE Pace \/ (\E ok \in BOOLEAN : SkipUnaddressed(ok))
  <2>1. Charge /\ loop.at = "head" /\ UNCHANGED <<sentToday, uncounted, erased, recorded>>
    BY <1>6 DEF Pace, SkipUnaddressed, At
  <2>2. ToSend = 0 /\ ToRecord = 0
    BY <2>1 DEF ToSend, ToRecord
  <2>3. ToRecord' = 0 /\ ToSend' \in {0, 1}
    <3>1. CASE Pace
      <4>1. loop'.at = "pacing"
        BY <3>1 DEF Pace, TypeOK
      <4> QED BY <4>1 DEF ToSend, ToRecord
    <3>2. CASE \E ok \in BOOLEAN : SkipUnaddressed(ok)
      <4>1. loop'.at \in {"idle", "head"}
        BY <2>1, <3>2, AdvanceMoves DEF SkipUnaddressed
      <4> QED BY <4>1 DEF ToSend, ToRecord
    <3> QED BY <1>6, <3>1, <3>2
  <2>4. up /\ gov'.cap = gov.cap
    BY <1>6, <2>1 DEF Pace, SkipUnaddressed, At, Charge, TypeOK
  <2>5. CASE gov.cap # 0
    <3>1. Charged' = Charged + 1 /\ Charged < gov.cap
      BY <2>1, <2>5, ChargeCounts
    <3> QED BY <1>0, <2>1, <2>2, <2>3, <2>4, <2>5, <3>1 DEF CapOK, Charged, ToSend, ToRecord
  <2> QED BY <2>4, <2>5 DEF CapOK
<1>7. CASE Compose
  <2>1. UNCHANGED <<sentToday, uncounted, erased, recorded, gov, up>>
    BY <1>7 DEF Compose
  <2>2. loop.at = "pacing" /\ (loop'.at = "idle" \/ (loop'.at = "composing" /\ loop'.today = loop.today))
    BY <1>7, ReturnMoves DEF Compose, At, TypeOK
  <2>3. Charged' = Charged /\ ToSend' <= ToSend /\ ToSend' \in {0, 1} /\ ToRecord' = ToRecord
    BY <2>1, <2>2 DEF Charged, ToSend, ToRecord
  <2> QED BY <1>0, <1>1, <2>1, <2>3
<1>8. ASSUME NEW taken \in BOOLEAN, NEW told \in BOOLEAN, Send(taken, told)
      PROVE  CapOK'
  <2>1. /\ UNCHANGED <<erased, recorded, gov, up>> /\ loop.at = "composing"
        /\ loop'.at = IF told THEN "accepted" ELSE "refused"
        /\ loop'.today /\ (told => taken)
    BY <1>8 DEF Send, At, TypeOK
  <2>2. /\ Charged' = Charged /\ ToSend = (IF loop.today THEN 1 ELSE 0) /\ ToSend' = 0
        /\ ToRecord = 0 /\ ToRecord' = IF told THEN 1 ELSE 0
    BY <2>1 DEF Charged, ToSend, ToRecord
  <2>3. CASE ~taken
    <3>1. UNCHANGED <<sentToday, uncounted>>
      BY <1>8, <2>3 DEF Send
    <3> QED BY <1>0, <2>1, <2>2, <3>1 DEF CapOK
  <2>4. CASE taken /\ gov.cap # 0
    <3>1. /\ sentToday' = sentToday + 1
          /\ uncounted' = IF told /\ loop.today THEN uncounted ELSE uncounted + 1
      BY <1>8, <2>4 DEF Send, Daily
    <3> QED BY <1>0, <2>1, <2>2, <2>4, <3>1 DEF CapOK
  <2> QED BY <2>1, <2>3, <2>4 DEF CapOK
<1>9. ASSUME NEW ok \in BOOLEAN, MarkSent(ok)
      PROVE  CapOK'
  <2>1. /\ UNCHANGED <<sentToday, uncounted, erased, recorded, gov, up>>
        /\ loop.at = "accepted" /\ loop'.at = "marked" /\ loop'.today = loop.today
    BY <1>9 DEF MarkSent, At, TypeOK
  <2>2. Charged' = Charged /\ ToSend' = ToSend /\ ToRecord' = ToRecord
    BY <2>1 DEF Charged, ToSend, ToRecord
  <2> QED BY <1>0, <1>1, <2>1, <2>2
<1>10. ASSUME NEW ok \in BOOLEAN, AddMessage(ok)
       PROVE  CapOK'
  <2>1. /\ UNCHANGED <<sentToday, erased, gov, up>>
        /\ loop.at = "marked" /\ loop'.at \in {"idle", "head"}
    BY <1>10, AdvanceMoves DEF AddMessage, At
  <2>2. /\ Charged' = Charged /\ ToSend' = 0 /\ ToSend = 0 /\ ToRecord' = 0
        /\ ToRecord = IF loop.today THEN 1 ELSE 0
    BY <2>1 DEF Charged, ToSend, ToRecord
  <2>3. CASE gov.cap # 0
    <3>1. /\ recorded' = IF ok /\ loop.today THEN recorded + 1 ELSE recorded
          /\ uncounted' = IF ~ok /\ loop.today THEN uncounted + 1 ELSE uncounted
      BY <1>10, <2>3 DEF AddMessage, Daily
    <3> QED BY <1>0, <2>1, <2>2, <2>3, <3>1 DEF CapOK
  <2> QED BY <2>1, <2>3 DEF CapOK
<1>11. ASSUME NEW ok \in BOOLEAN, RetryOrDeadLetter(ok)
       PROVE  CapOK'
  <2>1. /\ UNCHANGED <<sentToday, uncounted, erased, recorded, gov, up>>
        /\ loop.at = "refused" /\ loop'.at \in {"idle", "head"}
    BY <1>11, AdvanceMoves DEF RetryOrDeadLetter, At
  <2>2. Charged' = Charged /\ ToSend' = 0 /\ ToSend = 0 /\ ToRecord' = 0 /\ ToRecord = 0
    BY <2>1 DEF Charged, ToSend, ToRecord
  <2> QED BY <1>0, <1>1, <2>1, <2>2
<1>12. CASE KillSwitch
  <2>1. UNCHANGED <<sentToday, uncounted, erased, recorded, gov, loop, up>>
    BY <1>12 DEF KillSwitch, KillStep, Ask, Persist, Govern, Mute, Trip, TripGovernor
  <2>2. Charged' = Charged /\ ToSend' = ToSend /\ ToRecord' = ToRecord
    BY <2>1 DEF Charged, ToSend, ToRecord
  <2> QED BY <1>0, <1>1, <2>1, <2>2
<1>13. CASE Midnight
  <2>1. /\ sentToday' = 0 /\ uncounted' = 0 /\ erased' = 0 /\ recorded' = 0
        /\ ~loop'.today /\ gov'.cap = gov.cap
    BY <1>13 DEF Midnight, TypeOK
  <2>2. ToSend' = 0 /\ ToRecord' = 0
    BY <2>1 DEF ToSend, ToRecord
  <2> QED BY <1>0, <2>1, <2>2 DEF CapOK, Charged, ToSend, ToRecord
<1>14. CASE Reset
  <2>1. UNCHANGED <<sentToday, uncounted, gov, loop, up>>
    BY <1>14 DEF Reset
  <2>2. recorded' = 0 /\ erased' = erased + recorded
    BY <1>14 DEF Reset
  <2>3. Charged' = Charged /\ ToSend' = ToSend /\ ToRecord' = ToRecord
    BY <2>1 DEF Charged, ToSend, ToRecord
  <2> QED BY <1>0, <2>1, <2>2, <2>3 DEF CapOK
<1>15. CASE Down
  <2>1. /\ UNCHANGED <<sentToday, erased, recorded>> /\ ~up' /\ loop'.at = "idle"
        /\ gov'.cap = gov.cap
    BY <1>15, ReturnMoves DEF Down, KillDown, TypeOK
  <2>2. ToSend' = 0 /\ ToRecord' = 0
    BY <2>1 DEF ToSend, ToRecord
  <2>3. CASE gov.cap # 0
    <3>1. uncounted' = uncounted + ToRecord
      BY <1>0, <1>15, <2>3 DEF Down, Daily, ToRecord
    <3> QED BY <1>0, <2>1, <2>2, <2>3, <3>1 DEF CapOK, Charged, ToSend, ToRecord
  <2> QED BY <2>1, <2>3 DEF CapOK
<1>16. CASE Boot
  <2>1. UNCHANGED <<sentToday, uncounted, erased, recorded, loop>>
    BY <1>16 DEF Boot
  <2>2. gov'.charged = recorded /\ gov'.today /\ gov'.cap = gov.cap
    BY <1>16 DEF Boot, Seed, TypeOK
  <2>3. loop.at = "idle"
    BY <1>16 DEF Boot, LoopOK
  <2>4. Charged' = recorded /\ ToSend' = 0 /\ ToRecord' = 0 /\ ToSend = 0 /\ ToRecord = 0
    BY <2>1, <2>2, <2>3 DEF Charged, ToSend, ToRecord
  <2> QED BY <1>0, <2>1, <2>2, <2>4 DEF CapOK
<1> QED
  BY <1>2, <1>3, <1>4, <1>5, <1>6, <1>7, <1>8, <1>9, <1>10, <1>11, <1>12, <1>13, <1>14,
     <1>15, <1>16 DEF Next, LoopStep

\* The daily cap, for any cap, bucket and number of restarts (governor.go Allow
\* and SeedDailyCount, main.go).
THEOREM OutboxDailyCap == Spec => []DailyCap
<1>1. TypeOK /\ CapOK => DailyCap
  BY CapTypes DEF CapOK, DailyCap
<1>2. TypeOK /\ QueueOK /\ CapOK /\ [Next]_vars => CapOK'
  BY StepTypeOK, StepCapOK DEF QueueOK
<1> QED BY <1>1, <1>2, InitCapOK, QueueInvariant, PTL DEF Spec

-----------------------------------------------------------------------------
(* The emergency stop. *)

\* A lone request has every other one on its side, its value in the setting
\* once that is written, and in the governor before it reaches the state; and
\* what a request that stands has set, stays set.
StopOK ==
    /\ \A o, p \in Owners :
          Asking(o) /\ call[o].lone /\ Asking(p) /\ call[o].value => call[p].value
    /\ \A o \in Owners : call[o].value /\ call[o].lone =>
          /\ call[o].step \in {"govern", "mute"} => setting
          /\ call[o].step = "mute" => kill
    /\ brake => /\ setting
                /\ up => kill /\ muted
                /\ \A o \in Owners : Asking(o) => call[o].value

LEMMA InitStopOK == Init => StopOK
<1> SUFFICES ASSUME Init PROVE StopOK
  OBVIOUS
<1>1. \A o \in Owners : call[o].step = "idle"
  BY DEF Init, KillInit, Idle
<1>2. ~brake
  BY DEF Init, KillInit
<1> QED BY <1>1, <1>2 DEF StopOK, Asking

LEMMA KillStepStopOK ==
    ASSUME TypeOK, StopOK, KillStep
    PROVE  StopOK'
<1>0. call \in [Owners -> Call]
  BY DEF TypeOK, KillTypeOK
<1>1. ASSUME NEW o \in Owners, NEW v \in BOOLEAN, Ask(o, v)
      PROVE  StopOK'
  <2>1. UNCHANGED <<up, setting, kill, muted>> /\ (brake' => brake /\ v)
    BY <1>1, Zenon DEF Ask
  <2>2. call'[o] = [step |-> "persist", value |-> v, lone |-> ~Opposed(v)]
    BY <1>1 DEF Ask
  <2>3. Asking(o)' /\ call'[o].step = "persist"
    BY <2>2 DEF Asking
  <2>4. (call'[o].value <=> v) /\ (call'[o].lone => ~Opposed(v))
    <3>1. call'[o].value = v /\ call'[o].lone = ~Opposed(v)
      BY <2>2
    <3> QED BY <3>1, Zenon
  <2>5. ASSUME NEW p \in Owners, p # o
        PROVE  /\ call'[p].step = call[p].step /\ (call'[p].value <=> call[p].value)
               /\ call'[p].lone => call[p].lone /\ call[p].value = v
               /\ Asking(p)' <=> Asking(p)
    <3>1. call'[p] = [call[p] EXCEPT !.lone = @ /\ call[p].value = v]
      BY <1>1, <2>5 DEF Ask
    <3>2. call'[p].step = call[p].step /\ (call'[p].value <=> call[p].value)
      BY <1>0, <3>1 DEF Call
    <3>3. call'[p].lone => call[p].lone /\ call[p].value = v
      BY <1>0, <3>1 DEF Call
    <3> QED BY <3>2, <3>3 DEF Asking
  <2>6. ASSUME NEW q \in Owners, NEW p \in Owners,
               Asking(q)', call'[q].lone, Asking(p)', call'[q].value
        PROVE  call'[p].value
    <3>1. CASE q = o /\ p # o
      <4>1. Asking(p) /\ ~Opposed(v) /\ v
        BY <2>4, <2>5, <2>6, <3>1
      <4>2. call[p].value = v
        BY <4>1 DEF Opposed
      <4> QED BY <2>5, <3>1, <4>1, <4>2
    <3>2. CASE q # o /\ p # o
      BY <2>5, <2>6, <3>2 DEF StopOK
    <3>3. CASE q # o /\ p = o
      <4>1. call[q].value = v /\ call[q].value
        BY <2>5, <2>6, <3>3
      <4> QED BY <2>4, <3>3, <4>1
    <3>4. CASE q = o /\ p = o
      BY <2>6, <3>4
    <3> QED BY <3>1, <3>2, <3>3, <3>4
  <2>7. ASSUME NEW q \in Owners, call'[q].value, call'[q].lone
        PROVE  /\ call'[q].step \in {"govern", "mute"} => setting'
               /\ call'[q].step = "mute" => kill'
    BY <2>1, <2>3, <2>5, <2>7 DEF StopOK
  <2>8. ASSUME brake'
        PROVE  /\ setting' /\ (up' => kill' /\ muted')
               /\ \A p \in Owners : Asking(p)' => call'[p].value
    BY <2>1, <2>4, <2>5, <2>8 DEF StopOK
  <2> QED BY <2>6, <2>7, <2>8 DEF StopOK
<1>2. ASSUME NEW o \in Owners, NEW ok \in BOOLEAN, Persist(o, ok)
      PROVE  StopOK'
  <2>1. /\ UNCHANGED <<up, kill, muted, brake>> /\ call[o].step = "persist"
        /\ ok /\ call[o].value => setting'
        /\ ~ok /\ setting => setting'
    BY <1>2, Zenon DEF Persist
  <2>2. /\ call'[o].step = "govern" /\ (call'[o].value <=> call[o].value)
        /\ call'[o].lone => call[o].lone /\ ok
    BY <1>0, <1>2 DEF Persist, Call
  <2>3. \A p \in Owners : p # o => call'[p] = call[p]
    BY <1>0, <1>2 DEF Persist
  <2>4. Asking(o) /\ \A p \in Owners : /\ Asking(p)' <=> Asking(p)
                                       /\ call'[p].value <=> call[p].value
                                       /\ call'[p].lone => call[p].lone
    BY <2>1, <2>2, <2>3 DEF Asking
  <2>5. ASSUME NEW q \in Owners, call'[q].value, call'[q].lone,
               call'[q].step \in {"govern", "mute"}
        PROVE  setting' /\ (call'[q].step = "mute" => kill')
    <3>1. CASE q = o
      BY <2>1, <2>2, <2>5, <3>1
    <3>2. CASE q # o
      <4>1. /\ Asking(q) /\ call[q].lone /\ call[q].value /\ setting
            /\ call'[q].step = "mute" => kill
        BY <2>3, <2>5, <3>2 DEF StopOK, Asking
      <4>2. call[o].value
        BY <2>4, <4>1 DEF StopOK
      <4> QED BY <2>1, <4>1, <4>2
    <3> QED BY <3>1, <3>2
  <2>6. brake' => setting'
    BY <2>1, <2>4 DEF StopOK
  <2> QED BY <2>1, <2>4, <2>5, <2>6 DEF StopOK
<1>3. ASSUME NEW o \in Owners, Govern(o)
      PROVE  StopOK'
  <2>1. /\ UNCHANGED <<up, setting, muted, brake>> /\ call[o].step = "govern"
        /\ call[o].value => kill'
    BY <1>3, Zenon DEF Govern
  <2>2. /\ call'[o].step = "mute" /\ (call'[o].value <=> call[o].value)
        /\ call'[o].lone <=> call[o].lone
    BY <1>0, <1>3 DEF Govern, Call
  <2>3. \A p \in Owners : p # o => call'[p] = call[p]
    BY <1>0, <1>3 DEF Govern
  <2>4. Asking(o) /\ \A p \in Owners : /\ Asking(p)' <=> Asking(p)
                                       /\ call'[p].value <=> call[p].value
                                       /\ call'[p].lone <=> call[p].lone
    BY <2>1, <2>2, <2>3 DEF Asking
  <2>5. ASSUME NEW q \in Owners, call'[q].value, call'[q].lone,
               call'[q].step \in {"govern", "mute"}
        PROVE  setting' /\ (call'[q].step = "mute" => kill')
    <3>1. CASE q = o
      BY <2>1, <2>2, <2>5, <3>1 DEF StopOK
    <3>2. CASE q # o
      <4>1. Asking(q) /\ call[q].lone /\ call[q].value /\ setting
        BY <2>3, <2>5, <3>2 DEF StopOK, Asking
      <4>2. call[o].value
        BY <2>4, <4>1 DEF StopOK
      <4> QED BY <2>1, <4>1, <4>2
    <3> QED BY <3>1, <3>2
  <2>6. brake' => kill' /\ setting'
    BY <2>1, <2>4 DEF StopOK
  <2> QED BY <2>1, <2>4, <2>5, <2>6 DEF StopOK
<1>4. ASSUME NEW o \in Owners, Mute(o)
      PROVE  StopOK'
  <2>1. /\ UNCHANGED <<up, setting, kill>> /\ call[o].step = "mute"
        /\ call[o].value => muted'
        /\ brake' => brake \/ (call[o].value /\ call[o].lone)
    BY <1>4, Zenon DEF Mute
  <2>2. call'[o] = Idle /\ \A p \in Owners : p # o => call'[p] = call[p]
    BY <1>0, <1>4 DEF Mute
  <2>3. ~Asking(o)' /\ call'[o].step = "idle" /\ \A p \in Owners : p # o => (Asking(p)' <=> Asking(p))
    BY <2>2 DEF Asking, Idle
  <2>4. Asking(o)
    BY <2>1 DEF Asking
  <2>5. ASSUME brake'
        PROVE  /\ setting' /\ (up' => kill' /\ muted')
               /\ \A p \in Owners : Asking(p)' => call'[p].value
    <3>1. CASE brake
      <4>1. call[o].value
        BY <2>4, <3>1 DEF StopOK
      <4> QED BY <2>1, <2>2, <2>3, <3>1, <4>1 DEF StopOK
    <3>2. CASE call[o].value /\ call[o].lone
      <4>1. setting /\ kill
        BY <2>1, <3>2 DEF StopOK
      <4>2. \A p \in Owners : Asking(p) => call[p].value
        BY <2>4, <3>2 DEF StopOK
      <4> QED BY <2>1, <2>2, <2>3, <3>2, <4>1, <4>2
    <3> QED BY <2>1, <2>5, <3>1, <3>2
  <2>6. \A q \in Owners : call'[q].value /\ call'[q].lone =>
            /\ call'[q].step \in {"govern", "mute"} => setting'
            /\ call'[q].step = "mute" => kill'
    BY <2>1, <2>2, <2>3 DEF StopOK
  <2>7. \A q, p \in Owners :
            Asking(q)' /\ call'[q].lone /\ Asking(p)' /\ call'[q].value => call'[p].value
    BY <2>2, <2>3 DEF StopOK
  <2> QED BY <2>5, <2>6, <2>7 DEF StopOK
<1>5. CASE Trip \/ TripGovernor
  <2>1. UNCHANGED <<up, setting, call, brake>> /\ (kill => kill') /\ (muted => muted')
    <3>1. CASE Trip
      BY <3>1 DEF Trip
    <3>2. CASE TripGovernor
      BY <3>2 DEF TripGovernor
    <3> QED BY <1>5, <3>1, <3>2
  <2>2. \A o : Asking(o)' <=> Asking(o)
    BY <2>1 DEF Asking
  <2> QED BY <2>1, <2>2 DEF StopOK
<1> QED BY <1>1, <1>2, <1>3, <1>4, <1>5 DEF KillStep

LEMMA StepStopOK ==
    ASSUME TypeOK, StopOK, [Next]_vars
    PROVE  StopOK'
<1>1. CASE UNCHANGED killVars
  <2>1. UNCHANGED <<up, setting, kill, muted, call, brake>>
    BY <1>1 DEF killVars
  <2>2. \A o : Asking(o)' <=> Asking(o)
    BY <2>1 DEF Asking
  <2> QED BY <2>1, <2>2 DEF StopOK
<1>2. CASE KillSwitch
  BY <1>2, KillStepStopOK DEF KillSwitch
<1>3. CASE Down
  <2>1. ~up'
    BY <1>3 DEF Down, KillDown
  <2>2. \A o \in Owners : call'[o].step = "idle" /\ ~Asking(o)'
    BY <1>3 DEF Down, KillDown, Idle, Asking
  <2>3. brake' => \/ brake
                  \/ \E o \in Owners : /\ call[o].step \in {"govern", "mute"}
                                       /\ call[o].value /\ call[o].lone
    BY <1>3, Zenon DEF Down, KillDown
  <2>4. brake' => setting'
    BY <1>3, <2>3 DEF Down, KillDown, StopOK
  <2> QED BY <2>1, <2>2, <2>4 DEF StopOK
<1>4. CASE Boot
  <2>1. UNCHANGED <<setting, call, brake>> /\ (setting => kill' /\ muted')
    BY <1>4, Zenon DEF Boot, KillUp
  <2>2. \A o : Asking(o)' <=> Asking(o)
    BY <2>1 DEF Asking
  <2> QED BY <2>1, <2>2 DEF StopOK
<1>5. \/ UNCHANGED killVars \/ KillSwitch \/ Down \/ Boot
  BY DEF Next, LoopStep, vars, Enqueue, Refill, Tick, Defer, Pace, Compose, Send,
         SkipUnaddressed, MarkSent, AddMessage, RetryOrDeadLetter, BackoffEnds,
         Disconnect, Reconnect, Midnight, Reset
<1> QED BY <1>1, <1>2, <1>3, <1>4, <1>5

LEMMA StopInvariant == Spec => [](TypeOK /\ StopOK)
<1>1. Init => TypeOK /\ StopOK
  BY InitTypeOK, InitStopOK
<1>2. TypeOK /\ StopOK /\ [Next]_vars => (TypeOK /\ StopOK)'
  BY StepTypeOK, StepStopOK
<1> QED BY <1>1, <1>2, PTL DEF Spec

\* Only Compose starts to compose, and only if the stop is off.
LEMMA ComposesOnlyIfAllowed ==
    ASSUME TypeOK, [Next]_vars, StartsToCompose
    PROVE  up /\ ~KillActive
<1>1. loop.at # "composing" /\ loop'.at = "composing"
  BY DEF StartsToCompose
<1>2. ~(loop' = loop) /\ ~Return /\ ~(Advance /\ loop.at # "idle")
  BY <1>1, ReturnMoves, AdvanceMoves
<1>3. ~Midnight /\ ~Tick /\ ~Pace
  <2>1. loop'.at = "head" => FALSE
    BY <1>1
  <2>2. ~Tick
    BY <2>1 DEF Tick
  <2>3. ~Pace
    BY <1>1 DEF Pace, TypeOK
  <2>4. ~Midnight
    BY <1>1 DEF Midnight, TypeOK
  <2> QED BY <2>2, <2>3, <2>4
<1>4. ASSUME NEW ok \in BOOLEAN PROVE ~MarkSent(ok)
  BY <1>1 DEF MarkSent, TypeOK
<1>5. ASSUME NEW taken \in BOOLEAN, NEW told \in BOOLEAN PROVE ~Send(taken, told)
  BY <1>1 DEF Send, TypeOK
<1>6. ~Defer /\ ~Down
  BY <1>2 DEF Defer, Down
<1>7. ~(\E ok \in BOOLEAN : SkipUnaddressed(ok) \/ AddMessage(ok) \/ RetryOrDeadLetter(ok))
  BY <1>2 DEF SkipUnaddressed, AddMessage, RetryOrDeadLetter, At
<1>8. Compose
  BY <1>2, <1>3, <1>4, <1>5, <1>6, <1>7 DEF Next, LoopStep, vars, Enqueue, Refill, BackoffEnds, KillSwitch,
         Disconnect, Reconnect, Reset, Boot
<1> QED BY <1>2, <1>8 DEF Compose, At

\* The emergency stop holds across restarts and races, for any number of
\* concurrent requests (set_kill_switch, killSwitchActive, restoreKillSwitch).
THEOREM OutboxStopHolds == Spec => StopHolds
<1>1. TypeOK /\ StopOK /\ [Next]_vars => (brake => ~StartsToCompose)
  <2> SUFFICES ASSUME TypeOK, StopOK, [Next]_vars, brake, StartsToCompose PROVE FALSE
    OBVIOUS
  <2> QED BY ComposesOnlyIfAllowed DEF StopOK, KillActive
<1>2. TypeOK /\ StopOK /\ [Next]_vars => [brake => ~StartsToCompose]_vars
  BY <1>1
<1> QED BY <1>2, StopInvariant, PTL DEF Spec, StopHolds

-----------------------------------------------------------------------------
(* What the violated properties need. *)

\* The process never goes down; the dashboard never resets the messages.
NoRestart == \A s \in Scenarios : s.left["down"] = 0
NoReset == \A s \in Scenarios : s.left["reset"] = 0

LEMMA NothingLeft ==
    ASSUME TypeOK, NEW m \in Mishaps, left[m] = 0, [Next]_vars
    PROVE  left'[m] = 0
<1>1. left \in [Mishaps -> Nat]
  BY DEF TypeOK
<1>2. left' = left \/ \E n \in Mishaps : Spend(n)
  <2>1. "queue" \in Mishaps /\ "down" \in Mishaps /\ "fault" \in Mishaps /\ "drop" \in Mishaps
        /\ "midnight" \in Mishaps /\ "reset" \in Mishaps /\ "trip" \in Mishaps /\ "order" \in Mishaps
    BY DEF Mishaps
  <2>2. CASE LoopStep
    BY <2>1, <2>2 DEF LoopStep, Tick, Defer, Pace, Compose, Send, SkipUnaddressed, MarkSent,
          AddMessage, RetryOrDeadLetter, Write
  <2>3. CASE KillSwitch
    BY <2>1, <2>3 DEF KillSwitch, KillStep, Write
  <2>4. CASE ~LoopStep /\ ~KillSwitch
    BY <2>1, <2>4 DEF Next, vars, Enqueue, Refill, BackoffEnds, Disconnect, Reconnect, Midnight,
          Reset, Down, Boot
  <2> QED BY <2>2, <2>3, <2>4
<1>3. ASSUME NEW n \in Mishaps, Spend(n) PROVE left'[m] = 0
  <2>1. n # m /\ left' = [left EXCEPT ![n] = @ - 1]
    BY <1>3 DEF Spend
  <2> QED BY <1>1, <2>1
<1> QED BY <1>2, <1>3

-----------------------------------------------------------------------------
(* The ban. *)

\* In a process that stays up, a trip that stands keeps the governor shut, and
\* no request under way is about to open it.
BanOK == left["down"] = 0 /\ up /\ (banned => kill /\ ~Opposed(TRUE))

LEMMA KillStepBanOK ==
    ASSUME TypeOK, BanOK, KillStep PROVE up' /\ (banned' => kill' /\ ~Opposed(TRUE)')
<1>0. call \in [Owners -> Call]
  BY DEF TypeOK, KillTypeOK
<1>1. ASSUME NEW o \in Owners, NEW v \in BOOLEAN, Ask(o, v)
      PROVE  up' /\ (banned' => kill' /\ ~Opposed(TRUE)')
  <2>1. up' /\ (kill' <=> kill) /\ (banned' => banned /\ v)
    BY <1>1, Zenon DEF Ask, BanOK
  <2>2. call'[o].value = v
    BY <1>1 DEF Ask
  <2>3. ASSUME NEW p \in Owners, p # o
        PROVE  call'[p].step = call[p].step /\ call'[p].value = call[p].value
    BY <1>0, <1>1, <2>3 DEF Ask, Call
  <2>4. ASSUME banned' PROVE ~Opposed(TRUE)'
    <3>1. banned /\ v = TRUE
      BY <2>1, <2>4
    <3>2. \A p \in Owners : Asking(p) => call[p].value = TRUE
      BY <3>1 DEF BanOK, Opposed
    <3> QED BY <2>2, <2>3, <3>1, <3>2 DEF Opposed, Asking
  <2> QED BY <2>1, <2>4 DEF BanOK
<1>2. ASSUME NEW o \in Owners, NEW ok \in BOOLEAN, Persist(o, ok)
      PROVE  up' /\ (banned' => kill' /\ ~Opposed(TRUE)')
  <2>1. up' /\ (kill' <=> kill) /\ (banned' <=> banned)
    BY <1>2, Zenon DEF Persist, BanOK
  <2>2. \A p \in Owners : call'[p].value = call[p].value /\ (Asking(p)' => Asking(p))
    BY <1>0, <1>2 DEF Persist, Call, Asking
  <2>3. Opposed(TRUE)' => Opposed(TRUE)
    BY <2>2 DEF Opposed
  <2> QED BY <2>1, <2>3 DEF BanOK
<1>3. ASSUME NEW o \in Owners, Govern(o)
      PROVE  up' /\ (banned' => kill' /\ ~Opposed(TRUE)')
  <2>1. up' /\ (banned' => banned) /\ (call[o].value => kill')
    BY <1>3, Zenon DEF Govern, BanOK
  <2>2. \A p \in Owners : call'[p].value = call[p].value /\ (Asking(p)' => Asking(p))
    BY <1>0, <1>3 DEF Govern, Call, Asking
  <2>3. Opposed(TRUE)' => Opposed(TRUE)
    BY <2>2 DEF Opposed
  <2>4. ~Opposed(TRUE) => call[o].value
    BY <1>3 DEF Govern, Opposed, Asking
  <2> QED BY <2>1, <2>3, <2>4 DEF BanOK
<1>4. ASSUME NEW o \in Owners, Mute(o)
      PROVE  up' /\ (banned' => kill' /\ ~Opposed(TRUE)')
  <2>1. up' /\ (kill' <=> kill) /\ (banned' <=> banned)
    BY <1>4, Zenon DEF Mute, BanOK
  <2>2. call'[o] = Idle /\ \A p \in Owners : p # o => call'[p] = call[p]
    BY <1>0, <1>4 DEF Mute
  <2>3. ~Asking(o)' /\ \A p \in Owners : p # o => call'[p] = call[p] /\ (Asking(p)' => Asking(p))
    BY <2>2 DEF Asking, Idle
  <2>4. Opposed(TRUE)' => Opposed(TRUE)
    <3> SUFFICES ASSUME NEW p \in Owners, Asking(p)', call'[p].value # TRUE PROVE Opposed(TRUE)
      BY DEF Opposed
    <3> QED BY <2>3 DEF Opposed
  <2> QED BY <2>1, <2>4 DEF BanOK
<1>5. CASE Trip
  <2>1. up' /\ (kill' <=> kill) /\ (banned' <=> banned) /\ call' = call
    BY <1>5, Zenon DEF Trip, BanOK
  <2> QED BY <2>1 DEF BanOK, Opposed, Asking
<1>6. CASE TripGovernor
  <2>1. up' /\ kill' /\ (banned' => banned \/ ~Opposed(TRUE)) /\ call' = call
    BY <1>6, Zenon DEF TripGovernor, BanOK
  <2> QED BY <2>1 DEF BanOK, Opposed, Asking
<1> QED BY <1>1, <1>2, <1>3, <1>4, <1>5, <1>6 DEF KillStep

LEMMA StepBanOK ==
    ASSUME TypeOK, BanOK, [Next]_vars PROVE BanOK'
<1>1. left'["down"] = 0
  BY NothingLeft DEF BanOK, Mishaps
<1>2. CASE UNCHANGED killVars
  BY <1>1, <1>2 DEF killVars, BanOK, Opposed, Asking
<1>3. CASE KillSwitch
  BY <1>1, <1>3, KillStepBanOK DEF KillSwitch, BanOK
<1>4. ~Down /\ ~Boot
  BY DEF BanOK, Down, Spend, Boot
<1>5. \/ UNCHANGED killVars \/ KillSwitch \/ Down \/ Boot
  BY DEF Next, LoopStep, vars, Enqueue, Refill, Tick, Defer, Pace, Compose, Send,
         SkipUnaddressed, MarkSent, AddMessage, RetryOrDeadLetter, BackoffEnds,
         Disconnect, Reconnect, Midnight, Reset
<1> QED BY <1>2, <1>3, <1>4, <1>5

\* After a ban sends stop until the owner intervenes, as long as the process
\* lives: what undoes it is the restart, which restores the setting the trip
\* never wrote (handleDisconnect, restoreKillSwitch).
THEOREM OutboxBanHolds == NoRestart => (Spec => BanHolds)
<1> SUFFICES ASSUME NoRestart PROVE Spec => BanHolds
  OBVIOUS
<1>1. Init => BanOK
  BY DEF Init, KillInit, OutboxInit, BanOK, NoRestart
<1>2. TypeOK /\ BanOK /\ [Next]_vars => [banned => ~StartsToCompose]_vars
  <2> SUFFICES ASSUME TypeOK, BanOK, [Next]_vars, banned, StartsToCompose PROVE FALSE
    OBVIOUS
  <2> QED BY ComposesOnlyIfAllowed DEF BanOK, KillActive
<1>3. TypeOK /\ BanOK /\ [Next]_vars => BanOK'
  BY StepBanOK
<1> QED BY <1>1, <1>2, <1>3, OutboxTypeOK, PTL DEF Spec, BanHolds

-----------------------------------------------------------------------------
(* The cap. *)

NothingErased == left["reset"] = 0 /\ erased = 0

\* A restart never makes the gateway forget what went out today, as long as
\* nobody resets the messages: the record the count starts from is theirs
\* (SeedDailyCount, CountOutboundSince, ResetMessagingData).
THEOREM OutboxCapSurvives == NoReset => (Spec => []CapSurvivesRestart)
<1> SUFFICES ASSUME NoReset PROVE Spec => []CapSurvivesRestart
  OBVIOUS
<1>1. Init => NothingErased
  BY DEF Init, OutboxInit, NothingErased, NoReset
<1>2. TypeOK /\ NothingErased /\ [Next]_vars => NothingErased'
  <2> SUFFICES ASSUME TypeOK, NothingErased, [Next]_vars PROVE NothingErased'
    OBVIOUS
  <2>1. left'["reset"] = 0
    BY NothingLeft DEF NothingErased, Mishaps
  <2>2. ~Reset
    BY DEF NothingErased, Reset, Spend
  <2>3. erased' = erased \/ erased' = 0
    BY <2>2 DEF Next, LoopStep, vars, historyVars, Enqueue, Refill, Tick, Defer, Pace, Compose,
       Send, SkipUnaddressed, MarkSent, AddMessage, RetryOrDeadLetter, BackoffEnds, KillSwitch,
       Disconnect, Reconnect, Midnight, Down, Boot
  <2> QED BY <2>1, <2>3 DEF NothingErased
<1>3. TypeOK /\ NothingErased /\ DailyCap => CapSurvivesRestart
  BY DEF TypeOK, NothingErased, DailyCap, CapSurvivesRestart
<1> QED BY <1>1, <1>2, <1>3, OutboxTypeOK, OutboxDailyCap, PTL DEF Spec

-----------------------------------------------------------------------------
(* The courier's promise. *)

Mail == [i \in Seqs |-> Letter(i)]
Counted == [i \in Seqs |-> Failures(i)]

LEMMA PromiseUnfolds ==
    /\ Promise!CourierInit <=> /\ Mail = [i \in Seqs |-> "none"]
                               /\ Counted = [i \in Seqs |-> 0]
    /\ \A l \in Seqs : Promise!Post(l) <=> /\ Mail[l] = "none"
                                           /\ Mail' = [Mail EXCEPT ![l] = "queued"]
                                           /\ Counted' = Counted
    /\ \A l \in Seqs : Promise!Deliver(l) <=> /\ Mail[l] = "queued"
                                              /\ Mail' = [Mail EXCEPT ![l] = "delivered"]
                                              /\ Counted' = Counted
    /\ Promise!Wipe <=> /\ Mail' = [l \in Seqs |-> IF Mail[l] = "none" THEN "none" ELSE "wiped"]
                        /\ Counted' = [l \in Seqs |-> 0]
BY DEF Promise!CourierInit, Promise!Post, Promise!Deliver, Promise!Wipe, Mail, Counted

LEMMA FailUnfolds ==
    ASSUME NEW l \in Seqs, Mail[l] = "queued",
           Counted' = [Counted EXCEPT ![l] = Counted[l] + 1],
           Mail' = [Mail EXCEPT ![l] = IF Counted[l] + 1 = MaxRetry THEN "failed" ELSE Mail[l]]
    PROVE  Promise!Fail(l)
BY DEF Promise!Fail, Mail, Counted

\* A letter of a row nothing happened to does not move.
LEMMA LettersStay ==
    ASSUME TypeOK, NEW i \in Seqs, rows'[i] = rows[i],
           i <= last' <=> i <= last, i > last' <=> i > last
    PROVE  Letter(i)' = Letter(i) /\ Failures(i)' = Failures(i)
<1>1. Letter(i)' = Letter(i)
  <2>1. rows[i] = NoRow \/ rows[i].status \in {"unsent", "sent", "dead"}
    BY DEF TypeOK, Row
  <2> QED BY <2>1 DEF Letter
<1>2. Failures(i)' = Failures(i)
  BY DEF Failures, Queued
<1> QED BY <1>1, <1>2

LEMMA NobodyMoves ==
    ASSUME TypeOK, UNCHANGED <<rows, last>>
    PROVE  UNCHANGED <<Mail, Counted>>
<1>1. \A i \in Seqs : Letter(i)' = Letter(i) /\ Failures(i)' = Failures(i)
  BY LettersStay
<1> QED BY <1>1 DEF Mail, Counted

LEMMA InitPromise == Init => Promise!CourierInit
<1> SUFFICES ASSUME Init PROVE Promise!CourierInit
  OBVIOUS
<1>1. last = 0 /\ \A i \in Seqs : rows[i] = NoRow /\ i > last
  BY OutboxAssumption DEF Init, OutboxInit, Seqs
<1>2. \A i \in Seqs : Letter(i) = "none" /\ Failures(i) = 0
  BY <1>1 DEF Letter, Failures, Queued
<1> QED BY <1>2, PromiseUnfolds DEF Mail, Counted

LEMMA EnqueuePosts ==
    ASSUME TypeOK, Enqueue
    PROVE  \E l \in Seqs : Promise!Post(l)
<1>0. last \in Nat /\ MaxSeq \in Nat /\ \A i \in Seqs : i \in Nat
  BY OutboxAssumption DEF TypeOK, Seqs
<1>1. PICK n \in Seqs : n = last + 1
  BY <1>0 DEF Enqueue, Seqs
<1>2. /\ rows'[n] = NewRow /\ last' = n
      /\ \A i \in Seqs : i # n => rows'[i] = rows[i]
  BY <1>1 DEF Enqueue, TypeOK
<1>3. /\ n \in Nat /\ n > last /\ ~(n <= last) /\ ~(n > n) /\ n <= n
      /\ \A i \in Seqs : i # n => (i <= n <=> i <= last) /\ (i > n <=> i > last)
  BY <1>0, <1>1
<1>4. \A i \in Seqs : i # n => Letter(i)' = Letter(i) /\ Failures(i)' = Failures(i)
  BY <1>2, <1>3, LettersStay
<1>5. Letter(n) = "none" /\ Failures(n) = 0
  BY <1>3 DEF Letter, Failures, Queued
<1>6. Letter(n)' = "queued" /\ Failures(n)' = 0
  <2>1. NewRow # NoRow
    BY RealRow
  <2> QED BY <1>2, <1>3, <2>1 DEF Letter, Failures, Queued, NewRow
<1>7. Mail[n] = "none" /\ Mail' = [Mail EXCEPT ![n] = "queued"] /\ Counted' = Counted
  BY <1>4, <1>5, <1>6 DEF Mail, Counted
<1> QED BY <1>7, PromiseUnfolds

\* What a letter is worth, row by row.
LEMMA LetterOfRow ==
    ASSUME TypeOK, NEW i \in Seqs, Queued(i)
    PROVE  /\ rows[i].status = "unsent" =>
                 Letter(i) = "queued" /\ Failures(i) = rows[i].retries
           /\ rows[i].status = "sent" =>
                 Letter(i) = "delivered" /\ Failures(i) = rows[i].retries
           /\ rows[i].status = "dead" => Letter(i) = "failed" /\ Failures(i) = MaxRetry
<1>1. ~(i > last) /\ rows[i] # NoRow
  BY OutboxAssumption DEF Queued, TypeOK, Seqs
<1> QED BY <1>1 DEF Letter, Failures, Queued

\* Marking an unsent row delivers the letter.
LEMMA MarkDelivers ==
    ASSUME TypeOK, TypeOK', NEW r \in Seqs, NEW ok \in BOOLEAN, Mark(r, ok), UNCHANGED last,
           Queued(r) => Unsent(r)
    PROVE  (\E l \in Seqs : Promise!Deliver(l)) \/ UNCHANGED <<Mail, Counted>>
<1>1. CASE ok /\ Queued(r)
  <2>1. rows[r] \in Row /\ rows' = [rows EXCEPT ![r] = [rows[r] EXCEPT !.status = "sent"]]
    BY <1>1 DEF Mark, Queued, TypeOK
  <2>2. /\ rows'[r].status = "sent" /\ rows'[r].retries = rows[r].retries /\ rows'[r] \in Row
        /\ \A i \in Seqs : i # r => rows'[i] = rows[i]
    BY <2>1 DEF Row, TypeOK
  <2>3. Queued(r)' /\ rows[r].status = "unsent"
    BY <1>1, <2>2, RealRow DEF Queued, Unsent
  <2>4. \A i \in Seqs : i # r => Letter(i)' = Letter(i) /\ Failures(i)' = Failures(i)
    BY <2>2, LettersStay
  <2>5. Letter(r) = "queued" /\ Failures(r) = rows[r].retries
    BY <1>1, <2>3, LetterOfRow
  <2>6. Letter(r)' = "delivered" /\ Failures(r)' = rows[r].retries
    <3>1. ~(r > last') /\ rows'[r] # NoRow
      BY <2>3, OutboxAssumption DEF Queued, TypeOK, Seqs
    <3> QED BY <2>2, <2>3, <3>1 DEF Letter, Failures
  <2>7. Mail[r] = "queued" /\ Mail' = [Mail EXCEPT ![r] = "delivered"] /\ Counted' = Counted
    BY <2>4, <2>5, <2>6 DEF Mail, Counted
  <2> QED BY <2>7, PromiseUnfolds
<1>2. CASE ~(ok /\ Queued(r))
  BY <1>2, NobodyMoves DEF Mark
<1> QED BY <1>1, <1>2

LEMMA RetryFails ==
    ASSUME TypeOK, TypeOK', LoopOK, NEW ok \in BOOLEAN, RetryOrDeadLetter(ok)
    PROVE  (\E l \in Seqs : Promise!Fail(l)) \/ UNCHANGED <<Mail, Counted>>
<1> PICK r \in Seqs : r = Item
  BY RowInHand DEF RetryOrDeadLetter, At
<1>1. loop.at = "refused" /\ r \in loop.rest /\ UNCHANGED last
  BY RowInHand DEF RetryOrDeadLetter, At
<1>2. CASE ok /\ Queued(r)
  <2>1. Unsent(r) /\ rows[r].retries < MaxRetry /\ rows[r] \in Row
    BY <1>1, <1>2 DEF LoopOK, TypeOK, Queued
  <2>2. /\ rows' = [rows EXCEPT ![r] = AfterFailure(rows[r])]
        /\ rows'[r] = AfterFailure(rows[r])
        /\ \A i \in Seqs : i # r => rows'[i] = rows[i]
    BY <1>2 DEF RetryOrDeadLetter, TypeOK
  <2>3. AfterFailure(rows[r]) \in Row
    BY <2>1, FailureType
  <2>4. /\ rows[r].status = "unsent" /\ rows[r].retries \in Nat /\ MaxRetry \in Nat
        /\ r \in Nat /\ last \in Nat /\ r <= last
    BY <2>1, OutboxAssumption DEF Row, Unsent, Queued, TypeOK, Seqs
  <2>5. /\ rows[r].retries + 1 = MaxRetry => AfterFailure(rows[r]).status = "dead"
        /\ rows[r].retries + 1 # MaxRetry =>
              /\ AfterFailure(rows[r]).status = "unsent"
              /\ AfterFailure(rows[r]).retries = rows[r].retries + 1
    BY <2>1, <2>4 DEF AfterFailure, Row
  <2>6. Letter(r) = "queued" /\ Failures(r) = rows[r].retries
    BY <1>2, <2>4, LetterOfRow
  <2>7. /\ Failures(r)' = rows[r].retries + 1
        /\ Letter(r)' = IF rows[r].retries + 1 = MaxRetry THEN "failed" ELSE "queued"
    <3>1. rows'[r] # NoRow /\ r <= last' /\ ~(r > last')
      BY <1>1, <2>2, <2>3, <2>4, RealRow
    <3>2. CASE rows[r].retries + 1 = MaxRetry
      BY <2>2, <2>5, <3>1, <3>2 DEF Letter, Failures, Queued
    <3>3. CASE rows[r].retries + 1 # MaxRetry
      BY <2>2, <2>5, <3>1, <3>3 DEF Letter, Failures, Queued
    <3> QED BY <3>2, <3>3
  <2>8. \A i \in Seqs : i # r => Letter(i)' = Letter(i) /\ Failures(i)' = Failures(i)
    BY <1>1, <2>2, LettersStay
  <2>9. Mail[r] = "queued" /\ Counted[r] = rows[r].retries
    BY <2>6 DEF Mail, Counted
  <2>10. Counted' = [Counted EXCEPT ![r] = Counted[r] + 1]
    BY <2>7, <2>8, <2>9 DEF Counted
  <2>11. Mail' = [Mail EXCEPT ![r] = IF Counted[r] + 1 = MaxRetry THEN "failed" ELSE Mail[r]]
    BY <2>7, <2>8, <2>9 DEF Mail
  <2> QED BY <2>9, <2>10, <2>11, FailUnfolds
<1>3. CASE ~(ok /\ Queued(r))
  BY <1>1, <1>3, NobodyMoves DEF RetryOrDeadLetter
<1> QED BY <1>2, <1>3

LEMMA ResetWipes ==
    ASSUME TypeOK, Reset
    PROVE  Promise!Wipe
<1>1. last' = last /\ \A i \in Seqs : rows'[i] = NoRow
  BY DEF Reset
<1>2. \A i \in Seqs : Failures(i)' = 0
  BY <1>1 DEF Failures, Queued
<1>3. \A i \in Seqs : Letter(i)' = IF i > last THEN "none" ELSE "wiped"
  BY <1>1 DEF Letter
<1>4. \A i \in Seqs : Letter(i) = "none" <=> i > last
  <2>1. ASSUME NEW i \in Seqs, ~(i > last), rows[i] # NoRow PROVE Letter(i) # "none"
    <3>1. Queued(i) /\ rows[i] \in Row
      BY <2>1, OutboxAssumption DEF Queued, TypeOK, Seqs
    <3> QED BY <3>1, LetterOfRow DEF Row
  <2> QED BY <2>1 DEF Letter
<1>5. /\ Mail' = [l \in Seqs |-> IF Mail[l] = "none" THEN "none" ELSE "wiped"]
      /\ Counted' = [l \in Seqs |-> 0]
  BY <1>2, <1>3, <1>4 DEF Mail, Counted
<1> QED BY <1>5, PromiseUnfolds

LEMMA BackoffMovesNobody ==
    ASSUME TypeOK, NEW r \in Seqs, BackoffEnds(r)
    PROVE  UNCHANGED <<Mail, Counted>>
<1>1. /\ UNCHANGED last /\ Unsent(r) /\ rows' = [rows EXCEPT ![r].waiting = FALSE]
  BY DEF BackoffEnds
<1>2. rows[r] \in Row
  BY <1>1 DEF Unsent, Queued, TypeOK
<1>3. /\ \A i \in Seqs : i # r => rows'[i] = rows[i]
      /\ rows'[r].status = rows[r].status /\ rows'[r].retries = rows[r].retries
      /\ rows'[r] # NoRow /\ rows[r] # NoRow
  BY <1>1, <1>2, RealRow DEF TypeOK, Row
<1>4. Letter(r)' = Letter(r) /\ Failures(r)' = Failures(r)
  <2>1. rows[r].status = "unsent"
    BY <1>1 DEF Unsent
  <2>2. Letter(r)' = Letter(r)
    BY <1>1, <1>3, <2>1 DEF Letter
  <2>3. Failures(r)' = Failures(r)
    BY <1>1, <1>3, <2>1 DEF Failures, Queued
  <2> QED BY <2>2, <2>3
<1>5. \A i \in Seqs : Letter(i)' = Letter(i) /\ Failures(i)' = Failures(i)
  BY <1>1, <1>3, <1>4, LettersStay
<1> QED BY <1>5 DEF Mail, Counted

LEMMA StepPromise ==
    ASSUME TypeOK, TypeOK', LoopOK, [Next]_vars
    PROVE  [Promise!CourierNext]_(Promise!courierVars)
<1> USE DEF queueVars
<1>1. UNCHANGED <<Mail, Counted>> => UNCHANGED Promise!courierVars
  BY DEF Promise!courierVars, Mail, Counted
<1>2. CASE UNCHANGED <<rows, last>>
  BY <1>1, <1>2, NobodyMoves
<1>3. CASE Enqueue
  BY <1>3, EnqueuePosts DEF Promise!CourierNext
<1>4. ASSUME NEW ok \in BOOLEAN, SkipUnaddressed(ok) \/ MarkSent(ok)
      PROVE  [Promise!CourierNext]_(Promise!courierVars)
  <2>1. PICK r \in Seqs : r = Item
    BY <1>4, RowInHand DEF SkipUnaddressed, MarkSent, At
  <2>2. /\ r \in loop.rest /\ loop.at \in {"head", "accepted"}
        /\ Mark(r, ok) /\ UNCHANGED last
    BY <1>4, <2>1, RowInHand DEF SkipUnaddressed, MarkSent, At
  <2>3. Queued(r) => Unsent(r)
    BY <2>2 DEF LoopOK
  <2> QED BY <1>1, <2>2, <2>3, MarkDelivers DEF Promise!CourierNext
<1>5. ASSUME NEW ok \in BOOLEAN, RetryOrDeadLetter(ok)
      PROVE  [Promise!CourierNext]_(Promise!courierVars)
  BY <1>1, <1>5, RetryFails DEF Promise!CourierNext
<1>6. ASSUME NEW i \in Seqs, BackoffEnds(i)
      PROVE  [Promise!CourierNext]_(Promise!courierVars)
  BY <1>1, <1>6, BackoffMovesNobody
<1>7. CASE Reset
  BY <1>7, ResetWipes DEF Promise!CourierNext
<1>8. CASE Refill \/ Tick \/ Defer \/ Pace \/ Compose \/ KillSwitch \/ Disconnect \/ Reconnect
           \/ Midnight \/ Down \/ Boot \/ UNCHANGED vars
  <2>1. UNCHANGED <<rows, last>>
    BY <1>8 DEF Refill, Tick, Defer, Pace, Compose, KillSwitch, Disconnect, Reconnect, Midnight,
                Down, Boot, vars
  <2> QED BY <1>2, <2>1
<1>9. ASSUME NEW taken \in BOOLEAN, NEW told \in BOOLEAN, Send(taken, told)
      PROVE  UNCHANGED <<rows, last>>
  BY <1>9 DEF Send
<1>10. ASSUME NEW ok \in BOOLEAN, AddMessage(ok)
       PROVE  UNCHANGED <<rows, last>>
  BY <1>10 DEF AddMessage
<1> QED
  BY <1>2, <1>3, <1>4, <1>5, <1>6, <1>7, <1>8, <1>9, <1>10 DEF Next, LoopStep

\* The outbox implements the courier's steps, whatever fails: a message is
\* tried at most OutboxMaxRetry times on the record, and neither sent nor dead
\* is ever taken back (outbox.go, store/outbox.go).  That it ends up one of
\* them is for TLC.
THEOREM OutboxImplementsCourier ==
    Spec => Promise!CourierInit /\ [][Promise!CourierNext]_(Promise!courierVars)
<1>1. TypeOK /\ QueueOK /\ [Next]_vars => [Promise!CourierNext]_(Promise!courierVars)
  BY StepTypeOK, StepPromise DEF QueueOK
<1> QED BY <1>1, InitPromise, QueueInvariant, PTL DEF Spec
=============================================================================
