--------------------------- MODULE GateRefinement ---------------------------
(* The gate gives turns: Gate implements Turn, for every number of terminals, *)
(* nonces and tokens, and whoever calls it.                                   *)
EXTENDS GateProofs

LEMMA InitTurns == GateInit => Turns!TurnInit
  BY GateAssumption DEF GateInit, Turns!TurnInit, TurnsGiven, TurnOf, Bound

\* A turn is well formed, and its phase is that of the dispatch behind it.
LEMMA TurnShape ==
    ASSUME GateInv, NEW t \in Terminals, Bound(t)
    PROVE  /\ TurnOf(t) = [chat |-> Current(t).chat, level |-> Current(t).level,
                           burst |-> Current(t).burst,
                           phase |-> IF Current(t).state = "noting" THEN "locked"
                                     ELSE Current(t).state]
           /\ TurnOf(t) # NoTurn
           /\ TurnsGiven[t] = TurnOf(t)
           /\ byTerminal[t] \in Ids /\ Current(t) \in Dispatch
<1>1. byTerminal[t] \in Ids /\ Current(t) \in Dispatch
  BY DEF GateInv, TypeOK, Bound, Current, Live
<1>2. TurnOf(t) = [chat |-> Current(t).chat, level |-> Current(t).level,
                   burst |-> Current(t).burst,
                   phase |-> IF Current(t).state = "noting" THEN "locked"
                             ELSE Current(t).state]
  BY DEF TurnOf
<1>3. TurnOf(t) \in [chat : Chats, level : Levels, burst : Bursts,
                     phase : {"locked", "ready", "done"}]
  BY <1>1, <1>2 DEF Dispatch, GateStates
<1> QED BY <1>1, <1>2, <1>3, GateAssumption DEF TurnsGiven

\* Dispatches reachable by nonce are in flight, and so are the turns of the
\* terminals bound to them.
LEMMA IndexedBusy ==
    ASSUME GateInv, NEW S \in SUBSET Live(byNonce, byTerminal),
           \A i \in S : \E n \in Nonces : byNonce[n] = i
    PROVE  {t \in Terminals : byTerminal[t] \in S} \in SUBSET Turns!Busy
<1> SUFFICES ASSUME NEW t \in Terminals, byTerminal[t] \in S PROVE t \in Turns!Busy
  OBVIOUS
<1>1. Bound(t) /\ Current(t).state # "done"
  BY DEF GateInv, IndexConsistent, NonceActive, Bound, Current, Live
<1>2. TurnsGiven[t] # NoTurn /\ TurnsGiven[t].phase # "done"
  BY <1>1, TurnShape
<1> QED BY <1>2 DEF Turns!Busy, Turns!InFlight, Turns!Bound

\* The turn of a terminal depends on its entry and the dispatch behind it only.
LEMMA SameTurn ==
    ASSUME NEW t \in Terminals, byTerminal'[t] = byTerminal[t],
           Bound(t) => /\ Current(t)'.chat = Current(t).chat
                       /\ Current(t)'.level = Current(t).level
                       /\ Current(t)'.burst = Current(t).burst
                       /\ \/ Current(t)'.state = Current(t).state
                          \/ {Current(t).state, Current(t)'.state} = {"locked", "noting"}
    PROVE  TurnOf(t)' = TurnOf(t)
<1>1. Bound(t)' <=> Bound(t)
  BY DEF Bound
<1>2. CASE ~Bound(t)
  BY <1>1, <1>2 DEF TurnOf
<1>3. CASE Bound(t)
  <2>1. (IF Current(t)'.state = "noting" THEN "locked" ELSE Current(t)'.state)
        = (IF Current(t).state = "noting" THEN "locked" ELSE Current(t).state)
    BY <1>3
  <2> QED BY <1>1, <1>3, <2>1 DEF TurnOf
<1> QED BY <1>2, <1>3

\* Evicting dispatches that a nonce leads to releases their terminals' turns.
LEMMA EvictReleases ==
    ASSUME GateInv, NEW S \in SUBSET Live(byNonce, byTerminal), Evict(S),
           \A i \in S : \E n \in Nonces : byNonce[n] = i
    PROVE  Turns!TurnNext
<1> DEFINE R == {t \in Terminals : byTerminal[t] \in S}
<1>1. R \in SUBSET Turns!Busy
  BY IndexedBusy
<1>2. ASSUME NEW t \in Terminals
      PROVE  TurnOf(t)' = IF t \in R THEN NoTurn ELSE TurnOf(t)
  <2>1. /\ byTerminal'[t] # NoId => byTerminal'[t] = byTerminal[t] /\ byTerminal[t] \notin S
        /\ byTerminal[t] \notin S => byTerminal'[t] = byTerminal[t]
    BY EvictShape DEF GateInv, Evict
  <2>2. CASE t \in R
    BY <2>1, <2>2 DEF TurnOf, Bound
  <2>3. CASE t \notin R
    <3>1. byTerminal'[t] = byTerminal[t]
      BY <2>1, <2>3
    <3>2. ASSUME Bound(t) PROVE Current(t)' = Current(t)
      <4>1. byTerminal[t] \in Ids /\ byTerminal[t] \in Live(byNonce, byTerminal)'
        BY <3>1, <3>2 DEF GateInv, TypeOK, Bound, Live
      <4> QED BY <3>1, <4>1 DEF Evict, Collect, Current
    <3> QED BY <2>3, <3>1, <3>2, SameTurn
  <2> QED BY <2>2, <2>3
<1>3. Turns!Release(R)
  BY <1>2 DEF Turns!Release, TurnsGiven
<1> QED BY <1>1, <1>3 DEF Turns!TurnNext

\* A registration binds its terminal to a new turn, and sweeps stale ones.
LEMMA RegisterBinds ==
    ASSUME GateInv, NEW t \in Terminals, Register(t)
    PROVE  Turns!TurnNext
<1> DEFINE R == {u \in Terminals : byTerminal[u] \in Stale}
<1>1. PICK n \in Nonces, c \in Chats, l \in Levels, b \in Bursts :
         RegisterDispatch(n, c, l, t, b)
  BY DEF Register
<1>2. PICK i \in Ids \ Live(byNonce, byTerminal) :
         /\ byTerminal' = [EvictTerminals(Stale) EXCEPT ![t] = i]
         /\ heap' = Collect([heap EXCEPT ![i] = NewDispatch(n, c, l, t, b)],
                            byNonce', byTerminal')
  BY <1>1 DEF RegisterDispatch
<1>3. R \in SUBSET Turns!Busy
  BY IndexedBusy, StaleLive, StaleIndexed DEF GateInv
<1>4. EvictTerminals(Stale) \in [Terminals -> Ids \cup {NoId}]
  BY EvictShape, StaleLive DEF GateInv
<1>5. TurnOf(t)' = Turns!NewTurn(c, l, b)
  <2>1. byTerminal'[t] = i /\ i # NoId
    BY <1>2, <1>4, GateAssumption
  <2>2. heap'[i] = NewDispatch(n, c, l, t, b)
    BY <1>2, <2>1 DEF Collect, Live, GateInv, TypeOK
  <2> QED BY <2>1, <2>2 DEF TurnOf, Bound, Current, NewDispatch, Turns!NewTurn
<1>6. ASSUME NEW u \in Terminals, u # t
      PROVE  TurnOf(u)' = IF u \in R THEN NoTurn ELSE TurnOf(u)
  <2>1. /\ byTerminal'[u] # NoId => byTerminal'[u] = byTerminal[u] /\ byTerminal[u] \notin Stale
        /\ byTerminal[u] \notin Stale => byTerminal'[u] = byTerminal[u]
    BY <1>2, <1>4, <1>6, EvictShape, StaleLive DEF GateInv
  <2>2. CASE u \in R
    BY <2>1, <2>2 DEF TurnOf, Bound
  <2>3. CASE u \notin R
    <3>1. byTerminal'[u] = byTerminal[u]
      BY <2>1, <2>3
    <3>2. ASSUME Bound(u) PROVE Current(u)' = Current(u)
      <4>1. /\ byTerminal[u] \in Ids /\ byTerminal[u] \in Live(byNonce, byTerminal)'
            /\ byTerminal[u] # i
        BY <1>2, <3>1, <3>2 DEF GateInv, TypeOK, Bound, Live
      <4> QED BY <1>2, <3>1, <4>1 DEF Collect, Current, GateInv, TypeOK
    <3> QED BY <2>3, <3>1, <3>2, SameTurn
  <2> QED BY <2>2, <2>3
<1>7. Turns!Bind(t, c, l, b, R)
  BY <1>5, <1>6 DEF Turns!Bind, TurnsGiven
<1> QED BY <1>3, <1>7 DEF Turns!TurnNext, Levels, Turns!Levels

\* A transition of one turn's phase, the others' being what they were.
LEMMA PhaseStep ==
    ASSUME NEW t \in Terminals, NEW c, NEW l, NEW b, NEW f, NEW g,
           TurnsGiven[t] = [chat |-> c, level |-> l, burst |-> b, phase |-> f],
           TurnOf(t)' = [chat |-> c, level |-> l, burst |-> b, phase |-> g],
           \A u \in Terminals : u # t => TurnOf(u)' = TurnOf(u)
    PROVE  TurnsGiven' = [TurnsGiven EXCEPT ![t].phase = g]
<1> DEFINE r == [TurnsGiven[t] EXCEPT !.phase = g]
<1>1. r = [chat |-> c, level |-> l, burst |-> b, phase |-> g]
  OBVIOUS
<1> HIDE DEF r
<1>2. \A u \in Terminals : TurnOf(u)' = IF u = t THEN r ELSE TurnOf(u)
  BY <1>1
<1>3. TurnsGiven' = [TurnsGiven EXCEPT ![t] = r]
  BY <1>2 DEF TurnsGiven
<1> QED BY <1>3 DEF r

\* The pull and the unlock change no turn; the checkpoint opens one, and a tool
\* call uses one up.
LEMMA AgentTurns ==
    ASSUME GateInv, NEW t \in Terminals, Agent(t)
    PROVE  [Turns!TurnNext]_TurnsGiven
<1>1. ASSUME NEW i \in Live(byNonce, byTerminal), NEW d \in Dispatch, Stamp(i, d),
             d.chat = heap[i].chat, d.level = heap[i].level, d.burst = heap[i].burst
      PROVE  /\ byTerminal' = byTerminal /\ i \in Ids
             /\ heap'[i].chat = heap[i].chat /\ heap'[i].level = heap[i].level
             /\ heap'[i].burst = heap[i].burst /\ heap'[i].state = d.state
             /\ \A j \in Ids : j # i => heap'[j] = heap[j]
  <2> DEFINE e == [d EXCEPT !.idle = 0]
  <2>1. /\ e.chat = d.chat /\ e.level = d.level /\ e.burst = d.burst /\ e.state = d.state
    BY DEF Dispatch
  <2>2. heap' = [heap EXCEPT ![i] = e] /\ byTerminal' = byTerminal /\ i \in Ids
    BY <1>1, LiveIds DEF Stamp, GateInv
  <2> HIDE DEF e
  <2> QED BY <1>1, <2>1, <2>2 DEF GateInv, TypeOK
<1>2. ASSUME NEW n \in Nonces, GetInstructions(t, n) PROVE UNCHANGED TurnsGiven
  <2> DEFINE i == byNonce[n]
  <2>1. PICK tok \in Tokens :
           Stamp(i, [heap[i] EXCEPT !.token = tok, !.bound = TRUE])
    BY <1>2 DEF GetInstructions
  <2>2. i \in Live(byNonce, byTerminal) /\ heap[i] \in Dispatch
    BY <1>2 DEF GetInstructions, NonceActive, Live, GateInv, TypeOK
  <2> DEFINE d == [heap[i] EXCEPT !.token = tok, !.bound = TRUE]
  <2>3. /\ d \in Dispatch /\ d.state = heap[i].state /\ d.chat = heap[i].chat
        /\ d.level = heap[i].level /\ d.burst = heap[i].burst
    BY <2>2 DEF Dispatch
  <2> HIDE DEF i
  <2>4. Stamp(i, d)
    BY <2>1
  <2> HIDE DEF d
  <2>5. /\ byTerminal' = byTerminal
        /\ \A j \in Ids : /\ heap'[j].chat = heap[j].chat /\ heap'[j].level = heap[j].level
                          /\ heap'[j].burst = heap[j].burst /\ heap'[j].state = heap[j].state
    BY <1>1, <2>2, <2>3, <2>4
  <2>6. \A u \in Terminals : TurnOf(u)' = TurnOf(u)
    BY <2>5, SameTurn, TurnShape DEF Current
  <2> QED BY <2>6 DEF TurnsGiven
<1>3. ASSUME NEW tok \in Tokens \cup {NoToken}, Unlock(t, tok) PROVE UNCHANGED TurnsGiven
  <2> DEFINE i == byTerminal[t]
             d == [heap[i] EXCEPT !.state = "noting"]
  <2>1. Stamp(i, d) /\ heap[i].state = "locked"
    BY <1>3 DEF Unlock, Current
  <2>2. i \in Live(byNonce, byTerminal) /\ heap[i] \in Dispatch
    BY <1>3 DEF Unlock, Bound, Live, GateInv, TypeOK
  <2>3. /\ d \in Dispatch /\ d.state = "noting" /\ d.chat = heap[i].chat
        /\ d.level = heap[i].level /\ d.burst = heap[i].burst
    BY <2>2 DEF Dispatch, GateStates
  <2> HIDE DEF d, i
  <2>5. /\ byTerminal' = byTerminal
        /\ \A j \in Ids : /\ heap'[j].chat = heap[j].chat /\ heap'[j].level = heap[j].level
                          /\ heap'[j].burst = heap[j].burst
                          /\ \/ heap'[j].state = heap[j].state
                             \/ heap'[j].state = "noting" /\ heap[j].state = "locked"
    BY <1>1, <2>1, <2>2, <2>3
  <2>6. ASSUME NEW u \in Terminals PROVE TurnOf(u)' = TurnOf(u)
    <3>1. byTerminal'[u] = byTerminal[u]
      BY <2>5
    <3>2. ASSUME Bound(u)
          PROVE  /\ Current(u)'.chat = Current(u).chat
                 /\ Current(u)'.level = Current(u).level
                 /\ Current(u)'.burst = Current(u).burst
                 /\ \/ Current(u)'.state = Current(u).state
                    \/ {Current(u).state, Current(u)'.state} = {"locked", "noting"}
      BY <2>5, <3>1, <3>2, TurnShape DEF Current
    <3> QED BY <3>1, <3>2, SameTurn
  <2> QED BY <2>6 DEF TurnsGiven
<1>4. ASSUME AdvanceToReady(t) PROVE Turns!Open(t)
  <2> DEFINE i == byTerminal[t]
             d == [heap[i] EXCEPT !.state = "ready"]
  <2>1. Bound(t) /\ Stamp(i, d) /\ heap[i].state = "noting"
    BY <1>4 DEF AdvanceToReady, Current
  <2>2. i \in Live(byNonce, byTerminal) /\ heap[i] \in Dispatch /\ i \in Ids /\ i # NoId
    BY <2>1 DEF Bound, Live, GateInv, TypeOK
  <2>3. /\ d \in Dispatch /\ d.state = "ready" /\ d.chat = heap[i].chat
        /\ d.level = heap[i].level /\ d.burst = heap[i].burst
    BY <2>2 DEF Dispatch, GateStates
  <2> HIDE DEF d
  <2>4. /\ byTerminal' = byTerminal
        /\ heap'[i].chat = heap[i].chat /\ heap'[i].level = heap[i].level
        /\ heap'[i].burst = heap[i].burst /\ heap'[i].state = "ready"
        /\ \A j \in Ids : j # i => heap'[j] = heap[j]
    BY <1>1, <2>1, <2>2, <2>3
  <2>5. /\ TurnsGiven[t] = [chat |-> heap[i].chat, level |-> heap[i].level,
                            burst |-> heap[i].burst, phase |-> "locked"]
        /\ TurnsGiven[t] # NoTurn
    BY <2>1, TurnShape DEF Current
  <2>6. TurnOf(t)' = [chat |-> heap[i].chat, level |-> heap[i].level,
                      burst |-> heap[i].burst, phase |-> "ready"]
    BY <2>2, <2>4 DEF TurnOf, Bound, Current
  <2>7. \A u \in Terminals : u # t => TurnOf(u)' = TurnOf(u)
    BY <2>1, <2>4, SameTurn, TurnShape DEF Bound, Current, GateInv, IndexConsistent
  <2>8. TurnsGiven' = [TurnsGiven EXCEPT ![t].phase = "ready"]
    BY <2>5, <2>6, <2>7, PhaseStep
  <2> QED BY <2>5, <2>8 DEF Turns!Open, Turns!Bound
<1>5. ASSUME Consume(t) PROVE Turns!Use(t)
  <2> DEFINE i == byTerminal[t]
             d == [heap[i] EXCEPT !.state = "done"]
  <2>1. Bound(t) /\ heap' = [heap EXCEPT ![i] = d] /\ byTerminal' = byTerminal
    BY <1>5 DEF Consume, Current
  <2>2. heap[i] \in Dispatch /\ i \in Ids /\ i # NoId
    BY <2>1, TurnShape DEF Bound, Current
  <2>3. /\ d.state = "done" /\ d.chat = heap[i].chat
        /\ d.level = heap[i].level /\ d.burst = heap[i].burst
    BY <2>2 DEF Dispatch
  <2> HIDE DEF d
  <2>4. heap'[i] = d /\ \A j \in Ids : j # i => heap'[j] = heap[j]
    BY <2>1, <2>2 DEF GateInv, TypeOK
  <2>5. /\ TurnsGiven[t] # NoTurn
        /\ \E f \in {"locked", "ready", "done"} :
              TurnsGiven[t] = [chat |-> heap[i].chat, level |-> heap[i].level,
                               burst |-> heap[i].burst, phase |-> f]
    BY <2>1, <2>2, TurnShape DEF Current, Dispatch, GateStates
  <2>6. TurnOf(t)' = [chat |-> heap[i].chat, level |-> heap[i].level,
                      burst |-> heap[i].burst, phase |-> "done"]
    BY <2>1, <2>2, <2>3, <2>4 DEF TurnOf, Bound, Current
  <2>7. \A u \in Terminals : u # t => TurnOf(u)' = TurnOf(u)
    BY <2>1, <2>4, SameTurn, TurnShape DEF Bound, Current, GateInv, IndexConsistent
  <2>8. TurnsGiven' = [TurnsGiven EXCEPT ![t].phase = "done"]
    BY <2>5, <2>6, <2>7, PhaseStep
  <2> QED BY <2>5, <2>8 DEF Turns!Use, Turns!Bound
<1>6. \/ \E n \in Nonces : GetInstructions(t, n)
      \/ \E tok \in Tokens \cup {NoToken} : Unlock(t, tok)
      \/ AdvanceToReady(t) \/ Consume(t)
  BY DEF Agent
<1> QED BY <1>2, <1>3, <1>4, <1>5, <1>6 DEF Turns!TurnNext

LEMMA BackgroundTurns ==
    ASSUME GateInv, Background PROVE [Turns!TurnNext]_TurnsGiven
<1>1. CASE Sweep
  BY <1>1, EvictReleases, StaleLive, StaleIndexed DEF Sweep, GateInv
<1>2. CASE Tick
  <2>1. byTerminal' = byTerminal
    BY <1>2 DEF Tick
  <2>2. ASSUME NEW u \in Terminals PROVE TurnOf(u)' = TurnOf(u)
    <3>1. ASSUME Bound(u)
          PROVE  /\ Current(u)'.chat = Current(u).chat
                 /\ Current(u)'.level = Current(u).level
                 /\ Current(u)'.burst = Current(u).burst
                 /\ Current(u)'.state = Current(u).state
      BY <1>2, <2>1, <3>1, TurnShape DEF Tick, Current, Dispatch
    <3> QED BY <2>1, <3>1, SameTurn
  <2> QED BY <2>2 DEF TurnsGiven
<1>3. ASSUME NEW d \in 0 .. MaxStale, SetStaleAfter(d) PROVE UNCHANGED TurnsGiven
  BY <1>3 DEF SetStaleAfter, TurnsGiven, TurnOf, Bound, Current
<1> QED BY <1>1, <1>2, <1>3 DEF Background

\* Whoever calls the gate and in whatever order, terminals get turns and lose
\* them only as Turn says (gate.go RegisterDispatch, CancelDispatch, Sweep,
\* GetInstructions, Unlock, advanceToReady, Consume).
THEOREM GateImplementsTurn == Spec => GivesTurns
<1>1. GateInv /\ [Next]_gateVars => [Turns!TurnNext]_TurnsGiven
  <2> SUFFICES ASSUME GateInv, [Next]_gateVars PROVE [Turns!TurnNext]_TurnsGiven
    OBVIOUS
  <2>1. ASSUME NEW t \in Terminals, Register(t) PROVE Turns!TurnNext
    BY <2>1, RegisterBinds
  <2>2. ASSUME Cancel PROVE Turns!TurnNext
    <3>1. PICK n \in Nonces, t \in Terminals : CancelDispatch(n, t)
      BY <2>2 DEF Cancel
    <3>2. {byNonce[n]} \in SUBSET Live(byNonce, byTerminal) /\ Evict({byNonce[n]})
      BY <3>1 DEF CancelDispatch, NonceActive, Live
    <3> QED BY <3>2, EvictReleases
  <2>3. ASSUME UNCHANGED gateVars PROVE UNCHANGED TurnsGiven
    BY <2>3 DEF gateVars, TurnsGiven, TurnOf, Bound, Current
  <2>4. CASE Next
    <3>1. Cancel \/ Background \/ \E t \in Terminals : Register(t) \/ Agent(t)
      BY <2>4 DEF Next
    <3> QED BY <2>1, <2>2, <3>1, AgentTurns, BackgroundTurns
  <2> QED BY <2>3, <2>4
<1> QED BY InitTurns, GateInvariant, <1>1, PTL DEF Spec, GivesTurns, Turns!TurnSpec
=============================================================================
