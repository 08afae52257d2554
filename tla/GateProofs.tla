----------------------------- MODULE GateProofs -----------------------------
(* Invariants of the gate, proved for every number of terminals, nonces and  *)
(* tokens and every staleness window.                                        *)
EXTENDS MCGate, TLAPS

\* An unlock token exists only on a dispatch get_instructions has bound.
TokenMeansBound ==
    \A i \in Live(byNonce, byTerminal) : heap[i].token # NoToken => heap[i].bound

GateInv == TypeOK /\ IndexConsistent /\ TokenMeansBound /\ CheckpointPassed

-----------------------------------------------------------------------------
\* What the objects reachable after an eviction are.
LEMMA EvictShape ==
    ASSUME TypeOK, IndexConsistent, NEW S \in SUBSET Live(byNonce, byTerminal)
    PROVE  /\ EvictNonces(S) \in [Nonces -> Ids \cup {NoId}]
           /\ EvictTerminals(S) \in [Terminals -> Ids \cup {NoId}]
           /\ \A n \in Nonces : EvictNonces(S)[n] # NoId
                 => EvictNonces(S)[n] = byNonce[n] /\ byNonce[n] \notin S
           /\ \A t \in Terminals : EvictTerminals(S)[t] # NoId
                 => EvictTerminals(S)[t] = byTerminal[t] /\ byTerminal[t] \notin S
           /\ \A t \in Terminals : byTerminal[t] \notin S
                 => EvictTerminals(S)[t] = byTerminal[t]
  BY GateAssumption
     DEF TypeOK, IndexConsistent, EvictNonces, EvictTerminals, Live, NonceActive, Bound, Current

LEMMA LiveIds ==
    ASSUME TypeOK PROVE Live(byNonce, byTerminal) \subseteq Ids
  BY DEF TypeOK, Live

LEMMA StaleLive == ASSUME TypeOK PROVE Stale \in SUBSET Live(byNonce, byTerminal)
  BY GateAssumption DEF TypeOK, Stale, Live

LEMMA InitInv == GateInit => GateInv
  BY GateAssumption
     DEF GateInit, GateInv, TypeOK, IndexConsistent, TokenMeansBound, CheckpointPassed,
         Live, NonceActive, Bound, Current

\* Evicting reachable dispatches, as the sweeper and CancelDispatch do.
LEMMA EvictInv ==
    ASSUME GateInv, NEW S \in SUBSET Live(byNonce, byTerminal), Evict(S)
    PROVE  GateInv'
<1> USE DEF GateInv
<1> DEFINE L == Live(byNonce, byTerminal)
<1>1. /\ byNonce' \in [Nonces -> Ids \cup {NoId}]
      /\ byTerminal' \in [Terminals -> Ids \cup {NoId}]
      /\ \A n \in Nonces : byNonce'[n] # NoId
            => byNonce'[n] = byNonce[n] /\ byNonce[n] \notin S
      /\ \A t \in Terminals : byTerminal'[t] # NoId
            => byTerminal'[t] = byTerminal[t] /\ byTerminal[t] \notin S
      /\ \A t \in Terminals : byTerminal[t] \notin S => byTerminal'[t] = byTerminal[t]
  BY EvictShape DEF Evict
<1>2. L' \subseteq L
  BY <1>1 DEF Live
<1>3. \A i \in L' : heap'[i] = heap[i]
  BY <1>2, LiveIds DEF Evict, Collect
<1>4. TypeOK'
  <2>1. heap' \in [Ids -> Dispatch \cup {NoDispatch}]
    BY <1>2, <1>3, LiveIds DEF TypeOK, Evict, Collect
  <2>2. \A i \in L' : heap'[i] \in Dispatch
    BY <1>2, <1>3 DEF TypeOK
  <2> QED BY <1>1, <2>1, <2>2 DEF TypeOK, Evict
<1>5. IndexConsistent'
  <2>1. ASSUME NEW n \in Nonces, byNonce'[n] # NoId
        PROVE  /\ heap'[byNonce'[n]].nonce = n
               /\ byTerminal'[heap'[byNonce'[n]].terminal] = byNonce'[n]
               /\ heap'[byNonce'[n]].state # "done"
    <3>1. byNonce'[n] = byNonce[n] /\ byNonce[n] \notin S /\ byNonce[n] # NoId
      BY <1>1, <2>1
    <3>2. heap'[byNonce'[n]] = heap[byNonce[n]]
      BY <1>3, <3>1 DEF Live
    <3>3. byNonce[n] \in L
      BY <3>1 DEF Live
    <3>4. heap[byNonce[n]].terminal \in Terminals
      BY <3>3 DEF TypeOK, Dispatch
    <3>5. byTerminal'[heap[byNonce[n]].terminal] = byNonce[n]
      BY <1>1, <3>1, <3>4 DEF IndexConsistent, NonceActive
    <3> QED BY <3>1, <3>2, <3>5 DEF IndexConsistent, NonceActive
  <2>2. ASSUME NEW t \in Terminals, byTerminal'[t] # NoId
        PROVE  heap'[byTerminal'[t]].terminal = t
    BY <1>1, <1>3, <2>2 DEF IndexConsistent, Bound, Current, Live
  <2> QED BY <2>1, <2>2 DEF IndexConsistent, NonceActive, Bound, Current
<1>6. TokenMeansBound'
  BY <1>2, <1>3 DEF TokenMeansBound
<1>7. CheckpointPassed'
  <2> SUFFICES ASSUME NEW t \in Terminals, Bound(t)'
               PROVE  Current(t)' = Current(t) /\ Bound(t)
    BY DEF CheckpointPassed
  <2> QED BY <1>1, <1>3 DEF Bound, Current, Live
<1> QED BY <1>4, <1>5, <1>6, <1>7

\* A transition in place that keeps what the indices and the checkpoint rely on.
LEMMA StampInv ==
    ASSUME GateInv, NEW i \in Live(byNonce, byTerminal), NEW d \in Dispatch, Stamp(i, d),
           d.nonce = heap[i].nonce, d.terminal = heap[i].terminal,
           d.state # "done" \/ heap[i].state = "done",
           d.token # NoToken => d.bound,
           d.level # "boss" /\ d.state \in {"noting", "ready"} => d.token # NoToken
    PROVE  GateInv'
<1> USE DEF GateInv
<1> DEFINE e == [d EXCEPT !.idle = 0]
<1>1. i \in Ids
  BY LiveIds
<1>2. e \in Dispatch
  BY GateAssumption DEF Dispatch
<1>3. /\ e.nonce = d.nonce /\ e.terminal = d.terminal /\ e.state = d.state
      /\ e.token = d.token /\ e.bound = d.bound /\ e.level = d.level
  BY DEF Dispatch
<1>4. /\ heap' = [heap EXCEPT ![i] = e]
      /\ byNonce' = byNonce /\ byTerminal' = byTerminal /\ staleAfter' = staleAfter
  BY DEF Stamp
<1>5. /\ heap'[i] = e
      /\ \A j \in Ids : j # i => heap'[j] = heap[j]
  BY <1>1, <1>4 DEF TypeOK
<1> HIDE DEF e
<1>6. Live(byNonce, byTerminal)' = Live(byNonce, byTerminal)
  BY <1>4 DEF Live
<1>7. TypeOK'
  BY <1>1, <1>2, <1>4, <1>5, <1>6, LiveIds DEF TypeOK
<1>8. IndexConsistent'
  <2>1. ASSUME NEW n \in Nonces, byNonce[n] # NoId
        PROVE  /\ heap'[byNonce[n]].nonce = n
               /\ byTerminal[heap'[byNonce[n]].terminal] = byNonce[n]
               /\ heap'[byNonce[n]].state # "done"
    <3>1. byNonce[n] \in Ids
      BY <2>1 DEF TypeOK
    <3> QED BY <1>3, <1>5, <2>1, <3>1 DEF IndexConsistent, NonceActive
  <2>2. ASSUME NEW t \in Terminals, byTerminal[t] # NoId
        PROVE  heap'[byTerminal[t]].terminal = t
    <3>1. byTerminal[t] \in Ids
      BY <2>2 DEF TypeOK
    <3> QED BY <1>3, <1>5, <2>2, <3>1 DEF IndexConsistent, Bound, Current
  <2> QED BY <1>4, <2>1, <2>2 DEF IndexConsistent, NonceActive, Bound, Current
<1>9. TokenMeansBound'
  BY <1>3, <1>5, <1>6, LiveIds DEF TokenMeansBound
<1>10. CheckpointPassed'
  <2> SUFFICES ASSUME NEW t \in Terminals, byTerminal[t] # NoId,
                      heap'[byTerminal[t]].level # "boss",
                      heap'[byTerminal[t]].state \in {"noting", "ready"}
               PROVE  heap'[byTerminal[t]].bound /\ heap'[byTerminal[t]].token # NoToken
    BY <1>4 DEF CheckpointPassed, Bound, Current
  <2>1. byTerminal[t] \in Ids
    BY DEF TypeOK
  <2>2. CASE byTerminal[t] = i
    BY <1>3, <1>5, <2>2
  <2>3. CASE byTerminal[t] # i
    BY <1>5, <2>1, <2>3 DEF CheckpointPassed, Bound, Current
  <2> QED BY <2>2, <2>3
<1> QED BY <1>7, <1>8, <1>9, <1>10

LEMMA RegisterInv ==
    ASSUME GateInv,
           NEW n \in Nonces, NEW c \in Chats, NEW l \in Levels,
           NEW t \in Terminals, NEW b \in Bursts,
           RegisterDispatch(n, c, l, t, b)
    PROVE  GateInv'
<1> USE DEF GateInv
<1> DEFINE L  == Live(byNonce, byTerminal)
           BT == EvictTerminals(Stale)
           BN == WithoutPrevious(n, t)
           new == NewDispatch(n, c, l, t, b)
<1>1. PICK i \in Ids \ L :
          /\ byNonce' = [BN EXCEPT ![n] = i]
          /\ byTerminal' = [BT EXCEPT ![t] = i]
          /\ heap' = Collect([heap EXCEPT ![i] = new], byNonce', byTerminal')
          /\ UNCHANGED staleAfter
  BY DEF RegisterDispatch
<1>2. /\ EvictNonces(Stale) \in [Nonces -> Ids \cup {NoId}]
      /\ BT \in [Terminals -> Ids \cup {NoId}]
      /\ \A m \in Nonces : EvictNonces(Stale)[m] # NoId
            => EvictNonces(Stale)[m] = byNonce[m] /\ byNonce[m] \notin Stale
      /\ \A u \in Terminals : BT[u] # NoId
            => BT[u] = byTerminal[u] /\ byTerminal[u] \notin Stale
      /\ \A u \in Terminals : byTerminal[u] \notin Stale => BT[u] = byTerminal[u]
  BY EvictShape, StaleLive
<1>3. /\ BN \in [Nonces -> Ids \cup {NoId}]
      /\ \A m \in Nonces : BN[m] # NoId => BN[m] = byNonce[m] /\ byNonce[m] \notin Stale
      /\ \A m \in Nonces : m # n /\ BT[t] # NoId /\ heap[BT[t]].nonce = m => BN[m] = NoId
  BY <1>2 DEF WithoutPrevious
<1> HIDE DEF BN, BT
<1>4. /\ byNonce'[n] = i /\ byTerminal'[t] = i
      /\ \A m \in Nonces : m # n => byNonce'[m] = BN[m]
      /\ \A u \in Terminals : u # t => byTerminal'[u] = BT[u]
      /\ byNonce' \in [Nonces -> Ids \cup {NoId}]
      /\ byTerminal' \in [Terminals -> Ids \cup {NoId}]
  BY <1>1, <1>2, <1>3
<1>5. L' \subseteq L \cup {i}
  BY <1>2, <1>3, <1>4 DEF Live
<1>6. i # NoId /\ i \in L'
  BY <1>4, GateAssumption DEF Live
<1>7. /\ heap'[i] = new
      /\ \A j \in L' : j # i => heap'[j] = heap[j]
      /\ \A j \in Ids : j \notin L' => heap'[j] = NoDispatch
  BY <1>1, <1>5, <1>6, LiveIds DEF Collect, TypeOK
<1>8. /\ new \in Dispatch
      /\ new.nonce = n /\ new.terminal = t /\ new.token = NoToken
      /\ new.state # "done" /\ new.state # "noting"
      /\ new.level # "boss" => new.state = "locked"
  BY GateAssumption DEF NewDispatch, Dispatch, GateStates
<1> HIDE DEF new
<1>9. TypeOK'
  <2>1. \A j \in L' : heap'[j] \in Dispatch
    BY <1>5, <1>7, <1>8 DEF TypeOK
  <2>2. heap' \in [Ids -> Dispatch \cup {NoDispatch}]
    BY <1>1, <1>7, <2>1 DEF Collect
  <2> QED BY <1>1, <1>4, <2>1, <2>2 DEF TypeOK
<1>10. IndexConsistent'
  <2>1. ASSUME NEW m \in Nonces, byNonce'[m] # NoId
        PROVE  /\ heap'[byNonce'[m]].nonce = m
               /\ byTerminal'[heap'[byNonce'[m]].terminal] = byNonce'[m]
               /\ heap'[byNonce'[m]].state # "done"
    <3>1. CASE m = n
      BY <1>4, <1>7, <1>8, <3>1
    <3>2. CASE m # n
      <4> DEFINE j == byNonce[m]
                 u == heap[j].terminal
      <4>1. byNonce'[m] = j /\ BN[m] = j /\ j # NoId /\ j \notin Stale
        BY <1>3, <1>4, <2>1, <3>2
      <4>2. j \in L /\ j \in L' /\ j # i
        BY <1>1, <2>1, <4>1 DEF Live
      <4>3. /\ heap[j].nonce = m /\ byTerminal[u] = j /\ heap[j].state # "done"
            /\ u \in Terminals
        BY <4>1, <4>2 DEF IndexConsistent, NonceActive, TypeOK, Dispatch
      <4>4. BT[u] = j
        BY <1>2, <4>1, <4>3
      <4>5. u # t
        BY <1>3, <3>2, <4>1, <4>3, <4>4
      <4>6. heap'[j] = heap[j]
        BY <1>7, <4>2
      <4> QED BY <1>4, <4>1, <4>3, <4>4, <4>5, <4>6
    <3> QED BY <3>1, <3>2
  <2>2. ASSUME NEW u \in Terminals, byTerminal'[u] # NoId
        PROVE  heap'[byTerminal'[u]].terminal = u
    <3>1. CASE u = t
      BY <1>4, <1>7, <1>8, <3>1
    <3>2. CASE u # t
      <4>1. byTerminal'[u] = byTerminal[u] /\ byTerminal[u] # NoId
        BY <1>2, <1>4, <2>2, <3>2
      <4>2. byTerminal[u] \in L' /\ byTerminal[u] # i
        BY <1>1, <2>2, <4>1 DEF Live
      <4> QED BY <1>7, <4>1, <4>2 DEF IndexConsistent, Bound, Current
    <3> QED BY <3>1, <3>2
  <2> QED BY <2>1, <2>2 DEF IndexConsistent, NonceActive, Bound, Current
<1>11. TokenMeansBound'
  BY <1>5, <1>7, <1>8 DEF TokenMeansBound
<1>12. CheckpointPassed'
  <2> SUFFICES ASSUME NEW u \in Terminals, byTerminal'[u] # NoId,
                      heap'[byTerminal'[u]].level # "boss",
                      heap'[byTerminal'[u]].state \in {"noting", "ready"}
               PROVE  /\ heap'[byTerminal'[u]].bound
                      /\ heap'[byTerminal'[u]].token # NoToken
    BY DEF CheckpointPassed, Bound, Current
  <2>1. u # t
    BY <1>4, <1>7, <1>8
  <2>2. byTerminal'[u] = byTerminal[u] /\ byTerminal[u] # NoId
    BY <1>2, <1>4, <2>1
  <2>3. heap'[byTerminal'[u]] = heap[byTerminal[u]]
    BY <1>1, <1>7, <2>2 DEF Live
  <2> QED BY <2>2, <2>3 DEF CheckpointPassed, Bound, Current
<1> QED BY <1>9, <1>10, <1>11, <1>12

LEMMA ConsumeInv ==
    ASSUME GateInv, NEW t \in Terminals, Consume(t) PROVE GateInv'
<1> USE DEF GateInv
<1> DEFINE i == byTerminal[t]
           d == [heap[i] EXCEPT !.state = "done"]
<1>1. /\ i # NoId /\ i \in Live(byNonce, byTerminal) /\ i \in Ids
      /\ heap[i] \in Dispatch /\ heap[i].nonce \in Nonces
  BY DEF Consume, Bound, Live, TypeOK, Dispatch
<1>2. d \in Dispatch /\ d.state = "done" /\ d.terminal = heap[i].terminal
      /\ d.token = heap[i].token /\ d.bound = heap[i].bound
  BY <1>1 DEF Dispatch, GateStates
<1>3. /\ heap' = [heap EXCEPT ![i] = d]
      /\ byNonce' = [byNonce EXCEPT ![heap[i].nonce] = NoId]
      /\ byTerminal' = byTerminal /\ staleAfter' = staleAfter
  BY DEF Consume, Current
<1> HIDE DEF d
<1>4. heap'[i] = d /\ \A j \in Ids : j # i => heap'[j] = heap[j]
  BY <1>1, <1>3 DEF TypeOK
<1>5. Live(byNonce, byTerminal)' \subseteq Live(byNonce, byTerminal)
  BY <1>1, <1>3 DEF Live, TypeOK
<1>6. TypeOK'
  <2>1. byNonce' \in [Nonces -> Ids \cup {NoId}]
    BY <1>1, <1>3 DEF TypeOK
  <2>2. heap' \in [Ids -> Dispatch \cup {NoDispatch}]
    BY <1>1, <1>2, <1>3 DEF TypeOK
  <2>3. \A j \in Live(byNonce, byTerminal)' : heap'[j] \in Dispatch
    BY <1>2, <1>4, <1>5, LiveIds DEF TypeOK
  <2> QED BY <1>3, <2>1, <2>2, <2>3 DEF TypeOK
<1>7. IndexConsistent'
  <2>1. ASSUME NEW n \in Nonces, byNonce'[n] # NoId
        PROVE  /\ heap'[byNonce'[n]].nonce = n
               /\ byTerminal'[heap'[byNonce'[n]].terminal] = byNonce'[n]
               /\ heap'[byNonce'[n]].state # "done"
    <3>1. byNonce'[n] = byNonce[n] /\ n # heap[i].nonce /\ byNonce[n] \in Ids
      BY <1>1, <1>3, <2>1 DEF TypeOK
    <3>2. byNonce[n] # i
      BY <2>1, <3>1 DEF IndexConsistent, NonceActive
    <3> QED BY <1>3, <1>4, <2>1, <3>1, <3>2 DEF IndexConsistent, NonceActive
  <2>2. ASSUME NEW u \in Terminals, byTerminal[u] # NoId
        PROVE  heap'[byTerminal[u]].terminal = u
    <3>1. byTerminal[u] \in Ids
      BY <2>2 DEF TypeOK
    <3> QED BY <1>2, <1>4, <2>2, <3>1 DEF IndexConsistent, Bound, Current
  <2> QED BY <1>3, <2>1, <2>2 DEF IndexConsistent, NonceActive, Bound, Current
<1>8. TokenMeansBound'
  BY <1>1, <1>2, <1>4, <1>5, LiveIds DEF TokenMeansBound
<1>9. CheckpointPassed'
  <2> SUFFICES ASSUME NEW u \in Terminals, byTerminal[u] # NoId,
                      heap'[byTerminal[u]].level # "boss",
                      heap'[byTerminal[u]].state \in {"noting", "ready"}
               PROVE  /\ heap'[byTerminal[u]].bound
                      /\ heap'[byTerminal[u]].token # NoToken
    BY <1>3 DEF CheckpointPassed, Bound, Current
  <2>1. byTerminal[u] \in Ids /\ byTerminal[u] # i
    BY <1>2, <1>4 DEF TypeOK
  <2> QED BY <1>4, <2>1 DEF CheckpointPassed, Bound, Current
<1> QED BY <1>6, <1>7, <1>8, <1>9

LEMMA TickInv == ASSUME GateInv, Tick PROVE GateInv'
<1> USE DEF GateInv
<1> DEFINE L == Live(byNonce, byTerminal)
<1>1. L' = L /\ byNonce' = byNonce /\ byTerminal' = byTerminal
  BY DEF Tick, Live
<1>2. ASSUME NEW i \in L
      PROVE  /\ heap'[i] \in Dispatch
             /\ heap'[i].nonce = heap[i].nonce /\ heap'[i].terminal = heap[i].terminal
             /\ heap'[i].state = heap[i].state /\ heap'[i].token = heap[i].token
             /\ heap'[i].bound = heap[i].bound /\ heap'[i].level = heap[i].level
  <2>1. i \in Ids /\ heap[i] \in Dispatch
    BY LiveIds DEF TypeOK
  <2>2. CASE heap[i].state # "done" /\ heap[i].idle <= MaxStale
    <3>1. heap'[i] = [heap[i] EXCEPT !.idle = heap[i].idle + 1]
      BY <2>1, <2>2 DEF Tick
    <3>2. heap[i].idle + 1 \in 0 .. MaxStale + 1
      BY <2>1, <2>2, GateAssumption DEF Dispatch
    <3> QED BY <2>1, <3>1, <3>2 DEF Dispatch
  <2>3. CASE ~(heap[i].state # "done" /\ heap[i].idle <= MaxStale)
    BY <2>1, <2>3 DEF Tick
  <2> QED BY <2>2, <2>3
<1>3. TypeOK'
  <2>1. \A i \in Ids : i \notin L => heap'[i] = heap[i]
    BY DEF Tick
  <2>2. heap' \in [Ids -> Dispatch \cup {NoDispatch}]
    <3>1. \A i \in Ids : heap'[i] \in Dispatch \cup {NoDispatch}
      BY <1>2, <2>1 DEF TypeOK
    <3>2. heap' = [i \in Ids |-> heap'[i]]
      BY DEF Tick
    <3> QED BY <3>1, <3>2
  <2> QED BY <1>1, <1>2, <2>2 DEF TypeOK, Tick
<1>4. IndexConsistent'
  BY <1>1, <1>2 DEF IndexConsistent, NonceActive, Bound, Current, Live
<1>5. TokenMeansBound'
  BY <1>1, <1>2 DEF TokenMeansBound
<1>6. CheckpointPassed'
  BY <1>1, <1>2 DEF CheckpointPassed, Bound, Current, Live
<1> QED BY <1>3, <1>4, <1>5, <1>6

LEMMA AgentInv ==
    ASSUME GateInv, NEW t \in Terminals, Agent(t) PROVE GateInv'
<1> USE DEF GateInv
<1>1. ASSUME NEW n \in Nonces, GetInstructions(t, n) PROVE GateInv'
  <2> DEFINE i == byNonce[n]
  <2>1. PICK tok \in Tokens :
           Stamp(i, [heap[i] EXCEPT !.token = tok, !.bound = TRUE])
    BY <1>1 DEF GetInstructions
  <2>2. i \in Live(byNonce, byTerminal) /\ heap[i] \in Dispatch /\ heap[i].state # "done"
    BY <1>1 DEF GetInstructions, NonceActive, Live, TypeOK, IndexConsistent
  <2> DEFINE d == [heap[i] EXCEPT !.token = tok, !.bound = TRUE]
  <2>3. /\ d \in Dispatch /\ d.nonce = heap[i].nonce /\ d.terminal = heap[i].terminal
        /\ d.state # "done" /\ d.bound /\ d.token # NoToken
    BY <2>2, GateAssumption DEF Dispatch
  <2> HIDE DEF d, i
  <2> QED BY <2>1, <2>2, <2>3, StampInv DEF d
<1>2. ASSUME NEW tok \in Tokens \cup {NoToken}, Unlock(t, tok) PROVE GateInv'
  <2> DEFINE i == byTerminal[t]
             d == [heap[i] EXCEPT !.state = "noting"]
  <2>1. Stamp(i, d) /\ heap[i].token # NoToken /\ heap[i].state = "locked"
    BY <1>2 DEF Unlock, Current
  <2>2. i \in Live(byNonce, byTerminal) /\ heap[i] \in Dispatch
    BY <1>2 DEF Unlock, Bound, Live, TypeOK
  <2>3. heap[i].bound
    BY <2>1, <2>2 DEF TokenMeansBound
  <2>4. /\ d \in Dispatch /\ d.nonce = heap[i].nonce /\ d.terminal = heap[i].terminal
        /\ d.state = "noting" /\ d.bound = heap[i].bound /\ d.token = heap[i].token
    BY <2>2 DEF Dispatch, GateStates
  <2> HIDE DEF d, i
  <2> QED BY <2>1, <2>2, <2>3, <2>4, StampInv
<1>3. ASSUME AdvanceToReady(t) PROVE GateInv'
  <2> DEFINE i == byTerminal[t]
             d == [heap[i] EXCEPT !.state = "ready"]
  <2>1. Stamp(i, d) /\ heap[i].state = "noting"
    BY <1>3 DEF AdvanceToReady, Current
  <2>2. i \in Live(byNonce, byTerminal) /\ heap[i] \in Dispatch
    BY <1>3 DEF AdvanceToReady, Bound, Live, TypeOK
  <2>3. heap[i].level # "boss" => heap[i].token # NoToken
    BY <1>3, <2>1 DEF AdvanceToReady, CheckpointPassed, Current
  <2>4. heap[i].token # NoToken => heap[i].bound
    BY <2>2 DEF TokenMeansBound
  <2>5. /\ d \in Dispatch /\ d.nonce = heap[i].nonce /\ d.terminal = heap[i].terminal
        /\ d.state = "ready" /\ d.bound = heap[i].bound /\ d.token = heap[i].token
        /\ d.level = heap[i].level
    BY <2>2 DEF Dispatch, GateStates
  <2> HIDE DEF d, i
  <2> QED BY <2>1, <2>2, <2>3, <2>4, <2>5, StampInv
<1> QED BY <1>1, <1>2, <1>3, ConsumeInv DEF Agent

LEMMA BackgroundInv == ASSUME GateInv, Background PROVE GateInv'
<1>1. CASE Sweep
  BY <1>1, EvictInv, StaleLive DEF Sweep, GateInv
<1>2. CASE Tick
  BY <1>2, TickInv
<1>3. ASSUME NEW d \in 0 .. MaxStale, SetStaleAfter(d) PROVE GateInv'
  BY <1>3, GateAssumption
     DEF GateInv, SetStaleAfter, TypeOK, IndexConsistent, TokenMeansBound, CheckpointPassed,
         Live, NonceActive, Bound, Current
<1> QED BY <1>1, <1>2, <1>3 DEF Background

LEMMA CancelInv == ASSUME GateInv, Cancel PROVE GateInv'
<1>1. PICK n \in Nonces, t \in Terminals : CancelDispatch(n, t)
  BY DEF Cancel
<1>2. {byNonce[n]} \in SUBSET Live(byNonce, byTerminal) /\ Evict({byNonce[n]})
  BY <1>1 DEF CancelDispatch, NonceActive, Live
<1> QED BY <1>2, EvictInv

LEMMA StutterInv == ASSUME GateInv, UNCHANGED gateVars PROVE GateInv'
  BY DEF gateVars, GateInv, TypeOK, IndexConsistent, TokenMeansBound, CheckpointPassed,
         Live, NonceActive, Bound, Current
-----------------------------------------------------------------------------
LEMMA NextInv == GateInv /\ [Next]_gateVars => GateInv'
<1> SUFFICES ASSUME GateInv, [Next]_gateVars PROVE GateInv'
  OBVIOUS
<1>1. ASSUME NEW t \in Terminals, Register(t) PROVE GateInv'
  BY <1>1, RegisterInv DEF Register
<1>2. ASSUME NEW t \in Terminals, Agent(t) PROVE GateInv'
  BY <1>2, AgentInv
<1> QED BY <1>1, <1>2, CancelInv, BackgroundInv, StutterInv DEF Next

\* Under any caller the invariant of the gate holds: the types, the agreement of
\* the two indices, and the checkpoint.
THEOREM GateInvariant == Spec => []GateInv
  BY InitInv, NextInv, PTL DEF Spec

\* The state of the gate is well typed (gate.go Gate, dispatch).
THEOREM GateTypeCorrect == Spec => []TypeOK
  BY GateInvariant, PTL DEF GateInv

\* byNonce and byTerminal never disagree, whoever registers and whatever nonces
\* are drawn (gate.go RegisterDispatch, evictLocked, Consume).
THEOREM IndicesAgree == Spec => []IndexConsistent
  BY GateInvariant, PTL DEF GateInv

\* No dispatch below boss level is unlocked without its own get_instructions
\* (gate.go Unlock, GetInstructions).
THEOREM CheckpointHolds == Spec => []CheckpointPassed
  BY GateInvariant, PTL DEF GateInv
-----------------------------------------------------------------------------
\* One step, seen from one terminal.
LEMMA EvictTerminal ==
    ASSUME GateInv, NEW S \in SUBSET Live(byNonce, byTerminal), NEW t \in Terminals,
           \A i \in S : \E n \in Nonces : byNonce[n] = i
    PROVE  /\ EvictTerminals(S)[t] \in {NoId, byTerminal[t]}
           /\ Bound(t) /\ Current(t).state = "done" => EvictTerminals(S)[t] = byTerminal[t]
<1> USE DEF GateInv
<1>1. EvictTerminals(S)[t] \in {NoId, byTerminal[t]}
  BY EvictShape
<1>2. ASSUME Bound(t), Current(t).state = "done" PROVE byTerminal[t] \notin S
  BY <1>2 DEF IndexConsistent, NonceActive, Bound, Current
<1> QED BY <1>1, <1>2, EvictShape

LEMMA StaleIndexed ==
    ASSUME TypeOK PROVE \A i \in Stale : \E n \in Nonces : byNonce[n] = i
  BY DEF Stale

\* What a step may do to the dispatch a terminal is bound to.
TerminalMove(t) ==
    \/ byTerminal'[t] = NoId /\ ~(Bound(t) /\ Current(t).state = "done")
    \/ byTerminal'[t] = byTerminal[t] /\ (Ready(t)' /\ ~Ready(t) =>
          Current(t).state = "noting" /\ Current(t)'.level = Current(t).level)
    \/ byTerminal'[t] \notin {byTerminal[t], NoId}
          /\ (Ready(t)' => Current(t)'.level = "boss")

LEMMA TerminalStep ==
    ASSUME GateInv, [Next]_gateVars, NEW t \in Terminals
    PROVE  TerminalMove(t)
<1> USE DEF GateInv
<1>1. ASSUME NEW S \in SUBSET Live(byNonce, byTerminal), Evict(S),
             \A i \in S : \E n \in Nonces : byNonce[n] = i
      PROVE  TerminalMove(t)
  <2>1. /\ byTerminal'[t] \in {NoId, byTerminal[t]}
        /\ Bound(t) /\ Current(t).state = "done" => byTerminal'[t] = byTerminal[t]
    BY <1>1, EvictTerminal DEF Evict
  <2>2. ASSUME byTerminal'[t] = byTerminal[t], byTerminal[t] # NoId
        PROVE  Current(t)' = Current(t)
    <3>1. byTerminal[t] \in Ids /\ byTerminal[t] \in Live(byNonce, byTerminal)'
      BY <2>2 DEF TypeOK, Live
    <3> QED BY <1>1, <2>2, <3>1 DEF Evict, Collect, Current
  <2> QED BY <2>1, <2>2 DEF TerminalMove, Bound, Ready
<1>2. ASSUME NEW i \in Live(byNonce, byTerminal), NEW d \in Dispatch, Stamp(i, d),
             d.state = "ready" /\ heap[i].state # "ready" =>
                heap[i].state = "noting" /\ d.level = heap[i].level
      PROVE  TerminalMove(t)
  <2>1. i \in Ids /\ byTerminal' = byTerminal
    BY <1>2, LiveIds DEF Stamp
  <2> DEFINE e == [d EXCEPT !.idle = 0]
  <2>2. e.state = d.state /\ e.level = d.level
    BY DEF Dispatch
  <2>3. heap' = [heap EXCEPT ![i] = e]
    BY <1>2 DEF Stamp
  <2> HIDE DEF e
  <2>4. heap'[i] = e /\ \A j \in Ids : j # i => heap'[j] = heap[j]
    BY <2>1, <2>3 DEF TypeOK
  <2>5. byTerminal[t] # NoId => byTerminal[t] \in Ids
    BY DEF TypeOK
  <2>6. CASE byTerminal[t] = i
    BY <1>2, <2>1, <2>2, <2>4, <2>6 DEF TerminalMove, Bound, Ready, Current
  <2>7. CASE byTerminal[t] # i
    BY <2>1, <2>4, <2>5, <2>7 DEF TerminalMove, Bound, Ready, Current
  <2> QED BY <2>6, <2>7
<1>3. ASSUME NEW u \in Terminals, Register(u) PROVE TerminalMove(t)
  <2>1. PICK n \in Nonces, c \in Chats, l \in Levels, b \in Bursts :
           RegisterDispatch(n, c, l, u, b)
    BY <1>3 DEF Register
  <2>2. PICK i \in Ids \ Live(byNonce, byTerminal) :
          /\ byTerminal' = [EvictTerminals(Stale) EXCEPT ![u] = i]
          /\ heap' = Collect([heap EXCEPT ![i] = NewDispatch(n, c, l, u, b)],
                             byNonce', byTerminal')
    BY <2>1 DEF RegisterDispatch
  <2>3. EvictTerminals(Stale) \in [Terminals -> Ids \cup {NoId}]
    BY EvictShape, StaleLive
  <2>4. CASE u = t
    <3>1. byTerminal'[t] = i /\ i # NoId /\ i \in Live(byNonce, byTerminal)'
      BY <2>2, <2>3, <2>4, GateAssumption DEF Live
    <3>2. byTerminal[t] # i
      BY <2>2, <3>1 DEF Live
    <3>3. heap'[i] = NewDispatch(n, c, l, u, b)
      BY <2>2, <3>1 DEF Collect, TypeOK
    <3>4. NewDispatch(n, c, l, u, b).state = "ready" => NewDispatch(n, c, l, u, b).level = "boss"
      BY DEF NewDispatch
    <3> QED BY <3>1, <3>2, <3>3, <3>4 DEF TerminalMove, Ready, Current
  <2>5. CASE u # t
    <3>1. byTerminal'[t] = EvictTerminals(Stale)[t]
      BY <2>2, <2>3, <2>5
    <3>2. /\ byTerminal'[t] \in {NoId, byTerminal[t]}
          /\ Bound(t) /\ Current(t).state = "done" => byTerminal'[t] = byTerminal[t]
      BY <3>1, EvictTerminal, StaleLive, StaleIndexed
    <3>3. ASSUME byTerminal'[t] = byTerminal[t], byTerminal[t] # NoId
          PROVE  Current(t)' = Current(t)
      <4>1. byTerminal[t] \in Ids /\ byTerminal[t] \in Live(byNonce, byTerminal)'
            /\ byTerminal[t] # i
        BY <2>2, <3>3 DEF TypeOK, Live
      <4> QED BY <2>2, <3>3, <4>1 DEF Collect, Current, TypeOK
    <3> QED BY <3>2, <3>3 DEF TerminalMove, Bound, Ready
  <2> QED BY <2>4, <2>5
<1>4. ASSUME NEW u \in Terminals, Agent(u) PROVE TerminalMove(t)
  <2>1. ASSUME NEW n \in Nonces, GetInstructions(u, n) PROVE TerminalMove(t)
    <3>1. PICK tok \in Tokens :
             Stamp(byNonce[n], [heap[byNonce[n]] EXCEPT !.token = tok, !.bound = TRUE])
      BY <2>1 DEF GetInstructions
    <3>2. byNonce[n] \in Live(byNonce, byTerminal) /\ heap[byNonce[n]] \in Dispatch
      BY <2>1 DEF GetInstructions, NonceActive, Live, TypeOK
    <3> DEFINE d == [heap[byNonce[n]] EXCEPT !.token = tok, !.bound = TRUE]
    <3>3. d \in Dispatch /\ d.state = heap[byNonce[n]].state
      BY <3>2 DEF Dispatch
    <3> HIDE DEF d
    <3> QED BY <1>2, <3>1, <3>2, <3>3 DEF d
  <2>2. ASSUME NEW tok \in Tokens \cup {NoToken}, Unlock(u, tok) PROVE TerminalMove(t)
    <3> DEFINE d == [Current(u) EXCEPT !.state = "noting"]
    <3>1. Stamp(byTerminal[u], d)
      BY <2>2 DEF Unlock
    <3>2. byTerminal[u] \in Live(byNonce, byTerminal) /\ Current(u) \in Dispatch
      BY <2>2 DEF Unlock, Bound, Current, Live, TypeOK
    <3>3. d \in Dispatch /\ d.state = "noting"
      BY <3>2 DEF Dispatch, GateStates
    <3> HIDE DEF d
    <3> QED BY <1>2, <3>1, <3>2, <3>3
  <2>3. ASSUME AdvanceToReady(u) PROVE TerminalMove(t)
    <3> DEFINE d == [Current(u) EXCEPT !.state = "ready"]
    <3>1. Stamp(byTerminal[u], d) /\ heap[byTerminal[u]].state = "noting"
      BY <2>3 DEF AdvanceToReady, Current
    <3>2. byTerminal[u] \in Live(byNonce, byTerminal) /\ Current(u) \in Dispatch
      BY <2>3 DEF AdvanceToReady, Bound, Current, Live, TypeOK
    <3>3. d \in Dispatch /\ d.state = "ready" /\ d.level = heap[byTerminal[u]].level
      BY <3>2 DEF Dispatch, GateStates, Current
    <3> HIDE DEF d
    <3> QED BY <1>2, <3>1, <3>2, <3>3
  <2>4. ASSUME Consume(u) PROVE TerminalMove(t)
    <3> DEFINE d == [Current(u) EXCEPT !.state = "done"]
    <3>1. byTerminal[u] \in Ids /\ Current(u) \in Dispatch
      BY <2>4 DEF Consume, Bound, Current, Live, TypeOK
    <3>2. d.state = "done"
      BY <3>1 DEF Dispatch
    <3>3. heap' = [heap EXCEPT ![byTerminal[u]] = d] /\ byTerminal' = byTerminal
      BY <2>4 DEF Consume
    <3> HIDE DEF d
    <3>4. heap'[byTerminal[u]] = d /\ \A j \in Ids : j # byTerminal[u] => heap'[j] = heap[j]
      BY <3>1, <3>3 DEF TypeOK
    <3>5. byTerminal[t] # NoId => byTerminal[t] \in Ids
      BY DEF TypeOK
    <3>6. byTerminal'[t] = byTerminal[t]
      BY <3>3
    <3>7. CASE byTerminal[t] = NoId
      BY <3>6, <3>7 DEF TerminalMove, Bound
    <3>8. CASE byTerminal[t] = byTerminal[u]
      <4>1. ~Ready(t)'
        BY <3>2, <3>4, <3>6, <3>8 DEF Ready, Current
      <4> QED BY <3>6, <4>1 DEF TerminalMove
    <3>9. CASE byTerminal[t] # NoId /\ byTerminal[t] # byTerminal[u]
      <4>1. Current(t)' = Current(t)
        BY <3>4, <3>5, <3>6, <3>9 DEF Current
      <4> QED BY <3>6, <4>1 DEF TerminalMove, Ready, Bound
    <3> QED BY <3>7, <3>8, <3>9
  <2> QED BY <1>4, <2>1, <2>2, <2>3, <2>4 DEF Agent
<1>5. ASSUME Background PROVE TerminalMove(t)
  <2>1. CASE Sweep
    BY <1>1, <2>1, StaleLive, StaleIndexed DEF Sweep
  <2>2. CASE Tick
    <3>1. byTerminal' = byTerminal
      BY <2>2 DEF Tick
    <3>2. ASSUME byTerminal[t] # NoId PROVE heap'[byTerminal[t]].state = Current(t).state
      BY <2>2, <3>2 DEF Tick, Current, TypeOK, Dispatch, Live
    <3> QED BY <3>1, <3>2 DEF TerminalMove, Bound, Ready, Current
  <2>3. ASSUME NEW d \in 0 .. MaxStale, SetStaleAfter(d) PROVE TerminalMove(t)
    BY <2>3 DEF TerminalMove, SetStaleAfter, Bound, Ready, Current
  <2> QED BY <1>5, <2>1, <2>2, <2>3 DEF Background
<1>6. ASSUME Cancel PROVE TerminalMove(t)
  <2>1. PICK n \in Nonces, u \in Terminals : CancelDispatch(n, u)
    BY <1>6 DEF Cancel
  <2>2. {byNonce[n]} \in SUBSET Live(byNonce, byTerminal) /\ Evict({byNonce[n]})
    BY <2>1 DEF CancelDispatch, NonceActive, Live
  <2> QED BY <1>1, <2>2
<1>7. CASE UNCHANGED gateVars
  BY <1>7 DEF TerminalMove, gateVars, Bound, Ready, Current
<1>8. CASE Next
  <2>1. Cancel \/ Background \/ \E u \in Terminals : Register(u) \/ Agent(u)
    BY <1>8 DEF Next
  <2> QED BY <1>3, <1>4, <1>5, <1>6, <2>1
<1> QED BY <1>7, <1>8

\* A terminal becomes ready only through the ritual or a boss registration
\* (gate.go RegisterDispatch, Consume, advanceToReady).
THEOREM RitualRequired == Spec => ReadyOnlyThroughRitual
<1>1. GateInv /\ [Next]_gateVars =>
        [\A t \in Terminals : Ready(t)' /\ ~Ready(t) =>
          \/ /\ byTerminal'[t] = byTerminal[t]
             /\ Current(t).state = "noting"
             /\ Current(t)'.level = Current(t).level
          \/ byTerminal'[t] # byTerminal[t] /\ Current(t)'.level = "boss"]_gateVars
  BY TerminalStep DEF TerminalMove, Ready, Bound
<1> QED BY GateInvariant, <1>1, PTL DEF Spec, ReadyOnlyThroughRitual

\* A used dispatch stays bound to its terminal until another replaces it
\* (gate.go Consume).
THEOREM UsedDispatchStaysBound == Spec => DoneStaysBound
<1>1. GateInv /\ [Next]_gateVars =>
        [\A t \in Terminals :
            Bound(t) /\ Current(t).state = "done" => byTerminal'[t] # NoId]_gateVars
  BY TerminalStep DEF TerminalMove, Bound
<1> QED BY GateInvariant, <1>1, PTL DEF Spec, DoneStaysBound
-----------------------------------------------------------------------------
\* No two terminals are bound to dispatches of the same nonce.
NoncesDistinct ==
    \A t, u \in Terminals :
        t # u /\ Bound(t) /\ Bound(u) => Current(t).nonce # Current(u).nonce

FreshInv == GateInv /\ InFlightReclaimable /\ NoncesDistinct

LEMMA FreshIsNext ==
    ASSUME [FreshNext]_gateVars PROVE [Next]_gateVars
<1>1. ASSUME NEW t \in Terminals, FreshRegister(t) PROVE Register(t)
  BY <1>1 DEF FreshRegister, Register
<1> QED BY <1>1 DEF FreshNext, Next

\* Register, when the nonce drawn is held by no terminal, leaves every other
\* in-flight dispatch in byNonce.
LEMMA FreshRegisterReclaimable ==
    ASSUME FreshInv, NEW t \in Terminals, FreshRegister(t)
    PROVE  InFlightReclaimable'
<1> USE DEF FreshInv, GateInv
<1>1. PICK n \in Nonces, c \in Chats, l \in Levels, b \in Bursts :
         /\ ~NonceActive(n) /\ ~NonceHeld(n) /\ ~InFlight(t)
         /\ RegisterDispatch(n, c, l, t, b)
  BY DEF FreshRegister
<1>2. PICK i \in Ids \ Live(byNonce, byTerminal) :
         /\ byNonce' = [WithoutPrevious(n, t) EXCEPT ![n] = i]
         /\ byTerminal' = [EvictTerminals(Stale) EXCEPT ![t] = i]
         /\ heap' = Collect([heap EXCEPT ![i] = NewDispatch(n, c, l, t, b)],
                            byNonce', byTerminal')
  BY <1>1 DEF RegisterDispatch
<1>3. /\ EvictNonces(Stale) \in [Nonces -> Ids \cup {NoId}]
      /\ EvictTerminals(Stale) \in [Terminals -> Ids \cup {NoId}]
      /\ \A u \in Terminals : EvictTerminals(Stale)[u] # NoId
            => EvictTerminals(Stale)[u] = byTerminal[u] /\ byTerminal[u] \notin Stale
      /\ \A u \in Terminals : byTerminal[u] \notin Stale
            => EvictTerminals(Stale)[u] = byTerminal[u]
  BY EvictShape, StaleLive
<1>4. WithoutPrevious(n, t) \in [Nonces -> Ids \cup {NoId}]
  BY <1>3 DEF WithoutPrevious
<1>5. byNonce'[n] = i /\ byTerminal'[t] = i /\ i # NoId
  BY <1>2, <1>3, <1>4, GateAssumption
<1>6. SUFFICES ASSUME NEW u \in Terminals, InFlight(u)'
               PROVE  byNonce'[heap'[byTerminal'[u]].nonce] = byTerminal'[u]
  BY DEF InFlightReclaimable, Current
<1>7. CASE u = t
  <2>1. heap'[i] = NewDispatch(n, c, l, t, b)
    BY <1>2, <1>5 DEF Collect, Live, TypeOK
  <2> QED BY <1>5, <1>7, <2>1 DEF NewDispatch
<1>8. CASE u # t
  <2> DEFINE j == byTerminal[u]
             m == heap[j].nonce
  <2>1. byTerminal'[u] = j /\ j # NoId /\ j \notin Stale
    BY <1>2, <1>3, <1>6, <1>8 DEF InFlight, Bound
  <2>2. /\ j \in Ids /\ j \in Live(byNonce, byTerminal)
        /\ j \in Live(byNonce, byTerminal)' /\ j # i
    BY <1>2, <2>1 DEF TypeOK, Live
  <2>3. heap'[j] = heap[j] /\ heap[j] \in Dispatch /\ m \in Nonces
    BY <1>2, <2>2 DEF Collect, TypeOK, Dispatch
  <2>4. heap[j].state # "done"
    BY <1>6, <2>1, <2>3 DEF InFlight, Current
  <2>5. byNonce[m] = j
    BY <2>1, <2>4 DEF InFlightReclaimable, InFlight, Bound, Current
  <2>6. m # n
    BY <1>1, <2>1 DEF NonceHeld, Bound, Current
  <2>7. EvictNonces(Stale)[m] = j
    <3>1. ASSUME NEW k \in Stale, heap[k].nonce = m PROVE FALSE
      <4>1. PICK q \in Nonces : byNonce[q] = k
        BY DEF Stale
      <4>2. q = m
        BY <3>1, <4>1, GateAssumption DEF IndexConsistent, NonceActive, Stale
      <4> QED BY <2>1, <2>5, <4>1, <4>2
    <3> QED BY <2>3, <2>5, <3>1 DEF EvictNonces
  <2>8. WithoutPrevious(n, t)[m] = j
    <3> DEFINE prev == EvictTerminals(Stale)[t]
    <3>1. CASE prev # NoId /\ heap[prev].nonce = m
      \* Then t and u would both hold the nonce m.
      <4>1. prev = byTerminal[t]
        BY <1>3, <3>1
      <4> QED BY <1>8, <2>1, <3>1, <4>1 DEF NoncesDistinct, Bound, Current
    <3>2. CASE ~(prev # NoId /\ heap[prev].nonce = m)
      BY <1>3, <2>3, <2>7, <3>2 DEF WithoutPrevious
    <3> QED BY <3>1, <3>2
  <2>9. byNonce'[m] = j
    BY <1>2, <1>4, <2>3, <2>6, <2>8
  <2> QED BY <2>1, <2>3, <2>9
<1> QED BY <1>7, <1>8

LEMMA FreshRegisterDistinct ==
    ASSUME FreshInv, NEW t \in Terminals, FreshRegister(t)
    PROVE  NoncesDistinct'
<1> USE DEF FreshInv, GateInv
<1>1. PICK n \in Nonces, c \in Chats, l \in Levels, b \in Bursts :
         ~NonceHeld(n) /\ RegisterDispatch(n, c, l, t, b)
  BY DEF FreshRegister
<1>2. PICK i \in Ids \ Live(byNonce, byTerminal) :
         /\ byTerminal' = [EvictTerminals(Stale) EXCEPT ![t] = i]
         /\ heap' = Collect([heap EXCEPT ![i] = NewDispatch(n, c, l, t, b)],
                            byNonce', byTerminal')
  BY <1>1 DEF RegisterDispatch
<1>3. /\ EvictTerminals(Stale) \in [Terminals -> Ids \cup {NoId}]
      /\ \A u \in Terminals : EvictTerminals(Stale)[u] # NoId
            => EvictTerminals(Stale)[u] = byTerminal[u]
  BY EvictShape, StaleLive
<1>4. byTerminal'[t] = i /\ heap'[i].nonce = n
  BY <1>2, <1>3, GateAssumption DEF Collect, Live, TypeOK, NewDispatch
<1>5. ASSUME NEW u \in Terminals, u # t, byTerminal'[u] # NoId
      PROVE  Bound(u) /\ Current(u)' = Current(u) /\ Current(u).nonce # n
  <2>1. byTerminal'[u] = byTerminal[u] /\ byTerminal[u] # i /\ byTerminal[u] \in Ids
        /\ byTerminal[u] \in Live(byNonce, byTerminal)'
    BY <1>2, <1>3, <1>5 DEF Live, TypeOK
  <2>2. heap'[byTerminal[u]] = heap[byTerminal[u]]
    BY <1>2, <2>1 DEF Collect, TypeOK
  <2> QED BY <1>1, <1>5, <2>1, <2>2 DEF Bound, Current, NonceHeld
<1> QED BY <1>4, <1>5 DEF NoncesDistinct, Bound, Current

LEMMA EvictFresh ==
    ASSUME FreshInv, NEW S \in SUBSET Live(byNonce, byTerminal), Evict(S),
           \A i \in S : \E n \in Nonces : byNonce[n] = i
    PROVE  InFlightReclaimable' /\ NoncesDistinct'
<1> USE DEF FreshInv, GateInv
<1>1. ASSUME NEW u \in Terminals, byTerminal'[u] # NoId
      PROVE  /\ byTerminal'[u] = byTerminal[u] /\ byTerminal[u] \notin S
             /\ Current(u)' = Current(u) /\ Current(u) \in Dispatch
  <2>1. byTerminal'[u] = byTerminal[u] /\ byTerminal[u] \notin S
    BY <1>1, EvictShape DEF Evict
  <2>2. byTerminal[u] \in Ids /\ byTerminal[u] \in Live(byNonce, byTerminal)'
        /\ byTerminal[u] \in Live(byNonce, byTerminal)
    BY <1>1, <2>1 DEF TypeOK, Live
  <2> QED BY <2>1, <2>2 DEF Evict, Collect, Current, TypeOK
<1>2. NoncesDistinct'
  BY <1>1 DEF NoncesDistinct, Bound
<1>3. ASSUME NEW u \in Terminals, InFlight(u)'
      PROVE  byNonce'[Current(u)'.nonce] = byTerminal'[u]
  <2> DEFINE m == Current(u).nonce
  <2>1. /\ byTerminal'[u] = byTerminal[u] /\ byTerminal[u] \notin S /\ byTerminal[u] # NoId
        /\ Current(u)' = Current(u) /\ m \in Nonces
    BY <1>1, <1>3 DEF InFlight, Bound, Dispatch
  <2>2. byNonce[m] = byTerminal[u]
    BY <1>3, <2>1 DEF InFlightReclaimable, InFlight, Bound
  <2>3. ASSUME NEW k \in S, heap[k].nonce = m PROVE FALSE
    <3>1. PICK q \in Nonces : byNonce[q] = k
      BY <1>3, EvictShape DEF EvictNonces
    <3>2. k # NoId
      BY DEF Live
    <3> QED BY <2>1, <2>2, <2>3, <3>1, <3>2 DEF IndexConsistent, NonceActive
  <2>4. byNonce'[m] = byNonce[m]
    BY <2>1, <2>3 DEF Evict, EvictNonces
  <2> QED BY <2>1, <2>2, <2>4
<1> QED BY <1>2, <1>3 DEF InFlightReclaimable

LEMMA StampFresh ==
    ASSUME FreshInv, NEW i \in Live(byNonce, byTerminal), NEW d \in Dispatch, Stamp(i, d),
           d.nonce = heap[i].nonce, d.state = "done" \/ heap[i].state # "done"
    PROVE  InFlightReclaimable' /\ NoncesDistinct'
<1> USE DEF FreshInv, GateInv
<1> DEFINE e == [d EXCEPT !.idle = 0]
<1>1. e.nonce = d.nonce /\ e.state = d.state
  BY DEF Dispatch
<1>2. /\ heap' = [heap EXCEPT ![i] = e] /\ i \in Ids
      /\ byNonce' = byNonce /\ byTerminal' = byTerminal
  BY LiveIds DEF Stamp
<1> HIDE DEF e
<1>3. ASSUME NEW u \in Terminals, byTerminal[u] # NoId
      PROVE  /\ heap'[byTerminal[u]].nonce = heap[byTerminal[u]].nonce
             /\ heap[byTerminal[u]].state = "done" => heap'[byTerminal[u]].state = "done"
  <2>1. byTerminal[u] \in Ids
    BY <1>3 DEF TypeOK
  <2>2. CASE byTerminal[u] = i
    BY <1>1, <1>2, <2>2 DEF TypeOK
  <2>3. CASE byTerminal[u] # i
    BY <1>2, <2>1, <2>3 DEF TypeOK
  <2> QED BY <2>2, <2>3
<1>4. NoncesDistinct'
  BY <1>2, <1>3 DEF NoncesDistinct, Bound, Current
<1>5. InFlightReclaimable'
  BY <1>2, <1>3 DEF InFlightReclaimable, InFlight, Bound, Current
<1> QED BY <1>4, <1>5

LEMMA AgentFresh ==
    ASSUME FreshInv, NEW t \in Terminals, Agent(t)
    PROVE  InFlightReclaimable' /\ NoncesDistinct'
<1> USE DEF FreshInv, GateInv
<1>1. ASSUME NEW n \in Nonces, GetInstructions(t, n)
      PROVE  InFlightReclaimable' /\ NoncesDistinct'
  <2> DEFINE i == byNonce[n]
  <2>1. PICK tok \in Tokens :
           Stamp(i, [heap[i] EXCEPT !.token = tok, !.bound = TRUE])
    BY <1>1 DEF GetInstructions
  <2>2. i \in Live(byNonce, byTerminal) /\ heap[i] \in Dispatch /\ heap[i].state # "done"
    BY <1>1 DEF GetInstructions, NonceActive, Live, TypeOK, IndexConsistent
  <2> DEFINE d == [heap[i] EXCEPT !.token = tok, !.bound = TRUE]
  <2>3. d \in Dispatch /\ d.nonce = heap[i].nonce
    BY <2>2 DEF Dispatch
  <2> HIDE DEF d, i
  <2> QED BY <2>1, <2>2, <2>3, StampFresh DEF d
<1>2. ASSUME NEW tok \in Tokens \cup {NoToken}, Unlock(t, tok)
      PROVE  InFlightReclaimable' /\ NoncesDistinct'
  <2> DEFINE i == byTerminal[t]
             d == [heap[i] EXCEPT !.state = "noting"]
  <2>1. Stamp(i, d) /\ heap[i].state = "locked"
    BY <1>2 DEF Unlock, Current
  <2>2. i \in Live(byNonce, byTerminal) /\ heap[i] \in Dispatch
    BY <1>2 DEF Unlock, Bound, Live, TypeOK
  <2>3. d \in Dispatch /\ d.nonce = heap[i].nonce
    BY <2>2 DEF Dispatch, GateStates
  <2> HIDE DEF d, i
  <2> QED BY <2>1, <2>2, <2>3, StampFresh
<1>3. ASSUME AdvanceToReady(t) PROVE InFlightReclaimable' /\ NoncesDistinct'
  <2> DEFINE i == byTerminal[t]
             d == [heap[i] EXCEPT !.state = "ready"]
  <2>1. Stamp(i, d) /\ heap[i].state = "noting"
    BY <1>3 DEF AdvanceToReady, Current
  <2>2. i \in Live(byNonce, byTerminal) /\ heap[i] \in Dispatch
    BY <1>3 DEF AdvanceToReady, Bound, Live, TypeOK
  <2>3. d \in Dispatch /\ d.nonce = heap[i].nonce
    BY <2>2 DEF Dispatch, GateStates
  <2> HIDE DEF d, i
  <2> QED BY <2>1, <2>2, <2>3, StampFresh
<1>4. ASSUME Consume(t) PROVE InFlightReclaimable' /\ NoncesDistinct'
  <2> DEFINE i == byTerminal[t]
  <2>1. i # NoId /\ i \in Ids /\ heap[i] \in Dispatch
    BY <1>4 DEF Consume, Bound, Live, TypeOK
  <2>2. /\ byTerminal' = byTerminal
        /\ byNonce' = [byNonce EXCEPT ![heap[i].nonce] = NoId]
        /\ heap' = [heap EXCEPT ![i] = [heap[i] EXCEPT !.state = "done"]]
    BY <1>4 DEF Consume, Current
  <2>3. /\ heap'[i].nonce = heap[i].nonce /\ heap'[i].state = "done"
        /\ \A j \in Ids : j # i => heap'[j] = heap[j]
    BY <2>1, <2>2 DEF TypeOK, Dispatch
  <2>4. \A u \in Terminals : byTerminal[u] # NoId => byTerminal[u] \in Ids
    BY DEF TypeOK
  <2>5. NoncesDistinct'
    BY <2>1, <2>2, <2>3, <2>4 DEF NoncesDistinct, Bound, Current
  <2>6. ASSUME NEW u \in Terminals, InFlight(u)'
        PROVE  byNonce'[Current(u)'.nonce] = byTerminal'[u]
    <3>1. byTerminal[u] \in Ids /\ byTerminal[u] # NoId /\ byTerminal[u] # i
      BY <2>2, <2>3, <2>4, <2>6 DEF InFlight, Bound, Current
    <3>2. Current(u)' = Current(u) /\ InFlight(u) /\ Current(u).nonce \in Nonces
      BY <2>2, <2>3, <2>6, <3>1 DEF InFlight, Bound, Current, TypeOK, Dispatch, Live
    <3>3. Current(u).nonce # heap[i].nonce
      BY <2>1, <3>1 DEF NoncesDistinct, Bound, Current
    <3> QED BY <2>2, <3>2, <3>3 DEF InFlightReclaimable, TypeOK
  <2> QED BY <2>5, <2>6 DEF InFlightReclaimable
<1> QED BY <1>1, <1>2, <1>3, <1>4 DEF Agent

LEMMA BackgroundFresh ==
    ASSUME FreshInv, Background PROVE InFlightReclaimable' /\ NoncesDistinct'
<1>1. CASE Sweep
  BY <1>1, EvictFresh, StaleLive, StaleIndexed DEF Sweep, FreshInv, GateInv
<1>2. CASE Tick
  <2>1. byNonce' = byNonce /\ byTerminal' = byTerminal
    BY <1>2 DEF Tick
  <2>2. ASSUME NEW t \in Terminals, byTerminal[t] # NoId
        PROVE  /\ heap'[byTerminal[t]].nonce = heap[byTerminal[t]].nonce
               /\ heap'[byTerminal[t]].state = heap[byTerminal[t]].state
    BY <1>2, <2>2 DEF Tick, FreshInv, GateInv, TypeOK, Dispatch, Live
  <2> QED BY <2>1, <2>2
          DEF FreshInv, NoncesDistinct, InFlightReclaimable, InFlight, Bound, Current
<1>3. ASSUME NEW d \in 0 .. MaxStale, SetStaleAfter(d)
      PROVE  InFlightReclaimable' /\ NoncesDistinct'
  BY <1>3 DEF SetStaleAfter, FreshInv, NoncesDistinct, InFlightReclaimable,
              InFlight, Bound, Current
<1> QED BY <1>1, <1>2, <1>3 DEF Background

LEMMA CancelFresh ==
    ASSUME FreshInv, Cancel PROVE InFlightReclaimable' /\ NoncesDistinct'
<1>1. PICK n \in Nonces, t \in Terminals : CancelDispatch(n, t)
  BY DEF Cancel
<1>2. {byNonce[n]} \in SUBSET Live(byNonce, byTerminal) /\ Evict({byNonce[n]})
  BY <1>1 DEF CancelDispatch, NonceActive, Live
<1> QED BY <1>2, EvictFresh

LEMMA FreshInitInv == GateInit => FreshInv
BY InitInv DEF GateInit, FreshInv, InFlightReclaimable, NoncesDistinct, InFlight, Bound

LEMMA FreshStepInv == FreshInv /\ [FreshNext]_gateVars => FreshInv'
<1> SUFFICES ASSUME FreshInv, [FreshNext]_gateVars PROVE FreshInv'
  OBVIOUS
<1>1. GateInv'
  <2>1. [Next]_gateVars
    BY FreshIsNext
  <2>2. GateInv /\ [Next]_gateVars => GateInv'
    BY NextInv
  <2> QED BY <2>1, <2>2 DEF FreshInv
<1>2. ASSUME NEW t \in Terminals, FreshRegister(t)
      PROVE  InFlightReclaimable' /\ NoncesDistinct'
  BY <1>2, FreshRegisterReclaimable, FreshRegisterDistinct
<1>3. ASSUME NEW t \in Terminals, Agent(t)
      PROVE  InFlightReclaimable' /\ NoncesDistinct'
  BY <1>3, AgentFresh
<1>4. ASSUME UNCHANGED gateVars PROVE InFlightReclaimable' /\ NoncesDistinct'
  BY <1>4 DEF gateVars, FreshInv, NoncesDistinct, InFlightReclaimable,
              InFlight, Bound, Current
<1>5. CASE FreshNext
  <2>1. Cancel \/ Background \/ \E t \in Terminals : FreshRegister(t) \/ Agent(t)
    BY <1>5 DEF FreshNext
  <2> QED BY <1>1, <1>2, <1>3, <2>1, BackgroundFresh, CancelFresh DEF FreshInv
<1> QED BY <1>1, <1>4, <1>5 DEF FreshInv

\* As long as no nonce is drawn that a terminal still holds, every in-flight
\* dispatch is within reach of the staleness sweep (gate.go Sweep, sweepLocked,
\* capipush.go newNonce).
THEOREM FreshNoncesReclaimable == FreshSpec => []InFlightReclaimable
<1>1. FreshInv => InFlightReclaimable
  BY DEF FreshInv
<1> QED BY <1>1, FreshInitInv, FreshStepInv, PTL DEF FreshSpec

\* The same of the gate used either way: what the push has in flight can be
\* swept (gate.go sweepLocked).
THEOREM PushesReclaimable == GateUses => []PushReclaims
<1> DEFINE Inv == use = "push" => FreshInv
<1>1. GateUsesInit => Inv
  BY FreshInitInv DEF GateUsesInit
<1>2. Inv /\ [GateUsesNext]_<<use, gateVars>> => Inv'
  <2> SUFFICES ASSUME Inv, [GateUsesNext]_<<use, gateVars>>, (use = "push")' PROVE FreshInv'
    OBVIOUS
  <2>1. use = "push" /\ [FreshNext]_gateVars
    BY DEF GateUsesNext, ByAnyone, ByPush
  <2> QED BY <2>1, FreshStepInv
<1>3. Inv => PushReclaims
  BY DEF FreshInv, PushReclaims
<1> QED BY <1>1, <1>2, <1>3, PTL DEF GateUses
=============================================================================
