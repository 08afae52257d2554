-------------------------------- MODULE Gate --------------------------------
(***************************************************************************)
(* The per-dispatch lock of internal/mcpserver/gate.go.                    *)
(*                                                                         *)
(* Every dispatch pushed to an agent's terminal walks                      *)
(*     locked -> noting -> ready -> done                                   *)
(* (a boss dispatch is born ready).  The Go code keeps *dispatch objects   *)
(* reachable through two maps, byNonce and byTerminal, which share them;   *)
(* the sharing is what can go wrong, so the objects live here in a heap    *)
(* indexed by Ids, and the maps hold ids.  An id no map refers to is       *)
(* garbage and may be allocated again, as the Go heap does.                *)
(*                                                                         *)
(* Each method runs under Gate.mu from its first to its last access, so    *)
(* each is one action.  Time is kept as the idle time of every dispatch    *)
(* (now - lastActivity), which Tick advances and which saturates one past  *)
(* the largest window: sweepLocked only compares it with staleAfter.       *)
(***************************************************************************)
EXTENDS Naturals

CONSTANTS
    Terminals,   \* terminal ids (agents); the empty id is refused by the code
    Chats,       \* chat JIDs
    Nonces,      \* the 4-hex correlation ids
    Tokens,      \* unlock tokens (16 random bytes)
    Bursts,      \* timestamps of the newest message of a dispatched burst
    Ids,         \* addresses of dispatch objects
    MaxStale,    \* largest staleness window set_capipush_settings may set, in ticks
    NoId,        \* absence of a map entry
    NoTurn,      \* a terminal bound to nothing
    NoToken,     \* the zero value of dispatch.token
    NoDispatch   \* the content of a free heap cell

Levels == {"boss", "approver", "caution", "danger"}

ASSUME GateAssumption ==
    /\ MaxStale \in Nat \ {0}
    /\ NoId \notin Ids
    /\ NoToken \notin Tokens
    /\ NoTurn \notin [chat : Chats, level : Levels, burst : Bursts,
                     phase : {"locked", "ready", "done"}]

GateStates == {"locked", "noting", "ready", "done"}

Dispatch == [nonce    : Nonces,
             chat     : Chats,
             level    : Levels,
             terminal : Terminals,
             state    : GateStates,
             token    : Tokens \cup {NoToken},
             idle     : 0 .. MaxStale + 1,
             bound    : BOOLEAN,
             burst    : Bursts]

VARIABLES
    heap,        \* Ids -> Dispatch, or NoDispatch when free
    byNonce,     \* Gate.byNonce
    byTerminal,  \* Gate.byTerminal
    staleAfter   \* Gate.staleAfter

gateVars == <<heap, byNonce, byTerminal, staleAfter>>

-----------------------------------------------------------------------------
Live(bn, bt) == ({bn[n] : n \in Nonces} \cup {bt[t] : t \in Terminals}) \ {NoId}

\* Objects neither map refers to any more are garbage.
Collect(h, bn, bt) ==
    [i \in Ids |-> IF i \in Live(bn, bt) THEN h[i] ELSE NoDispatch]

\* The dispatch a terminal is bound to, when it has one.
Bound(t) == byTerminal[t] # NoId
Current(t) == heap[byTerminal[t]]

NonceActive(n) == byNonce[n] # NoId

InFlight(t) == Bound(t) /\ Current(t).state # "done"

\* Active(t).Ready: what send_message, silent_act and the level gate ask.
Ready(t) == Bound(t) /\ Current(t).state = "ready"

\* Mutant: only dispatches never pulled with get_instructions are swept.
StaleUnpulled == {i \in Ids : /\ \E n \in Nonces : byNonce[n] = i
                              /\ ~heap[i].bound
                              /\ heap[i].idle > staleAfter}

\* Mutant: the sweep walks byTerminal, finished dispatches included.
StaleBound == {i \in Ids : /\ \E t \in Terminals : byTerminal[t] = i
                           /\ heap[i].idle > staleAfter}

Stale == {i \in Ids : /\ \E n \in Nonces : byNonce[n] = i
                      /\ heap[i].idle > staleAfter}

\* evictLocked on every member of S: the two maps afterwards.
EvictNonces(S) ==
    [n \in Nonces |-> IF \E i \in S : heap[i].nonce = n THEN NoId ELSE byNonce[n]]

\* Mutant: eviction forgets byTerminal.
EvictTerminalsNone(S) == byTerminal

EvictTerminals(S) ==
    [t \in Terminals |-> IF \E i \in S : heap[i].terminal = t /\ byTerminal[t] = i
                         THEN NoId ELSE byTerminal[t]]

Evict(S) ==
    /\ byNonce' = EvictNonces(S)
    /\ byTerminal' = EvictTerminals(S)
    /\ heap' = Collect(heap, byNonce', byTerminal')
    /\ UNCHANGED staleAfter

\* A transition of one dispatch in place; it stamps lastActivity.
Stamp(i, d) ==
    /\ heap' = [heap EXCEPT ![i] = [d EXCEPT !.idle = 0]]
    /\ UNCHANGED <<byNonce, byTerminal, staleAfter>>

-----------------------------------------------------------------------------
GateInit ==
    /\ heap = [i \in Ids |-> NoDispatch]
    /\ byNonce = [n \in Nonces |-> NoId]
    /\ byTerminal = [t \in Terminals |-> NoId]
    /\ staleAfter \in 1 .. MaxStale

NewDispatch(n, c, l, t, b) ==
    [nonce |-> n, chat |-> c, level |-> l, terminal |-> t,
     state |-> IF l = "boss" THEN "ready" ELSE "locked",
     token |-> NoToken, idle |-> 0, bound |-> FALSE, burst |-> b]

\* Mutant: the nonce of the replaced dispatch stays registered.
WithoutPreviousKept(n, t) == EvictNonces(Stale)

\* byNonce after the stale sweep and the removal of the nonce of whatever
\* dispatch the terminal was bound to.
WithoutPrevious(n, t) ==
    LET bn   == EvictNonces(Stale)
        prev == EvictTerminals(Stale)[t]
    IN  IF prev # NoId /\ heap[prev].nonce # n
        THEN [bn EXCEPT ![heap[prev].nonce] = NoId]
        ELSE bn

RegisterDispatch(n, c, l, t, b) ==
    \E i \in Ids \ Live(byNonce, byTerminal) :
        /\ byNonce' = [WithoutPrevious(n, t) EXCEPT ![n] = i]
        /\ byTerminal' = [EvictTerminals(Stale) EXCEPT ![t] = i]
        /\ heap' = Collect([heap EXCEPT ![i] = NewDispatch(n, c, l, t, b)],
                           byNonce', byTerminal')
        /\ UNCHANGED staleAfter

CancelDispatch(n, t) ==
    /\ NonceActive(n)
    /\ heap[byNonce[n]].terminal = t
    /\ Evict({byNonce[n]})

\* The ticker's sweep (an empty sweep changes nothing).
Sweep == Stale # {} /\ Evict(Stale)

GetInstructions(t, n) ==
    /\ NonceActive(n)
    /\ heap[byNonce[n]].terminal = t
    /\ \E tok \in Tokens \ {heap[i].token : i \in Live(byNonce, byTerminal)} :
          Stamp(byNonce[n], [heap[byNonce[n]] EXCEPT !.token = tok, !.bound = TRUE])

\* Mutant: the zero value of the token is accepted.
UnlockEmptyToken(t, tok) ==
    /\ Bound(t)
    /\ Current(t).state = "locked"
    /\ Current(t).token = tok
    /\ Stamp(byTerminal[t], [Current(t) EXCEPT !.state = "noting"])

\* noting and ready answer success and change nothing; done is an error.
Unlock(t, tok) ==
    /\ Bound(t)
    /\ Current(t).state = "locked"
    /\ tok # NoToken
    /\ Current(t).token = tok
    /\ Stamp(byTerminal[t], [Current(t) EXCEPT !.state = "noting"])

\* Mutant: remember and skip do not look at the state.
AdvanceFromAny(t) ==
    /\ Bound(t)
    /\ Stamp(byTerminal[t], [Current(t) EXCEPT !.state = "ready"])

\* remember and skip: the checkpoint.  remember's writes to the chat's memory
\* and context are not part of the gate's state.
AdvanceToReady(t) ==
    /\ Bound(t)
    /\ Current(t).state = "noting"
    /\ Stamp(byTerminal[t], [Current(t) EXCEPT !.state = "ready"])

\* Mutant: a consumed dispatch keeps its nonce.
ConsumeKeepsNonce(t) ==
    /\ Bound(t)
    /\ heap' = [heap EXCEPT ![byTerminal[t]] = [Current(t) EXCEPT !.state = "done"]]
    /\ UNCHANGED <<byNonce, byTerminal, staleAfter>>

\* Consume retires whatever dispatch the terminal is bound to now.
Consume(t) ==
    /\ Bound(t)
    /\ byNonce' = [byNonce EXCEPT ![Current(t).nonce] = NoId]
    /\ heap' = [heap EXCEPT ![byTerminal[t]] = [Current(t) EXCEPT !.state = "done"]]
    /\ UNCHANGED <<byTerminal, staleAfter>>

\* Mutant: a window of zero is taken as given.
SetStaleAfterAny(d) ==
    /\ staleAfter' = d
    /\ UNCHANGED <<heap, byNonce, byTerminal>>

SetStaleAfter(d) ==
    /\ d > 0
    /\ staleAfter' = d
    /\ UNCHANGED <<heap, byNonce, byTerminal>>

\* A done dispatch is never swept: its idle time is irrelevant and stays put.
Tick ==
    /\ heap' = [i \in Ids |->
                  IF i \in Live(byNonce, byTerminal) /\ heap[i].state # "done"
                       /\ heap[i].idle <= MaxStale
                  THEN [heap[i] EXCEPT !.idle = @ + 1]
                  ELSE heap[i]]
    /\ UNCHANGED <<byNonce, byTerminal, staleAfter>>

-----------------------------------------------------------------------------
\* The agent behind a terminal, the sweepers and the clock.  An agent may
\* present any token, its own or not; a tool call may consume in any state
\* (the principal's sends need no ready dispatch).
Agent(t) ==
    \/ \E n \in Nonces : GetInstructions(t, n)
    \/ \E tok \in Tokens \cup {NoToken} : Unlock(t, tok)
    \/ AdvanceToReady(t)
    \/ Consume(t)

Background ==
    \/ Sweep
    \/ Tick
    \/ \E d \in 0 .. MaxStale : SetStaleAfter(d)

Cancel == \E n \in Nonces, t \in Terminals : CancelDispatch(n, t)

\* newNonce only ensures that the nonce is not in byNonce.
Register(t) ==
    \E n \in Nonces, c \in Chats, l \in Levels, b \in Bursts :
        /\ ~NonceActive(n)
        /\ RegisterDispatch(n, c, l, t, b)

\* The gate under any caller: nothing stops a second registration for a
\* terminal whose dispatch is in flight.
Next == Cancel \/ Background \/ \E t \in Terminals : Register(t) \/ Agent(t)

Spec == GateInit /\ [][Next]_gateVars

\* The gate as capipush.dispatch uses it: it asks InFlight first, and it is
\* the only goroutine that registers.
PushNext ==
    \/ Cancel
    \/ Background
    \/ \E t \in Terminals : (~InFlight(t) /\ Register(t)) \/ Agent(t)

\* The clock runs, and the ticker of Gate.Sweep with it.  Agents owe nothing.
Fairness == WF_gateVars(Tick) /\ WF_gateVars(Sweep)

FairPushSpec == GateInit /\ [][PushNext]_gateVars /\ Fairness

\* ... and as it behaves when newNonce never draws the nonce of a dispatch a
\* terminal is still bound to, finished ones included.
NonceHeld(n) == \E t \in Terminals : Bound(t) /\ Current(t).nonce = n

FreshRegister(t) ==
    \E n \in Nonces, c \in Chats, l \in Levels, b \in Bursts :
        /\ ~InFlight(t)
        /\ ~NonceActive(n)
        /\ ~NonceHeld(n)
        /\ RegisterDispatch(n, c, l, t, b)

FreshNext ==
    Cancel \/ Background \/ \E t \in Terminals : FreshRegister(t) \/ Agent(t)

FreshSpec == GateInit /\ [][FreshNext]_gateVars
FairFreshSpec == FreshSpec /\ Fairness
-----------------------------------------------------------------------------
TypeOK ==
    /\ byNonce \in [Nonces -> Ids \cup {NoId}]
    /\ byTerminal \in [Terminals -> Ids \cup {NoId}]
    /\ staleAfter \in 1 .. MaxStale
    /\ heap \in [Ids -> Dispatch \cup {NoDispatch}]
    /\ \A i \in Live(byNonce, byTerminal) : heap[i] \in Dispatch

\* The two indices agree: a nonce leads to the dispatch registered under it,
\* which is the one its terminal is bound to now and is not finished.  This is
\* what "CancelDispatch never cancels the WRONG dispatch" rests on (gate.go
\* RegisterDispatch, evictLocked, Consume).
IndexConsistent ==
    /\ \A n \in Nonces : NonceActive(n) =>
          /\ heap[byNonce[n]].nonce = n
          /\ byTerminal[heap[byNonce[n]].terminal] = byNonce[n]
          /\ heap[byNonce[n]].state # "done"
    /\ \A t \in Terminals : Bound(t) => Current(t).terminal = t

\* Below boss level no dispatch gets past the lock unless get_instructions was
\* called for that very dispatch, so the agent read its rules (gate.go Unlock's
\* empty-token check, RegisterDispatch's reset of the token).
CheckpointPassed ==
    \A t \in Terminals :
        Bound(t) /\ Current(t).level # "boss" /\ Current(t).state \in {"noting", "ready"}
            => Current(t).bound /\ Current(t).token # NoToken

\* A terminal becomes ready only by finishing the ritual of the dispatch it is
\* bound to, or by the registration of a boss dispatch: neither a used dispatch
\* nor the level of an earlier one comes back (gate.go RegisterDispatch, Consume).
ReadyOnlyThroughRitual ==
    [][\A t \in Terminals : Ready(t)' /\ ~Ready(t) =>
          \/ /\ byTerminal'[t] = byTerminal[t]
             /\ Current(t).state = "noting"
             /\ Current(t)'.level = Current(t).level
          \/ byTerminal'[t] # byTerminal[t] /\ Current(t)'.level = "boss"]_gateVars

\* A terminal that ever engaged the gate never falls back to "no dispatch" by
\* finishing one: a used dispatch stays bound until another replaces it
\* (gate.go Consume's comment, sweepLocked).
DoneStaysBound ==
    [][\A t \in Terminals :
          Bound(t) /\ Current(t).state = "done" => byTerminal'[t] # NoId]_gateVars

\* Whatever is in flight can be swept: the staleness sweep reaches a dispatch
\* only through byNonce, so an in-flight dispatch missing from it would hold
\* its terminal until the process restarts (gate.go Sweep, sweepLocked).
InFlightReclaimable ==
    \A t \in Terminals : InFlight(t) => byNonce[Current(t).nonce] = byTerminal[t]

\* A terminal does not stay occupied for ever by an agent that went silent: it
\* is freed again and again, or its agent keeps pulling instructions ("a
\* ticker-driven sweep reclaims it regardless of what any terminal is doing",
\* gate.go Sweep).
SilentTerminalFreed ==
    \A t \in Terminals :
        \/ []<>(~InFlight(t))
        \/ []<><<\E n \in Nonces : GetInstructions(t, n)>>_gateVars

\* Seen from a tool call, a terminal has a turn: nonces, tokens, idle times and
\* the step between unlock and remember are the gate's own business.
TurnOf(t) ==
    IF ~Bound(t) THEN NoTurn
    ELSE [chat |-> Current(t).chat, level |-> Current(t).level, burst |-> Current(t).burst,
          phase |-> IF Current(t).state = "noting" THEN "locked" ELSE Current(t).state]

TurnsGiven == [t \in Terminals |-> TurnOf(t)]
Turns == INSTANCE Turn WITH turn <- TurnsGiven

\* The gate gives every terminal one turn at a time, whoever calls it and in
\* whatever order: no call opens, ends or takes away another terminal's turn,
\* and none takes away a used one (Gate's methods against its two maps).
GivesTurns == Turns!TurnSpec
=============================================================================
