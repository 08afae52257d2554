----------------------------- MODULE FloodGuard -----------------------------
(***************************************************************************)
(* The limits on what a connected agent may call: two token buckets per    *)
(* client, all calls and those that send, a block after too many refusals  *)
(* in a row, and entries that are forgotten when idle.  Time goes by in    *)
(* ticks of a minute / EmitRate, in which one emit token grows back.       *)
(***************************************************************************)
EXTENDS Integers

CONSTANTS
    Clients,         \* session ids, "unknown" included
    RatePerMin, EmitRatePerMin, BlockThreshold,
    BlockCooldown,   \* in ticks
    StaleAfter,      \* clientStaleAfter, in ticks
    MaxTicks         \* bound on the clock

\* In an hour more than a whole burst grows back.  Nothing keeps the owner from
\* a cooldown over an hour, which an hour of silence would end; it is 5 minutes
\* unless configured.
ASSUME FloodGuardAssumption ==
    /\ RatePerMin \in Nat \ {0} /\ EmitRatePerMin \in Nat \ {0} /\ RatePerMin % EmitRatePerMin = 0
    /\ BlockThreshold \in Nat \ {0} /\ BlockCooldown \in Nat /\ MaxTicks \in Nat
    /\ StaleAfter \in Nat /\ BlockCooldown <= StaleAfter /\ EmitRatePerMin <= StaleAfter

NoEntry == [seen |-> -1, general |-> RatePerMin, generalAt |-> 0, emit |-> EmitRatePerMin,
            emitAt |-> 0, hits |-> 0, until |-> 0]

VARIABLES
    tick,
    entry,    \* clients; a fresh bucket is full whenever it is first used
    emitted,  \* history: calls that send let through, by client and up to a tick
    release   \* history: when the last block of each client ends

guardVars == <<tick, entry, emitted, release>>

FloodGuardInit ==
    /\ tick = 0
    /\ entry = [c \in Clients |-> NoEntry]
    /\ emitted = [c \in Clients |-> [t \in 0 .. MaxTicks |-> 0]]
    /\ release = [c \in Clients |-> 0]

\* Mutant: what grew back while idle is never cut off.
Overfull(tokens, grown, max) == tokens + grown

Refilled(tokens, grown, max) == IF tokens + grown > max THEN max ELSE tokens + grown

\* bucket.allow: the tokens there are now.
General(e) == Refilled(e.general, (tick - e.generalAt) * (RatePerMin \div EmitRatePerMin), RatePerMin)
Emit(e) == Refilled(e.emit, tick - e.emitAt, EmitRatePerMin)

LongIdle(e) == tick - e.seen > StaleAfter

\* The entry sweepLocked leaves of a client.
Swept(c) == IF entry[c].seen >= 0 /\ LongIdle(entry[c]) THEN NoEntry ELSE entry[c]
-----------------------------------------------------------------------------
Tick ==
    /\ tick < MaxTicks /\ tick' = tick + 1
    /\ UNCHANGED <<entry, emitted, release>>

\* Check, for a client and a call that sends or not.  Under a block nothing is
\* counted; a call over the general limit spends no emit token, one over the
\* emit limit does spend a general one.
Check(c, emits) ==
    /\ LET e == Swept(c)
           seen == [e EXCEPT !.seen = tick]
           blocked == tick < e.until
           ok == General(e) >= 1
           spent == [seen EXCEPT !.general = IF ok THEN General(e) - 1 ELSE General(e),
                                 !.generalAt = tick]
           sent == [spent EXCEPT !.emit = IF Emit(e) >= 1 THEN Emit(e) - 1 ELSE Emit(e),
                                 !.emitAt = tick]
           after == IF ok /\ emits THEN sent ELSE spent
           allowed == ok /\ (emits => Emit(e) >= 1)
           tripped == e.hits + 1 >= BlockThreshold
           now == CASE blocked -> seen
                    [] ~blocked /\ allowed -> [after EXCEPT !.hits = 0]
                    [] ~blocked /\ ~allowed /\ tripped ->
                          [after EXCEPT !.hits = 0, !.until = tick + BlockCooldown]
                    [] OTHER -> [after EXCEPT !.hits = @ + 1]
       IN  /\ entry' = [d \in Clients |-> IF d = c THEN now ELSE Swept(d)]
           /\ emitted' = IF ~blocked /\ allowed /\ emits
                         THEN [emitted EXCEPT ![c] = [t \in 0 .. MaxTicks |->
                                  emitted[c][t] + (IF t >= tick THEN 1 ELSE 0)]]
                         ELSE emitted
           /\ release' = IF ~blocked /\ ~allowed /\ tripped
                         THEN [release EXCEPT ![c] = now.until] ELSE release
    /\ UNCHANGED tick

FloodGuardNext == Tick \/ \E c \in Clients, emits \in BOOLEAN : Check(c, emits)

FloodGuardSpec == FloodGuardInit /\ [][FloodGuardNext]_guardVars
-----------------------------------------------------------------------------
FloodGuardTypeOK ==
    /\ tick \in 0 .. MaxTicks
    /\ entry \in [Clients -> [seen : -1 .. MaxTicks, general : 0 .. RatePerMin,
                              generalAt : 0 .. MaxTicks, emit : 0 .. EmitRatePerMin,
                              emitAt : 0 .. MaxTicks, hits : 0 .. BlockThreshold,
                              until : 0 .. MaxTicks + BlockCooldown]]
    /\ emitted \in [Clients -> [0 .. MaxTicks -> Nat]]
    /\ release \in [Clients -> 0 .. MaxTicks + BlockCooldown]

\* Calls that send let through from one tick to another, both included.
Between(c, from, to) == emitted[c][to] - (IF from = 0 THEN 0 ELSE emitted[c][from - 1])

\* However long a client was quiet before, the calls that send let through
\* between any two moments are one burst and what grew back since: no client
\* ever doubles the limit by alternating calls (bucket.allow).
EmitsPaced ==
    \A c \in Clients : \A from, to \in 0 .. MaxTicks :
        from <= to => Between(c, from, to) <= EmitRatePerMin + (to - from)

\* A blocked client sends nothing until its block ends: neither a token grown
\* back nor its entry being forgotten lets it out early (Guard.Check).
BlockHolds == \A c \in Clients : tick < release[c] => emitted'[c] = emitted[c]

\* Both limits of a client, together (mcpguard.Guard.Check).
LimitsHold == [][EmitsPaced' /\ BlockHolds]_guardVars
=============================================================================
