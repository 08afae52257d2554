------------------------------ MODULE Dispatch ------------------------------
(***************************************************************************)
(* From a message's arrival to the mark that it was dealt with.            *)
(*                                                                         *)
(* Three kinds of goroutines meet here.  The inbound pipeline stores       *)
(* messages.  The sweep (capipush.sweepOnce, one goroutine) takes a        *)
(* snapshot of what is pending, and for one chat after the other decides   *)
(* where it goes, binds the terminal's turn, pushes over HTTP and keeps    *)
(* its books.  Tool calls (send_message, draft, silent_act) run on         *)
(* goroutines of their own: they check the turn, look at it a second time, *)
(* post, use the turn up and mark messages handled, in steps no lock holds *)
(* together.  The gate is seen through Turn, which Gate implements.        *)
(*                                                                         *)
(* Time is in seconds of message timestamps, coarse: Debounce and the      *)
(* other windows are small numbers.  Every chat here is one the owner has  *)
(* activated, with rules; policies, claims and the whitelist only refuse   *)
(* calls, and a refused call does nothing.                                 *)
(***************************************************************************)
EXTENDS Naturals, FiniteSets, Turn

CONSTANTS
    MaxMsg,       \* messages that may arrive
    Quotable,     \* terminals whose messages the boss may reply to
    Principal,    \* cfg.PortFallback
    NoTerminal,
    Boss,         \* chats with is_boss
    Confirmed,    \* chats with confirmation_mode "always"
    Exclusive,    \* chat -> the agent of its agent_exclusive status
    Routed,       \* chat -> the terminal router.json gives it
    Limit,        \* Config.DispatchLimit
    MaxRedispatch,
    Debounce, MaxDebounce,
    SwampedAt, SwampedWindow,
    NoticeAfter,  \* channelDownNoticeThreshold
    Slots,        \* <<terminal, k>>: the tool calls that may be under way at once
    MaxNow,       \* bound: the last second
    Trouble,      \* Mishaps that happen in this instance
    MaxTrouble,   \* bound: how many of them at most
    NoMsg, NoCall, NoTime

Msgs == 1 .. MaxMsg

\* Late arrivals, failed pushes, antennas configured or removed, restarts and
\* failed writes.
Mishaps == {"late", "fail", "rewire", "down", "fault"}

Antennas == {"none", "dead", "live"}

Messages == [chat : Chats, quotes : Terminals \cup {NoTerminal}, ts : Bursts,
             handled : BOOLEAN]

\* The sweep: what is left of its snapshot, and the push under way.
Sweeps == [at : {"idle", "chats", "injecting"}, bursts : [Chats -> SUBSET Msgs],
           swamped : BOOLEAN, chat : Chats \cup {NoMsg},
           term : Terminals \cup {NoTerminal}, anchor : Msgs \cup {NoMsg},
           delivered : BOOLEAN]

\* A tool call under way: what it does next, the chat it writes to and how far
\* that is marked, the turn's chat and how far that is.  own and answers are
\* history: see NewCall.
Calls == [tool : {"send", "draft", "silent"},
          at : {"look", "post", "consume", "mark", "markOther"},
          to : Chats, upto : Bursts, other : Chats, otherUpto : Bursts,
          own : BOOLEAN, answers : BOOLEAN]

ASSUME DispatchAssumption ==
    /\ MaxMsg \in Nat /\ Limit \in Nat \ {0} /\ MaxRedispatch \in Nat \ {0}
    /\ {Debounce, MaxDebounce, SwampedAt, SwampedWindow, NoticeAfter} \subseteq Nat
    /\ MaxNow \in Nat \ {0}
    /\ Slots \subseteq Terminals \X Nat
    /\ NoTerminal \notin Terminals /\ Principal \in Terminals
    /\ Quotable \subseteq Terminals
    /\ {Exclusive, Routed} \subseteq [Chats -> Terminals \cup {NoTerminal}]
    /\ Boss \cup Confirmed \subseteq Chats
    /\ Trouble \subseteq Mishaps /\ MaxTrouble \in Nat
    /\ NoTurn \notin Turns /\ NoMsg \notin Messages /\ NoCall \notin Calls
    /\ Bursts = 0 .. MaxNow

Level(c) == IF c \in Boss THEN "boss" ELSE "caution"

VARIABLES
    now,
    msg,         \* the messages table; quotes is the terminal whose message one
                 \* of them replies to
    push,        \* the sweep
    tries,       \* redispatchCount, by anchor
    antenna,     \* the injector registered for each terminal
    outage,      \* channelDownSince; NoTime when the channel is not down
    noticed,     \* channelDownNotified: <<terminal, chat>>
    call,        \* the tool calls under way
    left,        \* how many mishaps may still happen
    shown,       \* history: who was pushed each message; NoTerminal stands for
                 \* its sender being told that the agent is unreachable
    excused,     \* history: see ClosedOnlySeen
    posted,      \* history: answers posted for the turn a terminal has now
    told         \* history: terminals whose agent was pushed the turn they have

sweepVars == <<push, tries, outage, noticed>>
historyVars == <<shown, excused, posted, told>>
vars == <<now, msg, turn, sweepVars, antenna, call, left, historyVars>>

Spend(m) == m \in Trouble /\ left > 0 /\ left' = left - 1

\* A database write succeeds, or fails and is only logged.
Write(ok) == IF ok THEN UNCHANGED left ELSE Spend("fault")

Arrived(m) == msg[m] # NoMsg
Pending(m) == Arrived(m) /\ ~msg[m].handled

\* ORDER BY ts ASC.
Before(m, n) == msg[m].ts < msg[n].ts \/ (msg[m].ts = msg[n].ts /\ m < n)
Newest(B) == CHOOSE m \in B : \A n \in B \ {m} : Before(n, m)
Oldest(B) == CHOOSE m \in B : \A n \in B \ {m} : Before(m, n)

\* PendingDedicated: the oldest Limit pending messages of all chats.
Window == {m \in Msgs : /\ Pending(m)
                        /\ Cardinality({n \in Msgs : Pending(n) /\ Before(n, m)}) < Limit}

Handle(S) ==
    msg' = [m \in Msgs |-> IF m \in S THEN [msg[m] EXCEPT !.handled = TRUE] ELSE msg[m]]

\* The messages MarkHandledBefore(c, ts) marks.
Upto(c, ts) == {m \in Msgs : Pending(m) /\ msg[m].chat = c /\ msg[m].ts <= ts}

Idle == [at |-> "idle", bursts |-> [c \in Chats |-> {}], swamped |-> FALSE,
         chat |-> NoMsg, term |-> NoTerminal, anchor |-> NoMsg, delivered |-> FALSE]

Init ==
    /\ TurnInit
    /\ now = 1
    /\ msg = [m \in Msgs |-> NoMsg]
    /\ push = Idle
    /\ tries = [m \in Msgs |-> 0]
    /\ antenna = [t \in Terminals |-> "live"]
    /\ outage = [t \in Terminals |-> NoTime] /\ noticed = {}
    /\ call = [s \in Slots |-> NoCall]
    /\ left = MaxTrouble
    /\ shown = [m \in Msgs |-> {}] /\ excused = {}
    /\ posted = [t \in Terminals |-> 0] /\ told = {}

-----------------------------------------------------------------------------
(* The sweep. *)

\* isDebounced.
Debounced(B) ==
    /\ now < msg[Oldest(B)].ts + MaxDebounce
    /\ now < msg[Newest(B)].ts + Debounce

\* CountRecentPendingNonBoss reaches the threshold.
Swamped ==
    Cardinality({m \in Msgs : /\ Pending(m) /\ msg[m].chat \notin Boss
                              /\ msg[m].ts + SwampedWindow >= now}) >= SwampedAt

\* sweepOnce up to its loop: the snapshot, the backpressure, and the books of
\* chats that are not pending any more.
Snapshot ==
    LET bursts  == [c \in Chats |-> {m \in Window : msg[m].chat = c}]
        anchors == {Newest(bursts[c]) : c \in {d \in Chats : bursts[d] # {}}}
    IN  /\ push.at = "idle"
        /\ push' = IF Window = {} THEN Idle
                   ELSE [Idle EXCEPT !.at = "chats", !.bursts = bursts, !.swamped = Swamped]
        /\ tries' = [m \in Msgs |-> IF m \in anchors THEN tries[m] ELSE 0]
        /\ UNCHANGED <<now, msg, turn, outage, noticed, antenna, call, left, historyVars>>

\* The sweep is done with chat c and turns to another, or ends.
Onward(c) ==
    LET rest == [push.bursts EXCEPT ![c] = {}]
    IN  push' = IF \A d \in Chats : rest[d] = {} THEN Idle
                ELSE [Idle EXCEPT !.at = "chats", !.bursts = rest, !.swamped = push.swamped]

Taken(c) == push.at = "chats" /\ push.bursts[c] # {}

\* resolveReplyTarget: the newest message decides for the whole burst.
IsReply(B) == msg[Newest(B)].quotes # NoTerminal

\* Where a burst goes: reply target, boss to the principal, the chat's own
\* agent if it has an injector, router.json, the principal.
Route(c, B) ==
    IF IsReply(B) THEN msg[Newest(B)].quotes
    ELSE IF c \in Boss THEN Principal
    ELSE IF Exclusive[c] # NoTerminal /\ antenna[Exclusive[c]] # "none" THEN Exclusive[c]
    ELSE IF Routed[c] # NoTerminal THEN Routed[c]
    ELSE Principal

Goal(c) == Route(c, push.bursts[c])
Reachable(c) == antenna[Goal(c)] = "live"

\* Backpressure, which spares the boss, and the debounce.
Passes(c) == ~(push.swamped /\ c \notin Boss) /\ ~Debounced(push.bursts[c])

\* Mutant: one push more than the cap allows.
ClearOnceMore(c) == ~InFlight(Goal(c)) /\ tries[Newest(push.bursts[c])] <= MaxRedispatch

\* The terminal is free and the anchor not capped.
Clear(c) == ~InFlight(Goal(c)) /\ tries[Newest(push.bursts[c])] < MaxRedispatch

\* An anchor that was pushed before is in backoff, or the backoff has passed.
MayRest(c) == tries[Newest(push.bursts[c])] > 0

\* The chat waits for a later sweep.
Hold(c) ==
    /\ Taken(c)
    /\ Passes(c) => IF Reachable(c) THEN Clear(c) => MayRest(c) ELSE ~IsReply(push.bursts[c])
    /\ Onward(c)
    /\ UNCHANGED <<now, msg, turn, tries, outage, noticed, antenna, call, left, historyVars>>

\* notifyAgentUnreachable: a notice to the chat, then the burst's replies to that
\* terminal are closed one by one, up to the first write that fails.
NotifyUnreachable(c, queued, closed) ==
    LET replies == {m \in push.bursts[c] : msg[m].quotes = Goal(c)}
    IN  /\ Taken(c) /\ Passes(c) /\ ~Reachable(c) /\ IsReply(push.bursts[c])
        /\ closed \subseteq IF queued THEN replies ELSE {}
        /\ \A m \in closed, n \in replies : Before(n, m) => n \in closed
        /\ Write(closed = replies)
        /\ Handle(closed)
        /\ shown' = [m \in Msgs |-> IF queued /\ m \in replies THEN shown[m] \cup {NoTerminal}
                                   ELSE shown[m]]
        /\ Onward(c)
        /\ UNCHANGED <<now, turn, tries, outage, noticed, antenna, call, excused, posted, told>>

\* History: the turns of the terminals T are not what calls checked any more.
Rebound(T) ==
    /\ posted' = [t \in Terminals |-> IF t \in T THEN 0 ELSE posted[t]]
    /\ told' = told \ T
    /\ call' = [s \in Slots |-> IF call[s] # NoCall /\ s[1] \in T
                                THEN [call[s] EXCEPT !.own = FALSE] ELSE call[s]]

\* From InFlight to RegisterDispatch.  Only the sweep registers, so nothing it
\* asked before can have changed for the worse.
Register(c) ==
    /\ Taken(c) /\ Passes(c) /\ Reachable(c) /\ Clear(c)
    /\ Bind(Goal(c), c, Level(c), msg[Newest(push.bursts[c])].ts, {})
    /\ Rebound({Goal(c)})
    /\ push' = [push EXCEPT !.at = "injecting", !.chat = c, !.term = Goal(c),
                           !.anchor = Newest(push.bursts[c])]
    /\ UNCHANGED <<now, msg, tries, outage, noticed, antenna, left, shown, excused>>

Pushed == push.bursts[push.chat]

\* Inject, on the agent's side.
Deliver ==
    /\ push.at = "injecting" /\ ~push.delivered
    /\ antenna[push.term] = "live"
    /\ push' = [push EXCEPT !.delivered = TRUE]
    /\ told' = IF InFlight(push.term) THEN told \cup {push.term} ELSE told
    /\ shown' = [m \in Msgs |-> IF m \in Pushed THEN shown[m] \cup {push.term} ELSE shown[m]]
    /\ UNCHANGED <<now, msg, turn, tries, outage, noticed, antenna, call, left, excused, posted>>

\* Inject returned no error: the agent has the push, or the antenna was removed
\* meanwhile and the fallback injector only logged it.
InjectOk ==
    /\ push.at = "injecting"
    /\ push.delivered \/ antenna[push.term] = "none"
    /\ outage' = [outage EXCEPT ![push.term] = NoTime]
    /\ noticed' = {p \in noticed : p[1] # push.term}
    /\ tries' = [tries EXCEPT ![push.anchor] = @ + 1]
    /\ Onward(push.chat)
    /\ UNCHANGED <<now, msg, turn, antenna, call, left, historyVars>>

\* CancelDispatch: a turn already used, or swept, is left alone.
Cancel(t) ==
    IF InFlight(t) THEN Release({t}) /\ Rebound({t}) ELSE UNCHANGED <<turn, posted, told, call>>

\* maybeNotifyChannelDown: once per outage and chat, after the threshold, unless
\* the notice cannot be queued.
Notices(since) ==
    {noticed} \cup IF IsReply(Pushed) /\ now >= since + NoticeAfter
                   THEN {noticed \cup {<<push.term, push.chat>>}} ELSE {}

\* Mutant: an attempt nobody received counts against the cap.
InjectFailsCounted ==
    LET t     == push.term
        since == IF outage[t] = NoTime THEN now ELSE outage[t]
    IN  /\ push.at = "injecting" /\ antenna[t] = "live"
        /\ Spend("fail")
        /\ outage' = [outage EXCEPT ![t] = since]
        /\ noticed' \in Notices(since)
        /\ tries' = [tries EXCEPT ![push.anchor] = @ + 1]
        /\ Cancel(t)
        /\ Onward(push.chat)
        /\ UNCHANGED <<now, msg, antenna, shown, excused>>

\* Inject failed, whether or not the agent got the push.
InjectFails ==
    LET t     == push.term
        since == IF outage[t] = NoTime THEN now ELSE outage[t]
    IN  /\ push.at = "injecting" /\ antenna[t] = "live"
        /\ Spend("fail")
        /\ outage' = [outage EXCEPT ![t] = since]
        /\ noticed' \in Notices(since)
        /\ Cancel(t)
        /\ Onward(push.chat)
        /\ UNCHANGED <<now, msg, tries, antenna, shown, excused>>

\* terminal_gone: the injector discards its credential.
InjectGone ==
    /\ push.at = "injecting" /\ ~push.delivered
    /\ antenna[push.term] = "live"
    /\ Spend("fail")
    /\ antenna' = [antenna EXCEPT ![push.term] = "dead"]
    /\ Cancel(push.term)
    /\ Onward(push.chat)
    /\ UNCHANGED <<now, msg, tries, outage, noticed, shown, excused>>

SweepStep ==
    \/ Snapshot
    \/ \E c \in Chats :
          \/ Hold(c) \/ Register(c)
          \/ \E queued \in BOOLEAN, closed \in SUBSET push.bursts[c] :
                NotifyUnreachable(c, queued, closed)
    \/ Deliver \/ InjectOk \/ InjectFails \/ InjectGone

-----------------------------------------------------------------------------
(* The tool calls. *)

\* What each tool does once it was let through: look at the turn again, post
\* (outbox row or draft), use the turn up, mark the chat written to, mark the
\* chat of the turn when it is another.
After ==
    [send   |-> [look |-> "post", post |-> "consume", consume |-> "mark",
                 mark |-> "markOther", markOther |-> "end"],
     draft  |-> [look |-> "post", post |-> "mark", mark |-> "markOther",
                 markOther |-> "consume", consume |-> "end"],
     silent |-> [mark |-> "consume", consume |-> "end"]]

\* send_message in a chat that is always confirmed drafts instead.
Acting(tool, c) == IF c \in Confirmed THEN "draft" ELSE tool

\* own: the terminal still has the turn the call was let through for.
\* answers: at its second look the call was answering a turn of the chat it
\* writes to that its agent had been pushed.  Both are history.
NewCall(tool, step, c) ==
    [tool |-> tool, at |-> step, to |-> c, upto |-> 0, other |-> c, otherUpto |-> 0,
     own |-> FALSE, answers |-> FALSE]

\* validateSend: the principal may write to any active chat with rules, others
\* need a ready turn, of that chat unless it is the boss's.
LetThrough(t, c) ==
    \/ t = Principal
    \/ Ready(t) /\ (turn[t].level = "boss" \/ turn[t].chat = c)

Validate(s, tool, c) ==
    /\ call[s] = NoCall
    /\ LetThrough(s[1], c)
    /\ call' = [call EXCEPT ![s] =
                  [NewCall(Acting(tool, c), "look", c) EXCEPT !.own = s[1] # Principal]]
    /\ UNCHANGED <<now, msg, turn, sweepVars, antenna, left, historyVars>>

\* silent_act looks once, and always acts on the chat of the turn.
SilentAct(s) ==
    LET t == s[1]
    IN  /\ call[s] = NoCall /\ Ready(t)
        /\ call' = [call EXCEPT ![s] =
                      [NewCall("silent", "mark", turn[t].chat) EXCEPT
                         !.upto = turn[t].burst, !.own = TRUE, !.answers = t \in told]]
        /\ UNCHANGED <<now, msg, turn, sweepVars, antenna, left, historyVars>>

At(s, step) == call[s] # NoCall /\ call[s].at = step

\* The call with its step done; it ends with the last.
Done(k) == IF After[k.tool][k.at] = "end" THEN NoCall ELSE [k EXCEPT !.at = After[k.tool][k.at]]

\* Mutant: everything up to now is marked handled, whoever writes.
UptoNow(t) == now

\* How far the chat written to will be marked.
UptoOf(t) == IF t # Principal /\ Bound(t) THEN turn[t].burst ELSE now

\* The second Active.
Look(s) ==
    LET t == s[1]
        k == call[s]
    IN  /\ At(s, "look")
        /\ call' = [call EXCEPT ![s] = Done(
                      [k EXCEPT !.upto = UptoOf(t),
                                !.other = IF Bound(t) THEN turn[t].chat ELSE k.to,
                                !.otherUpto = IF Bound(t) THEN turn[t].burst ELSE 0,
                                !.answers = k.own /\ t \in told /\ turn[t].chat = k.to])]
        /\ UNCHANGED <<now, msg, turn, sweepVars, antenna, left, historyVars>>

\* EnqueueWithModel or AddDraftWithConfirmer; if it fails the call ends.
Post(s, ok) ==
    /\ At(s, "post")
    /\ Write(ok)
    /\ call' = [call EXCEPT ![s] = IF ok THEN Done(@) ELSE NoCall]
    /\ posted' = IF ok /\ call[s].own THEN [posted EXCEPT ![s[1]] = @ + 1] ELSE posted
    /\ UNCHANGED <<now, msg, turn, sweepVars, antenna, shown, excused, told>>

\* Mutant: the turn is left as it is.
ConsumeNot(s) ==
    /\ At(s, "consume")
    /\ call' = [call EXCEPT ![s] = Done(@)]
    /\ UNCHANGED <<now, msg, turn, sweepVars, antenna, left, historyVars>>

Consume(s) ==
    /\ At(s, "consume")
    /\ IF Bound(s[1]) THEN Use(s[1]) ELSE UNCHANGED turn
    /\ call' = [call EXCEPT ![s] = Done(@)]
    /\ UNCHANGED <<now, msg, sweepVars, antenna, left, historyVars>>

\* MarkHandledBefore(to, upto).
Mark(s, ok) ==
    LET k == call[s]
        S == IF ok THEN Upto(k.to, k.upto) ELSE {}
    IN  /\ At(s, "mark")
        /\ Write(ok)
        /\ Handle(S)
        /\ excused' = IF k.answers THEN excused ELSE excused \cup S
        /\ call' = [call EXCEPT ![s] = Done(@)]
        /\ UNCHANGED <<now, turn, sweepVars, antenna, shown, posted, told>>

\* markDispatchChatIfDifferent.
MarkOther(s, ok) ==
    LET k == call[s]
        S == IF ok /\ k.other # k.to THEN Upto(k.other, k.otherUpto) ELSE {}
    IN  /\ At(s, "markOther")
        /\ Write(ok)
        /\ Handle(S)
        /\ excused' = excused \cup S
        /\ call' = [call EXCEPT ![s] = Done(@)]
        /\ UNCHANGED <<now, turn, sweepVars, antenna, shown, posted, told>>

CallStep(s) ==
    \/ Look(s) \/ Consume(s)
    \/ \E ok \in BOOLEAN : Post(s, ok) \/ Mark(s, ok) \/ MarkOther(s, ok)

-----------------------------------------------------------------------------
(* Agents, time, and the environment. *)

\* unlock and remember or skip; the agent needs the nonce of the push.
Ritual(t) ==
    /\ t \in told /\ Open(t)
    /\ UNCHANGED <<now, msg, sweepVars, antenna, call, left, historyVars>>

\* The gate's sweep takes a turn away from an agent that went silent.
Expire(t) ==
    /\ InFlight(t)
    /\ Release({t}) /\ Rebound({t})
    /\ UNCHANGED <<now, msg, sweepVars, antenna, left, shown, excused>>

\* handleInbound.  A message delivered late, or in the same second as one of
\* its chat, may be older than a burst already on its way: it is overtaken.
Arrive(m, c, q, ts) ==
    /\ ~Arrived(m) /\ \A n \in 1 .. m - 1 : Arrived(n)
    /\ now + Debounce + SwampedWindow <= MaxNow
    /\ q # NoTerminal => c \in Boss
    /\ IF ts = now THEN UNCHANGED left ELSE ts < now /\ Spend("late")
    /\ msg' = [msg EXCEPT ![m] = [chat |-> c, quotes |-> q, ts |-> ts, handled |-> FALSE]]
    /\ excused' = IF \E n \in 1 .. m - 1 : msg[n].chat = c /\ msg[n].ts >= ts
                  THEN excused \cup {m} ELSE excused
    /\ UNCHANGED <<now, turn, sweepVars, antenna, call, shown, posted, told>>

Tick ==
    /\ now < MaxNow
    /\ now' = now + 1
    /\ UNCHANGED <<msg, turn, sweepVars, antenna, call, left, historyVars>>

\* RegisterInjector, UnregisterInjector; the principal's is only configured.
Rewire(t, v) ==
    /\ antenna[t] # v /\ v # "dead"
    /\ t = Principal => v # "none"
    /\ Spend("rewire")
    /\ antenna' = [antenna EXCEPT ![t] = v]
    /\ UNCHANGED <<now, msg, turn, sweepVars, call, historyVars>>

\* The process ends and is started again: the database stays, the gate, the
\* sweep's books and the calls do not; credentials are read anew.
Restart ==
    /\ Spend("down")
    /\ Release(Terminals)
    /\ push' = Idle
    /\ tries' = [m \in Msgs |-> 0]
    /\ outage' = [t \in Terminals |-> NoTime] /\ noticed' = {}
    /\ call' = [s \in Slots |-> NoCall]
    /\ antenna' = [t \in Terminals |-> IF antenna[t] = "dead" THEN "live" ELSE antenna[t]]
    /\ posted' = [t \in Terminals |-> 0] /\ told' = {}
    /\ UNCHANGED <<now, msg, shown, excused>>

AgentStep ==
    \/ \E t \in Terminals : Ritual(t)
    \/ \E s \in Slots : SilentAct(s) \/ \E c \in Chats, tool \in {"send", "draft"} : Validate(s, tool, c)

Next ==
    \/ SweepStep
    \/ \E s \in Slots : CallStep(s)
    \/ AgentStep
    \/ \E t \in Terminals : Expire(t) \/ \E v \in Antennas : Rewire(t, v)
    \/ \E m \in Msgs, c \in Chats, q \in Quotable \cup {NoTerminal}, ts \in Bursts :
          Arrive(m, c, q, ts)
    \/ Tick \/ Restart

Spec == Init /\ [][Next]_vars

\* The sweep's goroutine and the tool calls run, time passes, and the gate frees
\* terminals (Gate!SilentTerminalFreed).  Agents owe nothing.
Fairness ==
    /\ WF_vars(SweepStep) /\ WF_vars(Tick)
    /\ \A s \in Slots : WF_vars(CallStep(s))
    /\ \A t \in Terminals : WF_vars(Expire(t))

FairSpec == Spec /\ Fairness
-----------------------------------------------------------------------------
TypeOK ==
    /\ now \in 1 .. MaxNow
    /\ msg \in [Msgs -> Messages \cup {NoMsg}]
    /\ turn \in [Terminals -> Turns \cup {NoTurn}]
    /\ push \in Sweeps
    /\ tries \in [Msgs -> 0 .. MaxRedispatch]
    /\ antenna \in [Terminals -> Antennas]
    /\ outage \in [Terminals -> 1 .. MaxNow \cup {NoTime}]
    /\ noticed \subseteq Terminals \X Chats
    /\ call \in [Slots -> Calls \cup {NoCall}]
    /\ left \in 0 .. MaxTrouble
    /\ shown \in [Msgs -> SUBSET (Terminals \cup {NoTerminal})] /\ excused \subseteq Msgs
    /\ posted \in [Terminals -> Nat] /\ told \subseteq Terminals

\* One-shot: no two answers go out for the turn a terminal has ("a sent dispatch
\* can never be replayed", send.go), as long as its agent calls one tool after
\* the other.  Calls of the principal need no turn and are not counted.
OneAnswerPerTurn == \A t \in Terminals : posted[t] <= 1

\* A message is closed only after somebody was pushed it, or its sender was told
\* that the agent is unreachable.  The exceptions are closed by a call that was
\* not answering a pushed turn of that chat (the principal's, the boss's turn
\* used for another chat, a turn that changed between the call's two looks), or
\* were overtaken by a newer message of their chat (send.go "mark only what was
\* actually dispatched").
ClosedOnlySeen ==
    \A m \in Msgs : Arrived(m) /\ msg[m].handled => shown[m] # {} \/ m \in excused

\* Every message is pushed to somebody or dealt with, unless an antenna is
\* missing or it was overtaken (capipush: "the next sweep picks this chat back
\* up").
EventuallySeen ==
    \A m \in Msgs :
        Arrived(m) ~> \/ shown[m] # {} \/ ~Pending(m)
                      \/ m \in excused
                      \/ \E t \in Terminals : antenna[t] # "live"

\* "Whenever the boss replies to an agent's message it reaches that terminal,
\* and if it does not arrive, say so" (capipush.go, T44): no such reply is closed
\* before its agent was pushed it or the notice was queued.
ReplyReachesAgent ==
    \A m \in Msgs :
        Arrived(m) /\ msg[m].handled /\ msg[m].quotes # NoTerminal
            => {msg[m].quotes, NoTerminal} \cap shown[m] # {}
=============================================================================
