------------------------------ MODULE Pipeline ------------------------------
(***************************************************************************)
(* One life of the process, seen from the inbound side: WhatsApp's events  *)
(* enter a bounded channel that drops when full, the inbound loop stores   *)
(* them and nudges the event bus, the dashboard listens to the bus and     *)
(* reloads its chat list (the one view no timer refreshes), an agent's     *)
(* reading sends receipts from a goroutine of its own, and the shell ends  *)
(* the loops before it closes the store.                                   *)
(***************************************************************************)
EXTENDS Naturals, FiniteSets, Sequences

CONSTANTS
    MaxArrivals,      \* messages WhatsApp delivers, numbered in order
    Foreign,        \* those of chats the router refuses and that are not the owner's
    InboundBuffer,  \* capacity of Adapter.inbound
    BusBuffer,      \* eventbus.subscriberBuffer
    Watchers,       \* dashboards that may listen to /api/events
    Loads,          \* requests for the chat list a page has out at once
    ShellLoops,     \* background loops main joins: the push, the backup
    MaxStoreErrors, \* failed AddMessage calls
    MaxReaders,     \* MarkRead goroutines alive at once
    NoEvent         \* no message in hand

Events == 1 .. MaxArrivals

ASSUME PipelineAssumption ==
    /\ MaxArrivals \in Nat /\ Foreign \subseteq Events /\ NoEvent \notin Events
    /\ InboundBuffer \in Nat /\ BusBuffer \in Nat \ {0}
    /\ MaxStoreErrors \in Nat /\ MaxReaders \in Nat

\* The goroutines that touch the store until their context ends: the two loops
\* of Pipeline.Run, and those main joins itself.
PipelineLoops == {"inbound", "outbox"}
Loops == PipelineLoops \cup ShellLoops

VARIABLES
    shell,     \* main: "serving", "draining", "stopping", "joining", "closed"
    loop,      \* Loops -> "off", "select" or "work"
    cancelled, \* the contexts that have ended: "main", "pipeline"
    channel,   \* Adapter.inbound
    hand,      \* handleInbound: the message and the step it is at
    messages,  \* the messages table: what was stored, in order
    receipts,  \* MarkRead goroutines: the messages each is about, and its step
    read,      \* messages whose read_ts is set
    acked,     \* messages WhatsApp was sent a receipt for
    watch,     \* watcher -> its stream, its queue of events, its reloads of the
               \* chat list, what it shows; history: what went wrong since a nudge
    arrived,   \* history: messages delivered so far
    errors     \* history: failed AddMessage calls

pipeVars == <<shell, loop, cancelled, channel, hand, messages, receipts, read, acked,
              watch, arrived, errors>>

\* Mutant: the nudge goes out before the message is stored.
HandleNudgingFirst == <<"publish", "store", "touch">>

\* handleInbound's steps that other goroutines can see between.
Handle == <<"store", "publish", "touch">>

Following(step) == Handle[1 + CHOOSE i \in 1 .. 2 : Handle[i] = step]

\* Event types by what app.js does with them: "message", "history_batch" and
\* "wa_connected" reload the chat list, every other one leaves it alone.
Nudges == {"chats", "other"}

NoLoad == [at |-> "free", of |-> {}]
NoWatcher == [at |-> "gone", queue |-> <<>>, due |-> FALSE, loads |-> [k \in Loads |-> NoLoad],
              seen |-> {}, missed |-> {}]
Resting == [event |-> NoEvent, at |-> "none"]
Stored == {messages[i] : i \in DOMAIN messages}
Waits(w) == \E i \in DOMAIN w.queue : w.queue[i] = "chats"

PipelineInit ==
    /\ shell = "serving"
    /\ loop = [l \in Loops |-> "select"]
    /\ cancelled = {}
    /\ channel = <<>> /\ hand = Resting /\ messages = <<>>
    /\ receipts = {} /\ read = {} /\ acked = {}
    /\ watch = [w \in Watchers |-> NoWatcher]
    /\ arrived = 0 /\ errors = 0

-----------------------------------------------------------------------------
(* whatsmeow's event handler. *)

\* handleMessage: never blocks; a full channel drops the message.  A message
\* seen before may be delivered again, as after a history sync.
Arrives(e) ==
    /\ shell \in {"serving", "draining", "stopping"}
    /\ e \in 1 .. arrived + 1 /\ e \in Events
    /\ arrived' = IF e > arrived THEN e ELSE arrived
    /\ channel' = IF Len(channel) < InboundBuffer THEN Append(channel, e) ELSE channel
    /\ UNCHANGED <<shell, loop, cancelled, hand, messages, receipts, read, acked, watch, errors>>

-----------------------------------------------------------------------------
(* The inbound loop. *)

\* A select with an ended context and a waiting message may choose either.
Take ==
    /\ loop["inbound"] = "select" /\ channel # <<>>
    /\ channel' = Tail(channel)
    /\ IF Head(channel) \in Foreign THEN UNCHANGED <<loop, hand>>
       ELSE /\ loop' = [loop EXCEPT !["inbound"] = "work"]
            /\ hand' = [event |-> Head(channel), at |-> Handle[1]]
    /\ UNCHANGED <<shell, cancelled, messages, receipts, read, acked, watch, arrived, errors>>

\* AddMessage inserts or ignores; only its success is followed by a nudge.
Store(ok) ==
    /\ hand.at = "store"
    /\ IF ok
       THEN /\ messages' = IF hand.event \in Stored THEN messages ELSE Append(messages, hand.event)
            /\ hand' = [hand EXCEPT !.at = Following("store")]
            /\ UNCHANGED errors
       ELSE /\ errors < MaxStoreErrors /\ errors' = errors + 1
            /\ hand' = [hand EXCEPT !.at = "touch"]
            /\ UNCHANGED messages
    /\ UNCHANGED <<shell, loop, cancelled, channel, receipts, read, acked, watch, arrived>>

\* Publish never blocks: a subscriber whose buffer, shared by all types, is
\* full misses this event.  One dropped behind another of its kind is not missed.
Nudged(w, nudge) ==
    IF w.at = "gone" THEN w
    ELSE IF Len(w.queue) < BusBuffer THEN [w EXCEPT !.queue = Append(@, nudge)]
    ELSE IF nudge = "chats" /\ ~Waits(w) THEN [w EXCEPT !.missed = @ \cup {"dropped"}]
    ELSE w

Publish ==
    /\ hand.at = "publish"
    /\ hand' = [hand EXCEPT !.at = Following("publish")]
    /\ watch' = [w \in Watchers |-> Nudged(watch[w], "chats")]
    /\ UNCHANGED <<shell, loop, cancelled, channel, messages, receipts, read, acked, arrived, errors>>

\* The adapter and the draft handlers publish to the same subscribers.
PublishElsewhere(nudge) ==
    /\ shell # "closed"
    /\ watch' = [w \in Watchers |-> Nudged(watch[w], nudge)]
    /\ UNCHANGED <<shell, loop, cancelled, channel, hand, messages, receipts, read, acked,
                   arrived, errors>>

\* TouchChat, SyncRouterMode, the queue depth and the mood.
Settle ==
    /\ hand.at = "touch"
    /\ hand' = Resting
    /\ loop' = [loop EXCEPT !["inbound"] = "select"]
    /\ UNCHANGED <<shell, cancelled, channel, messages, receipts, read, acked, watch, arrived, errors>>

-----------------------------------------------------------------------------
(* The other loops, whose work is modelled elsewhere. *)

Work(l) ==
    /\ l # "inbound"
    /\ \/ loop[l] = "select" /\ loop' = [loop EXCEPT ![l] = "work"]
       \/ loop[l] = "work" /\ loop' = [loop EXCEPT ![l] = "select"]
    /\ UNCHANGED <<shell, cancelled, channel, hand, messages, receipts, read, acked, watch,
                   arrived, errors>>

Context(l) == IF l \in PipelineLoops THEN "pipeline" ELSE "main"

\* The context has ended and the loop is back at its select.
Exit(l) ==
    /\ loop[l] = "select" /\ Context(l) \in cancelled
    /\ loop' = [loop EXCEPT ![l] = "off"]
    /\ UNCHANGED <<shell, cancelled, channel, hand, messages, receipts, read, acked, watch,
                   arrived, errors>>

-----------------------------------------------------------------------------
(* Read receipts. *)

\* get_messages hands what it returned to Controller.MarkRead, which ignores it
\* once Stop was called.
Retrieve ==
    /\ shell \in {"serving", "draining"}
    /\ Stored \ read # {} /\ Cardinality(receipts) < MaxReaders
    /\ receipts' = receipts \cup {[of |-> Stored \ read, at |-> "delay"]}
    /\ UNCHANGED <<shell, loop, cancelled, channel, hand, messages, read, acked, watch, arrived, errors>>

\* The delay is over: an ended context or the kill switch drops the receipts,
\* and so does a failed call.
Receipt(r, sent) ==
    /\ r \in receipts /\ r.at = "delay"
    /\ sent => "pipeline" \notin cancelled
    /\ receipts' = (receipts \ {r}) \cup (IF sent THEN {[r EXCEPT !.at = "sent"]} ELSE {})
    /\ acked' = IF sent THEN acked \cup r.of ELSE acked
    /\ UNCHANGED <<shell, loop, cancelled, channel, hand, messages, read, watch, arrived, errors>>

\* SetRead: nobody waits for this goroutine, so the store may be closed by now.
SetRead(r) ==
    /\ r \in receipts /\ r.at = "sent"
    /\ receipts' = receipts \ {r}
    /\ read' = IF shell = "closed" THEN read ELSE read \cup r.of
    /\ UNCHANGED <<shell, loop, cancelled, channel, hand, messages, acked, watch, arrived, errors>>

-----------------------------------------------------------------------------
(* The dashboard: GET /api/events and app.js. *)

PageTurns(w, page) ==
    /\ watch' = [watch EXCEPT ![w] = page]
    /\ UNCHANGED <<shell, loop, cancelled, channel, hand, messages, receipts, read, acked,
                   arrived, errors>>

\* The handler subscribes before the response begins.
Subscribe(w) ==
    /\ shell = "serving" /\ watch[w].at = "gone"
    /\ PageTurns(w, [watch[w] EXCEPT !.at = "opening"])

\* onopen: refreshEverything.
Opened(w) ==
    /\ watch[w].at = "opening"
    /\ PageTurns(w, [watch[w] EXCEPT !.at = "open", !.due = TRUE, !.missed = {}])

\* The handler writes the event to the stream; REFRESH_ON decides whether the
\* debounced reload of the chat list is due.
Notice(w) ==
    /\ watch[w].at = "open" /\ watch[w].queue # <<>>
    /\ PageTurns(w, IF Head(watch[w].queue) = "chats"
                    THEN [watch[w] EXCEPT !.queue = Tail(@), !.due = TRUE, !.missed = {}]
                    ELSE [watch[w] EXCEPT !.queue = Tail(@)])

\* loadChats asks, for the timer or after something the owner did; nothing
\* keeps a second request from leaving before the first is answered.
Reload(w, k, timer) ==
    /\ watch[w].at # "gone" /\ watch[w].loads[k].at = "free" /\ (timer => watch[w].due)
    /\ PageTurns(w, [watch[w] EXCEPT !.due = @ /\ ~timer, !.loads[k] = [at |-> "sent", of |-> {}]])

\* The server reads the chats.
ReadChats(w, k) ==
    /\ watch[w].loads[k].at = "sent"
    /\ PageTurns(w, [watch[w] EXCEPT !.loads[k] = [at |-> "read", of |-> Stored]])

\* The answer is shown whatever was shown before: no sequence guards it.
ShowChats(w, k) ==
    LET of == watch[w].loads[k].of IN
    /\ watch[w].loads[k].at = "read"
    /\ PageTurns(w, [watch[w] EXCEPT !.loads[k] = NoLoad, !.seen = of,
                       !.missed = IF of = Stored THEN {}
                                  ELSE IF watch[w].seen \subseteq of THEN @
                                  ELSE @ \cup {"overtaken"}])

\* The request fails; the debounced call has no catch and nothing repeats it.
LoadFails(w, k) ==
    /\ watch[w].loads[k].at # "free"
    /\ PageTurns(w, [watch[w] EXCEPT !.loads[k] = NoLoad, !.missed = @ \cup {"failed"}])

\* The stream ends; the page, its timer and its requests stay.
Unsubscribe(w) ==
    /\ watch[w].at # "gone"
    /\ PageTurns(w, [watch[w] EXCEPT !.at = "gone", !.queue = <<>>])

-----------------------------------------------------------------------------
(* The shell. *)

ShellGoes(from, to) ==
    /\ shell = from /\ shell' = to
    /\ UNCHANGED <<channel, hand, messages, receipts, read, acked, watch, arrived, errors>>

\* runTrayOrWait returns; the HTTP servers stop, open streams after the timeout.
Quit == ShellGoes("serving", "draining") /\ cancelled' = {"main"} /\ UNCHANGED loop

\* Controller.Stop: running is false, the pipeline's context ends.
Stop == ShellGoes("draining", "stopping") /\ cancelled' = {"main", "pipeline"} /\ UNCHANGED loop

\* Mutant: Run returns with the inbound loop.
RunEndsEarly == loop["inbound"] = "off"

\* Run returns when both of its loops have.
RunEnds == \A l \in PipelineLoops : loop[l] = "off"

\* <-doneCh, then gw.Stop.
Stopped == RunEnds /\ ShellGoes("stopping", "joining") /\ UNCHANGED <<loop, cancelled>>

\* bg.Wait, then the deferred CloseStore.
CloseStore ==
    /\ \A l \in ShellLoops : loop[l] = "off"
    /\ ShellGoes("joining", "closed") /\ UNCHANGED <<loop, cancelled>>

PipelineNext ==
    \/ \E e \in Events : Arrives(e)
    \/ Take \/ Publish \/ Settle
    \/ \E ok \in BOOLEAN : Store(ok)
    \/ \E l \in Loops : Work(l) \/ Exit(l)
    \/ Retrieve
    \/ \E r \in receipts : SetRead(r) \/ \E sent \in BOOLEAN : Receipt(r, sent)
    \/ \E nudge \in Nudges : PublishElsewhere(nudge)
    \/ \E w \in Watchers : Subscribe(w) \/ Opened(w) \/ Notice(w) \/ Unsubscribe(w)
    \/ \E w \in Watchers, k \in Loads :
          \/ \E timer \in BOOLEAN : Reload(w, k, timer)
          \/ ReadChats(w, k) \/ ShowChats(w, k) \/ LoadFails(w, k)
    \/ Quit \/ Stop \/ Stopped \/ CloseStore

PipelineSpec == PipelineInit /\ [][PipelineNext]_pipeVars
-----------------------------------------------------------------------------
Pages == [at : {"gone", "opening", "open"}, queue : Seq(Nudges), due : BOOLEAN,
          loads : [Loads -> [at : {"free", "sent", "read"}, of : SUBSET Events]],
          seen : SUBSET Events, missed : SUBSET {"dropped", "failed", "overtaken"}]

PipelineTypeOK ==
    /\ shell \in {"serving", "draining", "stopping", "joining", "closed"}
    /\ loop \in [Loops -> {"off", "select", "work"}]
    /\ cancelled \subseteq {"main", "pipeline"}
    /\ channel \in Seq(Events) /\ Len(channel) <= InboundBuffer
    /\ hand \in [event : Events \cup {NoEvent}, at : {"none", "store", "publish", "touch"}]
    /\ messages \in Seq(Events \ Foreign)
    /\ receipts \subseteq [of : SUBSET Events, at : {"delay", "sent"}]
    /\ read \subseteq acked /\ acked \subseteq Stored
    /\ \A w \in Watchers :
          /\ watch[w] \in Pages
          /\ Len(watch[w].queue) <= BusBuffer
    /\ arrived \in 0 .. MaxArrivals /\ errors \in 0 .. MaxStoreErrors

\* What will still bring the page up to date.
Coming(w) ==
    \/ hand.at = "publish" \/ Waits(w) \/ w.due
    \/ \E k \in Loads : w.loads[k].at = "sent" \/ (w.loads[k].at = "read" /\ w.loads[k].of = Stored)

\* A page that listens and shows too little has a nudge waiting or on its way,
\* or a reload; what leaves it behind is a nudge dropped behind events of other
\* kinds, a reload that failed or one overtaken by a later one, and only until
\* it takes the next nudge (app.js loadChats, debounce, REFRESH_ON).  So a
\* dropped event is a loss where eventbus.go says "never a correctness problem":
\* nothing polls the chat list.
NudgeNotLost ==
    \A w \in Watchers :
        watch[w].at = "open" /\ watch[w].seen # Stored /\ watch[w].missed = {} => Coming(watch[w])

\* No loop is in the middle of its work once the store is closed (pipeline.go
\* Run, Controller.Stop, main's bg.Wait).
StoreOutlivesLoops == shell = "closed" => \A l \in Loops : loop[l] = "off"
=============================================================================
