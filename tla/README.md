# piumy-gateway: TLA+ models and proofs

piumy-gateway is a Go process that puts AI agents behind a WhatsApp account. A
person writes; the gateway stores the message and, on a five-second sweep,
pushes the chat to the terminal of the agent in charge; the agent pulls its
instructions, proves that it read them, and answers with a tool call; the answer
waits in an outbox, in front of a rate limiter and an emergency stop, until one
loop sends it.

This directory holds TLA+ models of the parts of that program that keep state
under concurrency, restarts and failures, TLC configurations that check them,
and TLAPS proofs. Paths below are relative to the repository; "the map" is the
table of `PROJECT.json` that names, for every definition, the lines it models.

```
cd tla
tlc -workers 2 -config MCGate_uses.cfg MCGate    # any run
tlapm GateProofs.tla                             # the proofs
```

## 1. The system: parts, state, operations

| part | state it keeps | operations | what makes it correct |
|---|---|---|---|
| dispatch gate (`internal/mcpserver/gate.go`) | one `dispatch` object per push, in two maps, by nonce and by terminal; the staleness window | register, cancel, sweep, get_instructions, unlock, remember/skip, consume, set window | the two maps agree; a tool is allowed only after the ritual of *this* dispatch; every live dispatch can be reclaimed |
| push, capipush (`internal/capipush/capipush.go`) | debounce, redispatch counts, backoff times, antennas by terminal, notices (all in memory) | the sweep, dispatch of one chat, antenna (un)registration, channel-down notices | every due chat is eventually pushed; a chat is never pushed to two agents at once; nothing is retried without bound |
| send tools (`mcpserver/send.go`, `send_to_boss.go`, `levelgate.go`) | none of their own | send_message, draft, silent_act, send_to_boss | one answer per dispatch; only what was shown to the agent is marked handled |
| outbox drain (`corepipeline/outbox.go`, `store/outbox.go`) | rows with status, retries, next retry | enqueue, tick, defer, pace, compose, send, mark, retry, dead-letter | each message ends up sent or dead; bounded tries; order; no needless duplicate |
| governor (`governor/governor.go`) | token bucket, count of today, kill flag | allow, seed, kill, set limits | the daily cap survives restarts |
| emergency stop (REST, MCP, adapter, `main.go`) | a persisted setting and two volatile flags | set_kill_switch, trip on a ban, restore at boot | a stop that was confirmed holds until it is revoked |
| pending messages (`store/pending.go`, `message.go`) | messages, `handled` marks | PendingDedicated, MarkHandledBefore, MarkPendingBefore | no message is lost between arrival and a push |
| drafts (`store/draft.go`, `restapi/admin.go`) | drafts with status, round and burst; the marks on the chat's messages | the draft tool's three writes, approve, discard, reject, reopen | what reads approved was queued; a thread of rejections ends and carries its reason |
| chat level (`store/chat.go`, `restapi/admin.go`) | the columns a level is read from, who set them, the two defaults | touch, default, set level, ignore, assign, mark the owner | no default overrides an owner's decision; a chat switched on starts from now |
| claims and agent count (`store/chat.go`, `mcpserver/server.go`) | `claimed_by`, `claimed_until`; sessions of the tracker | claim, release, expire; seen, sweep, publish | one agent at a time holds a chat; nobody is shown when nobody is there |
| inbound pipeline, event bus, shell (`corepipeline/`, `eventbus/`, `main.go`) | a bounded channel, subscriber buffers, contexts, the loops that are running | store, nudge, read receipts, subscribe, stop, close | when the dashboard's chat list may stay behind; the store outlives its users |
| WhatsApp link and display state (`whatsmeow/adapter.go`, `inbound.go`, `state/state.go`) | device store, socket, pairing round, `status.json`, reaction generation | pair, connect, lose, log out, react, mute | one pairing round; connected is said only of a linked account; a stale timer changes nothing |
| media (`whatsmeow/media.go`, `history.go`, `store/media.go`) | `media`, `media_pending`, claims in flight | live download, capture, background worker, on-demand burst, failure | a reference is kept until its file is; every reference ends |
| avatars (`whatsmeow/avatar.go`, `store/avatar.go`) | rows, files, a queue | request, check, store, wipe | WhatsApp is asked once a window |
| identities (`store/reconcile.go`) | chats and everything that refers to them, under two addresses | deliver, resolve, rename, merge | nothing is lost or counted twice; hidden chats merge |
| agents (`restapi/admin.go`, `mcpserver/admin_tools.go`, `capipush`) | rows, injectors in memory, routes | create, register, update, assign, delete | rows, routes and injectors agree about who exists |
| agent antenna (`capipush/clever_injector.go`) | configuration, session, dead flag; three settings | configure, inject, handshake, renew | a push reaches the configured terminal; a live antenna is not discarded; the session heals |
| sign-in and recovery (`restapi/auth.go`, `recover.go`) | password, session secret, one recovery code | seed, sign in, change, recover | a changed password stands and ends every session; a code works once |
| anti-flood guard (`mcpguard/`) | two buckets, a streak and a cool-down per client | check, sweep | the limit is not doubled; a cool-down is served |
| session backup (`sessionbackup/`) | snapshot, partial and finished files | snapshot, write, rename, rotate | what looks like a backup is one, up to a power failure; the newest stay |
| router, store schema, settings, usage, auto-reply worker and bridge, discovery, REST and MCP plumbing, dashboard, e-paper display, tray, installer | tables, files, settings | reads and single writes | no interleaving of their own |

Interactions. The adapter calls the pipeline for each event; the pipeline writes
the store and nudges the dashboards. The sweep reads the store, asks and writes
the gate, calls an antenna over HTTP, and writes the store again. Tool calls
arrive on goroutines of their own, read the gate twice, write the store and the
gate. Drafts reach the outbox when the owner approves them, and reopen messages
for the sweep when the owner does not. The outbox loop is the only sender. REST
handlers, MCP tools and the adapter all write the emergency stop. `main.go`
seeds the governor and restores the stop before the loop starts, and ends every
loop before it closes the store.

Hard behaviour, with the line where each case bites, is listed in
`PROJECT.json` under "hazards".

## 2. Modules

| module | models |
|---|---|
| `Gate` | the dispatch gate, under anybody's calls and under the push's |
| `Turn` | the abstract gate: what the rest of the gateway relies on |
| `Dispatch` (extends `Turn`) | arrivals, the sweep and its push, tool calls step by step |
| `KillSwitch`; `Outbox` (extends it) | the emergency stop, write by write; the drain, the governor, boot and shutdown, reset |
| `Courier` | the abstract promise the outbox implements |
| `Drafts` | drafts from the agent's tool to the owner's decision, statement by statement |
| `ChatLevel` | who decides how a chat is attended |
| `Identities` | one person under two addresses, and the merge |
| `Media` | files and the references they are downloaded from later |
| `Avatars` | profile pictures: the queue, the window, the file and the row |
| `Link` | pairing, connection, logging out, and the status that tells of them |
| `Pipeline` | inbound channel, event bus, read receipts, shutdown |
| `Agents` | registry, injectors and routes of the secondary agents |
| `Antenna` | the principal's session with its terminal |
| `Sessions` | dashboard password, session secret, recovery code |
| `FloodGuard` | the limits on what a connected agent may call |
| `Presence` | claims on chats and the agent counter |
| `Backup` | the rotated backups |
| `GateProofs`, `GateRefinement`, `DispatchProofs`, `OutboxProofs` | theorems about the gate, the push and its answers, the outbox |
| `AdapterProofs` | ... about `Link`, `Media`, `Avatars`, `Identities`, `Pipeline` |
| `OwnerProofs` | ... about `ChatLevel`, `Drafts`, `Sessions`, `Backup` |
| `AgentsProofs` | ... about `Agents`, `Presence`, `Antenna`, `FloodGuard` |
| `PartsProofs` | that `MCParts` behaves as each of those thirteen |
| `MCGate`, `MCOutbox`, `MCDispatch`, `MCParts` | instances for TLC |

### Gate

`heap` holds the `*dispatch` objects by address (`Ids`), because the two Go maps
share them and what can go wrong is the sharing; `byNonce`, `byTerminal` and
`staleAfter` are the fields of `Gate`. An object neither map refers to is
garbage, its cell is cleared and may be allocated again. Every method holds
`Gate.mu` throughout, so each is one action: `RegisterDispatch` (with the inline
sweep and the removal of the terminal's previous nonce), `CancelDispatch`,
`Sweep`, `GetInstructions`, `Unlock`, `AdvanceToReady` (remember and skip),
`Consume`, `SetStaleAfter`. A call that is refused changes nothing and is left
out as an action. Time is the idle time of each dispatch, in ticks, saturating
one past the largest window, since `sweepLocked` only compares it with
`staleAfter`.

Three next-state relations share the actions. `Next` lets anybody do anything:
safety is checked and proved under it. `PushNext` is capipush's discipline: one
goroutine registers, after `InFlight` and with a nonce not in `byNonce`.
`FreshNext` adds that the nonce is not one a terminal is still bound to.
`MCGate` checks both uses in one run: its variable `use` says who calls.

### Turn and Dispatch

`Turn` is the gate as the others see it: a function from terminals to the turn
each has (chat, level, newest timestamp of the burst, and locked, ready or done)
or to `NoTurn`. `Bind` registers and sweeps, `Release` cancels or sweeps, `Open`
finishes the ritual, `Use` consumes. `Gate` implements it.

`Dispatch` puts three kinds of goroutines around it. *Arrivals* (`Arrive`, from
`handleInbound`) store messages, each with a timestamp, perhaps late, and, in the
boss's chat, perhaps quoting an agent's message. *The sweep* is one goroutine
whose program counter and locals are `push`: `Snapshot` reads the window, prunes
the books and looks at the backpressure; for one chat after the other it either
`Hold`s it, tells its sender that the agent is unreachable
(`NotifyUnreachable`), or goes from `InFlight` to `RegisterDispatch`
(`Register`), hands the push to the antenna (`Deliver`) and keeps its books
(`InjectOk`, `InjectFails`, `InjectGone`). *Tool calls* are records with the step
they take next, in the order each tool takes them (`After`): `Look` (the second `gate.Active`),
`Post` (the outbox row or the draft), `Consume`, `Mark` and `MarkOther`; no lock
holds two of them together, so anything may come between. `Restart` ends the
process anywhere. `Write` says that a database write fails as a mishap.

What is abstracted: time is a few seconds, enough for the debounce, its bypass
and the backpressure window to matter; the backoff's length is left open (a chat
with an earlier push may be held or not); every chat is active and has rules;
calls that are refused for other reasons (policy version, claim, whitelist,
mute) do nothing and are left out; an agent can finish the ritual only for a turn
whose push it received, since it needs its nonce. `shown`, `excused`, `posted`,
`told`, and the fields `own` and `answers` of a call are history: only properties
and what an agent can know read them.

### KillSwitch, Outbox, Courier

`KillSwitch` has the persisted `setting`, the volatile `kill` and `muted`, and
one three-write request per owner (`Ask`, `Persist`, `Govern`, `Mute`), the
adapter's two-write `Trip`, `KillDown` and `KillUp`. `brake` and `banned` record
what was asked and what happened; no action reads them.

`Outbox` adds the table `rows` (a status, a retry count, and whether
`next_retry_ts` lies ahead), the governor's record `gov`, and `loop`, the program
counter of `processOutbox`: `Tick` takes the batch, `Defer` gives it up, `Pace`
charges the governor, `Compose` looks at the stop again after the delay, `Send`
calls the network, `MarkSent`, `AddMessage` and `RetryOrDeadLetter` are the
database writes. `Down` and `Boot` end and start the process at any point.
Writes fail, acknowledgements get lost, the connection drops, midnight passes, a
reset empties the tables, an account is banned: each at most as often as the
scenario chosen in the first state says. The history variables count what no row can tell afterwards.

`Courier` is what a producer may rely on: a posted letter is tried at most
`MaxTries` times on the record and ends up delivered or failed, and neither is
taken back. The refinement maps a row to a letter, and its retries to the
failures counted.

### The smaller components

Each of the thirteen modules below has its own `Init`, `Next`, `Spec`, type
invariant and properties, and shares no variable with the others.

`Drafts`: every SELECT and UPDATE is a step, so approvals, rejections, discards,
the draft tool, new messages and the end of the process fall between them. The
chat's messages are numbers, `handled` the marks; `created_ts` is the whole
second, and which of two rows of one second is newest is left open, as SQLite
leaves it. `RejectionsHold` excepts what the code gets wrong under overlap:
once drafts of a chat overlap, share a second, or are decided twice (`muddled`), a thread of
rejections may pass its limit and a reason may be lost (draft.go:199-206).

`ChatLevel`: the row keeps the columns `ConfigLevel` reads. A request of the
owner is the list of its writes; another request, a default being applied
(`ReadOrigin`, `ApplyDefault`) and a failure come between any two. The default
is written without a condition, so a request that ran meanwhile is not clean,
and the properties except it.

`Identities`: one person, the messages stored under each address and what was
metered. Renaming and merging are one transaction each, decided by a look
outside it; when the number's chat appears in between, the rename fails on the
primary key and the next pass merges.

`Media`: `waiting` maps each kept reference to its failed attempts. A download
is five steps (claim, file, row, drop the reference or record the failure), in
the order of the deferred release: a failure is counted after the claim is
given back. A failure that cannot be counted (`RecordLost`) is one of the bounded
mishaps: a disk that refuses every write would have one file tried for ever. The
on-demand burst goes on while the account is offline and ends when the stop is
set, as `FetchPendingMedia` does. `Avatars`: one worker; the queue mark is removed before the paced
delay, the answer is recorded after it. A download that fails does not begin a
new window, and `AskedOnce` excepts it.

`Link`: events wait in order between whatsmeow and `handleEvent`; a pairing
round is a goroutine; a reaction's timer carries the generation it was made in.
A code-initiated logout emits no event and tells the status itself; an event
that it overtakes (`raced`) may leave a wrong status and is excepted. `main`
shows a QR code without a new generation, the one mood a stale revert can take
off the face.

`Pipeline`: a full channel drops; the loop stores, publishes and touches. A
dashboard's buffer is shared by events of all types, and the page acts on the
type: what is modelled of it is the chat list, the one view that no timer
refreshes (app.js:2213-2215). Events are of two kinds, those that make it due
for a reload (`message`, `history_batch`, `wa_connected`) and all others, which
fill the same buffer. A reload leaves, is read by the server and shown in three
steps; several may be out at once, any may fail, and the last answer wins,
since app.js:383-390 has no sequence guard. `missed` records what that makes of
a page: a nudge dropped behind other events, a failed reload, one overtaken.
The open conversation is not modelled: it is reloaded on its own chat's events,
and by a poll of its popup (app.js:1556-1584). The shell cancels, waits and
closes in the order of `main.go`. The `MarkRead` goroutines, which nobody joins
(pipeline.go:147-153 promises it for the two loops only), may find the store
closed; their mark is then lost. The adapter's own workers
(adapter.go:423-437), which nobody joins either, are outside `Loops`.

`Agents`: every request is the list of its statements. `crossed` names agents
two requests were about at once and chats routed by set_chat_status, which takes
`agent_exclusive:<id>` unchecked; the properties except them. `Antenna`: the
lock is never held during an HTTP request, so a call works on a snapshot. A
reconfiguration under a call (`swapped`) may end with the old terminal's session
or mark the new configuration dead, and is excepted. A pinpass has an issue: it
dies with the switch of its antenna, the handshake with a dead one is refused
like one with an antenna that is off, and the session heals only once the next
pinpass has been entered. Whether the terminal's side keeps its sessions over a
switch is not to be seen from here and left to `Forget`. `Sessions`: the three
doors to a new password, the secret each rotates in a second write, and the
recovery code under concurrent requests. `FloodGuard`: a tick is the time an
emit token takes to grow back. `Presence`: the two writers of the agent count
publish after they let go of the lock. `Backup`: the process may end before,
after or within any file operation; names grow with the clock. A power failure
(`PowerFails`) is worse than the end of the process (`Cut`): nothing is synced,
so of the names in `dirty` any may have lost its data, its rename, or both. That
a removal is undone, and one old file more stays until the next rotation, is not
modelled.

## 3. Runs

| run | instance | shows |
|---|---|---|
| `gate` | 2 terminals, 2 nonces, 2 tokens, 3 objects, window 1; anybody's calls, or the push with fresh nonces | under any caller: the indices agree, the checkpoint cannot be skipped, readiness comes only from the ritual, a used dispatch stays bound, the gate implements `Turn`; used by the push: every in-flight dispatch is reachable by the sweep, and a silent agent's terminal is freed again and again |
| `gate_nonce_reuse` | 2 nonces, the push as it is | a violation: see below |
| `outbox_delivery` | 3 rows (one without an address), 2 tries, batches of 2, one crash, failed write, lost connection, reset | the outbox implements `Courier`; resends and duplicates never exceed the results lost; no row is overtaken |
| `outbox_rules` | either 4 rows, cap 1, two crashes, one midnight, reset, failed write; or 2 rows, 2 concurrent requests for the stop, one crash, ban, failed write | the daily cap holds up to what the count cannot know of; a confirmed stop lets no further message be started |
| `outbox_reset` | 2 rows, cap 1, one crash, one reset | a violation: see below |
| `outbox_ban` | 2 rows, one owner, one crash, one ban | a violation: see below |
| `dispatch_safe` | 2 messages, 2 chats, 2 terminals, 2 pushes per anchor, one agent's calls, one mishap (late arrival, failed push, restart, failed write) | one answer per turn; no message closed unseen, but for the exceptions the property names |
| `dispatch_live` | the same with antennas configured and removed as a mishap, one push per anchor, fair | every message is pushed to somebody or dealt with |
| `dispatch_reply` | 2 messages, calls of the principal, no mishap | a violation: see below |
| `dispatch_twice` | 1 message, two calls of one agent at once, no mishap | a violation: see below |
| `parts` | drafts, levels, link, agents, sessions, guard, avatars, pipeline, pages, backup, presence | one safety property or two of each, named in section 2 |
| `parts_live` | identities, media, antenna, fair | nothing is lost, and what must end ends |

`MCParts` puts thirteen modules into one specification: the first state chooses a
part and only its variables change, so the state graph is the disjoint union of
theirs (about 1 030 000 states for `parts`, 230 000 for `parts_live`). A property of one
module holds there exactly if it holds of the module alone. `Pipeline` is the one module
run in two slices, for their product is too large: as "pipeline" with no page open,
and as "pages" with a dashboard while the process serves.

### Disagreements between the code and its comments

* `gate_nonce_reuse`. `newNonce` looks for collisions in `byNonce` only. A
  finished dispatch has left `byNonce` while its terminal is still bound to it.
  If its nonce is drawn for a second terminal, the first terminal's next
  registration deletes that nonce, and with it the second terminal's live
  dispatch from `byNonce`; the staleness sweep, which the comment says reclaims a
  terminal "regardless of what any terminal is doing", walks `byNonce` and never
  sees it. With 65536 nonces it is rare; the consequence lasts until a restart.
* `outbox_reset`. The reset empties `messages`, from which the daily count is
  seeded at boot, so a restart after a reset forgets what was sent today.
* `outbox_ban`. A ban trips the stop in memory only; a restart releases it
  although "sends must stop until the owner intervenes".
* `dispatch_reply`. Whatever the principal sends to a chat marks everything in it
  handled "up to now". The boss's reply to another agent's message lies in the
  same chat and waits out the debounce; if the principal writes to the boss
  meanwhile, the reply is closed: it reaches no agent and no notice is sent,
  although "siempre que el boss responda a un mensaje de agente is boss le llega
  a ese terminal".
* `dispatch_twice`. "One-shot: a sent dispatch can never be replayed" holds for
  calls made one after the other. Two calls of one terminal in parallel both
  pass the check of `validateSend` before either reaches `Consume`, and both
  answers are queued.

Others, for which there is no run; the first three are exceptions that a checked
property needs.

* "A dropped event is never a correctness problem" (eventbus.go:9-11), since the
  subscriber polls anyway. The subscriber there is, the dashboard, polls the
  status, the drafts and the agents, never the chat list: a message whose nudge
  is dropped behind events of other types is not shown until the next one
  (`NudgeNotLost`, "dropped").
* "A power cut mid-write must never leave a half-written, corrupt backup
  masquerading as a complete one" (sessionbackup.go:238-241), but neither the
  file nor the directory is synced: the rename may reach the disk before the
  data does (`BackupsStand`, `Excused`).
* `SetConfig` "forces a re-handshake on the next Inject call" and is "safe to call
  concurrently with Inject" (clever_injector.go:72-74). A handshake that began
  before it stores the old terminal's token after it; the next dispatch goes to
  the terminal that was replaced (`AntennaHolds`, `swapped`).

set_kill_switch "halts ALL outbound
WhatsApp sends immediately", but the message already being composed still goes
out, since the loop does not look again after the composing delay. `StopHolds`
states the guarantee with that exception. "Partir de 0" empties the media
directory, avatars included, but leaves the rows of `avatars`
(admin.go:1453-1454, store/avatar.go:5-9), so pictures stay missing until their
window has passed. A full inbound channel drops the message before it is stored,
while adapter.go:59-63 says a dropped one is found again through the store.

### Bounds, and why they are enough

The gate's defects need two dispatches to share a terminal or a nonce while a
third is being registered: two terminals, three objects, two nonces.
A window of one tick separates fresh, at the window, and stale. One chat and one
burst suffice, because no action looks at either; the proofs cover every size.

In the outbox, three rows with batches of two give a full batch, a partial one
and a row left for the next tick; two tries give a first failure, a retry and a
dead letter. One mishap of each kind, at any step, covers every single failure;
the daily scenario has two restarts, since the second seed must count what the first
run and the second sent. Every counter is bounded by `MaxSeq`, `MaxRetry`,
`Burst` or the scenario, and nothing else bounds the behaviours. The
outbox runs allow deadlock (`CHECK_DEADLOCK FALSE`): when all rows are settled
and the mishaps are spent the system really has nothing left to do.

In `Dispatch`, two messages give a burst, a reply with an earlier message beside
it, two chats competing for one terminal, and a message that arrives while the
first is answered. Three seconds separate "in the debounce", "past it" and
"past its bypass"; messages stop arriving early enough for the last one to leave
its debounce before time stops. `MaxTrouble` is shared by all mishaps in
`Trouble`: one mishap of any kind at any point.

The parts, and what their bounds let happen: two drafts and two requests at once
(an approval racing a rejection, a draft overlapping another) with a crash and a
shared second, two rounds being the limit; every level, the two defaults, one owner's request against
one touch; two rounds of pairing codes, two events on their way, three
reaction generations (one shown, one stale, one on top); one agent, one chat and
two handlers, since requests about different agents touch different rows; two
password changes at once, two secrets, one code with two guesses; two emit tokens,
a block and a cool-down of two ticks within five, so that a window, a block and a
forgotten entry all fit; one contact and a queue of two; two messages, of
which one is foreign, one place in each buffer, one watcher and a failed
write, so that both buffers overflow (an event of the other kind is enough to
fill the watcher's) and a second reload for the one that overtakes;
four backups of which two are kept, one end of the process and one power
failure; two agents and claims of one or two ticks; three message ids with one
failure, two files of one chat with two attempts and two captures; two terminals, one
reconfiguration, one restart of the other side and one antenna switched on
again.

Symmetry is declared only in runs without a liveness property (`outbox_rules`
over the owners, `parts` over the owner's desks and a page's reloads).

### Fairness

`Gate`: weak fairness of `Tick` (time passes) and `Sweep` (a ticker goroutine
that `server.go` starts with the server). Nothing is assumed of agents, of the
push, or of the owner. `Outbox`: weak fairness of the loop (a goroutine with a
ticker), of the refill and the end of a backoff (time), of reconnecting (the
WhatsApp client reconnects by itself) and of starting the process again (it is
installed as an autostart program). Nothing is assumed of the answers of
WhatsApp: a `Send` that fails for ever ends in a dead letter.
`Dispatch`: weak fairness of the sweep (the goroutine of `Pusher.Run`), of `Tick`
(time), of each tool call once it was let through (a goroutine of the MCP
server), and of `Expire`, the gate's own sweep taking a turn away from an agent
that went silent. That last one is what `Gate!SilentTerminalFreed` says, which
holds with fresh nonces; the violation run `gate_nonce_reuse` shows the case in
which it does not. Agents owe nothing, and `EventuallySeen` excepts messages
while an antenna is missing. The window (`Limit`) is larger than the number of
messages: with `Limit` 1 and two messages the property is false, because a
message that reached its cap stays pending and occupies the window.

`Identities`: the reconciliation loop comes round again while the process runs.
`Media`: the background worker ticks, the account links again and the stop is
lifted, a download that began ends (every request has a timeout). `Antenna`: the
push tries again with every sweep, and each of its requests answers or times
out. Nothing is assumed of WhatsApp, of the terminals or of the owner, and
outages and failures are bounded by `MaxOutages`, `MaxFail`, `MaxRestarts`.

### Assumptions of the outbox model

Database reads succeed: at boot a failed read of the setting releases the stop
and a failed read of the count seeds 0, both logged, and are not modelled. The
limits (`SetMax`, `SetDailyMax`) are constants. A committed write survives the
end of the process (SQLite in WAL mode with synchronous=NORMAL may lose the last
transactions in a power cut; not modelled). A send's row, its charge and its
record are counted as of one local day each.

## 4. Theorems

For every set of terminals, nonces, tokens and objects and every window:

* `GateTypeCorrect`, `IndicesAgree`, `CheckpointHolds`: `Spec => []TypeOK`,
  `[]IndexConsistent`, `[]CheckpointPassed`.
* `RitualRequired`, `UsedDispatchStaysBound`: the two action properties.
* `FreshNoncesReclaimable`: `FreshSpec => []InFlightReclaimable`; and
  `PushesReclaimable`: `GateUses => []PushReclaims`, the form the run checks.

The argument is one inductive invariant, `GateInv`. `IndexConsistent` alone is
inductive given types. `CheckpointPassed` is not: an `unlock` that compares the
presented token with the dispatch's must know that a dispatch holding a token
was bound. `TokenMeansBound` says so of every live object, and that an object
below boss level that has left "locked" has a token. The action properties
follow from the invariant and one case per action. Reachability by the sweep is
inductive only with one more fact: no two bound terminals share a nonce, finished
dispatches included, which is exactly what fresh nonces give and `newNonce` does
not; the violation run shows that it cannot be dropped.

The assumptions are `GateAssumption`: the window is positive and the sentinels
are not members of the sets they complete. TLC evaluates it in every gate run.

`GateRefinement` proves that the gate implements `Turn`, `Spec => GivesTurns`, for
any caller: `Dispatch` sees the gate only through `Turn`, so what is checked of
it does not depend on nonces, tokens or the layout of the two maps. The
refinement mapping reads each terminal's turn off the object `byTerminal` binds:
its chat, level and burst, and whether it is locked (in any stage of the
ritual), ready or done. `SameTurn` says that a terminal's turn depends on its entry in
`byTerminal` and the object behind it only; `AgentTurns` and `BackgroundTurns`
have one case per action. The invariant is needed twice: that an object is bound to
one terminal (else a sweep or a consume would change two turns), and that a
nonce leads to a dispatch its terminal is bound to and that is unfinished (else
a cancel or a sweep would take away a used turn).

`DispatchProofs` proves about `Dispatch`, for every number of messages, chats,
terminals and calls under way:

* `DispatchTypeCorrect`: `Spec => []TypeOK`. The cap on pushes is part of it, and
  it is not inductive alone: `tries` is read in `Register` and counted in
  `InjectOk`, with the push between them. `SweepOK` says that the anchor of the
  burst being injected still has a push left (only the sweep counts, only a
  restart forgets) and that the messages of the snapshot exist; `CallsOK`, that
  silent_act has two steps. That a burst has a newest message
  (`NewestInBurst`) is proved by descent on timestamp and arrival.
* `OneAnswer`: `OneCallAtATime => (Spec => []OneAnswerPerTurn)`. The invariant
  `AnswerInv` ties three things of a terminal together (`Fits`): its call, its
  turn, and the answers counted for that turn. A call let through for the turn
  finds it ready until it uses it up and unanswered until it posts; an answered
  turn is done, or the call that answered it is about to use it. Losing the turn
  (expiry, a failed push, another push, a restart) disowns the call. The
  hypothesis, that no two slots belong to one terminal, is what agents do and the
  code does not enforce; the violation run `dispatch_twice` drops it.
* `ClosedSeen`: `Spec => []ClosedOnlySeen`. It is far from inductive, since a
  message is closed by a burst decided several steps earlier, by another goroutine.
  `SeenInv` follows the promise along the way. `Accounted(c, ts, B)` says that
  of chat `c`, up to the timestamp `ts` of a message that has arrived, everything
  was seen or excused or is still in the snapshot `B`, and that whatever comes
  later with such a timestamp is overtaken. `BurstsOK` says so of the snapshot
  of a sweep; `ToldOK`, with nothing left in hand, of a terminal whose push was
  completed; `HonestCalls`, of a call that answers such a turn. `BooksOK` is
  what makes it last: ids are drawn in order, and a message stamped no later than
  an earlier one of its chat is excused. A push that fails, a restart that
  forgets the turn, an expiry in the middle of a call each only remove premises.

All rest on `DispatchAssumption` only: bounds are natural numbers, at least one
push is allowed, routes lead to terminals, calls are made by terminals, and the
sentinels are not values of what they complete. TLC evaluates it in every
dispatch run.

`OutboxProofs` proves about `Outbox`, for every number of rows, owners,
retries, caps and mishaps, from `OutboxAssumption`:

* `OutboxTypeOK`.
* `OutboxNoResendLoop`, `OutboxNoDuplicate`, `OutboxFirstTriesInOrder`, from
  `QueueOK`. The retry count of the row, the tries in the history and the place
  of the loop determine one another only up to the results that were lost
  (`blurred`): `TriesOK` and `DeliveredOK` say how, stage by stage, and `OrderOK`
  that the loop keeps in hand every untried row older than one it has in hand.
* `OutboxDailyCap`, from `CapOK`. The cap speaks of what was sent today, the
  governor of what it let through, the record of what it will start from after
  a restart; the invariant bounds the first by each of the others, counting the
  message being composed and the one not yet recorded.
* `OutboxStopHolds`, an action property, from `StopOK`: an owner's request that
  overlaps no contrary one has its value in the setting, then in the governor,
  then in the status, in that order, so a boot between two writes restores it.
* `OutboxBanHolds`: `NoRestart => (Spec => BanHolds)`, and `OutboxCapSurvives`:
  `NoReset => (Spec => []CapSurvivesRestart)`. They name the cause of what the
  violation runs show: of all the mishaps only the restart undoes a ban, since the
  trip never wrote the setting a boot restores (`BanOK`), and only a reset of the
  messages makes a restart forget what went out (`NothingErased`). Both are
  hypotheses about which mishaps happen; all the others are left free.
* `OutboxImplementsCourier`: with each row read as a letter, the initial states
  are the courier's and every step is a step of one letter or none.
  `KeepsPromise` says more, that letters are delivered or given up under
  fairness; that half stays with TLC.

The smaller components, each from an inductive invariant and the assumption its
module states. `PartsAreParts` proves that what `MCParts` runs is a behaviour of
every component, so the theorems hold of the run too; `PartsTypes` gathers the
type invariants (`LinkTypeCorrect`, `AvatarsTypes`, `DraftsTypes` and so on).

* `MergeLosesNothing` (`Identities`): `NothingLost` is inductive given types;
  `MoveKeepsAll` says that the transaction moves messages and meters as they are,
  the dropped copies being those the number's side has. That the pass decided to
  rename or to merge on an older look is irrelevant to it, which is the point.
* `LinkIsTrue`, `RevertsAreCurrent` (`Link`). `ConnectedIsTrue` speaks of a
  link with no event on its way and is not inductive; `TruthComes` says what the
  status will say once those on their way are handled, which the last of them
  decides. `RoundsCounted` makes `pairingActive` the number of rounds, and
  `TimersPast` says that no timer is ahead of the generation.
* `KeptUntilStored` (`Media`): `FetchersOK` adds that a fetcher past its
  download has stored the file, so dropping the reference loses nothing, even if
  the other fetcher or a new capture touched the row meanwhile.
* `AvatarsAskFew` (`Avatars`): a contact that may be asked about again was not
  asked about (`Unasked`), and one mark covers the wait in the queue and the
  moment the worker takes it out (`Marked`), so no second hint slips in between.
* `PipelineNudges`, `PipelineStoreLast` (`Pipeline`): a page that is behind has
  a nudge or a reload coming, or the event that left it behind. Two facts make
  `NudgeNotLost` inductive: the loop is at work exactly while it has a message in
  hand (`HandFull`), so a message stored and not yet announced has its announcer;
  and an answer read holds messages that are stored (`LoadsSound`), so showing it
  leaves the page complete, coming up to date, or overtaken. The
  order of shutdown is `LoopsEnded`: whom each stage has waited for is away.
* `ChatLevelStands`, `ChatLevelFromNow` (`ChatLevel`): a request is up to five
  statements, and `KeptBoss` ... `KeptIgnored` say, for each level, what stands
  after the first n of them if nothing else was decided; the last n is
  `DecisionStands`. `Manual` is the heart of it: the row is the owner's and no
  default read earlier is still on its way. `ChatLevelFromNow` is the same
  invariant at the statement that activates.
* `DraftsApproved`, `DraftsRejections` (`Drafts`): approval needs that a desk past
  its second statement queued the row (`DesksSound`). The rejections need the
  whole history of a thread: while nothing overlaps, later drafts are younger
  (`InOrder`), only the last can be decided (`LastOnly`), a draft being written
  is alone (`WriterAlone`), and after a draft that sent the agent back every one
  is rejected or waits in a higher round (`Thread`). Then rounds are distinct and
  below `MaxDraftRounds`, and their number follows by the injection into
  `1 .. MaxDraftRounds - 1`.
* `SessionsChangeHolds` (`Sessions`): `SecretsGrow`, the secret in use is newer than
  every one a change met, and `CodesCounted`, a code still live was not accepted.
* `BackupStands` (`Backup`): what a rotation has listed for removal has `Keep`
  newer files that stay (`SurplusOld`); names grow, so a new file only helps. A
  power failure spoils or takes only what was not written back, and a backup is
  at every other step whole when it appears.
* `AgentsInStep` (`Agents`): `UnderWay` says what holds between two statements of
  the one request about an agent.
* `PresenceStands` (`Presence`): the last count under way when nobody is left is
  zero (`LastWordIsNobody`), or an older count would be the last published.
* `AntennaStands` (`Antenna`): a call, its session and the kept session all
  belong to the terminal configured, unless it changed under a call
  (`NothingStale`).
* `FloodGuardLimits` (`FloodGuard`): what was let through since any tick plus the
  tokens there are is at most one burst and what grew back (`TokensLeft`), for
  every starting tick; and a blocked client's entry is young enough not to be
  forgotten (`BlockKept`). The assumption says that within `StaleAfter` a whole
  burst grows back, which an hour allows for any rate, and that a block is no
  longer than it: the default is five minutes, but the code accepts a cooldown
  over an hour, and then a client that stays silent for an hour is let in early.
  It also takes the general rate to be a multiple of the emit rate (120 and 20 by
  default), so that tokens are whole at every tick.

What TLC alone checks, and why. Liveness (`SilentTerminalFreed`, `PushFrees`, the
fairness half of `KeepsPromise`, `EventuallySeen`, `HiddenChatMerges`,
`MediaSettles`, `SessionHeals`): it rests on fairness and `ENABLED`, which the
prover does not reason about. Of the five
properties the code violates, three are proved under the condition named above
(`OneAnswerPerTurn`, `BanHolds`, `CapSurvivesRestart`); `SilentTerminalFreed` is
liveness, and `ReplyReachesAgent` stays with TLC: `ClosedSeen` leaves it only that a
reply closed without reaching its agent was pushed to another terminal, in a
burst whose newest message decided, or is among the exceptions. And what stays
outside any theorem, that the bounds of the runs are large enough to show what
they are there for.

## 5. Plan

1. The condition under which a reply reaches the agent that waits for it
   (`ReplyReachesAgent`), as a theorem: at least that the principal does not call
   tools and that one terminal only is ever quoted in a burst.
2. The assumptions on constants weakened where a proof did not need them.
3. `send_to_boss` and the level gate middleware as a refinement of which calls are
   let through.

## 6. Not modelled, and why

Logging, wording and payload formats; HTTP, SQL and encryption as such (a
handler is the sequence of its state changes); database migrations; the REST
dashboard, the e-paper display, the tray and the installer, which only read
state or talk to the operating system; the auto-reply worker and the bridge,
which nothing starts; restoring a backup and the marks that guard it
(`BackupIfDue`, `Restore`, `MarkServing`, `CheckNotServing`), which nothing calls;
of the dashboard's page, every view but the chat list; the
tools that only read; the order of history and of group synchronisation, each a
single upsert per row. Parts that are not modelled are listed with status
`not_modelled` in `PROJECT.json`, with the reason.

What the properties except, in one place, since it is there that the code is
known to be weak and a green run says nothing: a stop and a contrary request that
overlap (`StopHolds`); two calls of one agent at once (`OneAnswerPerTurn`, see
`dispatch_twice`), of which `dispatch_safe` has one slot and no rewiring of
antennas; a push to an antenna just removed, which the code and so the model
count as a push (`EventuallySeen`); overlapping requests about one agent
(`AgentsAgree`) or one chat (`LevelStands`); a password changed while another
request still seeds it (`ChangeHolds`); an agent count other than zero
(`PresenceHolds`); and the exceptions of `NudgeNotLost`, `BackupsStand` and
`AntennaHolds`, quoted under the disagreements.
