------------------------------- MODULE Outbox -------------------------------
(***************************************************************************)
(* Everything the gateway says on WhatsApp leaves through one loop:        *)
(* corepipeline.processOutbox drains the outbox table, one message at a    *)
(* time, asking the kill switch and the governor before each.              *)
(*                                                                         *)
(* The loop's waits (dispatch delay, composing delay), the network call    *)
(* and every database write are separate steps: requests, network events,  *)
(* midnight, a reset and the end of the process fall between any two.      *)
(* A cancelled context makes the loop return at a wait or between items;   *)
(* that is the end of the process (Down), which here may fall anywhere.    *)
(***************************************************************************)
EXTENDS KillSwitch, FiniteSets

CONSTANTS
    MaxSeq,       \* outbox rows ever queued
    Unaddressed,  \* rows with an empty to_jid
    MaxRetry,     \* Config.OutboxMaxRetry
    Limit,        \* rows DueOutbox returns
    Burst,        \* governor.max: tokens of a full bucket
    Scenarios,    \* the daily caps and the misfortunes an instance goes through
    NoRow         \* no such row

Seqs == 1 .. MaxSeq

\* What is counted: messages queued, process ends, failed writes, lost
\* connections, midnights, resets ("partir de 0") and account bans; of "order",
\* the owner's use of the emergency stop, only whether there is any.
Mishaps == {"queue", "down", "fault", "drop", "midnight", "reset", "trip", "order"}

ASSUME OutboxAssumption ==
    /\ MaxSeq \in Nat /\ Unaddressed \subseteq Seqs
    /\ MaxRetry \in Nat \ {0} /\ Limit \in Nat \ {0}
    /\ Burst \in Nat \ {0}
    /\ \A s \in Scenarios : s.left \in [Mishaps -> Nat] /\ s.cap \in Nat
    /\ NoRow \notin [status : {"unsent", "sent", "dead"},
                     retries : 0 .. MaxRetry, waiting : BOOLEAN]

\* waiting: next_retry_ts lies in the future.  The length of the backoff only
\* decides when that ends.
Row == [status : {"unsent", "sent", "dead"}, retries : 0 .. MaxRetry, waiting : BOOLEAN]
NewRow == [status |-> "unsent", retries |-> 0, waiting |-> FALSE]

Stages == {"idle", "head", "pacing", "composing", "accepted", "marked", "refused"}

VARIABLES
    rows,        \* the outbox table
    last,        \* its last sequence number, never used again
    recorded,    \* own messages of today in the messages table
    gov,         \* governor: sends charged, charged today, tokens, dailyMax
                 \* (0 disables the cap)
    loop,        \* processOutbox: stage, the rows of this tick still to do,
                 \* and whether its charge (then its result) is of today
    connected,   \* gw.Connected()
    left,        \* Mishaps -> how many may still happen
    attempts,    \* history: calls of gw.Send per row
    delivered,   \* history: messages WhatsApp accepted per row
    sentToday,   \* history: messages WhatsApp accepted today
    uncounted,   \* history: ... of which today's count knows nothing
    erased,      \* history: ... of which a reset erased the record
    blurred      \* history: results that never reached their row

queueVars == <<rows, last, recorded>>
historyVars == <<attempts, delivered, sentToday, uncounted, erased, blurred>>
vars == <<killVars, queueVars, gov, loop, connected, left, historyVars>>

-----------------------------------------------------------------------------
Spend(m) == left[m] > 0 /\ left' = [left EXCEPT ![m] = @ - 1]

\* A database write succeeds, or fails and is only logged.
Write(ok) == IF ok THEN UNCHANGED left ELSE Spend("fault")

\* Without a cap nothing reads the day's counts: they stay 0.
Daily(n) == IF gov.cap = 0 THEN 0 ELSE n

Queued(i) == i <= last /\ rows[i] # NoRow
Unsent(i) == Queued(i) /\ rows[i].status = "unsent"

\* Mutant: a sent row is still due.
DueSentToo(i) == Queued(i) /\ rows[i].status # "dead" /\ ~rows[i].waiting

\* Mutant: a row that failed once is never due again.
DueFirstTime(i) == Unsent(i) /\ rows[i].retries = 0

Due(i) == Unsent(i) /\ ~rows[i].waiting

\* DueOutbox: the first Limit due rows in sequence order.
DueOutbox == {i \in Seqs : Due(i) /\ Cardinality({j \in Seqs : Due(j) /\ j < i}) < Limit}

First(S) == CHOOSE i \in S : \A j \in S : i <= j
Item == First(loop.rest)

At(stage) == up /\ loop.at = stage

\* The loop turns to the next row, or ends this tick.
Advance ==
    LET rest == loop.rest \ {Item}
    IN  loop' = [at |-> IF rest = {} THEN "idle" ELSE "head", rest |-> rest, today |-> FALSE]

Return == loop' = [at |-> "idle", rest |-> {}, today |-> FALSE]

OutboxInit ==
    /\ rows = [i \in Seqs |-> NoRow]
    /\ last = 0 /\ recorded = 0
    /\ \E s \in Scenarios :
          /\ left = s.left
          /\ gov = [charged |-> 0, today |-> TRUE, tokens |-> Burst, cap |-> s.cap]
    /\ loop = [at |-> "idle", rest |-> {}, today |-> FALSE]
    /\ connected = TRUE
    /\ attempts = [i \in Seqs |-> 0]
    /\ delivered = [i \in Seqs |-> 0]
    /\ sentToday = 0 /\ uncounted = 0 /\ erased = 0 /\ blurred = 0

Init == KillInit /\ OutboxInit

-----------------------------------------------------------------------------
(* Producers: every tool and handler that sends inserts a row. *)

Enqueue ==
    /\ up /\ last < MaxSeq /\ Spend("queue")
    /\ last' = last + 1
    /\ rows' = [rows EXCEPT ![last + 1] = NewRow]
    /\ UNCHANGED <<killVars, recorded, gov, loop, connected, historyVars>>

-----------------------------------------------------------------------------
(* The governor. *)

\* checkDaily: the first Allow of a new day forgets the count.
Charged == IF gov.today THEN gov.charged ELSE 0

Allowed == ~kill /\ (gov.cap = 0 \/ Charged < gov.cap) /\ gov.tokens >= 1

\* Allow answers no: kill comes before the check of the day.
Deny == ~Allowed /\ gov' = IF kill THEN gov ELSE [gov EXCEPT !.charged = Charged, !.today = TRUE]

Charge == Allowed /\ gov' = [gov EXCEPT !.charged = Daily(Charged + 1), !.today = TRUE,
                                       !.tokens = @ - 1]

\* Mutant: the bucket overflows.
RefillUnbounded ==
    /\ up
    /\ gov' = [gov EXCEPT !.tokens = @ + 1]
    /\ UNCHANGED <<killVars, queueVars, loop, connected, left, historyVars>>

Refill ==
    /\ up /\ gov.tokens < Burst
    /\ gov' = [gov EXCEPT !.tokens = @ + 1]
    /\ UNCHANGED <<killVars, queueVars, loop, connected, left, historyVars>>

-----------------------------------------------------------------------------
(* The loop. *)

Tick ==
    /\ At("idle") /\ connected
    /\ DueOutbox # {}
    /\ loop' = [at |-> "head", rest |-> DueOutbox, today |-> FALSE]
    /\ UNCHANGED <<killVars, queueVars, gov, connected, left, historyVars>>

\* Mutant: the governor's no skips one row instead of ending the tick.
DeferOne ==
    /\ At("head")
    /\ \/ KillActive /\ UNCHANGED gov
       \/ ~KillActive /\ Deny
    /\ Advance
    /\ UNCHANGED <<killVars, queueVars, connected, left, historyVars>>

\* The kill switch is on, or the governor says no: the tick is over.
Defer ==
    /\ At("head")
    /\ \/ KillActive /\ UNCHANGED gov
       \/ ~KillActive /\ Deny
    /\ Return
    /\ UNCHANGED <<killVars, queueVars, connected, left, historyVars>>

\* MarkSent(i): an UPDATE, so a row that is gone stays gone.
Mark(i, ok) == rows' = IF ok /\ Queued(i) THEN [rows EXCEPT ![i].status = "sent"] ELSE rows

\* A row without an address is charged, marked sent and skipped.
SkipUnaddressed(ok) ==
    /\ At("head") /\ Item \in Unaddressed
    /\ ~KillActive /\ Charge
    /\ Mark(Item, ok) /\ Write(ok)
    /\ Advance
    /\ UNCHANGED <<killVars, last, recorded, connected, historyVars>>

Pace ==
    /\ At("head") /\ Item \notin Unaddressed
    /\ ~KillActive /\ Charge
    /\ loop' = [loop EXCEPT !.at = "pacing", !.today = TRUE]
    /\ UNCHANGED <<killVars, queueVars, connected, left, historyVars>>

\* Mutant: the kill switch is not looked at again after the dispatch delay.
ComposeAnyway ==
    /\ At("pacing")
    /\ loop' = [loop EXCEPT !.at = "composing"]
    /\ UNCHANGED <<killVars, queueVars, gov, connected, left, historyVars>>

\* The dispatch delay is over; the kill switch may have flipped meanwhile.
Compose ==
    /\ At("pacing")
    /\ IF KillActive THEN Return ELSE loop' = [loop EXCEPT !.at = "composing"]
    /\ UNCHANGED <<killVars, queueVars, gov, connected, left, historyVars>>

\* gw.Send.  taken: WhatsApp accepted the message; told: the call returned no
\* error.  An error may hide an accepted message (a lost acknowledgement).
Send(taken, told) ==
    /\ At("composing")
    /\ told => taken
    /\ taken => connected
    /\ loop' = [loop EXCEPT !.at = IF told THEN "accepted" ELSE "refused", !.today = TRUE]
    /\ attempts' = [attempts EXCEPT ![Item] = @ + 1]
    /\ IF taken
       THEN /\ delivered' = [delivered EXCEPT ![Item] = @ + 1]
            /\ sentToday' = Daily(sentToday + 1)
            /\ uncounted' = IF told /\ loop.today THEN uncounted ELSE Daily(uncounted + 1)
            /\ blurred' = IF told THEN blurred ELSE blurred + 1
       ELSE UNCHANGED <<delivered, sentToday, uncounted, blurred>>
    /\ UNCHANGED <<killVars, queueVars, gov, connected, left, erased>>

MarkSent(ok) ==
    /\ At("accepted")
    /\ Mark(Item, ok) /\ Write(ok)
    /\ loop' = [loop EXCEPT !.at = "marked"]
    /\ blurred' = IF ok THEN blurred ELSE blurred + 1
    /\ UNCHANGED <<killVars, last, recorded, gov, connected,
                   attempts, delivered, sentToday, uncounted, erased>>

\* AddMessage, then the metering and the display counter, which have no say.
AddMessage(ok) ==
    /\ At("marked")
    /\ recorded' = IF ok /\ loop.today THEN Daily(recorded + 1) ELSE recorded
    /\ uncounted' = IF ~ok /\ loop.today THEN Daily(uncounted + 1) ELSE uncounted
    /\ Write(ok)
    /\ Advance
    /\ UNCHANGED <<killVars, rows, last, gov, connected,
                   attempts, delivered, sentToday, erased, blurred>>

\* Mutant: one failure too many.
AfterFailureLate(row) ==
    IF row.retries + 1 > MaxRetry THEN [row EXCEPT !.status = "dead"]
    ELSE [row EXCEPT !.retries = @ + 1, !.waiting = TRUE]

AfterFailure(row) ==
    IF row.retries + 1 >= MaxRetry THEN [row EXCEPT !.status = "dead"]
    ELSE [row EXCEPT !.retries = @ + 1, !.waiting = TRUE]

RetryOrDeadLetter(ok) ==
    /\ At("refused")
    /\ rows' = IF ok /\ Queued(Item) THEN [rows EXCEPT ![Item] = AfterFailure(@)] ELSE rows
    /\ Write(ok)
    /\ Advance
    /\ blurred' = IF ok THEN blurred ELSE blurred + 1
    /\ UNCHANGED <<killVars, last, recorded, gov, connected,
                   attempts, delivered, sentToday, uncounted, erased>>

BackoffEnds(i) ==
    /\ Unsent(i) /\ rows[i].waiting
    /\ rows' = [rows EXCEPT ![i].waiting = FALSE]
    /\ UNCHANGED <<killVars, last, recorded, gov, loop, connected, left, historyVars>>

LoopStep ==
    \/ Tick \/ Defer \/ Pace \/ Compose
    \/ \E taken, told \in BOOLEAN : Send(taken, told)
    \/ \E ok \in BOOLEAN :
          SkipUnaddressed(ok) \/ MarkSent(ok) \/ AddMessage(ok) \/ RetryOrDeadLetter(ok)

-----------------------------------------------------------------------------
(* The environment. *)

Disconnect ==
    /\ connected /\ Spend("drop")
    /\ connected' = FALSE
    /\ UNCHANGED <<killVars, queueVars, gov, loop, historyVars>>

Reconnect ==
    /\ ~connected
    /\ connected' = TRUE
    /\ UNCHANGED <<killVars, queueVars, gov, loop, left, historyVars>>

\* A charge of yesterday whose message is still to go is one today's count
\* will not know of; a result dated yesterday is no longer of today.
Midnight ==
    /\ Spend("midnight")
    /\ gov' = [gov EXCEPT !.today = FALSE]
    /\ loop' = [loop EXCEPT !.today = FALSE]
    /\ recorded' = 0 /\ sentToday' = 0 /\ uncounted' = 0 /\ erased' = 0
    /\ UNCHANGED <<killVars, rows, last, connected, attempts, delivered, blurred>>

\* ResetMessagingData: messages and outbox are emptied in one transaction;
\* sequence numbers are not used again, the kv table is kept.
Reset ==
    /\ up /\ Spend("reset")
    /\ rows' = [i \in Seqs |-> NoRow]
    /\ recorded' = 0
    /\ erased' = erased + recorded
    /\ UNCHANGED <<killVars, last, gov, loop, connected,
                   attempts, delivered, sentToday, uncounted, blurred>>

\* The process ends, by a crash, a power cut or a shutdown.
Down ==
    /\ up /\ Spend("down")
    /\ KillDown
    /\ Return
    /\ gov' = [gov EXCEPT !.charged = 0, !.today = FALSE, !.tokens = Burst]
    /\ uncounted' = IF loop.at \in {"accepted", "marked"} /\ loop.today
                    THEN Daily(uncounted + 1) ELSE uncounted
    /\ blurred' = IF loop.at \in {"accepted", "refused"} THEN blurred + 1 ELSE blurred
    /\ UNCHANGED <<queueVars, connected, attempts, delivered, sentToday, erased>>

\* Mutant: the daily count starts over with the process.
SeedZero == 0

\* SeedDailyCount(CountOutboundSince(local midnight)).
Seed == recorded

\* main.go: the governor is seeded and the stop restored before ctrl.Start.
Boot ==
    /\ ~up
    /\ KillUp
    /\ gov' = [gov EXCEPT !.charged = Seed, !.today = TRUE, !.tokens = Burst]
    /\ UNCHANGED <<queueVars, loop, connected, left, historyVars>>

\* The owner's requests and the network's verdicts.
KillStep ==
    \/ \E o \in Owners, v \in BOOLEAN : left["order"] > 0 /\ Ask(o, v) /\ UNCHANGED left
    \/ \E o \in Owners, ok \in BOOLEAN : Persist(o, ok) /\ Write(ok)
    \/ \E o \in Owners : (Govern(o) \/ Mute(o)) /\ UNCHANGED left
    \/ Trip /\ Spend("trip")
    \/ TripGovernor /\ UNCHANGED left

KillSwitch ==
    /\ KillStep
    /\ UNCHANGED <<queueVars, gov, loop, connected, historyVars>>

Next ==
    \/ Enqueue \/ Refill \/ LoopStep \/ KillSwitch
    \/ \E i \in Seqs : BackoffEnds(i)
    \/ Disconnect \/ Reconnect \/ Midnight \/ Reset \/ Down \/ Boot

Spec == Init /\ [][Next]_vars

\* The goroutine runs, the clock refills the bucket and ends the backoffs, the
\* adapter reconnects by itself and the process is started again.  Nothing is
\* assumed of owners, of WhatsApp's answers or of the writes.
Fairness ==
    /\ WF_vars(LoopStep) /\ WF_vars(Refill) /\ WF_vars(Reconnect) /\ WF_vars(Boot)
    /\ \A i \in Seqs : WF_vars(BackoffEnds(i))

FairSpec == Spec /\ Fairness
-----------------------------------------------------------------------------
TypeOK ==
    /\ KillTypeOK
    /\ rows \in [Seqs -> Row \cup {NoRow}]
    /\ last \in 0 .. MaxSeq
    /\ gov \in [charged : Nat, today : BOOLEAN, tokens : 0 .. Burst, cap : Nat]
    /\ loop \in [at : Stages, rest : SUBSET Seqs, today : BOOLEAN]
    /\ loop.at = "idle" <=> loop.rest = {}
    /\ connected \in BOOLEAN
    /\ left \in [Mishaps -> Nat]
    /\ attempts \in [Seqs -> Nat] /\ delivered \in [Seqs -> Nat]
    /\ {recorded, sentToday, uncounted, erased, blurred} \subseteq Nat

\* No resend loop: beyond OutboxMaxRetry a row is tried again only if an
\* earlier result never reached it, because the process ended or the write
\* failed (outbox.go retryOrDeadLetter: "never just retry again next tick
\* forever").
NoResendLoop == \A i \in Seqs : attempts[i] <= MaxRetry + blurred

\* Nobody receives a message twice unless a result was lost on the way to its
\* row: WhatsApp's answer, the write of it, or the process in between.
NoDuplicate == \A i \in Seqs : delivered[i] <= 1 + blurred

\* The loop overtakes no row: one that was never tried is tried before any row
\* queued after it, whatever was deferred, killed or restarted in between
\* (DueOutbox's ORDER BY seq, processOutbox's returns).
FirstTriesInOrder ==
    \A i, j \in Seqs :
        i < j /\ Queued(i) /\ i \notin Unaddressed /\ attempts[j] > 0 => attempts[i] > 0

\* The daily cap holds across restarts, up to the messages today's count
\* cannot know of: charged yesterday, ended in an error after acceptance, cut
\* off from their record by the end of the process or a failed write, or
\* erased by a reset (governor.go Allow and SeedDailyCount, main.go).
DailyCap == gov.cap # 0 => sentToday <= gov.cap + uncounted + erased

\* What the comments say of the cap: a restart never makes the gateway forget
\* what went out today (governor.go Limiter, main.go H1).
CapSurvivesRestart == gov.cap # 0 => sentToday <= gov.cap + uncounted

StartsToCompose == loop.at # "composing" /\ loop'.at = "composing"

\* An emergency stop that was recorded and not revoked holds across restarts
\* and races: at most the message already being composed still goes out
\* (set_kill_switch, killSwitchActive, restoreKillSwitch).
StopHolds == [][brake => ~StartsToCompose]_vars

\* After LoggedOut or TemporaryBan "sends must stop until the owner
\* intervenes" (whatsmeow/inbound.go handleDisconnect).
BanHolds == [][banned => ~StartsToCompose]_vars

\* The outbox implements the courier's promise: the row is the letter.
Letter(i) ==
    IF i > last THEN "none"
    ELSE IF rows[i] = NoRow THEN "wiped"
    ELSE CASE rows[i].status = "unsent" -> "queued"
           [] rows[i].status = "sent"   -> "delivered"
           [] rows[i].status = "dead"   -> "failed"

\* The failures counted against a letter; a wiped one keeps no count.
Failures(i) ==
    IF ~Queued(i) THEN 0
    ELSE IF rows[i].status = "dead" THEN MaxRetry ELSE rows[i].retries

Promise == INSTANCE Courier WITH
    Letters <- Seqs, MaxTries <- MaxRetry,
    mail <- [i \in Seqs |-> Letter(i)], tries <- [i \in Seqs |-> Failures(i)]

\* Every queued message is tried at most OutboxMaxRetry times on the record and
\* ends up sent or dead-lettered for good, as long as the gateway is started
\* again, reconnects and nobody pulls the emergency stop.
KeepsPromise == Promise!CourierSpec
=============================================================================
