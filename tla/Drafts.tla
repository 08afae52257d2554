------------------------------- MODULE Drafts -------------------------------
(***************************************************************************)
(* Replies that wait for the owner: the drafts of one chat, from the       *)
(* agent's draft tool to the owner's decision, and the chat's messages     *)
(* they close and reopen.                                                  *)
(*                                                                         *)
(* Every statement on the database is a step of its own: the handlers of   *)
(* two requests, a new message and the end of the process fall between a   *)
(* SELECT and the UPDATE that follows it.                                  *)
(***************************************************************************)
EXTENDS Naturals, FiniteSets

CONSTANTS
    Desks,           \* requests the dashboard and the tools serve at once
    MaxDrafts,       \* drafts ever written
    MaxInbound,      \* messages the chat ever receives
    MaxSecond,       \* seconds that ever begin
    MaxDraftRounds,  \* store.MaxDraftRounds
    Surprises,       \* which of the rarer events an instance admits
    NoDraft          \* no such row

Ids == 1 .. MaxDrafts
Decisions == {"pending", "approved", "discarded", "rejected"}

\* burst: the newest message the draft answers; 0 in rows older than the column.
DraftRow == [status : Decisions, round : 1 .. MaxDrafts, second : 0 .. MaxSecond,
             burst : 0 .. MaxInbound]

ASSUME DraftsAssumption ==
    /\ MaxDrafts \in Nat \ {0} /\ MaxInbound \in Nat /\ MaxSecond \in Nat
    /\ MaxDraftRounds \in Nat \ {0}
    /\ Surprises \subseteq {"overlap", "tie", "crash"} /\ NoDraft \notin DraftRow

VARIABLES
    drafts,     \* the drafts table, by id
    second,     \* the clock, in the whole seconds of created_ts
    inbound,    \* messages received, numbered in order
    handled,    \* those marked handled
    desk,       \* Desks -> the request being served and the draft it is about
    writer,     \* the agent: its dispatch, how far its draft call is, whether the
                \* dispatch carried the reason and whether it owed one
    sent,       \* history: outbox rows queued from each draft, up to 2
    reopened,   \* history: messages a rejection made pending again
    retried,    \* history: drafts whose rejection did, none approved or discarded since
    muddled     \* history: drafts overlapped, shared a second or were decided twice

draftVars == <<drafts, second, inbound, handled, desk, writer, sent, reopened, retried, muddled>>

Idle == [op |-> "idle", id |-> 1]
NoWriter == [at |-> "idle", burst |-> 0, round |-> 1, note |-> FALSE, owed |-> FALSE]

Exists(d) == drafts[d] # NoDraft
Pending(d) == Exists(d) /\ drafts[d].status = "pending"
Written == {d \in Ids : Exists(d)}

\* ORDER BY created_ts DESC LIMIT 1: within one second the order is SQLite's.
Newest == {d \in Written : \A e \in Written : drafts[e].second <= drafts[d].second}

DraftsInit ==
    /\ \E old \in {NoDraft, [status |-> "pending", round |-> 1, second |-> 0, burst |-> 0]} :
          drafts = [d \in Ids |-> IF d = 1 THEN old ELSE NoDraft]
    /\ second = 0 /\ inbound = 0 /\ handled = {}
    /\ desk = [k \in Desks |-> Idle]
    /\ writer = NoWriter
    /\ sent = [d \in Ids |-> 0]
    /\ reopened = {} /\ retried = {} /\ muddled = FALSE

-----------------------------------------------------------------------------
\* MarkHandledBefore and MarkPendingBefore, up to message m.
Close(m) ==
    /\ handled' = handled \cup (1 .. m)
    /\ reopened' = reopened \ (1 .. m)

Reopen(m) ==
    /\ handled' = handled \ (1 .. m)
    /\ reopened' = reopened \cup (handled \cap (1 .. m))

Receive ==
    /\ inbound < MaxInbound
    /\ inbound' = inbound + 1
    /\ UNCHANGED <<drafts, second, handled, desk, writer, sent, reopened, retried, muddled>>

Second ==
    /\ second < MaxSecond
    /\ second' = second + 1
    /\ UNCHANGED <<drafts, inbound, handled, desk, writer, sent, reopened, retried, muddled>>

\* dispatchPayload: the reason rides along when the newest draft is rejected.
PendingRejectionNote == \E d \in Newest : drafts[d].status = "rejected"

PushChat ==
    /\ writer.at = "idle"
    /\ (1 .. inbound) \ handled # {}
    /\ writer' = [NoWriter EXCEPT !.at = "bound", !.burst = inbound,
                                  !.note = PendingRejectionNote,
                                  !.owed = /\ reopened # {} /\ retried # {}
                                            /\ \A d \in Ids : ~Pending(d)]
    /\ UNCHANGED <<drafts, second, inbound, handled, desk, sent, reopened, retried, muddled>>

NextRound(d) == IF drafts[d].status = "rejected" THEN drafts[d].round + 1 ELSE 1

\* nextDraftRound, for one of the rows its query may return.  "overlap": the
\* chat is dispatched, and answered by a draft, while another is pending.
ReadRound ==
    /\ writer.at = "bound"
    /\ "overlap" \in Surprises \/ \A d \in Ids : ~Pending(d)
    /\ IF Written = {}
       THEN writer' = [writer EXCEPT !.at = "round", !.round = 1]
       ELSE \E d \in Newest :
               writer' = [writer EXCEPT !.at = "round", !.round = NextRound(d)]
    /\ muddled' = (muddled \/ \E d \in Ids : Pending(d) \/ \E k \in Desks : desk[k] # Idle)
    /\ UNCHANGED <<drafts, second, inbound, handled, desk, sent, reopened, retried>>

\* "tie": a second draft is written in the second of the one before.
InsertDraft ==
    /\ writer.at = "round"
    /\ "tie" \in Surprises \/ \A d \in Written : drafts[d].second < second
    /\ \E d \in Ids \ Written :
          /\ \A e \in Ids \ Written : d <= e
          /\ drafts' = [drafts EXCEPT ![d] =
                [status |-> "pending", round |-> writer.round, second |-> second,
                 burst |-> writer.burst]]
    /\ writer' = [writer EXCEPT !.at = "inserted"]
    /\ muddled' = (muddled \/ \E d \in Written : drafts[d].second = second)
    /\ UNCHANGED <<second, inbound, handled, desk, sent, reopened, retried>>

CloseBurst ==
    /\ writer.at = "inserted"
    /\ Close(writer.burst)
    /\ writer' = NoWriter
    /\ UNCHANGED <<drafts, second, inbound, desk, sent, retried, muddled>>

\* silent_act: the turn ends without an answer.
Silence ==
    /\ writer.at = "bound"
    /\ Close(writer.burst)
    /\ writer' = NoWriter
    /\ UNCHANGED <<drafts, second, inbound, desk, sent, retried, muddled>>

-----------------------------------------------------------------------------
Serve(k, from, to, d) ==
    /\ desk[k].op = from
    /\ desk' = [desk EXCEPT ![k] = [op |-> to, id |-> d]]

\* UPDATE drafts SET status = decision WHERE id = d, pending or not.
Stamp(d, decision) ==
    /\ drafts' = [drafts EXCEPT ![d].status = decision]
    /\ muddled' = (muddled \/ ~Pending(d))

\* ApproveDraft: the draft is read while pending ...
Approve(k, d) ==
    /\ Pending(d)
    /\ Serve(k, "idle", "approve", d)
    /\ UNCHANGED <<drafts, second, inbound, handled, writer, sent, reopened, retried, muddled>>

\* Mutant: the draft is approved before it is queued.
StampFirst(k) ==
    /\ desk[k].op = "approve"
    /\ Stamp(desk[k].id, "approved")
    /\ UNCHANGED <<desk, second, inbound, handled, writer, sent, reopened, retried>>

\* ... its text goes to the outbox ...
EnqueueDraft(k) ==
    /\ Serve(k, "approve", "queued", desk[k].id)
    /\ sent' = [sent EXCEPT ![desk[k].id] = IF @ = 0 THEN 1 ELSE 2]
    /\ UNCHANGED <<drafts, second, inbound, handled, writer, reopened, retried, muddled>>

\* ... and the row is stamped, whatever became of it since.
StampApproved(k) ==
    /\ Serve(k, "queued", "approved", desk[k].id)
    /\ Stamp(desk[k].id, "approved")
    /\ retried' = {}
    /\ UNCHANGED <<second, inbound, handled, writer, sent, reopened>>

\* The handler closes what the draft answered; a row without burst, everything.
CloseApproved(k) ==
    /\ Serve(k, "approved", "idle", 1)
    /\ LET burst == drafts[desk[k].id].burst
       IN  Close(IF burst = 0 THEN inbound ELSE burst)
    /\ UNCHANGED <<drafts, second, inbound, writer, sent, retried, muddled>>

\* DiscardDraft: one conditional UPDATE.
Discard(d) ==
    /\ Pending(d)
    /\ drafts' = [drafts EXCEPT ![d].status = "discarded"]
    /\ retried' = {}
    /\ UNCHANGED <<second, inbound, handled, desk, writer, sent, reopened, muddled>>

\* RejectDraft: SELECT ...
Reject(k, d) ==
    /\ Pending(d)
    /\ Serve(k, "idle", "reject", d)
    /\ UNCHANGED <<drafts, second, inbound, handled, writer, sent, reopened, retried, muddled>>

\* ... and an UPDATE without a condition.
StampRejected(k) ==
    /\ Serve(k, "reject", "rejected", desk[k].id)
    /\ Stamp(desk[k].id, "rejected")
    /\ UNCHANGED <<second, inbound, handled, writer, sent, reopened, retried>>

\* Mutant: one round more than the limit is dispatched again.
PastCapByOne(d) == drafts[d].round > MaxDraftRounds

AtCap(d) == drafts[d].round >= MaxDraftRounds

\* The handler reopens the burst, unless the rounds are used up.
ReopenRejected(k) ==
    /\ Serve(k, "rejected", "idle", 1)
    /\ IF AtCap(desk[k].id)
       THEN UNCHANGED <<handled, reopened, retried, muddled>>
       ELSE /\ Reopen(drafts[desk[k].id].burst)
            /\ retried' = retried \cup {desk[k].id}
    /\ UNCHANGED <<drafts, second, inbound, writer, sent, muddled>>

\* The process ends between two statements: the requests are gone.
Crash ==
    /\ "crash" \in Surprises
    /\ desk' = [k \in Desks |-> Idle]
    /\ writer' = NoWriter
    /\ desk # desk' \/ writer # writer'
    /\ UNCHANGED <<drafts, second, inbound, handled, sent, reopened, retried, muddled>>

Owner ==
    \/ \E d \in Ids : Discard(d)
    \/ \E k \in Desks :
          \/ \E d \in Ids : Approve(k, d) \/ Reject(k, d)
          \/ EnqueueDraft(k) \/ StampApproved(k) \/ CloseApproved(k)
          \/ StampRejected(k) \/ ReopenRejected(k)

DraftsNext ==
    \/ Receive \/ Second \/ PushChat
    \/ ReadRound \/ InsertDraft \/ CloseBurst \/ Silence
    \/ Owner \/ Crash

DraftsSpec == DraftsInit /\ [][DraftsNext]_draftVars
-----------------------------------------------------------------------------
DraftsTypeOK ==
    /\ drafts \in [Ids -> DraftRow \cup {NoDraft}]
    /\ second \in 0 .. MaxSecond /\ inbound \in 0 .. MaxInbound
    /\ handled \subseteq 1 .. inbound /\ reopened \subseteq 1 .. inbound
    /\ desk \in [Desks -> [op : {"idle", "approve", "queued", "approved",
                                 "reject", "rejected"}, id : Ids]]
    /\ writer \in [at : {"idle", "bound", "round", "inserted"}, burst : 0 .. MaxInbound,
                   round : 1 .. MaxDrafts + 1, note : BOOLEAN, owed : BOOLEAN]
    /\ sent \in [Ids -> 0 .. 2] /\ retried \subseteq Ids /\ muddled \in BOOLEAN

\* An approved draft was queued for sending, whatever else was decided about
\* it meanwhile and wherever the process ended (store.ApproveDraft).
ApprovedWasQueued == \A d \in Written : drafts[d].status = "approved" => sent[d] > 0

\* A thread of rejections ends: at most MaxDraftRounds - 1 of a thread's
\* drafts send the agent back (store.nextDraftRound, handleRejectDraft).
LoopEnds == Cardinality(retried) < MaxDraftRounds

\* The agent sent back to a burst is told so: the dispatch of messages a
\* rejection reopened carries the reason (store.PendingRejectionNote).
ReasonTravels == writer.owed => writer.note

\* Both hold as long as the chat's drafts neither overlap, share a second nor
\* are decided twice.
RejectionsHold == ~muddled => LoopEnds /\ ReasonTravels
=============================================================================
