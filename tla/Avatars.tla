------------------------------ MODULE Avatars ------------------------------
(***************************************************************************)
(* The profile pictures of the contacts on screen: asked for on demand,    *)
(* one at a time, at most once per contact and window of days, and served  *)
(* from disk in between.                                                   *)
(***************************************************************************)
EXTENDS Naturals, Sequences

CONSTANTS
    Contacts,     \* contacts shown on the dashboard
    Pictures,     \* picture ids
    AvatarQueue,  \* avatarQueueCap
    MaxAsks,      \* questions to WhatsApp
    MaxResets,    \* "partir de 0" and restarts
    NoPicture     \* no picture, no row, no contact

ASSUME AvatarsAssumption ==
    /\ NoPicture \notin Pictures \cup Contacts
    /\ AvatarQueue \in Nat /\ MaxAsks \in Nat /\ MaxResets \in Nat

VARIABLES
    picture,  \* WhatsApp: the picture each contact has now
    row,      \* avatars: none, or the picture, "" being NoPicture, and whether
              \* next_check_at has passed
    onDisk,   \* contacts whose file exists
    queue,    \* avatarQueue
    queued,   \* avatarQueued
    worker,   \* avatarWorkerLoop: its stage, contact and WhatsApp's answer
    resets,   \* resets and restarts so far
    asks,     \* history: questions asked of each contact in its window
    failed    \* history: contacts whose download or row failed in it

avatarVars == <<picture, row, onDisk, queue, queued, worker, resets, asks, failed>>

NoRow == [known |-> FALSE, id |-> NoPicture, due |-> TRUE]
Row(id) == [known |-> TRUE, id |-> id, due |-> FALSE]
Idling == [at |-> "idle", contact |-> NoPicture, id |-> NoPicture]

AvatarsInit ==
    /\ picture \in [Contacts -> Pictures \cup {NoPicture}]
    /\ row = [j \in Contacts |-> NoRow] /\ onDisk = {}
    /\ queue = <<>> /\ queued = {} /\ worker = Idling
    /\ resets = 0 /\ asks = [j \in Contacts |-> 0] /\ failed = {}
-----------------------------------------------------------------------------
NotQueued(j) == j \notin queued

\* RequestAvatar, for a contact on screen; a full queue drops the hint.
RequestAvatar(j) ==
    /\ NotQueued(j) /\ Len(queue) < AvatarQueue
    /\ queue' = Append(queue, j) /\ queued' = queued \cup {j}
    /\ UNCHANGED <<picture, row, onDisk, worker, resets, asks, failed>>

Dequeue ==
    /\ worker = Idling /\ queue # <<>>
    /\ worker' = [Idling EXCEPT !.at = "taken", !.contact = Head(queue)]
    /\ queue' = Tail(queue)
    /\ UNCHANGED <<picture, row, onDisk, queued, resets, asks, failed>>

\* The mark is removed and the paced delay slept; disconnected or stopped, the
\* hint is dropped.
Pace ==
    /\ worker.at = "taken"
    /\ queued' = queued \ {worker.contact}
    /\ worker' \in {Idling, [worker EXCEPT !.at = "paced"]}
    /\ UNCHANGED <<picture, row, onDisk, queue, resets, asks, failed>>

\* checkAvatar: a contact within its window is not asked about.  The answer:
\* no picture, a failure, the one we have (by ExistingID), or another.
CheckAvatar ==
    /\ worker.at = "paced"
    /\ LET j == worker.contact
           old == IF row[j].known THEN row[j].id ELSE NoPicture
           answer == CASE picture[j] = NoPicture -> "unset"
                       [] picture[j] # NoPicture /\ picture[j] = old -> "same"
                       [] OTHER -> "new"
       IN  IF row[j].known /\ ~row[j].due
           THEN worker' = Idling /\ UNCHANGED asks
           ELSE /\ asks[j] < MaxAsks /\ asks' = [asks EXCEPT ![j] = @ + 1]
                /\ \E at \in {answer, "error"} :
                      worker' = [worker EXCEPT !.at = at,
                                               !.id = IF at = "new" THEN picture[j] ELSE old]
    /\ UNCHANGED <<picture, row, onDisk, queue, queued, resets, failed>>

\* The picture was removed: its file goes first ...
ClearFile ==
    /\ worker.at = "unset"
    /\ onDisk' = onDisk \ {worker.contact}
    /\ worker' = [worker EXCEPT !.at = "store", !.id = NoPicture]
    /\ UNCHANGED <<picture, row, queue, queued, resets, asks, failed>>

\* A new one is downloaded to its file.
SaveFile ==
    /\ worker.at = "new"
    /\ onDisk' = onDisk \cup {worker.contact}
    /\ worker' = [worker EXCEPT !.at = "store"]
    /\ UNCHANGED <<picture, row, queue, queued, resets, asks, failed>>

\* The download or the disk fails: nothing is written down.
SaveFails ==
    /\ worker.at = "new"
    /\ failed' = failed \cup {worker.contact}
    /\ worker' = Idling
    /\ UNCHANGED <<picture, row, onDisk, queue, queued, resets, asks>>

\* Mutant: a question that fails does not count.
StoredAfterAnswer == {"store", "same"}

StoredAfter == {"store", "same", "error"}

\* ... then UpsertAvatar, which begins a new window.
UpsertAvatar ==
    /\ worker.at \in {"store", "same", "error"}
    /\ LET j == worker.contact
       IN  \/ /\ row' = IF worker.at \in StoredAfter
                        THEN [row EXCEPT ![j] = Row(worker.id)] ELSE row
              /\ UNCHANGED failed
           \/ failed' = failed \cup {j} /\ UNCHANGED row
    /\ worker' = Idling
    /\ UNCHANGED <<picture, onDisk, queue, queued, resets, asks>>

\* next_check_at passes, at a moment no worker looks at the contact.
Elapse(j) ==
    /\ row[j].known /\ ~row[j].due /\ worker.contact # j
    /\ row' = [row EXCEPT ![j].due = TRUE]
    /\ asks' = [asks EXCEPT ![j] = 0] /\ failed' = failed \ {j}
    /\ UNCHANGED <<picture, onDisk, queue, queued, worker, resets>>

ChangePicture(j) ==
    /\ \E id \in Pictures \cup {NoPicture} : picture' = [picture EXCEPT ![j] = id]
    /\ UNCHANGED <<row, onDisk, queue, queued, worker, resets, asks, failed>>

\* handleReset empties the media directory, avatars/ with it; the avatars
\* table is not among resetTables.
ClearDirContents ==
    /\ resets < MaxResets /\ resets' = resets + 1
    /\ onDisk' = {}
    /\ UNCHANGED <<picture, row, queue, queued, worker, asks, failed>>

AvatarsRestart ==
    /\ resets < MaxResets /\ resets' = resets + 1
    /\ queue' = <<>> /\ queued' = {} /\ worker' = Idling
    /\ failed' = IF worker = Idling THEN failed ELSE failed \cup {worker.contact}
    /\ UNCHANGED <<picture, row, onDisk, asks>>

AvatarsNext ==
    \/ \E j \in Contacts : RequestAvatar(j) \/ Elapse(j) \/ ChangePicture(j)
    \/ Dequeue \/ Pace \/ CheckAvatar \/ ClearFile \/ SaveFile \/ SaveFails \/ UpsertAvatar
    \/ ClearDirContents \/ AvatarsRestart

AvatarsSpec == AvatarsInit /\ [][AvatarsNext]_avatarVars
-----------------------------------------------------------------------------
AvatarsTypeOK ==
    /\ picture \in [Contacts -> Pictures \cup {NoPicture}]
    /\ row \in [Contacts -> [known : BOOLEAN, id : Pictures \cup {NoPicture}, due : BOOLEAN]]
    /\ onDisk \subseteq Contacts /\ queued \subseteq Contacts
    /\ queue \in Seq(Contacts) /\ Len(queue) <= AvatarQueue
    /\ worker \in [at : {"idle", "taken", "paced", "unset", "same", "new", "error", "store"},
                   contact : Contacts \cup {NoPicture}, id : Pictures \cup {NoPicture}]
    /\ resets \in 0 .. MaxResets /\ asks \in [Contacts -> 0 .. MaxAsks]
    /\ failed \subseteq Contacts

\* WhatsApp is asked about a contact at most once in a window, whatever the
\* answer and however often the contact is shown, as long as what it answers
\* can be written down (checkAvatar: "the anti-ban lever is asking-frequency,
\* not success").
AskedOnce == \A j \in Contacts : j \in failed \/ asks[j] <= 1

\* A contact waits in the queue at most once (RequestAvatar's avatarQueued).
QueuedOnce == \A i, k \in 1 .. Len(queue) : queue[i] = queue[k] => i = k

\* The two together keep the questions few (whatsmeow/avatar.go).
AsksFew == AskedOnce /\ QueuedOnce
=============================================================================
