------------------------------- MODULE Media -------------------------------
(***************************************************************************)
(* Photos, audios and documents: downloaded as a live message arrives, or  *)
(* later from the reference that was kept, by one paced background worker  *)
(* over all chats (oldest first) and by a burst of goroutines over the     *)
(* chat the owner opened.  WhatsApp stops serving a file after a while.    *)
(***************************************************************************)
EXTENDS Naturals, FiniteSets

CONSTANTS
    Albums,       \* the media messages of each chat, numbered by age
    Goroutines,   \* onDemandMediaConcurrency of them
    MaxAttempts,  \* store.MaxMediaPendingAttempts
    MaxCaptures,  \* references ever captured
    MaxOutages,   \* times it goes offline, is stopped or restarts, or a count is lost
    NoFile        \* no such row, no such file

Files == UNION Albums
Fetchers == Goroutines \cup {"background"}

ASSUME MediaAssumption ==
    /\ Files \subseteq Nat /\ NoFile \notin Nat
    /\ MaxAttempts \in Nat \ {0} /\ MaxCaptures \in Nat /\ MaxOutages \in Nat
    /\ "background" \notin Goroutines

VARIABLES
    media,     \* media table: files on disk
    waiting,   \* media_pending: failed attempts of each kept reference
    inFlight,  \* mediaInFlight
    fetcher,   \* Fetchers -> the file and how far its download is
    burst,     \* on-demand: rows read when the chat was opened, not yet taken
    slot,      \* on-demand: the row that waits for one of the goroutines
    account,   \* "linked", "offline" or "stopped": the kill switch is on
    captures,  \* references captured so far
    outages,   \* outages, restarts and lost failure counts so far
    referenced \* history: files whose reference was ever kept

mediaVars == <<media, waiting, inFlight, fetcher, burst, slot, account, captures, outages,
               referenced>>

Free == [at |-> "idle", file |-> NoFile]

MediaInit ==
    /\ media = {} /\ waiting = [f \in Files |-> NoFile] /\ inFlight = {}
    /\ fetcher = [w \in Fetchers |-> Free] /\ burst = {} /\ slot = NoFile
    /\ account = "linked" /\ captures = 0 /\ outages = 0 /\ referenced = {}
-----------------------------------------------------------------------------
\* A live message: its file is downloaded and saved, or (bad disk) neither
\* that nor kept for later.
LiveMedia(f) ==
    /\ media' \in {media \cup {f}, media}
    /\ UNCHANGED <<waiting, inFlight, fetcher, burst, slot, account, captures, outages, referenced>>

\* AddMediaPending: the live download failed, or the message is from the
\* history, which may arrive again; attempts start over.
CaptureMediaPending(f) ==
    /\ captures < MaxCaptures /\ captures' = captures + 1
    /\ waiting' = [waiting EXCEPT ![f] = 0]
    /\ referenced' = referenced \cup {f}
    /\ UNCHANGED <<media, inFlight, fetcher, burst, slot, account, outages>>

\* Mutant: a reference that never works is tried for ever.
NeverExhausted(f) == waiting[f] # NoFile

Eligible(f) == waiting[f] # NoFile /\ waiting[f] < MaxAttempts

\* NextMediaPending: the oldest of all chats.
DownloadNextPendingMedia ==
    /\ account = "linked" /\ fetcher["background"] = Free
    /\ \E f \in Files :
          /\ Eligible(f) /\ \A g \in Files : Eligible(g) => f <= g
          /\ fetcher' = [fetcher EXCEPT !["background"] = [at |-> "picked", file |-> f]]
    /\ UNCHANGED <<media, waiting, inFlight, burst, slot, account, captures, outages, referenced>>

\* FetchPendingMedia, when the chat is opened.
OpenAlbum(album) ==
    /\ burst = {} /\ slot = NoFile
    /\ burst' = {f \in album : Eligible(f)}
    /\ UNCHANGED <<media, waiting, inFlight, fetcher, slot, account, captures, outages, referenced>>

\* The oldest row is next, connected or not; a stop breaks off the burst ...
FetchNext ==
    /\ burst # {} /\ slot = NoFile
    /\ IF account = "stopped" THEN burst' = {} /\ UNCHANGED slot
       ELSE \E f \in burst :
               /\ \A g \in burst : f <= g
               /\ burst' = burst \ {f} /\ slot' = f
    /\ UNCHANGED <<media, waiting, inFlight, fetcher, account, captures, outages, referenced>>

\* ... and a goroutine that is free takes the row that waits, whatever happened
\* while it did.
TakeSlot(w) ==
    /\ slot # NoFile /\ fetcher[w] = Free
    /\ fetcher' = [fetcher EXCEPT ![w] = [at |-> "picked", file |-> slot]]
    /\ slot' = NoFile
    /\ UNCHANGED <<media, waiting, inFlight, burst, account, captures, outages, referenced>>

\* downloadMediaPending: the claim, or errMediaDownloadInFlight ...
Claim(w) ==
    /\ fetcher[w].at = "picked"
    /\ LET f == fetcher[w].file
       IN  IF f \in inFlight
           THEN fetcher' = [fetcher EXCEPT ![w] = Free] /\ UNCHANGED inFlight
           ELSE /\ inFlight' = inFlight \cup {f}
                /\ fetcher' = [fetcher EXCEPT ![w].at = "downloading"]
    /\ UNCHANGED <<media, waiting, burst, slot, account, captures, outages, referenced>>

\* ... the file, and its row ...
DownloadWorks(w) ==
    /\ fetcher[w].at = "downloading"
    /\ media' = media \cup {fetcher[w].file}
    /\ fetcher' = [fetcher EXCEPT ![w].at = "stored"]
    /\ UNCHANGED <<waiting, inFlight, burst, slot, account, captures, outages, referenced>>

\* Mutant: the reference is dropped once the download has started.
DropEarly(w) ==
    /\ fetcher[w].at \in {"downloading", "stored"}
    /\ waiting' = [waiting EXCEPT ![fetcher[w].file] = NoFile]
    /\ fetcher' = [fetcher EXCEPT ![w] = Free]
    /\ inFlight' = inFlight \ {fetcher[w].file}
    /\ UNCHANGED <<media, burst, slot, account, captures, outages, referenced>>

\* ... then the reference is deleted and the claim released.
DropReference(w) ==
    /\ fetcher[w].at = "stored"
    /\ waiting' = [waiting EXCEPT ![fetcher[w].file] = NoFile]
    /\ fetcher' = [fetcher EXCEPT ![w] = Free]
    /\ inFlight' = inFlight \ {fetcher[w].file}
    /\ UNCHANGED <<media, burst, slot, account, captures, outages, referenced>>

\* Download, disk or database fails, the deletion of the reference included:
\* the claim is released first ...
DownloadFails(w) ==
    /\ inFlight' = inFlight \ {fetcher[w].file}
    /\ \E verdict \in {"transient", "permanent"} :
          /\ fetcher[w].at = "downloading" \/ (fetcher[w].at = "stored" /\ verdict = "transient")
          /\ fetcher' = [fetcher EXCEPT ![w].at = verdict]
    /\ UNCHANGED <<media, waiting, burst, slot, account, captures, outages, referenced>>

\* ... then applyMediaDownloadFailure counts one attempt, or all of them for a
\* 403 or 410, on the row there is by now.
RecordFailure(w) ==
    /\ fetcher[w].at \in {"transient", "permanent"}
    /\ LET f == fetcher[w].file
           n == waiting[f]
       IN  waiting' = [waiting EXCEPT ![f] =
                CASE n = NoFile -> NoFile
                  [] n # NoFile /\ fetcher[w].at = "permanent" -> MaxAttempts
                  [] OTHER -> IF n > MaxAttempts THEN n ELSE n + 1]
    /\ fetcher' = [fetcher EXCEPT ![w] = Free]
    /\ UNCHANGED <<media, inFlight, burst, slot, account, captures, outages, referenced>>

\* ... or cannot count it, which is only logged.
RecordLost(w) ==
    /\ fetcher[w].at \in {"transient", "permanent"}
    /\ outages < MaxOutages /\ outages' = outages + 1
    /\ fetcher' = [fetcher EXCEPT ![w] = Free]
    /\ UNCHANGED <<media, waiting, inFlight, burst, slot, account, captures, referenced>>

Outage ==
    /\ outages < MaxOutages /\ outages' = outages + 1
    /\ account # "stopped" /\ account' \in {"offline", "stopped"} \ {account}
    /\ UNCHANGED <<media, waiting, inFlight, fetcher, burst, slot, captures, referenced>>

BackToWork ==
    /\ account # "linked" /\ account' = "linked"
    /\ UNCHANGED <<media, waiting, inFlight, fetcher, burst, slot, captures, outages, referenced>>

\* The process ends anywhere and starts again.
MediaRestart ==
    /\ outages < MaxOutages /\ outages' = outages + 1
    /\ inFlight' = {} /\ burst' = {} /\ slot' = NoFile /\ fetcher' = [w \in Fetchers |-> Free]
    /\ UNCHANGED <<media, waiting, account, captures, referenced>>

Fetch(w) ==
    Claim(w) \/ DownloadWorks(w) \/ DropReference(w) \/ DownloadFails(w) \/ RecordFailure(w)

MediaNext ==
    \/ \E f \in Files : LiveMedia(f) \/ CaptureMediaPending(f)
    \/ DownloadNextPendingMedia
    \/ \E album \in Albums : OpenAlbum(album)
    \/ FetchNext \/ \E w \in Goroutines : TakeSlot(w)
    \/ \E w \in Fetchers : Fetch(w) \/ RecordLost(w)
    \/ Outage \/ BackToWork \/ MediaRestart

MediaSpec == MediaInit /\ [][MediaNext]_mediaVars

\* The background worker ticks, the account links again and the stop is lifted,
\* and a download that began ends.
MediaFairness ==
    /\ WF_mediaVars(DownloadNextPendingMedia) /\ WF_mediaVars(BackToWork)
    /\ \A w \in Fetchers : WF_mediaVars(Fetch(w))

FairMediaSpec == MediaSpec /\ MediaFairness
-----------------------------------------------------------------------------
MediaTypeOK ==
    /\ media \subseteq Files /\ referenced \subseteq Files
    /\ waiting \in [Files -> 0 .. MaxAttempts + 1 \cup {NoFile}]
    /\ inFlight \subseteq Files /\ burst \subseteq Files /\ slot \in Files \cup {NoFile}
    /\ fetcher \in [Fetchers -> [at : {"idle", "picked", "downloading", "stored", "transient",
                                       "permanent"}, file : Files \cup {NoFile}]]
    /\ account \in {"linked", "offline", "stopped"}
    /\ captures \in 0 .. MaxCaptures /\ outages \in 0 .. MaxOutages

\* A reference that was kept is kept until its file is: neither two fetchers
\* of one file, nor a failure, nor the end of the process loses both
\* (downloadMediaPending: the reference is the only way to the file).
ReferenceKept == \A f \in referenced : f \in media \/ waiting[f] # NoFile

\* Every kept reference ends as a file or as one that was given up: no stale
\* one holds up those behind it (store.NextMediaPending).
MediaSettles ==
    \A f \in Files :
        (waiting[f] # NoFile)
            ~> (f \in media \/ (waiting[f] # NoFile /\ waiting[f] >= MaxAttempts))
=============================================================================
