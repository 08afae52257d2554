-------------------------------- MODULE Link --------------------------------
(***************************************************************************)
(* The WhatsApp link: pairing by QR code, the connection and its events,   *)
(* logging out and pairing again from the dashboard, and what the display  *)
(* and the dashboard are told of it (status.json) while reactions to       *)
(* messages and calls come and go on the same face.                        *)
(***************************************************************************)
EXTENDS Naturals, Sequences

CONSTANTS
    MaxCodes,   \* QR codes WhatsApp ever issues
    QrBuffer,   \* capacity of qrOut
    MaxEvents,  \* events whatsmeow has not delivered yet
    MaxTurns    \* mood changes (reactGen)

ASSUME LinkAssumption ==
    MaxCodes \in Nat /\ QrBuffer \in Nat \ {0} /\ MaxEvents \in Nat \ {0} /\ MaxTurns \in Nat

Moods == {"idle", "reaction", "resting", "error", "qr", "muted"}
SystemMoods == {"error", "qr", "muted"}  \* moodTier 3

VARIABLES
    paired,  \* client.Store.ID is set
    socket,  \* "up"; "lost", whatsmeow reconnects by itself; "down", it does not
    rounds,  \* pairLoop goroutines, by stage
    pairingActive,
    qr,      \* qrState: the code of the round
    qrOut,   \* codes published and not yet shown
    codes,   \* codes issued so far
    events,  \* events on their way to handleEvent
    logout,  \* Logout: the account is unlinked, the status not updated yet
    status,  \* state.Status
    turn,    \* reactGen
    timers,  \* reverts to come, by the turn of their reaction
    raced    \* history: a logout overtook an undelivered event

linkVars == <<paired, socket, rounds, pairingActive, qr, qrOut, codes, events, logout,
              status, turn, timers, raced>>

\* New and Start; restoreKillSwitch puts an emergency stop back first.
LinkInit ==
    /\ paired \in BOOLEAN
    /\ socket = IF paired THEN "lost" ELSE "down"
    /\ rounds = [starting |-> 0, showing |-> 0] /\ pairingActive = FALSE
    /\ qr = "none" /\ qrOut = 0 /\ codes = 0
    /\ events = <<>> /\ logout = FALSE /\ raced = FALSE
    /\ \E muted \in BOOLEAN :
          status = [mood |-> IF muted THEN "muted" ELSE "idle", connected |-> FALSE,
                    showQR |-> FALSE, muted |-> muted]
    /\ turn = 0 /\ timers = {}

\* Mutant: a system mood leaves pending reverts in force, as Update does.
UpdateInPlace(new) ==
    /\ turn' = turn
    /\ status' = new

UpdateMood(new) ==
    /\ turn < MaxTurns /\ turn' = turn + 1
    /\ status' = new
-----------------------------------------------------------------------------
MayPair == ~pairingActive

\* Reconnect, "Ver QR".
Reconnect ==
    /\ ~paired /\ MayPair
    /\ pairingActive' = TRUE /\ qr' = "none"
    /\ rounds' = [rounds EXCEPT !.starting = @ + 1]
    /\ UNCHANGED <<paired, socket, qrOut, codes, events, logout, status, turn, timers, raced>>

\* pairLoop: the channel and the connection, either of which may fail.
BeginRound ==
    /\ rounds.starting > 0
    /\ \E ok \in BOOLEAN :
          /\ ok => ~paired
          /\ rounds' = [starting |-> rounds.starting - 1,
                        showing |-> rounds.showing + (IF ok THEN 1 ELSE 0)]
          /\ pairingActive' = ok
    /\ UNCHANGED <<paired, socket, qr, qrOut, codes, events, logout, status, turn, timers, raced>>

IssueCode ==
    /\ rounds.showing > 0 /\ ~paired /\ codes < MaxCodes /\ qrOut < QrBuffer
    /\ codes' = codes + 1 /\ qr' = "code" /\ qrOut' = qrOut + 1
    /\ UNCHANGED <<paired, socket, rounds, pairingActive, events, logout, status, turn, timers, raced>>

\* main's reader of qrOut: Update, not UpdateMood.
ShowCode ==
    /\ qrOut > 0 /\ qrOut' = qrOut - 1
    /\ status' = [status EXCEPT !.showQR = TRUE, !.mood = "qr"]
    /\ UNCHANGED <<paired, socket, rounds, pairingActive, qr, codes, events, logout, turn, timers, raced>>

\* The owner scans the code with the phone.
Scan ==
    /\ rounds.showing > 0 /\ ~paired /\ qr = "code" /\ Len(events) < MaxEvents
    /\ paired' = TRUE /\ socket' = "up"
    /\ events' = Append(events, "connected")
    /\ UNCHANGED <<rounds, pairingActive, qr, qrOut, codes, logout, status, turn, timers, raced>>

\* The round ends, paired or expired.
EndRound ==
    /\ rounds.showing > 0
    /\ rounds' = [rounds EXCEPT !.showing = @ - 1] /\ pairingActive' = FALSE
    /\ IF paired THEN UNCHANGED <<socket, qr>> ELSE socket' = "down" /\ qr' = "expired"
    /\ UNCHANGED <<paired, qrOut, codes, events, logout, status, turn, timers, raced>>

-----------------------------------------------------------------------------
\* The network, WhatsApp and the phone.
LinkFails ==
    /\ paired /\ socket = "up" /\ Len(events) < MaxEvents
    /\ \/ events' = Append(events, "disconnected") /\ socket' = "lost" /\ UNCHANGED paired
       \/ events' = Append(events, "replaced") /\ socket' = "down" /\ UNCHANGED paired
       \/ events' = Append(events, "banned") /\ socket' = "down" /\ UNCHANGED paired
       \/ events' = Append(events, "loggedout") /\ socket' = "down" /\ paired' = FALSE
    /\ UNCHANGED <<rounds, pairingActive, qr, qrOut, codes, logout, status, turn, timers, raced>>

LinkReturns ==
    /\ paired /\ socket = "lost" /\ Len(events) < MaxEvents
    /\ socket' = "up" /\ events' = Append(events, "connected")
    /\ UNCHANGED <<paired, rounds, pairingActive, qr, qrOut, codes, logout, status, turn, timers, raced>>

ClearErrorState ==
    [status EXCEPT !.mood = IF @ \in {"error", "qr"} THEN "idle" ELSE @,
                   !.connected = TRUE, !.showQR = FALSE]

\* With the emergency stop when the account cannot come back by itself.
HandleDisconnect(kill) ==
    [status EXCEPT !.mood = "error", !.connected = FALSE, !.muted = @ \/ kill]

HandleEvent ==
    /\ events # <<>> /\ events' = Tail(events)
    /\ LET e == Head(events)
       IN  UpdateMood(IF e = "connected" THEN ClearErrorState
                      ELSE HandleDisconnect(e \in {"banned", "loggedout"}))
    /\ UNCHANGED <<paired, socket, rounds, pairingActive, qr, qrOut, codes, logout, timers, raced>>

\* Logout, "Desconectar": whatsmeow announces nothing of it ...
LogoutUnlinks ==
    /\ paired /\ ~logout
    /\ paired' = FALSE /\ socket' = "down" /\ logout' = TRUE
    /\ raced' = (raced \/ events # <<>>)
    /\ UNCHANGED <<rounds, pairingActive, qr, qrOut, codes, events, status, turn, timers>>

\* Mutant: the status hears of a logout from events alone.
StatusUntold == status

StatusTold == [status EXCEPT !.connected = FALSE]

\* ... so the status is told.
LogoutTells ==
    /\ logout /\ logout' = FALSE
    /\ status' = StatusTold
    /\ UNCHANGED <<paired, socket, rounds, pairingActive, qr, qrOut, codes, events, turn, timers, raced>>

\* React: a message or a call shows on the face for some seconds.
React ==
    /\ status.mood \notin SystemMoods
    /\ UpdateMood([status EXCEPT !.mood = "reaction"])
    /\ timers' = timers \cup {turn'}
    /\ UNCHANGED <<paired, socket, rounds, pairingActive, qr, qrOut, codes, events, logout, raced>>

\* Only the latest turn reverts.
RevertReaction(t) ==
    /\ t \in timers /\ timers' = timers \ {t}
    /\ status' = IF t = turn THEN [status EXCEPT !.mood = "resting"] ELSE status
    /\ UNCHANGED <<paired, socket, rounds, pairingActive, qr, qrOut, codes, events, logout, turn, raced>>

\* SetResting, when the last agent leaves.
SetResting ==
    /\ status.mood \notin SystemMoods
    /\ UpdateMood([status EXCEPT !.mood = "resting"])
    /\ UNCHANGED <<paired, socket, rounds, pairingActive, qr, qrOut, codes, events, logout, timers, raced>>

\* SetMuted, with the owner's emergency stop.
SetMuted(muted) ==
    /\ UpdateMood([status EXCEPT !.muted = muted,
                                 !.mood = IF muted THEN "muted" ELSE "resting"])
    /\ UNCHANGED <<paired, socket, rounds, pairingActive, qr, qrOut, codes, events, logout, timers, raced>>

LinkNext ==
    \/ Reconnect \/ BeginRound \/ IssueCode \/ ShowCode \/ Scan \/ EndRound
    \/ LinkFails \/ LinkReturns \/ HandleEvent
    \/ LogoutUnlinks \/ LogoutTells
    \/ React \/ SetResting
    \/ \E t \in 1 .. MaxTurns : RevertReaction(t)
    \/ \E muted \in BOOLEAN : SetMuted(muted)

LinkSpec == LinkInit /\ [][LinkNext]_linkVars
-----------------------------------------------------------------------------
LinkTypeOK ==
    /\ paired \in BOOLEAN /\ socket \in {"up", "lost", "down"}
    /\ rounds \in [{"starting", "showing"} -> Nat] /\ pairingActive \in BOOLEAN
    /\ qr \in {"none", "code", "expired"} /\ qrOut \in 0 .. QrBuffer /\ codes \in 0 .. MaxCodes
    /\ events \in Seq({"connected", "disconnected", "replaced", "banned", "loggedout"})
    /\ Len(events) <= MaxEvents
    /\ status \in [mood : Moods, connected : BOOLEAN, showQR : BOOLEAN, muted : BOOLEAN]
    /\ turn \in 0 .. MaxTurns /\ timers \subseteq 1 .. turn
    /\ logout \in BOOLEAN /\ raced \in BOOLEAN

\* At most one pairing round runs, however often the button is pressed and
\* whatever ended the last (Reconnect's and pairLoop's pairingActive: one
\* writer of qrOut).
OneRound == rounds.starting + rounds.showing <= 1

\* The revert that would still take effect belongs to the reaction that is
\* shown: it never takes a stop, an error or a newer reaction off the face.  A
\* QR code is the exception: main shows it without a new turn (state.React).
RevertIsCurrent == \A t \in timers : t = turn => status.mood \in {"reaction", "qr"}

\* With every event handled and no logout under way, the dashboard says
\* connected only while the account is linked and up, or whatsmeow is about to
\* say otherwise (Adapter.Logout: "state.Manager would keep reporting
\* connected").  An event that a logout overtakes is the exception.
ConnectedIsTrue ==
    (events = <<>> /\ ~logout /\ ~raced /\ status.connected) => (paired /\ socket = "up")

\* The dashboard's view of the link and the pairing that may replace it.
LinkHolds == OneRound /\ ConnectedIsTrue
=============================================================================
