--------------------------- MODULE AdapterProofs ----------------------------
(***************************************************************************)
(* Theorems about what brings messages in: the connection, the media       *)
(* files, the avatars, the hidden identities and the inbound pipeline.     *)
(***************************************************************************)
EXTENDS Link, Media, Avatars, Identities, Pipeline, TLAPS

-----------------------------------------------------------------------------
(* The connection (Link). *)

EventKinds == {"connected", "disconnected", "replaced", "banned", "loggedout"}

\* LinkTypeOK without the bounds of the instances.
LinkTypes ==
    /\ paired \in BOOLEAN /\ socket \in {"up", "lost", "down"}
    /\ rounds \in [starting : Nat, showing : Nat] /\ pairingActive \in BOOLEAN
    /\ events \in Seq(EventKinds)
    /\ status \in [mood : Moods, connected : BOOLEAN, showQR : BOOLEAN, muted : BOOLEAN]
    /\ turn \in Nat /\ timers \subseteq Nat
    /\ logout \in BOOLEAN /\ raced \in BOOLEAN

\* pairingActive counts the rounds.
RoundsCounted == rounds.starting + rounds.showing = (IF pairingActive THEN 1 ELSE 0)

\* No timer is ahead of the turn.
TimersPast == \A t \in timers : t <= turn

Linked == paired /\ socket = "up"

\* What the status will say once the events on their way are handled.
TruthComes ==
    ~raced => IF events = <<>> THEN ~logout /\ status.connected => Linked
              ELSE events[Len(events)] = "connected" => Linked

LinkInv == LinkTypes /\ RoundsCounted /\ TimersPast /\ RevertIsCurrent /\ TruthComes

roundVars == <<rounds, pairingActive>>
truthVars == <<paired, socket, events, logout, raced>>

LEMMA LinkInitInv == LinkInit => LinkInv
<1> SUFFICES ASSUME LinkInit PROVE LinkInv
  OBVIOUS
<1>1. PICK muted \in BOOLEAN :
         status = [mood |-> IF muted THEN "muted" ELSE "idle", connected |-> FALSE,
                   showQR |-> FALSE, muted |-> muted]
  BY DEF LinkInit
<1>2. status \in [mood : Moods, connected : BOOLEAN, showQR : BOOLEAN, muted : BOOLEAN]
  BY <1>1 DEF Moods
<1>3. events \in Seq(EventKinds) /\ ~status.connected
  BY <1>1 DEF LinkInit
<1>4. LinkTypes
  BY <1>2, <1>3 DEF LinkInit, LinkTypes
<1>5. RoundsCounted /\ TimersPast /\ RevertIsCurrent /\ TruthComes
  BY <1>3 DEF LinkInit, RoundsCounted, TimersPast, RevertIsCurrent, TruthComes
<1> QED BY <1>4, <1>5 DEF LinkInv
-----------------------------------------------------------------------------
\* A turn nobody waits for: every revert to come is an older one's.
LEMMA NewTurn ==
    ASSUME LinkInv, turn' = turn + 1, timers' = timers
    PROVE  turn' \in Nat /\ TimersPast' /\ RevertIsCurrent'
BY DEF LinkInv, LinkTypes, TimersPast, RevertIsCurrent

LEMMA SameTurn ==
    ASSUME LinkInv, UNCHANGED <<turn, timers>>, status'.mood \in {status.mood, "qr"}
    PROVE  TimersPast' /\ RevertIsCurrent'
BY DEF LinkInv, LinkTypes, TimersPast, RevertIsCurrent

\* An event joins those on their way.
LEMMA EventComes ==
    ASSUME LinkInv, NEW e \in EventKinds, events' = Append(events, e),
           e = "connected" => Linked'
    PROVE  events' \in Seq(EventKinds) /\ TruthComes'
<1>1. events' # <<>> /\ events'[Len(events')] = e /\ events' \in Seq(EventKinds)
  BY DEF LinkInv, LinkTypes
<1> QED BY <1>1 DEF TruthComes

LEMMA EventGoes ==
    ASSUME LinkInv, events # <<>>, events' = Tail(events),
           UNCHANGED <<paired, socket, logout, raced>>,
           status'.connected => Head(events) = "connected"
    PROVE  events' \in Seq(EventKinds) /\ TruthComes'
<1>1. events \in Seq(EventKinds) /\ Len(events) \in Nat \ {0}
  BY DEF LinkInv, LinkTypes
<1>2. CASE Len(events) = 1
  <2>1. events' = <<>> /\ Head(events) = events[Len(events)]
    BY <1>1, <1>2
  <2> QED BY <2>1, <1>1 DEF LinkInv, TruthComes, Linked
<1>3. CASE Len(events) # 1
  <2>1. events' \in Seq(EventKinds) /\ Len(events') = Len(events) - 1 /\ Len(events') \in Nat \ {0}
    BY <1>1, <1>3
  <2>2. events'[Len(events')] = events[Len(events') + 1]
    BY <1>1, <2>1
  <2>3. events' # <<>> /\ events'[Len(events')] = events[Len(events)]
    <3>1. Len(events') + 1 = Len(events)
      BY <1>1, <2>1
    <3>2. events' # <<>>
      BY <2>1
    <3> QED BY <3>1, <3>2, <2>2
  <2> QED BY <2>1, <2>3 DEF LinkInv, TruthComes, Linked
<1> QED BY <1>2, <1>3
-----------------------------------------------------------------------------
LEMMA LinkStepInv ==
    ASSUME LinkInv, [LinkNext]_linkVars
    PROVE  LinkInv'
<1> USE DEF LinkInv
<1>1. CASE Reconnect
  <2>1. /\ RoundsCounted' /\ rounds' \in [starting : Nat, showing : Nat] /\ pairingActive' \in BOOLEAN
    BY <1>1 DEF Reconnect, MayPair, LinkTypes, RoundsCounted
  <2>2. TimersPast' /\ RevertIsCurrent'
    BY <1>1, SameTurn DEF Reconnect
  <2> QED BY <1>1, <2>1, <2>2 DEF Reconnect, LinkTypes, TruthComes, Linked
<1>2. CASE BeginRound
  <2>1. PICK ok \in BOOLEAN :
          /\ rounds' = [starting |-> rounds.starting - 1,
                        showing |-> rounds.showing + (IF ok THEN 1 ELSE 0)]
          /\ pairingActive' = ok
    BY <1>2 DEF BeginRound
  <2>2. rounds.starting \in Nat \ {0} /\ rounds.showing \in Nat /\ pairingActive
    BY <1>2 DEF BeginRound, LinkTypes, RoundsCounted
  <2>3. rounds.starting = 1 /\ rounds.showing = 0
    BY <2>2 DEF RoundsCounted
  <2>4. RoundsCounted' /\ rounds' \in [starting : Nat, showing : Nat]
    BY <2>1, <2>3 DEF RoundsCounted
  <2>5. TimersPast' /\ RevertIsCurrent'
    BY <1>2, SameTurn DEF BeginRound
  <2> QED BY <1>2, <2>1, <2>4, <2>5 DEF BeginRound, LinkTypes, TruthComes, Linked
<1>3. CASE IssueCode
  BY <1>3, SameTurn DEF IssueCode, LinkTypes, RoundsCounted, TruthComes, Linked
<1>4. CASE ShowCode
  <2>1. /\ status' \in [mood : Moods, connected : BOOLEAN, showQR : BOOLEAN, muted : BOOLEAN]
        /\ status'.mood = "qr" /\ status'.connected = status.connected
    BY <1>4 DEF ShowCode, LinkTypes, Moods
  <2>2. TimersPast' /\ RevertIsCurrent'
    BY <1>4, <2>1, SameTurn DEF ShowCode
  <2> QED BY <1>4, <2>1, <2>2 DEF ShowCode, LinkTypes, RoundsCounted, TruthComes, Linked
<1>5. CASE Scan
  <2>1. events' \in Seq(EventKinds) /\ TruthComes'
    BY <1>5, EventComes DEF Scan, EventKinds, Linked
  <2>2. TimersPast' /\ RevertIsCurrent'
    BY <1>5, SameTurn DEF Scan
  <2> QED BY <1>5, <2>1, <2>2 DEF Scan, LinkTypes, RoundsCounted
<1>6. CASE EndRound
  <2>1. rounds.showing \in Nat \ {0} /\ rounds.starting \in Nat /\ pairingActive
    BY <1>6 DEF EndRound, LinkTypes, RoundsCounted
  <2>5. rounds = [starting |-> 0, showing |-> 1]
    BY <2>1 DEF LinkTypes, RoundsCounted
  <2>6. rounds' = [starting |-> 0, showing |-> 0] /\ ~pairingActive'
    BY <1>6, <2>5 DEF EndRound
  <2>7. rounds' \in [starting : Nat, showing : Nat] /\ pairingActive' \in BOOLEAN
    <3>1. rounds' \in [starting : Nat, showing : Nat]
      BY <2>6
    <3>2. pairingActive' \in BOOLEAN
      BY <1>6, Zenon DEF EndRound
    <3> QED BY <3>1, <3>2
  <2>8. rounds'.starting = 0 /\ rounds'.showing = 0
    BY <2>6
  <2>9. rounds'.starting + rounds'.showing = 0
    BY <2>8
  <2>2. RoundsCounted' /\ rounds' \in [starting : Nat, showing : Nat] /\ pairingActive' \in BOOLEAN
    BY <2>6, <2>7, <2>9 DEF RoundsCounted
  <2>3. TimersPast' /\ RevertIsCurrent'
    BY <1>6, SameTurn DEF EndRound
  <2>4. socket' \in {"up", "lost", "down"} /\ TruthComes'
    BY <1>6 DEF EndRound, LinkTypes, TruthComes, Linked
  <2> QED BY <1>6, <2>2, <2>3, <2>4 DEF EndRound, LinkTypes
<1>7. CASE LinkFails
  <2>1. PICK e \in EventKinds : events' = Append(events, e) /\ e # "connected"
    BY <1>7 DEF LinkFails, EventKinds
  <2>2. events' \in Seq(EventKinds) /\ TruthComes'
    BY <2>1, EventComes
  <2>3. TimersPast' /\ RevertIsCurrent'
    BY <1>7, SameTurn DEF LinkFails
  <2> QED BY <1>7, <2>2, <2>3 DEF LinkFails, LinkTypes, RoundsCounted
<1>8. CASE LinkReturns
  <2>1. events' \in Seq(EventKinds) /\ TruthComes'
    BY <1>8, EventComes DEF LinkReturns, EventKinds, Linked
  <2>2. TimersPast' /\ RevertIsCurrent'
    BY <1>8, SameTurn DEF LinkReturns
  <2> QED BY <1>8, <2>1, <2>2 DEF LinkReturns, LinkTypes, RoundsCounted
<1>9. CASE HandleEvent
  <2>1. /\ status' \in [mood : Moods, connected : BOOLEAN, showQR : BOOLEAN, muted : BOOLEAN]
        /\ status'.connected => Head(events) = "connected"
        /\ turn' = turn + 1
    BY <1>9 DEF HandleEvent, UpdateMood, ClearErrorState, HandleDisconnect, LinkTypes, Moods
  <2>2. events' \in Seq(EventKinds) /\ TruthComes'
    BY <1>9, <2>1, EventGoes DEF HandleEvent
  <2>3. turn' \in Nat /\ TimersPast' /\ RevertIsCurrent'
    BY <1>9, <2>1, NewTurn DEF HandleEvent
  <2> QED BY <1>9, <2>1, <2>2, <2>3 DEF HandleEvent, LinkTypes, RoundsCounted
<1>10. CASE LogoutUnlinks
  <2>1. TimersPast' /\ RevertIsCurrent'
    BY <1>10, SameTurn DEF LogoutUnlinks
  <2>2. raced' \in BOOLEAN /\ TruthComes'
    BY <1>10 DEF LogoutUnlinks, LinkTypes, TruthComes
  <2> QED BY <1>10, <2>1, <2>2 DEF LogoutUnlinks, LinkTypes, RoundsCounted
<1>11. CASE LogoutTells
  <2>1. /\ status' \in [mood : Moods, connected : BOOLEAN, showQR : BOOLEAN, muted : BOOLEAN]
        /\ status'.mood = status.mood /\ ~status'.connected
    BY <1>11 DEF LogoutTells, StatusTold, LinkTypes
  <2>2. TimersPast' /\ RevertIsCurrent'
    BY <1>11, <2>1, SameTurn DEF LogoutTells
  <2> QED BY <1>11, <2>1, <2>2 DEF LogoutTells, LinkTypes, RoundsCounted, TruthComes, Linked
<1>12. CASE React
  <2>1. /\ status' \in [mood : Moods, connected : BOOLEAN, showQR : BOOLEAN, muted : BOOLEAN]
        /\ status'.mood = "reaction" /\ status'.connected = status.connected
        /\ turn' = turn + 1 /\ timers' = timers \cup {turn'}
    BY <1>12 DEF React, UpdateMood, LinkTypes, Moods
  <2>2. turn' \in Nat /\ timers' \subseteq Nat /\ TimersPast' /\ RevertIsCurrent'
    BY <2>1 DEF LinkTypes, TimersPast, RevertIsCurrent
  <2> QED BY <1>12, <2>1, <2>2 DEF React, LinkTypes, RoundsCounted, TruthComes, Linked
<1>13. ASSUME NEW t \in 1 .. MaxTurns, RevertReaction(t)
       PROVE  LinkInv'
  <2>1. /\ status' \in [mood : Moods, connected : BOOLEAN, showQR : BOOLEAN, muted : BOOLEAN]
        /\ status'.connected = status.connected
        /\ t # turn => status' = status
        /\ timers' = timers \ {t} /\ turn' = turn
    BY <1>13 DEF RevertReaction, LinkTypes, Moods
  <2>2. TimersPast' /\ RevertIsCurrent'
    BY <2>1 DEF TimersPast, RevertIsCurrent
  <2> QED BY <1>13, <2>1, <2>2 DEF RevertReaction, LinkTypes, RoundsCounted, TruthComes, Linked
<1>14. CASE SetResting
  <2>1. /\ status' \in [mood : Moods, connected : BOOLEAN, showQR : BOOLEAN, muted : BOOLEAN]
        /\ status'.connected = status.connected /\ turn' = turn + 1
    BY <1>14 DEF SetResting, UpdateMood, LinkTypes, Moods
  <2>2. turn' \in Nat /\ TimersPast' /\ RevertIsCurrent'
    BY <1>14, <2>1, NewTurn DEF SetResting
  <2> QED BY <1>14, <2>1, <2>2 DEF SetResting, LinkTypes, RoundsCounted, TruthComes, Linked
<1>15. ASSUME NEW muted \in BOOLEAN, SetMuted(muted)
       PROVE  LinkInv'
  <2>1. /\ status' \in [mood : Moods, connected : BOOLEAN, showQR : BOOLEAN, muted : BOOLEAN]
        /\ status'.connected = status.connected /\ turn' = turn + 1
    BY <1>15 DEF SetMuted, UpdateMood, LinkTypes, Moods
  <2>2. turn' \in Nat /\ TimersPast' /\ RevertIsCurrent'
    BY <1>15, <2>1, NewTurn DEF SetMuted
  <2> QED BY <1>15, <2>1, <2>2 DEF SetMuted, LinkTypes, RoundsCounted, TruthComes, Linked
<1>16. CASE UNCHANGED linkVars
  BY <1>16, SameTurn DEF linkVars, LinkTypes, RoundsCounted, TruthComes, Linked
<1> QED
  BY <1>1, <1>2, <1>3, <1>4, <1>5, <1>6, <1>7, <1>8, <1>9, <1>10, <1>11, <1>12, <1>13,
     <1>14, <1>15, <1>16
     DEF LinkNext

\* The inductive invariant of pairing, connection and face (adapter.go,
\* inbound.go, state.go).
THEOREM LinkInvariant == LinkSpec => []LinkInv
BY LinkInitInv, LinkStepInv, PTL DEF LinkSpec

\* One pairing round at a time, and a status that says connected only of a
\* linked account, but for an event that a logout overtakes (Adapter.Reconnect,
\* pairLoop, Logout).
THEOREM LinkIsTrue == LinkSpec => []LinkHolds
<1>1. LinkInv => OneRound
  BY DEF LinkInv, RoundsCounted, OneRound
<1>2. LinkInv => ConnectedIsTrue
  BY DEF LinkInv, LinkTypes, TruthComes, Linked, ConnectedIsTrue
<1>3. LinkInv => LinkHolds
  BY <1>1, <1>2 DEF LinkHolds
<1> QED BY <1>3, LinkInvariant, PTL

\* A revert that would still take effect belongs to the reaction on the face
\* (state.React's generation).
THEOREM RevertsAreCurrent == LinkSpec => []RevertIsCurrent
<1>1. LinkInv => RevertIsCurrent
  BY DEF LinkInv
<1> QED BY <1>1, LinkInvariant, PTL

\* LinkTypeOK beside LinkInv.
LinkBounds ==
    /\ qr \in {"none", "code", "expired"} /\ qrOut \in 0 .. QrBuffer /\ codes \in 0 .. MaxCodes
    /\ Len(events) <= MaxEvents
    /\ turn \in 0 .. MaxTurns /\ timers \subseteq 1 .. turn

LEMMA LinkInitBounds == LinkInit => LinkBounds
<1> SUFFICES ASSUME LinkInit PROVE LinkBounds
  OBVIOUS
<1>1. events = <<>> /\ turn = 0 /\ timers = {} /\ codes = 0 /\ qrOut = 0 /\ qr = "none"
  BY DEF LinkInit
<1> QED BY <1>1, LinkAssumption DEF LinkBounds

LEMMA LinkStepBounds ==
    ASSUME LinkInv, LinkBounds, [LinkNext]_linkVars PROVE LinkBounds'
<1>1. /\ events \in Seq(EventKinds) /\ Len(events) \in Nat /\ Len(events) <= MaxEvents
      /\ MaxEvents \in Nat \ {0} /\ MaxTurns \in Nat /\ MaxCodes \in Nat /\ QrBuffer \in Nat
  BY LinkAssumption DEF LinkInv, LinkTypes, LinkBounds
<1>2. /\ turn \in Nat /\ turn <= MaxTurns /\ timers \subseteq 1 .. turn
      /\ qrOut \in Nat /\ qrOut <= QrBuffer /\ codes \in Nat /\ codes <= MaxCodes
      /\ qr \in {"none", "code", "expired"}
  BY <1>1 DEF LinkBounds
<1>3. /\ qr' \in {"none", "code", "expired"}
      /\ qrOut' \in 0 .. QrBuffer /\ codes' \in 0 .. MaxCodes
  <2>1. qr' = qr \/ qr' = "none" \/ qr' = "code" \/ qr' = "expired"
    BY DEF LinkNext, linkVars, Reconnect, BeginRound, IssueCode, ShowCode, Scan, EndRound,
       LinkFails, LinkReturns, HandleEvent, LogoutUnlinks, LogoutTells, React, SetResting,
       RevertReaction, SetMuted
  <2>2. \/ qrOut' = qrOut
        \/ qrOut < QrBuffer /\ qrOut' = qrOut + 1
        \/ qrOut > 0 /\ qrOut' = qrOut - 1
    BY DEF LinkNext, linkVars, Reconnect, BeginRound, IssueCode, ShowCode, Scan, EndRound,
       LinkFails, LinkReturns, HandleEvent, LogoutUnlinks, LogoutTells, React, SetResting,
       RevertReaction, SetMuted
  <2>3. codes' = codes \/ (codes < MaxCodes /\ codes' = codes + 1)
    BY DEF LinkNext, linkVars, Reconnect, BeginRound, IssueCode, ShowCode, Scan, EndRound,
       LinkFails, LinkReturns, HandleEvent, LogoutUnlinks, LogoutTells, React, SetResting,
       RevertReaction, SetMuted
  <2>4. qr' \in {"none", "code", "expired"}
    BY <1>2, <2>1
  <2>5. qrOut' \in 0 .. QrBuffer
    BY <1>1, <1>2, <2>2
  <2>6. codes' \in 0 .. MaxCodes
    BY <1>1, <1>2, <2>3
  <2> QED BY <2>4, <2>5, <2>6
<1>4. Len(events') <= MaxEvents
  <2>1. UNCHANGED events \/ (events # <<>> /\ events' = Tail(events))
        \/ \E e \in EventKinds : Len(events) < MaxEvents /\ events' = Append(events, e)
    BY DEF LinkNext, linkVars, Reconnect, BeginRound, IssueCode, ShowCode, Scan,
       EndRound, LinkFails, LinkReturns, HandleEvent, LogoutUnlinks, LogoutTells, React,
       SetResting, RevertReaction, SetMuted, EventKinds
  <2>2. CASE UNCHANGED events
    BY <1>1, <2>2
  <2>3. CASE events # <<>> /\ events' = Tail(events)
    BY <1>1, <2>3
  <2>4. CASE \E e \in EventKinds : Len(events) < MaxEvents /\ events' = Append(events, e)
    BY <1>1, <2>4
  <2> QED BY <2>1, <2>2, <2>3, <2>4
<1>5. /\ turn' = turn \/ (turn < MaxTurns /\ turn' = turn + 1)
      /\ timers' \subseteq timers \cup {turn'} /\ (timers' \subseteq timers \/ turn' = turn + 1)
  BY DEF LinkNext, linkVars, Reconnect, BeginRound, IssueCode, ShowCode, Scan,
     EndRound, LinkFails, LinkReturns, HandleEvent, LogoutUnlinks, LogoutTells, React,
     SetResting, RevertReaction, SetMuted, UpdateMood
<1>6. turn' \in 0 .. MaxTurns /\ timers' \subseteq 1 .. turn'
  <2>1. CASE turn' = turn
    BY <1>1, <1>2, <1>5, <2>1
  <2>2. CASE turn < MaxTurns /\ turn' = turn + 1
    BY <1>1, <1>2, <1>5, <2>2
  <2> QED BY <1>5, <2>1, <2>2
<1> QED BY <1>3, <1>4, <1>6 DEF LinkBounds

\* Types of the connection, its codes, events and moods (adapter.go, state.go).
THEOREM LinkTypeCorrect == LinkSpec => []LinkTypeOK
<1>1. LinkInv /\ LinkBounds => LinkTypeOK
  <2> SUFFICES ASSUME LinkInv, LinkBounds PROVE LinkTypeOK
    OBVIOUS
  <2>1. rounds \in [{"starting", "showing"} -> Nat]
    BY DEF LinkInv, LinkTypes
  <2> QED BY <2>1 DEF LinkInv, LinkTypes, LinkBounds, LinkTypeOK, EventKinds
<1>2. LinkInv /\ LinkBounds /\ [LinkNext]_linkVars => LinkBounds'
  BY LinkStepBounds
<1> QED BY <1>1, <1>2, LinkInvariant, LinkInitBounds, PTL DEF LinkSpec

-----------------------------------------------------------------------------
(* Media files (Media). *)

Stages == {"picked", "downloading", "stored", "transient", "permanent"}

\* A fetcher at work has a file, and one past the download has stored it.
FetchersOK ==
    \A w \in Fetchers :
        /\ fetcher[w].at # "idle" => fetcher[w].file \in Files
        /\ fetcher[w].at = "stored" => fetcher[w].file \in media

MediaInv == MediaTypeOK /\ FetchersOK /\ ReferenceKept

LEMMA MediaInitInv == MediaInit => MediaInv
<1> SUFFICES ASSUME MediaInit PROVE MediaInv
  OBVIOUS
<1>1. fetcher = [w \in Fetchers |-> [at |-> "idle", file |-> NoFile]]
  BY DEF MediaInit, Free
<1>2. 0 \in 0 .. MaxCaptures /\ 0 \in 0 .. MaxOutages
  BY MediaAssumption
<1>3. MediaTypeOK
  BY <1>1, <1>2 DEF MediaInit, MediaTypeOK
<1>4. FetchersOK /\ ReferenceKept
  BY <1>1 DEF MediaInit, FetchersOK, ReferenceKept
<1> QED BY <1>3, <1>4 DEF MediaInv
-----------------------------------------------------------------------------
\* One fetcher moves on; what it still claims about its file holds.
LEMMA FetcherMoves ==
    ASSUME MediaInv, NEW w \in Fetchers, NEW new,
           new \in [at : {"idle"} \cup Stages, file : Files \cup {NoFile}],
           new.at # "idle" => new.file \in Files,
           new.at = "stored" => new.file \in media',
           media \subseteq media', fetcher' = [fetcher EXCEPT ![w] = new]
    PROVE  /\ FetchersOK'
           /\ fetcher' \in [Fetchers -> [at : {"idle", "picked", "downloading", "stored",
                                              "transient", "permanent"},
                                         file : Files \cup {NoFile}]]
<1>1. \A v \in Fetchers : fetcher'[v] = IF v = w THEN new ELSE fetcher[v]
  BY DEF MediaInv, MediaTypeOK
<1> QED BY <1>1 DEF MediaInv, MediaTypeOK, FetchersOK, Stages

\* Nothing is dropped whose file is not there.
LEMMA KeptStillKept ==
    ASSUME MediaInv, referenced' = referenced, media \subseteq media',
           \A f \in Files : waiting[f] # NoFile => waiting'[f] # NoFile \/ f \in media'
    PROVE  ReferenceKept'
BY DEF MediaInv, MediaTypeOK, ReferenceKept

\* A counted attempt is within the bound.
LEMMA AttemptsBounded ==
    ASSUME NEW n \in 0 .. MaxAttempts + 1
    PROVE  /\ MaxAttempts \in 0 .. MaxAttempts + 1
           /\ (IF n > MaxAttempts THEN n ELSE n + 1) \in 0 .. MaxAttempts + 1
           /\ MaxAttempts # NoFile
           /\ (IF n > MaxAttempts THEN n ELSE n + 1) # NoFile
BY MediaAssumption
-----------------------------------------------------------------------------
LEMMA FetchInv ==
    ASSUME MediaInv, NEW w \in Fetchers, Fetch(w)
    PROVE  MediaInv'
<1> USE DEF MediaInv
<1>0. /\ fetcher[w] \in [at : {"idle"} \cup Stages, file : Files \cup {NoFile}]
      /\ fetcher[w].at # "idle" => fetcher[w].file \in Files
      /\ [at |-> "idle", file |-> NoFile] \in [at : {"idle"} \cup Stages, file : Files \cup {NoFile}]
  BY DEF MediaTypeOK, FetchersOK, Stages
<1>1. CASE Claim(w)
  <2>1. PICK new \in [at : {"idle"} \cup Stages, file : Files \cup {NoFile}] :
          /\ fetcher' = [fetcher EXCEPT ![w] = new]
          /\ new.at # "idle" => new.file \in Files
          /\ new.at # "stored"
    <3>1. CASE fetcher[w].file \in inFlight
      <4>1. fetcher' = [fetcher EXCEPT ![w] = [at |-> "idle", file |-> NoFile]]
        BY <1>1, <3>1 DEF Claim, Free
      <4> QED BY <4>1, <1>0
    <3>2. CASE fetcher[w].file \notin inFlight
      <4> DEFINE new == [fetcher[w] EXCEPT !.at = "downloading"]
      <4>1. fetcher' = [fetcher EXCEPT ![w] = new]
        BY <1>1, <3>2 DEF Claim, MediaTypeOK
      <4>2. new \in [at : {"idle"} \cup Stages, file : Files \cup {NoFile}]
            /\ new.file = fetcher[w].file /\ new.at = "downloading" /\ fetcher[w].at # "idle"
        BY <1>0, <1>1 DEF Claim, Stages
      <4> QED BY <4>1, <4>2, <1>0
    <3> QED BY <3>1, <3>2
  <2>2. inFlight' \subseteq Files
    BY <1>0, <1>1 DEF Claim, MediaTypeOK
  <2>3. FetchersOK' /\ fetcher' \in [Fetchers -> [at : {"idle", "picked", "downloading", "stored",
                                              "transient", "permanent"},
                                         file : Files \cup {NoFile}]]
    BY <1>1, <2>1, FetcherMoves DEF Claim
  <2>4. ReferenceKept'
    BY <1>1, KeptStillKept DEF Claim
  <2> QED BY <1>1, <2>2, <2>3, <2>4 DEF Claim, MediaTypeOK
<1>2. CASE DownloadWorks(w)
  <2> DEFINE new == [fetcher[w] EXCEPT !.at = "stored"]
  <2>1. /\ new \in [at : {"idle"} \cup Stages, file : Files \cup {NoFile}]
        /\ new.file = fetcher[w].file /\ fetcher[w].file \in Files
        /\ fetcher' = [fetcher EXCEPT ![w] = new]
    BY <1>0, <1>2 DEF DownloadWorks, Stages, MediaTypeOK
  <2>2. media' = media \cup {fetcher[w].file} /\ media' \subseteq Files
    BY <1>2, <2>1 DEF DownloadWorks, MediaTypeOK
  <2>3. FetchersOK' /\ fetcher' \in [Fetchers -> [at : {"idle", "picked", "downloading", "stored",
                                              "transient", "permanent"},
                                         file : Files \cup {NoFile}]]
    BY <2>1, <2>2, FetcherMoves
  <2>4. ReferenceKept'
    BY <1>2, <2>2, KeptStillKept DEF DownloadWorks
  <2> QED BY <1>2, <2>2, <2>3, <2>4 DEF DownloadWorks, MediaTypeOK
<1>3. CASE DropReference(w)
  <2>1. fetcher' = [fetcher EXCEPT ![w] = [at |-> "idle", file |-> NoFile]]
    BY <1>3 DEF DropReference, Free
  <2>2. FetchersOK' /\ fetcher' \in [Fetchers -> [at : {"idle", "picked", "downloading", "stored",
                                              "transient", "permanent"},
                                         file : Files \cup {NoFile}]]
    BY <1>0, <1>3, <2>1, FetcherMoves DEF DropReference
  <2>3. fetcher[w].file \in media /\ fetcher[w].file \in Files
    BY <1>0, <1>3 DEF DropReference, FetchersOK
  <2>4. waiting' = [waiting EXCEPT ![fetcher[w].file] = NoFile]
    BY <1>3 DEF DropReference
  <2>5. ReferenceKept'
    BY <1>3, <2>3, <2>4, KeptStillKept DEF DropReference, MediaTypeOK
  <2>6. waiting' \in [Files -> 0 .. MaxAttempts + 1 \cup {NoFile}]
    BY <2>4 DEF MediaTypeOK
  <2> QED BY <1>3, <2>2, <2>5, <2>6 DEF DropReference, MediaTypeOK
<1>4. CASE DownloadFails(w)
  <2>1. PICK verdict \in {"transient", "permanent"} :
          fetcher' = [fetcher EXCEPT ![w].at = verdict]
    BY <1>4 DEF DownloadFails
  <2> DEFINE new == [fetcher[w] EXCEPT !.at = verdict]
  <2>2. /\ new \in [at : {"idle"} \cup Stages, file : Files \cup {NoFile}]
        /\ new.file = fetcher[w].file /\ fetcher[w].file \in Files
        /\ new.at # "stored"
        /\ fetcher' = [fetcher EXCEPT ![w] = new]
    BY <1>0, <1>4, <2>1 DEF DownloadFails, Stages, MediaTypeOK
  <2>3. FetchersOK' /\ fetcher' \in [Fetchers -> [at : {"idle", "picked", "downloading", "stored",
                                              "transient", "permanent"},
                                         file : Files \cup {NoFile}]]
    BY <1>4, <2>2, FetcherMoves DEF DownloadFails
  <2>4. ReferenceKept'
    BY <1>4, KeptStillKept DEF DownloadFails
  <2> QED BY <1>4, <2>3, <2>4 DEF DownloadFails, MediaTypeOK
<1>5. CASE RecordFailure(w)
  <2> DEFINE f == fetcher[w].file
  <2>1. f \in Files /\ waiting[f] \in 0 .. MaxAttempts + 1 \cup {NoFile}
    BY <1>0, <1>5 DEF RecordFailure, MediaTypeOK
  <2>2. PICK n \in 0 .. MaxAttempts + 1 \cup {NoFile} :
          /\ waiting' = [waiting EXCEPT ![f] = n]
          /\ waiting[f] # NoFile => n # NoFile
    <3>1. CASE waiting[f] = NoFile
      <4>1. waiting' = [waiting EXCEPT ![f] = NoFile]
        BY <1>5, <3>1 DEF RecordFailure
      <4> QED BY <4>1, <3>1
    <3>2. CASE waiting[f] # NoFile /\ fetcher[w].at = "permanent"
      <4>1. waiting' = [waiting EXCEPT ![f] = MaxAttempts]
        BY <1>5, <3>2 DEF RecordFailure
      <4>2. waiting[f] \in 0 .. MaxAttempts + 1
        BY <2>1, <3>2
      <4> QED BY <4>1, <4>2, AttemptsBounded
    <3>3. CASE waiting[f] # NoFile /\ fetcher[w].at # "permanent"
      <4> DEFINE more == IF waiting[f] > MaxAttempts THEN waiting[f] ELSE waiting[f] + 1
      <4>1. waiting' = [waiting EXCEPT ![f] = more]
        BY <1>5, <3>3 DEF RecordFailure
      <4>2. waiting[f] \in 0 .. MaxAttempts + 1
        BY <2>1, <3>3
      <4>3. more \in 0 .. MaxAttempts + 1 /\ more # NoFile
        BY <4>2, AttemptsBounded
      <4> HIDE DEF more
      <4> QED BY <4>1, <4>3
    <3> QED BY <3>1, <3>2, <3>3
  <2>3. fetcher' = [fetcher EXCEPT ![w] = [at |-> "idle", file |-> NoFile]]
    BY <1>5 DEF RecordFailure, Free
  <2>4. FetchersOK' /\ fetcher' \in [Fetchers -> [at : {"idle", "picked", "downloading", "stored",
                                              "transient", "permanent"},
                                         file : Files \cup {NoFile}]]
    BY <1>0, <1>5, <2>3, FetcherMoves DEF RecordFailure
  <2>5. ReferenceKept'
    BY <1>5, <2>2, KeptStillKept DEF RecordFailure, MediaTypeOK
  <2>6. waiting' \in [Files -> 0 .. MaxAttempts + 1 \cup {NoFile}]
    BY <2>2 DEF MediaTypeOK
  <2> QED BY <1>5, <2>4, <2>5, <2>6 DEF RecordFailure, MediaTypeOK
<1> QED BY <1>1, <1>2, <1>3, <1>4, <1>5 DEF Fetch
-----------------------------------------------------------------------------
\* A fetcher takes up one file.
LEMMA PickInv ==
    ASSUME MediaInv, NEW w \in Fetchers, NEW f \in Files,
           fetcher' = [fetcher EXCEPT ![w] = [at |-> "picked", file |-> f]],
           burst' \subseteq Files, slot' \in Files \cup {NoFile},
           UNCHANGED <<media, waiting, inFlight, account, captures, outages, referenced>>
    PROVE  MediaInv'
<1>1. [at |-> "picked", file |-> f] \in [at : {"idle"} \cup Stages, file : Files \cup {NoFile}]
  BY DEF Stages
<1>2. FetchersOK' /\ fetcher' \in [Fetchers -> [at : {"idle", "picked", "downloading", "stored",
                                              "transient", "permanent"},
                                         file : Files \cup {NoFile}]]
  BY <1>1, FetcherMoves
<1>3. ReferenceKept'
  BY KeptStillKept
<1> QED BY <1>2, <1>3 DEF MediaInv, MediaTypeOK

LEMMA MediaStepInv ==
    ASSUME MediaInv, [MediaNext]_mediaVars
    PROVE  MediaInv'
<1> USE DEF MediaInv
<1>1. ASSUME NEW f \in Files, LiveMedia(f)
      PROVE  MediaInv'
  <2>1. media \subseteq media' /\ media' \subseteq Files
    BY <1>1 DEF LiveMedia, MediaTypeOK
  <2>2. ReferenceKept'
    BY <1>1, <2>1, KeptStillKept DEF LiveMedia
  <2>3. FetchersOK'
    BY <1>1, <2>1 DEF LiveMedia, FetchersOK
  <2> QED BY <1>1, <2>1, <2>2, <2>3 DEF LiveMedia, MediaTypeOK
<1>2. ASSUME NEW f \in Files, CaptureMediaPending(f)
      PROVE  MediaInv'
  <2>1. 0 # NoFile /\ 0 \in 0 .. MaxAttempts + 1 /\ captures' \in 0 .. MaxCaptures
    BY <1>2, MediaAssumption DEF CaptureMediaPending, MediaTypeOK
  <2>2. MediaTypeOK'
    BY <1>2, <2>1 DEF CaptureMediaPending, MediaTypeOK
  <2>3. ReferenceKept'
    BY <1>2, <2>1 DEF CaptureMediaPending, MediaTypeOK, ReferenceKept
  <2>4. FetchersOK'
    BY <1>2 DEF CaptureMediaPending, FetchersOK
  <2> QED BY <2>2, <2>3, <2>4
<1>3. CASE DownloadNextPendingMedia
  <2>1. PICK f \in Files :
          fetcher' = [fetcher EXCEPT !["background"] = [at |-> "picked", file |-> f]]
    BY <1>3 DEF DownloadNextPendingMedia
  <2>2. "background" \in Fetchers /\ burst' \subseteq Files /\ slot' \in Files \cup {NoFile}
    BY <1>3 DEF DownloadNextPendingMedia, MediaTypeOK, Fetchers
  <2> QED BY <1>3, <2>1, <2>2, PickInv DEF DownloadNextPendingMedia
<1>4. ASSUME NEW album \in Albums, OpenAlbum(album)
      PROVE  MediaInv'
  <2>1. burst' \subseteq Files
    BY <1>4 DEF OpenAlbum, Files
  <2> QED BY <1>4, <2>1 DEF OpenAlbum, MediaTypeOK, FetchersOK, ReferenceKept
<1>5. CASE FetchNext
  <2>1. burst' \subseteq Files /\ slot' \in Files \cup {NoFile}
    BY <1>5 DEF FetchNext, MediaTypeOK
  <2> QED BY <1>5, <2>1 DEF FetchNext, MediaTypeOK, FetchersOK, ReferenceKept
<1>6. ASSUME NEW w \in Goroutines, TakeSlot(w)
      PROVE  MediaInv'
  <2>1. /\ fetcher' = [fetcher EXCEPT ![w] = [at |-> "picked", file |-> slot]]
        /\ slot \in Files /\ w \in Fetchers
        /\ burst' \subseteq Files /\ slot' \in Files \cup {NoFile}
        /\ UNCHANGED <<media, waiting, inFlight, account, captures, outages, referenced>>
    BY <1>6 DEF TakeSlot, MediaTypeOK, Fetchers
  <2> QED BY <2>1, PickInv
<1>7. ASSUME NEW w \in Fetchers, Fetch(w)
      PROVE  MediaInv'
  BY <1>7, FetchInv
<1>8. ASSUME NEW w \in Fetchers, RecordLost(w)
      PROVE  MediaInv'
  <2>1. /\ fetcher' = [fetcher EXCEPT ![w] = [at |-> "idle", file |-> NoFile]]
        /\ UNCHANGED <<media, waiting, inFlight, burst, slot, account, captures, referenced>>
    BY <1>8 DEF RecordLost, Free
  <2>2. outages' \in 0 .. MaxOutages
    BY <1>8, MediaAssumption DEF RecordLost, MediaTypeOK
  <2>3. [at |-> "idle", file |-> NoFile] \in [at : {"idle"} \cup Stages, file : Files \cup {NoFile}]
    OBVIOUS
  <2>4. FetchersOK' /\ fetcher' \in [Fetchers -> [at : {"idle", "picked", "downloading", "stored",
                                              "transient", "permanent"},
                                         file : Files \cup {NoFile}]]
    BY <2>1, <2>3, FetcherMoves
  <2>5. ReferenceKept'
    BY <2>1 DEF ReferenceKept
  <2> QED BY <2>1, <2>2, <2>4, <2>5 DEF MediaTypeOK
<1>9. CASE Outage
  <2>1. outages' \in 0 .. MaxOutages
    BY <1>9, MediaAssumption DEF Outage, MediaTypeOK
  <2>2. account' \in {"linked", "offline", "stopped"}
    BY <1>9 DEF Outage
  <2> QED BY <1>9, <2>1, <2>2 DEF Outage, MediaTypeOK, FetchersOK, ReferenceKept
<1>10. CASE BackToWork
  <2>1. account' \in {"linked", "offline", "stopped"}
    BY <1>10 DEF BackToWork
  <2> QED BY <1>10, <2>1 DEF BackToWork, MediaTypeOK, FetchersOK, ReferenceKept
<1>11. CASE MediaRestart
  <2>1. outages' \in 0 .. MaxOutages
    BY <1>11, MediaAssumption DEF MediaRestart, MediaTypeOK
  <2>2. fetcher' = [w \in Fetchers |-> [at |-> "idle", file |-> NoFile]]
    BY <1>11 DEF MediaRestart, Free
  <2> QED BY <1>11, <2>1, <2>2 DEF MediaRestart, MediaTypeOK, FetchersOK, ReferenceKept
<1>12. CASE UNCHANGED mediaVars
  BY <1>12 DEF mediaVars, MediaTypeOK, FetchersOK, ReferenceKept
<1> QED
  BY <1>1, <1>2, <1>3, <1>4, <1>5, <1>6, <1>7, <1>8, <1>9, <1>10, <1>11, <1>12
     DEF MediaNext

\* The inductive invariant: types, and what a fetcher at work knows of its file.
THEOREM MediaInvariant == MediaSpec => []MediaInv
BY MediaInitInv, MediaStepInv, PTL DEF MediaSpec

\* A reference that was kept is kept until its file is, whoever fetches it,
\* fails or is cut short (downloadMediaPending, applyMediaDownloadFailure).
THEOREM KeptUntilStored == MediaSpec => []ReferenceKept
<1>1. MediaInv => ReferenceKept
  BY DEF MediaInv
<1> QED BY <1>1, MediaInvariant, PTL

-----------------------------------------------------------------------------
(* Avatars (Avatars). *)

Answering == {"unset", "same", "new", "error", "store"}

\* The worker is about a contact unless it idles.
Assigned ==
    /\ worker.at # "idle" => worker.contact \in Contacts
    /\ worker.at = "idle" => worker = Idling

\* Whoever waits is marked, and so is whom the worker has just taken, who
\* waits no more.
Marked ==
    /\ \A i \in 1 .. Len(queue) : queue[i] \in queued
    /\ worker.at = "taken" =>
          /\ worker.contact \in queued
          /\ \A i \in 1 .. Len(queue) : queue[i] # worker.contact

\* Nobody was asked about a contact that may be asked about.
Unasked ==
    \A j \in Contacts :
        \/ row[j].known /\ ~row[j].due
        \/ j \in failed
        \/ worker.contact = j /\ worker.at \in Answering
        \/ asks[j] = 0

AvatarsInv == AvatarsTypeOK /\ Assigned /\ Marked /\ Unasked /\ AsksFew

WorkerRecord ==
    [at : {"idle", "taken", "paced", "unset", "same", "new", "error", "store"},
     contact : Contacts \cup {NoPicture}, id : Pictures \cup {NoPicture}]

LEMMA IdlingHas == Idling \in WorkerRecord /\ Idling.at = "idle"
BY DEF Idling, WorkerRecord

LEMMA AvatarsInitInv == AvatarsInit => AvatarsInv
<1> SUFFICES ASSUME AvatarsInit PROVE AvatarsInv
  OBVIOUS
<1> USE AvatarsAssumption DEF AvatarsInit
<1>1. row \in [Contacts -> [known : BOOLEAN, id : Pictures \cup {NoPicture}, due : BOOLEAN]]
  BY DEF NoRow
<1>2. queue \in Seq(Contacts) /\ Len(queue) = 0
  OBVIOUS
<1>3. worker \in WorkerRecord /\ worker.at = "idle"
  BY IdlingHas
<1>4. resets \in 0 .. MaxResets /\ asks \in [Contacts -> {0}] /\ asks \in [Contacts -> 0 .. MaxAsks]
  OBVIOUS
<1>5. AvatarsTypeOK
  BY <1>1, <1>2, <1>3, <1>4 DEF AvatarsTypeOK, WorkerRecord
<1>6. Assigned /\ Marked /\ Unasked /\ AsksFew
  BY <1>2, <1>3, <1>4 DEF Assigned, Marked, Unasked, AsksFew, AskedOnce, QueuedOnce
<1> QED BY <1>5, <1>6 DEF AvatarsInv

LEMMA AvatarsStepInv ==
    ASSUME AvatarsInv, [AvatarsNext]_avatarVars
    PROVE  AvatarsInv'
<1> USE AvatarsAssumption
<1>0. /\ worker \in WorkerRecord /\ queue \in Seq(Contacts) /\ Len(queue) \in Nat
      /\ Len(queue) <= AvatarQueue /\ queued \subseteq Contacts
      /\ asks \in [Contacts -> 0 .. MaxAsks]
  BY DEF AvatarsInv, AvatarsTypeOK, WorkerRecord
\* The questions and the queue, when only one of them is touched.
<1>a. ASSUME UNCHANGED <<row, asks, failed>>,
             \A j \in Contacts : worker.contact = j /\ worker.at \in Answering
                  => worker'.contact = j /\ worker'.at \in Answering
      PROVE  Unasked' /\ AskedOnce'
  BY <1>a DEF AvatarsInv, Unasked, AsksFew, AskedOnce
<1>b. ASSUME UNCHANGED <<queue, queued>>, worker'.at # "taken"
      PROVE  Marked' /\ QueuedOnce'
  BY <1>b DEF AvatarsInv, Marked, AsksFew, QueuedOnce
<1>1. ASSUME NEW j \in Contacts, RequestAvatar(j) PROVE AvatarsInv'
  <2>1. /\ j \notin queued /\ Len(queue) < AvatarQueue
        /\ queue' = Append(queue, j) /\ queued' = queued \cup {j}
        /\ UNCHANGED <<picture, row, onDisk, worker, resets, asks, failed>>
    BY <1>1 DEF RequestAvatar, NotQueued
  <2>2. /\ queue' \in Seq(Contacts) /\ Len(queue') = Len(queue) + 1
        /\ queue'[Len(queue) + 1] = j
        /\ \A i \in 1 .. Len(queue) : queue'[i] = queue[i]
    BY <1>0, <2>1
  <2>3. AvatarsTypeOK'
    <3>1. Len(queue') <= AvatarQueue
      BY <1>0, <2>1, <2>2
    <3> QED BY <2>1, <2>2, <3>1 DEF AvatarsInv, AvatarsTypeOK
  <2>4. Assigned' /\ Unasked' /\ AskedOnce'
    BY <1>a, <2>1 DEF AvatarsInv, Assigned
  <2>5. \A i \in 1 .. Len(queue') : i = Len(queue) + 1 \/ i \in 1 .. Len(queue)
    BY <1>0, <2>2
  <2>6. Marked'
    BY <2>1, <2>2, <2>5 DEF AvatarsInv, Marked
  <2>7. QueuedOnce'
    BY <2>1, <2>2, <2>5 DEF AvatarsInv, Marked, AsksFew, QueuedOnce
  <2> QED BY <2>3, <2>4, <2>6, <2>7 DEF AvatarsInv, AsksFew
<1>2. CASE Dequeue
  <2>1. /\ worker = Idling /\ queue # <<>> /\ queue' = Tail(queue)
        /\ worker' = [at |-> "taken", contact |-> Head(queue), id |-> NoPicture]
        /\ UNCHANGED <<picture, row, onDisk, queued, resets, asks, failed>>
    BY <1>2 DEF Dequeue, Idling
  <2>2. /\ queue' \in Seq(Contacts) /\ Len(queue') = Len(queue) - 1 /\ Len(queue) >= 1
        /\ \A i \in 1 .. Len(queue') : queue'[i] = queue[i + 1]
        /\ Head(queue) = queue[1] /\ Head(queue) \in Contacts
    BY <1>0, <2>1
  <2>3. AvatarsTypeOK'
    <3>1. Len(queue') <= AvatarQueue
      BY <1>0, <2>2
    <3>2. worker' \in WorkerRecord
      BY <2>1, <2>2 DEF WorkerRecord
    <3> QED BY <2>1, <2>2, <3>1, <3>2 DEF AvatarsInv, AvatarsTypeOK, WorkerRecord
  <2>4. Assigned'
    BY <2>1, <2>2 DEF Assigned
  <2>5. Unasked' /\ AskedOnce'
    BY <1>a, <2>1, IdlingHas DEF Answering
  <2>6. \A i \in 1 .. Len(queue') : i + 1 \in 1 .. Len(queue) /\ i + 1 # 1
    BY <1>0, <2>2
  <2>7. Marked'
    <3>1. 1 \in 1 .. Len(queue)
      BY <1>0, <2>2
    <3>2. Head(queue) \in queued /\ \A i \in 1 .. Len(queue') : queue'[i] \in queued
      BY <2>2, <2>6, <3>1 DEF AvatarsInv, Marked
    <3>3. \A i \in 1 .. Len(queue') : queue'[i] # Head(queue)
      BY <2>2, <2>6, <3>1 DEF AvatarsInv, AsksFew, QueuedOnce
    <3> QED BY <2>1, <3>2, <3>3 DEF Marked
  <2>8. QueuedOnce'
    <3> SUFFICES ASSUME NEW i \in 1 .. Len(queue'), NEW k \in 1 .. Len(queue'), queue'[i] = queue'[k]
                 PROVE  i = k
      BY DEF QueuedOnce
    <3>1. queue[i + 1] = queue[k + 1]
      BY <2>2
    <3>2. i + 1 = k + 1
      BY <2>6, <3>1 DEF AvatarsInv, AsksFew, QueuedOnce
    <3> QED BY <3>2, <1>0, <2>2
  <2> QED BY <2>3, <2>4, <2>5, <2>7, <2>8 DEF AvatarsInv, AsksFew
<1>3. CASE Pace
  <2>1. /\ worker.at = "taken" /\ queued' = queued \ {worker.contact}
        /\ UNCHANGED <<picture, row, onDisk, queue, resets, asks, failed>>
    BY <1>3 DEF Pace
  <2>2. /\ worker' \in WorkerRecord /\ worker'.at \in {"idle", "paced"}
        /\ worker'.at # "idle" => worker'.contact = worker.contact
        /\ worker'.at = "idle" => worker' = Idling
    BY <1>3, <1>0, IdlingHas DEF Pace, WorkerRecord
  <2>3. AvatarsTypeOK'
    BY <2>1, <2>2 DEF AvatarsInv, AvatarsTypeOK, WorkerRecord
  <2>4. Assigned' /\ Unasked' /\ AskedOnce'
    BY <1>a, <2>1, <2>2 DEF AvatarsInv, Assigned, Answering
  <2>5. Marked' /\ QueuedOnce'
    BY <2>1, <2>2 DEF AvatarsInv, Marked, AsksFew, QueuedOnce
  <2> QED BY <2>3, <2>4, <2>5 DEF AvatarsInv, AsksFew
<1>4. CASE CheckAvatar
  <2>1. PICK j \in Contacts : j = worker.contact
    BY <1>4 DEF CheckAvatar, AvatarsInv, Assigned
  <2>2. /\ worker.at = "paced"
        /\ UNCHANGED <<picture, row, onDisk, queue, queued, resets, failed>>
    BY <1>4 DEF CheckAvatar
  <2>3. CASE row[j].known /\ ~row[j].due
    <3>1. worker' = Idling /\ asks' = asks
      BY <1>4, <2>1, <2>3 DEF CheckAvatar
    <3>2. AvatarsTypeOK'
      BY <2>2, <3>1, IdlingHas DEF AvatarsInv, AvatarsTypeOK, WorkerRecord
    <3>3. Assigned' /\ Unasked' /\ AskedOnce' /\ Marked' /\ QueuedOnce'
      BY <1>a, <1>b, <2>2, <3>1, IdlingHas DEF Assigned, Answering
    <3> QED BY <3>2, <3>3 DEF AvatarsInv, AsksFew
  <2>4. CASE ~(row[j].known /\ ~row[j].due)
    <3>1. asks[j] < MaxAsks /\ asks' = [asks EXCEPT ![j] = @ + 1]
      BY <1>4, <2>1, <2>4 DEF CheckAvatar
    <3>2. PICK at \in {"unset", "same", "new", "error"}, id \in Pictures \cup {NoPicture} :
             worker' = [worker EXCEPT !.at = at, !.id = id]
      <4> DEFINE old == IF row[j].known THEN row[j].id ELSE NoPicture
                 answer == CASE picture[j] = NoPicture -> "unset"
                             [] picture[j] # NoPicture /\ picture[j] = old -> "same"
                             [] OTHER -> "new"
      <4>1. answer \in {"unset", "same", "new"}
        OBVIOUS
      <4>2. old \in Pictures \cup {NoPicture} /\ picture[j] \in Pictures \cup {NoPicture}
        BY DEF AvatarsInv, AvatarsTypeOK
      <4>3. PICK at \in {answer, "error"} :
                worker' = [worker EXCEPT !.at = at, !.id = IF at = "new" THEN picture[j] ELSE old]
        BY <1>4, <2>1, <2>4 DEF CheckAvatar
      <4>4. at \in {"unset", "same", "new", "error"}
        BY <4>1
      <4>5. (IF at = "new" THEN picture[j] ELSE old) \in Pictures \cup {NoPicture}
        BY <4>2
      <4> HIDE DEF old, answer
      <4> QED BY <4>3, <4>4, <4>5
    <3>3. /\ worker' = [at |-> at, contact |-> j, id |-> id]
          /\ worker'.contact = j /\ worker'.at \in Answering
          /\ worker'.at # "idle" /\ worker'.at # "taken"
      <4>1. worker' = [at |-> at, contact |-> j, id |-> id]
        BY <1>0, <2>1, <3>2 DEF WorkerRecord
      <4> QED BY <4>1 DEF Answering
    <3>4. AvatarsTypeOK'
      <4>1. worker' \in WorkerRecord
        BY <3>2, <3>3 DEF WorkerRecord
      <4>2. asks' \in [Contacts -> 0 .. MaxAsks]
        BY <1>0, <3>1
      <4> QED BY <2>2, <4>1, <4>2 DEF AvatarsInv, AvatarsTypeOK, WorkerRecord
    <3>5. Assigned' /\ Marked' /\ QueuedOnce'
      BY <1>b, <2>2, <3>3 DEF Assigned
    <3>6. j \in failed \/ asks[j] = 0
      BY <2>1, <2>2, <2>4 DEF AvatarsInv, Unasked, Answering
    <3>7. \A k \in Contacts : k # j => asks'[k] = asks[k] /\ worker.contact # k
      BY <1>0, <2>1, <3>1
    <3>8. j \in failed \/ asks'[j] = 1
      BY <1>0, <3>1, <3>6
    <3>9. Unasked'
      BY <2>2, <3>3, <3>7 DEF AvatarsInv, Unasked
    <3>10. AskedOnce'
      BY <2>2, <3>7, <3>8 DEF AvatarsInv, AsksFew, AskedOnce
    <3> QED BY <3>4, <3>5, <3>9, <3>10 DEF AvatarsInv, AsksFew
  <2> QED BY <2>3, <2>4
<1>5. CASE ClearFile \/ SaveFile
  <2>1. /\ worker.at \in {"unset", "new"} /\ worker.contact \in Contacts
        /\ UNCHANGED <<picture, row, queue, queued, resets, asks, failed>>
    BY <1>5 DEF ClearFile, SaveFile, AvatarsInv, Assigned
  <2>2. /\ worker' \in WorkerRecord /\ worker'.at = "store" /\ worker'.contact = worker.contact
    BY <1>5, <1>0 DEF ClearFile, SaveFile, WorkerRecord
  <2>3. onDisk' \subseteq Contacts
    BY <1>5, <2>1 DEF ClearFile, SaveFile, AvatarsInv, AvatarsTypeOK
  <2>4. AvatarsTypeOK'
    BY <2>1, <2>2, <2>3 DEF AvatarsInv, AvatarsTypeOK, WorkerRecord
  <2>5. Assigned' /\ Unasked' /\ AskedOnce' /\ Marked' /\ QueuedOnce'
    BY <1>a, <1>b, <2>1, <2>2 DEF Assigned, Answering
  <2> QED BY <2>4, <2>5 DEF AvatarsInv, AsksFew
<1>6. CASE SaveFails \/ UpsertAvatar
  <2>1. PICK j \in Contacts : j = worker.contact
    BY <1>6 DEF SaveFails, UpsertAvatar, AvatarsInv, Assigned
  <2>2. worker' = Idling /\ UNCHANGED <<picture, onDisk, queue, queued, resets, asks>>
    BY <1>6 DEF SaveFails, UpsertAvatar
  <2>3. \/ failed' = failed \cup {j} /\ row' = row
        \/ failed' = failed /\ row' = [row EXCEPT ![j] = Row(worker.id)]
    BY <1>6, <2>1 DEF SaveFails, UpsertAvatar, StoredAfter
  <2>4. failed \subseteq failed' /\ failed' \subseteq Contacts
    BY <2>3 DEF AvatarsInv, AvatarsTypeOK
  <2>5. /\ row' \in [Contacts -> [known : BOOLEAN, id : Pictures \cup {NoPicture}, due : BOOLEAN]]
        /\ \A k \in Contacts : k # j => row'[k] = row[k]
        /\ j \in failed' \/ (row'[j].known /\ ~row'[j].due)
    <3>1. Row(worker.id) \in [known : BOOLEAN, id : Pictures \cup {NoPicture}, due : BOOLEAN]
      BY <1>0 DEF Row, WorkerRecord
    <3>2. Row(worker.id).known /\ ~Row(worker.id).due
      BY DEF Row
    <3> QED BY <2>3, <3>1, <3>2 DEF AvatarsInv, AvatarsTypeOK
  <2>6. AvatarsTypeOK'
    BY <2>2, <2>4, <2>5, IdlingHas DEF AvatarsInv, AvatarsTypeOK, WorkerRecord
  <2>7. Assigned' /\ Marked' /\ QueuedOnce'
    BY <1>b, <2>2, IdlingHas DEF Assigned
  <2>8. Unasked'
    BY <2>1, <2>2, <2>4, <2>5 DEF AvatarsInv, Unasked
  <2>9. AskedOnce'
    BY <2>2, <2>4 DEF AvatarsInv, AsksFew, AskedOnce
  <2> QED BY <2>6, <2>7, <2>8, <2>9 DEF AvatarsInv, AsksFew
<1>7. ASSUME NEW j \in Contacts, Elapse(j) PROVE AvatarsInv'
  <2>1. /\ worker.contact # j /\ failed' = failed \ {j}
        /\ row' = [row EXCEPT ![j].due = TRUE] /\ asks' = [asks EXCEPT ![j] = 0]
        /\ UNCHANGED <<picture, onDisk, queue, queued, worker, resets>>
    BY <1>7 DEF Elapse
  <2>2. AvatarsTypeOK'
    <3>1. row' \in [Contacts -> [known : BOOLEAN, id : Pictures \cup {NoPicture}, due : BOOLEAN]]
      BY <2>1 DEF AvatarsInv, AvatarsTypeOK
    <3>2. asks' \in [Contacts -> 0 .. MaxAsks] /\ failed' \subseteq Contacts
      BY <2>1, <1>0 DEF AvatarsInv, AvatarsTypeOK
    <3> QED BY <2>1, <3>1, <3>2 DEF AvatarsInv, AvatarsTypeOK
  <2>3. /\ asks'[j] = 0
        /\ \A k \in Contacts : k # j => row'[k] = row[k] /\ asks'[k] = asks[k] /\ (k \in failed' <=> k \in failed)
    BY <2>1, <1>0 DEF AvatarsInv, AvatarsTypeOK
  <2>4. Unasked' /\ AskedOnce'
    <3>1. ASSUME NEW k \in Contacts
          PROVE  /\ \/ row'[k].known /\ ~row'[k].due
                    \/ k \in failed'
                    \/ worker'.contact = k /\ worker'.at \in Answering
                    \/ asks'[k] = 0
                 /\ k \in failed' \/ asks'[k] <= 1
      BY <2>1, <2>3 DEF AvatarsInv, Unasked, AsksFew, AskedOnce
    <3> QED BY <3>1 DEF Unasked, AskedOnce
  <2>5. Assigned' /\ Marked' /\ QueuedOnce'
    BY <2>1 DEF AvatarsInv, Assigned, Marked, AsksFew, QueuedOnce
  <2> QED BY <2>2, <2>4, <2>5 DEF AvatarsInv, AsksFew
<1>8. CASE ClearDirContents \/ (\E j \in Contacts : ChangePicture(j)) \/ UNCHANGED avatarVars
  <2>1. UNCHANGED <<row, queue, queued, worker, asks, failed>>
    BY <1>8 DEF ClearDirContents, ChangePicture, avatarVars
  <2>2. AvatarsTypeOK'
    BY <1>8, <2>1 DEF ClearDirContents, ChangePicture, avatarVars, AvatarsInv, AvatarsTypeOK
  <2>3. Assigned' /\ Marked' /\ QueuedOnce' /\ Unasked' /\ AskedOnce'
    BY <2>1 DEF AvatarsInv, Assigned, Marked, Unasked, AsksFew, AskedOnce, QueuedOnce
  <2> QED BY <2>2, <2>3 DEF AvatarsInv, AsksFew
<1>9. CASE AvatarsRestart
  <2>1. /\ queue' = <<>> /\ queued' = {} /\ worker' = Idling
        /\ failed' = IF worker = Idling THEN failed ELSE failed \cup {worker.contact}
        /\ UNCHANGED <<picture, row, onDisk, asks>>
    BY <1>9 DEF AvatarsRestart
  <2>2. queue' \in Seq(Contacts) /\ Len(queue') = 0
    BY <2>1
  <2>3. /\ failed \subseteq failed'
        /\ \A j \in Contacts : worker.contact = j /\ worker.at \in Answering => j \in failed'
    BY <2>1, IdlingHas DEF Answering
  <2>4. resets' \in 0 .. MaxResets
    BY <1>9 DEF AvatarsRestart, AvatarsInv, AvatarsTypeOK
  <2>5. failed' \subseteq Contacts
    <3>1. worker # Idling => worker.contact \in Contacts
      BY DEF AvatarsInv, Assigned
    <3> QED BY <2>1, <3>1 DEF AvatarsInv, AvatarsTypeOK
  <2>6. AvatarsTypeOK'
    BY <2>1, <2>2, <2>4, <2>5, IdlingHas DEF AvatarsInv, AvatarsTypeOK, WorkerRecord
  <2>7. Assigned' /\ Marked' /\ QueuedOnce'
    BY <2>1, <2>2, IdlingHas DEF Assigned, Marked, QueuedOnce
  <2>8. Unasked' /\ AskedOnce'
    BY <2>1, <2>3 DEF AvatarsInv, Unasked, AsksFew, AskedOnce
  <2> QED BY <2>6, <2>7, <2>8 DEF AvatarsInv, AsksFew
<1> QED
  BY <1>1, <1>2, <1>3, <1>4, <1>5, <1>6, <1>7, <1>8, <1>9 DEF AvatarsNext

LEMMA AvatarsInvariant == AvatarsSpec => []AvatarsInv
BY AvatarsInitInv, AvatarsStepInv, PTL DEF AvatarsSpec

\* Types of the queue, the worker and the pictures (whatsmeow/avatar.go).
THEOREM AvatarsTypes == AvatarsSpec => []AvatarsTypeOK
<1>1. AvatarsInv => AvatarsTypeOK
  BY DEF AvatarsInv
<1> QED BY <1>1, AvatarsInvariant, PTL

\* However often contacts are shown, WhatsApp is asked once about each whose
\* answer can be written down, and none waits twice (checkAvatar, RequestAvatar).
THEOREM AvatarsAskFew == AvatarsSpec => []AsksFew
<1>1. AvatarsInv => AsksFew
  BY DEF AvatarsInv
<1> QED BY <1>1, AvatarsInvariant, PTL

-----------------------------------------------------------------------------
(* Hidden identities (Identities). *)

IdentitiesInv == IdentitiesTypeOK /\ NothingLost

LEMMA BothSides ==
    ASSUME NEW S, NEW u \in S, NEW v \in S
    PROVE  [lid |-> u, number |-> v] \in [Sides -> S]
BY DEF Sides

\* The transaction moves the messages and the meters of the hidden identity
\* to the number as they are: the dropped copies are on the number's side.
LEMMA MoveKeepsAll ==
    ASSUME IdentitiesInv, Move, UNCHANGED <<received, metered>>
    PROVE  /\ chatOf' \in [Sides -> BOOLEAN]
           /\ stored' \in [Sides -> SUBSET WaIds]
           /\ usage' \in [Sides -> 0 .. MaxUsage]
           /\ NothingLost'
<1>1. /\ usage["lid"] \in Nat /\ usage["number"] \in Nat
      /\ usage["lid"] + usage["number"] = metered
      /\ metered \in 0 .. MaxUsage
  BY IdentitiesAssumption DEF IdentitiesInv, IdentitiesTypeOK, NothingLost, UsageConserved, Sides
<1>2. stored["lid"] \subseteq WaIds /\ stored["number"] \subseteq WaIds
  BY DEF IdentitiesInv, IdentitiesTypeOK, Sides
<1>3. chatOf' \in [Sides -> BOOLEAN]
  <2>1. chatOf["number"] \in BOOLEAN /\ chatOf["lid"] \in BOOLEAN
    BY DEF IdentitiesInv, IdentitiesTypeOK, Sides
  <2>2. FALSE \in BOOLEAN /\ (chatOf["number"] \/ chatOf["lid"]) \in BOOLEAN
    BY <2>1
  <2>3. [lid |-> FALSE, number |-> chatOf["number"] \/ chatOf["lid"]] \in [Sides -> BOOLEAN]
    BY <2>2, BothSides
  <2> QED BY <2>3 DEF Move
<1>4. stored' \in [Sides -> SUBSET WaIds]
  BY <1>2 DEF Move, Sides
<1>5. usage' = [lid |-> 0, number |-> metered]
  BY <1>1 DEF Move, Summed
<1>6. usage' \in [Sides -> 0 .. MaxUsage]
  BY <1>1, <1>5, IdentitiesAssumption DEF Sides
<1>7. NoMessageLost'
  <2>1. stored'["lid"] = {}
    BY DEF Move
  <2>2. stored'["number"] = stored["number"] \cup {id \in stored["lid"] : id \notin stored["number"]}
    BY DEF Move, Duplicate
  <2> QED BY <2>1, <2>2 DEF IdentitiesInv, NothingLost, NoMessageLost
<1>8. UsageConserved'
  BY <1>1, <1>5 DEF UsageConserved
<1> QED BY <1>3, <1>4, <1>6, <1>7, <1>8 DEF NothingLost

LEMMA IdentitiesInitInv == IdentitiesInit => IdentitiesInv
<1> SUFFICES ASSUME IdentitiesInit PROVE IdentitiesInv
  OBVIOUS
<1>1. IdentitiesTypeOK
  <2>1. 0 \in 0 .. MaxUsage /\ 0 \in 0 .. MaxFail
    BY IdentitiesAssumption
  <2>2. chatOf \in [Sides -> BOOLEAN] /\ resolved \in BOOLEAN
    BY Zenon DEF IdentitiesInit
  <2> QED BY <2>1, <2>2 DEF IdentitiesInit, IdentitiesTypeOK
<1>2. NoMessageLost
  BY DEF IdentitiesInit, NoMessageLost, Sides
<1>3. UsageConserved
  BY DEF IdentitiesInit, UsageConserved, Sides
<1> QED BY <1>1, <1>2, <1>3 DEF IdentitiesInv, NothingLost

\* One step per operation: only a delivery, a measure and the transaction
\* touch what the invariant is about.
LEMMA IdentitiesStepInv ==
    ASSUME IdentitiesInv, [IdentitiesNext]_identityVars
    PROVE  IdentitiesInv'
<1> USE DEF IdentitiesInv
<1>1. ASSUME NEW side \in Sides, NEW id \in WaIds, Deliver(side, id)
      PROVE  IdentitiesInv'
  <2>1. IdentitiesTypeOK'
    BY <1>1 DEF Deliver, IdentitiesTypeOK
  <2>2. NoMessageLost'
    BY <1>1 DEF Deliver, IdentitiesTypeOK, NothingLost, NoMessageLost, Sides
  <2>3. UsageConserved'
    BY <1>1 DEF Deliver, NothingLost, UsageConserved
  <2> QED BY <2>1, <2>2, <2>3 DEF NothingLost
<1>2. ASSUME NEW side \in Sides, Meter(side)
      PROVE  IdentitiesInv'
  <2>1. /\ usage["lid"] \in Nat /\ usage["number"] \in Nat /\ metered \in Nat
        /\ usage["lid"] + usage["number"] = metered
    BY IdentitiesAssumption DEF IdentitiesTypeOK, NothingLost, UsageConserved, Sides
  <2>2. UsageConserved'
    BY <1>2, <2>1 DEF Meter, UsageConserved, IdentitiesTypeOK, Sides
  <2>3. metered' \in 0 .. MaxUsage /\ usage[side] + 1 \in 0 .. MaxUsage
    BY <1>2, <2>1, IdentitiesAssumption DEF Meter, Sides
  <2>4. IdentitiesTypeOK'
    BY <1>2, <2>3 DEF Meter, IdentitiesTypeOK
  <2>5. NoMessageLost'
    BY <1>2 DEF Meter, NothingLost, NoMessageLost
  <2> QED BY <2>2, <2>4, <2>5 DEF NothingLost
<1>3. ASSUME Move, pass' = "waiting", UNCHANGED <<resolved, failures, received, metered>>
      PROVE  IdentitiesInv'
  BY <1>3, MoveKeepsAll DEF IdentitiesTypeOK
<1>4. ASSUME UNCHANGED <<chatOf, stored, usage, received, metered>>,
             resolved' \in BOOLEAN, failures' \in 0 .. MaxFail,
             pass' \in {"waiting", "listed", "merge", "rename"}
      PROVE  IdentitiesInv'
  BY <1>4 DEF IdentitiesTypeOK, NothingLost, NoMessageLost, UsageConserved
<1>5. CASE Resolve
  BY <1>4, <1>5 DEF Resolve, IdentitiesTypeOK
<1>6. CASE ListLids
  BY <1>4, <1>6 DEF ListLids, IdentitiesTypeOK
<1>7. CASE Compare
  BY <1>4, <1>7 DEF Compare, IdentitiesTypeOK
<1>8. CASE RekeyChat
  <2>1. CASE chatOf["number"]
    BY <1>4, <1>8, <2>1 DEF RekeyChat, IdentitiesTypeOK
  <2>2. CASE ~chatOf["number"]
    BY <1>3, <1>8, <2>2 DEF RekeyChat
  <2> QED BY <2>1, <2>2
<1>9. CASE MergeChat
  BY <1>3, <1>9 DEF MergeChat
<1>10. CASE PairFails
  BY <1>4, <1>10, IdentitiesAssumption DEF PairFails, IdentitiesTypeOK
<1>11. CASE UNCHANGED identityVars
  BY <1>4, <1>11 DEF identityVars, IdentitiesTypeOK
<1> QED
  BY <1>1, <1>2, <1>5, <1>6, <1>7, <1>8, <1>9, <1>10, <1>11
     DEF IdentitiesNext, SweepIdentities

\* The inductive invariant of the reconciliation (store.ReconcileIdentities).
THEOREM IdentitiesInvariant == IdentitiesSpec => []IdentitiesInv
BY IdentitiesInitInv, IdentitiesStepInv, PTL DEF IdentitiesSpec

\* Nothing received or metered is lost or counted twice: any messages, any
\* failures, any moment for the number's chat to appear (rekeyChat, mergeChat).
THEOREM MergeLosesNothing == IdentitiesSpec => []NothingLost
<1>1. IdentitiesInv => NothingLost
  BY DEF IdentitiesInv
<1> QED BY <1>1, IdentitiesInvariant, PTL

-----------------------------------------------------------------------------
(* The inbound pipeline and its pages (Pipeline). *)

\* The inbound loop is at work exactly as long as it has a message in hand,
\* one of a chat it attends.
HandFull ==
    /\ hand.at # "none" <=> loop["inbound"] = "work"
    /\ hand.at # "none" => hand.event \in Events \ Foreign

\* A receipt is about stored messages, and WhatsApp has it before read_ts is set.
ReceiptsSound ==
    \A r \in receipts : r.of \subseteq Stored /\ (r.at = "sent" => r.of \subseteq acked)

\* Whoever was waited for stays away.
LoopsEnded ==
    /\ shell \in {"joining", "closed"} => \A l \in PipelineLoops : loop[l] = "off"
    /\ shell = "closed" => \A l \in ShellLoops : loop[l] = "off"

\* A reload never answers with more than is stored.
LoadsSound == \A w \in Watchers, k \in Loads : watch[w].loads[k].of \subseteq Stored

PipelineInv ==
    PipelineTypeOK /\ HandFull /\ ReceiptsSound /\ LoopsEnded /\ LoadsSound /\ NudgeNotLost

HandRecord == [event : Events \cup {NoEvent}, at : {"none", "store", "publish", "touch"}]
LoadRecord == [at : {"free", "sent", "read"}, of : SUBSET Events]

\* What every page that listens is promised.
Covered(page) == page.at = "open" /\ page.seen # Stored /\ page.missed = {} => Coming(page)
FitPage(page) == page \in Pages /\ Len(page.queue) <= BusBuffer
Fit(page) == FitPage(page) /\ \A k \in Loads : page.loads[k].of \subseteq Stored

LEMMA HandleSteps ==
    /\ Handle[1] = "store" /\ Following("store") = "publish" /\ Following("publish") = "touch"
<1>1. Handle[1] = "store" /\ Handle[2] = "publish" /\ Handle[3] = "touch"
  BY DEF Handle
<1>2. \A i \in 1 .. 2 : (Handle[i] = "store" <=> i = 1) /\ (Handle[i] = "publish" <=> i = 2)
  BY <1>1
<1>3. (CHOOSE i \in 1 .. 2 : Handle[i] = "store") = 1
  BY <1>2
<1>4. (CHOOSE i \in 1 .. 2 : Handle[i] = "publish") = 2
  BY <1>2
<1> QED BY <1>1, <1>3, <1>4 DEF Following

LEMMA StoredEvents ==
    ASSUME messages \in Seq(Events \ Foreign)
    PROVE  Stored \subseteq Events \ Foreign
BY DEF Stored

LEMMA PipelineInitInv == PipelineInit => PipelineInv
<1> SUFFICES ASSUME PipelineInit PROVE PipelineInv
  OBVIOUS
<1> USE PipelineAssumption DEF PipelineInit
<1>1. hand \in HandRecord /\ hand.at = "none"
  BY DEF Resting, HandRecord
<1>2. \A w \in Watchers : FitPage(watch[w]) /\ watch[w].at = "gone"
                          /\ \A k \in Loads : watch[w].loads[k].of = {}
  <2>1. NoLoad \in LoadRecord /\ NoLoad.of = {}
    BY DEF NoLoad, LoadRecord
  <2>2. NoWatcher \in Pages /\ NoWatcher.queue = <<>> /\ NoWatcher.at = "gone"
        /\ NoWatcher.loads = [k \in Loads |-> NoLoad]
    <3>1. <<>> \in Seq(Nudges) /\ [k \in Loads |-> NoLoad] \in [Loads -> LoadRecord]
      BY <2>1
    <3> QED BY <3>1 DEF NoWatcher, Pages, LoadRecord
  <2>3. Len(<<>>) <= BusBuffer
    OBVIOUS
  <2> QED BY <2>1, <2>2, <2>3 DEF FitPage
<1>3. channel \in Seq(Events) /\ Len(channel) = 0 /\ messages \in Seq(Events \ Foreign)
  OBVIOUS
<1>4. loop \in [Loops -> {"off", "select", "work"}] /\ loop["inbound"] = "select"
  BY DEF Loops, PipelineLoops
<1>5. arrived \in 0 .. MaxArrivals /\ errors \in 0 .. MaxStoreErrors
  OBVIOUS
<1>6. PipelineTypeOK
  BY <1>1, <1>2, <1>3, <1>4, <1>5 DEF PipelineTypeOK, HandRecord, FitPage, Stored
<1>7. HandFull /\ ReceiptsSound /\ LoopsEnded /\ LoadsSound /\ NudgeNotLost
  BY <1>1, <1>2, <1>4 DEF HandFull, ReceiptsSound, LoopsEnded, LoadsSound, NudgeNotLost
<1> QED BY <1>6, <1>7 DEF PipelineInv
-----------------------------------------------------------------------------
\* What a step leaves alone, it keeps.
LEMMA HandKept ==
    ASSUME PipelineInv, UNCHANGED hand, loop'["inbound"] = "work" <=> loop["inbound"] = "work"
    PROVE  HandFull'
BY DEF PipelineInv, HandFull

LEMMA ReceiptsKept ==
    ASSUME PipelineInv, receipts' \subseteq receipts, UNCHANGED messages, acked \subseteq acked'
    PROVE  ReceiptsSound'
BY DEF PipelineInv, ReceiptsSound, Stored

LEMMA LoopsKept ==
    ASSUME PipelineInv, UNCHANGED shell,
           \A l \in Loops : loop[l] = "off" => loop'[l] = "off"
    PROVE  LoopsEnded'
BY DEF PipelineInv, LoopsEnded, Loops

LEMMA NudgesKept ==
    ASSUME PipelineInv, UNCHANGED <<watch, messages>>, hand.at = "publish" => hand'.at = "publish"
    PROVE  LoadsSound' /\ NudgeNotLost'
<1>1. Stored' = Stored /\ \A p : Coming(p) => Coming(p)'
  BY DEF Coming, Stored, Waits
<1> QED BY <1>1 DEF PipelineInv, NudgeNotLost, LoadsSound

LEMMA PagesFit ==
    ASSUME PipelineInv, NEW w \in Watchers
    PROVE  Fit(watch[w]) /\ Covered(watch[w])
BY DEF PipelineInv, PipelineTypeOK, LoadsSound, NudgeNotLost, Fit, FitPage, Covered

\* One of the pages changes.
LEMMA WatchOne ==
    ASSUME PipelineInv, NEW w \in Watchers, NEW r, Fit(r), Covered(r),
           watch' = [watch EXCEPT ![w] = r], UNCHANGED <<messages, hand>>
    PROVE  (\A v \in Watchers : FitPage(watch'[v])) /\ LoadsSound' /\ NudgeNotLost'
<1>1. \A v \in Watchers : watch'[v] = IF v = w /\ w \in DOMAIN watch THEN r ELSE watch[v]
  OBVIOUS
<1>2. Stored' = Stored /\ hand' = hand
  BY DEF Stored
<1>3. \A v \in Watchers : Fit(watch'[v]) /\ Covered(watch'[v])
  BY <1>1, PagesFit
<1>4. \A v \in Watchers : Coming(watch[v])' <=> Coming(watch'[v])
  BY <1>2 DEF Coming, Waits
<1> QED BY <1>2, <1>3, <1>4 DEF Fit, Covered, LoadsSound, NudgeNotLost

\* A nudge that finds room waits; one that finds none is missed, unless
\* another of its kind waits before it.
LEMMA NudgedPage ==
    ASSUME NEW p, FitPage(p), NEW nudge \in Nudges
    PROVE  /\ FitPage(Nudged(p, nudge))
           /\ Nudged(p, nudge).at = p.at /\ Nudged(p, nudge).seen = p.seen
           /\ Nudged(p, nudge).loads = p.loads /\ Nudged(p, nudge).due = p.due
           /\ Nudged(p, nudge).missed = {} => p.missed = {}
           /\ Waits(p) => Waits(Nudged(p, nudge))
           /\ p.at # "gone" /\ nudge = "chats" /\ Nudged(p, nudge).missed = {}
                => Waits(Nudged(p, nudge))
<1> USE PipelineAssumption
<1>0. p \in Pages /\ p.queue \in Seq(Nudges) /\ Len(p.queue) <= BusBuffer
  BY DEF FitPage, Pages
<1>1. CASE p.at # "gone" /\ Len(p.queue) < BusBuffer
  <2> DEFINE r == [p EXCEPT !.queue = Append(@, nudge)]
  <2>1. Nudged(p, nudge) = r
    BY <1>1 DEF Nudged
  <2>2. /\ r.at = p.at /\ r.seen = p.seen /\ r.loads = p.loads /\ r.due = p.due
        /\ r.missed = p.missed /\ r.queue = Append(p.queue, nudge)
    BY <1>0 DEF Pages
  <2>3. /\ Append(p.queue, nudge) \in Seq(Nudges)
        /\ Len(Append(p.queue, nudge)) = Len(p.queue) + 1 /\ Len(p.queue) \in Nat
        /\ Append(p.queue, nudge)[Len(p.queue) + 1] = nudge
        /\ \A i \in 1 .. Len(p.queue) : Append(p.queue, nudge)[i] = p.queue[i]
    BY <1>0
  <2>4. r \in Pages
    BY <1>0, <2>3 DEF Pages
  <2> HIDE DEF r
  <2>5. DOMAIN r.queue = 1 .. Len(p.queue) + 1 /\ DOMAIN p.queue = 1 .. Len(p.queue)
    BY <1>0, <2>2, <2>3
  <2>6. Waits(p) => Waits(r)
    BY <2>2, <2>3, <2>5 DEF Waits
  <2>7. nudge = "chats" => Waits(r)
    BY <2>2, <2>3, <2>5 DEF Waits
  <2>8. FitPage(r)
    BY <1>1, <2>2, <2>3, <2>4 DEF FitPage
  <2> QED BY <2>1, <2>2, <2>6, <2>7, <2>8
<1>2. CASE p.at # "gone" /\ ~(Len(p.queue) < BusBuffer) /\ nudge = "chats" /\ ~Waits(p)
  <2> DEFINE r == [p EXCEPT !.missed = @ \cup {"dropped"}]
  <2>1. Nudged(p, nudge) = r
    BY <1>2 DEF Nudged
  <2>2. /\ r.at = p.at /\ r.seen = p.seen /\ r.loads = p.loads /\ r.due = p.due
        /\ r.missed # {} /\ r.queue = p.queue /\ r \in Pages
    BY <1>0 DEF Pages
  <2> HIDE DEF r
  <2> QED BY <1>0, <1>2, <2>1, <2>2 DEF FitPage, Waits
<1>3. CASE p.at = "gone" \/ (~(Len(p.queue) < BusBuffer) /\ (nudge # "chats" \/ Waits(p)))
  <2>1. Nudged(p, nudge) = p
    BY <1>3 DEF Nudged
  <2> QED BY <1>3, <2>1
<1> QED BY <1>1, <1>2, <1>3

\* Publish reaches every page and changes nothing else a page is owed.
LEMMA WatchAll ==
    ASSUME PipelineInv, NEW nudge \in Nudges, UNCHANGED messages,
           watch' = [w \in Watchers |-> Nudged(watch[w], nudge)],
           nudge = "chats" \/ UNCHANGED hand
    PROVE  (\A v \in Watchers : FitPage(watch'[v])) /\ LoadsSound' /\ NudgeNotLost'
<1>1. Stored' = Stored
  BY DEF Stored
<1>2. ASSUME NEW w \in Watchers
      PROVE  /\ FitPage(watch'[w]) /\ \A k \in Loads : watch'[w].loads[k].of \subseteq Stored
             /\ watch'[w].at = "open" /\ watch'[w].seen # Stored /\ watch'[w].missed = {}
                   => Coming(watch[w])'
  <2>1. watch'[w] = Nudged(watch[w], nudge) /\ Fit(watch[w]) /\ Covered(watch[w])
    BY PagesFit
  <2>2. FitPage(watch'[w]) /\ \A k \in Loads : watch'[w].loads[k].of \subseteq Stored
    BY <2>1, NudgedPage DEF Fit
  <2>3. ASSUME watch'[w].at = "open", watch'[w].seen # Stored, watch'[w].missed = {}
        PROVE  Coming(watch[w])'
    <3>1. CASE nudge = "chats"
      <4>1. Waits(watch'[w])
        BY <2>1, <2>3, <3>1, NudgedPage DEF Fit
      <4> QED BY <4>1 DEF Coming, Waits
    <3>2. CASE UNCHANGED hand
      <4>1. Coming(watch[w])
        BY <2>1, <2>3, NudgedPage DEF Fit, Covered
      <4>2. /\ watch'[w].loads = watch[w].loads /\ watch'[w].due = watch[w].due
            /\ Waits(watch[w]) => Waits(watch'[w])
        BY <2>1, NudgedPage DEF Fit
      <4> QED BY <1>1, <3>2, <4>1, <4>2 DEF Coming, Waits
    <3> QED BY <3>1, <3>2
  <2> QED BY <2>2, <2>3
<1> QED BY <1>1, <1>2 DEF LoadsSound, NudgeNotLost
-----------------------------------------------------------------------------
\* One request of a page turns; its queue and the other requests stay.
LEMMA LoadTurns ==
    ASSUME NEW p, Fit(p), NEW k \in Loads, NEW load \in LoadRecord, load.of \subseteq Stored,
           NEW r \in Pages, r.queue = p.queue, r.loads = [p.loads EXCEPT ![k] = load]
    PROVE  /\ Fit(r) /\ (Waits(p) => Waits(r))
           /\ r.loads[k] = load /\ \A j \in Loads \ {k} : r.loads[j] = p.loads[j]
<1>1. Len(p.queue) <= BusBuffer /\ p.loads \in [Loads -> LoadRecord]
  BY DEF Fit, FitPage, Pages, LoadRecord
<1>2. r.loads[k] = load /\ \A j \in Loads \ {k} : r.loads[j] = p.loads[j]
  BY <1>1
<1>3. \A j \in Loads : r.loads[j].of \subseteq Stored
  BY <1>2 DEF Fit
<1>4. Fit(r)
  BY <1>1, <1>3 DEF Fit, FitPage
<1>5. Waits(p) => Waits(r)
  BY DEF Waits
<1> QED BY <1>2, <1>4, <1>5

\* Every step of a page leaves it covered.
LEMMA PageSteps ==
    ASSUME PipelineInv, NEW w \in Watchers,
           \/ Subscribe(w) \/ Opened(w) \/ Notice(w) \/ Unsubscribe(w)
           \/ \E k \in Loads : \/ \E timer \in BOOLEAN : Reload(w, k, timer)
                               \/ ReadChats(w, k) \/ ShowChats(w, k) \/ LoadFails(w, k)
    PROVE  \E r : PageTurns(w, r) /\ Fit(r) /\ Covered(r)
<1> USE PipelineAssumption
<1> DEFINE p == watch[w]
<1>0. /\ p \in Pages /\ Len(p.queue) <= BusBuffer
      /\ \A k \in Loads : p.loads[k] \in LoadRecord /\ p.loads[k].of \subseteq Stored
      /\ Stored \subseteq Events /\ Fit(p) /\ Covered(p)
      /\ p.due \in BOOLEAN /\ p.seen \subseteq Events
      /\ p.missed \subseteq {"dropped", "failed", "overtaken"}
  BY PagesFit, StoredEvents DEF Fit, FitPage, Pages, LoadRecord, PipelineInv, PipelineTypeOK
<1>1. CASE Subscribe(w)
  <2> DEFINE r == [p EXCEPT !.at = "opening"]
  <2>1. PageTurns(w, r)
    BY <1>1 DEF Subscribe
  <2>2. r \in Pages /\ r.at # "open" /\ r.loads = p.loads /\ r.queue = p.queue
    BY <1>0 DEF Pages
  <2> HIDE DEF r
  <2> QED BY <1>0, <2>1, <2>2 DEF Fit, FitPage, Covered
<1>2. CASE Opened(w)
  <2> DEFINE r == [p EXCEPT !.at = "open", !.due = TRUE, !.missed = {}]
  <2>1. PageTurns(w, r)
    BY <1>2 DEF Opened
  <2>2. r \in Pages /\ r.loads = p.loads /\ r.queue = p.queue /\ r.due
    BY <1>0 DEF Pages
  <2> HIDE DEF r
  <2> QED BY <1>0, <2>1, <2>2 DEF Fit, FitPage, Covered, Coming
<1>3. CASE Notice(w)
  <2>1. p.queue # <<>> /\ p.queue \in Seq(Nudges)
    BY <1>0, <1>3 DEF Notice, Pages
  <2>2. /\ Tail(p.queue) \in Seq(Nudges) /\ Len(Tail(p.queue)) = Len(p.queue) - 1
        /\ Len(p.queue) \in Nat \ {0} /\ Head(p.queue) = p.queue[1]
        /\ DOMAIN p.queue = 1 .. Len(p.queue)
        /\ \A i \in 1 .. Len(p.queue) - 1 : Tail(p.queue)[i] = p.queue[i + 1]
    BY <2>1
  <2>3. CASE Head(p.queue) = "chats"
    <3> DEFINE r == [p EXCEPT !.queue = Tail(@), !.due = TRUE, !.missed = {}]
    <3>1. PageTurns(w, r)
      BY <1>3, <2>3 DEF Notice
    <3>2. r \in Pages /\ r.loads = p.loads /\ r.queue = Tail(p.queue) /\ r.due
      BY <1>0, <2>2 DEF Pages
    <3> HIDE DEF r
    <3>3. Len(r.queue) <= BusBuffer
      BY <1>0, <2>2, <3>2
    <3> QED BY <1>0, <3>1, <3>2, <3>3 DEF Fit, FitPage, Covered, Coming
  <2>4. CASE Head(p.queue) # "chats"
    <3> DEFINE r == [p EXCEPT !.queue = Tail(@)]
    <3>1. PageTurns(w, r)
      BY <1>3, <2>4 DEF Notice
    <3>2. /\ r \in Pages /\ r.loads = p.loads /\ r.queue = Tail(p.queue) /\ r.due = p.due
          /\ r.at = p.at /\ r.seen = p.seen /\ r.missed = p.missed
      BY <1>0, <2>2 DEF Pages
    <3> HIDE DEF r
    <3>3. Len(r.queue) <= BusBuffer
      BY <1>0, <2>2, <3>2
    <3>4. ASSUME Waits(p) PROVE Waits(r)
      <4>1. PICK i \in 1 .. Len(p.queue) : p.queue[i] = "chats"
        BY <2>2, <3>4 DEF Waits
      <4>2. i # 1 /\ i - 1 \in 1 .. Len(p.queue) - 1 /\ Tail(p.queue)[i - 1] = p.queue[i - 1 + 1]
        BY <2>2, <2>4, <4>1
      <4>3. DOMAIN r.queue = 1 .. Len(p.queue) - 1 /\ i - 1 + 1 = i
        BY <2>2, <3>2
      <4>4. i - 1 \in DOMAIN r.queue /\ r.queue[i - 1] = "chats"
        BY <3>2, <4>1, <4>2, <4>3
      <4> QED BY <4>4 DEF Waits
    <3>5. Covered(r)
      BY <1>0, <3>2, <3>4 DEF Covered, Coming
    <3> QED BY <1>0, <3>1, <3>2, <3>3, <3>5 DEF Fit, FitPage
  <2> QED BY <2>3, <2>4
<1>4. ASSUME NEW k \in Loads, NEW timer \in BOOLEAN, Reload(w, k, timer)
      PROVE  \E r : PageTurns(w, r) /\ Fit(r) /\ Covered(r)
  <2> DEFINE sent == [at |-> "sent", of |-> {}]
             r == [p EXCEPT !.due = @ /\ ~timer, !.loads[k] = sent]
  <2>1. PageTurns(w, r)
    BY <1>4 DEF Reload
  <2>2. sent \in LoadRecord /\ sent.at = "sent" /\ sent.of = {}
    BY DEF LoadRecord
  <2> HIDE DEF sent
  <2>3. r \in Pages /\ r.queue = p.queue /\ r.loads = [p.loads EXCEPT ![k] = sent]
    BY <1>0, <2>2 DEF Pages, LoadRecord
  <2> HIDE DEF r
  <2>4. sent.of \subseteq Stored
    BY <2>2
  <2>5. Fit(r) /\ r.loads[k] = sent
    BY <1>0, <2>2, <2>3, <2>4, LoadTurns
  <2>6. Covered(r)
    BY <2>2, <2>5 DEF Covered, Coming
  <2> QED BY <2>1, <2>5, <2>6
<1>5. ASSUME NEW k \in Loads, ReadChats(w, k)
      PROVE  \E r : PageTurns(w, r) /\ Fit(r) /\ Covered(r)
  <2> DEFINE answer == [at |-> "read", of |-> Stored]
             r == [p EXCEPT !.loads[k] = answer]
  <2>1. PageTurns(w, r)
    BY <1>5 DEF ReadChats
  <2>2. answer \in LoadRecord /\ answer.at = "read" /\ answer.of = Stored
    BY <1>0 DEF LoadRecord
  <2> HIDE DEF answer
  <2>3. r \in Pages /\ r.queue = p.queue /\ r.loads = [p.loads EXCEPT ![k] = answer]
    BY <1>0, <2>2 DEF Pages, LoadRecord
  <2> HIDE DEF r
  <2>4. Fit(r) /\ r.loads[k] = answer
    BY <1>0, <2>2, <2>3, LoadTurns
  <2>5. Covered(r)
    BY <2>2, <2>4 DEF Covered, Coming
  <2> QED BY <2>1, <2>4, <2>5
<1>6. ASSUME NEW k \in Loads, ShowChats(w, k)
      PROVE  \E r : PageTurns(w, r) /\ Fit(r) /\ Covered(r)
  <2> DEFINE of == p.loads[k].of
             missed == IF of = Stored THEN {}
                       ELSE IF p.seen \subseteq of THEN p.missed
                       ELSE p.missed \cup {"overtaken"}
             r == [p EXCEPT !.loads[k] = NoLoad, !.seen = of, !.missed = missed]
  <2>1. PageTurns(w, r) /\ p.loads[k].at = "read"
    BY <1>6 DEF ShowChats
  <2>2. NoLoad \in LoadRecord /\ NoLoad.of \subseteq Stored
    BY DEF LoadRecord, NoLoad
  <2>3. /\ of \subseteq Stored /\ of \in SUBSET Events
        /\ missed \in SUBSET {"dropped", "failed", "overtaken"}
        /\ of # Stored /\ missed = {} => p.missed = {} /\ p.seen \subseteq of
    BY <1>0
  <2>4. of = p.loads[k].of
    OBVIOUS
  <2> HIDE DEF of, missed
  <2>5. /\ r \in Pages /\ r.queue = p.queue /\ r.loads = [p.loads EXCEPT ![k] = NoLoad]
        /\ r.at = p.at /\ r.due = p.due /\ r.seen = of /\ r.missed = missed
    BY <1>0, <2>2, <2>3 DEF Pages, LoadRecord
  <2> HIDE DEF r
  <2>6. /\ Fit(r) /\ (Waits(p) => Waits(r))
        /\ \A j \in Loads \ {k} : r.loads[j] = p.loads[j]
    BY <1>0, <2>2, <2>3, <2>5, LoadTurns
  <2>7. Covered(r)
    <3> SUFFICES ASSUME p.at = "open", of # Stored, missed = {} PROVE Coming(r)
      BY <2>5 DEF Covered
    <3>1. p.missed = {} /\ p.seen # Stored
      BY <2>3
    <3>2. Coming(p)
      BY <1>0, <3>1 DEF Covered
    <3>3. \A j \in Loads : p.loads[j].at = "sent" \/ p.loads[j].of = Stored => j # k
      BY <2>1, <2>4
    <3> QED BY <2>5, <2>6, <3>2, <3>3 DEF Coming
  <2> QED BY <2>1, <2>6, <2>7
<1>7. ASSUME NEW k \in Loads, LoadFails(w, k)
      PROVE  \E r : PageTurns(w, r) /\ Fit(r) /\ Covered(r)
  <2> DEFINE missed == p.missed \cup {"failed"}
             r == [p EXCEPT !.loads[k] = NoLoad, !.missed = missed]
  <2>1. PageTurns(w, r)
    BY <1>7 DEF LoadFails
  <2>2. NoLoad \in LoadRecord /\ NoLoad.of \subseteq Stored
    BY DEF LoadRecord, NoLoad
  <2>3. missed \in SUBSET {"dropped", "failed", "overtaken"} /\ missed # {}
    BY <1>0
  <2> HIDE DEF missed
  <2>4. /\ r \in Pages /\ r.queue = p.queue /\ r.loads = [p.loads EXCEPT ![k] = NoLoad]
        /\ r.missed = missed
    BY <1>0, <2>2, <2>3 DEF Pages, LoadRecord
  <2> HIDE DEF r
  <2>5. Fit(r)
    BY <1>0, <2>2, <2>3, <2>4, LoadTurns
  <2> QED BY <2>1, <2>3, <2>4, <2>5 DEF Covered
<1>8. CASE Unsubscribe(w)
  <2> DEFINE r == [p EXCEPT !.at = "gone", !.queue = <<>>]
  <2>1. PageTurns(w, r)
    BY <1>8 DEF Unsubscribe
  <2>2. <<>> \in Seq(Nudges) /\ Len(<<>>) = 0
    OBVIOUS
  <2>3. r \in Pages /\ r.at # "open" /\ r.loads = p.loads /\ r.queue = <<>>
    BY <1>0, <2>2 DEF Pages
  <2> HIDE DEF r
  <2> QED BY <1>0, <2>1, <2>2, <2>3 DEF Fit, FitPage, Covered
<1> QED BY <1>1, <1>2, <1>3, <1>4, <1>5, <1>6, <1>7, <1>8

LEMMA PipelineStepInv ==
    ASSUME PipelineInv, [PipelineNext]_pipeVars
    PROVE  PipelineInv'
<1> USE PipelineAssumption
<1>0. /\ hand \in HandRecord /\ loop \in [Loops -> {"off", "select", "work"}]
      /\ channel \in Seq(Events) /\ Len(channel) <= InboundBuffer
      /\ messages \in Seq(Events \ Foreign)
      /\ \A w \in Watchers : FitPage(watch[w])
      /\ read \subseteq acked /\ acked \subseteq Stored
      /\ Stored \subseteq Events
  BY StoredEvents DEF PipelineInv, PipelineTypeOK, HandRecord, FitPage
<1>1. ASSUME NEW e \in Events, Arrives(e) PROVE PipelineInv'
  <2>1. channel' \in Seq(Events) /\ Len(channel') <= InboundBuffer
    <3>1. CASE Len(channel) < InboundBuffer
      <4>1. channel' = Append(channel, e)
        BY <1>1, <3>1 DEF Arrives
      <4> QED BY <4>1, <3>1, <1>0
    <3>2. CASE ~(Len(channel) < InboundBuffer)
      BY <1>1, <3>2, <1>0 DEF Arrives
    <3> QED BY <3>1, <3>2
  <2>2. arrived' \in 0 .. MaxArrivals
    BY <1>1 DEF Arrives, Events, PipelineInv, PipelineTypeOK
  <2>3. UNCHANGED <<shell, loop, cancelled, hand, messages, receipts, read, acked, watch, errors>>
    BY <1>1 DEF Arrives
  <2>4. PipelineTypeOK'
    BY <2>1, <2>2, <2>3 DEF PipelineInv, PipelineTypeOK, Stored
  <2> QED BY <2>3, <2>4, HandKept, ReceiptsKept, LoopsKept, NudgesKept DEF PipelineInv
<1>2. CASE Take
  <2>1. /\ loop["inbound"] = "select" /\ channel # <<>> /\ channel' = Tail(channel)
        /\ UNCHANGED <<shell, cancelled, messages, receipts, read, acked, watch, arrived, errors>>
    BY <1>2 DEF Take
  <2>2. channel' \in Seq(Events) /\ Len(channel') <= InboundBuffer /\ Head(channel) \in Events
    <3>1. Len(channel') = Len(channel) - 1 /\ Len(channel) \in Nat
      BY <1>0, <2>1
    <3>2. channel' \in Seq(Events) /\ Head(channel) \in Events
      BY <1>0, <2>1
    <3> QED BY <1>0, <3>1, <3>2
  <2>3. hand.at = "none"
    BY <2>1 DEF PipelineInv, HandFull
  <2>4. /\ hand' \in HandRecord /\ loop' \in [Loops -> {"off", "select", "work"}]
        /\ HandFull' /\ \A l \in Loops : loop[l] = "off" => loop'[l] = "off"
    <3>1. CASE Head(channel) \in Foreign
      <4>1. UNCHANGED <<loop, hand>>
        BY <1>2, <3>1 DEF Take
      <4> QED BY <4>1, <1>0, HandKept
    <3>2. CASE Head(channel) \notin Foreign
      <4>1. loop' = [loop EXCEPT !["inbound"] = "work"]
            /\ hand' = [event |-> Head(channel), at |-> "store"]
        BY <1>2, <3>2, HandleSteps DEF Take
      <4>2. "inbound" \in Loops
        BY DEF Loops, PipelineLoops
      <4>3. hand' \in HandRecord /\ loop'["inbound"] = "work"
        BY <4>1, <4>2, <2>2, <1>0 DEF HandRecord
      <4>4. loop' \in [Loops -> {"off", "select", "work"}]
        BY <4>1, <1>0
      <4>5. HandFull'
        BY <4>1, <4>3, <2>2, <3>2 DEF HandFull
      <4>6. \A l \in Loops : loop[l] = "off" => loop'[l] = "off"
        BY <4>1, <1>0, <2>1
      <4> QED BY <4>3, <4>4, <4>5, <4>6
    <3> QED BY <3>1, <3>2
  <2>5. PipelineTypeOK'
    BY <2>1, <2>2, <2>4 DEF PipelineInv, PipelineTypeOK, Stored, HandRecord
  <2> QED BY <2>1, <2>3, <2>4, <2>5, ReceiptsKept, LoopsKept, NudgesKept DEF PipelineInv
<1>3. ASSUME NEW ok \in BOOLEAN, Store(ok) PROVE PipelineInv'
  <2>1. /\ hand.at = "store" /\ hand.event \in Events \ Foreign
        /\ UNCHANGED <<shell, loop, cancelled, channel, receipts, read, acked, watch, arrived>>
    BY <1>3 DEF Store, PipelineInv, HandFull
  <2>2. /\ hand' \in HandRecord /\ hand'.at # "none" /\ hand'.event = hand.event
    BY <1>3, <1>0, HandleSteps DEF Store, HandRecord
  <2>3. /\ messages' \in Seq(Events \ Foreign) /\ Stored \subseteq Stored'
        /\ messages' = messages \/ hand'.at = "publish"
    <3>1. CASE messages' = messages
      BY <3>1, <1>0 DEF Stored
    <3>2. CASE messages' # messages
      <4>1. messages' = Append(messages, hand.event) /\ hand' = [hand EXCEPT !.at = "publish"]
        BY <1>3, <3>2, HandleSteps DEF Store
      <4>2. messages' \in Seq(Events \ Foreign) /\ hand'.at = "publish"
        BY <4>1, <2>1, <1>0 DEF HandRecord
      <4>3. \A i \in DOMAIN messages : i \in DOMAIN messages' /\ messages'[i] = messages[i]
        BY <4>1, <2>1, <1>0
      <4> QED BY <4>2, <4>3 DEF Stored
    <3> QED BY <3>1, <3>2
  <2>4. errors' \in 0 .. MaxStoreErrors
    BY <1>3 DEF Store, PipelineInv, PipelineTypeOK
  <2>5. PipelineTypeOK'
    BY <2>1, <2>2, <2>3, <2>4, <1>0 DEF PipelineInv, PipelineTypeOK, HandRecord
  <2>6. HandFull'
    BY <2>1, <2>2 DEF PipelineInv, HandFull
  <2>7. ReceiptsSound'
    BY <2>1, <2>3 DEF PipelineInv, ReceiptsSound
  <2>8. NudgeNotLost'
    <3>1. CASE hand'.at = "publish"
      BY <3>1 DEF NudgeNotLost, Coming
    <3>2. CASE messages' = messages
      BY <3>2, <2>1, NudgesKept
    <3> QED BY <2>3, <3>1, <3>2
  <2>9. LoadsSound'
    BY <2>1, <2>3 DEF PipelineInv, LoadsSound
  <2> QED BY <2>1, <2>5, <2>6, <2>7, <2>8, <2>9, LoopsKept DEF PipelineInv
<1>4. CASE Publish
  <2>1. /\ hand.at = "publish" /\ hand' = [hand EXCEPT !.at = "touch"]
        /\ watch' = [w \in Watchers |-> Nudged(watch[w], "chats")] /\ "chats" \in Nudges
        /\ UNCHANGED <<shell, loop, cancelled, channel, messages, receipts, read, acked, arrived, errors>>
    BY <1>4, HandleSteps DEF Publish, Nudges
  <2>2. hand' \in HandRecord /\ hand'.at = "touch" /\ hand'.event = hand.event
    BY <2>1, <1>0 DEF HandRecord
  <2>3. (\A v \in Watchers : FitPage(watch'[v])) /\ LoadsSound' /\ NudgeNotLost'
    BY <2>1, WatchAll
  <2>4. PipelineTypeOK'
    BY <2>1, <2>2, <2>3, <1>0 DEF PipelineInv, PipelineTypeOK, HandRecord, FitPage, Stored
  <2>5. HandFull'
    BY <2>1, <2>2 DEF PipelineInv, HandFull
  <2> QED BY <2>1, <2>3, <2>4, <2>5, ReceiptsKept, LoopsKept DEF PipelineInv
<1>5. CASE Settle
  <2>1. /\ hand.at = "touch" /\ hand' = Resting /\ loop' = [loop EXCEPT !["inbound"] = "select"]
        /\ UNCHANGED <<shell, cancelled, channel, messages, receipts, read, acked, watch, arrived, errors>>
    BY <1>5 DEF Settle
  <2>2. loop["inbound"] = "work" /\ "inbound" \in Loops
    BY <2>1 DEF PipelineInv, HandFull, Loops, PipelineLoops
  <2>3. /\ loop' \in [Loops -> {"off", "select", "work"}] /\ loop'["inbound"] = "select"
        /\ \A l \in Loops : loop[l] = "off" => loop'[l] = "off"
    BY <2>1, <2>2, <1>0
  <2>4. hand' \in HandRecord /\ hand'.at = "none"
    BY <2>1 DEF Resting, HandRecord
  <2>5. PipelineTypeOK'
    BY <2>1, <2>3, <2>4, <1>0 DEF PipelineInv, PipelineTypeOK, HandRecord, Stored
  <2>6. HandFull'
    BY <2>3, <2>4 DEF HandFull
  <2> QED BY <2>1, <2>3, <2>5, <2>6, ReceiptsKept, LoopsKept, NudgesKept DEF PipelineInv
<1>6. ASSUME NEW l \in Loops, Work(l) \/ Exit(l) PROVE PipelineInv'
  <2>1. UNCHANGED <<shell, cancelled, channel, hand, messages, receipts, read, acked, watch,
                    arrived, errors>>
    BY <1>6 DEF Work, Exit
  <2>2. PICK to \in {"off", "select", "work"} :
           /\ loop' = [loop EXCEPT ![l] = to] /\ loop[l] # "off"
           /\ l = "inbound" => loop[l] = "select" /\ to = "off"
    BY <1>6 DEF Work, Exit
  <2>3. /\ loop' \in [Loops -> {"off", "select", "work"}]
        /\ \A k \in Loops : loop[k] = "off" => loop'[k] = "off"
    BY <2>2, <1>0
  <2>4. loop'["inbound"] = "work" <=> loop["inbound"] = "work"
    BY <2>2, <1>0 DEF Loops, PipelineLoops
  <2>5. PipelineTypeOK'
    BY <2>1, <2>3, <1>0 DEF PipelineInv, PipelineTypeOK, Stored
  <2> QED BY <2>1, <2>3, <2>4, <2>5, HandKept, ReceiptsKept, LoopsKept, NudgesKept DEF PipelineInv
<1>7. CASE Retrieve
  <2>1. /\ receipts' = receipts \cup {[of |-> Stored \ read, at |-> "delay"]}
        /\ UNCHANGED <<shell, loop, cancelled, channel, hand, messages, read, acked, watch, arrived, errors>>
    BY <1>7 DEF Retrieve
  <2> DEFINE new == [of |-> Stored \ read, at |-> "delay"]
  <2>2. new \in [of : SUBSET Events, at : {"delay", "sent"}] /\ new.of \subseteq Stored /\ new.at = "delay"
    BY <1>0
  <2> HIDE DEF new
  <2>3. PipelineTypeOK'
    BY <2>1, <2>2, <1>0 DEF PipelineInv, PipelineTypeOK, Stored
  <2>4. ReceiptsSound'
    BY <2>1, <2>2 DEF PipelineInv, ReceiptsSound, Stored
  <2> QED BY <2>1, <2>3, <2>4, HandKept, LoopsKept, NudgesKept DEF PipelineInv
<1>8. ASSUME NEW r \in receipts, NEW sent \in BOOLEAN, Receipt(r, sent) PROVE PipelineInv'
  <2>1. /\ receipts' = (receipts \ {r}) \cup (IF sent THEN {[r EXCEPT !.at = "sent"]} ELSE {})
        /\ acked' = IF sent THEN acked \cup r.of ELSE acked
        /\ UNCHANGED <<shell, loop, cancelled, channel, hand, messages, read, watch, arrived, errors>>
    BY <1>8 DEF Receipt
  <2>2. /\ r \in [of : SUBSET Events, at : {"delay", "sent"}]
        /\ r.of \subseteq Stored
    BY DEF PipelineInv, PipelineTypeOK, ReceiptsSound
  <2>3. PICK s \in [of : SUBSET Events, at : {"delay", "sent"}] :
           s = [r EXCEPT !.at = "sent"] /\ s.of = r.of
    <3>1. [r EXCEPT !.at = "sent"] \in [of : SUBSET Events, at : {"delay", "sent"}]
      BY <2>2
    <3>2. [r EXCEPT !.at = "sent"].of = r.of
      BY <2>2
    <3> QED BY <3>1, <3>2
  <2>4. /\ receipts' \subseteq receipts \cup {s} /\ (s \in receipts' => sent \/ s \in receipts)
        /\ acked \subseteq acked' /\ acked' \subseteq Stored /\ (sent => r.of \subseteq acked')
    BY <2>1, <2>2, <2>3, <1>0
  <2>5. PipelineTypeOK'
    BY <2>1, <2>4, <1>0 DEF PipelineInv, PipelineTypeOK, Stored
  <2>6. ReceiptsSound'
    <3> SUFFICES ASSUME NEW q \in receipts'
                 PROVE  q.of \subseteq Stored /\ (q.at = "sent" => q.of \subseteq acked')
      BY <2>1 DEF ReceiptsSound, Stored
    <3>1. CASE q \in receipts
      BY <3>1, <2>4 DEF PipelineInv, ReceiptsSound
    <3>2. CASE q = s /\ sent
      BY <3>2, <2>2, <2>3, <2>4
    <3> QED BY <2>4, <3>1, <3>2
  <2> QED BY <2>1, <2>5, <2>6, HandKept, LoopsKept, NudgesKept DEF PipelineInv
<1>9. ASSUME NEW r \in receipts, SetRead(r) PROVE PipelineInv'
  <2>1. /\ r.at = "sent" /\ receipts' = receipts \ {r}
        /\ read' = IF shell = "closed" THEN read ELSE read \cup r.of
        /\ UNCHANGED <<shell, loop, cancelled, channel, hand, messages, acked, watch, arrived, errors>>
    BY <1>9 DEF SetRead
  <2>2. read' \subseteq acked
    BY <2>1, <1>0 DEF PipelineInv, ReceiptsSound
  <2>3. PipelineTypeOK'
    BY <2>1, <2>2, <1>0 DEF PipelineInv, PipelineTypeOK, Stored
  <2> QED BY <2>1, <2>3, HandKept, ReceiptsKept, LoopsKept, NudgesKept DEF PipelineInv
<1>10. ASSUME NEW nudge \in Nudges, PublishElsewhere(nudge) PROVE PipelineInv'
  <2>1. /\ watch' = [w \in Watchers |-> Nudged(watch[w], nudge)]
        /\ UNCHANGED <<shell, loop, cancelled, channel, hand, messages, receipts, read, acked,
                       arrived, errors>>
    BY <1>10 DEF PublishElsewhere
  <2>2. (\A v \in Watchers : FitPage(watch'[v])) /\ LoadsSound' /\ NudgeNotLost'
    BY <2>1, WatchAll
  <2>3. PipelineTypeOK'
    BY <2>1, <2>2, <1>0 DEF PipelineInv, PipelineTypeOK, FitPage, Stored
  <2> QED BY <2>1, <2>2, <2>3, HandKept, ReceiptsKept, LoopsKept DEF PipelineInv
<1>11. ASSUME NEW w \in Watchers,
              \/ Subscribe(w) \/ Opened(w) \/ Notice(w) \/ Unsubscribe(w)
              \/ \E k \in Loads : \/ \E timer \in BOOLEAN : Reload(w, k, timer)
                                  \/ ReadChats(w, k) \/ ShowChats(w, k) \/ LoadFails(w, k)
       PROVE  PipelineInv'
  <2>1. PICK r : PageTurns(w, r) /\ Fit(r) /\ Covered(r)
    BY <1>11, PageSteps
  <2>2. /\ watch' = [watch EXCEPT ![w] = r]
        /\ UNCHANGED <<shell, loop, cancelled, channel, hand, messages, receipts, read, acked,
                       arrived, errors>>
    BY <2>1 DEF PageTurns
  <2>3. (\A v \in Watchers : FitPage(watch'[v])) /\ LoadsSound' /\ NudgeNotLost'
    BY <2>1, <2>2, WatchOne
  <2>4. PipelineTypeOK'
    BY <2>2, <2>3, <1>0 DEF PipelineInv, PipelineTypeOK, FitPage, Stored
  <2> QED BY <2>2, <2>3, <2>4, HandKept, ReceiptsKept, LoopsKept DEF PipelineInv
<1>12. CASE Quit \/ Stop \/ Stopped \/ CloseStore
  <2>1. UNCHANGED <<channel, hand, messages, receipts, read, acked, watch, arrived, errors, loop>>
    BY <1>12 DEF Quit, Stop, Stopped, CloseStore, ShellGoes
  <2>2. /\ shell' \in {"serving", "draining", "stopping", "joining", "closed"}
        /\ cancelled' \subseteq {"main", "pipeline"}
    BY <1>12 DEF Quit, Stop, Stopped, CloseStore, ShellGoes, PipelineInv, PipelineTypeOK
  <2>3. PipelineTypeOK'
    BY <2>1, <2>2, <1>0 DEF PipelineInv, PipelineTypeOK, Stored
  <2>4. LoopsEnded'
    <3>1. CASE Quit \/ Stop
      BY <3>1, <2>1 DEF Quit, Stop, ShellGoes, LoopsEnded
    <3>2. CASE Stopped
      BY <3>2, <2>1 DEF Stopped, RunEnds, ShellGoes, LoopsEnded
    <3>3. CASE CloseStore
      BY <3>3, <2>1 DEF CloseStore, ShellGoes, LoopsEnded, PipelineInv
    <3> QED BY <1>12, <3>1, <3>2, <3>3
  <2> QED BY <2>1, <2>3, <2>4, HandKept, ReceiptsKept, NudgesKept DEF PipelineInv
<1>13. CASE UNCHANGED pipeVars
  <2>1. UNCHANGED <<shell, loop, cancelled, channel, hand, messages, receipts, read, acked,
                    watch, arrived, errors>>
    BY <1>13 DEF pipeVars
  <2>2. PipelineTypeOK'
    BY <2>1, <1>0 DEF PipelineInv, PipelineTypeOK, Stored
  <2> QED BY <2>1, <2>2, HandKept, ReceiptsKept, LoopsKept, NudgesKept DEF PipelineInv
<1> QED
  BY <1>1, <1>2, <1>3, <1>4, <1>5, <1>6, <1>7, <1>8, <1>9, <1>10, <1>11, <1>12, <1>13
     DEF PipelineNext

LEMMA PipelineInvariant == PipelineSpec => []PipelineInv
BY PipelineInitInv, PipelineStepInv, PTL DEF PipelineSpec

\* Types of the loops, the bus and the receipts (pipeline.go, eventbus.go).
THEOREM PipelineTypes == PipelineSpec => []PipelineTypeOK
<1>1. PipelineInv => PipelineTypeOK
  BY DEF PipelineInv
<1> QED BY <1>1, PipelineInvariant, PTL

\* A page that listens and shows too little has a nudge waiting or on its way,
\* or a reload, unless a nudge was dropped behind events of other kinds, a
\* reload failed or one was overtaken since the last nudge it took: any pages,
\* any requests, any buffer (eventbus.Bus.Publish, app.js loadChats).
THEOREM PipelineNudges == PipelineSpec => []NudgeNotLost
<1>1. PipelineInv => NudgeNotLost
  BY DEF PipelineInv
<1> QED BY <1>1, PipelineInvariant, PTL

\* The store is closed only when every loop has ended (Controller.Stop, main).
THEOREM PipelineStoreLast == PipelineSpec => []StoreOutlivesLoops
<1>1. PipelineInv => StoreOutlivesLoops
  BY DEF PipelineInv, LoopsEnded, StoreOutlivesLoops, Loops
<1> QED BY <1>1, PipelineInvariant, PTL
=============================================================================
