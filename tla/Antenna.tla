------------------------------ MODULE Antenna ------------------------------
(***************************************************************************)
(* The principal's antenna: a session with one terminal of a CleverCoder,  *)
(* shared by the push and the dashboard's ping, and reconfigured while     *)
(* either is on its way.  The lock is never held during a request, so what *)
(* a handshake brings back may land on another configuration.  A pinpass    *)
(* dies when its antenna is switched off: the next one has to be entered.  *)
(***************************************************************************)
EXTENDS Naturals, FiniteSets

CONSTANTS
    Terminals,    \* terminals of the CleverCoder (one endpoint)
    Callers,      \* calls of Inject at once
    MaxConfigs,   \* reconfigurations and restarts
    MaxRestarts,  \* times the CleverCoder forgets its sessions
    MaxSwitches,  \* times an antenna is switched on again
    NoTerminal    \* no terminal entered, no session, no call

ASSUME AntennaAssumption ==
    NoTerminal \notin Terminals /\ MaxConfigs \in Nat /\ MaxRestarts \in Nat /\ MaxSwitches \in Nat

NoSession == [terminal |-> NoTerminal, epoch |-> 0]
Session == [terminal : Terminals, epoch : 0 .. MaxRestarts]

\* Endpoint (there is one, or none), TerminalID, Pinpass: whose, and which.
Passes == [of : Terminals \cup {NoTerminal}, issue : 0 .. MaxSwitches]
Confs == [endpoint : BOOLEAN, terminal : Terminals \cup {NoTerminal}, pinpass : Passes]

Cleared == [endpoint |-> FALSE, terminal |-> NoTerminal, pinpass |-> [of |-> NoTerminal, issue |-> 0]]
Card(t, n) == [endpoint |-> TRUE, terminal |-> t, pinpass |-> [of |-> t, issue |-> n]]

Quiet == [at |-> "idle", conf |-> Cleared, session |-> NoSession, again |-> FALSE]

VARIABLES
    settings, \* the three settings, stored
    conf,     \* CleverInjector: Endpoint, TerminalID, Pinpass
    session,  \* token and key
    dead,
    call,     \* Callers -> where Inject is, its snapshot and session
    epoch,    \* the CleverCoder: sessions of another epoch are unknown to it
    gone,     \* terminals it will never resolve again
    deaf,     \* terminals whose antenna is off
    issue,    \* terminal -> how often its antenna was switched on again
    configs,  \* reconfigurations and restarts so far
    saving,   \* a reconfiguration: what is being stored, what of it is left
    strayed,  \* history: a call reached a terminal not configured during it
    swapped   \* history: the antenna was reconfigured under a call

antennaVars == <<settings, conf, session, dead, call, epoch, gone, deaf, issue, configs, saving,
                 strayed, swapped>>

Fields == {"endpoint", "terminal", "pinpass"}
NotSaving == [card |-> Cleared, left |-> {}]

AntennaInit ==
    /\ conf \in {Cleared} \cup {Card(t, 0) : t \in Terminals} /\ settings = conf
    /\ session = NoSession /\ dead = FALSE
    /\ call = [c \in Callers |-> Quiet]
    /\ epoch = 0 /\ gone = {} /\ deaf \in SUBSET Terminals
    /\ issue = [t \in Terminals |-> 0]
    /\ configs = 0 /\ saving = NotSaving /\ strayed = FALSE /\ swapped = FALSE

Configured == conf.endpoint /\ ~dead
Calling == \E c \in Callers : call[c] # Quiet
-----------------------------------------------------------------------------
\* SetCAPIConnector: three settings in no fixed order, of a pinpass that may
\* have died already; or all of them cleared ...
SaveConfig(card) ==
    /\ saving = NotSaving /\ configs < MaxConfigs /\ configs' = configs + 1
    /\ saving' = [card |-> card, left |-> Fields]
    /\ UNCHANGED <<settings, conf, session, dead, call, epoch, gone, deaf, issue, strayed, swapped>>

SaveField(f) ==
    /\ f \in saving.left /\ saving' = [saving EXCEPT !.left = @ \ {f}]
    /\ settings' = [settings EXCEPT
           !.endpoint = IF f = "endpoint" THEN saving.card.endpoint ELSE @,
           !.terminal = IF f = "terminal" THEN saving.card.terminal ELSE @,
           !.pinpass = IF f = "pinpass" THEN saving.card.pinpass ELSE @]
    /\ UNCHANGED <<conf, session, dead, call, epoch, gone, deaf, issue, configs, strayed, swapped>>

ForgetSession == NoSession

\* ... then SetConfig, under the lock.
SetConfig ==
    /\ saving # NotSaving /\ saving.left = {} /\ saving' = NotSaving
    /\ conf' = saving.card /\ session' = ForgetSession /\ dead' = FALSE
    /\ swapped' = Calling /\ strayed' = (strayed /\ Calling)
    /\ UNCHANGED <<settings, call, epoch, gone, deaf, issue, configs>>

\* A setting cannot be stored: the antenna in use stays.
SettingFails ==
    /\ saving.left # {} /\ saving' = NotSaving
    /\ UNCHANGED <<settings, conf, session, dead, call, epoch, gone, deaf, issue, configs, strayed, swapped>>

\* The gateway starts again, with what the settings hold.
AntennaRestart ==
    /\ configs < MaxConfigs /\ configs' = configs + 1
    /\ conf' = settings /\ session' = NoSession /\ dead' = FALSE /\ saving' = NotSaving
    /\ call' = [c \in Callers |-> Quiet] /\ swapped' = FALSE /\ strayed' = FALSE
    /\ UNCHANGED <<settings, epoch, gone, deaf, issue>>
-----------------------------------------------------------------------------
\* Inject: the snapshot.
Inject(c) ==
    /\ call[c] = Quiet /\ Configured
    /\ call' = [call EXCEPT ![c] = [at |-> IF session = NoSession THEN "shake" ELSE "post",
                                    conf |-> conf, session |-> session, again |-> FALSE]]
    /\ UNCHANGED <<settings, conf, session, dead, epoch, gone, deaf, issue, configs, saving, strayed, swapped>>

\* Mutant: an antenna that is off counts as gone.
GoneOrOff(t) == t \in gone \cup deaf

Gone(t) == t \in gone

\* The antenna listens, and this is the pinpass it shows.
Accepts(card) ==
    /\ card.terminal \in Terminals \ deaf
    /\ card.pinpass = [of |-> card.terminal, issue |-> issue[card.terminal]]

\* handshake: terminal_gone, a token, or any other failure (antenna_off,
\* invalid_pinpass).
Handshake(c) ==
    /\ call[c].at = "shake"
    /\ LET card == call[c].conf
       IN  call' = [call EXCEPT ![c] =
               IF Gone(card.terminal) THEN [@ EXCEPT !.at = "dead"]
               ELSE IF Accepts(card)
               THEN [@ EXCEPT !.at = "session",
                              !.session = [terminal |-> card.terminal, epoch |-> epoch]]
               ELSE Quiet]
    /\ UNCHANGED <<settings, conf, session, dead, epoch, gone, deaf, issue, configs, saving, strayed, swapped>>

MarkDead(c) ==
    /\ call[c].at = "dead"
    /\ dead' = TRUE
    /\ call' = [call EXCEPT ![c] = Quiet]
    /\ UNCHANGED <<settings, conf, session, epoch, gone, deaf, issue, configs, saving, strayed, swapped>>

\* updateSession, whatever is configured by now.
UpdateSession(c) ==
    /\ call[c].at = "session"
    /\ session' = call[c].session
    /\ call' = [call EXCEPT ![c].at = "post"]
    /\ UNCHANGED <<settings, conf, dead, epoch, gone, deaf, issue, configs, saving, strayed, swapped>>

\* Mutant: a rejected session is not renewed.
GiveUp(c) == Quiet

Renew(c) == IF call[c].again THEN Quiet ELSE [call[c] EXCEPT !.at = "shake", !.again = TRUE]

\* postMessage: the token alone says which terminal is meant.
PostMessage(c) ==
    /\ call[c].at = "post"
    /\ LET s == call[c].session
           known == s.epoch = epoch /\ s.terminal \notin gone
       IN  /\ call' = [call EXCEPT ![c] = IF known THEN Quiet ELSE Renew(c)]
           /\ strayed' = (strayed \/ (known /\ s.terminal \notin deaf /\ s.terminal # call[c].conf.terminal))
    /\ UNCHANGED <<settings, conf, session, dead, epoch, gone, deaf, issue, configs, saving, swapped>>

\* The CleverCoder restarts, a terminal is closed for good, an antenna is
\* switched on or off.
Forget ==
    /\ epoch < MaxRestarts /\ epoch' = epoch + 1
    /\ UNCHANGED <<settings, conf, session, dead, call, gone, deaf, issue, configs, saving, strayed, swapped>>

Vanish(t) ==
    /\ Terminals \ gone # {t} /\ gone' = gone \cup {t}
    /\ UNCHANGED <<settings, conf, session, dead, call, epoch, deaf, issue, configs, saving, strayed, swapped>>

\* Switched on again, the antenna shows another pinpass.
Switch(t) ==
    /\ \/ t \notin deaf /\ deaf' = deaf \cup {t} /\ UNCHANGED issue
       \/ /\ t \in deaf /\ issue[t] < MaxSwitches
          /\ deaf' = deaf \ {t} /\ issue' = [issue EXCEPT ![t] = @ + 1]
    /\ UNCHANGED <<settings, conf, session, dead, call, epoch, gone, configs, saving, strayed, swapped>>

CallStep(c) == Handshake(c) \/ MarkDead(c) \/ UpdateSession(c) \/ PostMessage(c)

AntennaNext ==
    \/ SaveConfig(Cleared)
    \/ \E t \in Terminals : \E n \in 0 .. issue[t] : SaveConfig(Card(t, n))
    \/ \E f \in Fields : SaveField(f)
    \/ SetConfig \/ SettingFails \/ AntennaRestart
    \/ \E c \in Callers : Inject(c) \/ CallStep(c)
    \/ Forget \/ \E t \in Terminals : Vanish(t) \/ Switch(t)

AntennaSpec == AntennaInit /\ [][AntennaNext]_antennaVars

\* The push tries again with every sweep while it has something to push, and
\* every request of a call answers or times out.
AntennaFairness == \A c \in Callers : WF_antennaVars(Inject(c)) /\ WF_antennaVars(CallStep(c))

FairAntennaSpec == AntennaSpec /\ AntennaFairness
-----------------------------------------------------------------------------
AntennaTypeOK ==
    /\ settings \in Confs /\ conf \in Confs
    /\ session \in Session \cup {NoSession} /\ dead \in BOOLEAN
    /\ call \in [Callers -> [at : {"idle", "shake", "dead", "session", "post"},
                             conf : Confs,
                             session : Session \cup {NoSession}, again : BOOLEAN]]
    /\ epoch \in 0 .. MaxRestarts /\ gone \subseteq Terminals /\ deaf \subseteq Terminals
    /\ issue \in [Terminals -> 0 .. MaxSwitches]
    /\ configs \in 0 .. MaxConfigs
    /\ saving \in [card : Confs, left : SUBSET Fields]
    /\ strayed \in BOOLEAN /\ swapped \in BOOLEAN

\* The antenna is discarded only when its terminal is gone for good, unless it
\* was last reconfigured under a call (CleverInjector.markDead: "a terminal_gone
\* handshake means the id will never resolve").
DeadIsGone == dead /\ ~swapped => conf.terminal \in gone

\* A dispatch reaches the terminal that is configured (CleverInjector.Inject:
\* "every dispatch goes to c.TerminalID"), with the same exception; a session
\* of an earlier configuration is renewed, never used.
ReachesConfigured == ~swapped => ~strayed

\* What the antenna in use stands for.  SetConfig promises it without the
\* exception ("forces a re-handshake on the next Inject call", "safe to call
\* concurrently with Inject"); a handshake already under way undoes that.
AntennaHolds == DeadIsGone /\ ReachesConfigured

\* Once the configured terminal stays, listens and shows the configured pinpass,
\* the antenna gets a session it accepts, whatever restarted meanwhile (Inject:
\* "401 -> re-handshake"), with the same exception.  After a switch that takes
\* the next pinpass to be entered: the configured one "dies when the antenna is
\* switched off" (CleverInjector).
SessionHeals ==
    <>[](Accepts(conf) /\ conf.endpoint /\ conf.terminal \notin gone /\ ~dead /\ ~swapped)
        => []<>(session = [terminal |-> conf.terminal, epoch |-> epoch])
=============================================================================
