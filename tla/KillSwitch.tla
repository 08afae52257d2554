----------------------------- MODULE KillSwitch -----------------------------
(***************************************************************************)
(* The anti-ban emergency stop: two volatile flags, governor.kill and      *)
(* state.Muted, and their persisted copy store.SettingKillSwitch.          *)
(*                                                                         *)
(* They are written by set_kill_switch (REST and MCP run the same three    *)
(* writes: setting, governor, state), by the WhatsApp adapter when the     *)
(* account is logged out or banned (state, then governor; the setting is   *)
(* left alone), and by main.go's restoreKillSwitch at boot.  No lock spans *)
(* the writes, so requests interleave write by write.                      *)
(*                                                                         *)
(* brake and banned are history variables: what the owner asked for, and   *)
(* what the network told the gateway.  No action reads them.               *)
(***************************************************************************)
EXTENDS Naturals

CONSTANTS Owners    \* concurrent set_kill_switch requests: dashboard, MCP

VARIABLES
    up,         \* the process runs
    setting,    \* store.SettingKillSwitch
    kill,       \* governor.Limiter.kill
    muted,      \* state.Status.Muted
    call,       \* progress of each set_kill_switch request
    tripping,   \* handleDisconnect(kill = true) is between its two writes
    brake,      \* history: a set_kill_switch(true) stands
    banned      \* history: a trip stands that no owner has released

killVars == <<up, setting, kill, muted, call, tripping, brake, banned>>

Steps == {"idle", "persist", "govern", "mute"}

\* lone: no request for the other value overlapped this one, and its write of
\* the setting went through.  It is history too.
Call == [step : Steps, value : BOOLEAN, lone : BOOLEAN]
Idle == [step |-> "idle", value |-> FALSE, lone |-> FALSE]

\* killSwitchActive: either half counts.
KillActive == kill \/ muted

KillInit ==
    /\ up = TRUE
    /\ setting = FALSE /\ kill = FALSE /\ muted = FALSE
    /\ call = [o \in Owners |-> Idle]
    /\ tripping = FALSE
    /\ brake = FALSE /\ banned = FALSE

Asking(o) == call[o].step # "idle"
Opposed(v) == \E o \in Owners : Asking(o) /\ call[o].value # v

Ask(o, v) ==
    /\ up /\ ~Asking(o)
    /\ call' = [p \in Owners |->
                  IF p = o
                  THEN [step |-> "persist", value |-> v, lone |-> ~Opposed(v)]
                  ELSE [call[p] EXCEPT !.lone = @ /\ call[p].value = v]]
    /\ brake' = (brake /\ v)
    /\ banned' = (banned /\ v)
    /\ UNCHANGED <<up, setting, kill, muted, tripping>>

\* A failed write of the setting is logged; the request goes on.
Persist(o, ok) ==
    /\ up /\ call[o].step = "persist"
    /\ setting' = IF ok THEN call[o].value ELSE setting
    /\ call' = [call EXCEPT ![o].step = "govern", ![o].lone = @ /\ ok]
    /\ UNCHANGED <<up, kill, muted, tripping, brake, banned>>

Govern(o) ==
    /\ up /\ call[o].step = "govern"
    /\ kill' = call[o].value
    /\ call' = [call EXCEPT ![o].step = "mute"]
    /\ UNCHANGED <<up, setting, muted, tripping, brake, banned>>

Mute(o) ==
    /\ up /\ call[o].step = "mute"
    /\ muted' = call[o].value
    /\ call' = [call EXCEPT ![o] = Idle]
    /\ brake' = (brake \/ (call[o].value /\ call[o].lone))
    /\ UNCHANGED <<up, setting, kill, tripping, banned>>

\* LoggedOut or TemporaryBan.
Trip ==
    /\ up /\ ~tripping
    /\ muted' = TRUE
    /\ tripping' = TRUE
    /\ UNCHANGED <<up, setting, kill, call, brake, banned>>

TripGovernor ==
    /\ up /\ tripping
    /\ kill' = TRUE
    /\ tripping' = FALSE
    /\ banned' = (banned \/ ~Opposed(TRUE))
    /\ UNCHANGED <<up, setting, muted, call, brake>>

\* The process ends.  A request that had recorded its intent stands.
KillDown ==
    /\ up' = FALSE
    /\ kill' = FALSE /\ muted' = FALSE
    /\ call' = [o \in Owners |-> Idle]
    /\ tripping' = FALSE
    /\ brake' = (brake \/ \E o \in Owners : /\ call[o].step \in {"govern", "mute"}
                                           /\ call[o].value /\ call[o].lone)
    /\ UNCHANGED <<setting, banned>>

\* restoreKillSwitch, before anything can send.
KillUp ==
    /\ up' = TRUE
    /\ kill' = setting /\ muted' = setting
    /\ UNCHANGED <<setting, call, tripping, brake, banned>>

KillTypeOK ==
    /\ {up, setting, kill, muted, tripping, brake, banned} \subseteq BOOLEAN
    /\ call \in [Owners -> Call]
=============================================================================
