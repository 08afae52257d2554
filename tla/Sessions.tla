------------------------------ MODULE Sessions ------------------------------
(***************************************************************************)
(* Who is signed in to the dashboard: the password, seeded when it is      *)
(* first asked for, changed by its owner, by the emergency tool or with a  *)
(* recovery code; the secret that signs every session, replaced after each *)
(* change; and the one recovery code there is at a time.                   *)
(***************************************************************************)
EXTENDS Integers

CONSTANTS
    Browsers,        \* browsers that sign in
    Changers,        \* password changes at once
    MaxChanges,      \* password changes
    MaxSecrets,      \* secrets ever generated
    MaxRecoveryCodes,  \* recovery codes ever generated
    RecoveryTries    \* recoveryMaxAttempts

ASSUME SessionsAssumption ==
    /\ MaxChanges \in Nat /\ MaxSecrets \in Nat /\ MaxRecoveryCodes \in Nat /\ RecoveryTries \in Nat

VARIABLES
    password,   \* SettingDashPassHash: NoKey, the seed (0) or the number of a change
    secret,     \* SettingDashSessionSecret, numbered; NoKey while there is none
    seeding,    \* passHash: calls that found no password and have not stored one
    browser,    \* Browsers -> its sign-in and the secret that signed its session
    changer,    \* Changers -> a change: its stage, its number, the secret it met
    code,       \* recoveryActive: its number, of use or not, wrong guesses
    starting,   \* tryStartRecovery: requests between its two locks
    made,       \* secrets, changes and codes so far
    accepted,   \* history: codes accepted, and those accepted again
    revoked,    \* history: the secrets in use when a completed change began
    latest      \* history: the change stored last; 0 while none, or once stored
                \* under a call that was seeding

sessionVars == <<password, secret, seeding, browser, changer, code, starting, made, accepted,
                 revoked, latest>>

NoKey == -1
SignedOut == [at |-> "out", key |-> NoKey]
NoChange == [at |-> "idle", number |-> 0, met |-> NoKey]

SessionsInit ==
    /\ password = NoKey /\ secret = NoKey /\ seeding = 0
    /\ browser = [b \in Browsers |-> SignedOut]
    /\ changer = [k \in Changers |-> NoChange]
    /\ code = [number |-> 0, live |-> FALSE, tries |-> 0] /\ starting = 0
    /\ made = [secrets |-> 0, changes |-> 0, codes |-> 0]
    /\ accepted = [once |-> {}, twice |-> {}] /\ revoked = {} /\ latest = 0

\* RotateDashSessionSecret.
Rotate ==
    /\ made.secrets < MaxSecrets
    /\ secret' = made.secrets + 1
-----------------------------------------------------------------------------
\* Mutant: the seed is stored over whatever password there is.
AnyPassword == TRUE

Unseeded == password = NoKey

\* passHash, for a login or the dashboard's own page: no password yet ...
FindUnseeded ==
    /\ Unseeded /\ seeding < 2 /\ seeding' = seeding + 1
    /\ UNCHANGED <<password, secret, browser, changer, code, starting, made, accepted, revoked, latest>>

\* ... so the installer's or the factory's is stored, whatever came meanwhile.
StoreSeed ==
    /\ seeding > 0 /\ seeding' = seeding - 1
    /\ password' = 0
    /\ UNCHANGED <<secret, browser, changer, code, starting, made, accepted, revoked, latest>>

\* handleLogin with the right password: no secret yet, or the session is
\* signed with it.  A wrong password changes nothing.
Login(b) ==
    /\ browser[b].at = "out" /\ password # NoKey
    /\ browser' = [browser EXCEPT ![b].at = "known"]
    /\ UNCHANGED <<password, secret, seeding, changer, code, starting, made, accepted, revoked, latest>>

FindNoSecret(b) ==
    /\ browser[b].at = "known" /\ secret = NoKey
    /\ browser' = [browser EXCEPT ![b].at = "unsigned"]
    /\ UNCHANGED <<password, secret, seeding, changer, code, starting, made, accepted, revoked, latest>>

FirstSecret(b) ==
    /\ browser[b].at = "unsigned"
    /\ Rotate /\ made' = [made EXCEPT !.secrets = @ + 1]
    /\ browser' = [browser EXCEPT ![b].at = "known"]
    /\ UNCHANGED <<password, seeding, changer, code, starting, accepted, revoked, latest>>

SignSession(b) ==
    /\ browser[b].at = "known" /\ secret # NoKey
    /\ browser' = [browser EXCEPT ![b] = [at |-> "in", key |-> secret]]
    /\ UNCHANGED <<password, secret, seeding, changer, code, starting, made, accepted, revoked, latest>>

\* The cookie expires, or the browser drops it.
SignOut(b) ==
    /\ browser[b].at = "in"
    /\ browser' = [browser EXCEPT ![b] = SignedOut]
    /\ UNCHANGED <<password, secret, seeding, changer, code, starting, made, accepted, revoked, latest>>

ValidSession(b) == browser[b].at = "in" /\ browser[b].key = secret
-----------------------------------------------------------------------------
Begin(k) ==
    /\ changer[k] = NoChange /\ made.changes < MaxChanges
    /\ made' = [made EXCEPT !.changes = @ + 1]
    /\ changer' = [changer EXCEPT ![k] =
          [at |-> "begun", number |-> made.changes + 1, met |-> secret]]

\* handleChangePassword, with the current password; reset_dashboard_password.
BeginChange(k) ==
    /\ Begin(k)
    /\ UNCHANGED <<password, secret, seeding, browser, code, starting, accepted, revoked, latest>>

Spent == [code EXCEPT !.live = FALSE]

\* consumeRecoveryCode, with the right code and in time ...
Recover(k) ==
    /\ code.live /\ code.tries < RecoveryTries
    /\ code' = [Spent EXCEPT !.tries = @ + 1]
    /\ accepted' = IF code.number \in accepted.once
                   THEN [accepted EXCEPT !.twice = @ \cup {code.number}]
                   ELSE [accepted EXCEPT !.once = @ \cup {code.number}]
    /\ Begin(k)
    /\ UNCHANGED <<password, secret, seeding, browser, starting, revoked, latest>>

\* ... with a wrong one; once too often spends it.
GuessWrong ==
    /\ code.live
    /\ code' = IF code.tries < RecoveryTries THEN [code EXCEPT !.tries = @ + 1] ELSE Spent
    /\ UNCHANGED <<password, secret, seeding, browser, changer, starting, made, accepted, revoked, latest>>

\* The hash is stored ...
StoreHash(k) ==
    /\ changer[k].at = "begun"
    /\ password' = changer[k].number
    /\ latest' = IF seeding > 0 THEN 0 ELSE changer[k].number
    /\ changer' = [changer EXCEPT ![k].at = "stored"]
    /\ UNCHANGED <<secret, seeding, browser, code, starting, made, accepted, revoked>>

NewSecret == Rotate

\* ... and every session ends.
EndSessions(k) ==
    /\ changer[k].at = "stored"
    /\ NewSecret /\ made' = [made EXCEPT !.secrets = secret']
    /\ revoked' = revoked \cup {changer[k].met}
    /\ changer' = [changer EXCEPT ![k] = NoChange]
    /\ UNCHANGED <<password, seeding, browser, code, starting, accepted, latest>>

\* One of the two writes fails, and the change is answered with an error.
ChangeFails(k) ==
    /\ changer[k] # NoChange
    /\ changer' = [changer EXCEPT ![k] = NoChange]
    /\ UNCHANGED <<password, secret, seeding, browser, code, starting, made, accepted, revoked, latest>>
-----------------------------------------------------------------------------
\* tryStartRecovery: no code of use under the first lock ...
StartRecovery ==
    /\ ~code.live /\ starting < 2 /\ starting' = starting + 1
    /\ UNCHANGED <<password, secret, seeding, browser, changer, code, made, accepted, revoked, latest>>

\* ... a new one under the second, sent to the owner.
PublishCode ==
    /\ starting > 0 /\ starting' = starting - 1
    /\ made.codes < MaxRecoveryCodes /\ made' = [made EXCEPT !.codes = @ + 1]
    /\ code' = [number |-> made.codes + 1, live |-> TRUE, tries |-> 0]
    /\ UNCHANGED <<password, secret, seeding, browser, changer, accepted, revoked, latest>>

ExpireCode ==
    /\ code.live /\ code' = Spent
    /\ UNCHANGED <<password, secret, seeding, browser, changer, starting, made, accepted, revoked, latest>>

\* The process ends: the recovery code is in memory only.
SessionsRestart ==
    /\ seeding' = 0 /\ starting' = 0
    /\ code' = [number |-> 0, live |-> FALSE, tries |-> 0]
    /\ changer' = [k \in Changers |-> NoChange]
    /\ browser' = [b \in Browsers |-> IF browser[b].at = "in" THEN browser[b] ELSE SignedOut]
    /\ UNCHANGED <<password, secret, made, accepted, revoked, latest>>

SessionsNext ==
    \/ FindUnseeded \/ StoreSeed
    \/ \E b \in Browsers : Login(b) \/ FindNoSecret(b) \/ FirstSecret(b) \/ SignSession(b) \/ SignOut(b)
    \/ \E k \in Changers : BeginChange(k) \/ Recover(k) \/ StoreHash(k) \/ EndSessions(k) \/ ChangeFails(k)
    \/ GuessWrong \/ StartRecovery \/ PublishCode \/ ExpireCode \/ SessionsRestart

SessionsSpec == SessionsInit /\ [][SessionsNext]_sessionVars
-----------------------------------------------------------------------------
Keys == {NoKey} \cup 1 .. MaxSecrets

SessionsTypeOK ==
    /\ password \in {NoKey} \cup 0 .. MaxChanges
    /\ secret \in Keys /\ seeding \in 0 .. 2 /\ starting \in 0 .. 2
    /\ browser \in [Browsers -> [at : {"out", "known", "unsigned", "in"}, key : Keys]]
    /\ changer \in [Changers -> [at : {"idle", "begun", "stored"}, number : 0 .. MaxChanges,
                                 met : Keys]]
    /\ code \in [number : 0 .. MaxRecoveryCodes, live : BOOLEAN, tries : 0 .. RecoveryTries]
    /\ made \in [secrets : 0 .. MaxSecrets, changes : 0 .. MaxChanges,
                 codes : 0 .. MaxRecoveryCodes]
    /\ accepted \in [{"once", "twice"} -> SUBSET (1 .. MaxRecoveryCodes)]
    /\ revoked \subseteq Keys /\ latest \in 0 .. MaxChanges

\* A password the owner set stands until the next change: no login, page or
\* restart brings the first one back, unless the change was stored while a
\* call was storing the first (restapi.passHash).
PasswordStands == latest > 0 => password = latest

\* A completed change ends every session there was when it began
\* (SettingDashSessionSecret: "always ends every existing browser session").
ChangeEndsSessions == \A b \in Browsers : ValidSession(b) => browser[b].key \notin revoked

\* A recovery code changes the password at most once, however many requests
\* bring it at a time (consumeRecoveryCode: "un solo uso").
CodeOnce == accepted.twice = {}

\* What a change of password promises, from whichever door it comes
\* (handleChangePassword, handleRecoverVerify).
ChangeHolds == PasswordStands /\ ChangeEndsSessions /\ CodeOnce
=============================================================================
