----------------------------- MODULE ChatLevel -----------------------------
(***************************************************************************)
(* Who decides how a chat is attended: the owner, by a request that takes  *)
(* several writes, or the defaults, applied again whenever the chat or its *)
(* contact is touched, until the owner has decided.  One chat of a person  *)
(* and the requests about it; a group never takes a default.               *)
(***************************************************************************)
EXTENDS Naturals, Sequences

CONSTANTS
    DefaultLevels,  \* what the two defaults may be set to
    Requests,       \* what the owner asks for
    NoChat          \* no such row

Levels5 == {"boss", "auto", "confirm", "unattended", "ignored"}

\* The columns the level is read from, who set them, whether is_boss was ever
\* decided, and whether the contact has a name.
ChatRow == [boss : BOOLEAN, touched : BOOLEAN, active : BOOLEAN,
            confirm : {"none", "always"},
            status : {"new", "ignored", "whitelist", "exclusive"},
            source : {"default", "manual"}, contact : BOOLEAN]

\* The raw column defaults, which a setter's INSERT leaves in place.
RawRow == [boss |-> FALSE, touched |-> FALSE, active |-> FALSE, confirm |-> "always",
           status |-> "new", source |-> "default", contact |-> FALSE]

\* The writes of each request, in order: SetConfigLevel, one list per level ...
LevelWrites ==
    [boss       |-> <<"boss+", "sweep", "active+", "none">>,
     auto       |-> <<"boss-", "sweep", "active+", "none", "welcome">>,
     confirm    |-> <<"boss-", "sweep", "active+", "always">>,
     unattended |-> <<"boss-", "active-", "unignore">>,
     ignored    |-> <<"ignore", "active-", "boss-">>]

\* ... the dashboard's ignore button and set_chat_status ...
IgnoreWrites == [ignore |-> <<"ignore", "manual">>, restore |-> <<"new", "manual">>]

\* ... and giving the chat to an agent or taking it back.
AssignWrites == [assign |-> <<"exclusive">>, unassign |-> <<"new">>]

Program == [r \in DOMAIN LevelWrites \cup DOMAIN IgnoreWrites \cup DOMAIN AssignWrites |->
               IF r \in DOMAIN LevelWrites THEN LevelWrites[r]
               ELSE IF r \in DOMAIN IgnoreWrites THEN IgnoreWrites[r] ELSE AssignWrites[r]]

ASSUME ChatLevelAssumption ==
    /\ DefaultLevels \subseteq {"auto", "confirm", "unattended", "ignored"}
    /\ Requests \subseteq DOMAIN Program
    /\ NoChat \notin ChatRow

VARIABLES
    chat,      \* the row of the chat
    defaults,  \* the level of a new number and of a contact
    owner,     \* the owner's request: writes left, what it asked for, whether
               \* it met the chat ignored, whether it ran undisturbed
    toucher,   \* TouchChat or SetContactName: its stage and the level it read
    backlog,   \* an unhandled message is older than the activation window
    unbossed   \* history: the owner last said this chat is not the boss's

levelVars == <<chat, defaults, owner, toucher, backlog, unbossed>>

NoRequest == [todo |-> <<>>, asked |-> "nothing", ignored |-> FALSE, clean |-> TRUE]
NoTouch == [at |-> "idle", own |-> FALSE, level |-> "unattended"]

Row0 == IF chat = NoChat THEN RawRow ELSE chat

\* ConfigLevel: the first that matches.
ConfigLevel(c) ==
    CASE c.boss -> "boss"
      [] ~c.boss /\ c.status = "ignored" -> "ignored"
      [] ~c.boss /\ c.status # "ignored" /\ ~c.active -> "unattended"
      [] OTHER -> IF c.confirm = "none" THEN "auto" ELSE "confirm"

ChatLevelInit ==
    /\ chat = NoChat
    /\ defaults \in [{"new", "contact"} -> DefaultLevels]
    /\ owner = NoRequest /\ toucher = NoTouch
    /\ backlog = FALSE /\ unbossed = FALSE
-----------------------------------------------------------------------------
\* A message (TouchChat), a saved contact (SetContactName) or the connection
\* of the own number (recordOwnIdentity) upserts the row ...
Touch ==
    /\ toucher.at = "idle"
    /\ \E contact, own \in BOOLEAN :
          /\ ~(contact /\ own)
          /\ chat' = IF chat # NoChat
                     THEN [chat EXCEPT !.contact = @ \/ contact]
                     ELSE [RawRow EXCEPT !.contact = contact,
                                         !.confirm = IF contact THEN @ ELSE "none"]
          /\ toucher' = [NoTouch EXCEPT !.at = "touched", !.own = own]
    /\ UNCHANGED <<defaults, owner, backlog, unbossed>>

\* Mutant: the owner's decision is not looked at.
NobodyDecided == chat # NoChat

Undecided == chat # NoChat /\ chat.source = "default"

\* ... applyOriginDefaultIfUnset reads who decided, and the default ...
ReadOrigin ==
    /\ toucher.at = "touched"
    /\ toucher' =
          IF Undecided
          THEN [toucher EXCEPT !.at = "apply",
                               !.level = defaults[IF chat.contact THEN "contact" ELSE "new"]]
          ELSE [toucher EXCEPT !.at = "applied"]
    /\ UNCHANGED <<chat, defaults, owner, backlog, unbossed>>

Defaulted(c, level) ==
    CASE level = "auto" -> [c EXCEPT !.active = TRUE, !.confirm = "none"]
      [] level = "confirm" -> [c EXCEPT !.active = TRUE, !.confirm = "always"]
      [] level = "unattended" -> [c EXCEPT !.active = FALSE]
      [] level = "ignored" -> [c EXCEPT !.active = FALSE, !.status = "ignored"]

\* ... and writes it, whoever decided since.
ApplyDefault ==
    /\ toucher.at = "apply"
    /\ chat' = IF chat = NoChat THEN chat ELSE Defaulted(chat, toucher.level)
    /\ toucher' = [toucher EXCEPT !.at = "applied"]
    /\ UNCHANGED <<defaults, owner, backlog, unbossed>>

OwnerUntouched(c) == ~c.touched

\* The own number is the boss's, unless is_boss was ever decided.
MarkOwner ==
    /\ toucher.at = "applied"
    /\ chat' = IF toucher.own /\ chat # NoChat /\ OwnerUntouched(chat)
               THEN [chat EXCEPT !.boss = TRUE, !.touched = TRUE] ELSE chat
    /\ toucher' = NoTouch
    /\ UNCHANGED <<defaults, owner, backlog, unbossed>>

SetDefault ==
    /\ \E origin \in {"new", "contact"}, level \in DefaultLevels :
          defaults' = [defaults EXCEPT ![origin] = level]
    /\ defaults' # defaults
    /\ UNCHANGED <<chat, owner, toucher, backlog, unbossed>>

Ask ==
    /\ owner.todo = <<>>
    /\ \E request \in Requests :
          owner' = [NoRequest EXCEPT !.todo = Program[request], !.asked = request]
    /\ UNCHANGED <<chat, defaults, toucher, backlog, unbossed>>

\* One write of a request; welcome and unignore read the row first.
Wrote(c, write) ==
    CASE write = "boss+" -> [c EXCEPT !.boss = TRUE, !.touched = TRUE, !.source = "manual"]
      [] write = "boss-" -> [c EXCEPT !.boss = FALSE, !.touched = TRUE, !.source = "manual"]
      [] write = "active+" -> [c EXCEPT !.active = TRUE, !.source = "manual"]
      [] write = "active-" -> [c EXCEPT !.active = FALSE, !.source = "manual"]
      [] write \in {"none", "always"} -> [c EXCEPT !.confirm = write, !.source = "manual"]
      [] write = "ignore" -> [c EXCEPT !.status = "ignored"]
      [] write \in {"new", "exclusive"} -> [c EXCEPT !.status = write]
      [] write = "manual" -> [c EXCEPT !.source = "manual"]
      [] write = "welcome" -> IF c.status = "ignored" THEN [c EXCEPT !.status = "whitelist"] ELSE c
      [] write = "unignore" -> IF c.status = "ignored" THEN [c EXCEPT !.status = "new"] ELSE c

\* Mutant: the backlog of a chat that is active already is closed.
SweepsActive(c, write) == write = "sweep" /\ c.active

\* SetActive looks whether the chat is active, and if not marks what is older
\* than the activation window handled.
Sweeps(c, write) == write = "sweep" /\ ~c.active

WriteNext ==
    /\ owner.todo # <<>>
    /\ LET write == Head(owner.todo)
       IN  /\ chat' = IF write = "sweep" THEN chat ELSE Wrote(Row0, write)
           /\ backlog' = (backlog /\ ~Sweeps(Row0, write))
           /\ unbossed' = IF write = "boss-" THEN TRUE
                          ELSE IF write = "boss+" THEN FALSE ELSE unbossed
    /\ owner' = [owner EXCEPT !.todo = Tail(@), !.clean = @ /\ toucher.at # "apply",
                               !.ignored = @ \/ Row0.status = "ignored"]
    /\ UNCHANGED <<defaults, toucher>>

\* The process ends between two writes, or a write fails and the request is
\* answered with an error.
Abandon ==
    /\ owner.todo # <<>> \/ toucher # NoTouch
    /\ owner' = IF owner.todo = <<>> THEN owner ELSE NoRequest
    /\ toucher' = NoTouch
    /\ UNCHANGED <<chat, defaults, backlog, unbossed>>

\* An unhandled message of a chat nobody attends grows old.
Age ==
    /\ chat # NoChat /\ ~chat.active /\ owner.todo = <<>> /\ toucher = NoTouch
    /\ ~backlog /\ backlog' = TRUE
    /\ UNCHANGED <<chat, defaults, owner, toucher, unbossed>>

\* "Partir de 0" deletes the row; an agent taken off the chat leaves it new.
WipeChat ==
    /\ chat # NoChat /\ chat' = NoChat
    /\ owner' = [owner EXCEPT !.asked = "nothing"]
    /\ backlog' = FALSE /\ unbossed' = FALSE
    /\ UNCHANGED <<defaults, toucher>>

ChatLevelNext ==
    \/ Touch \/ ReadOrigin \/ ApplyDefault \/ MarkOwner
    \/ SetDefault \/ Ask \/ WriteNext \/ Abandon \/ Age \/ WipeChat

ChatLevelSpec == ChatLevelInit /\ [][ChatLevelNext]_levelVars
-----------------------------------------------------------------------------
ChatLevelTypeOK ==
    /\ chat \in ChatRow \cup {NoChat}
    /\ defaults \in [{"new", "contact"} -> DefaultLevels]
    /\ owner.todo \in Seq(UNION {{Program[r][i] : i \in DOMAIN Program[r]} : r \in Requests})
    /\ owner.asked \in Requests \cup {"nothing"}
    /\ owner.ignored \in BOOLEAN /\ owner.clean \in BOOLEAN
    /\ toucher \in [at : {"idle", "touched", "apply", "applied"}, own : BOOLEAN,
                    level : {"auto", "confirm", "unattended", "ignored"}]
    /\ backlog \in BOOLEAN /\ unbossed \in BOOLEAN

\* A level the owner set reads back, and stands: no message, contact, new
\* connection or changed default moves the chat from it, unless a default
\* was being written while the request ran (store.SetConfigLevel,
\* MarkConfigManual).  A chat that was ignored stays ignored on "confirm", the
\* edge case SetConfigLevel documents.
DecisionStands ==
    (owner.todo = <<>> /\ owner.clean /\ owner.asked \in Levels5 /\ chat # NoChat)
        => ConfigLevel(chat) \in
              {owner.asked} \cup (IF owner.ignored /\ owner.asked = "confirm"
                                  THEN {"ignored"} ELSE {})

\* A chat the owner said is not the boss's does not become the boss's by
\* connecting the account again (store.MarkOwnerIfUntouched).
UnbossedStays == unbossed => ~Row0.boss

\* Both: what the owner decided about the chat outlasts what happens to it.
LevelStands == DecisionStands /\ UnbossedStays

\* A chat the owner's request switches on starts from now: the old messages it
\* received while nobody attended it are closed first, unless a default was
\* being written meanwhile (store.SetActive).
StartsFromNow ==
    [][(/\ owner' # owner /\ owner.clean /\ chat # NoChat /\ chat' # NoChat
        /\ ~chat.active /\ chat'.active) => ~backlog']_levelVars
=============================================================================
