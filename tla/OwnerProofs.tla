---------------------------- MODULE OwnerProofs -----------------------------
(***************************************************************************)
(* Theorems about what the owner decides and what is kept: the level of a  *)
(* chat, the drafts that wait for an answer, the password of the dashboard *)
(* and the copies of the session database.                                 *)
(***************************************************************************)
EXTENDS ChatLevel, Drafts, Sessions, Backup, FiniteSetTheorems,
        SequenceTheorems, WellFoundedInduction, TLAPS

-----------------------------------------------------------------------------
(* The level of a chat (ChatLevel). *)

Writes == {"boss+", "boss-", "sweep", "active+", "active-", "none", "always", "ignore", "unignore",
           "new", "exclusive", "manual", "welcome"}

\* The writes of each request, one by one.
LEMMA Programs ==
    /\ DOMAIN Program = {"boss", "auto", "confirm", "unattended", "ignored",
                         "ignore", "restore", "assign", "unassign"}
    /\ Program["boss"] = <<"boss+", "sweep", "active+", "none">>
    /\ Program["auto"] = <<"boss-", "sweep", "active+", "none", "welcome">>
    /\ Program["confirm"] = <<"boss-", "sweep", "active+", "always">>
    /\ Program["unattended"] = <<"boss-", "active-", "unignore">>
    /\ Program["ignored"] = <<"ignore", "active-", "boss-">>
    /\ Program["ignore"] = <<"ignore", "manual">>
    /\ Program["restore"] = <<"new", "manual">>
    /\ Program["assign"] = <<"exclusive">>
    /\ Program["unassign"] = <<"new">>
<1>1. /\ DOMAIN LevelWrites = {"boss", "auto", "confirm", "unattended", "ignored"}
      /\ DOMAIN IgnoreWrites = {"ignore", "restore"} /\ DOMAIN AssignWrites = {"assign", "unassign"}
  BY DEF LevelWrites, IgnoreWrites, AssignWrites
<1>2. DOMAIN Program = {"boss", "auto", "confirm", "unattended", "ignored",
                        "ignore", "restore", "assign", "unassign"}
  BY <1>1 DEF Program
<1>3. \A r \in DOMAIN LevelWrites : Program[r] = LevelWrites[r]
  BY DEF Program
<1>4. \A r \in DOMAIN IgnoreWrites : Program[r] = IgnoreWrites[r]
  BY <1>1 DEF Program
<1>5. \A r \in DOMAIN AssignWrites : Program[r] = AssignWrites[r]
  BY <1>1 DEF Program
<1>6. /\ Program["boss"] = <<"boss+", "sweep", "active+", "none">>
      /\ Program["auto"] = <<"boss-", "sweep", "active+", "none", "welcome">>
      /\ Program["confirm"] = <<"boss-", "sweep", "active+", "always">>
      /\ Program["unattended"] = <<"boss-", "active-", "unignore">>
      /\ Program["ignored"] = <<"ignore", "active-", "boss-">>
  BY <1>1, <1>3 DEF LevelWrites
<1>7. Program["ignore"] = <<"ignore", "manual">> /\ Program["restore"] = <<"new", "manual">>
  BY <1>1, <1>4 DEF IgnoreWrites
<1>8. Program["assign"] = <<"exclusive">> /\ Program["unassign"] = <<"new">>
  BY <1>1, <1>5 DEF AssignWrites
<1> QED BY <1>2, <1>6, <1>7, <1>8

\* Every request is a few writes, and only three levels switch a chat on,
\* each by its third write.
LEMMA ProgramFacts ==
    ASSUME NEW r \in Requests
    PROVE  /\ Program[r] \in Seq(Writes) /\ Len(Program[r]) \in 1 .. 5
           /\ \A i \in 1 .. Len(Program[r]) : Program[r][i] = "active+" =>
                 i = 3 /\ r \in {"boss", "auto", "confirm"}
           /\ Program[r][1] # "sweep"
           /\ r \in Levels5 => Len(Program[r]) >= 3
<1> USE DEF Writes, Levels5
<1>1. r \in {"boss", "auto", "confirm", "unattended", "ignored",
             "ignore", "restore", "assign", "unassign"}
  BY Programs, ChatLevelAssumption
<1>2. CASE r = "boss"
  <2>1. Program[r] = <<"boss+", "sweep", "active+", "none">>
    BY <1>2, Programs
  <2> QED BY <1>2, <2>1
<1>3. CASE r = "auto"
  <2>1. Program[r] = <<"boss-", "sweep", "active+", "none", "welcome">>
    BY <1>3, Programs
  <2> QED BY <1>3, <2>1
<1>4. CASE r = "confirm"
  <2>1. Program[r] = <<"boss-", "sweep", "active+", "always">>
    BY <1>4, Programs
  <2> QED BY <1>4, <2>1
<1>5. CASE r = "unattended"
  <2>1. Program[r] = <<"boss-", "active-", "unignore">>
    BY <1>5, Programs
  <2> QED BY <1>5, <2>1
<1>6. CASE r = "ignored"
  <2>1. Program[r] = <<"ignore", "active-", "boss-">>
    BY <1>6, Programs
  <2> QED BY <1>6, <2>1
<1>7. CASE r = "ignore"
  <2>1. Program[r] = <<"ignore", "manual">>
    BY <1>7, Programs
  <2> QED BY <1>7, <2>1
<1>8. CASE r = "restore"
  <2>1. Program[r] = <<"new", "manual">>
    BY <1>8, Programs
  <2> QED BY <1>8, <2>1
<1>9. CASE r \in {"assign", "unassign"}
  <2>1. PICK status \in {"exclusive", "new"} : Program[r] = <<status>>
    BY <1>9, Programs
  <2> QED BY <1>9, <2>1
<1> QED BY <1>1, <1>2, <1>3, <1>4, <1>5, <1>6, <1>7, <1>8, <1>9
-----------------------------------------------------------------------------
\* What each write makes of a row.
LEMMA WroteFields ==
    ASSUME NEW c \in ChatRow, NEW write \in Writes \ {"sweep"}, NEW d, d = Wrote(c, write)
    PROVE  /\ d \in ChatRow
           /\ write \in {"boss+", "boss-"} =>
                 /\ d.touched /\ d.source = "manual" /\ (d.boss <=> write = "boss+")
                 /\ (d.active <=> c.active) /\ d.confirm = c.confirm /\ d.status = c.status
           /\ write \in {"active+", "active-"} =>
                 /\ d.source = "manual" /\ (d.active <=> write = "active+")
                 /\ (d.boss <=> c.boss) /\ (d.touched <=> c.touched)
                 /\ d.confirm = c.confirm /\ d.status = c.status
           /\ write \in {"none", "always"} =>
                 /\ d.source = "manual" /\ d.confirm = write /\ (d.active <=> c.active)
                 /\ (d.boss <=> c.boss) /\ (d.touched <=> c.touched) /\ d.status = c.status
           /\ write \in {"ignore", "new", "exclusive", "manual", "welcome", "unignore"} =>
                 /\ (d.active <=> c.active) /\ (d.boss <=> c.boss) /\ (d.touched <=> c.touched)
                 /\ d.confirm = c.confirm
                 /\ write = "ignore" => d.status = "ignored"
                 /\ write \in {"welcome", "unignore"} => d.status # "ignored" /\ d.source = c.source
<1>1. CASE write = "boss+"
  <2>1. d = [c EXCEPT !.boss = TRUE, !.touched = TRUE, !.source = "manual"]
    BY <1>1 DEF Wrote
  <2> QED BY <1>1, <2>1 DEF ChatRow
<1>2. CASE write = "boss-"
  <2>1. d = [c EXCEPT !.boss = FALSE, !.touched = TRUE, !.source = "manual"]
    BY <1>2 DEF Wrote
  <2> QED BY <1>2, <2>1 DEF ChatRow
<1>3. CASE write = "active+"
  <2>1. d = [c EXCEPT !.active = TRUE, !.source = "manual"]
    BY <1>3 DEF Wrote
  <2> QED BY <1>3, <2>1 DEF ChatRow
<1>4. CASE write = "active-"
  <2>1. d = [c EXCEPT !.active = FALSE, !.source = "manual"]
    BY <1>4 DEF Wrote
  <2> QED BY <1>4, <2>1 DEF ChatRow
<1>5. CASE write \in {"none", "always"}
  <2>1. d = [c EXCEPT !.confirm = write, !.source = "manual"]
    BY <1>5 DEF Wrote
  <2> QED BY <1>5, <2>1 DEF ChatRow
<1>6. CASE write \in {"ignore", "new", "exclusive"}
  <2>1. PICK s \in {"ignored", "new", "exclusive"} :
           d = [c EXCEPT !.status = s] /\ (write = "ignore" => s = "ignored")
    BY <1>6 DEF Wrote
  <2> QED BY <1>6, <2>1 DEF ChatRow
<1>7. CASE write = "manual"
  <2>1. d = [c EXCEPT !.source = "manual"]
    BY <1>7 DEF Wrote
  <2> QED BY <1>7, <2>1 DEF ChatRow
<1>8. CASE write \in {"welcome", "unignore"}
  <2>1. PICK s \in {"whitelist", "new"} :
           d = IF c.status = "ignored" THEN [c EXCEPT !.status = s] ELSE c
    BY <1>8 DEF Wrote
  <2> QED BY <1>8, <2>1 DEF ChatRow
<1> QED BY <1>1, <1>2, <1>3, <1>4, <1>5, <1>6, <1>7, <1>8 DEF Writes

\* A default never takes a chat from the boss, and never takes it off ignored.
LEMMA DefaultedFields ==
    ASSUME NEW c \in ChatRow, NEW level \in {"auto", "confirm", "unattended", "ignored"},
           NEW d, d = Defaulted(c, level)
    PROVE  /\ d \in ChatRow
           /\ (d.boss <=> c.boss) /\ (d.touched <=> c.touched) /\ d.source = c.source
           /\ c.status = "ignored" => d.status = "ignored"
<1>1. CASE level = "auto"
  <2>1. d = [c EXCEPT !.active = TRUE, !.confirm = "none"]
    BY <1>1 DEF Defaulted
  <2> QED BY <2>1 DEF ChatRow
<1>2. CASE level = "confirm"
  <2>1. d = [c EXCEPT !.active = TRUE, !.confirm = "always"]
    BY <1>2 DEF Defaulted
  <2> QED BY <2>1 DEF ChatRow
<1>3. CASE level = "unattended"
  <2>1. d = [c EXCEPT !.active = FALSE]
    BY <1>3 DEF Defaulted
  <2> QED BY <2>1 DEF ChatRow
<1>4. CASE level = "ignored"
  <2>1. d = [c EXCEPT !.active = FALSE, !.status = "ignored"]
    BY <1>4 DEF Defaulted
  <2> QED BY <2>1 DEF ChatRow
<1> QED BY <1>1, <1>2, <1>3, <1>4
-----------------------------------------------------------------------------
Touching == [at : {"idle", "touched", "apply", "applied"}, own : BOOLEAN,
             level : {"auto", "confirm", "unattended", "ignored"}]
AskedWrites == UNION {{Program[r][i] : i \in DOMAIN Program[r]} : r \in Requests}
Asking == [todo : Seq(Writes) \cap Seq(AskedWrites), asked : Requests \cup {"nothing"}, ignored : BOOLEAN, clean : BOOLEAN]

LevelTypes ==
    /\ chat \in ChatRow \cup {NoChat}
    /\ defaults \in [{"new", "contact"} -> DefaultLevels]
    /\ owner \in Asking /\ toucher \in Touching
    /\ backlog \in BOOLEAN /\ unbossed \in BOOLEAN

\* The writes of the request that are done.
WritesDone == Len(Program[owner.asked]) - Len(owner.todo)

\* What is left of a request is the rest of its writes, the first of which
\* creates the row; once the chat is wiped, nothing old is left in it.
Progress ==
    /\ owner.asked \in Requests =>
          /\ WritesDone \in Nat
          /\ \A i \in 1 .. Len(owner.todo) : owner.todo[i] = Program[owner.asked][WritesDone + i]
          /\ chat = NoChat => WritesDone = 0
    /\ owner.asked = "nothing" /\ owner.todo # <<>> => ~backlog

\* The row is the owner's: no default is read for it, and none is on its way.
Manual == chat.source = "manual" /\ toucher.at # "apply"

\* What stands after the first n writes of each level, undisturbed.
KeptBoss(n) ==
    /\ n >= 1 => Manual /\ chat.touched /\ chat.boss
    /\ n = 2 => chat.active \/ ~backlog

KeptAuto(n) ==
    /\ n >= 1 => Manual /\ chat.touched /\ ~chat.boss
    /\ n = 2 => chat.active \/ ~backlog
    /\ n >= 3 => chat.active
    /\ n >= 4 => chat.confirm = "none"
    /\ n >= 5 => chat.status # "ignored"

KeptConfirm(n) ==
    /\ n >= 1 => Manual /\ chat.touched /\ ~chat.boss
    /\ n >= 1 /\ ~owner.ignored => chat.status # "ignored"
    /\ n = 2 => chat.active \/ ~backlog
    /\ n >= 3 => chat.active
    /\ n >= 4 => chat.confirm = "always"

KeptUnattended(n) ==
    /\ n >= 1 => Manual /\ chat.touched /\ ~chat.boss
    /\ n >= 2 => ~chat.active
    /\ n >= 3 => chat.status # "ignored"

KeptIgnored(n) ==
    /\ n >= 1 => chat.status = "ignored"
    /\ n >= 2 => Manual
    /\ n >= 3 => chat.touched /\ ~chat.boss

LevelKept ==
    owner.clean =>
        /\ owner.asked = "boss" => KeptBoss(WritesDone)
        /\ owner.asked = "auto" => KeptAuto(WritesDone)
        /\ owner.asked = "confirm" => KeptConfirm(WritesDone)
        /\ owner.asked = "unattended" => KeptUnattended(WritesDone)
        /\ owner.asked = "ignored" => KeptIgnored(WritesDone)

\* Who is not the boss any more was decided about.
UnbossedTouched == unbossed => chat # NoChat /\ chat.touched /\ ~chat.boss

LevelInv == LevelTypes /\ Progress /\ (owner.asked \in Requests => LevelKept) /\ UnbossedTouched
-----------------------------------------------------------------------------
LEMMA LevelInitInv == ChatLevelInit => LevelInv
<1> SUFFICES ASSUME ChatLevelInit PROVE LevelInv
  OBVIOUS
<1> USE DEF ChatLevelInit, NoRequest, NoTouch
<1>1. "nothing" \notin Requests
  BY Programs, ChatLevelAssumption
<1>2. LevelTypes
  BY EmptySeq DEF LevelTypes, Asking, Touching
<1> QED BY <1>1, <1>2 DEF LevelInv, Progress, UnbossedTouched

\* A request that nothing changes stays where it is.
LEMMA WritesKept ==
    ASSUME LevelInv, owner' = owner
    PROVE  WritesDone' = WritesDone
BY DEF WritesDone

LEMMA TouchInv ==
    ASSUME LevelInv, Touch
    PROVE  LevelInv'
<1>1. PICK contact \in BOOLEAN, own \in BOOLEAN :
         /\ chat' = IF chat # NoChat
                    THEN [chat EXCEPT !.contact = @ \/ contact]
                    ELSE [RawRow EXCEPT !.contact = contact,
                                        !.confirm = IF contact THEN @ ELSE "none"]
         /\ toucher' = [NoTouch EXCEPT !.at = "touched", !.own = own]
  BY DEF Touch
<1>2. UNCHANGED <<defaults, owner, backlog, unbossed>> /\ toucher.at = "idle"
  BY DEF Touch
<1>3. toucher' \in Touching /\ toucher'.at = "touched"
  BY <1>1 DEF NoTouch, Touching
<1>4. chat' \in ChatRow /\ chat' # NoChat
  <2>1. CASE chat # NoChat
    <3>1. chat \in ChatRow /\ (chat.contact \/ contact) \in BOOLEAN
      BY <2>1 DEF LevelInv, LevelTypes
    <3>2. PICK b \in BOOLEAN : chat' = [chat EXCEPT !.contact = b]
      BY <1>1, <2>1, <3>1
    <3> QED BY <3>1, <3>2, ChatLevelAssumption DEF ChatRow
  <2>2. CASE chat = NoChat
    <3>1. PICK s \in {"none", "always"} : chat' = [RawRow EXCEPT !.contact = contact, !.confirm = s]
      BY <1>1, <2>2 DEF RawRow
    <3> QED BY <3>1, ChatLevelAssumption DEF ChatRow, RawRow
  <2> QED BY <2>1, <2>2
<1>5. chat # NoChat => /\ (chat'.boss <=> chat.boss) /\ (chat'.touched <=> chat.touched)
                       /\ (chat'.active <=> chat.active) /\ chat'.confirm = chat.confirm
                       /\ chat'.status = chat.status /\ chat'.source = chat.source
  <2> SUFFICES ASSUME chat # NoChat
               PROVE  /\ (chat'.boss <=> chat.boss) /\ (chat'.touched <=> chat.touched)
                      /\ (chat'.active <=> chat.active) /\ chat'.confirm = chat.confirm
                      /\ chat'.status = chat.status /\ chat'.source = chat.source
    OBVIOUS
  <2>1. chat \in ChatRow /\ chat' = [chat EXCEPT !.contact = chat.contact \/ contact]
    BY <1>1 DEF LevelInv, LevelTypes
  <2> QED BY <2>1 DEF ChatRow
<1>6. WritesDone' = WritesDone
  BY <1>2, WritesKept
<1>7. LevelTypes'
  BY <1>2, <1>3, <1>4 DEF LevelInv, LevelTypes
<1>8. Progress'
  BY <1>2, <1>4, <1>6 DEF LevelInv, Progress
<1>9. UnbossedTouched'
  BY <1>2, <1>4, <1>5 DEF LevelInv, UnbossedTouched
<1>10. ASSUME owner.asked \in Requests PROVE LevelKept'
  <2>1. CASE chat = NoChat
    <3>1. WritesDone' = 0
      BY <1>6, <1>10, <2>1 DEF LevelInv, Progress
    <3> QED BY <3>1, <1>2 DEF LevelKept, KeptBoss, KeptAuto, KeptConfirm, KeptUnattended, KeptIgnored
  <2>2. CASE chat # NoChat
    <3>1. Manual => Manual'
      BY <1>3, <1>5, <2>2 DEF Manual
    <3>2. LevelKept
      BY <1>10 DEF LevelInv
    <3> QED BY <3>1, <3>2, <2>2, <1>2, <1>5, <1>6
        DEF LevelKept, KeptBoss, KeptAuto, KeptConfirm, KeptUnattended, KeptIgnored
  <2> QED BY <2>1, <2>2
<1> QED BY <1>2, <1>7, <1>8, <1>9, <1>10 DEF LevelInv

\* Reading who decided moves nothing but the one who reads, and only a row
\* nobody decided about is given a default.
LEMMA ReadOriginInv ==
    ASSUME LevelInv, ReadOrigin
    PROVE  LevelInv'
<1>1. UNCHANGED <<chat, defaults, owner, backlog, unbossed>> /\ toucher.at = "touched"
  BY DEF ReadOrigin
<1>2. toucher' \in Touching /\ (chat # NoChat /\ chat.source = "manual" => toucher'.at # "apply")
  <2>1. CASE Undecided
    <3>1. PICK k \in {"new", "contact"} : k = IF chat.contact THEN "contact" ELSE "new"
      OBVIOUS
    <3>2. defaults[k] \in {"auto", "confirm", "unattended", "ignored"}
      BY ChatLevelAssumption DEF LevelInv, LevelTypes
    <3>3. toucher' = [toucher EXCEPT !.at = "apply", !.level = defaults[k]] /\ toucher \in Touching
      BY <2>1, <3>1 DEF ReadOrigin, LevelInv, LevelTypes
    <3>4. toucher' \in Touching
      BY <3>2, <3>3 DEF Touching
    <3> QED BY <3>4, <2>1 DEF Undecided
  <2>2. CASE ~Undecided
    <3>1. toucher' = [toucher EXCEPT !.at = "applied"] /\ toucher \in Touching
      BY <2>2 DEF ReadOrigin, LevelInv, LevelTypes
    <3> QED BY <3>1 DEF Touching
  <2> QED BY <2>1, <2>2
<1>3. WritesDone' = WritesDone
  BY <1>1, WritesKept
<1>4. LevelTypes' /\ Progress' /\ UnbossedTouched'
  BY <1>1, <1>2, <1>3 DEF LevelInv, LevelTypes, Progress, UnbossedTouched
<1>5. ASSUME owner.asked \in Requests PROVE LevelKept'
  <2>1. CASE chat = NoChat
    <3>1. WritesDone' = 0
      BY <1>3, <1>5, <2>1 DEF LevelInv, Progress
    <3> QED BY <3>1, <1>1 DEF LevelKept, KeptBoss, KeptAuto, KeptConfirm, KeptUnattended, KeptIgnored
  <2>2. CASE chat # NoChat
    <3>1. Manual => Manual'
      BY <1>1, <1>2, <2>2 DEF Manual
    <3>2. LevelKept
      BY <1>5 DEF LevelInv
    <3> QED BY <3>1, <3>2, <1>1, <1>3
        DEF LevelKept, KeptBoss, KeptAuto, KeptConfirm, KeptUnattended, KeptIgnored
  <2> QED BY <2>1, <2>2
<1> QED BY <1>1, <1>4, <1>5 DEF LevelInv

\* A default on its way is never written over what a level undisturbed has set.
LEMMA ApplyDefaultInv ==
    ASSUME LevelInv, ApplyDefault
    PROVE  LevelInv'
<1>1. UNCHANGED <<defaults, owner, backlog, unbossed>> /\ toucher.at = "apply"
      /\ toucher' = [toucher EXCEPT !.at = "applied"] /\ toucher \in Touching
      /\ chat' = IF chat = NoChat THEN chat ELSE Defaulted(chat, toucher.level)
  BY DEF ApplyDefault, LevelInv, LevelTypes
<1>2. toucher' \in Touching /\ toucher'.at = "applied" /\ toucher.level \in {"auto", "confirm", "unattended", "ignored"}
  BY <1>1 DEF Touching
<1>3. chat # NoChat => /\ chat' \in ChatRow /\ chat' # NoChat
                       /\ (chat'.boss <=> chat.boss) /\ (chat'.touched <=> chat.touched)
                       /\ chat'.source = chat.source
                       /\ chat.status = "ignored" => chat'.status = "ignored"
  <2> SUFFICES ASSUME chat # NoChat
               PROVE  /\ chat' \in ChatRow /\ chat' # NoChat
                      /\ (chat'.boss <=> chat.boss) /\ (chat'.touched <=> chat.touched)
                      /\ chat'.source = chat.source
                      /\ chat.status = "ignored" => chat'.status = "ignored"
    OBVIOUS
  <2>1. chat \in ChatRow /\ chat' = Defaulted(chat, toucher.level)
    BY <1>1 DEF LevelInv, LevelTypes
  <2> QED BY <2>1, <1>2, DefaultedFields, ChatLevelAssumption
<1>4. chat = NoChat => chat' = NoChat
  BY <1>1
<1>5. WritesDone' = WritesDone
  BY <1>1, WritesKept
<1>6. LevelTypes' /\ Progress' /\ UnbossedTouched'
  BY <1>1, <1>2, <1>3, <1>4, <1>5 DEF LevelInv, LevelTypes, Progress, UnbossedTouched
<1>7. ASSUME owner.asked \in Requests PROVE LevelKept'
  <2>1. CASE chat = NoChat
    <3>1. WritesDone' = 0
      BY <1>5, <1>7, <2>1 DEF LevelInv, Progress
    <3> QED BY <3>1, <1>1 DEF LevelKept, KeptBoss, KeptAuto, KeptConfirm, KeptUnattended, KeptIgnored
  <2>2. CASE chat # NoChat
    <3>1. ~Manual
      BY <1>1 DEF Manual
    <3>2. LevelKept /\ WritesDone \in Nat
      BY <1>7 DEF LevelInv, Progress
    <3> QED BY <3>1, <3>2, <2>2, <1>1, <1>3, <1>5
        DEF LevelKept, KeptBoss, KeptAuto, KeptConfirm, KeptUnattended, KeptIgnored
  <2> QED BY <2>1, <2>2
<1> QED BY <1>1, <1>6, <1>7 DEF LevelInv

LEMMA MarkOwnerInv ==
    ASSUME LevelInv, MarkOwner
    PROVE  LevelInv'
<1>1. UNCHANGED <<defaults, owner, backlog, unbossed>> /\ toucher' = NoTouch
      /\ chat' = IF toucher.own /\ chat # NoChat /\ OwnerUntouched(chat)
                 THEN [chat EXCEPT !.boss = TRUE, !.touched = TRUE] ELSE chat
  BY DEF MarkOwner
<1>2. toucher' \in Touching /\ toucher'.at = "idle"
  BY <1>1 DEF Touching, NoTouch
<1>3. WritesDone' = WritesDone
  BY <1>1, WritesKept
<1>4. CASE chat' = chat
  <2>1. LevelTypes' /\ Progress' /\ UnbossedTouched'
    BY <1>1, <1>2, <1>3, <1>4 DEF LevelInv, LevelTypes, Progress, UnbossedTouched
  <2>2. Manual => Manual'
    BY <1>2, <1>4 DEF Manual
  <2>3. owner.asked \in Requests => LevelKept'
    BY <2>2, <1>1, <1>3, <1>4
       DEF LevelInv, LevelKept, KeptBoss, KeptAuto, KeptConfirm, KeptUnattended, KeptIgnored
  <2> QED BY <1>1, <2>1, <2>3 DEF LevelInv
<1>5. CASE chat # NoChat /\ ~chat.touched /\ chat' = [chat EXCEPT !.boss = TRUE, !.touched = TRUE]
  <2>1. chat \in ChatRow
    BY <1>5 DEF LevelInv, LevelTypes
  <2>2. /\ chat' \in ChatRow /\ chat' # NoChat
        /\ (chat'.active <=> chat.active) /\ chat'.confirm = chat.confirm
        /\ chat'.status = chat.status /\ chat'.source = chat.source
    BY <1>5, <2>1, ChatLevelAssumption DEF ChatRow
  <2>3. LevelTypes' /\ Progress' /\ UnbossedTouched'
    BY <1>1, <1>2, <1>3, <1>5, <2>2 DEF LevelInv, LevelTypes, Progress, UnbossedTouched
  <2>4. Manual => Manual'
    BY <1>2, <2>2 DEF Manual
  <2>5. ASSUME owner.asked \in Requests PROVE LevelKept'
    <3>1. LevelKept /\ WritesDone \in Nat
      BY <2>5 DEF LevelInv, Progress
    <3> QED BY <3>1, <2>2, <2>4, <1>1, <1>3, <1>5
        DEF LevelKept, KeptBoss, KeptAuto, KeptConfirm, KeptUnattended, KeptIgnored
  <2> QED BY <1>1, <2>3, <2>5 DEF LevelInv
<1> QED BY <1>1, <1>4, <1>5 DEF OwnerUntouched

LEMMA SetDefaultInv ==
    ASSUME LevelInv, SetDefault
    PROVE  LevelInv'
<1>1. UNCHANGED <<chat, owner, toucher, backlog, unbossed>>
      /\ defaults' \in [{"new", "contact"} -> DefaultLevels]
  BY DEF SetDefault, LevelInv, LevelTypes
<1>2. WritesDone' = WritesDone
  BY <1>1, WritesKept
<1>3. LevelTypes' /\ Progress' /\ UnbossedTouched'
  BY <1>1, <1>2 DEF LevelInv, LevelTypes, Progress, UnbossedTouched
<1>4. owner.asked \in Requests => LevelKept'
  BY <1>1, <1>2
     DEF LevelInv, LevelKept, KeptBoss, KeptAuto, KeptConfirm, KeptUnattended, KeptIgnored, Manual
<1> QED BY <1>1, <1>3, <1>4 DEF LevelInv

\* A request begins with none of its writes done.
LEMMA AskInv ==
    ASSUME LevelInv, Ask
    PROVE  LevelInv'
<1>1. PICK r \in Requests : owner' = [NoRequest EXCEPT !.todo = Program[r], !.asked = r]
  BY DEF Ask
<1>2. UNCHANGED <<chat, defaults, toucher, backlog, unbossed>>
  BY DEF Ask
<1>3. /\ Program[r] \in Seq(Writes) /\ Program[r] \in Seq(AskedWrites)
      /\ Len(Program[r]) \in 1 .. 5
  <2>1. Program[r] \in Seq(Writes) /\ Len(Program[r]) \in 1 .. 5
    BY ProgramFacts
  <2>2. DOMAIN Program[r] = 1 .. Len(Program[r])
    BY <2>1, LenProperties
  <2>3. \A i \in 1 .. Len(Program[r]) : Program[r][i] \in AskedWrites
    BY <2>2 DEF AskedWrites
  <2>4. SubSeq(Program[r], 1, Len(Program[r])) \in Seq(AskedWrites)
    BY <2>1, <2>3, SubSeqProperties
  <2>5. SubSeq(Program[r], 1, Len(Program[r])) = Program[r]
    BY <2>1, SubSeqFull
  <2> QED BY <2>1, <2>4, <2>5
<1>4. owner' = [todo |-> Program[r], asked |-> r, ignored |-> FALSE, clean |-> TRUE]
  BY <1>1 DEF NoRequest
<1>5. owner' \in Asking
  BY <1>3, <1>4 DEF Asking
<1>6. owner'.todo = Program[r] /\ owner'.asked = r
  BY <1>4
<1>7. WritesDone' = 0
  BY <1>3, <1>6 DEF WritesDone
<1>8. LevelTypes' /\ UnbossedTouched'
  BY <1>2, <1>5 DEF LevelInv, LevelTypes, UnbossedTouched
<1>9. "nothing" \notin Requests
  BY Programs, ChatLevelAssumption
<1>10. Progress'
  BY <1>3, <1>6, <1>7, <1>9 DEF Progress
<1>11. LevelKept'
  BY <1>7 DEF LevelKept, KeptBoss, KeptAuto, KeptConfirm, KeptUnattended, KeptIgnored
<1> QED BY <1>8, <1>10, <1>11 DEF LevelInv

LEMMA AbandonInv ==
    ASSUME LevelInv, Abandon
    PROVE  LevelInv'
<1>1. UNCHANGED <<chat, defaults, backlog, unbossed>> /\ toucher' = NoTouch
      /\ owner' = IF owner.todo = <<>> THEN owner ELSE NoRequest
  BY DEF Abandon
<1>2. toucher' \in Touching /\ toucher'.at = "idle"
  BY <1>1 DEF Touching, NoTouch
<1>3. "nothing" \notin Requests
  BY Programs, ChatLevelAssumption
<1>4. CASE owner' = owner
  <2>1. WritesDone' = WritesDone
    BY <1>4, WritesKept
  <2>2. LevelTypes' /\ Progress' /\ UnbossedTouched'
    BY <1>1, <1>2, <1>4, <2>1 DEF LevelInv, LevelTypes, Progress, UnbossedTouched
  <2>3. Manual => Manual'
    BY <1>1, <1>2 DEF Manual
  <2>4. owner.asked \in Requests => LevelKept'
    BY <2>1, <2>3, <1>1, <1>4
       DEF LevelInv, LevelKept, KeptBoss, KeptAuto, KeptConfirm, KeptUnattended, KeptIgnored
  <2> QED BY <1>4, <2>2, <2>4 DEF LevelInv
<1>5. CASE owner' = NoRequest
  <2>1. owner' \in Asking /\ owner'.asked = "nothing" /\ owner'.todo = <<>>
    BY <1>5, EmptySeq DEF NoRequest, Asking
  <2> QED BY <2>1, <1>1, <1>2, <1>3 DEF LevelInv, LevelTypes, Progress, UnbossedTouched
<1> QED BY <1>1, <1>4, <1>5

\* A message grows old only while no request is under way.
LEMMA AgeInv ==
    ASSUME LevelInv, Age
    PROVE  LevelInv'
<1>1. UNCHANGED <<chat, defaults, owner, toucher, unbossed>> /\ owner.todo = <<>> /\ backlog' = TRUE
  BY DEF Age
<1>2. WritesDone' = WritesDone
  BY <1>1, WritesKept
<1>3. LevelTypes' /\ Progress' /\ UnbossedTouched'
  BY <1>1, <1>2 DEF LevelInv, LevelTypes, Progress, UnbossedTouched
<1>4. Manual' <=> Manual
  BY <1>1 DEF Manual
<1>5. ASSUME owner.asked \in Requests PROVE LevelKept'
  <2>1. LevelKept
    BY <1>5 DEF LevelInv
  <2>2. owner.asked \in Levels5 => WritesDone # 2
    <3>1. Len(owner.todo) = 0
      BY <1>1, EmptySeq
    <3>2. PICK r \in Requests : r = owner.asked
      BY <1>5
    <3>3. Len(Program[r]) \in Nat /\ (r \in Levels5 => Len(Program[r]) >= 3)
      BY ProgramFacts
    <3>4. PICK len \in Nat : len = Len(Program[r])
      BY <3>3
    <3>5. len - 0 = len
      OBVIOUS
    <3>6. WritesDone = len
      <4>1. WritesDone = Len(Program[r]) - Len(owner.todo)
        BY <3>2 DEF WritesDone
      <4> QED BY <4>1, <3>1, <3>4, <3>5
    <3>7. r \in Levels5 => len >= 3
      BY <3>3, <3>4
    <3>8. r \in Levels5 => len # 2
      BY <3>7
    <3> QED BY <3>2, <3>6, <3>8
  <2> QED BY <2>1, <2>2, <1>1, <1>2, <1>4
      DEF Levels5, LevelKept, KeptBoss, KeptAuto, KeptConfirm, KeptUnattended, KeptIgnored
<1> QED BY <1>1, <1>3, <1>5 DEF LevelInv

LEMMA WipeChatInv ==
    ASSUME LevelInv, WipeChat
    PROVE  LevelInv'
<1>1. UNCHANGED <<defaults, toucher>> /\ chat' = NoChat /\ owner' = [owner EXCEPT !.asked = "nothing"]
      /\ backlog' = FALSE /\ unbossed' = FALSE /\ owner \in Asking
  BY DEF WipeChat, LevelInv, LevelTypes
<1>2. owner' \in Asking /\ owner'.asked = "nothing"
  BY <1>1 DEF Asking
<1>3. "nothing" \notin Requests
  BY Programs, ChatLevelAssumption
<1> QED BY <1>1, <1>2, <1>3 DEF LevelInv, LevelTypes, Progress, UnbossedTouched

\* One write of a request, the row it leaves and the messages it closes.
LEMMA WriteFacts ==
    ASSUME LevelInv, WriteNext, NEW write, write = Head(owner.todo)
    PROVE  /\ write \in Writes /\ Row0 \in ChatRow /\ Tail(owner.todo) \in Seq(Writes)
           /\ owner' \in Asking /\ owner'.todo = Tail(owner.todo) /\ owner'.asked = owner.asked
           /\ owner'.clean => owner.clean /\ toucher.at # "apply"
           /\ owner.ignored \/ Row0.status = "ignored" => owner'.ignored
           /\ UNCHANGED <<defaults, toucher>>
           /\ write = "sweep" => chat' = chat /\ (backlog' => Row0.active)
           /\ write # "sweep" => chat' = Wrote(Row0, write)
           /\ backlog' \in BOOLEAN /\ (backlog' => backlog)
           /\ unbossed' = IF write = "boss-" THEN TRUE
                          ELSE IF write = "boss+" THEN FALSE ELSE unbossed
<1>1. /\ owner.todo # <<>> /\ owner.todo \in Seq(Writes) /\ owner \in Asking
      /\ owner.todo \in Seq(AskedWrites)
  BY DEF WriteNext, LevelInv, LevelTypes, Asking
<1>2. write \in Writes /\ Tail(owner.todo) \in Seq(Writes) /\ Tail(owner.todo) \in Seq(AskedWrites)
  BY <1>1, HeadTailProperties
<1>3. Row0 \in ChatRow
  BY DEF Row0, RawRow, ChatRow, LevelInv, LevelTypes
<1>4. PICK clean \in BOOLEAN, ignored \in BOOLEAN :
         /\ owner' = [owner EXCEPT !.todo = Tail(@), !.clean = clean, !.ignored = ignored]
         /\ clean => owner.clean /\ toucher.at # "apply"
         /\ owner.ignored \/ Row0.status = "ignored" => ignored
  <2>1. owner.clean \in BOOLEAN /\ owner.ignored \in BOOLEAN
    BY <1>1 DEF Asking
  <2>2. owner' = [owner EXCEPT !.todo = Tail(@), !.clean = @ /\ toucher.at # "apply",
                               !.ignored = @ \/ Row0.status = "ignored"]
    BY DEF WriteNext
  <2> DEFINE clean == owner.clean /\ toucher.at # "apply"
             ignored == owner.ignored \/ Row0.status = "ignored"
  <2>3. owner' = [owner EXCEPT !.todo = Tail(@), !.clean = clean, !.ignored = ignored]
    BY <2>2, <1>1 DEF Asking
  <2>4. clean \in BOOLEAN /\ ignored \in BOOLEAN
    BY <2>1
  <2> QED BY <2>3, <2>4
<1>5. /\ owner' \in Asking /\ owner'.todo = Tail(owner.todo) /\ owner'.asked = owner.asked
      /\ (owner'.clean <=> clean) /\ (owner'.ignored <=> ignored)
  BY <1>1, <1>2, <1>4 DEF Asking
<1>6. /\ chat' = IF write = "sweep" THEN chat ELSE Wrote(Row0, write)
      /\ backlog' = (backlog /\ ~Sweeps(Row0, write))
      /\ unbossed' = IF write = "boss-" THEN TRUE
                     ELSE IF write = "boss+" THEN FALSE ELSE unbossed
      /\ UNCHANGED <<defaults, toucher>>
  BY DEF WriteNext
<1>7. backlog' \in BOOLEAN /\ (backlog' => backlog) /\ (backlog' /\ write = "sweep" => Row0.active)
  BY <1>6 DEF Sweeps
<1> QED BY <1>2, <1>3, <1>4, <1>5, <1>6, <1>7

\* The next write of a request is the one it has at that place.
LEMMA WriteOfRequest ==
    ASSUME LevelInv, WriteNext, NEW write, write = Head(owner.todo), owner.asked \in Requests
    PROVE  /\ WritesDone \in Nat /\ WritesDone' = WritesDone + 1
           /\ WritesDone + 1 <= Len(Program[owner.asked])
           /\ write = Program[owner.asked][WritesDone + 1]
           /\ \A i \in 1 .. Len(owner'.todo) : owner'.todo[i] = Program[owner.asked][WritesDone + 1 + i]
<1>0. /\ owner.todo # <<>> /\ owner.todo \in Seq(Writes)
      /\ owner'.todo = Tail(owner.todo) /\ owner'.asked = owner.asked
  BY WriteFacts DEF WriteNext, LevelInv, LevelTypes, Asking
<1>1. PICK r \in Requests : r = owner.asked
  OBVIOUS
<1>2. Len(Program[r]) \in Nat
  BY ProgramFacts
<1>3. /\ Len(owner.todo) \in Nat /\ Len(owner.todo) > 0 /\ Len(owner'.todo) = Len(owner.todo) - 1
      /\ \A i \in 1 .. Len(owner'.todo) : owner'.todo[i] = owner.todo[i + 1]
  BY <1>0, HeadTailProperties, EmptySeq
<1>4. /\ WritesDone \in Nat /\ WritesDone = Len(Program[r]) - Len(owner.todo)
      /\ \A i \in 1 .. Len(owner.todo) : owner.todo[i] = Program[r][WritesDone + i]
  BY <1>1 DEF LevelInv, Progress, WritesDone
<1>5. WritesDone' = Len(Program[r]) - Len(owner'.todo)
  BY <1>0, <1>1 DEF WritesDone
<1>6. write = owner.todo[1]
  OBVIOUS
<1>7. PICK n \in Nat : n = WritesDone
  BY <1>4
<1>8. \A i \in 1 .. Len(owner'.todo) : owner'.todo[i] = Program[r][n + 1 + i]
  <2> SUFFICES ASSUME NEW i \in 1 .. Len(owner'.todo) PROVE owner'.todo[i] = Program[r][n + 1 + i]
    OBVIOUS
  <2>1. i + 1 \in 1 .. Len(owner.todo) /\ n + (i + 1) = n + 1 + i
    BY <1>3
  <2>2. owner.todo[i + 1] = Program[r][n + (i + 1)]
    BY <2>1, <1>4, <1>7
  <2> QED BY <2>1, <2>2, <1>3
<1>9. write = Program[r][n + 1] /\ n + 1 <= Len(Program[r]) /\ WritesDone' = n + 1
  <2>1. PICK len \in Nat, left \in Nat : len = Len(Program[r]) /\ left = Len(owner.todo)
    BY <1>2, <1>3
  <2>2. n = len - left /\ left > 0 /\ Len(owner'.todo) = left - 1
    BY <1>3, <1>4, <1>7, <2>1
  <2>3. WritesDone' = len - (left - 1)
    BY <1>5, <2>1, <2>2
  <2>4. WritesDone' = n + 1 /\ n + 1 <= len
    BY <2>2, <2>3
  <2>5. 1 \in 1 .. Len(owner.todo)
    BY <2>1, <2>2
  <2>6. owner.todo[1] = Program[r][n + 1]
    BY <2>5, <1>4, <1>7
  <2> QED BY <2>1, <2>4, <2>6, <1>6
<1> QED BY <1>1, <1>7, <1>8, <1>9

LEMMA WriteNextInv ==
    ASSUME LevelInv, WriteNext
    PROVE  LevelInv'
<1>1. PICK write : write = Head(owner.todo)
  OBVIOUS
<1>2. /\ write \in Writes /\ Row0 \in ChatRow /\ Tail(owner.todo) \in Seq(Writes)
      /\ owner' \in Asking /\ owner'.todo = Tail(owner.todo) /\ owner'.asked = owner.asked
      /\ owner'.clean => owner.clean /\ toucher.at # "apply"
      /\ owner.ignored \/ Row0.status = "ignored" => owner'.ignored
      /\ UNCHANGED <<defaults, toucher>>
      /\ write = "sweep" => chat' = chat /\ (backlog' => Row0.active)
      /\ write # "sweep" => chat' = Wrote(Row0, write)
      /\ backlog' \in BOOLEAN /\ (backlog' => backlog)
      /\ unbossed' = IF write = "boss-" THEN TRUE
                     ELSE IF write = "boss+" THEN FALSE ELSE unbossed
  BY <1>1, WriteFacts
<1>3. owner.todo # <<>> /\ owner.todo \in Seq(Writes) /\ owner \in Asking
  BY DEF WriteNext, LevelInv, LevelTypes, Asking
<1>4. chat # NoChat => Row0 = chat
  BY DEF Row0
<1>5. write # "sweep" => chat' \in ChatRow /\ chat' # NoChat
  BY <1>2, WroteFields, ChatLevelAssumption
<1>6. LevelTypes'
  BY <1>2, <1>5 DEF LevelInv, LevelTypes
<1>7. UnbossedTouched'
  <2>1. CASE write = "sweep"
    BY <2>1, <1>2 DEF LevelInv, UnbossedTouched
  <2>2. CASE write = "boss-"
    <3>1. chat'.touched /\ ~chat'.boss
      BY <2>2, <1>2, WroteFields
    <3> QED BY <3>1, <2>2, <1>5 DEF UnbossedTouched
  <2>3. CASE write = "boss+"
    BY <2>3, <1>2 DEF UnbossedTouched
  <2>4. CASE write \notin {"sweep", "boss+", "boss-"}
    <3> SUFFICES ASSUME unbossed' PROVE chat' # NoChat /\ chat'.touched /\ ~chat'.boss
      BY DEF UnbossedTouched
    <3>1. chat # NoChat /\ chat.touched /\ ~chat.boss
      BY <2>4, <1>2 DEF LevelInv, UnbossedTouched
    <3>2. (chat'.touched <=> chat.touched) /\ (chat'.boss <=> chat.boss)
      BY <2>4, <3>1, <1>2, <1>4, WroteFields DEF Writes
    <3> QED BY <3>1, <3>2, <2>4, <1>5
  <2> QED BY <2>1, <2>2, <2>3, <2>4
<1>8. owner.asked \in Requests =>
         /\ WritesDone \in Nat /\ WritesDone' = WritesDone + 1
         /\ WritesDone + 1 <= Len(Program[owner.asked])
         /\ write = Program[owner.asked][WritesDone + 1]
         /\ \A i \in 1 .. Len(owner'.todo) : owner'.todo[i] = Program[owner.asked][WritesDone + 1 + i]
  BY <1>1, WriteOfRequest
<1>9. Progress'
  <2>1. owner.asked = "nothing" => ~backlog'
    BY <1>2, <1>3 DEF LevelInv, Progress
  <2>2. ASSUME owner.asked \in Requests
        PROVE  /\ WritesDone' \in Nat
               /\ \A i \in 1 .. Len(owner'.todo) : owner'.todo[i] = Program[owner.asked][WritesDone' + i]
               /\ chat' # NoChat
    <3>1. PICK r \in Requests : r = owner.asked
      BY <2>2
    <3>2. PICK n \in Nat : n = WritesDone /\ WritesDone' = n + 1 /\ write = Program[r][n + 1]
      BY <2>2, <3>1, <1>8
    <3>3. CASE write = "sweep"
      <4>1. n # 0
        <5> SUFFICES ASSUME n = 0 PROVE FALSE
          OBVIOUS
        <5>1. n + 1 = 1
          OBVIOUS
        <5>2. Program[r][1] = "sweep"
          BY <5>1, <3>2, <3>3
        <5> QED BY <5>2, ProgramFacts
      <4>2. chat # NoChat
        BY <2>2, <3>2, <4>1 DEF LevelInv, Progress
      <4> QED BY <4>2, <2>2, <3>2, <3>3, <1>2, <1>8
    <3>4. CASE write # "sweep"
      BY <2>2, <3>2, <3>4, <1>5, <1>8
    <3> QED BY <3>3, <3>4
  <2> QED BY <2>1, <2>2, <1>2 DEF Progress
\* What an undisturbed level has set stands, and the next write adds to it.
<1>10. ASSUME owner.asked \in Requests, owner'.clean
       PROVE  /\ owner.asked = "boss" => KeptBoss(WritesDone)'
              /\ owner.asked = "auto" => KeptAuto(WritesDone)'
              /\ owner.asked = "confirm" => KeptConfirm(WritesDone)'
              /\ owner.asked = "unattended" => KeptUnattended(WritesDone)'
              /\ owner.asked = "ignored" => KeptIgnored(WritesDone)'
  <2>1. PICK n \in Nat : n = WritesDone /\ WritesDone' = n + 1
                        /\ write = Program[owner.asked][n + 1] /\ n + 1 <= Len(Program[owner.asked])
    BY <1>8, <1>10
  <2>2. LevelKept /\ owner.clean /\ toucher'.at # "apply"
    BY <1>2, <1>10 DEF LevelInv
  <2>3. n >= 1 => chat # NoChat /\ Row0 = chat
    BY <2>1, <1>4, <1>10 DEF LevelInv, Progress
  <2>4. CASE owner.asked = "boss"
    <3>1. KeptBoss(n)
      BY <2>1, <2>2, <2>4 DEF LevelKept
    <3>2. (n = 0 /\ write = "boss+") \/ (n = 1 /\ write = "sweep")
          \/ (n = 2 /\ write = "active+") \/ (n = 3 /\ write = "none")
      BY <2>1, <2>4, Programs
    <3>3. KeptBoss(n + 1)'
      BY <3>1, <3>2, <2>2, <2>3, <1>2, WroteFields DEF KeptBoss, Manual
    <3> QED BY <3>3, <2>1, <2>4
  <2>5. CASE owner.asked = "auto"
    <3>1. KeptAuto(n)
      BY <2>1, <2>2, <2>5 DEF LevelKept
    <3>2. (n = 0 /\ write = "boss-") \/ (n = 1 /\ write = "sweep")
          \/ (n = 2 /\ write = "active+") \/ (n = 3 /\ write = "none") \/ (n = 4 /\ write = "welcome")
      BY <2>1, <2>5, Programs
    <3>3. KeptAuto(n + 1)'
      BY <3>1, <3>2, <2>2, <2>3, <1>2, WroteFields DEF KeptAuto, Manual
    <3> QED BY <3>3, <2>1, <2>5
  <2>6. CASE owner.asked = "confirm"
    <3>1. KeptConfirm(n)
      BY <2>1, <2>2, <2>6 DEF LevelKept
    <3>2. (n = 0 /\ write = "boss-") \/ (n = 1 /\ write = "sweep")
          \/ (n = 2 /\ write = "active+") \/ (n = 3 /\ write = "always")
      BY <2>1, <2>6, Programs
    <3>3. KeptConfirm(n + 1)'
      BY <3>1, <3>2, <2>2, <2>3, <1>2, WroteFields DEF KeptConfirm, Manual
    <3> QED BY <3>3, <2>1, <2>6
  <2>7. CASE owner.asked = "unattended"
    <3>1. KeptUnattended(n)
      BY <2>1, <2>2, <2>7 DEF LevelKept
    <3>2. (n = 0 /\ write = "boss-") \/ (n = 1 /\ write = "active-") \/ (n = 2 /\ write = "unignore")
      BY <2>1, <2>7, Programs
    <3>3. KeptUnattended(n + 1)'
      BY <3>1, <3>2, <2>2, <2>3, <1>2, WroteFields DEF KeptUnattended, Manual
    <3> QED BY <3>3, <2>1, <2>7
  <2>8. CASE owner.asked = "ignored"
    <3>1. KeptIgnored(n)
      BY <2>1, <2>2, <2>8 DEF LevelKept
    <3>2. (n = 0 /\ write = "ignore") \/ (n = 1 /\ write = "active-") \/ (n = 2 /\ write = "boss-")
      BY <2>1, <2>8, Programs
    <3>3. KeptIgnored(n + 1)'
      BY <3>1, <3>2, <2>2, <2>3, <1>2, WroteFields DEF KeptIgnored, Manual
    <3> QED BY <3>3, <2>1, <2>8
  <2> QED BY <2>4, <2>5, <2>6, <2>7, <2>8
<1>11. owner.asked \in Requests => LevelKept'
  BY <1>2, <1>10 DEF LevelKept
<1> QED BY <1>2, <1>6, <1>7, <1>9, <1>11 DEF LevelInv

LEMMA LevelStepInv ==
    ASSUME LevelInv, [ChatLevelNext]_levelVars
    PROVE  LevelInv'
<1>1. CASE UNCHANGED levelVars
  <2>1. UNCHANGED <<chat, defaults, owner, toucher, backlog, unbossed>>
    BY <1>1 DEF levelVars
  <2>2. WritesDone' = WritesDone
    BY <2>1, WritesKept
  <2>3. LevelTypes' /\ Progress' /\ UnbossedTouched'
    BY <2>1, <2>2 DEF LevelInv, LevelTypes, Progress, UnbossedTouched
  <2>4. owner.asked \in Requests => LevelKept'
    BY <2>1, <2>2
       DEF LevelInv, LevelKept, KeptBoss, KeptAuto, KeptConfirm, KeptUnattended, KeptIgnored, Manual
  <2> QED BY <2>1, <2>3, <2>4 DEF LevelInv
<1> QED BY <1>1, TouchInv, ReadOriginInv, ApplyDefaultInv, MarkOwnerInv, SetDefaultInv, AskInv,
      WriteNextInv, AbandonInv, AgeInv, WipeChatInv DEF ChatLevelNext

LEMMA LevelInvariant == ChatLevelSpec => []LevelInv
BY LevelInitInv, LevelStepInv, PTL DEF ChatLevelSpec

\* A request that is done has done all of its writes.
LEMMA AllDone ==
    ASSUME LevelInv, NEW r \in Requests, owner.asked = r, owner.todo = <<>>
    PROVE  WritesDone = Len(Program[r])
<1>1. Len(owner.todo) = 0
  BY EmptySeq
<1>2. PICK len \in Nat : len = Len(Program[r])
  BY ProgramFacts
<1>3. len - 0 = len
  OBVIOUS
<1> QED BY <1>1, <1>2, <1>3 DEF WritesDone

LEMMA LevelInvStands == LevelInv => LevelStands
<1> SUFFICES ASSUME LevelInv PROVE LevelStands
  OBVIOUS
<1>1. UnbossedStays
  BY DEF LevelInv, UnbossedTouched, UnbossedStays, Row0
<1>2. DecisionStands
  <2> SUFFICES ASSUME owner.todo = <<>>, owner.clean, owner.asked \in Levels5, chat # NoChat
               PROVE  ConfigLevel(chat) \in
                         {owner.asked} \cup (IF owner.ignored /\ owner.asked = "confirm"
                                             THEN {"ignored"} ELSE {})
    BY DEF DecisionStands
  <2>1. owner.asked \in Requests /\ chat \in ChatRow
    BY DEF LevelInv, LevelTypes, Asking, Levels5
  <2>2. LevelKept
    BY <2>1 DEF LevelInv
  <2>3. PICK r \in Requests : r = owner.asked
    BY <2>1
  <2>4. WritesDone = Len(Program[r])
    BY <2>3, AllDone
  <2>5. CASE r = "boss"
    <3>1. WritesDone = 4
      BY <2>4, <2>5, Programs
    <3>2. chat.boss
      BY <3>1, <2>2, <2>3, <2>5 DEF LevelKept, KeptBoss
    <3> QED BY <3>2, <2>3, <2>5 DEF ConfigLevel
  <2>6. CASE r = "auto"
    <3>1. WritesDone = 5
      BY <2>4, <2>6, Programs
    <3>2. ~chat.boss /\ chat.active /\ chat.confirm = "none" /\ chat.status # "ignored"
      BY <3>1, <2>2, <2>3, <2>6 DEF LevelKept, KeptAuto
    <3> QED BY <3>2, <2>3, <2>6 DEF ConfigLevel
  <2>7. CASE r = "confirm"
    <3>1. WritesDone = 4
      BY <2>4, <2>7, Programs
    <3>2. ~chat.boss /\ chat.active /\ chat.confirm = "always" /\ (~owner.ignored => chat.status # "ignored")
      BY <3>1, <2>2, <2>3, <2>7 DEF LevelKept, KeptConfirm
    <3> QED BY <3>2, <2>3, <2>7 DEF ConfigLevel
  <2>8. CASE r = "unattended"
    <3>1. WritesDone = 3
      BY <2>4, <2>8, Programs
    <3>2. ~chat.boss /\ ~chat.active /\ chat.status # "ignored"
      BY <3>1, <2>2, <2>3, <2>8 DEF LevelKept, KeptUnattended
    <3> QED BY <3>2, <2>3, <2>8 DEF ConfigLevel
  <2>9. CASE r = "ignored"
    <3>1. WritesDone = 3
      BY <2>4, <2>9, Programs
    <3>2. ~chat.boss /\ chat.status = "ignored"
      BY <3>1, <2>2, <2>3, <2>9 DEF LevelKept, KeptIgnored
    <3> QED BY <3>2, <2>3, <2>9 DEF ConfigLevel
  <2> QED BY <2>3, <2>5, <2>6, <2>7, <2>8, <2>9 DEF Levels5
<1> QED BY <1>1, <1>2 DEF LevelStands

\* What the owner decided about a chat outlasts requests that overlap it, the
\* arrival of messages and a new connection of the account (store.SetChatLevel,
\* MarkOwnerIfUntouched).
THEOREM ChatLevelStands == ChatLevelSpec => []LevelStands
BY LevelInvariant, LevelInvStands, PTL

\* Types of the chat, the defaults and the requests on their way (store/chat.go).
THEOREM ChatLevelTypes == ChatLevelSpec => []ChatLevelTypeOK
<1>1. LevelInv => ChatLevelTypeOK
  BY DEF LevelInv, LevelTypes, Asking, Touching, AskedWrites, ChatLevelTypeOK
<1> QED BY <1>1, LevelInvariant, PTL

\* A chat the owner switches on starts from now (store.SetActive).
THEOREM ChatLevelFromNow == ChatLevelSpec => StartsFromNow
<1>1. ASSUME LevelInv, [ChatLevelNext]_levelVars
      PROVE  [(/\ owner' # owner /\ owner.clean /\ chat # NoChat /\ chat' # NoChat
               /\ ~chat.active /\ chat'.active) => ~backlog']_levelVars
  <2> SUFFICES ASSUME ChatLevelNext, owner' # owner, owner.clean, chat # NoChat, chat' # NoChat,
                      ~chat.active, chat'.active, backlog'
               PROVE  FALSE
    BY <1>1
  <2>1. CASE Touch \/ ReadOrigin \/ ApplyDefault \/ MarkOwner \/ SetDefault \/ Age
    BY <2>1 DEF Touch, ReadOrigin, ApplyDefault, MarkOwner, SetDefault, Age
  <2>2. CASE Ask \/ Abandon \/ WipeChat
    BY <2>2 DEF Ask, Abandon, WipeChat
  <2>3. CASE WriteNext
    <3>1. PICK write : write = Head(owner.todo)
      OBVIOUS
    <3>2. /\ write \in Writes /\ chat \in ChatRow /\ Row0 = chat
          /\ write = "sweep" => chat' = chat
          /\ write # "sweep" => chat' = Wrote(chat, write)
          /\ (backlog' => backlog) /\ owner.todo # <<>>
      BY <1>1, <2>3, <3>1, WriteFacts DEF Row0, WriteNext, LevelInv, LevelTypes
    <3>3. write = "active+"
      BY <3>2, WroteFields DEF Writes
    <3>4. owner.asked \in Requests
      BY <1>1, <3>2 DEF LevelInv, LevelTypes, Asking, Progress
    <3>5. PICK r \in Requests : r = owner.asked
      BY <3>4
    <3>6. PICK n \in Nat : n = WritesDone /\ n + 1 <= Len(Program[r]) /\ write = Program[r][n + 1]
      BY <1>1, <2>3, <3>1, <3>4, <3>5, WriteOfRequest
    <3>7. n = 2 /\ r \in {"boss", "auto", "confirm"}
      <4>1. Len(Program[r]) \in Nat
        BY ProgramFacts
      <4>2. n + 1 \in 1 .. Len(Program[r])
        BY <3>6, <4>1
      <4>3. n + 1 = 3 /\ r \in {"boss", "auto", "confirm"}
        BY <3>3, <3>6, <4>2, ProgramFacts
      <4> QED BY <4>3
    <3>8. LevelKept
      BY <1>1, <3>4 DEF LevelInv
    <3>9. chat.active \/ ~backlog
      BY <3>5, <3>6, <3>7, <3>8 DEF LevelKept, KeptBoss, KeptAuto, KeptConfirm
    <3> QED BY <3>2, <3>9
  <2> QED BY <2>1, <2>2, <2>3 DEF ChatLevelNext
<1> QED BY <1>1, LevelInvariant, PTL DEF ChatLevelSpec, StartsFromNow

-----------------------------------------------------------------------------
(* Drafts (Drafts). *)

\* Drafts are written one id after another, each after what it answers, and
\* only what was queued is approved.
RowsSound ==
    \A d \in Written :
        /\ drafts[d].second <= second /\ drafts[d].burst <= inbound /\ drafts[d].round <= d
        /\ drafts[d].status = "approved" => sent[d] > 0

WrittenInTurn == \E n \in 0 .. MaxDrafts : Written = 1 .. n

WriterSound ==
    /\ writer.burst <= inbound
    /\ writer.at = "round" => writer.round = 1 \/ \E d \in Written : writer.round <= d + 1

\* A request is about a draft there is, and queued it before it says so.
DesksSound ==
    \A k \in Desks : desk[k].op # "idle" =>
        /\ desk[k].id \in Written
        /\ desk[k].op \in {"queued", "approved"} => sent[desk[k].id] > 0

\* As long as nothing overlapped: later drafts are younger, what waits or is
\* being decided is the last one, and a draft being written is alone.
InOrder == \A d, e \in Written : d < e => drafts[d].second < drafts[e].second

LastOnly ==
    /\ \A d \in Written : drafts[d].status = "pending" => \A e \in Written : e <= d
    /\ \A k \in Desks : desk[k].op # "idle" =>
          /\ \A e \in Written : e <= desk[k].id
          /\ desk[k].op = "rejected" => drafts[desk[k].id].status = "rejected"

WriterAlone ==
    writer.at = "round" =>
        /\ \A d \in Ids : ~Pending(d)
        /\ \A k \in Desks : desk[k] = Idle
        /\ \A d \in retried : drafts[d].round < writer.round

\* Since a rejection that sent the agent back, all that followed was rejected
\* or waits, in a round of its own.
Thread ==
    \A d \in retried :
        /\ drafts[d].round < MaxDraftRounds
        /\ \A e \in Written : e >= d => drafts[e].status \in {"rejected", "pending"}
        /\ \A e \in Written : e > d => drafts[e].round > drafts[d].round

Orderly == InOrder /\ LastOnly /\ WriterAlone /\ Thread /\ ReasonTravels

DraftsInv ==
    /\ DraftsTypeOK /\ retried \subseteq Written
    /\ RowsSound /\ WrittenInTurn /\ WriterSound /\ DesksSound
    /\ ~muddled => Orderly

Ops == {"idle", "approve", "queued", "approved", "reject", "rejected"}
DeskType == [op : Ops, id : Ids]
WriterType == [at : {"idle", "bound", "round", "inserted"}, burst : 0 .. MaxInbound,
               round : 1 .. MaxDrafts + 1, note : BOOLEAN, owed : BOOLEAN]

LEMMA IdIsNat == \A d \in Ids : d \in Nat /\ d >= 1 /\ d <= MaxDrafts
BY DraftsAssumption DEF Ids

LEMMA IdleDesk == Idle \in DeskType /\ Idle.op = "idle" /\ 1 \in Ids
BY DraftsAssumption DEF Idle, DeskType, Ops, Ids

LEMMA NoWriterIs ==
    /\ NoWriter \in WriterType /\ NoWriter.at = "idle" /\ NoWriter.burst = 0
    /\ NoWriter.owed = FALSE
BY DraftsAssumption DEF NoWriter, WriterType

\* What is written is a row.
LEMMA WrittenRows ==
    ASSUME DraftsTypeOK
    PROVE  /\ Written \subseteq Ids
           /\ \A d \in Written : drafts[d] \in DraftRow /\ drafts[d] # NoDraft
           /\ \A d \in Ids : Pending(d) <=> d \in Written /\ drafts[d].status = "pending"
           /\ \A d \in Ids : d \notin Written => drafts[d] = NoDraft
BY DEF DraftsTypeOK, Written, Exists, Pending

LEMMA RowFields ==
    ASSUME DraftsTypeOK, NEW d \in Written
    PROVE  /\ drafts[d].status \in Decisions /\ drafts[d].round \in Nat
           /\ drafts[d].second \in Nat /\ drafts[d].burst \in Nat
<1>1. drafts[d] \in DraftRow
  BY WrittenRows
<1> QED BY <1>1, DraftsAssumption DEF DraftRow

LEMMA DraftsInitInv == DraftsInit => DraftsInv
<1> SUFFICES ASSUME DraftsInit PROVE DraftsInv
  OBVIOUS
<1> DEFINE first == [status |-> "pending", round |-> 1, second |-> 0, burst |-> 0]
<1>1. PICK old \in {NoDraft, first} : drafts = [d \in Ids |-> IF d = 1 THEN old ELSE NoDraft]
  BY DEF DraftsInit
<1>2. first \in DraftRow
  BY DraftsAssumption DEF DraftRow, Decisions
<1>3. first.status = "pending" /\ first.round = 1 /\ first.second = 0 /\ first.burst = 0
  OBVIOUS
<1> HIDE DEF first
<1>4. /\ second = 0 /\ inbound = 0 /\ handled = {} /\ desk = [k \in Desks |-> Idle]
      /\ writer = NoWriter /\ sent = [d \in Ids |-> 0]
      /\ reopened = {} /\ retried = {} /\ muddled = FALSE
  BY DEF DraftsInit
<1>5. Written \subseteq {1} /\ \A d \in Written : drafts[d] = first
  BY <1>1 DEF Written, Exists
<1>6. DraftsTypeOK
  <2>1. drafts \in [Ids -> DraftRow \cup {NoDraft}]
    BY <1>1, <1>2
  <2>2. desk \in [Desks -> [op : {"idle", "approve", "queued", "approved",
                                  "reject", "rejected"}, id : Ids]]
    BY <1>4, IdleDesk DEF DeskType, Ops
  <2>3. writer \in WriterType
    BY <1>4, NoWriterIs
  <2>4. sent \in [Ids -> 0 .. 2]
    BY <1>4
  <2>7. muddled \in BOOLEAN
    BY <1>4, Zenon
  <2>5. second \in 0 .. MaxSecond /\ inbound \in 0 .. MaxInbound
    BY <1>4, DraftsAssumption
  <2>6. handled \subseteq 1 .. inbound /\ reopened \subseteq 1 .. inbound /\ retried \subseteq Ids
    BY <1>4
  <2> QED BY <2>1, <2>2, <2>3, <2>4, <2>5, <2>6, <2>7 DEF DraftsTypeOK, WriterType
<1>7. RowsSound
  <2> SUFFICES ASSUME NEW d \in Written
               PROVE  /\ drafts[d].second <= second /\ drafts[d].burst <= inbound /\ drafts[d].round <= d
                      /\ drafts[d].status = "approved" => sent[d] > 0
    BY DEF RowsSound
  <2>1. d = 1 /\ drafts[d].status = "pending" /\ drafts[d].round = 1 /\ drafts[d].second = 0
        /\ drafts[d].burst = 0
    BY <1>3, <1>5
  <2> QED BY <2>1, <1>4
<1>10. WrittenInTurn
  <2>1. CASE old = NoDraft
    <3>1. Written = 1 .. 0
      BY <1>1, <2>1 DEF Written, Exists
    <3> QED BY <3>1, DraftsAssumption DEF WrittenInTurn
  <2>2. CASE old # NoDraft
    <3>1. drafts[1] # NoDraft /\ 1 \in Ids
      BY <1>1, <2>2, IdleDesk
    <3>2. Written = 1 .. 1
      BY <1>5, <3>1 DEF Written, Exists
    <3> QED BY <3>2, DraftsAssumption DEF WrittenInTurn
  <2> QED BY <2>1, <2>2
<1>8. WriterSound /\ DesksSound
  BY <1>4, NoWriterIs, IdleDesk DEF WriterSound, DesksSound
<1>9. InOrder /\ LastOnly /\ WriterAlone /\ Thread /\ ReasonTravels
  BY <1>4, <1>5, NoWriterIs, IdleDesk DEF InOrder, LastOnly, WriterAlone, Thread, ReasonTravels
<1> QED BY <1>4, <1>6, <1>7, <1>8, <1>9, <1>10 DEF DraftsInv, Orderly
-----------------------------------------------------------------------------
\* Steps that leave the drafts and what is decided about them.
LEMMA ReceiveInv ==
    ASSUME DraftsInv, Receive
    PROVE  DraftsInv'
<1>1. /\ inbound < MaxInbound /\ inbound' = inbound + 1
      /\ UNCHANGED <<drafts, second, handled, desk, writer, sent, reopened, retried, muddled>>
  BY DEF Receive
<1>2. DraftsTypeOK /\ inbound \in Nat
  BY DraftsAssumption DEF DraftsInv, DraftsTypeOK
<1>3. DraftsTypeOK'
  BY <1>1, <1>2, DraftsAssumption DEF DraftsTypeOK
<1>4. Written' = Written
  BY <1>1 DEF Written, Exists
<1>5. \A d \in Written : drafts[d].burst \in Nat
  BY <1>2, WrittenRows, DraftsAssumption DEF DraftRow
<1>6. writer.burst \in Nat
  BY <1>2, DraftsAssumption DEF DraftsTypeOK
<1>7. RowsSound' /\ WriterSound'
  <2>1. RowsSound'
    BY <1>1, <1>2, <1>4, <1>5 DEF DraftsInv, RowsSound
  <2>2. WriterSound'
    BY <1>1, <1>2, <1>4, <1>6 DEF DraftsInv, WriterSound
  <2> QED BY <2>1, <2>2
<1>8. DesksSound' /\ retried' \subseteq Written'
  BY <1>1, <1>4 DEF DraftsInv, DesksSound
<1>10. WrittenInTurn'
  BY <1>4 DEF DraftsInv, WrittenInTurn
<1>9. ~muddled' => Orderly'
  BY <1>1, <1>4 DEF DraftsInv, Orderly, InOrder, LastOnly, WriterAlone, Thread, ReasonTravels, Pending, Exists
<1> QED BY <1>3, <1>7, <1>8, <1>9, <1>10 DEF DraftsInv

LEMMA SecondInv ==
    ASSUME DraftsInv, Second
    PROVE  DraftsInv'
<1>1. /\ second < MaxSecond /\ second' = second + 1
      /\ UNCHANGED <<drafts, inbound, handled, desk, writer, sent, reopened, retried, muddled>>
  BY DEF Second
<1>2. DraftsTypeOK /\ second \in Nat
  BY DraftsAssumption DEF DraftsInv, DraftsTypeOK
<1>3. DraftsTypeOK'
  BY <1>1, <1>2, DraftsAssumption DEF DraftsTypeOK
<1>4. Written' = Written
  BY <1>1 DEF Written, Exists
<1>5. \A d \in Written : drafts[d].second \in Nat
  BY <1>2, WrittenRows, DraftsAssumption DEF DraftRow
<1>6. RowsSound'
  BY <1>1, <1>2, <1>4, <1>5 DEF DraftsInv, RowsSound
<1>7. WrittenInTurn' /\ WriterSound' /\ DesksSound' /\ retried' \subseteq Written'
  BY <1>1, <1>4 DEF DraftsInv, WrittenInTurn, WriterSound, DesksSound
<1>8. ~muddled' => Orderly'
  BY <1>1, <1>4 DEF DraftsInv, Orderly, InOrder, LastOnly, WriterAlone, Thread, ReasonTravels, Pending, Exists
<1> QED BY <1>3, <1>6, <1>7, <1>8 DEF DraftsInv

\* Nothing of the drafts, the requests about them and the sent rows moves, and
\* the agent is not about to write one.
LEMMA WriterMoves ==
    ASSUME DraftsInv, DraftsTypeOK', UNCHANGED <<drafts, desk, second, inbound, sent, retried>>,
           writer'.at # "round", writer'.burst <= inbound,
           ~muddled' => ~muddled /\ (writer'.owed => writer'.note)
    PROVE  DraftsInv'
<1>1. Written' = Written
  BY DEF Written, Exists
<1>2. RowsSound' /\ WrittenInTurn' /\ WriterSound' /\ DesksSound' /\ retried' \subseteq Written'
  BY <1>1 DEF DraftsInv, RowsSound, WrittenInTurn, WriterSound, DesksSound
<1>3. ~muddled' => Orderly'
  BY <1>1 DEF DraftsInv, Orderly, InOrder, LastOnly, WriterAlone, Thread, ReasonTravels
<1> QED BY <1>2, <1>3 DEF DraftsInv

LEMMA CloseFacts ==
    ASSUME DraftsInv, NEW m \in Nat, m <= inbound, Close(m)
    PROVE  handled' \subseteq 1 .. inbound /\ reopened' \subseteq 1 .. inbound
<1>1. handled \subseteq 1 .. inbound /\ reopened \subseteq 1 .. inbound /\ inbound \in Nat
  BY DraftsAssumption DEF DraftsInv, DraftsTypeOK
<1>2. 1 .. m \subseteq 1 .. inbound
  BY <1>1
<1> QED BY <1>1, <1>2 DEF Close

\* An agent sent back to a burst is told why: the last draft was rejected.
LEMMA PushChatInv ==
    ASSUME DraftsInv, PushChat
    PROVE  DraftsInv'
<1> DEFINE owed == reopened # {} /\ retried # {} /\ \A d \in Ids : ~Pending(d)
<1>1. /\ writer' = [NoWriter EXCEPT !.at = "bound", !.burst = inbound,
                                    !.note = PendingRejectionNote, !.owed = owed]
      /\ UNCHANGED <<drafts, second, inbound, handled, desk, sent, reopened, retried, muddled>>
  BY DEF PushChat
<1>2. DraftsTypeOK /\ inbound \in 0 .. MaxInbound
  BY DEF DraftsInv, DraftsTypeOK
<1>3. PICK note \in BOOLEAN, owes \in BOOLEAN : (note <=> PendingRejectionNote) /\ (owes <=> owed)
                                             /\ note = PendingRejectionNote /\ owes = owed
  BY DEF PendingRejectionNote
<1>4. writer' = [at |-> "bound", burst |-> inbound, round |-> 1, note |-> note, owed |-> owes]
  BY <1>1, <1>3 DEF NoWriter
<1>5. writer' \in WriterType /\ writer'.at = "bound" /\ writer'.burst = inbound
      /\ (writer'.note <=> note) /\ (writer'.owed <=> owes)
  BY <1>2, <1>4, DraftsAssumption DEF WriterType
<1>6. DraftsTypeOK'
  BY <1>1, <1>2, <1>5 DEF DraftsTypeOK, WriterType
<1>7. ASSUME ~muddled, owed PROVE PendingRejectionNote
  <2>1. InOrder /\ Thread /\ retried \subseteq Written
    BY <1>7 DEF DraftsInv, Orderly
  <2>2. PICK n \in 0 .. MaxDrafts : Written = 1 .. n
    BY DEF DraftsInv, WrittenInTurn
  <2>3. PICK d \in retried : TRUE
    BY <1>7
  <2>4. n \in Written /\ d \in Written /\ d <= n /\ \A e \in Written : e <= n
    BY <2>1, <2>2, <2>3
  <2>5. drafts[n].status \in {"rejected", "pending"}
    BY <2>1, <2>3, <2>4 DEF Thread
  <2>6. ~Pending(n) /\ n \in Ids
    BY <1>2, <1>7, <2>4, WrittenRows
  <2>7. drafts[n].status = "rejected"
    BY <1>2, <2>4, <2>5, <2>6, WrittenRows, Zenon
  <2>8. n \in Newest
    <3> SUFFICES ASSUME NEW e \in Written PROVE drafts[e].second <= drafts[n].second
      BY <2>4 DEF Newest
    <3>1. drafts[e].second \in Nat /\ drafts[n].second \in Nat
      BY <1>2, <2>4, RowFields
    <3>2. e = n \/ e < n
      BY <2>2, <2>4
    <3> QED BY <3>1, <3>2, <2>1, <2>4 DEF InOrder
  <2> QED BY <2>7, <2>8 DEF PendingRejectionNote
<1>8. inbound <= inbound
  BY <1>2
<1> HIDE DEF owed
<1> QED BY <1>1, <1>3, <1>5, <1>6, <1>7, <1>8, WriterMoves

LEMMA SilenceInv ==
    ASSUME DraftsInv, Silence \/ CloseBurst
    PROVE  DraftsInv'
<1>1. /\ Close(writer.burst) /\ writer' = NoWriter
      /\ UNCHANGED <<drafts, second, inbound, desk, sent, retried, muddled>>
  BY DEF Silence, CloseBurst
<1>2. DraftsTypeOK /\ writer.burst \in Nat /\ writer.burst <= inbound /\ inbound \in Nat
  BY DraftsAssumption DEF DraftsInv, DraftsTypeOK, WriterSound
<1>3. handled' \subseteq 1 .. inbound /\ reopened' \subseteq 1 .. inbound
  BY <1>1, <1>2, CloseFacts
<1>4. writer' \in WriterType /\ writer'.at # "round" /\ writer'.burst <= inbound /\ ~writer'.owed
  BY <1>1, <1>2, NoWriterIs
<1>5. DraftsTypeOK'
  BY <1>1, <1>2, <1>3, <1>4 DEF DraftsTypeOK, WriterType
<1> QED BY <1>1, <1>4, <1>5, WriterMoves

LEMMA CrashInv ==
    ASSUME DraftsInv, Crash
    PROVE  DraftsInv'
<1>1. /\ desk' = [k \in Desks |-> Idle] /\ writer' = NoWriter
      /\ UNCHANGED <<drafts, second, inbound, handled, sent, reopened, retried, muddled>>
  BY DEF Crash
<1>2. writer' \in WriterType /\ writer'.at # "round" /\ writer'.burst = 0 /\ ~writer'.owed
  BY <1>1, NoWriterIs
<1>3. desk' \in [Desks -> DeskType] /\ \A k \in Desks : desk'[k].op = "idle"
  BY <1>1, IdleDesk
<1>4. DraftsTypeOK /\ inbound \in Nat
  BY DraftsAssumption DEF DraftsInv, DraftsTypeOK
<1>5. DraftsTypeOK'
  BY <1>1, <1>2, <1>3, <1>4 DEF DraftsTypeOK, WriterType, DeskType, Ops
<1>6. Written' = Written
  BY <1>1 DEF Written, Exists
<1>7. RowsSound' /\ WrittenInTurn' /\ retried' \subseteq Written'
  BY <1>1, <1>6 DEF DraftsInv, RowsSound, WrittenInTurn
<1>8. WriterSound' /\ DesksSound'
  BY <1>1, <1>2, <1>3, <1>4 DEF WriterSound, DesksSound
<1>9. ~muddled' => Orderly'
  BY <1>1, <1>2, <1>3, <1>6 DEF DraftsInv, Orderly, InOrder, LastOnly, WriterAlone, Thread, ReasonTravels
<1> QED BY <1>5, <1>7, <1>8, <1>9 DEF DraftsInv
-----------------------------------------------------------------------------
\* Undisturbed, the round read is past all those of the thread.
LEMMA ReadRoundInv ==
    ASSUME DraftsInv, ReadRound
    PROVE  DraftsInv'
<1>1. /\ writer.at = "bound"
      /\ UNCHANGED <<drafts, second, inbound, handled, desk, sent, reopened, retried>>
      /\ muddled' = (muddled \/ \E d \in Ids : Pending(d) \/ \E k \in Desks : desk[k] # Idle)
  BY DEF ReadRound
<1>2. DraftsTypeOK /\ writer \in WriterType /\ Written' = Written
  BY <1>1 DEF DraftsInv, DraftsTypeOK, WriterType, Written, Exists
<1>3. PICK n \in Nat :
         /\ writer' = [writer EXCEPT !.at = "round", !.round = n]
         /\ n = 1 \/ \E d \in Written : n <= d + 1
         /\ n \in 1 .. MaxDrafts + 1
         /\ Written = {} \/ \E d \in Newest : n = NextRound(d)
  <2>1. CASE Written = {}
    <3>1. writer' = [writer EXCEPT !.at = "round", !.round = 1]
      BY <2>1 DEF ReadRound
    <3>2. 1 \in Nat /\ 1 \in 1 .. MaxDrafts + 1
      BY DraftsAssumption
    <3> QED BY <2>1, <3>1, <3>2
  <2>2. CASE Written # {}
    <3>1. PICK d \in Newest : writer' = [writer EXCEPT !.at = "round", !.round = NextRound(d)]
      BY <2>2 DEF ReadRound
    <3>2. d \in Written /\ drafts[d].round \in Nat /\ drafts[d].round <= d
      BY <1>2, RowFields DEF Newest, DraftsInv, RowsSound
    <3>3. d \in Nat /\ d <= MaxDrafts
      BY <1>2, <3>2, WrittenRows, IdIsNat
    <3>4. PICK n \in Nat : n = NextRound(d) /\ n <= d + 1 /\ n >= 1
      BY <3>2, <3>3 DEF NextRound
    <3>5. n \in 1 .. MaxDrafts + 1
      BY <3>3, <3>4, DraftsAssumption
    <3> QED BY <3>1, <3>2, <3>4, <3>5
  <2> QED BY <2>1, <2>2
<1>4. writer' \in WriterType /\ writer'.at = "round" /\ writer'.round = n
      /\ writer'.burst = writer.burst /\ (writer'.owed <=> writer.owed) /\ (writer'.note <=> writer.note)
  BY <1>2, <1>3 DEF WriterType
<1>5. muddled' \in BOOLEAN
  BY <1>1, <1>2 DEF DraftsTypeOK
<1>6. DraftsTypeOK'
  BY <1>1, <1>2, <1>4, <1>5 DEF DraftsTypeOK, WriterType
<1>7. RowsSound' /\ WrittenInTurn' /\ DesksSound' /\ retried' \subseteq Written'
  BY <1>1, <1>2 DEF DraftsInv, RowsSound, WrittenInTurn, DesksSound
<1>8. WriterSound'
  BY <1>1, <1>2, <1>3, <1>4 DEF DraftsInv, WriterSound
<1>9. ASSUME ~muddled' PROVE Orderly'
  <2>1. ~muddled /\ (\A d \in Ids : ~Pending(d)) /\ (\A k \in Desks : desk[k] = Idle)
    <3>1. ~muddled /\ ~ \E d \in Ids : Pending(d) \/ \E k \in Desks : desk[k] # Idle
      BY <1>1, <1>9, Zenon
    <3> QED BY <3>1, IdleDesk
  <2>2. Orderly
    BY <2>1 DEF DraftsInv
  <2>3. \A d \in retried : drafts[d].round < n
    <3> SUFFICES ASSUME NEW d \in retried PROVE drafts[d].round < n
      OBVIOUS
    <3>1. d \in Written /\ Written # {}
      BY DEF DraftsInv
    <3>2. PICK l \in Newest : n = NextRound(l)
      BY <1>3, <3>1
    <3>3. l \in Written /\ drafts[d].second <= drafts[l].second
      BY <3>1, <3>2 DEF Newest
    <3>4. d \in Nat /\ l \in Nat /\ l \in Ids
      BY <1>2, <3>1, <3>3, WrittenRows, IdIsNat
    <3>5. drafts[d].second \in Nat /\ drafts[d].round \in Nat
      BY <1>2, <3>1, RowFields
    <3>6. drafts[l].second \in Nat /\ drafts[l].round \in Nat
      BY <1>2, <3>3, RowFields
    <3>7. d <= l
      <4>1. l < d => drafts[l].second < drafts[d].second
        BY <2>2, <3>1, <3>3 DEF Orderly, InOrder
      <4> QED BY <4>1, <3>3, <3>4, <3>5, <3>6
    <3>8. drafts[l].status \in {"rejected", "pending"} /\ (l > d => drafts[l].round > drafts[d].round)
      BY <2>2, <3>3, <3>4, <3>7 DEF Orderly, Thread
    <3>9. drafts[l].status # "pending"
      BY <1>2, <2>1, <3>3, <3>4, WrittenRows
    <3>10. n = drafts[l].round + 1
      BY <3>2, <3>8, <3>9 DEF NextRound
    <3> QED BY <3>4, <3>5, <3>6, <3>7, <3>8, <3>10
  <2>4. WriterAlone'
    BY <1>1, <1>4, <2>1, <2>3 DEF WriterAlone, Pending, Exists
  <2>5. ReasonTravels'
    BY <1>4, <2>2 DEF Orderly, ReasonTravels
  <2> QED BY <1>1, <1>2, <2>2, <2>4, <2>5 DEF Orderly, InOrder, LastOnly, Thread
<1> QED BY <1>6, <1>7, <1>8, <1>9 DEF DraftsInv

LEMMA InsertDraftInv ==
    ASSUME DraftsInv, InsertDraft
    PROVE  DraftsInv'
<1>1. /\ writer.at = "round" /\ writer' = [writer EXCEPT !.at = "inserted"]
      /\ muddled' = (muddled \/ \E d \in Written : drafts[d].second = second)
      /\ UNCHANGED <<second, inbound, handled, desk, sent, reopened, retried>>
  BY DEF InsertDraft
<1>2. DraftsTypeOK /\ writer \in WriterType /\ second \in 0 .. MaxSecond
  BY DEF DraftsInv, DraftsTypeOK, WriterType
<1> DEFINE row == [status |-> "pending", round |-> writer.round, second |-> second,
                   burst |-> writer.burst]
<1>3. PICK d \in Ids \ Written :
         /\ \A e \in Ids \ Written : d <= e
         /\ drafts' = [drafts EXCEPT ![d] = row]
  BY DEF InsertDraft
<1>4. PICK n \in 0 .. MaxDrafts : Written = 1 .. n
  BY DEF DraftsInv, WrittenInTurn
<1>5. d = n + 1 /\ n + 1 <= MaxDrafts
  <2>1. d > n /\ d <= MaxDrafts /\ d \in Nat
    BY <1>3, <1>4, IdIsNat
  <2>2. n \in Nat /\ MaxDrafts \in Nat
    BY DraftsAssumption
  <2>3. n + 1 \in 1 .. MaxDrafts /\ n + 1 \notin 1 .. n
    BY <2>1, <2>2
  <2>4. d <= n + 1
    BY <1>3, <1>4, <2>3 DEF Ids
  <2> QED BY <2>1, <2>2, <2>4
<1>6. /\ \A e \in Written : e < d /\ e # d /\ e \in Nat
      /\ d \in Nat /\ n \in Nat
  BY <1>4, <1>5
<1>7. writer.round \in 1 .. MaxDrafts + 1 /\ writer.round <= d
  <2>1. writer.round \in 1 .. MaxDrafts + 1
    BY <1>2 DEF WriterType
  <2>2. writer.round = 1 \/ \E e \in Written : writer.round <= e + 1
    BY <1>1 DEF DraftsInv, WriterSound
  <2> QED BY <1>4, <1>5, <2>1, <2>2
<1>8. row \in DraftRow /\ row # NoDraft
  <2>1. writer.burst \in 0 .. MaxInbound /\ writer.round \in 1 .. MaxDrafts
    BY <1>2, <1>5, <1>6, <1>7, DraftsAssumption DEF WriterType
  <2> QED BY <2>1, <1>2, DraftsAssumption DEF DraftRow, Decisions
<1>9. row.status = "pending" /\ row.round = writer.round /\ row.second = second
      /\ row.burst = writer.burst
  OBVIOUS
<1> HIDE DEF row
<1>10. /\ drafts' \in [Ids -> DraftRow \cup {NoDraft}] /\ drafts'[d] = row
       /\ \A e \in Ids : e # d => drafts'[e] = drafts[e]
  BY <1>2, <1>3, <1>8 DEF DraftsTypeOK
<1>11. Written' = Written \cup {d} /\ d \in Ids
  BY <1>2, <1>3, <1>8, <1>10 DEF Written, Exists, DraftsTypeOK
<1>12. \A e \in Written : drafts'[e] = drafts[e]
  BY <1>6, <1>10, <1>2, WrittenRows
<1>13. writer' \in WriterType /\ writer'.at = "inserted" /\ writer'.burst = writer.burst
       /\ (writer'.owed <=> writer.owed) /\ (writer'.note <=> writer.note)
  BY <1>1, <1>2 DEF WriterType
<1>14. muddled' \in BOOLEAN
  BY <1>1, <1>2 DEF DraftsTypeOK
<1>15. DraftsTypeOK'
  BY <1>1, <1>2, <1>10, <1>13, <1>14 DEF DraftsTypeOK, WriterType
<1>16. RowsSound'
  <2> SUFFICES ASSUME NEW e \in Written \cup {d}
               PROVE  /\ drafts'[e].second <= second /\ drafts'[e].burst <= inbound
                      /\ drafts'[e].round <= e
                      /\ drafts'[e].status = "approved" => sent[e] > 0
    BY <1>1, <1>11 DEF RowsSound
  <2>1. CASE e = d
    BY <2>1, <1>2, <1>7, <1>9, <1>10 DEF DraftsInv, WriterSound
  <2>2. CASE e \in Written
    BY <2>2, <1>12 DEF DraftsInv, RowsSound
  <2> QED BY <2>1, <2>2
<1>17. WrittenInTurn' /\ WriterSound' /\ DesksSound' /\ retried' \subseteq Written'
  <2>1. Written' = 1 .. (n + 1) /\ n + 1 \in 0 .. MaxDrafts
    BY <1>4, <1>5, <1>11
  <2>2. WrittenInTurn'
    BY <2>1 DEF WrittenInTurn
  <2>3. WriterSound'
    BY <1>1, <1>13 DEF DraftsInv, WriterSound
  <2>4. DesksSound' /\ retried' \subseteq Written'
    BY <1>1, <1>11 DEF DraftsInv, DesksSound
  <2> QED BY <2>2, <2>3, <2>4
<1>18. ASSUME ~muddled' PROVE Orderly'
  <2>1. ~muddled /\ \A e \in Written : drafts[e].second # second
    BY <1>1, <1>18
  <2>2. Orderly
    BY <2>1 DEF DraftsInv
  <2>3. InOrder'
    <3> SUFFICES ASSUME NEW e \in Written \cup {d}, NEW f \in Written \cup {d}, e < f
                 PROVE  drafts'[e].second < drafts'[f].second
      BY <1>11 DEF InOrder
    <3>1. e \in Written
      BY <1>6
    <3>2. CASE f = d
      <4>1. drafts[e].second \in Nat /\ drafts[e].second <= second /\ drafts[e].second # second
        BY <1>2, <2>1, <3>1, RowFields DEF DraftsInv, RowsSound
      <4>2. drafts'[e].second = drafts[e].second /\ drafts'[f].second = second
        BY <1>9, <1>10, <1>12, <3>1, <3>2
      <4> QED BY <4>1, <4>2, <1>2
    <3>3. CASE f \in Written
      BY <3>1, <3>3, <1>12, <2>2 DEF Orderly, InOrder
    <3> QED BY <3>2, <3>3
  <2>4. /\ \A e \in Ids : ~Pending(e)
        /\ \A k \in Desks : desk[k] = Idle
        /\ \A e \in retried : drafts[e].round < writer.round
    BY <1>1, <2>2 DEF Orderly, WriterAlone
  <2>5. LastOnly'
    <3>1. \A e \in Written : drafts'[e].status # "pending"
      BY <2>4, <1>2, <1>12, WrittenRows
    <3>2. \A e \in Written' : e <= d
      BY <1>6, <1>11
    <3>3. \A k \in Desks : desk'[k].op = "idle"
      BY <2>4, <1>1, IdleDesk
    <3> QED BY <3>1, <3>2, <3>3, <1>11 DEF LastOnly
  <2>6. WriterAlone' /\ ReasonTravels'
    BY <1>13, <2>2 DEF Orderly, WriterAlone, ReasonTravels
  <2>7. Thread'
    <3> SUFFICES ASSUME NEW e \in retried
                 PROVE  /\ drafts'[e].round < MaxDraftRounds
                        /\ \A f \in Written \cup {d} : f >= e => drafts'[f].status \in {"rejected", "pending"}
                        /\ \A f \in Written \cup {d} : f > e => drafts'[f].round > drafts'[e].round
      BY <1>1, <1>11 DEF Thread
    <3>1. e \in Written /\ drafts'[e] = drafts[e] /\ drafts[e].round \in Nat
      BY <1>2, <1>12, RowFields DEF DraftsInv
    <3>2. /\ drafts[e].round < MaxDraftRounds
          /\ \A f \in Written : f >= e => drafts[f].status \in {"rejected", "pending"}
          /\ \A f \in Written : f > e => drafts[f].round > drafts[e].round
      BY <2>2 DEF Orderly, Thread
    <3>3. drafts'[d].status = "pending" /\ drafts'[d].round = writer.round
      BY <1>9, <1>10
    <3>4. drafts[e].round < writer.round
      BY <2>4
    <3>5. writer.round > drafts[e].round
      BY <3>1, <3>4, <1>7, DraftsAssumption
    <3> QED BY <3>1, <3>2, <3>3, <3>5, <1>12
  <2> QED BY <2>3, <2>5, <2>6, <2>7 DEF Orderly
<1> QED BY <1>15, <1>16, <1>17, <1>18 DEF DraftsInv
-----------------------------------------------------------------------------
\* A request moves on: its desk, and nothing of the other desks.
LEMMA ServeFacts ==
    ASSUME DraftsTypeOK, NEW k \in Desks, NEW from, NEW to \in Ops, NEW d \in Ids,
           Serve(k, from, to, d)
    PROVE  /\ desk[k].op = from
           /\ desk' \in [Desks -> DeskType]
           /\ desk'[k].op = to /\ desk'[k].id = d
           /\ \A j \in Desks : j # k => desk'[j] = desk[j]
<1> DEFINE row == [op |-> to, id |-> d]
<1>1. row \in DeskType /\ row.op = to /\ row.id = d
  BY DEF DeskType
<1> HIDE DEF row
<1>2. desk[k].op = from /\ desk' = [desk EXCEPT ![k] = row] /\ desk \in [Desks -> DeskType]
  BY DEF Serve, row, DraftsTypeOK, DeskType, Ops
<1> QED BY <1>1, <1>2

\* A decision stamps the status of one row.
LEMMA StampFacts ==
    ASSUME DraftsTypeOK, NEW d \in Written, NEW s \in Decisions,
           drafts' = [drafts EXCEPT ![d].status = s]
    PROVE  /\ drafts' \in [Ids -> DraftRow \cup {NoDraft}] /\ Written' = Written
           /\ drafts'[d].status = s /\ \A e \in Ids : e # d => drafts'[e] = drafts[e]
           /\ \A e \in Written : /\ drafts'[e].round = drafts[e].round
                                 /\ drafts'[e].second = drafts[e].second
                                 /\ drafts'[e].burst = drafts[e].burst
<1>1. d \in Ids /\ drafts[d] \in DraftRow
  BY WrittenRows
<1> DEFINE row == [drafts[d] EXCEPT !.status = s]
<1>2. row \in DraftRow /\ row.status = s /\ row.round = drafts[d].round
      /\ row.second = drafts[d].second /\ row.burst = drafts[d].burst
  BY <1>1 DEF DraftRow
<1>3. row # NoDraft
  BY <1>2, DraftsAssumption
<1>4. drafts' = [drafts EXCEPT ![d] = row]
  OBVIOUS
<1> HIDE DEF row
<1>5. drafts \in [Ids -> DraftRow \cup {NoDraft}]
  BY DEF DraftsTypeOK
<1>6. /\ drafts' \in [Ids -> DraftRow \cup {NoDraft}] /\ drafts'[d] = row
      /\ \A e \in Ids : e # d => drafts'[e] = drafts[e]
  BY <1>1, <1>2, <1>4, <1>5
<1>7. Written' = Written
  BY <1>1, <1>3, <1>6 DEF Written, Exists
<1> QED BY <1>2, <1>6, <1>7, WrittenRows

\* What a decision leaves of the rows: all but the status.
LEMMA StampInv ==
    ASSUME DraftsInv, NEW d \in Written, NEW s \in Decisions,
           drafts' = [drafts EXCEPT ![d].status = s], s = "approved" => sent[d] > 0,
           UNCHANGED <<second, inbound, sent>>
    PROVE  RowsSound' /\ WrittenInTurn' /\ (InOrder => InOrder')
<1>1. DraftsTypeOK
  BY DEF DraftsInv
<1>2. Written' = Written
  BY <1>1, StampFacts
<1>3. \A e \in Written : /\ drafts'[e].round = drafts[e].round
                         /\ drafts'[e].second = drafts[e].second
                         /\ drafts'[e].burst = drafts[e].burst
  BY <1>1, StampFacts
<1>4. drafts'[d].status = s /\ \A e \in Written : e # d => drafts'[e] = drafts[e]
  BY <1>1, StampFacts, WrittenRows
<1>5. RowsSound'
  BY <1>2, <1>3, <1>4 DEF DraftsInv, RowsSound
<1>6. WrittenInTurn' /\ (InOrder => InOrder')
  BY <1>2, <1>3 DEF DraftsInv, WrittenInTurn, InOrder
<1> QED BY <1>5, <1>6

LEMMA AskDraftInv ==
    ASSUME DraftsInv, NEW k \in Desks, NEW d \in Ids, Approve(k, d) \/ Reject(k, d)
    PROVE  DraftsInv'
<1>1. DraftsTypeOK /\ Pending(d)
      /\ UNCHANGED <<drafts, second, inbound, handled, writer, sent, reopened, retried, muddled>>
  BY DEF Approve, Reject, DraftsInv
<1>2. PICK to \in {"approve", "reject"} : Serve(k, "idle", to, d)
  BY DEF Approve, Reject
<1>3. to \in Ops /\ to \notin {"idle", "queued", "approved", "rejected"}
  BY DEF Ops
<1>4. /\ desk' \in [Desks -> DeskType] /\ desk'[k].op = to /\ desk'[k].id = d
      /\ \A j \in Desks : j # k => desk'[j] = desk[j]
  BY <1>1, <1>2, <1>3, ServeFacts
<1>5. d \in Written /\ drafts[d].status = "pending" /\ Written' = Written
  BY <1>1, WrittenRows DEF Written, Exists
<1>6. DraftsTypeOK'
  BY <1>1, <1>4 DEF DraftsTypeOK, DeskType, Ops
<1>7. RowsSound' /\ WrittenInTurn' /\ WriterSound' /\ retried' \subseteq Written'
  BY <1>1, <1>5 DEF DraftsInv, RowsSound, WrittenInTurn, WriterSound
<1>8. DesksSound'
  BY <1>1, <1>3, <1>4, <1>5 DEF DraftsInv, DesksSound
<1>9. ASSUME ~muddled' PROVE Orderly'
  <2>1. Orderly
    BY <1>1, <1>9 DEF DraftsInv
  <2>2. InOrder' /\ Thread' /\ ReasonTravels'
    BY <1>1, <1>5, <2>1 DEF Orderly, InOrder, Thread, ReasonTravels
  <2>3. \A e \in Written : e <= d
    BY <1>5, <2>1 DEF Orderly, LastOnly
  <2>4. LastOnly'
    BY <1>1, <1>3, <1>4, <1>5, <2>1, <2>3 DEF Orderly, LastOnly
  <2>5. writer'.at # "round"
    BY <1>1, <2>1 DEF Orderly, WriterAlone
  <2>6. WriterAlone'
    BY <2>5 DEF WriterAlone
  <2> QED BY <2>2, <2>4, <2>6 DEF Orderly
<1> QED BY <1>6, <1>7, <1>8, <1>9 DEF DraftsInv

LEMMA EnqueueDraftInv ==
    ASSUME DraftsInv, NEW k \in Desks, EnqueueDraft(k)
    PROVE  DraftsInv'
<1> DEFINE d == desk[k].id
<1>1. DraftsTypeOK /\ Serve(k, "approve", "queued", d)
      /\ UNCHANGED <<drafts, second, inbound, handled, writer, reopened, retried, muddled>>
  BY DEF EnqueueDraft, DraftsInv
<1>2. PICK n \in {1, 2} : sent' = [sent EXCEPT ![d] = n]
  BY DEF EnqueueDraft
<1>3. desk[k] \in DeskType /\ d \in Ids /\ "queued" \in Ops
  BY <1>1 DEF DraftsTypeOK, DeskType, Ops
<1>4. /\ desk[k].op = "approve" /\ desk' \in [Desks -> DeskType]
      /\ desk'[k].op = "queued" /\ desk'[k].id = d
      /\ \A j \in Desks : j # k => desk'[j] = desk[j]
  BY <1>1, <1>3, ServeFacts
<1>5. d \in Written /\ Written' = Written
  BY <1>1, <1>4 DEF DraftsInv, DesksSound, Written, Exists
<1>6. /\ sent' \in [Ids -> 0 .. 2] /\ sent'[d] = n
      /\ \A e \in Ids : e # d => sent'[e] = sent[e]
  BY <1>1, <1>2, <1>3 DEF DraftsTypeOK
<1>7. n > 0 /\ \A e \in Ids : sent[e] > 0 => sent'[e] > 0
  <2>1. n > 0
    OBVIOUS
  <2> QED BY <2>1, <1>6
<1> HIDE DEF d
<1>8. DraftsTypeOK'
  BY <1>1, <1>4, <1>6 DEF DraftsTypeOK, DeskType, Ops
<1>9. RowsSound' /\ WrittenInTurn' /\ WriterSound' /\ retried' \subseteq Written'
  BY <1>1, <1>5, <1>7, WrittenRows DEF DraftsInv, RowsSound, WrittenInTurn, WriterSound
<1>10. DesksSound'
  <2> SUFFICES ASSUME NEW j \in Desks, desk'[j].op # "idle"
               PROVE  /\ desk'[j].id \in Written
                      /\ desk'[j].op \in {"queued", "approved"} => sent'[desk'[j].id] > 0
    BY <1>5 DEF DesksSound
  <2>1. CASE j = k
    BY <2>1, <1>4, <1>5, <1>6, <1>7
  <2>2. CASE j # k
    BY <2>2, <1>1, <1>4, <1>7, WrittenRows DEF DraftsInv, DesksSound
  <2> QED BY <2>1, <2>2
<1>11. ASSUME ~muddled' PROVE Orderly'
  <2>1. Orderly
    BY <1>1, <1>11 DEF DraftsInv
  <2>2. InOrder' /\ Thread' /\ ReasonTravels'
    BY <1>1, <1>5, <2>1 DEF Orderly, InOrder, Thread, ReasonTravels
  <2>3. \A e \in Written : e <= d
    BY <1>4, <2>1 DEF Orderly, LastOnly, d
  <2>4. LastOnly'
    BY <1>1, <1>4, <1>5, <2>1, <2>3 DEF Orderly, LastOnly
  <2>5. writer'.at # "round"
    BY <1>1, <1>4, <2>1, IdleDesk DEF Orderly, WriterAlone
  <2>6. WriterAlone'
    BY <2>5 DEF WriterAlone
  <2> QED BY <2>2, <2>4, <2>6 DEF Orderly
<1> QED BY <1>8, <1>9, <1>10, <1>11 DEF DraftsInv

LEMMA StampApprovedInv ==
    ASSUME DraftsInv, NEW k \in Desks, StampApproved(k)
    PROVE  DraftsInv'
<1> DEFINE d == desk[k].id
<1>1. /\ DraftsTypeOK /\ Serve(k, "queued", "approved", d)
      /\ drafts' = [drafts EXCEPT ![d].status = "approved"]
      /\ muddled' = (muddled \/ ~Pending(d)) /\ retried' = {}
      /\ UNCHANGED <<second, inbound, handled, writer, sent, reopened>>
  BY DEF StampApproved, Stamp, DraftsInv
<1>2. desk[k] \in DeskType /\ d \in Ids /\ "approved" \in Ops /\ "approved" \in Decisions
  BY <1>1 DEF DraftsTypeOK, DeskType, Ops, Decisions
<1>3. /\ desk[k].op = "queued" /\ desk' \in [Desks -> DeskType]
      /\ desk'[k].op = "approved" /\ desk'[k].id = d
      /\ \A j \in Desks : j # k => desk'[j] = desk[j]
  BY <1>1, <1>2, ServeFacts
<1>4. d \in Written /\ sent[d] > 0
  BY <1>3 DEF DraftsInv, DesksSound
<1> HIDE DEF d
<1>5. /\ drafts' \in [Ids -> DraftRow \cup {NoDraft}] /\ Written' = Written
      /\ drafts'[d].status = "approved" /\ \A e \in Ids : e # d => drafts'[e] = drafts[e]
  BY <1>1, <1>2, <1>4, StampFacts
<1>6. RowsSound' /\ WrittenInTurn' /\ (InOrder => InOrder')
  BY <1>1, <1>2, <1>4, StampInv
<1>7. muddled' \in BOOLEAN
  BY <1>1 DEF DraftsTypeOK
<1>8. DraftsTypeOK'
  BY <1>1, <1>3, <1>5, <1>7 DEF DraftsTypeOK, DeskType, Ops
<1>9. WriterSound' /\ DesksSound' /\ retried' \subseteq Written'
  BY <1>1, <1>3, <1>4, <1>5 DEF DraftsInv, WriterSound, DesksSound
<1>10. ASSUME ~muddled' PROVE Orderly'
  <2>1. ~muddled /\ Pending(d)
    BY <1>1, <1>10, Zenon
  <2>2. Orderly /\ drafts[d].status = "pending"
    BY <1>1, <1>2, <2>1, WrittenRows DEF DraftsInv
  <2>3. \A e \in Written : e <= d
    BY <1>4, <2>2 DEF Orderly, LastOnly
  <2>4. \A j \in Desks : desk[j].op # "idle" => desk[j].op # "rejected"
    <3> SUFFICES ASSUME NEW j \in Desks, desk[j].op = "rejected" PROVE FALSE
      OBVIOUS
    <3>1. desk[j].id \in Written
      BY DEF DraftsInv, DesksSound
    <3>2. d <= desk[j].id /\ drafts[desk[j].id].status = "rejected"
      BY <1>4, <2>2 DEF Orderly, LastOnly
    <3>3. desk[j].id <= d /\ desk[j].id \in Nat /\ d \in Nat
      BY <1>1, <1>4, <2>3, <3>1, WrittenRows, IdIsNat
    <3>4. desk[j].id = d
      BY <3>2, <3>3
    <3> QED BY <2>2, <3>2, <3>4
  <2>5. LastOnly'
    <3>1. \A e \in Written : drafts'[e].status = "pending" => drafts[e].status = "pending"
      BY <1>1, <1>5, WrittenRows
    <3>2. \A e \in Written : drafts'[e].status = "pending" => \A f \in Written : f <= e
      BY <3>1, <2>2 DEF Orderly, LastOnly
    <3>3. \A j \in Desks : desk'[j].op # "idle" =>
              desk'[j].op # "rejected" /\ \A e \in Written : e <= desk'[j].id
      BY <1>3, <2>2, <2>3, <2>4 DEF Orderly, LastOnly
    <3> QED BY <1>5, <3>2, <3>3 DEF LastOnly
  <2>6. writer'.at # "round"
    BY <1>1, <1>3, <2>2, IdleDesk DEF Orderly, WriterAlone
  <2>7. WriterAlone' /\ Thread' /\ ReasonTravels'
    BY <1>1, <2>2, <2>6 DEF Orderly, WriterAlone, Thread, ReasonTravels
  <2> QED BY <1>6, <2>2, <2>5, <2>7 DEF Orderly
<1> QED BY <1>6, <1>8, <1>9, <1>10 DEF DraftsInv

LEMMA CloseApprovedInv ==
    ASSUME DraftsInv, NEW k \in Desks, CloseApproved(k)
    PROVE  DraftsInv'
<1> DEFINE d == desk[k].id
           burst == drafts[d].burst
           m == IF burst = 0 THEN inbound ELSE burst
<1>1. /\ DraftsTypeOK /\ Serve(k, "approved", "idle", 1) /\ Close(m)
      /\ UNCHANGED <<drafts, second, inbound, writer, sent, retried, muddled>>
  BY DEF CloseApproved, DraftsInv
<1>2. "idle" \in Ops /\ 1 \in Ids
  BY IdleDesk DEF Ops
<1>3. /\ desk[k].op = "approved" /\ desk' \in [Desks -> DeskType] /\ desk'[k].op = "idle"
      /\ \A j \in Desks : j # k => desk'[j] = desk[j]
  BY <1>1, <1>2, ServeFacts
<1>4. d \in Written /\ Written' = Written
  BY <1>1, <1>3 DEF DraftsInv, DesksSound, Written, Exists
<1>5. burst \in Nat /\ burst <= inbound /\ inbound \in Nat
  BY <1>1, <1>4, RowFields, DraftsAssumption DEF DraftsInv, RowsSound, DraftsTypeOK
<1>6. m \in Nat /\ m <= inbound
  BY <1>5
<1> HIDE DEF m, burst, d
<1>7. handled' \subseteq 1 .. inbound /\ reopened' \subseteq 1 .. inbound
  BY <1>1, <1>6, CloseFacts
<1>8. DraftsTypeOK'
  BY <1>1, <1>3, <1>7 DEF DraftsTypeOK, DeskType, Ops
<1>9. RowsSound' /\ WrittenInTurn' /\ WriterSound' /\ DesksSound' /\ retried' \subseteq Written'
  BY <1>1, <1>3, <1>4 DEF DraftsInv, RowsSound, WrittenInTurn, WriterSound, DesksSound
<1>10. ASSUME ~muddled' PROVE Orderly'
  <2>1. Orderly
    BY <1>1, <1>10 DEF DraftsInv
  <2>2. InOrder' /\ Thread' /\ ReasonTravels'
    BY <1>1, <1>4, <2>1 DEF Orderly, InOrder, Thread, ReasonTravels
  <2>3. LastOnly'
    BY <1>1, <1>3, <1>4, <2>1 DEF Orderly, LastOnly
  <2>4. writer'.at # "round"
    BY <1>1, <1>3, <2>1, IdleDesk DEF Orderly, WriterAlone
  <2>5. WriterAlone'
    BY <2>4 DEF WriterAlone
  <2> QED BY <2>2, <2>3, <2>5 DEF Orderly
<1> QED BY <1>8, <1>9, <1>10 DEF DraftsInv

LEMMA DiscardInv ==
    ASSUME DraftsInv, NEW d \in Ids, Discard(d)
    PROVE  DraftsInv'
<1>1. /\ DraftsTypeOK /\ Pending(d)
      /\ drafts' = [drafts EXCEPT ![d].status = "discarded"] /\ retried' = {}
      /\ UNCHANGED <<second, inbound, handled, desk, writer, sent, reopened, muddled>>
  BY DEF Discard, DraftsInv
<1>2. d \in Written /\ drafts[d].status = "pending" /\ "discarded" \in Decisions
  BY <1>1, WrittenRows DEF Decisions
<1>3. /\ drafts' \in [Ids -> DraftRow \cup {NoDraft}] /\ Written' = Written
      /\ drafts'[d].status = "discarded" /\ \A e \in Ids : e # d => drafts'[e] = drafts[e]
  BY <1>1, <1>2, StampFacts
<1>4. RowsSound' /\ WrittenInTurn' /\ (InOrder => InOrder')
  BY <1>1, <1>2, StampInv
<1>5. DraftsTypeOK'
  BY <1>1, <1>3 DEF DraftsTypeOK
<1>6. WriterSound' /\ DesksSound' /\ retried' \subseteq Written'
  BY <1>1, <1>3 DEF DraftsInv, WriterSound, DesksSound
<1>7. ASSUME ~muddled' PROVE Orderly'
  <2>1. Orderly
    BY <1>1, <1>7 DEF DraftsInv
  <2>2. \A e \in Written : e <= d
    BY <1>2, <2>1 DEF Orderly, LastOnly
  <2>3. \A j \in Desks : desk[j].op # "rejected"
    <3> SUFFICES ASSUME NEW j \in Desks, desk[j].op = "rejected" PROVE FALSE
      OBVIOUS
    <3>1. desk[j].id \in Written
      BY DEF DraftsInv, DesksSound
    <3>2. d <= desk[j].id /\ drafts[desk[j].id].status = "rejected"
      BY <1>2, <2>1 DEF Orderly, LastOnly
    <3>3. desk[j].id <= d /\ desk[j].id \in Nat /\ d \in Nat
      BY <1>1, <1>2, <2>2, <3>1, WrittenRows, IdIsNat
    <3>4. desk[j].id = d
      BY <3>2, <3>3
    <3> QED BY <1>2, <3>2, <3>4
  <2>4. LastOnly'
    <3>1. \A e \in Written : drafts'[e].status = "pending" => drafts[e].status = "pending"
      BY <1>1, <1>3, WrittenRows
    <3>2. \A e \in Written : drafts'[e].status = "pending" => \A f \in Written : f <= e
      BY <3>1, <2>1 DEF Orderly, LastOnly
    <3>3. \A j \in Desks : desk'[j].op # "idle" =>
              desk'[j].op # "rejected" /\ \A e \in Written : e <= desk'[j].id
      BY <1>1, <2>1, <2>3 DEF Orderly, LastOnly
    <3> QED BY <1>3, <3>2, <3>3 DEF LastOnly
  <2>5. writer'.at # "round"
    BY <1>1, <2>1 DEF Orderly, WriterAlone
  <2>6. WriterAlone' /\ Thread' /\ ReasonTravels'
    BY <1>1, <2>1, <2>5 DEF Orderly, WriterAlone, Thread, ReasonTravels
  <2> QED BY <1>4, <2>1, <2>4, <2>6 DEF Orderly
<1> QED BY <1>4, <1>5, <1>6, <1>7 DEF DraftsInv

LEMMA StampRejectedInv ==
    ASSUME DraftsInv, NEW k \in Desks, StampRejected(k)
    PROVE  DraftsInv'
<1> DEFINE d == desk[k].id
<1>1. /\ DraftsTypeOK /\ Serve(k, "reject", "rejected", d)
      /\ drafts' = [drafts EXCEPT ![d].status = "rejected"]
      /\ muddled' = (muddled \/ ~Pending(d))
      /\ UNCHANGED <<second, inbound, handled, writer, sent, reopened, retried>>
  BY DEF StampRejected, Stamp, DraftsInv
<1>2. desk[k] \in DeskType /\ d \in Ids /\ "rejected" \in Ops /\ "rejected" \in Decisions
  BY <1>1 DEF DraftsTypeOK, DeskType, Ops, Decisions
<1>3. /\ desk[k].op = "reject" /\ desk' \in [Desks -> DeskType]
      /\ desk'[k].op = "rejected" /\ desk'[k].id = d
      /\ \A j \in Desks : j # k => desk'[j] = desk[j]
  BY <1>1, <1>2, ServeFacts
<1>4. d \in Written
  BY <1>3 DEF DraftsInv, DesksSound
<1> HIDE DEF d
<1>5. /\ drafts' \in [Ids -> DraftRow \cup {NoDraft}] /\ Written' = Written
      /\ drafts'[d].status = "rejected" /\ \A e \in Ids : e # d => drafts'[e] = drafts[e]
  BY <1>1, <1>2, <1>4, StampFacts
<1>6. \A e \in Written : drafts'[e].round = drafts[e].round
  BY <1>1, <1>2, <1>4, StampFacts
<1>7. RowsSound' /\ WrittenInTurn' /\ (InOrder => InOrder')
  BY <1>1, <1>2, <1>4, StampInv
<1>8. muddled' \in BOOLEAN
  BY <1>1 DEF DraftsTypeOK
<1>9. DraftsTypeOK'
  BY <1>1, <1>3, <1>5, <1>8 DEF DraftsTypeOK, DeskType, Ops
<1>10. WriterSound' /\ DesksSound' /\ retried' \subseteq Written'
  BY <1>1, <1>3, <1>4, <1>5 DEF DraftsInv, WriterSound, DesksSound
<1>11. ASSUME ~muddled' PROVE Orderly'
  <2>1. ~muddled /\ Pending(d)
    BY <1>1, <1>11, Zenon
  <2>2. Orderly /\ drafts[d].status = "pending"
    BY <1>1, <1>2, <2>1, WrittenRows DEF DraftsInv
  <2>3. \A e \in Written : e <= d
    BY <1>4, <2>2 DEF Orderly, LastOnly
  <2>4. LastOnly'
    <3>1. \A e \in Written : drafts'[e].status = "pending" => drafts[e].status = "pending"
      BY <1>1, <1>5, WrittenRows
    <3>2. \A e \in Written : drafts[e].status = "rejected" => drafts'[e].status = "rejected"
      BY <1>1, <1>5, WrittenRows
    <3>3. \A e \in Written : drafts'[e].status = "pending" => \A f \in Written : f <= e
      BY <3>1, <2>2 DEF Orderly, LastOnly
    <3>4. ASSUME NEW j \in Desks, desk'[j].op # "idle"
          PROVE  /\ \A e \in Written : e <= desk'[j].id
                 /\ desk'[j].op = "rejected" => drafts'[desk'[j].id].status = "rejected"
      <4>1. CASE j = k
        BY <4>1, <1>3, <1>5, <2>3
      <4>2. CASE j # k
        <5>1. desk'[j] = desk[j] /\ desk[j].id \in Written
          BY <3>4, <4>2, <1>3 DEF DraftsInv, DesksSound
        <5> QED BY <5>1, <3>2, <3>4, <2>2 DEF Orderly, LastOnly
      <4> QED BY <4>1, <4>2
    <3> QED BY <1>5, <3>3, <3>4 DEF LastOnly
  <2>5. writer'.at # "round"
    BY <1>1, <1>3, <2>2, IdleDesk DEF Orderly, WriterAlone
  <2>6. WriterAlone' /\ ReasonTravels'
    BY <1>1, <2>2, <2>5 DEF Orderly, WriterAlone, ReasonTravels
  <2>7. Thread'
    <3>1. \A e \in Written : drafts[e].status \in {"rejected", "pending"} =>
                             drafts'[e].status \in {"rejected", "pending"}
      BY <1>1, <1>5, WrittenRows
    <3>2. \A e \in retried : e \in Written
      BY DEF DraftsInv
    <3> QED BY <1>1, <1>5, <1>6, <2>2, <3>1, <3>2 DEF Orderly, Thread
  <2> QED BY <1>7, <2>2, <2>4, <2>6, <2>7 DEF Orderly
<1> QED BY <1>7, <1>9, <1>10, <1>11 DEF DraftsInv

LEMMA ReopenRejectedInv ==
    ASSUME DraftsInv, NEW k \in Desks, ReopenRejected(k)
    PROVE  DraftsInv'
<1> DEFINE d == desk[k].id
<1>1. /\ DraftsTypeOK /\ Serve(k, "rejected", "idle", 1)
      /\ UNCHANGED <<drafts, second, inbound, writer, sent, muddled>>
      /\ \/ UNCHANGED <<handled, reopened, retried>>
         \/ ~AtCap(d) /\ Reopen(drafts[d].burst) /\ retried' = retried \cup {d}
  BY DEF ReopenRejected, DraftsInv
<1>2. "idle" \in Ops /\ 1 \in Ids
  BY IdleDesk DEF Ops
<1>3. /\ desk[k].op = "rejected" /\ desk' \in [Desks -> DeskType] /\ desk'[k].op = "idle"
      /\ \A j \in Desks : j # k => desk'[j] = desk[j]
  BY <1>1, <1>2, ServeFacts
<1>4. d \in Written /\ Written' = Written /\ d \in Ids
  BY <1>1, <1>3, WrittenRows DEF DraftsInv, DesksSound, Written, Exists
<1> HIDE DEF d
<1>5. handled' \subseteq 1 .. inbound /\ reopened' \subseteq 1 .. inbound
  <2>1. handled \subseteq 1 .. inbound /\ reopened \subseteq 1 .. inbound
    BY <1>1 DEF DraftsTypeOK
  <2> QED BY <1>1, <2>1 DEF Reopen
<1>6. retried' = retried \/ (~AtCap(d) /\ retried' = retried \cup {d})
  BY <1>1
<1>7. DraftsTypeOK' /\ retried' \subseteq Written'
  BY <1>1, <1>3, <1>4, <1>5, <1>6 DEF DraftsTypeOK, DeskType, Ops, DraftsInv
<1>8. RowsSound' /\ WrittenInTurn' /\ WriterSound' /\ DesksSound'
  BY <1>1, <1>3, <1>4 DEF DraftsInv, RowsSound, WrittenInTurn, WriterSound, DesksSound
<1>9. ASSUME ~muddled' PROVE Orderly'
  <2>1. Orderly
    BY <1>1, <1>9 DEF DraftsInv
  <2>2. InOrder' /\ ReasonTravels'
    BY <1>1, <1>4, <2>1 DEF Orderly, InOrder, ReasonTravels
  <2>3. LastOnly'
    BY <1>1, <1>3, <1>4, <2>1 DEF Orderly, LastOnly
  <2>4. writer'.at # "round"
    BY <1>1, <1>3, <2>1, IdleDesk DEF Orderly, WriterAlone
  <2>5. WriterAlone'
    BY <2>4 DEF WriterAlone
  <2>6. Thread'
    <3>1. CASE retried' = retried
      BY <1>1, <1>4, <2>1, <3>1 DEF Orderly, Thread
    <3>2. CASE ~AtCap(d) /\ retried' = retried \cup {d}
      <4>1. (\A e \in Written : e <= d) /\ drafts[d].status = "rejected"
        BY <1>3, <2>1 DEF Orderly, LastOnly, d
      <4>2. drafts[d].round < MaxDraftRounds
        BY <1>1, <1>4, <3>2, RowFields, DraftsAssumption DEF AtCap
      <4>3. \A e \in Written : (e >= d => e = d) /\ ~(e > d)
        BY <1>1, <1>4, <4>1, WrittenRows, IdIsNat
      <4>4. /\ \A e \in Written : e >= d => drafts[e].status \in {"rejected", "pending"}
            /\ \A e \in Written : e > d => drafts[e].round > drafts[d].round
        BY <4>1, <4>3
      <4> QED BY <1>1, <1>4, <2>1, <3>2, <4>2, <4>4 DEF Orderly, Thread
    <3> QED BY <1>6, <3>1, <3>2
  <2> QED BY <2>2, <2>3, <2>5, <2>6 DEF Orderly
<1> QED BY <1>7, <1>8, <1>9 DEF DraftsInv
-----------------------------------------------------------------------------
LEMMA DraftsStepInv == DraftsInv /\ [DraftsNext]_draftVars => DraftsInv'
<1> SUFFICES ASSUME DraftsInv, [DraftsNext]_draftVars PROVE DraftsInv'
  OBVIOUS
<1>1. ASSUME Owner PROVE DraftsInv'
  <2>1. ASSUME NEW d \in Ids, Discard(d) PROVE DraftsInv'
    BY <2>1, DiscardInv
  <2>2. ASSUME NEW k \in Desks, NEW d \in Ids, Approve(k, d) \/ Reject(k, d) PROVE DraftsInv'
    BY <2>2, AskDraftInv
  <2>3. ASSUME NEW k \in Desks, EnqueueDraft(k) PROVE DraftsInv'
    BY <2>3, EnqueueDraftInv
  <2>4. ASSUME NEW k \in Desks, StampApproved(k) PROVE DraftsInv'
    BY <2>4, StampApprovedInv
  <2>5. ASSUME NEW k \in Desks, CloseApproved(k) PROVE DraftsInv'
    BY <2>5, CloseApprovedInv
  <2>6. ASSUME NEW k \in Desks, StampRejected(k) PROVE DraftsInv'
    BY <2>6, StampRejectedInv
  <2>7. ASSUME NEW k \in Desks, ReopenRejected(k) PROVE DraftsInv'
    BY <2>7, ReopenRejectedInv
  <2> QED BY <1>1, <2>1, <2>2, <2>3, <2>4, <2>5, <2>6, <2>7 DEF Owner
<1>2. CASE UNCHANGED draftVars
  BY <1>2 DEF draftVars, DraftsInv, DraftsTypeOK, RowsSound, WrittenInTurn, WriterSound,
              DesksSound, Orderly, InOrder, LastOnly, WriterAlone, Thread, ReasonTravels,
              Written, Exists, Pending
<1> QED BY <1>1, <1>2, ReceiveInv, SecondInv, PushChatInv, ReadRoundInv, InsertDraftInv,
           SilenceInv, CrashInv DEF DraftsNext

LEMMA DraftsInvariant == DraftsSpec => []DraftsInv
BY DraftsInitInv, DraftsStepInv, PTL DEF DraftsSpec

\* The drafts of a thread that sent the agent back have rounds of their own,
\* all below the limit.
LEMMA DraftsLoopEnds ==
    ASSUME DraftsInv, Thread
    PROVE  LoopEnds
<1>1. MaxDraftRounds \in Nat /\ MaxDraftRounds >= 1 /\ DraftsTypeOK /\ retried \subseteq Written
  BY DraftsAssumption DEF DraftsInv
<1> DEFINE Rounds == 1 .. (MaxDraftRounds - 1)
           roundOf == [d \in retried |-> drafts[d].round]
<1>2. ASSUME NEW d \in retried PROVE drafts[d].round \in Rounds
  <2>1. drafts[d].round \in 1 .. MaxDrafts /\ drafts[d].round < MaxDraftRounds
    BY <1>1, WrittenRows, DraftsAssumption DEF DraftRow, Thread
  <2> QED BY <1>1, <2>1
<1>3. ASSUME NEW d \in retried, NEW e \in retried, drafts[d].round = drafts[e].round
      PROVE  d = e
  <2>1. d \in Nat /\ e \in Nat /\ d \in Written /\ e \in Written
    BY <1>1, WrittenRows, IdIsNat
  <2>2. drafts[d].round \in Nat
    BY <1>2
  <2>3. ~(e > d) /\ ~(d > e)
    BY <1>3, <2>1, <2>2 DEF Thread
  <2> QED BY <2>1, <2>3
<1>4. IsFiniteSet(Rounds) /\ Cardinality(Rounds) = MaxDraftRounds - 1
  BY <1>1, FS_Interval
<1>5. roundOf \in [retried -> Rounds]
  BY <1>2
<1>6. roundOf \in Injection(retried, Rounds)
  BY <1>3, <1>5 DEF Injection, IsInjective
<1> HIDE DEF Rounds, roundOf
<1>8. IsFiniteSet(retried) /\ Cardinality(retried) <= Cardinality(Rounds)
  BY <1>4, <1>6, FS_Injection
<1>9. Cardinality(retried) \in Nat
  BY <1>8, FS_CardinalityType
<1> QED BY <1>1, <1>4, <1>8, <1>9 DEF LoopEnds

\* Types of the drafts, the requests about them and the agent that writes them
\* (store/drafts.go).
THEOREM DraftsTypes == DraftsSpec => []DraftsTypeOK
<1>1. DraftsInv => DraftsTypeOK
  BY DEF DraftsInv
<1> QED BY <1>1, DraftsInvariant, PTL

\* An approved draft was queued for sending, whatever was decided about it
\* meanwhile and wherever the process ended (store.ApproveDraft).
THEOREM DraftsApproved == DraftsSpec => []ApprovedWasQueued
<1>1. DraftsInv => ApprovedWasQueued
  BY DEF DraftsInv, RowsSound, ApprovedWasQueued
<1> QED BY <1>1, DraftsInvariant, PTL

\* As long as drafts neither overlap, share a second nor are decided twice, a
\* thread of rejections ends, and an agent sent back is told why
\* (store.nextDraftRound, PendingRejectionNote, handleRejectDraft).
THEOREM DraftsRejections == DraftsSpec => []RejectionsHold
<1>1. DraftsInv => RejectionsHold
  <2> SUFFICES ASSUME DraftsInv, ~muddled PROVE LoopEnds /\ ReasonTravels
    BY DEF RejectionsHold
  <2>1. Thread /\ ReasonTravels
    BY DEF DraftsInv, Orderly
  <2> QED BY <2>1, DraftsLoopEnds
<1> QED BY <1>1, DraftsInvariant, PTL

-----------------------------------------------------------------------------
(* The password and its sessions (Sessions). *)

\* No number above what was made; the code of use was never accepted.
CodesCounted ==
    /\ code.number <= made.codes
    /\ code.live => code.number >= 1 /\ code.number \notin accepted.once
    /\ \A n \in accepted.once : n <= made.codes
    /\ CodeOnce

\* Once a change is stored, nobody is still storing the first password.
ChangeStands == latest > 0 => password = latest /\ seeding = 0

\* The secret in use is newer than every secret a change met.
SecretsGrow ==
    /\ secret # NoKey => secret \notin revoked
    /\ secret <= made.secrets
    /\ \A k \in revoked : k <= made.secrets
    /\ \A k \in Changers : changer[k].met <= made.secrets
    /\ \A b \in Browsers : browser[b].at = "in" => browser[b].key # NoKey

SessionsInv == SessionsTypeOK /\ CodesCounted /\ ChangeStands /\ SecretsGrow

LEMMA SessionsInitInv == SessionsInit => SessionsInv
<1> SUFFICES ASSUME SessionsInit PROVE SessionsInv
  OBVIOUS
<1> USE SessionsAssumption DEF SessionsInit, SignedOut, NoChange
<1>1. SessionsTypeOK
  BY DEF SessionsTypeOK, Keys, NoKey
<1>2. CodesCounted /\ ChangeStands /\ SecretsGrow
  BY DEF CodesCounted, ChangeStands, SecretsGrow, NoKey, CodeOnce
<1> QED BY <1>1, <1>2 DEF SessionsInv

\* Every step keeps the types.
LEMMA SessionsStepType ==
    ASSUME SessionsInv, [SessionsNext]_sessionVars
    PROVE  SessionsTypeOK'
<1> USE SessionsAssumption DEF SessionsInv, SessionsTypeOK, Keys, NoKey
<1>1. ASSUME FindUnseeded PROVE SessionsTypeOK'
  BY <1>1 DEF FindUnseeded
<1>2. ASSUME StoreSeed PROVE SessionsTypeOK'
  BY <1>2 DEF StoreSeed
<1>3. ASSUME NEW b \in Browsers, Login(b) PROVE SessionsTypeOK'
  BY <1>3 DEF Login
<1>4. ASSUME NEW b \in Browsers, FindNoSecret(b) PROVE SessionsTypeOK'
  BY <1>4 DEF FindNoSecret
<1>5. ASSUME NEW b \in Browsers, FirstSecret(b) PROVE SessionsTypeOK'
  BY <1>5 DEF FirstSecret, Rotate
<1>6. ASSUME NEW b \in Browsers, SignSession(b) PROVE SessionsTypeOK'
  BY <1>6 DEF SignSession
<1>7. ASSUME NEW b \in Browsers, SignOut(b) PROVE SessionsTypeOK'
  BY <1>7 DEF SignOut, SignedOut
<1>8. ASSUME NEW k \in Changers, BeginChange(k) PROVE SessionsTypeOK'
  BY <1>8 DEF BeginChange, Begin
<1>9. ASSUME NEW k \in Changers, Recover(k) PROVE SessionsTypeOK'
  <2>1. code.number \in 1 .. MaxRecoveryCodes
    BY <1>9 DEF Recover, CodesCounted
  <2>2. code' \in [number : 0 .. MaxRecoveryCodes, live : BOOLEAN, tries : 0 .. RecoveryTries]
    <3>1. /\ code.number \in 0 .. MaxRecoveryCodes /\ code.tries \in Nat
          /\ code.tries < RecoveryTries
      BY <1>9 DEF Recover
    <3>2. code.tries + 1 \in 0 .. RecoveryTries
      BY <3>1
    <3>3. code' = [number |-> code.number, live |-> FALSE, tries |-> code.tries + 1]
      BY <1>9 DEF Recover, Spent
    <3> QED BY <3>1, <3>2, <3>3
  <2>3. accepted' \in [{"once", "twice"} -> SUBSET (1 .. MaxRecoveryCodes)]
    BY <1>9, <2>1 DEF Recover
  <2>4. /\ made' \in [secrets : 0 .. MaxSecrets, changes : 0 .. MaxChanges,
                      codes : 0 .. MaxRecoveryCodes]
        /\ changer' \in [Changers -> [at : {"idle", "begun", "stored"}, number : 0 .. MaxChanges,
                                      met : Keys]]
    BY <1>9 DEF Recover, Begin
  <2> QED BY <1>9, <2>2, <2>3, <2>4 DEF Recover
<1>10. ASSUME NEW k \in Changers, StoreHash(k) PROVE SessionsTypeOK'
  BY <1>10 DEF StoreHash
<1>11. ASSUME NEW k \in Changers, EndSessions(k) PROVE SessionsTypeOK'
  BY <1>11 DEF EndSessions, NewSecret, Rotate, NoChange
<1>12. ASSUME NEW k \in Changers, ChangeFails(k) PROVE SessionsTypeOK'
  BY <1>12 DEF ChangeFails, NoChange
<1>13. ASSUME GuessWrong PROVE SessionsTypeOK'
  <2>1. CASE code.tries < RecoveryTries
    BY <1>13, <2>1 DEF GuessWrong
  <2>2. CASE ~(code.tries < RecoveryTries)
    BY <1>13, <2>2 DEF GuessWrong, Spent
  <2> QED BY <2>1, <2>2
<1>14. ASSUME StartRecovery PROVE SessionsTypeOK'
  BY <1>14 DEF StartRecovery
<1>15. ASSUME PublishCode PROVE SessionsTypeOK'
  BY <1>15 DEF PublishCode
<1>16. ASSUME ExpireCode PROVE SessionsTypeOK'
  BY <1>16 DEF ExpireCode, Spent
<1>17. ASSUME SessionsRestart PROVE SessionsTypeOK'
  BY <1>17 DEF SessionsRestart, NoChange, SignedOut
<1>18. ASSUME UNCHANGED sessionVars PROVE SessionsTypeOK'
  BY <1>18 DEF sessionVars
<1> QED
  BY <1>1, <1>2, <1>3, <1>4, <1>5, <1>6, <1>7, <1>8, <1>9, <1>10, <1>11, <1>12, <1>13, <1>14,
     <1>15, <1>16, <1>17, <1>18 DEF SessionsNext

\* A code that leaves use never comes back; the next one has a new number.
LEMMA CodesCountedStep ==
    ASSUME SessionsInv, [SessionsNext]_sessionVars
    PROVE  CodesCounted'
<1> USE SessionsAssumption DEF SessionsInv, CodesCounted, CodeOnce
<1> DEFINE T == SessionsTypeOK
<1>1. ASSUME UNCHANGED <<code, accepted, made.codes>> PROVE CodesCounted'
  BY <1>1
<1>2. CASE \/ FindUnseeded \/ StoreSeed \/ StartRecovery \/ UNCHANGED sessionVars
           \/ \E b \in Browsers : Login(b) \/ FindNoSecret(b) \/ SignSession(b) \/ SignOut(b)
           \/ \E k \in Changers : StoreHash(k) \/ ChangeFails(k)
  BY <1>1, <1>2 DEF FindUnseeded, StoreSeed, StartRecovery, sessionVars, Login, FindNoSecret,
     SignSession, SignOut, StoreHash, ChangeFails
<1>3. CASE \/ \E b \in Browsers : FirstSecret(b)
           \/ \E k \in Changers : BeginChange(k) \/ EndSessions(k)
  BY <1>1, <1>3 DEF FirstSecret, BeginChange, Begin, EndSessions, SessionsTypeOK
<1>4. ASSUME NEW k \in Changers, Recover(k) PROVE CodesCounted'
  <2>1. code.number \notin accepted.once /\ code.number \in Nat /\ made.codes \in Nat
    BY <1>4 DEF Recover, SessionsTypeOK
  <2>2. /\ accepted'.once = accepted.once \cup {code.number} /\ accepted'.twice = accepted.twice
        /\ code'.number = code.number /\ ~code'.live /\ made'.codes = made.codes
    BY <1>4, <2>1 DEF Recover, Spent, Begin, SessionsTypeOK
  <2> QED BY <2>1, <2>2
<1>5. CASE GuessWrong \/ ExpireCode
  <2>1. code'.number = code.number /\ (code'.live => code.live)
    BY <1>5 DEF GuessWrong, ExpireCode, Spent, SessionsTypeOK
  <2>2. accepted' = accepted /\ made' = made
    BY <1>5 DEF GuessWrong, ExpireCode
  <2> QED BY <2>1, <2>2
<1>6. CASE PublishCode
  <2>1. /\ accepted' = accepted /\ made'.codes = made.codes + 1 /\ code'.number = made.codes + 1
        /\ made.codes \in Nat /\ accepted.once \subseteq Nat
    BY <1>6 DEF PublishCode, SessionsTypeOK
  <2> QED BY <2>1
<1>7. CASE SessionsRestart
  <2>1. /\ accepted' = accepted /\ made' = made /\ code'.number = 0 /\ ~code'.live
        /\ made.codes \in Nat
    BY <1>7 DEF SessionsRestart, SessionsTypeOK
  <2> QED BY <2>1
<1> QED BY <1>2, <1>3, <1>4, <1>5, <1>6, <1>7 DEF SessionsNext

LEMMA ChangeStandsStep ==
    ASSUME SessionsInv, [SessionsNext]_sessionVars
    PROVE  ChangeStands'
<1> USE SessionsAssumption DEF SessionsInv, ChangeStands
<1>1. ASSUME UNCHANGED <<latest, password, seeding>> PROVE ChangeStands'
  BY <1>1
<1>2. CASE \/ StartRecovery \/ PublishCode \/ ExpireCode \/ GuessWrong \/ UNCHANGED sessionVars
           \/ \E b \in Browsers : \/ Login(b) \/ FindNoSecret(b) \/ FirstSecret(b)
                                  \/ SignSession(b) \/ SignOut(b)
           \/ \E k \in Changers : BeginChange(k) \/ Recover(k) \/ EndSessions(k) \/ ChangeFails(k)
  BY <1>1, <1>2 DEF StartRecovery, PublishCode, ExpireCode, GuessWrong, sessionVars, Login,
     FindNoSecret, FirstSecret, SignSession, SignOut, BeginChange, Recover, EndSessions, ChangeFails
<1>3. CASE FindUnseeded \/ StoreSeed
  BY <1>3 DEF FindUnseeded, Unseeded, StoreSeed, SessionsTypeOK, NoKey
<1>4. ASSUME NEW k \in Changers, StoreHash(k) PROVE ChangeStands'
  BY <1>4 DEF StoreHash, SessionsTypeOK
<1>5. CASE SessionsRestart
  BY <1>5 DEF SessionsRestart
<1> QED BY <1>2, <1>3, <1>4, <1>5 DEF SessionsNext

LEMMA SecretsGrowStep ==
    ASSUME SessionsInv, [SessionsNext]_sessionVars
    PROVE  SecretsGrow'
<1> USE SessionsAssumption DEF SessionsInv, SecretsGrow
<1>1. ASSUME UNCHANGED <<secret, revoked, made.secrets, changer, browser>> PROVE SecretsGrow'
  BY <1>1
<1>2. CASE FindUnseeded \/ StoreSeed \/ StartRecovery \/ ExpireCode \/ GuessWrong
           \/ UNCHANGED sessionVars
  BY <1>1, <1>2 DEF FindUnseeded, StoreSeed, StartRecovery, ExpireCode, GuessWrong, sessionVars
<1>3. CASE PublishCode
  BY <1>1, <1>3 DEF PublishCode, SessionsTypeOK
<1>4. ASSUME NEW b \in Browsers, Login(b) \/ FindNoSecret(b) \/ SignSession(b) \/ SignOut(b)
      PROVE  SecretsGrow'
  <2>1. UNCHANGED <<secret, revoked, made, changer>>
    BY <1>4 DEF Login, FindNoSecret, SignSession, SignOut
  <2>2. \A c \in Browsers : browser'[c].at = "in" => browser'[c].key # NoKey
    BY <1>4 DEF Login, FindNoSecret, SignSession, SignOut, SignedOut, SessionsTypeOK
  <2> QED BY <2>1, <2>2
<1>5. ASSUME NEW b \in Browsers, FirstSecret(b) PROVE SecretsGrow'
  <2>1. /\ secret' = made.secrets + 1 /\ made'.secrets = made.secrets + 1 /\ made.secrets \in Nat
        /\ UNCHANGED <<revoked, changer>>
    BY <1>5 DEF FirstSecret, Rotate, SessionsTypeOK
  <2>2. \A c \in Browsers : browser'[c].at = "in" => browser'[c].key # NoKey
    BY <1>5 DEF FirstSecret, SessionsTypeOK
  <2>3. revoked \subseteq Int /\ \A k \in Changers : changer[k].met \in Int
    BY DEF SessionsTypeOK, Keys, NoKey
  <2> QED BY <2>1, <2>2, <2>3
<1>6. ASSUME NEW k \in Changers, BeginChange(k) \/ Recover(k) PROVE SecretsGrow'
  <2>1. UNCHANGED <<secret, revoked, browser>> /\ made'.secrets = made.secrets
    BY <1>6 DEF BeginChange, Recover, Begin, SessionsTypeOK
  <2>2. \A i \in Changers : changer'[i].met \in {changer[i].met, secret}
    <3>1. Begin(k)
      BY <1>6 DEF BeginChange, Recover
    <3>2. changer' = [changer EXCEPT ![k] =
                         [at |-> "begun", number |-> made.changes + 1, met |-> secret]]
      BY <3>1 DEF Begin
    <3> QED BY <3>2 DEF SessionsTypeOK
  <2> QED BY <2>1, <2>2
<1>7. ASSUME NEW k \in Changers, StoreHash(k) PROVE SecretsGrow'
  <2>1. UNCHANGED <<secret, revoked, browser, made>>
    BY <1>7 DEF StoreHash
  <2>2. \A i \in Changers : changer'[i].met = changer[i].met
    BY <1>7 DEF StoreHash, SessionsTypeOK
  <2> QED BY <2>1, <2>2
<1>8. ASSUME NEW k \in Changers, EndSessions(k) PROVE SecretsGrow'
  <2>1. /\ secret' = made.secrets + 1 /\ made'.secrets = made.secrets + 1 /\ made.secrets \in Nat
        /\ browser' = browser
    BY <1>8 DEF EndSessions, NewSecret, Rotate, SessionsTypeOK
  <2>2. revoked' = revoked \cup {changer[k].met}
    BY <1>8 DEF EndSessions
  <2>3. \A i \in Changers : changer'[i].met \in {changer[i].met, NoKey}
    BY <1>8 DEF EndSessions, NoChange, SessionsTypeOK
  <2>4. revoked \subseteq Int /\ \A i \in Changers : changer[i].met \in Int
    BY DEF SessionsTypeOK, Keys, NoKey
  <2> QED BY <2>1, <2>2, <2>3, <2>4 DEF NoKey
<1>9. ASSUME NEW k \in Changers, ChangeFails(k) PROVE SecretsGrow'
  <2>1. UNCHANGED <<secret, revoked, browser, made>>
    BY <1>9 DEF ChangeFails
  <2>2. \A i \in Changers : changer'[i].met \in {changer[i].met, NoKey}
    BY <1>9 DEF ChangeFails, NoChange, SessionsTypeOK
  <2> QED BY <2>1, <2>2 DEF NoKey, SessionsTypeOK
<1>10. CASE SessionsRestart
  <2>1. UNCHANGED <<secret, revoked, made>>
    BY <1>10 DEF SessionsRestart
  <2>2. \A i \in Changers : changer'[i].met = NoKey
    BY <1>10 DEF SessionsRestart, NoChange
  <2>3. \A c \in Browsers : browser'[c].at = "in" => browser'[c].key # NoKey
    BY <1>10 DEF SessionsRestart, SignedOut
  <2>4. made.secrets \in Nat
    BY DEF SessionsTypeOK
  <2> QED BY <2>1, <2>2, <2>3, <2>4 DEF NoKey
<1> QED BY <1>2, <1>3, <1>4, <1>5, <1>6, <1>7, <1>8, <1>9, <1>10 DEF SessionsNext

LEMMA SessionsInvariant == SessionsSpec => []SessionsInv
<1>1. ASSUME SessionsInv, [SessionsNext]_sessionVars PROVE SessionsInv'
  BY <1>1, SessionsStepType, CodesCountedStep, ChangeStandsStep, SecretsGrowStep DEF SessionsInv
<1> QED BY <1>1, SessionsInitInv, PTL DEF SessionsSpec

\* Types of the password, the secrets and the recovery codes, for any number of
\* browsers and requests (login.go, recovery.go).
THEOREM SessionsTypes == SessionsSpec => []SessionsTypeOK
<1>1. SessionsInv => SessionsTypeOK
  BY DEF SessionsInv
<1> QED BY <1>1, SessionsInvariant, PTL

\* A change of password stands, ends every session there was, and a recovery
\* code is good for one, however many requests come at a time
\* (handleChangePassword, handleRecoverVerify, consumeRecoveryCode).
THEOREM SessionsChangeHolds == SessionsSpec => []ChangeHolds
<1>1. SessionsInv => ChangeHolds
  <2> SUFFICES ASSUME SessionsInv PROVE ChangeHolds
    OBVIOUS
  <2>1. PasswordStands /\ CodeOnce
    BY DEF SessionsInv, ChangeStands, PasswordStands, CodesCounted
  <2>2. ChangeEndsSessions
    BY DEF SessionsInv, SecretsGrow, ChangeEndsSessions, ValidSession
  <2> QED BY <2>1, <2>2 DEF ChangeHolds
<1> QED BY <1>1, SessionsInvariant, PTL

-----------------------------------------------------------------------------
(* Session backups (Backup). *)

\* A step takes none of the newest backups away and adds none that is not whole.
KeepsBaks == Retained \subseteq Baks' /\ \A f \in Baks' \ Baks : f.whole

\* Only rotate has something to remove.
RotateRemoves == runner.at # "rotate" => runner.surplus = {}

\* Enough newer backups stay for each one to be removed.
Newer(f) == {g \in Baks : g.name > f.name}
Staying(f) == {g \in Baks \ runner.surplus : g.name > f.name}
SurplusOld == \A f \in runner.surplus : Cardinality(Staying(f)) >= Keep

\* The counters and what is not written back.
Counted ==
    /\ begun \in 0 .. MaxBackups /\ dirty \subseteq 1 .. begun
    /\ cuts \in 0 .. MaxCuts /\ blackouts \in 0 .. MaxBlackouts

BackupStages == {"waiting", "vacuum", "encrypt", "write", "rename", "list", "rotate"}

Runner == [at : BackupStages, name : 0 .. MaxBackups, surplus : SUBSET File]

\* A run under way has drawn a name.
NamesDrawn == runner.at # "waiting" => runner.name \in 1 .. begun

BackupInv == BackupTypeOK /\ runner \in Runner /\ NamesDrawn /\ IsFiniteSet(files) /\ RotateRemoves /\ SurplusOld

\* A set of numbers up to a limit has a largest one.
LEMMA LargestName ==
    ASSUME NEW max \in Nat, NEW S \in SUBSET (0 .. max), S # {}
    PROVE  \E m \in S : \A n \in S : n <= m
<1> DEFINE T == {max - n : n \in S}
           R == {p \in Nat \X Nat : p[1] < p[2]}
<1>1. T \subseteq Nat
  OBVIOUS
<1>2. T # {}
  <2>1. PICK n \in S : TRUE
    OBVIOUS
  <2>2. max - n \in T
    OBVIOUS
  <2> QED BY <2>2
<1>3. IsWellFoundedOn(R, Nat)
  BY NatLessThanWellFounded, Zenon DEF OpToRel
<1>4. \A i, j \in Nat : i < j => <<i, j>> \in R
  OBVIOUS
<1>5. \A n \in S : max - n \in T
  OBVIOUS
<1>6. \A t \in T : \E m \in S : t = max - m
  OBVIOUS
<1> HIDE DEF T, R
<1>7. PICK t \in T : \A u \in T : ~(<<u, t>> \in R)
  BY <1>1, <1>2, <1>3, WFMin
<1>8. PICK m \in S : t = max - m
  BY <1>6
<1>9. ASSUME NEW n \in S PROVE n <= m
  <2>1. ~(max - n < t)
    BY <1>1, <1>4, <1>5, <1>7
  <2> QED BY <2>1, <1>8
<1> QED BY <1>9

LEMMA FilesOf ==
    ASSUME BackupInv
    PROVE  /\ files \subseteq File /\ IsFiniteSet(files) /\ IsFiniteSet(Baks)
           /\ \A f \in Baks : f \in files /\ f \in File /\ f.name \in 1 .. MaxBackups
           /\ begun \in 0 .. MaxBackups /\ dirty \subseteq 1 .. begun
           /\ runner.name \in 0 .. MaxBackups
           /\ runner.surplus \subseteq File
<1>1. files \subseteq File /\ IsFiniteSet(files)
  BY DEF BackupInv, BackupTypeOK
<1>2. Baks \subseteq files
  BY DEF Baks
<1>3. IsFiniteSet(Baks)
  BY <1>1, <1>2, FS_Subset
<1> QED BY <1>1, <1>2, <1>3 DEF BackupInv, BackupTypeOK, File

\* What is taken for surplus has Keep newer backups that are not: those newer
\* than the newest of the surplus.
LEMMA SurplusIsOld ==
    ASSUME BackupInv, NEW S, S = {f \in Baks : Surplus(f)}, NEW f \in S
    PROVE  Cardinality({g \in Baks \ S : g.name > f.name}) >= Keep
<1> USE BackupAssumption
<1>1. \A g \in Baks : g.name \in 1 .. MaxBackups
  BY FilesOf
<1> DEFINE Names == {g.name : g \in S}
<1>2. Names \in SUBSET (0 .. MaxBackups) /\ f.name \in Names
  BY <1>1
<1>3. PICK m \in Names : \A n \in Names : n <= m
  BY <1>2, LargestName, BackupAssumption
<1>4. PICK newest \in S : newest.name = m
  OBVIOUS
<1>5. \A g \in S : g.name <= newest.name
  BY <1>3, <1>4
<1> DEFINE A == {g \in Baks : g.name > newest.name}
           B == {g \in Baks \ S : g.name > f.name}
<1>6. A \subseteq B
  <2> SUFFICES ASSUME NEW g \in Baks, g.name > newest.name PROVE g \notin S /\ g.name > f.name
    OBVIOUS
  <2>1. g.name \in Nat /\ newest.name \in Nat /\ f.name \in Nat /\ f.name <= newest.name
    BY <1>1, <1>5
  <2> QED BY <2>1, <1>5
<1>7. IsFiniteSet(B)
  <2>1. B \subseteq Baks
    OBVIOUS
  <2> QED BY <2>1, FilesOf, FS_Subset
<1>8. Cardinality(A) >= Keep
  BY <1>4 DEF Surplus
<1> HIDE DEF A, B
<1>9. Cardinality(A) <= Cardinality(B) /\ Cardinality(B) \in Nat /\ Cardinality(A) \in Nat
  BY <1>6, <1>7, FS_Subset, FS_CardinalityType
<1>10. Cardinality(B) >= Keep
  BY <1>8, <1>9
<1> QED BY <1>10 DEF B

\* What is removed is none of the Keep newest.
LEMMA SurplusNotRetained ==
    ASSUME BackupInv, NEW f \in runner.surplus
    PROVE  f \notin Retained
<1> USE BackupAssumption
<1> DEFINE A == {g \in Baks \ runner.surplus : g.name > f.name}
           B == {g \in Baks : g.name > f.name}
<1>1. A \subseteq B /\ B \subseteq Baks
  OBVIOUS
<1>2. Cardinality(A) >= Keep
  BY DEF BackupInv, SurplusOld, Staying
<1>3. f \in Retained => Cardinality(B) < Keep
  BY DEF Retained
<1> HIDE DEF A, B
<1>4. IsFiniteSet(B)
  BY <1>1, FilesOf, FS_Subset
<1>5. Cardinality(A) <= Cardinality(B) /\ Cardinality(B) \in Nat /\ Cardinality(A) \in Nat
  BY <1>1, <1>4, FS_Subset, FS_CardinalityType
<1> QED BY <1>2, <1>3, <1>5

LEMMA BackupInitInv == BackupInit => BackupInv
<1> SUFFICES ASSUME BackupInit PROVE BackupInv
  OBVIOUS
<1> USE BackupAssumption DEF BackupInit
<1>1. runner.at = "waiting" /\ runner.name = 0 /\ runner.surplus = {}
  BY DEF Waiting
<1>2. BackupTypeOK
  BY <1>1 DEF BackupTypeOK
<1>4. runner \in Runner /\ NamesDrawn
  BY DEF Waiting, Runner, BackupStages, NamesDrawn
<1>3. IsFiniteSet(files) /\ RotateRemoves /\ SurplusOld
  BY <1>1, FS_EmptySet DEF RotateRemoves, SurplusOld
<1> QED BY <1>2, <1>3, <1>4 DEF BackupInv

\* A step that takes no backup away and leaves nothing to remove keeps all of it.
LEMMA GrowingInv ==
    ASSUME BackupInv, NEW gone, NEW come \in SUBSET File,
           files' = (files \ gone) \cup come, IsFiniteSet(files'),
           \A f \in gone : f.kind # "bak",
           \A f \in come : f.kind = "bak" => f.whole,
           runner' \in Runner, runner'.surplus = {},
           NamesDrawn', Counted'
    PROVE  BackupInv' /\ KeepsBaks
<1>1. files' \subseteq File
  BY FilesOf
<1>2. BackupTypeOK'
  BY <1>1 DEF BackupTypeOK, Runner, BackupStages, Counted
<1>3. \A f \in Baks' \ Baks : f.whole
  BY DEF Baks
<1>4. RotateRemoves' /\ SurplusOld'
  BY DEF RotateRemoves, SurplusOld
<1>5. Baks \subseteq Baks'
  BY DEF Baks
<1>6. Retained \subseteq Baks
  BY DEF Retained
<1> QED BY <1>2, <1>3, <1>4, <1>5, <1>6 DEF BackupInv, KeepsBaks

LEMMA GoesTo ==
    ASSUME BackupInv, NEW from, NEW to \in BackupStages, from # "rotate", Goes(from, to)
    PROVE  runner' \in Runner /\ runner'.surplus = {} /\ runner'.name = runner.name
<1>1. runner \in Runner /\ runner.surplus = {}
  BY DEF BackupInv, RotateRemoves, Goes
<1>2. runner' = [runner EXCEPT !.at = to]
  BY DEF Goes
<1> QED BY <1>1, <1>2 DEF Runner

\* A file of the runner's, once it has a name.
LEMMA MineFile ==
    ASSUME BackupInv, runner.at \in BackupStages \ {"waiting"}, NEW kind \in Kinds, NEW w \in BOOLEAN
    PROVE  Mine(kind, w) \in File /\ Mine(kind, w).kind = kind /\ Mine(kind, w).whole = w
<1>1. runner.name \in 1 .. MaxBackups
  BY BackupAssumption DEF BackupInv, NamesDrawn, Runner
<1> QED BY <1>1 DEF Mine, File

\* One file replaces another, which is no backup.
LEMMA ReplaceInv ==
    ASSUME BackupInv, NEW from \in BackupStages \ {"waiting", "rotate"},
           NEW to \in BackupStages \ {"waiting"}, Goes(from, to),
           NEW kind, kind \in {"snapshot", "partial"}, NEW new \in Kinds,
           NEW gone, gone \subseteq {Mine(kind, w) : w \in BOOLEAN}, IsFiniteSet(files \ gone),
           NEW w \in BOOLEAN, new = "bak" => w,
           files' = (files \ gone) \cup {Mine(new, w)}, begun' = begun, Counted'
    PROVE  BackupInv' /\ KeepsBaks
<1>0. runner.at = from
  BY DEF Goes
<1>1. Mine(new, w) \in File /\ Mine(new, w).kind = new /\ Mine(new, w).whole = w
  BY <1>0, MineFile
<1>2. \A f \in gone : f.kind # "bak"
  BY DEF Mine
<1>3. IsFiniteSet(files')
  BY FS_AddElement
<1>4. runner' \in Runner /\ runner'.surplus = {} /\ runner'.name = runner.name
  BY GoesTo
<1>6. NamesDrawn'
  BY <1>0, <1>4 DEF BackupInv, NamesDrawn
<1> DEFINE come == {Mine(new, w)}
<1>7. come \in SUBSET File /\ files' = (files \ gone) \cup come
      /\ \A f \in come : f.kind = "bak" => f.whole
  BY <1>1
<1> HIDE DEF come
<1> QED BY <1>2, <1>3, <1>4, <1>6, <1>7, GrowingInv

\* BackupNow returns: only its snapshot goes.
LEMMA ReturnsInv ==
    ASSUME BackupInv, Returns, UNCHANGED <<begun, dirty, cuts, blackouts>>
    PROVE  BackupInv' /\ KeepsBaks
<1> DEFINE gone == {Mine("snapshot", w) : w \in BOOLEAN}
<1>1. files' = (files \ gone) \cup {} /\ runner' = Waiting
  BY DEF Returns
<1>2. \A f \in gone : f.kind # "bak"
  BY DEF Mine
<1> HIDE DEF gone
<1>3. files' \subseteq files
  BY <1>1
<1>4. IsFiniteSet(files')
  BY <1>3, FilesOf, FS_Subset
<1>5. runner' \in Runner /\ runner'.surplus = {} /\ NamesDrawn'
  BY <1>1, BackupAssumption DEF Waiting, Runner, BackupStages, NamesDrawn
<1>6. Counted'
  BY DEF BackupInv, BackupTypeOK, Counted
<1> QED BY <1>1, <1>2, <1>4, <1>5, <1>6, GrowingInv

\* One removal, done or failed, leaves what it does not take.
LEMMA RemoveInv ==
    ASSUME BackupInv, NEW f \in runner.surplus, NEW ok \in BOOLEAN, Remove(f, ok)
    PROVE  BackupInv' /\ KeepsBaks
<1>1. /\ runner.at = "rotate" /\ runner' = [runner EXCEPT !.surplus = @ \ {f}]
      /\ files' = (IF ok THEN files \ {f} ELSE files) /\ UNCHANGED <<begun, dirty, cuts, blackouts>>
      /\ runner \in Runner
  BY DEF Remove, BackupInv
<1>2. /\ runner' \in Runner /\ runner'.at = "rotate" /\ runner'.surplus = runner.surplus \ {f}
      /\ runner'.name = runner.name
  BY <1>1 DEF Runner
<1>3. files' \subseteq files /\ files \ {f} \subseteq files'
  BY <1>1
<1>4. IsFiniteSet(files') /\ files' \subseteq File
  BY <1>3, FilesOf, FS_Subset
<1>5. Baks' \subseteq Baks /\ Baks \ {f} \subseteq Baks'
  BY <1>3 DEF Baks
<1>6. BackupTypeOK' /\ NamesDrawn'
  BY <1>1, <1>2, <1>4 DEF BackupInv, BackupTypeOK, Runner, BackupStages, NamesDrawn
<1>7. RotateRemoves'
  BY <1>2 DEF RotateRemoves
<1>8. SurplusOld'
  <2> SUFFICES ASSUME NEW h \in runner'.surplus PROVE Cardinality(Staying(h))' >= Keep
    BY DEF SurplusOld
  <2> DEFINE A == {g \in Baks \ runner.surplus : g.name > h.name}
             B == {g \in Baks' \ runner'.surplus : g.name > h.name}
  <2>1. A \subseteq B /\ B \subseteq Baks
    BY <1>2, <1>5
  <2>2. Cardinality(A) >= Keep
    BY <1>2 DEF BackupInv, SurplusOld, Staying
  <2>3. Cardinality(Staying(h))' = Cardinality(B)
    BY DEF Staying
  <2> HIDE DEF A, B
  <2>4. IsFiniteSet(B)
    BY <2>1, FilesOf, FS_Subset
  <2>5. Cardinality(A) <= Cardinality(B) /\ Cardinality(B) \in Nat /\ Cardinality(A) \in Nat
    BY <2>1, <2>4, FS_Subset, FS_CardinalityType
  <2> QED BY <2>2, <2>3, <2>5, BackupAssumption
<1>9. KeepsBaks
  <2>1. Retained \subseteq Baks
    BY DEF Retained
  <2> QED BY <2>1, <1>5, SurplusNotRetained DEF KeepsBaks
<1> QED BY <1>2, <1>4, <1>6, <1>7, <1>8, <1>9 DEF BackupInv

LEMMA ListInv ==
    ASSUME BackupInv, List
    PROVE  BackupInv' /\ KeepsBaks
<1> DEFINE S == {f \in Baks : Surplus(f)}
<1>1. runner' = [runner EXCEPT !.at = "rotate", !.surplus = S] /\ UNCHANGED <<files, begun, dirty, cuts, blackouts>>
      /\ runner \in Runner /\ S \subseteq File /\ runner.at = "list"
  BY FilesOf DEF List, BackupInv
<1>2. \A f \in S : Cardinality({g \in Baks \ S : g.name > f.name}) >= Keep
  BY SurplusIsOld
<1> HIDE DEF S
<1>3. runner' \in Runner /\ runner'.at = "rotate" /\ runner'.surplus = S /\ runner'.name = runner.name
  BY <1>1 DEF Runner, BackupStages
<1>4. Baks' = Baks
  BY <1>1 DEF Baks
<1>5. BackupTypeOK' /\ NamesDrawn'
  BY <1>1, <1>3 DEF BackupInv, BackupTypeOK, Runner, BackupStages, NamesDrawn
<1>6. IsFiniteSet(files)' /\ RotateRemoves' /\ SurplusOld'
  BY <1>1, <1>2, <1>3, <1>4 DEF BackupInv, RotateRemoves, SurplusOld, Staying
<1>7. KeepsBaks
  BY <1>4 DEF Retained, KeepsBaks
<1> QED BY <1>3, <1>5, <1>6, <1>7 DEF BackupInv

LEMMA SnapshotInv ==
    ASSUME BackupInv, Snapshot
    PROVE  BackupInv' /\ KeepsBaks
<1> DEFINE new == [kind |-> "snapshot", name |-> begun + 1, whole |-> FALSE]
           come == {new}
<1>1. /\ begun < MaxBackups /\ begun' = begun + 1
      /\ runner' = [at |-> "vacuum", name |-> begun + 1, surplus |-> {}]
      /\ files' = files \cup {new} /\ UNCHANGED <<dirty, cuts, blackouts>>
  BY DEF Snapshot
<1>2. begun + 1 \in 1 .. MaxBackups
  BY <1>1, FilesOf, BackupAssumption
<1>3. new \in File /\ new.kind = "snapshot"
  BY <1>2 DEF File, Kinds
<1>4. IsFiniteSet(files')
  BY <1>1, FilesOf, FS_AddElement
<1>5. runner' \in Runner /\ runner'.surplus = {} /\ NamesDrawn'
  BY <1>1, <1>2 DEF Runner, BackupStages, NamesDrawn
<1>6. Counted'
  BY <1>1, <1>2 DEF BackupInv, BackupTypeOK, Counted
<1>7. files' = (files \ {}) \cup come
  BY <1>1
<1>8. come \in SUBSET File /\ \A f \in come : f.kind = "bak" => f.whole
  BY <1>3
<1> HIDE DEF come, new
<1> QED BY <1>4, <1>5, <1>6, <1>7, <1>8, GrowingInv

LEMMA CutInv ==
    ASSUME BackupInv, Cut
    PROVE  BackupInv' /\ KeepsBaks
<1>1. cuts < MaxCuts /\ cuts' = cuts + 1 /\ runner' = Waiting
      /\ UNCHANGED <<files, begun, dirty, blackouts>>
  BY DEF Cut
<1>2. runner' \in Runner /\ runner'.surplus = {} /\ NamesDrawn'
  BY <1>1, BackupAssumption DEF Waiting, Runner, BackupStages, NamesDrawn
<1>3. Counted'
  BY <1>1, BackupAssumption DEF BackupInv, BackupTypeOK, Counted
<1>4. files' = (files \ {}) \cup {} /\ IsFiniteSet(files')
  BY <1>1, FilesOf
<1> QED BY <1>2, <1>3, <1>4, GrowingInv

\* Writing back changes no file.
LEMMA FlushInv ==
    ASSUME BackupInv, NEW n \in dirty, Flush(n)
    PROVE  BackupInv' /\ KeepsBaks
<1>1. dirty' = dirty \ {n} /\ UNCHANGED <<files, runner, begun, cuts, blackouts>>
  BY DEF Flush
<1>2. Baks' = Baks
  BY <1>1 DEF Baks
<1>3. KeepsBaks
  BY <1>2 DEF KeepsBaks, Retained
<1>4. BackupTypeOK'
  BY <1>1 DEF BackupInv, BackupTypeOK
<1> QED BY <1>1, <1>2, <1>3, <1>4 DEF BackupInv, NamesDrawn, RotateRemoves, SurplusOld, Staying

\* A power failure spoils or takes only what was not written back.
LEMMA PowerInv ==
    ASSUME BackupInv, NEW torn \in SUBSET dirty, NEW undone \in SUBSET dirty, PowerFails(torn, undone)
    PROVE  /\ BackupInv' /\ blackouts' # blackouts
           /\ \A f \in Baks' \ Baks : f.whole \/ f.name \in dirty
           /\ \A f \in Retained : f \in Baks' \/ f.name \in dirty
<1> USE BackupAssumption
<1>1. /\ blackouts < MaxBlackouts /\ blackouts' = blackouts + 1
      /\ files' = {Left(f, torn, undone) : f \in files}
      /\ runner' = Waiting /\ dirty' = {} /\ UNCHANGED <<begun, cuts>>
  BY DEF PowerFails
<1>2. ASSUME NEW f \in files
      PROVE  /\ Left(f, torn, undone) \in File /\ Left(f, torn, undone).name = f.name
             /\ Left(f, torn, undone).kind = "bak" => f.kind = "bak"
             /\ f.name \notin dirty => Left(f, torn, undone) = f
  <2>1. f \in File
    BY FilesOf
  <2>2. f = [kind |-> f.kind, name |-> f.name, whole |-> f.whole]
    BY <2>1 DEF File
  <2>3. Left(f, torn, undone).kind \in Kinds
    BY <2>1 DEF Left, File, Kinds
  <2>4. Left(f, torn, undone).whole \in BOOLEAN
    BY <2>1, Zenon DEF Left, File
  <2>5. Left(f, torn, undone) \in File
    BY <2>1, <2>3, <2>4, Zenon DEF Left, File
  <2>6. f.name \notin dirty => Left(f, torn, undone) = f
    <3> SUFFICES ASSUME f.name \notin dirty PROVE Left(f, torn, undone) = f
      OBVIOUS
    <3>1. f.name \notin torn /\ f.name \notin undone
      OBVIOUS
    <3>2. f.whole /\ f.name \notin torn <=> f.whole
      BY <3>1
    <3>3. (f.whole /\ f.name \notin torn) = f.whole
      BY <2>1, <3>2, Zenon DEF File
    <3>4. Left(f, torn, undone) = [kind |-> f.kind, name |-> f.name, whole |-> f.whole]
      BY <3>1, <3>3, Zenon DEF Left
    <3> QED BY <2>2, <3>4
  <2>7. Left(f, torn, undone).name = f.name /\ (Left(f, torn, undone).kind = "bak" => f.kind = "bak")
    BY DEF Left
  <2> QED BY <2>5, <2>6, <2>7
<1>3. IsFiniteSet(files')
  <2> DEFINE left == [f \in files |-> Left(f, torn, undone)]
  <2>1. left \in Surjection(files, files')
    <3>1. left \in [files -> files']
      BY <1>1
    <3>2. \A g \in files' : \E f \in files : left[f] = g
      BY <1>1
    <3> HIDE DEF left
    <3> QED BY <3>1, <3>2 DEF Surjection
  <2> HIDE DEF left
  <2> QED BY <2>1, FS_Surjection, FilesOf
<1>4. files' \subseteq File
  BY <1>1, <1>2
<1>5. runner' \in Runner /\ runner'.at = "waiting" /\ runner'.surplus = {}
  BY <1>1 DEF Waiting, Runner, BackupStages
<1>6. BackupTypeOK'
  BY <1>1, <1>4, <1>5 DEF BackupInv, BackupTypeOK, Runner, BackupStages
<1>7. BackupInv'
  BY <1>3, <1>5, <1>6 DEF BackupInv, NamesDrawn, RotateRemoves, SurplusOld
<1>8. blackouts' # blackouts
  BY <1>1 DEF BackupInv, BackupTypeOK
<1>9. ASSUME NEW g \in Baks' \ Baks PROVE g.name \in dirty
  <2>1. PICK f \in files : g = Left(f, torn, undone)
    BY <1>1 DEF Baks
  <2>2. g.kind = "bak"
    BY DEF Baks
  <2> QED BY <2>1, <2>2, <1>2 DEF Baks
<1>10. ASSUME NEW f \in Retained PROVE f \in Baks' \/ f.name \in dirty
  <2>1. f \in files /\ f.kind = "bak"
    BY DEF Retained, Baks
  <2> QED BY <1>1, <1>2, <2>1 DEF Baks
<1> QED BY <1>7, <1>8, <1>9, <1>10

\* The four steps of one run of BackupNow that end well.
LEMMA WorkInv ==
    ASSUME BackupInv, Vacuumed \/ WriteFile \/ WriteDone \/ Rename
    PROVE  BackupInv' /\ KeepsBaks
<1>1. \A gone : IsFiniteSet(files \ gone)
  BY FilesOf, FS_Difference
<1>6. (UNCHANGED <<begun, dirty, cuts, blackouts>>) => Counted'
  BY DEF BackupInv, BackupTypeOK, Counted
<1>2. CASE Vacuumed
  <2>1. Goes("vacuum", "encrypt") /\ begun' = begun /\ Counted'
        /\ files' = (files \ {Mine("snapshot", FALSE)}) \cup {Mine("snapshot", TRUE)}
    BY <1>2, <1>6 DEF Vacuumed
  <2>2. {Mine("snapshot", FALSE)} \subseteq {Mine("snapshot", w) : w \in BOOLEAN}
    OBVIOUS
  <2> QED BY <2>1, <2>2, <1>1, ReplaceInv DEF BackupStages, Kinds
<1>3. CASE WriteFile
  <2>1. Goes("encrypt", "write") /\ files' = (files \ {}) \cup {Mine("partial", FALSE)}
        /\ dirty' = dirty \cup {runner.name} /\ UNCHANGED <<begun, cuts, blackouts>>
    BY <1>3 DEF WriteFile, WriteKind
  <2>2. runner.name \in 1 .. begun
    BY <2>1 DEF Goes, BackupInv, NamesDrawn, Runner
  <2>3. Counted'
    BY <2>1, <2>2 DEF BackupInv, BackupTypeOK, Counted
  <2> QED BY <2>1, <2>3, <1>1, ReplaceInv DEF BackupStages, Kinds
<1>4. CASE WriteDone
  <2>1. Goes("write", "rename") /\ begun' = begun /\ Counted'
        /\ files' = (files \ {Mine("partial", FALSE)}) \cup {Mine("partial", TRUE)}
    BY <1>4, <1>6 DEF WriteDone, WriteKind
  <2>2. {Mine("partial", FALSE)} \subseteq {Mine("partial", w) : w \in BOOLEAN}
    OBVIOUS
  <2> QED BY <2>1, <2>2, <1>1, ReplaceInv DEF BackupStages, Kinds
<1>5. CASE Rename
  <2>1. Goes("rename", "list") /\ begun' = begun /\ Counted'
        /\ files' = (files \ {Mine("partial", TRUE)}) \cup {Mine("bak", TRUE)}
    BY <1>5, <1>6 DEF Rename, WriteKind
  <2>2. {Mine("partial", TRUE)} \subseteq {Mine("partial", w) : w \in BOOLEAN}
    OBVIOUS
  <2> QED BY <2>1, <2>2, <1>1, ReplaceInv DEF BackupStages, Kinds
<1> QED BY <1>2, <1>3, <1>4, <1>5

\* What BackupsStand asks of a step.
Stands ==
    /\ \A f \in Baks' \ Baks : f.whole \/ (blackouts' # blackouts /\ f.name \in dirty)
    /\ \A f \in Retained : f \in Baks' \/ (blackouts' # blackouts /\ f.name \in dirty)

LEMMA BackupStepInv ==
    ASSUME BackupInv, [BackupNext]_backupVars
    PROVE  BackupInv' /\ Stands
<1>1. CASE UNCHANGED backupVars
  <2>1. UNCHANGED <<files, runner, begun, dirty, cuts, blackouts>>
    BY <1>1 DEF backupVars
  <2>2. Baks' = Baks
    BY <2>1 DEF Baks
  <2>3. BackupTypeOK'
    BY <2>1 DEF BackupInv, BackupTypeOK
  <2>4. Stands
    BY <2>2 DEF Retained, Stands
  <2> QED BY <2>1, <2>2, <2>3, <2>4 DEF BackupInv, RotateRemoves, SurplusOld, Staying, NamesDrawn
<1>2. CASE Done \/ Fails
  BY <1>2, ReturnsInv DEF Done, Fails, KeepsBaks, Stands
<1>3. ASSUME NEW torn \in SUBSET dirty, NEW undone \in SUBSET dirty, PowerFails(torn, undone)
      PROVE  BackupInv' /\ Stands
  BY <1>3, PowerInv DEF Stands
<1>4. CASE Snapshot \/ Vacuumed \/ WriteFile \/ WriteDone \/ Rename \/ List \/ Cut
  BY <1>4, SnapshotInv, WorkInv, ListInv, CutInv DEF KeepsBaks, Stands
<1>5. ASSUME NEW f \in runner.surplus, NEW ok \in BOOLEAN, Remove(f, ok) PROVE BackupInv' /\ Stands
  BY <1>5, RemoveInv DEF KeepsBaks, Stands
<1>6. ASSUME NEW n \in dirty, Flush(n) PROVE BackupInv' /\ Stands
  BY <1>6, FlushInv DEF KeepsBaks, Stands
<1> QED BY <1>1, <1>2, <1>3, <1>4, <1>5, <1>6 DEF BackupNext

LEMMA BackupInvariant == BackupSpec => []BackupInv
BY BackupInitInv, BackupStepInv, PTL DEF BackupSpec

\* Types of the files and of the backup under way (sessionbackup).
THEOREM BackupTypes == BackupSpec => []BackupTypeOK
<1>1. BackupInv => BackupTypeOK
  BY DEF BackupInv
<1> QED BY <1>1, BackupInvariant, PTL

\* Every file becomes a backup whole and none of the newest goes, whatever
\* failed or was cut short, but for what a power failure finds not written back
\* (atomicWriteFile, rotate).
THEOREM BackupStands == BackupSpec => BackupsStand
<1>1. ASSUME BackupInv, [BackupNext]_backupVars
      PROVE  [Stands]_backupVars
  BY <1>1, BackupStepInv
<1> QED BY <1>1, BackupInvariant, PTL DEF BackupSpec, BackupsStand, Stands
=============================================================================
