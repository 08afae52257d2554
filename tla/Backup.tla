------------------------------- MODULE Backup -------------------------------
(***************************************************************************)
(* The rotated backups of the store (sessionbackup.Backuper.BackupNow, run *)
(* by RunPeriodic alone): a snapshot, its encryption, a write next to its  *)
(* final name, a rename, and the removal of the oldest ones.  Each of them *)
(* may fail, and the process may end before, after or in the middle of any;*)
(* so may the machine, and nothing is synced: what a file holds, and that   *)
(* it was renamed, may not be on the disk yet.                             *)
(***************************************************************************)
EXTENDS Naturals, FiniteSets

CONSTANTS
    Keep,        \* Backuper.keep
    MaxBackups,  \* runs of BackupNow, each with a later name
    MaxCuts,     \* ends of the process
    MaxBlackouts \* power failures

ASSUME BackupAssumption ==
    Keep \in Nat \ {0} /\ MaxBackups \in Nat /\ MaxCuts \in Nat /\ MaxBlackouts \in Nat

Kinds == {"snapshot", "partial", "bak"}
File == [kind : Kinds, name : 1 .. MaxBackups, whole : BOOLEAN]

VARIABLES
    files,   \* what is in BackupDir
    runner,  \* BackupNow: its step, the name it writes, what rotate has to remove
    begun,   \* names drawn so far (UnixNano: later ones sort after)
    dirty,   \* names whose file or rename the system has not written back
    cuts, blackouts

backupVars == <<files, runner, begun, dirty, cuts, blackouts>>

Waiting == [at |-> "waiting", name |-> 0, surplus |-> {}]

BackupInit ==
    files = {} /\ runner = Waiting /\ begun = 0 /\ dirty = {} /\ cuts = 0 /\ blackouts = 0

Mine(kind, whole) == [kind |-> kind, name |-> runner.name, whole |-> whole]
Baks == {f \in files : f.kind = "bak"}
Goes(from, to) == runner.at = from /\ runner' = [runner EXCEPT !.at = to]

\* The step failed: BackupNow returns, the deferred Remove takes the snapshot.
Returns == runner' = Waiting /\ files' = files \ {Mine("snapshot", w) : w \in BOOLEAN}

-----------------------------------------------------------------------------
\* VACUUM INTO a file of its own.
Snapshot ==
    /\ runner.at = "waiting" /\ begun < MaxBackups
    /\ begun' = begun + 1
    /\ runner' = [at |-> "vacuum", name |-> begun + 1, surplus |-> {}]
    /\ files' = files \cup {[kind |-> "snapshot", name |-> begun + 1, whole |-> FALSE]}
    /\ UNCHANGED <<dirty, cuts, blackouts>>

Vacuumed ==
    /\ Goes("vacuum", "encrypt")
    /\ files' = (files \ {Mine("snapshot", FALSE)}) \cup {Mine("snapshot", TRUE)}
    /\ UNCHANGED <<begun, dirty, cuts, blackouts>>

\* atomicWriteFile writes under a name that listBackups does not take, and
\* syncs neither the file nor the directory.
WriteKind == "partial"

WriteFile ==
    /\ Goes("encrypt", "write")
    /\ files' = files \cup {Mine(WriteKind, FALSE)}
    /\ dirty' = dirty \cup {runner.name}
    /\ UNCHANGED <<begun, cuts, blackouts>>

WriteDone ==
    /\ Goes("write", "rename")
    /\ files' = (files \ {Mine(WriteKind, FALSE)}) \cup {Mine(WriteKind, TRUE)}
    /\ UNCHANGED <<begun, dirty, cuts, blackouts>>

Rename ==
    /\ Goes("rename", "list")
    /\ files' = (files \ {Mine(WriteKind, TRUE)}) \cup {Mine("bak", TRUE)}
    /\ UNCHANGED <<begun, dirty, cuts, blackouts>>

\* Mutant: one backup too few is kept.
SurplusOfOne(f) == Cardinality({g \in Baks : g.name > f.name}) >= Keep - 1

\* names[:len(names)-keep] of the names in order.
Surplus(f) == Cardinality({g \in Baks : g.name > f.name}) >= Keep

List ==
    /\ runner.at = "list"
    /\ runner' = [runner EXCEPT !.at = "rotate", !.surplus = {f \in Baks : Surplus(f)}]
    /\ UNCHANGED <<files, begun, dirty, cuts, blackouts>>

\* A removal that fails is logged and the next one tried.
Remove(f, ok) ==
    /\ runner.at = "rotate" /\ f \in runner.surplus
    /\ runner' = [runner EXCEPT !.surplus = @ \ {f}]
    /\ files' = IF ok THEN files \ {f} ELSE files
    /\ UNCHANGED <<begun, dirty, cuts, blackouts>>

Done == runner.at = "rotate" /\ runner.surplus = {} /\ Returns /\ UNCHANGED <<begun, dirty, cuts, blackouts>>

Fails ==
    /\ runner.at \in {"vacuum", "encrypt", "write", "rename", "list"}
    /\ Returns /\ UNCHANGED <<begun, dirty, cuts, blackouts>>

\* Nothing clears the directory at the next start.
Cut ==
    /\ cuts < MaxCuts /\ cuts' = cuts + 1
    /\ runner' = Waiting
    /\ UNCHANGED <<files, begun, dirty, blackouts>>

\* The system writes back, in its own time, what has been written.
Flush(n) ==
    /\ n \in dirty /\ ~(runner.at = "write" /\ runner.name = n)
    /\ dirty' = dirty \ {n}
    /\ UNCHANGED <<files, runner, begun, cuts, blackouts>>

\* What a file is after a power failure that lost some data and some renames.
Left(f, torn, undone) ==
    [kind |-> IF f.kind = "bak" /\ f.name \in undone THEN "partial" ELSE f.kind,
     name |-> f.name, whole |-> f.whole /\ f.name \notin torn]

PowerFails(torn, undone) ==
    /\ blackouts < MaxBlackouts /\ blackouts' = blackouts + 1
    /\ files' = {Left(f, torn, undone) : f \in files}
    /\ runner' = Waiting /\ dirty' = {}
    /\ UNCHANGED <<begun, cuts>>

BackupNext ==
    \/ Snapshot \/ Vacuumed \/ WriteFile \/ WriteDone \/ Rename \/ List \/ Done \/ Fails \/ Cut
    \/ \E f \in runner.surplus, ok \in BOOLEAN : Remove(f, ok)
    \/ \E n \in dirty : Flush(n)
    \/ \E torn, undone \in SUBSET dirty : PowerFails(torn, undone)

BackupSpec == BackupInit /\ [][BackupNext]_backupVars
-----------------------------------------------------------------------------
BackupTypeOK ==
    /\ files \subseteq File
    /\ runner.at \in {"waiting", "vacuum", "encrypt", "write", "rename", "list", "rotate"}
    /\ runner.name \in 0 .. MaxBackups /\ runner.surplus \subseteq File
    /\ begun \in 0 .. MaxBackups /\ dirty \subseteq 1 .. begun
    /\ cuts \in 0 .. MaxCuts /\ blackouts \in 0 .. MaxBlackouts

\* The Keep newest files that a restore would choose from.
Retained == {f \in Baks : Cardinality({g \in Baks : g.name > f.name}) < Keep}

\* Every file becomes a backup whole, and none of the Keep newest ever goes,
\* whatever step fails and wherever the process ends (atomicWriteFile, rotate);
\* only a power failure spoils or takes one, and only one not written back.  That
\* one may masquerade as a complete backup, which atomicWriteFile's comment rules
\* out for "a power cut mid-write".
BackupsStand ==
    [][LET Excused(f) == blackouts' # blackouts /\ f.name \in dirty IN
       /\ \A f \in Baks' \ Baks : f.whole \/ Excused(f)
       /\ \A f \in Retained : f \in Baks' \/ Excused(f)]_backupVars
=============================================================================
