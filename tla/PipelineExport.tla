--------------------------- MODULE PipelineExport ---------------------------
(***************************************************************************)
(* pipelines.toml, the backup of the definitions written after a committed *)
(* change (core/pipeline export.rs), by the Console of the node (api       *)
(* routes.rs, under the connection lock of the process) and by nodectl, a  *)
(* process of its own.                                                     *)
(*                                                                         *)
(* The n-th committed change makes version n of the definitions.  A file   *)
(* is an inode; its content is a version, Partial while it is written, or  *)
(* Torn when two writers overlaid each other.                              *)
(***************************************************************************)
EXTENDS Integers, Sequences

CONSTANTS
    Exporters,     \* the processes: "console", "nodectl"
    MaxVersions,   \* bound: committed changes
    MaxDefinitions,\* bound: definitions in one file of nodectl update
    MaxLosses      \* bound: power losses

ASSUME ExportAssumption ==
    /\ Exporters \subseteq {"console", "nodectl"}
    /\ MaxVersions \in Nat /\ MaxDefinitions \in Nat \ {0} /\ MaxLosses \in Nat

Partial == 0
Torn == -1
NoFile == 0

VARIABLES
    version,   \* committed changes
    pc,        \* where each process is
    left,      \* definitions its command still has to dispatch
    snapshot,  \* the version it read for the export
    fd,        \* the inode it writes
    disk,      \* content of the inodes created so far
    synced,    \* inodes whose content is durable
    tmp,       \* pipelines.toml.tmp: an inode or NoFile
    path,      \* pipelines.toml: an inode or NoFile
    durable,   \* pipelines.toml as the directory on the disk has it
    mine,      \* the last version each process committed
    exported,  \* the latest change whose command ended without an error
    losses

vars == <<version, pc, left, snapshot, fd, disk, synced, tmp, path, durable,
          mine, exported, losses>>
resultVars == <<mine, exported>>
fileVars == <<disk, synced, tmp, path, durable>>

Init ==
    /\ version = 0
    /\ pc = [p \in Exporters |-> "idle"] /\ left = [p \in Exporters |-> 0]
    /\ snapshot = [p \in Exporters |-> 0] /\ fd = [p \in Exporters |-> NoFile]
    /\ disk = <<>> /\ synced = {}
    /\ tmp = NoFile /\ path = NoFile /\ durable = NoFile
    /\ mine = [p \in Exporters |-> 0] /\ exported = 0 /\ losses = 0

Goto(p, label) == pc' = [pc EXCEPT ![p] = label]

\* An operation of the Console changes one definition set; nodectl update
\* dispatches the definitions of a file one transaction after the other.
Command(p) ==
    /\ pc[p] = "idle"
    /\ \E n \in 1 .. IF p = "console" THEN 1 ELSE MaxDefinitions :
          left' = [left EXCEPT ![p] = n]
    /\ Goto(p, "dispatch")
    /\ UNCHANGED <<version, snapshot, fd, fileVars, resultVars, losses>>

Dispatch(p) ==
    /\ pc[p] = "dispatch" /\ version < MaxVersions
    /\ version' = version + 1
    /\ left' = [left EXCEPT ![p] = @ - 1]
    /\ mine' = [mine EXCEPT ![p] = version']
    /\ Goto(p, IF left[p] = 1 THEN "export" ELSE "dispatch")
    /\ UNCHANGED <<snapshot, fd, fileVars, exported, losses>>

\* The operation is refused: the command ends here, whatever it committed.
DispatchFails(p) ==
    /\ pc[p] = "dispatch"
    /\ Goto(p, "idle")
    /\ left' = [left EXCEPT ![p] = 0]
    /\ UNCHANGED <<version, snapshot, fd, fileVars, resultVars, losses>>

\* Mutant: the definitions are listed before the change commits.
ListDefinitions_Early(p) ==
    /\ pc[p] = "export"
    /\ snapshot' = [snapshot EXCEPT ![p] = version - 1]
    /\ Goto(p, "create")
    /\ UNCHANGED <<version, left, fd, fileVars, resultVars, losses>>

ListDefinitions(p) ==
    /\ pc[p] = "export"
    /\ snapshot' = [snapshot EXCEPT ![p] = version]
    /\ Goto(p, "create")
    /\ UNCHANGED <<version, left, fd, fileVars, resultVars, losses>>

\* File::create: a new file, or the old one cut to nothing.
CreateTmp(p) ==
    /\ pc[p] = "create"
    /\ IF tmp = NoFile
       THEN /\ disk' = Append(disk, Partial)
            /\ tmp' = Len(disk) + 1
            /\ UNCHANGED synced
       ELSE /\ disk' = [disk EXCEPT ![tmp] = Partial]
            /\ synced' = synced \ {tmp}
            /\ UNCHANGED tmp
    /\ fd' = [fd EXCEPT ![p] = tmp']
    /\ Goto(p, "write")
    /\ UNCHANGED <<version, left, snapshot, path, durable, resultVars, losses>>

\* Two processes that write one inode overlay each other from its start.
WriteAll(p) ==
    /\ pc[p] = "write"
    /\ disk' = [disk EXCEPT ![fd[p]] =
                  IF @ \in {Partial, snapshot[p]} THEN snapshot[p] ELSE Torn]
    /\ synced' = synced \ {fd[p]}
    /\ Goto(p, "sync")
    /\ UNCHANGED <<version, left, snapshot, fd, tmp, path, durable, resultVars, losses>>

\* Mutant: the temporary file is renamed before it is durable.
SyncAll_Skipped(p) ==
    /\ pc[p] = "sync"
    /\ Goto(p, "rename")
    /\ UNCHANGED <<version, left, snapshot, fd, fileVars, resultVars, losses>>

SyncAll(p) ==
    /\ pc[p] = "sync"
    /\ synced' = synced \cup {fd[p]}
    /\ Goto(p, "rename")
    /\ UNCHANGED <<version, left, snapshot, fd, disk, tmp, path, durable, resultVars, losses>>

Rename(p) ==
    /\ pc[p] = "rename" /\ tmp # NoFile
    /\ path' = tmp /\ tmp' = NoFile
    /\ Goto(p, "sync_dir")
    /\ UNCHANGED <<version, left, snapshot, fd, disk, synced, durable, resultVars, losses>>

SyncDirectory(p) ==
    /\ pc[p] = "sync_dir"
    /\ durable' = path
    /\ Goto(p, "idle")
    /\ exported' = IF mine[p] > exported THEN mine[p] ELSE exported
    /\ UNCHANGED <<version, left, snapshot, fd, disk, synced, tmp, path, mine, losses>>

\* nodectl returns the export error, the Console logs it.
ExportFails(p) ==
    /\ pc[p] \in {"export", "create", "write", "sync", "rename", "sync_dir"}
    /\ Goto(p, "idle")
    /\ UNCHANGED <<version, left, snapshot, fd, fileVars, resultVars, losses>>

\* What was not synced may be lost; the processes are gone.
PowerLoss ==
    /\ losses < MaxLosses /\ losses' = losses + 1
    /\ \E name \in {path, durable} : path' = name /\ durable' = name
    /\ disk' = [i \in DOMAIN disk |-> IF i \in synced THEN disk[i] ELSE Partial]
    /\ pc' = [p \in Exporters |-> "idle"] /\ left' = [p \in Exporters |-> 0]
    /\ UNCHANGED <<version, snapshot, fd, synced, tmp, resultVars>>

Next ==
    \/ \E p \in Exporters :
          \/ Command(p) \/ Dispatch(p) \/ DispatchFails(p) \/ ListDefinitions(p)
          \/ CreateTmp(p) \/ WriteAll(p) \/ SyncAll(p) \/ Rename(p) \/ SyncDirectory(p)
          \/ ExportFails(p)
    \/ PowerLoss

Spec == Init /\ [][Next]_vars

-----------------------------------------------------------------------------
Inodes == 1 .. Len(disk)

TypeOK ==
    /\ version \in 0 .. MaxVersions
    /\ \A p \in Exporters : fd[p] \in Inodes \cup {NoFile} /\ snapshot[p] <= version
    /\ \A p \in Exporters : left[p] \in 0 .. MaxDefinitions
    /\ synced \subseteq Inodes
    /\ {tmp, path, durable} \subseteq Inodes \cup {NoFile}

\* Product model: the definitions are written atomically.  The file, and the
\* one a restart after a power loss finds, is a whole version (export.rs,
\* write_atomically: temporary file, fsync, rename, fsync of the directory).
WholeFile == TypeOK /\ (path # NoFile => disk[path] \in 1 .. version)

\* Product model: every committed definition change is exported.  A change
\* whose command ended without an error is in the file, and in the one a
\* restart finds, from then on: whatever later commands commit, however their
\* exports fail and whenever the power is lost (routes.rs and nodectl, export
\* after commit).
ExportedIsKept ==
    exported > 0 => \A name \in {path, durable} : name # NoFile /\ disk[name] >= exported
=============================================================================
