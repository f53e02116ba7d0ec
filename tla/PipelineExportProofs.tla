------------------------ MODULE PipelineExportProofs ------------------------
(***************************************************************************)
(* Proofs about PipelineExport: whatever fails and whenever the power is   *)
(* lost, the backup one process writes is a whole version, and never older *)
(* than a change whose command ended without an error.                     *)
(***************************************************************************)
EXTENDS PipelineExport, TLAPS

-----------------------------------------------------------------------------
(* What the results assume.                                                *)

(* One process exports.  With two, WholeFile does not hold: both write     *)
(* pipelines.toml.tmp (see the README).                                    *)
OneExporter == \A p, q \in Exporters : p = q

-----------------------------------------------------------------------------
(* The inductive invariant.                                                *)

Labels == {"idle", "dispatch", "export", "create", "write", "sync", "rename", "sync_dir"}

Types ==
    /\ version \in 0 .. MaxVersions
    /\ pc \in [Exporters -> Labels]
    /\ left \in [Exporters -> 0 .. MaxDefinitions]
    /\ snapshot \in [Exporters -> 0 .. version]
    /\ fd \in [Exporters -> Inodes \cup {NoFile}]
    /\ disk \in Seq(Int)
    /\ synced \subseteq Inodes
    /\ {tmp, path, durable} \subseteq Inodes \cup {NoFile}
    /\ mine \in [Exporters -> 0 .. version] /\ exported \in 0 .. version

(* A name other than the temporary one stands for a whole, durable file,   *)
(* which is not the one under way.                                         *)
Whole(name) ==
    name # NoFile =>
        /\ disk[name] \in 1 .. version
        /\ name \in synced
        /\ name # tmp

(* How far the export of p is. *)
Progress(p) ==
    /\ pc[p] = "dispatch" => left[p] > 0
    /\ pc[p] \in Labels \ {"idle", "dispatch"} => version > 0
    /\ pc[p] \in {"create", "write", "sync", "rename"} => snapshot[p] = version
    /\ pc[p] \in {"write", "sync", "rename"} => tmp # NoFile /\ fd[p] = tmp
    /\ pc[p] = "write" => disk[tmp] = Partial
    /\ pc[p] \in {"sync", "rename"} => disk[tmp] = version
    /\ pc[p] = "rename" => tmp \in synced
    /\ pc[p] = "sync_dir" => path # NoFile /\ disk[path] = version

ExportInvariant ==
    /\ Types
    /\ Whole(path) /\ Whole(durable)
    /\ \A p \in Exporters : Progress(p)

(* What was exported is under both names; a restart may find either.       *)
Kept(name) == exported > 0 => name # NoFile /\ disk[name] >= exported

-----------------------------------------------------------------------------
(* The start, and the steps of the exporter, one lemma each.               *)

(* No file exists at the start and no process is at work. *)
LEMMA InitExport == Init => ExportInvariant /\ Kept(path) /\ Kept(durable)
<1> SUFFICES ASSUME Init PROVE ExportInvariant /\ Kept(path) /\ Kept(durable)
  OBVIOUS
<1>1. disk \in Seq(Int) /\ Len(disk) = 0
  BY DEF Init
<1>2. 0 \in 0 .. MaxVersions /\ 0 \in 0 .. MaxDefinitions
  BY ExportAssumption
<1>3. /\ version \in 0 .. MaxVersions
      /\ pc \in [Exporters -> Labels]
      /\ left \in [Exporters -> 0 .. MaxDefinitions]
      /\ snapshot \in [Exporters -> 0 .. version]
      /\ mine \in [Exporters -> 0 .. version] /\ exported \in 0 .. version
  BY <1>2 DEF Init, Labels
<1>4. Types
  BY <1>1, <1>3, Zenon DEF Init, Types, Inodes, NoFile
<1> QED
  BY <1>4 DEF Init, ExportInvariant, Kept, Whole, Progress, Labels, NoFile

(* The steps before the export begins change no file, and the version only *)
(* grows (Console operations, nodectl update).                             *)
LEMMA CommandStep ==
  ASSUME ExportInvariant, OneExporter, NEW p \in Exporters,
         Command(p) \/ Dispatch(p) \/ DispatchFails(p) \/ ListDefinitions(p)
  PROVE  ExportInvariant'
<1> USE DEF ExportInvariant, Types, Labels, NoFile, Inodes
<1>1. UNCHANGED fileVars /\ UNCHANGED fd /\ version' \in 0 .. MaxVersions /\ version' >= version
  BY ExportAssumption DEF Command, Dispatch, DispatchFails, ListDefinitions, fileVars
<1>2. /\ pc' \in [Exporters -> Labels]
      /\ left' \in [Exporters -> 0 .. MaxDefinitions]
      /\ snapshot' \in [Exporters -> 0 .. version']
      /\ mine' \in [Exporters -> 0 .. version'] /\ exported' \in 0 .. version'
  <2>1. CASE Command(p)
    BY <2>1, ExportAssumption DEF Command, Goto, resultVars
  <2>2. CASE Dispatch(p)
    BY <2>2, ExportAssumption DEF Dispatch, Goto, Progress
  <2>3. CASE DispatchFails(p)
    BY <2>3, ExportAssumption DEF DispatchFails, Goto, resultVars
  <2>4. CASE ListDefinitions(p)
    BY <2>4 DEF ListDefinitions, Goto, resultVars
  <2> QED
    BY <2>1, <2>2, <2>3, <2>4
<1>5. Types'
  BY <1>1, <1>2 DEF fileVars
<1>3. Whole(path)' /\ Whole(durable)'
  BY <1>1 DEF Whole, fileVars
<1>4. ASSUME NEW q \in Exporters PROVE Progress(q)'
  <2>1. q = p
    BY DEF OneExporter
  <2> QED
    BY <1>1, <2>1, ExportAssumption
       DEF Command, Dispatch, DispatchFails, ListDefinitions, fileVars, Goto, Progress
<1> QED
  BY <1>3, <1>4, <1>5, SMTT(30)

(* The temporary file is cut or created; no name but its own stands for it *)
(* (write_atomically, File::create).                                       *)
LEMMA CreateStep ==
  ASSUME ExportInvariant, OneExporter, NEW p \in Exporters, CreateTmp(p)
  PROVE  ExportInvariant'
<1> USE DEF ExportInvariant, Types, Labels, NoFile, Partial
<1>1. /\ disk' \in Seq(Int) /\ Len(disk') >= Len(disk)
      /\ tmp' \in 1 .. Len(disk') /\ disk'[tmp'] = Partial
      /\ synced' \subseteq synced /\ tmp' \notin synced'
      /\ \A i \in Inodes : i # tmp' => disk'[i] = disk[i] /\ (i \in synced => i \in synced')
      /\ tmp' = tmp \/ tmp' \notin Inodes
  <2>1. CASE tmp = NoFile
    <3>1. disk' = Append(disk, 0) /\ tmp' = Len(disk) + 1 /\ synced' = synced
      BY <2>1 DEF CreateTmp
    <3>2. /\ disk' \in Seq(Int) /\ Len(disk') = Len(disk) + 1 /\ disk'[Len(disk) + 1] = 0
          /\ \A i \in 1 .. Len(disk) : disk'[i] = disk[i]
      BY <3>1
    <3> QED
      BY <3>1, <3>2 DEF Inodes
  <2>2. CASE tmp # NoFile
    <3>1. disk' = [disk EXCEPT ![tmp] = 0] /\ tmp' = tmp /\ synced' = synced \ {tmp}
      BY <2>2 DEF CreateTmp
    <3>2. /\ disk' \in Seq(Int) /\ Len(disk') = Len(disk) /\ disk'[tmp] = 0
          /\ \A i \in 1 .. Len(disk) : i # tmp => disk'[i] = disk[i]
      BY <2>2, <3>1 DEF Inodes
    <3> QED
      BY <2>2, <3>1, <3>2 DEF Inodes
  <2> QED
    BY <2>1, <2>2
<1>2. UNCHANGED <<version, left, snapshot, path, durable, mine, exported>>
  BY DEF CreateTmp, resultVars
<1>3. /\ pc' = [pc EXCEPT ![p] = "write"]
      /\ fd' = [fd EXCEPT ![p] = tmp']
  BY DEF CreateTmp, Goto
<1>4. Types'
  BY <1>1, <1>2, <1>3, SMTT(30) DEF Inodes
<1>5. Whole(path)' /\ Whole(durable)'
  BY <1>1, <1>2, Zenon DEF Whole, Inodes
<1>6. ASSUME NEW q \in Exporters PROVE Progress(q)'
  <2>1. q = p
    BY DEF OneExporter
  <2>2. pc[p] = "create" /\ Progress(p)
    BY DEF CreateTmp
  <2>3. pc'[p] = "write" /\ fd'[p] = tmp' /\ tmp' # 0
    BY <1>1, <1>3
  <2> QED
    BY <1>1, <1>2, <2>1, <2>2, <2>3 DEF Progress
<1> QED
  BY <1>4, <1>5, <1>6

(* The content goes to the temporary file and is made durable; a single    *)
(* writer finds the file as it cut it (write_all, sync_all).               *)
LEMMA WriteStep ==
  ASSUME ExportInvariant, OneExporter, NEW p \in Exporters, WriteAll(p) \/ SyncAll(p)
  PROVE  ExportInvariant'
<1> USE DEF ExportInvariant, Types, Labels, NoFile, Partial
<1>1. tmp \in Inodes /\ fd[p] = tmp /\ snapshot[p] = version
  BY DEF WriteAll, SyncAll, Progress
<1>2. /\ disk' \in Seq(Int) /\ Len(disk') = Len(disk)
      /\ disk'[tmp] = version
      /\ synced' \subseteq Inodes
      /\ \A i \in Inodes : i # tmp => disk'[i] = disk[i] /\ (i \in synced => i \in synced')
      /\ SyncAll(p) => tmp \in synced'
  <2>1. CASE WriteAll(p)
    <3>1. disk' = [disk EXCEPT ![tmp] = version] /\ synced' = synced \ {tmp}
      BY <1>1, <2>1, Zenon DEF WriteAll, Progress, Inodes
    <3>2. ~SyncAll(p)
      BY <2>1 DEF WriteAll, SyncAll
    <3>3. /\ disk' \in Seq(Int) /\ Len(disk') = Len(disk) /\ disk'[tmp] = version
          /\ \A i \in Inodes : i # tmp => disk'[i] = disk[i]
      BY <1>1, <3>1 DEF Inodes
    <3> QED
      BY <1>1, <3>1, <3>2, <3>3
  <2>2. CASE SyncAll(p)
    BY <1>1, <2>2 DEF SyncAll, Inodes, Progress
  <2> QED
    BY <2>1, <2>2
<1>3. UNCHANGED <<version, left, snapshot, fd, tmp, path, durable, mine, exported>>
  BY DEF WriteAll, SyncAll, resultVars
<1>4. pc' = [pc EXCEPT ![p] = IF WriteAll(p) THEN "sync" ELSE "rename"]
  BY DEF WriteAll, SyncAll, Goto
<1>5. Types'
  BY <1>1, <1>2, <1>3, <1>4 DEF Inodes
<1>6. Whole(path)' /\ Whole(durable)'
  BY <1>1, <1>2, <1>3, SMTT(30) DEF Whole, Inodes
<1>7. ASSUME NEW q \in Exporters PROVE Progress(q)'
  <2>1. q = p
    BY DEF OneExporter
  <2>2. pc[p] \in {"write", "sync"}
    BY DEF WriteAll, SyncAll
  <2> QED
    BY <1>1, <1>2, <1>3, <1>4, <2>1, <2>2, Zenon DEF Progress
<1> QED
  BY <1>5, <1>6, <1>7

(* The file under way takes the name; it is whole and durable by then      *)
(* (rename, fsync of the directory).                                       *)
LEMMA RenameStep ==
  ASSUME ExportInvariant, OneExporter, NEW p \in Exporters, Rename(p) \/ SyncDirectory(p)
  PROVE  ExportInvariant'
<1> USE DEF ExportInvariant, Types, Labels, NoFile
<1>1. UNCHANGED <<version, left, snapshot, fd, disk, synced, mine>> /\ exported' \in 0 .. version
  BY DEF Rename, SyncDirectory, resultVars
<1>2. Types' /\ Whole(path)' /\ Whole(durable)'
  <2>1. CASE Rename(p)
    <3>1. disk[tmp] = version /\ tmp \in synced /\ version > 0
      BY <2>1, Zenon DEF Rename, Progress
    <3> QED
      BY <1>1, <2>1, <3>1 DEF Rename, Goto, Whole, Inodes
  <2>2. CASE SyncDirectory(p)
    BY <1>1, <2>2, Zenon DEF SyncDirectory, Goto, Whole, Inodes
  <2> QED
    BY <2>1, <2>2
<1>3. ASSUME NEW q \in Exporters PROVE Progress(q)'
  <2>1. q = p
    BY DEF OneExporter
  <2>2. CASE Rename(p)
    <3>1. pc'[p] = "sync_dir" /\ path' = tmp
      BY <2>2 DEF Rename, Goto
    <3>2. disk[tmp] = version /\ tmp # 0 /\ version > 0
      BY <2>2 DEF Rename, Progress
    <3> QED
      BY <1>1, <2>1, <3>1, <3>2 DEF Progress
  <2>3. CASE SyncDirectory(p)
    <3>1. pc'[p] = "idle"
      BY <2>3 DEF SyncDirectory, Goto
    <3> QED
      BY <1>1, <2>1, <3>1 DEF Progress
  <2> QED
    BY <2>2, <2>3
<1> QED
  BY <1>2, <1>3

(* A reported error leaves the files as they are; a power loss keeps what  *)
(* is durable, under the old name or the new one.                          *)
LEMMA FailureStep ==
  ASSUME ExportInvariant, OneExporter,
         (\E p \in Exporters : ExportFails(p)) \/ PowerLoss
  PROVE  ExportInvariant'
<1> USE DEF ExportInvariant, Types, Labels, NoFile
<1>1. UNCHANGED <<version, snapshot, fd, synced, tmp, mine, exported>>
  BY DEF ExportFails, PowerLoss, fileVars, resultVars
<1>2. /\ pc' \in [Exporters -> {"idle"}]
      /\ left' \in [Exporters -> 0 .. MaxDefinitions]
  <2>1. ASSUME NEW p \in Exporters, ExportFails(p)
        PROVE  pc' \in [Exporters -> {"idle"}]
    BY <2>1 DEF ExportFails, Goto, OneExporter
  <2>2. CASE \E p \in Exporters : ExportFails(p)
    BY <2>1, <2>2 DEF ExportFails
  <2>3. CASE PowerLoss
    BY <2>3, ExportAssumption DEF PowerLoss
  <2> QED
    BY <2>2, <2>3, Zenon
<1>3. /\ disk' \in Seq(Int) /\ Len(disk') = Len(disk)
      /\ \A i \in synced : disk'[i] = disk[i]
      /\ {path', durable'} \subseteq {path, durable}
  <2>1. CASE PowerLoss
    <3>1. disk' = [i \in 1 .. Len(disk) |-> IF i \in synced THEN disk[i] ELSE 0]
      BY <2>1 DEF PowerLoss, Partial
    <3>2. disk' \in Seq(Int) /\ Len(disk') = Len(disk)
      BY <3>1
    <3>3. path' \in {path, durable} /\ durable' \in {path, durable}
      BY <2>1, Zenon DEF PowerLoss
    <3> QED
      BY <3>1, <3>2, <3>3, Zenon DEF Inodes
  <2>2. CASE \E p \in Exporters : ExportFails(p)
    BY <2>2 DEF ExportFails, fileVars
  <2> QED
    BY <2>1, <2>2
<1>4. Types'
  BY <1>1, <1>2, <1>3, SMTT(30) DEF Inodes
<1>5. Whole(path)' /\ Whole(durable)'
  BY <1>1, <1>3, SMTT(30) DEF Whole, Inodes
<1>6. \A q \in Exporters : Progress(q)'
  BY <1>2 DEF Progress
<1> QED
  BY <1>4, <1>5, <1>6

(* Every step keeps the invariant. *)
LEMMA ExportStep == ExportInvariant /\ OneExporter /\ [Next]_vars => ExportInvariant'
<1> SUFFICES ASSUME ExportInvariant, OneExporter, [Next]_vars PROVE ExportInvariant'
  OBVIOUS
<1>1. CASE Next
  BY <1>1, CommandStep, CreateStep, WriteStep, RenameStep, FailureStep DEF Next
<1>2. CASE UNCHANGED vars
  BY <1>2 DEF vars, resultVars, ExportInvariant, Types, Whole, Progress, Inodes
<1> QED
  BY <1>1, <1>2

(* No step changes a durable file that is not the one under way.           *)
LEMMA ContentKept ==
  ASSUME ExportInvariant, OneExporter, Next, NEW i \in synced, i # tmp
  PROVE  disk'[i] = disk[i]
<1> USE DEF ExportInvariant, Types, Inodes, NoFile
<1>1. ASSUME NEW p \in Exporters, CreateTmp(p) PROVE disk'[i] = disk[i]
  BY <1>1 DEF CreateTmp
<1>2. ASSUME NEW p \in Exporters, WriteAll(p) PROVE disk'[i] = disk[i]
  <2>1. fd[p] = tmp
    BY <1>2, Zenon DEF WriteAll, Progress
  <2> QED
    BY <1>2, <2>1 DEF WriteAll
<1>3. ASSUME NEW p \in Exporters,
             \/ Command(p) \/ Dispatch(p) \/ DispatchFails(p) \/ ListDefinitions(p)
             \/ SyncAll(p) \/ Rename(p) \/ SyncDirectory(p) \/ ExportFails(p)
      PROVE  UNCHANGED disk
  BY <1>3, Zenon DEF Command, Dispatch, DispatchFails, ListDefinitions, SyncAll, Rename,
                     SyncDirectory, ExportFails, fileVars
<1>4. CASE PowerLoss
  BY <1>4 DEF PowerLoss
<1> QED
  BY <1>1, <1>2, <1>3, <1>4, Zenon DEF Next

(* A name moves on to a newer version or stays; a power loss takes it back *)
(* to no more than the other one.                                          *)
LEMMA KeptStep ==
  ASSUME ExportInvariant, OneExporter, Kept(path), Kept(durable), [Next]_vars
  PROVE  Kept(path)' /\ Kept(durable)'
<1> USE DEF ExportInvariant, Types, NoFile
<1>1. ASSUME Next, NEW name \in {path, durable}, exported > 0
      PROVE  name # NoFile /\ disk'[name] >= exported
  <2>1. name # NoFile /\ disk[name] >= exported
    BY <1>1 DEF Kept
  <2>2. name \in synced /\ name # tmp
    <3>1. CASE name = path
      BY <2>1, <3>1 DEF Whole
    <3>2. CASE name = durable
      BY <2>1, <3>2 DEF Whole
    <3> QED
      BY <1>1, <3>1, <3>2
  <2>3. disk'[name] = disk[name]
    BY <1>1, <2>2, ContentKept, Zenon
  <2> QED
    BY <2>1, <2>3
<1>2. ASSUME NEW p \in Exporters, Rename(p) PROVE Kept(path)' /\ Kept(durable)'
  <2>1. path' = tmp /\ disk' = disk /\ durable' = durable /\ exported' = exported
    BY <1>2, Zenon DEF Rename, resultVars
  <2>2. tmp # NoFile /\ disk[tmp] = version
    BY <1>2, Zenon DEF Rename, Progress
  <2> QED
    BY <2>1, <2>2 DEF Kept
<1>3. ASSUME NEW p \in Exporters, SyncDirectory(p) PROVE Kept(path)' /\ Kept(durable)'
  <2>1. path' = path /\ durable' = path /\ disk' = disk /\ exported' \in 0 .. version
    BY <1>3 DEF SyncDirectory
  <2>2. path # NoFile /\ disk[path] = version
    BY <1>3, Zenon DEF SyncDirectory, Progress
  <2> QED
    BY <2>1, <2>2 DEF Kept
<1>4. ASSUME Next, \A p \in Exporters : ~Rename(p) /\ ~SyncDirectory(p)
      PROVE  Kept(path)' /\ Kept(durable)'
  <2>1. exported' = exported /\ path' \in {path, durable} /\ durable' \in {path, durable}
    BY <1>4, Zenon
       DEF Next, Command, Dispatch, DispatchFails, ListDefinitions, CreateTmp, WriteAll, SyncAll,
           ExportFails, PowerLoss, fileVars, resultVars
  <2> QED
    BY <1>1, <1>4, <2>1, Zenon DEF Kept
<1>5. CASE UNCHANGED vars
  BY <1>5 DEF vars, resultVars, Kept
<1> QED
  BY <1>2, <1>3, <1>4, <1>5, Zenon

-----------------------------------------------------------------------------
(* Results.                                                                *)

(* What one exporter has written at each point of its way holds in every   *)
(* reachable state (export.rs, write_atomically).                          *)
THEOREM ExportInvariantHolds ==
  ASSUME OneExporter
  PROVE  Spec => []ExportInvariant
  BY OneExporter, InitExport, ExportStep, PTL DEF Spec

(* For any number of versions, failed exports and power losses, the file   *)
(* one process writes, and the one a restart finds, is a whole version.    *)
THEOREM BackupIsWhole ==
  ASSUME OneExporter
  PROVE  Spec => []WholeFile
<1>1. ExportInvariant => WholeFile
  BY DEF ExportInvariant, Types, Whole, WholeFile, TypeOK
<1> QED
  BY <1>1, ExportInvariantHolds, PTL

(* For any number of versions, definitions in a command, failed exports    *)
(* and power losses, a change whose command ended without an error stays   *)
(* in the backup, and in the one a restart finds.                          *)
THEOREM ExportedChangesAreKept ==
  ASSUME OneExporter
  PROVE  Spec => []ExportedIsKept
<1>1. Kept(path) /\ Kept(durable) => ExportedIsKept
  BY DEF Kept, ExportedIsKept
<1>2. ExportInvariant /\ Kept(path) /\ Kept(durable) /\ [Next]_vars => (Kept(path) /\ Kept(durable))'
  BY OneExporter, KeptStep, Zenon
<1> QED
  BY <1>1, <1>2, InitExport, ExportInvariantHolds, PTL DEF Spec
=============================================================================
