------------------------ MODULE IngressListenerProofs ------------------------
(***************************************************************************)
(* Proofs about IngressListener: what accepts peers is what the database   *)
(* names as applied, and the TLS material the database refers to is never  *)
(* lost, for any number of addresses, generations, rotations, crashes and  *)
(* faults.                                                                 *)
(***************************************************************************)
EXTENDS IngressListener, TLAPS

-----------------------------------------------------------------------------
(* The inductive invariant.                                                 *)

ListenerConfigs ==
    [gen : Nat, on : BOOLEAN, bind : Binds \cup {"unset"},
     mode : {"tls", "private_plaintext"}, tls : Nat]

ServingListeners ==
    [serving : {TRUE}, config : ListenerConfigs, paused : BOOLEAN, dead : BOOLEAN]

Starting == {"start", "recover", "restore"}
Publishing == {"publish", "switch"}
Deciding == {"enabled", "disabled"} \cup Publishing

Types ==
    /\ desired \in ListenerConfigs
    /\ applied \in ListenerConfigs \cup {NotApplied}
    /\ material \in Nat
    /\ files \in [TlsGenerations -> {"none", "partial", "staged", "final"}]
    /\ runtime \in [desired : Nat, applied : Nat]
    /\ active \in ServingListeners \cup {NoListener}
    /\ staged \in ServingListeners \cup {NoListener}
    /\ sup \in [pc : Starting \cup {"tick"} \cup Deciding,
                config : ListenerConfigs \cup {NotApplied}]
    /\ custody \in BOOLEAN

\* No generation is ahead of the one it was made from.
Generations ==
    /\ desired.gen <= MaxGeneration /\ material <= MaxRotations
    /\ applied.gen <= desired.gen
    /\ runtime.applied <= runtime.desired /\ runtime.desired <= desired.gen
    /\ sup.pc \in Deciding => sup.config \in ListenerConfigs /\ sup.config.gen <= desired.gen
    /\ sup.pc \in Publishing => runtime.desired = sup.config.gen
    /\ desired.tls <= material
    /\ applied.gen # 0 => applied.tls <= material

\* The active listener has the applied configuration, also while it is paused,
\* except between a publication and the switch that follows it; the staged one
\* has the configuration that is about to be published.
Exposure ==
    /\ sup.pc \in Starting => ~active.serving
    /\ sup.pc = "restore" => applied.gen # 0
    /\ active.serving /\ ~active.dead /\ sup.pc # "switch" => active.config = applied
    /\ active.serving /\ sup.pc \in Publishing => active.paused
    /\ staged.serving =>
          staged.paused /\ sup.pc \in Publishing /\ staged.config = Installed(sup.config)
    /\ sup.pc = "switch" => applied = Installed(sup.config)

ListenerInvariant == Types /\ Generations /\ Exposure /\ CustodyKept

-----------------------------------------------------------------------------
(* Configurations, listeners and files.                                     *)

\* What is installed is the configuration, perhaps without its TLS generation.
LEMMA InstalledConfig ==
    ASSUME NEW c \in ListenerConfigs
    PROVE  /\ Installed(c) \in ListenerConfigs
           /\ Installed(c).gen = c.gen
           /\ Installed(c).tls \in {0, c.tls}
  BY DEF Installed, ListenerConfigs

\* A configuration that is not NotApplied has all its columns.
LEMMA AppliedConfig ==
    ASSUME Types, applied.gen # 0
    PROVE  applied \in ListenerConfigs
  BY DEF Types, NotApplied

\* Reconciling the custody directory promotes what is referenced and complete.
LEMMA ReconciledFiles ==
    ASSUME NEW fs \in [TlsGenerations -> {"none", "partial", "staged", "final"}],
           NEW R, \A g \in R : fs[g] \in {"staged", "final"}
    PROVE  /\ Reconciled(fs, R) \in [TlsGenerations -> {"none", "partial", "staged", "final"}]
           /\ \A g \in R \cap TlsGenerations : Reconciled(fs, R)[g] = "final"
  BY DEF Reconciled

\* A reconciliation that stops short leaves what is referenced where it was, or
\* promoted.
LEMMA CutShortFiles ==
    ASSUME NEW fs \in [TlsGenerations -> {"none", "partial", "staged", "final"}],
           NEW R, R \subseteq TlsGenerations, \A g \in R : fs[g] \in {"staged", "final"},
           NEW left \in CutShort(fs, R)
    PROVE  /\ left \in [TlsGenerations -> {"none", "partial", "staged", "final"}]
           /\ \A g \in R : left[g] \in {fs[g], "final"}
  <1>1. \A g \in R : Reconciled(fs, R)[g] = "final"
    BY ReconciledFiles, Zenon
  <1>2. /\ left \in [TlsGenerations -> {"none", "partial", "staged", "final", "torn"}]
        /\ \A g \in R \cap TlsGenerations : left[g] \in {fs[g], Reconciled(fs, R)[g]}
        /\ \A g \in TlsGenerations \ R : left[g] \in {fs[g], "partial", "none"}
    BY Zenon DEF CutShort
  <1>3. \A g \in R : left[g] \in {fs[g], "final"}
    BY <1>1, <1>2, Zenon
  <1>4. \A g \in TlsGenerations : left[g] \in {"none", "partial", "staged", "final"}
    BY <1>2, <1>3, Zenon
  <1> QED BY <1>2, <1>3, <1>4, Zenon

\* CustodyKept speaks of the generations that Referenced lists.
LEMMA ReferencedFiles ==
    ASSUME Types, Generations
    PROVE  Referenced(desired, applied, material) \subseteq TlsGenerations
  <1>1. CASE applied.gen = 0
    BY <1>1, BoundAssumption DEF Types, Generations, Referenced, TlsGenerations, ListenerConfigs
  <1>2. CASE applied.gen # 0
    BY <1>2, AppliedConfig, BoundAssumption DEF Types, Generations, Referenced, TlsGenerations, ListenerConfigs
  <1> QED BY <1>1, <1>2

-----------------------------------------------------------------------------
(* The initial state.                                                       *)

\* Nothing is desired, applied or served at first, and the custody is empty.
LEMMA InitInvariant == Init => ListenerInvariant
  <1> SUFFICES ASSUME Init PROVE ListenerInvariant OBVIOUS
  <1> USE BoundAssumption DEF Init
  <1>1. Types
    BY Zenon DEF Types, ListenerConfigs, NotApplied, NoListener, Starting
  <1>2. Generations
    BY DEF Generations, NotApplied, Deciding, Publishing
  <1>3. Exposure
    BY DEF Exposure, NotApplied, NoListener, Publishing
  <1>4. CustodyKept
    BY DEF CustodyKept, NotApplied
  <1> QED BY <1>1, <1>2, <1>3, <1>4 DEF ListenerInvariant

-----------------------------------------------------------------------------
(* Steps of the operators and of the world.                                 *)

\* A step that leaves the listener's state alone.
LEMMA WorldStep ==
    ASSUME ListenerInvariant, UNCHANGED <<dbVars, files, runVars, sup, custody>>
    PROVE  ListenerInvariant'
  BY DEF ListenerInvariant, Types, Generations, Exposure, CustodyKept, Installed,
         dbVars, runVars

\* A listener that dies stays the active one, no longer alive.
LEMMA ListenerDiesStep ==
    ASSUME ListenerInvariant, ListenerDies
    PROVE  ListenerInvariant'
  <1> USE DEF ListenerDies, dbVars
  <1>1. active \in ServingListeners
    BY DEF ListenerInvariant, Types, NoListener
  <1>2. active' \in ServingListeners /\ active'.dead
    BY <1>1, Zenon DEF ServingListeners
  <1>3. Types'
    BY <1>2 DEF ListenerInvariant, Types
  <1>4. Generations'
    BY DEF ListenerInvariant, Generations
  <1>5. Exposure'
    BY <1>1, <1>2 DEF ListenerInvariant, Exposure, Installed, Starting, Publishing, ServingListeners
  <1>6. CustodyKept'
    BY DEF ListenerInvariant, CustodyKept
  <1> QED BY <1>3, <1>4, <1>5, <1>6 DEF ListenerInvariant

\* A new desired configuration with a TLS generation that is referenced.
LEMMA DesiredStep ==
    ASSUME ListenerInvariant,
           desired' \in ListenerConfigs, desired'.gen = desired.gen + 1,
           desired.gen < MaxGeneration,
           desired'.tls \in {0, material, desired.tls},
           UNCHANGED <<applied, material, files, runVars, sup, custody>>
    PROVE  ListenerInvariant'
  <1> USE BoundAssumption DEF runVars
  <1>1. Types'
    BY DEF ListenerInvariant, Types
  <1>2. Generations'
    BY DEF ListenerInvariant, Types, Generations, ListenerConfigs, NotApplied
  <1>3. Exposure'
    BY DEF ListenerInvariant, Exposure, Installed
  <1>4. CustodyKept'
    BY DEF ListenerInvariant, CustodyKept
  <1> QED BY <1>1, <1>2, <1>3, <1>4 DEF ListenerInvariant

\* The operator desires another configuration, with the TLS material there is.
LEMMA ConfigureStep ==
    ASSUME ListenerInvariant, NEW on \in BOOLEAN, NEW bind \in Binds, NEW mode \in Modes,
           Configure(on, bind, mode)
    PROVE  ListenerInvariant'
  <1>1. desired' \in ListenerConfigs /\ desired'.gen = desired.gen + 1
            /\ desired'.tls \in {0, material, desired.tls}
    BY BoundAssumption DEF Configure, ListenerInvariant, Types, ListenerConfigs
  <1> QED BY <1>1, DesiredStep DEF Configure

\* The operator disables the listener; the applied columns keep their values.
LEMMA DisableStep ==
    ASSUME ListenerInvariant, Disable
    PROVE  ListenerInvariant'
  <1>1. desired' \in ListenerConfigs /\ desired'.gen = desired.gen + 1
            /\ desired'.tls \in {0, material, desired.tls}
    <2> DEFINE d == [desired EXCEPT !.gen = @ + 1]
    <2>1. desired \in ListenerConfigs
      BY DEF ListenerInvariant, Types
    <2>2. d \in ListenerConfigs /\ d.gen = desired.gen + 1 /\ d.tls = desired.tls
      BY <2>1 DEF ListenerConfigs
    <2>3. desired' = [d EXCEPT !.on = FALSE]
      BY DEF Disable
    <2> HIDE DEF d
    <2> QED BY <2>2, <2>3, Zenon DEF ListenerConfigs
  <1> QED BY <1>1, DesiredStep DEF Disable

\* A rotation first reconciles the custody directory and then writes a new
\* generation, which nothing refers to yet: what is referenced is final.
LEMMA NewGeneration ==
    ASSUME ListenerInvariant, material < MaxRotations, NEW v \in {"partial", "staged"}
    PROVE  LET fs == [Reconciled(files, Referenced(desired, applied, material))
                          EXCEPT ![material + 1] = v]
           IN  /\ material + 1 \in TlsGenerations
               /\ fs \in [TlsGenerations -> {"none", "partial", "staged", "final"}]
               /\ fs[material + 1] = v
               /\ \A g \in Referenced(desired, applied, material) : fs[g] = "final"
  <1> DEFINE R == Referenced(desired, applied, material)
             clean == Reconciled(files, R)
  <1>1. R \subseteq TlsGenerations /\ material + 1 \in TlsGenerations
    BY ReferencedFiles, BoundAssumption DEF ListenerInvariant, Types, TlsGenerations
  <1>2. \A g \in R : files[g] \in {"staged", "final"}
    BY DEF ListenerInvariant, CustodyKept, Referenced
  <1>3. /\ clean \in [TlsGenerations -> {"none", "partial", "staged", "final"}]
        /\ \A g \in R : clean[g] = "final"
    <2> HIDE DEF R
    <2>1. files \in [TlsGenerations -> {"none", "partial", "staged", "final"}]
      BY DEF ListenerInvariant, Types
    <2> QED BY <1>1, <1>2, <2>1, ReconciledFiles
  <1>4. material + 1 \notin R
    <2>1. CASE applied.gen = 0
      BY <2>1 DEF ListenerInvariant, Types, Generations, Referenced, ListenerConfigs
    <2>2. CASE applied.gen # 0
      BY <2>2, AppliedConfig
         DEF ListenerInvariant, Types, Generations, Referenced, ListenerConfigs
    <2> QED BY <2>1, <2>2
  <1> HIDE DEF R, clean
  <1>5. /\ [clean EXCEPT ![material + 1] = v]
               \in [TlsGenerations -> {"none", "partial", "staged", "final"}]
        /\ [clean EXCEPT ![material + 1] = v][material + 1] = v
        /\ \A g \in R : [clean EXCEPT ![material + 1] = v][g] = "final"
    BY <1>1, <1>3, <1>4
  <1> QED BY <1>1, <1>5 DEF R, clean

\* What the database refers to after the commit of a rotation.
LEMMA RotatedReferences ==
    ASSUME ListenerInvariant, desired.gen < MaxGeneration,
           desired' = [desired EXCEPT !.gen = @ + 1, !.tls = material + 1],
           material' = material + 1, applied' = applied
    PROVE  /\ desired' \in ListenerConfigs
           /\ desired'.gen = desired.gen + 1 /\ desired'.tls = material + 1
           /\ Referenced(desired', applied, material + 1)
                \subseteq Referenced(desired, applied, material) \cup {material + 1}
  <1>1. desired \in ListenerConfigs /\ material \in Nat
    BY DEF ListenerInvariant, Types
  <1>2. desired' \in ListenerConfigs /\ desired'.gen = desired.gen + 1
            /\ desired'.tls = material + 1
    <2> DEFINE d == [desired EXCEPT !.gen = @ + 1]
    <2>1. d \in ListenerConfigs /\ d.gen = desired.gen + 1
      BY <1>1 DEF ListenerConfigs
    <2>2. desired' = [d EXCEPT !.tls = material + 1]
      OBVIOUS
    <2> HIDE DEF d
    <2> QED BY <1>1, <2>1, <2>2 DEF ListenerConfigs
  <1>3. Referenced(desired', applied, material + 1)
            \subseteq Referenced(desired, applied, material) \cup {material + 1}
    BY <1>2 DEF Referenced
  <1> QED BY <1>2, <1>3

\* A rotation, whole or not, while the node goes on: it may move the desired
\* configuration, the material and the files.
LEMMA RotatedStep ==
    ASSUME ListenerInvariant, UNCHANGED <<applied, runVars, sup, custody>>,
           desired' \in ListenerConfigs, material' \in Nat,
           files' \in [TlsGenerations -> {"none", "partial", "staged", "final"}],
           desired.gen <= desired'.gen, desired'.gen <= MaxGeneration,
           material <= material', material' <= MaxRotations, desired'.tls <= material',
           CustodyKept'
    PROVE  ListenerInvariant'
  <1> USE DEF runVars
  <1>1. Types'
    BY DEF ListenerInvariant, Types
  <1>2. Generations'
    <2>1. desired.gen \in Nat /\ desired'.gen \in Nat /\ material \in Nat
      BY DEF ListenerInvariant, Types, ListenerConfigs
    <2>2. applied.gen \in Nat /\ runtime.desired \in Nat
      BY DEF ListenerInvariant, Types, ListenerConfigs, NotApplied
    <2>3. applied.gen # 0 => applied.tls \in Nat
      BY AppliedConfig DEF ListenerInvariant, ListenerConfigs
    <2>4. sup.pc \in Deciding => sup.config.gen \in Nat
      BY DEF ListenerInvariant, Generations, ListenerConfigs
    <2> QED BY <2>1, <2>2, <2>3, <2>4 DEF ListenerInvariant, Generations
  <1>3. Exposure'
    BY DEF ListenerInvariant, Exposure, Installed
  <1> QED BY <1>1, <1>2, <1>3 DEF ListenerInvariant

\* The custody after the commit: what was referenced is final, and the new
\* generation staged or final.
LEMMA CommittedCustody ==
    ASSUME ListenerInvariant, applied' = applied, material' = material + 1,
           desired'.tls = material + 1,
           \A g \in Referenced(desired', applied, material + 1) :
               files'[g] = "final" \/ (files'[g] = "staged" /\ g = material + 1)
    PROVE  CustodyKept'
  <1>1. applied.gen # 0 /\ applied.tls # 0 => applied.tls # material + 1
    BY AppliedConfig DEF ListenerInvariant, Types, Generations, ListenerConfigs
  <1>2. applied.gen # 0 /\ applied.tls # 0 => files'[applied.tls] = "final"
    BY <1>1, Zenon DEF Referenced
  <1> QED BY <1>2, Zenon DEF CustodyKept, Referenced

\* The custody while the database does not change.
LEMMA UnsettledCustody ==
    ASSUME ListenerInvariant, UNCHANGED <<desired, applied, material>>,
           \A g \in Referenced(desired, applied, material) : files'[g] \in {files[g], "final"}
    PROVE  CustodyKept'
  <1>1. applied.gen # 0 /\ applied.tls # 0 => files'[applied.tls] = "final"
    BY Zenon DEF Referenced, ListenerInvariant, CustodyKept
  <1>2. \A g \in Referenced(desired, applied, material) :
            files'[g] = "final" \/ (files'[g] = "staged" /\ g = material)
    BY Zenon DEF Referenced, ListenerInvariant, CustodyKept
  <1> QED BY <1>1, <1>2, Zenon DEF CustodyKept, Referenced

\* A rotation stages its files before it commits the reference to them.
LEMMA RotateTlsStep ==
    ASSUME ListenerInvariant, RotateTls
    PROVE  ListenerInvariant'
  <1> DEFINE fs == [Reconciled(files, Referenced(desired, applied, material))
                        EXCEPT ![material + 1] = "staged"]
             R2 == Referenced(desired', applied, material + 1)
  <1>1. /\ material < MaxRotations /\ desired.gen < MaxGeneration
        /\ material' = material + 1
        /\ desired' = [desired EXCEPT !.gen = @ + 1, !.tls = material + 1]
        /\ files' = Reconciled(fs, R2)
        /\ UNCHANGED <<applied, runVars, sup, custody>>
    BY DEF RotateTls, MayRotate
  <1>2. /\ desired' \in ListenerConfigs
        /\ desired'.gen = desired.gen + 1 /\ desired'.tls = material + 1
        /\ R2 \subseteq Referenced(desired, applied, material) \cup {material + 1}
    BY <1>1, RotatedReferences
  <1>3. /\ material + 1 \in TlsGenerations
        /\ fs \in [TlsGenerations -> {"none", "partial", "staged", "final"}]
        /\ \A g \in Referenced(desired, applied, material) \cup {material + 1} :
              fs[g] \in {"staged", "final"}
    BY <1>1, NewGeneration
  <1>4. R2 \subseteq TlsGenerations
    BY <1>2, <1>3, ReferencedFiles DEF ListenerInvariant
  <1>5. /\ files' \in [TlsGenerations -> {"none", "partial", "staged", "final"}]
        /\ \A g \in R2 : files'[g] = "final"
    <2> HIDE DEF fs, R2
    <2> QED BY <1>1, <1>2, <1>3, <1>4, ReconciledFiles
  <1> HIDE DEF fs
  <1>6. CustodyKept'
    BY <1>1, <1>2, <1>5, CommittedCustody
  <1> HIDE DEF R2
  <1>7. /\ desired.gen <= desired'.gen /\ desired'.gen <= MaxGeneration
        /\ material <= material' /\ material' <= MaxRotations /\ desired'.tls <= material'
        /\ material' \in Nat
    BY <1>1, <1>2, BoundAssumption DEF ListenerInvariant, Types, ListenerConfigs
  <1> QED BY <1>1, <1>2, <1>5, <1>6, <1>7, RotatedStep

\* Wherever a rotation stops, what the database refers to is kept.
LEMMA RotationStopsCustody ==
    ASSUME ListenerInvariant, RotationStops, applied' = applied
    PROVE  /\ desired' \in ListenerConfigs /\ material' \in Nat
           /\ files' \in [TlsGenerations -> {"none", "partial", "staged", "final"}]
           /\ desired.gen <= desired'.gen /\ desired'.gen <= MaxGeneration
           /\ material <= material' /\ material' <= MaxRotations /\ desired'.tls <= material'
           /\ CustodyKept'
  <1> DEFINE R == Referenced(desired, applied, material)
             fs(v) == [Reconciled(files, R) EXCEPT ![material + 1] = v]
  <1>1. material < MaxRotations /\ desired.gen < MaxGeneration
    BY DEF RotationStops, MayRotate
  <1>2. /\ desired \in ListenerConfigs /\ desired.gen \in Nat
        /\ material \in Nat /\ desired.tls <= material
    BY DEF ListenerInvariant, Types, Generations, ListenerConfigs
  <1>3. R \subseteq TlsGenerations /\ \A g \in R : files[g] \in {"staged", "final"}
    <2>1. R \subseteq TlsGenerations
      BY ReferencedFiles DEF ListenerInvariant
    <2> QED BY <2>1, Zenon DEF ListenerInvariant, CustodyKept, Referenced
  <1>4. material + 1 \in TlsGenerations
            /\ \A v \in {"partial", "staged"} :
                  /\ fs(v) \in [TlsGenerations -> {"none", "partial", "staged", "final"}]
                  /\ fs(v)[material + 1] = v
                  /\ \A g \in R : fs(v)[g] = "final"
    BY <1>1, NewGeneration
  <1>5. files \in [TlsGenerations -> {"none", "partial", "staged", "final"}]
    BY DEF ListenerInvariant, Types
  <1> HIDE DEF R, fs
  <1>6. CASE /\ UNCHANGED <<desired, material>>
             /\ \/ files' \in CutShort(files, R)
                \/ \E v \in {"partial", "staged"} : files' \in CutShort(fs(v), R)
    <2>1. /\ files' \in [TlsGenerations -> {"none", "partial", "staged", "final"}]
          /\ \A g \in R : files'[g] \in {files[g], "final"}
      <3>1. CASE files' \in CutShort(files, R)
        BY <1>3, <1>5, <3>1, CutShortFiles
      <3>2. CASE \E v \in {"partial", "staged"} : files' \in CutShort(fs(v), R)
        <4>1. PICK v \in {"partial", "staged"} : files' \in CutShort(fs(v), R)
          BY <3>2
        <4>2. /\ fs(v) \in [TlsGenerations -> {"none", "partial", "staged", "final"}]
              /\ \A g \in R : fs(v)[g] = "final"
          BY <1>4, Zenon
        <4> QED BY <1>3, <4>1, <4>2, CutShortFiles
      <3> QED BY <1>6, <3>1, <3>2
    <2>2. CustodyKept'
      BY <1>6, <2>1, UnsettledCustody, Zenon DEF R
    <2>3. desired'.gen <= MaxGeneration /\ material' <= MaxRotations
      BY <1>6 DEF ListenerInvariant, Generations
    <2> QED BY <1>2, <1>6, <2>1, <2>2, <2>3
  <1>7. CASE /\ material' = material + 1
             /\ desired' = [desired EXCEPT !.gen = @ + 1, !.tls = material + 1]
             /\ files' \in CutShort(fs("staged"), Referenced(desired', applied, material + 1))
    <2> DEFINE R2 == Referenced(desired', applied, material + 1)
    <2>1. /\ desired' \in ListenerConfigs
          /\ desired'.gen = desired.gen + 1 /\ desired'.tls = material + 1
          /\ R2 \subseteq R \cup {material + 1}
      BY <1>1, <1>7, RotatedReferences DEF R
    <2>2. /\ fs("staged") \in [TlsGenerations -> {"none", "partial", "staged", "final"}]
          /\ fs("staged")[material + 1] = "staged"
          /\ \A g \in R : fs("staged")[g] = "final"
      BY <1>4, Zenon
    <2>3. files' \in CutShort(fs("staged"), R2)
      BY <1>7
    <2> HIDE DEF R2
    <2>4. /\ R2 \subseteq TlsGenerations
          /\ \A g \in R2 : fs("staged")[g] \in {"staged", "final"}
      BY <1>3, <1>4, <2>1, <2>2, Zenon
    <2>5. /\ files' \in [TlsGenerations -> {"none", "partial", "staged", "final"}]
          /\ \A g \in R2 : files'[g] \in {fs("staged")[g], "final"}
      BY <2>2, <2>3, <2>4, CutShortFiles
    <2>6. \A g \in R2 : files'[g] = "final" \/ (files'[g] = "staged" /\ g = material + 1)
      BY <2>1, <2>2, <2>5, Zenon
    <2>7. CustodyKept'
      BY <1>7, <2>1, <2>6, CommittedCustody, Zenon DEF R2
    <2>8. /\ desired.gen <= desired'.gen /\ desired'.gen <= MaxGeneration
          /\ material <= material' /\ material' <= MaxRotations /\ desired'.tls <= material'
          /\ material' \in Nat
      BY <1>1, <1>2, <1>7, <2>1, BoundAssumption
    <2> QED BY <2>1, <2>5, <2>7, <2>8
  <1> QED BY <1>6, <1>7, Zenon DEF RotationStops, R, fs

\* A rotation that fails while the node goes on.
LEMMA RotationFailsStep ==
    ASSUME ListenerInvariant, RotationFails
    PROVE  ListenerInvariant'
  BY RotationStopsCustody, RotatedStep, Zenon DEF RotationFails

\* A process that starts: it serves nothing and has decided nothing, so only
\* the database and the files count.
LEMMA RestartedStep ==
    ASSUME ListenerInvariant, Restarted, applied' = applied,
           desired' \in ListenerConfigs, material' \in Nat,
           files' \in [TlsGenerations -> {"none", "partial", "staged", "final"}],
           desired.gen <= desired'.gen, desired'.gen <= MaxGeneration,
           material <= material', material' <= MaxRotations, desired'.tls <= material',
           CustodyKept'
    PROVE  ListenerInvariant'
  <1>1. Types'
    BY Zenon DEF ListenerInvariant, Types, Restarted, Starting, NoListener, NotApplied
  <1>2. Generations'
    <2>1. applied.gen \in Nat /\ desired.gen \in Nat /\ desired'.gen \in Nat
      BY DEF ListenerInvariant, Types, ListenerConfigs, NotApplied
    <2>2. applied.gen # 0 => applied.tls \in Nat
      BY AppliedConfig DEF ListenerInvariant, ListenerConfigs
    <2>3. material \in Nat /\ material' \in Nat
      BY DEF ListenerInvariant, Types
    <2> QED BY <2>1, <2>2, <2>3
            DEF ListenerInvariant, Generations, Restarted, Deciding, Publishing
  <1>3. Exposure'
    BY DEF ListenerInvariant, Exposure, Restarted, NoListener, Starting, Publishing
  <1> QED BY <1>1, <1>2, <1>3 DEF ListenerInvariant

\* A crash of the process leaves the database and the files as they are.
LEMMA CrashStep ==
    ASSUME ListenerInvariant, Crash
    PROVE  ListenerInvariant'
  <1>1. CustodyKept'
    BY Zenon DEF Crash, dbVars, ListenerInvariant, CustodyKept
  <1>2. /\ desired.gen \in Nat /\ desired.gen <= MaxGeneration
        /\ material \in Nat /\ material <= MaxRotations /\ desired.tls <= material
    BY DEF ListenerInvariant, Types, Generations, ListenerConfigs
  <1> QED BY <1>1, <1>2, RestartedStep DEF Crash, dbVars, ListenerInvariant, Types

\* A crash in a rotation leaves a generation nothing refers to, or a staged one.
LEMMA CrashInRotationStep ==
    ASSUME ListenerInvariant, CrashInRotation
    PROVE  ListenerInvariant'
  BY RotationStopsCustody, RestartedStep, Zenon DEF CrashInRotation

-----------------------------------------------------------------------------
(* Steps of the supervisor.                                                 *)

\* The applied columns are cleared, or a failed write leaves them.
LEMMA UnboundApplied ==
    ASSUME ListenerInvariant, Unbound, UNCHANGED <<desired, material>>
    PROVE  /\ applied' \in ListenerConfigs \cup {NotApplied}
           /\ applied'.gen <= desired'.gen
           /\ applied'.gen # 0 => applied'.tls <= material'
  <1>1. CASE applied' = applied
    BY <1>1 DEF ListenerInvariant, Types, Generations
  <1>2. CASE applied' = NotApplied
    BY <1>2 DEF ListenerInvariant, Types, ListenerConfigs, NotApplied
  <1> QED BY <1>1, <1>2, Zenon DEF Unbound

\* Nothing the database still refers to has moved.
LEMMA UnboundFiles ==
    ASSUME ListenerInvariant, Unbound, UNCHANGED <<desired, material>>,
           \A g \in Referenced(desired, applied, material) : files'[g] \in {files[g], "final"}
    PROVE  CustodyKept'
  <1>1. CASE applied' = applied
    BY <1>1, UnsettledCustody
  <1>2. CASE applied' = NotApplied
    BY <1>2, Zenon DEF ListenerInvariant, CustodyKept, NotApplied, Referenced
  <1> QED BY <1>1, <1>2, Zenon DEF Unbound

\* The listener is stopped, and the applied columns are cleared or left.
LEMMA InvalidateStep ==
    ASSUME ListenerInvariant, sup.pc \notin Publishing, Invalidate, UNCHANGED <<files, custody>>
    PROVE  ListenerInvariant'
  <1> USE DEF Invalidate, NextTick, Goto
  <1>1. Types'
    <2>1. runtime' \in [desired : Nat, applied : Nat]
      BY DEF ListenerInvariant, Types
    <2> QED BY <2>1, UnboundApplied DEF ListenerInvariant, Types
  <1>2. Generations'
    BY UnboundApplied DEF ListenerInvariant, Types, Generations, Deciding, Publishing
  <1>3. Exposure'
    BY DEF ListenerInvariant, Exposure, NoListener, Starting, Publishing
  <1>4. CustodyKept'
    BY UnboundFiles
  <1> QED BY <1>1, <1>2, <1>3, <1>4 DEF ListenerInvariant

\* The supervisor only moves on to its next tick.
LEMMA NextTickStep ==
    ASSUME ListenerInvariant, sup.pc \notin Publishing, NextTick,
           UNCHANGED <<dbVars, files, runVars, custody>>
    PROVE  ListenerInvariant'
  <1> USE DEF NextTick, Goto, dbVars, runVars
  <1>1. Types'
    BY DEF ListenerInvariant, Types
  <1>2. Generations'
    BY DEF ListenerInvariant, Generations, Deciding, Publishing
  <1>3. Exposure'
    BY DEF ListenerInvariant, Exposure, Starting, Publishing
  <1>4. CustodyKept'
    BY DEF ListenerInvariant, CustodyKept
  <1> QED BY <1>1, <1>2, <1>3, <1>4 DEF ListenerInvariant

\* Reconciling, at the start or a later tick, loses nothing that is referenced.
LEMMA ReconcileCustodyStep ==
    ASSUME ListenerInvariant, ReconcileCustody
    PROVE  ListenerInvariant'
  <1> DEFINE R == Referenced(desired, applied, material)
  <1>1. sup.pc \in {"start", "tick"} /\ UNCHANGED <<desired, material, runtime, active, staged>>
    BY DEF ReconcileCustody, At, runVars
  <1>2. CASE /\ files' = Reconciled(files, R)
             /\ custody' = TRUE
             /\ Goto(IF At("start") THEN "recover" ELSE "tick", NotApplied)
             /\ UNCHANGED applied
    <2>1. R \subseteq TlsGenerations
      BY ReferencedFiles DEF ListenerInvariant
    <2>2. \A g \in R : files[g] \in {"staged", "final"}
      BY DEF ListenerInvariant, CustodyKept, Referenced
    <2>3. /\ files' \in [TlsGenerations -> {"none", "partial", "staged", "final"}]
          /\ \A g \in R : files'[g] = "final"
      <3> HIDE DEF R
      <3> QED BY <1>2, <2>1, <2>2, ReconciledFiles DEF ListenerInvariant, Types
    <2>4. sup' = [pc |-> IF sup.pc = "start" THEN "recover" ELSE "tick", config |-> NotApplied]
      BY <1>2 DEF Goto, At
    <2>5. Types'
      BY <1>1, <1>2, <2>3, <2>4 DEF ListenerInvariant, Types, Starting
    <2>6. Generations'
      BY <1>1, <1>2, <2>4 DEF ListenerInvariant, Generations, Deciding, Publishing
    <2>7. Exposure'
      BY <1>1, <1>2, <2>4 DEF ListenerInvariant, Exposure, Starting, Publishing
    <2>8. CustodyKept'
      BY <1>1, <1>2, <2>3 DEF CustodyKept, Referenced
    <2> QED BY <2>5, <2>6, <2>7, <2>8 DEF ListenerInvariant
  <1>3. CASE /\ files' \in CutShort(files, R)
             /\ IF At("start") THEN Unbound ELSE UNCHANGED applied
             /\ NextTick
             /\ UNCHANGED custody
    <2>1. R \subseteq TlsGenerations
      BY ReferencedFiles DEF ListenerInvariant
    <2>2. \A g \in R : files[g] \in {"staged", "final"}
      BY DEF ListenerInvariant, CustodyKept, Referenced
    <2>3. /\ files' \in [TlsGenerations -> {"none", "partial", "staged", "final"}]
          /\ \A g \in R : files'[g] \in {files[g], "final"}
      <3> HIDE DEF R
      <3> QED BY <1>3, <2>1, <2>2, CutShortFiles DEF ListenerInvariant, Types
    <2>4. Unbound /\ (sup.pc = "tick" => applied' = applied)
      BY <1>1, <1>3, Zenon DEF Unbound, At
    <2>5. sup' = [pc |-> "tick", config |-> NotApplied] /\ custody' = custody
      BY <1>3 DEF NextTick, Goto
    <2>6. CustodyKept'
      BY <1>1, <2>3, <2>4, UnboundFiles
    <2> HIDE DEF R
    <2>7. Types'
      BY <1>1, <2>3, <2>4, <2>5, UnboundApplied DEF ListenerInvariant, Types
    <2>8. Generations'
      BY <1>1, <2>4, <2>5, UnboundApplied DEF ListenerInvariant, Generations, Deciding, Publishing
    <2>9. Exposure'
      BY <1>1, <2>4, <2>5 DEF ListenerInvariant, Exposure, Starting, Publishing
    <2> QED BY <2>6, <2>7, <2>8, <2>9 DEF ListenerInvariant
  <1> QED BY <1>2, <1>3, Zenon DEF ReconcileCustody

\* Nothing is served, the applied columns are cleared or left, and the supervisor
\* goes on to its first tick.
LEMMA NotRestored ==
    ASSUME ListenerInvariant, sup.pc \in Starting, Unbound, NextTick,
           UNCHANGED <<desired, material, files, runVars, custody>>
    PROVE  ListenerInvariant'
  <1> USE DEF NextTick, Goto, runVars
  <1>1. Types'
    BY UnboundApplied DEF ListenerInvariant, Types
  <1>2. Generations'
    BY UnboundApplied DEF ListenerInvariant, Generations, Deciding, Publishing
  <1>3. Exposure'
    BY DEF ListenerInvariant, Exposure, Starting, Publishing
  <1>4. CustodyKept'
    BY UnboundFiles
  <1> QED BY <1>1, <1>2, <1>3, <1>4 DEF ListenerInvariant

\* The columns of the last applied configuration are restorable, or are cleared.
LEMMA RecoverBindStep ==
    ASSUME ListenerInvariant, RecoverBind
    PROVE  ListenerInvariant'
  <1>1. /\ sup.pc = "recover"
        /\ UNCHANGED <<desired, material, files, runtime, active, staged, custody>>
    BY DEF RecoverBind, At, runVars
  <1>2. CASE Restorable /\ Goto("restore", desired) /\ UNCHANGED applied
    <2> USE <1>1, <1>2 DEF Goto
    <2>1. Types'
      BY DEF ListenerInvariant, Types, Starting
    <2>2. Generations'
      BY DEF ListenerInvariant, Generations, Deciding, Publishing
    <2>3. Exposure'
      BY DEF ListenerInvariant, Exposure, Starting, Publishing, Restorable
    <2>4. CustodyKept'
      BY DEF ListenerInvariant, CustodyKept
    <2> QED BY <2>1, <2>2, <2>3, <2>4 DEF ListenerInvariant
  <1>3. CASE Unbound /\ NextTick
    BY <1>1, <1>3, NotRestored DEF Starting, runVars
  <1> QED BY <1>2, <1>3 DEF RecoverBind

\* The last applied configuration is served, or its columns are cleared.
LEMMA RecoverServeStep ==
    ASSUME ListenerInvariant, RecoverServe
    PROVE  ListenerInvariant'
  <1>1. /\ sup.pc = "restore" /\ NextTick
        /\ UNCHANGED <<desired, material, files, staged, custody>>
    BY DEF RecoverServe, At
  <1>2. CASE /\ active' = Serving(applied, FALSE)
             /\ runtime' = [desired |-> desired.gen, applied |-> applied.gen]
             /\ UNCHANGED applied
    <2> USE <1>1, <1>2 DEF NextTick, Goto
    <2>1. applied \in ListenerConfigs
      BY AppliedConfig DEF ListenerInvariant, Exposure
    <2>2. active' \in ServingListeners /\ active'.config = applied /\ ~active'.paused
      BY <2>1 DEF Serving, ServingListeners
    <2>3. Types'
      BY <2>1, <2>2, Zenon DEF ListenerInvariant, Types, ListenerConfigs
    <2>4. Generations'
      BY <2>1 DEF ListenerInvariant, Types, Generations, Deciding, Publishing, ListenerConfigs
    <2>5. Exposure'
      BY <2>2, Zenon DEF ListenerInvariant, Exposure, Starting, Publishing
    <2>6. CustodyKept'
      BY DEF ListenerInvariant, CustodyKept
    <2> QED BY <2>3, <2>4, <2>5, <2>6 DEF ListenerInvariant
  <1>3. CASE Unbound /\ UNCHANGED <<active, runtime>>
    BY <1>1, <1>3, NotRestored DEF Starting, runVars
  <1> QED BY <1>2, <1>3, Zenon DEF RecoverServe

\* A tick reads the desired configuration, or stops everything without authority.
LEMMA ObserveStep ==
    ASSUME ListenerInvariant, Observe
    PROVE  ListenerInvariant'
  <1>1. sup.pc = "tick" /\ UNCHANGED <<files, custody>>
    BY DEF Observe, At
  <1>2. CASE Invalidate
    BY <1>1, <1>2, InvalidateStep DEF Publishing
  <1>3. CASE /\ Goto(IF desired.on THEN "enabled" ELSE "disabled", desired)
             /\ UNCHANGED <<dbVars, runVars>>
    <2> USE <1>1, <1>3 DEF Goto, dbVars, runVars
    <2>1. Types'
      BY DEF ListenerInvariant, Types, Deciding
    <2>2. Generations'
      BY DEF ListenerInvariant, Types, Generations, Deciding, Publishing, ListenerConfigs
    <2>3. Exposure'
      BY DEF ListenerInvariant, Exposure, Starting, Publishing
    <2>4. CustodyKept'
      BY DEF ListenerInvariant, CustodyKept
    <2> QED BY <2>1, <2>2, <2>3, <2>4 DEF ListenerInvariant
  <1> QED BY <1>2, <1>3 DEF Observe

\* prepare_generation notes the generation the supervisor works on.
LEMMA PreparedRuntime ==
    ASSUME ListenerInvariant, sup.pc \in {"enabled", "disabled"}, Prepared(sup.config),
           runtime' = [runtime EXCEPT !.desired = sup.config.gen]
    PROVE  /\ runtime' \in [desired : Nat, applied : Nat]
           /\ runtime'.desired = sup.config.gen /\ runtime'.applied = runtime.applied
           /\ runtime'.applied <= runtime'.desired /\ runtime'.desired <= desired.gen
  <1>1. /\ sup.config \in ListenerConfigs /\ sup.config.gen \in Nat
        /\ sup.config.gen <= desired.gen
    BY DEF ListenerInvariant, Generations, Deciding, ListenerConfigs
  <1>2. runtime \in [desired : Nat, applied : Nat]
    BY DEF ListenerInvariant, Types
  <1> QED BY <1>1, <1>2 DEF Prepared

\* The step from a decision to the publication: the active listener pauses and
\* a new one may be staged.
LEMMA ToPublish ==
    ASSUME ListenerInvariant, sup.pc \in {"enabled", "disabled"}, Prepared(sup.config),
           ~(active.serving /\ active.dead),
           runtime' = [runtime EXCEPT !.desired = sup.config.gen],
           active' = IF active.serving THEN Paused ELSE active,
           staged' \in {staged, Serving(Installed(sup.config), TRUE)},
           Goto("publish", sup.config),
           UNCHANGED <<dbVars, files, custody>>
    PROVE  ListenerInvariant'
  <1> USE DEF Goto, dbVars
  <1>1. sup.config \in ListenerConfigs /\ sup.config.gen <= desired.gen
    BY DEF ListenerInvariant, Generations, Deciding
  <1>2. active' \in ServingListeners \cup {NoListener}
            /\ (active'.serving => active.serving /\ active'.paused /\ active'.config = active.config)
    <2>1. CASE active.serving
      <3>1. active \in ServingListeners
        BY <2>1 DEF ListenerInvariant, Types, NoListener
      <3>2. active' = [active EXCEPT !.paused = TRUE]
        BY <2>1 DEF Paused
      <3> QED BY <2>1, <3>1, <3>2, Zenon DEF ServingListeners
    <2>2. CASE ~active.serving
      BY <2>2 DEF ListenerInvariant, Types
    <2> QED BY <2>1, <2>2
  <1>3. ~staged.serving
    BY DEF ListenerInvariant, Exposure, Publishing
  <1>4. staged' \in ServingListeners \cup {NoListener}
            /\ (staged'.serving => staged'.paused /\ staged'.config = Installed(sup.config))
    <2>1. Serving(Installed(sup.config), TRUE) \in ServingListeners
      BY <1>1, InstalledConfig DEF Serving, ServingListeners
    <2>2. CASE staged' = staged
      BY <1>3, <2>2 DEF ListenerInvariant, Types
    <2>3. CASE staged' = Serving(Installed(sup.config), TRUE)
      BY <2>1, <2>3 DEF Serving
    <2> QED BY <2>2, <2>3, Zenon
  <1>5. Types'
    BY <1>1, <1>2, <1>4, PreparedRuntime DEF ListenerInvariant, Types, Deciding, Publishing
  <1>6. Generations'
    BY <1>1, PreparedRuntime DEF ListenerInvariant, Generations, Deciding, Publishing
  <1>7. Exposure'
    BY <1>2, <1>4 DEF ListenerInvariant, Exposure, Starting, Publishing, Installed
  <1>8. CustodyKept'
    BY DEF ListenerInvariant, CustodyKept
  <1> QED BY <1>5, <1>6, <1>7, <1>8 DEF ListenerInvariant

\* The active listener pauses and a new one is staged for another address.
LEMMA StageStep ==
    ASSUME ListenerInvariant, Stage
    PROVE  ListenerInvariant'
  <1> DEFINE c == sup.config
             sameBind == active.serving /\ active.config.bind = c.bind
  <1>1. sup.pc = "enabled" /\ UNCHANGED <<files, custody>>
    BY DEF Stage, At
  <1>2. CASE Invalidate
    BY <1>1, <1>2, InvalidateStep DEF Publishing
  <1>3. CASE NextTick /\ UNCHANGED <<dbVars, runVars>>
    BY <1>1, <1>3, NextTickStep DEF Publishing
  <1>4. CASE /\ ~(active.serving /\ active.dead)
             /\ Prepared(c)
             /\ runtime' = [runtime EXCEPT !.desired = c.gen]
             /\ active' = IF active.serving THEN Paused ELSE active
             /\ staged' = IF sameBind THEN staged ELSE Serving(Installed(c), TRUE)
             /\ Goto("publish", c)
             /\ UNCHANGED dbVars
    BY <1>1, <1>4, ToPublish
  <1>5. CASE /\ Prepared(c)
             /\ runtime' = [runtime EXCEPT !.desired = c.gen]
             /\ NextTick
             /\ UNCHANGED <<active, staged, dbVars>>
    <2> USE <1>1, <1>5 DEF NextTick, Goto, dbVars
    <2>1. Types'
      BY PreparedRuntime DEF ListenerInvariant, Types
    <2>2. Generations'
      BY PreparedRuntime DEF ListenerInvariant, Generations, Deciding, Publishing
    <2>3. Exposure'
      BY DEF ListenerInvariant, Exposure, Starting, Publishing
    <2>4. CustodyKept'
      BY DEF ListenerInvariant, CustodyKept
    <2> QED BY <2>1, <2>2, <2>3, <2>4 DEF ListenerInvariant
  <1> QED BY <1>2, <1>3, <1>4, <1>5, Zenon DEF Stage

\* A disabled configuration pauses the active listener until it is published.
LEMMA StageDisabledStep ==
    ASSUME ListenerInvariant, StageDisabled
    PROVE  ListenerInvariant'
  <1>1. sup.pc = "disabled" /\ UNCHANGED <<dbVars, files, custody>>
    BY DEF StageDisabled, At
  <1>2. CASE NextTick /\ UNCHANGED runVars
    BY <1>1, <1>2, NextTickStep DEF Publishing
  <1>3. CASE /\ Prepared(sup.config) /\ ~(active.serving /\ active.dead)
             /\ runtime' = [runtime EXCEPT !.desired = sup.config.gen]
             /\ active' = IF active.serving THEN Paused ELSE active
             /\ Goto("publish", sup.config)
             /\ UNCHANGED staged
    BY <1>1, <1>3, ToPublish
  <1> QED BY <1>2, <1>3 DEF StageDisabled

\* The applied columns are written while no listener accepts, or all is undone.
LEMMA PublishStep ==
    ASSUME ListenerInvariant, Publish
    PROVE  ListenerInvariant'
  <1> DEFINE c == sup.config
  <1>1. /\ sup.pc = "publish"
        /\ UNCHANGED <<desired, material, files, runtime, custody>>
        /\ c \in ListenerConfigs /\ c.gen <= desired.gen /\ runtime.desired = c.gen
    BY DEF Publish, At, ListenerInvariant, Generations, Deciding, Publishing
  <1>2. CASE /\ SameDesired(c) /\ (c.on => Valid(c))
             /\ applied' = Installed(c)
             /\ Goto("switch", c)
             /\ UNCHANGED <<active, staged>>
    <2> USE <1>1, <1>2 DEF Goto, SameDesired
    <2>1. /\ applied' \in ListenerConfigs /\ applied'.gen = desired.gen
          /\ applied'.tls \in {0, desired.tls}
      BY InstalledConfig
    <2>2. Types'
      BY <2>1 DEF ListenerInvariant, Types, Deciding, Publishing
    <2>3. Generations'
      BY <2>1 DEF ListenerInvariant, Types, Generations, Deciding, Publishing, ListenerConfigs
    <2>4. Exposure'
      BY DEF ListenerInvariant, Exposure, Starting, Publishing, Installed
    <2>5. applied'.tls # 0 => files[applied'.tls] = "final"
      <3>1. CASE c.on /\ c.mode = "tls"
        BY <3>1 DEF Installed, Valid
      <3>2. CASE ~(c.on /\ c.mode = "tls")
        BY <3>2 DEF Installed, ListenerConfigs
      <3> QED BY <3>1, <3>2
    <2>6. CustodyKept'
      BY <2>1, <2>5, Zenon DEF ListenerInvariant, CustodyKept
    <2> QED BY <2>2, <2>3, <2>4, <2>6 DEF ListenerInvariant
  <1>3. CASE /\ active' = Resumed(active)
             /\ staged' = NoListener
             /\ NextTick
             /\ UNCHANGED applied
    <2> USE <1>1, <1>3 DEF NextTick, Goto
    <2>1. /\ active' \in ServingListeners \cup {NoListener}
          /\ active'.serving => active.serving /\ active'.config = active.config
                                    /\ active'.dead = active.dead
      <3>1. CASE active.serving
        BY <3>1, Zenon DEF ListenerInvariant, Types, Resumed, ServingListeners, NoListener
      <3>2. CASE ~active.serving
        BY <3>2 DEF ListenerInvariant, Types, Resumed
      <3> QED BY <3>1, <3>2
    <2>2. Types'
      BY <2>1 DEF ListenerInvariant, Types
    <2>3. Generations'
      BY DEF ListenerInvariant, Generations, Deciding, Publishing
    <2>4. Exposure'
      BY <2>1 DEF ListenerInvariant, Exposure, Starting, Publishing, NoListener
    <2>5. CustodyKept'
      BY DEF ListenerInvariant, CustodyKept
    <2> QED BY <2>2, <2>3, <2>4, <2>5 DEF ListenerInvariant
  <1> QED BY <1>2, <1>3 DEF Publish

\* What was published is served: the staged listener, the rebuilt one or none.
LEMMA SwitchStep ==
    ASSUME ListenerInvariant, Switch
    PROVE  ListenerInvariant'
  <1> DEFINE c == sup.config
  <1>1. /\ sup.pc = "switch" /\ NextTick
        /\ staged' = NoListener
        /\ runtime' = [runtime EXCEPT !.applied = c.gen]
        /\ UNCHANGED <<desired, applied, material, files, custody>>
        /\ c \in ListenerConfigs /\ c.gen <= desired.gen /\ runtime.desired = c.gen
        /\ applied = Installed(c)
    BY DEF Switch, At, dbVars, ListenerInvariant, Generations, Exposure, Deciding, Publishing
  <1>2. /\ active' \in ServingListeners \cup {NoListener}
        /\ active'.serving => active'.config = applied
    <2>1. CASE ~c.on
      BY <2>1 DEF Switch, NoListener
    <2>2. CASE c.on /\ staged.serving
      <3>1. staged \in ServingListeners /\ staged.config = applied
        BY <1>1, <2>2 DEF ListenerInvariant, Types, Exposure, NoListener
      <3>2. active' = [staged EXCEPT !.paused = FALSE]
        BY <2>2 DEF Switch
      <3> QED BY <3>1, <3>2, Zenon DEF ServingListeners
    <2>3. CASE c.on /\ ~staged.serving
      <3>1. active' = Serving(Installed(c), FALSE)
        BY <2>3 DEF Switch
      <3> QED BY <1>1, <3>1, InstalledConfig DEF Serving, ServingListeners
    <2> QED BY <2>1, <2>2, <2>3
  <1>3. /\ runtime' \in [desired : Nat, applied : Nat]
        /\ runtime'.desired = c.gen /\ runtime'.applied = c.gen /\ c.gen \in Nat
    BY <1>1 DEF ListenerInvariant, Types, ListenerConfigs
  <1> USE DEF NextTick, Goto
  <1>4. Types'
    BY <1>1, <1>2, <1>3 DEF ListenerInvariant, Types
  <1>5. Generations'
    BY <1>1, <1>3 DEF ListenerInvariant, Generations, Deciding, Publishing
  <1>6. Exposure'
    BY <1>1, <1>2 DEF ListenerInvariant, Exposure, Starting, Publishing, NoListener
  <1>7. CustodyKept'
    BY <1>1 DEF ListenerInvariant, CustodyKept
  <1> QED BY <1>4, <1>5, <1>6, <1>7 DEF ListenerInvariant

-----------------------------------------------------------------------------
(* Theorems.                                                                *)

\* Every step of the operators, the supervisor and the world preserves it.
LEMMA NextInvariant == ListenerInvariant /\ [Next]_vars => ListenerInvariant'
  <1> SUFFICES ASSUME ListenerInvariant, [Next]_vars PROVE ListenerInvariant' OBVIOUS
  <1>1. CASE \E on \in BOOLEAN, bind \in Binds, mode \in Modes : Configure(on, bind, mode)
    BY <1>1, ConfigureStep
  <1>2. CASE Disable
    BY <1>2, DisableStep
  <1>3. CASE RotateTls
    BY <1>3, RotateTlsStep
  <1>4. CASE RotationFails \/ CrashInRotation
    BY <1>4, RotationFailsStep, CrashInRotationStep
  <1>5. CASE Crash
    BY <1>5, CrashStep
  <1>6. CASE Supervise
    BY <1>6, ReconcileCustodyStep, RecoverBindStep, RecoverServeStep, ObserveStep, StageStep,
       StageDisabledStep, PublishStep, SwitchStep DEF Supervise
  <1>7. CASE ListenerDies
    BY <1>7, ListenerDiesStep
  <1>8. CASE \/ LoseAuthority \/ RegainAuthority
             \/ \E b \in Binds : LoseAddress(b) \/ RegainAddress(b)
    BY <1>8, WorldStep DEF LoseAuthority, RegainAuthority, LoseAddress, RegainAddress
  <1>9. CASE UNCHANGED vars
    BY <1>9, WorldStep DEF vars
  <1> QED BY <1>1, <1>2, <1>3, <1>4, <1>5, <1>6, <1>7, <1>8, <1>9 DEF Next

\* The tables, the listener in memory and the supervisor's program counter agree:
\* the inductive invariant the two results below rest on.
THEOREM ListenerInvariantHolds == Spec => []ListenerInvariant
  BY InitInvariant, NextInvariant, PTL DEF Spec

\* A listener that accepts peers serves exactly the configuration that the
\* database names as applied, at every moment of a transition, a recovery or a
\* crash, and the generations are in order (ingress.rs, transition.rs).
THEOREM ExposedOnlyWhenApplied == Spec => []ExposedIsApplied
  <1>1. ListenerInvariant => ExposedIsApplied
    <2> SUFFICES ASSUME ListenerInvariant PROVE ExposedIsApplied OBVIOUS
    <2>1. TypeOK
      <3>1. desired.gen \in 0 .. MaxGeneration /\ material \in 0 .. MaxRotations
        BY BoundAssumption DEF ListenerInvariant, Types, Generations, ListenerConfigs
      <3>2. applied.gen \in 0 .. desired.gen
        BY DEF ListenerInvariant, Types, Generations, ListenerConfigs, NotApplied
      <3> QED BY <3>1, <3>2
              DEF TypeOK, ListenerInvariant, Types, Generations, Exposure, Publishing
    <2>2. \A l \in Listeners : Accepting(l) => l.config = applied
      BY DEF Listeners, Accepting, ListenerInvariant, Exposure, Publishing
    <2> QED BY <2>1, <2>2 DEF ExposedIsApplied
  <1> QED BY <1>1, ListenerInvariantHolds, PTL

\* Wherever a rotation or a reconciliation stops, by an error the node survives
\* or by a crash, the TLS generations the database refers to are complete on
\* disk, and the applied one is in its final place (catalog.rs,
\* ingress_listener.rs, reconcile_ingress_tls_custody).
THEOREM TlsMaterialKept == Spec => []CustodyKept
  <1>1. ListenerInvariant => CustodyKept
    BY DEF ListenerInvariant
  <1> QED BY <1>1, ListenerInvariantHolds, PTL
=============================================================================
