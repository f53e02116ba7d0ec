---------------------------- MODULE IngressListener ----------------------------
(***************************************************************************)
(* The life of the ingress listener: the operator's desired configuration, *)
(* the custody of its TLS material on disk, and the supervisor that brings *)
(* the running socket to the desired generation across failures and        *)
(* restarts.                                                               *)
(*                                                                         *)
(*   core/ops/src/ops/ingress_listener_ops.rs  configure, disable, rotate  *)
(*   core/ops/src/ingress_listener.rs          durable state, TLS custody  *)
(*   apps/node/src/ingress.rs                  the supervisor              *)
(*   ingest/http/src/transition.rs             generations of the runtime  *)
(*   ingest/http/src/lib.rs                    the accept loop             *)
(*                                                                         *)
(* One database handle serializes every transaction, so an operation is    *)
(* one step; a rotation writes files too and may stop anywhere in between, *)
(* by an error or by a crash.  The supervisor is a task: it is modelled    *)
(* from await to await.                                                    *)
(* A connection that was accepted keeps its policy until it ends; only the *)
(* accepting of new ones is modelled.                                      *)
(***************************************************************************)
EXTENDS Integers, FiniteSets

CONSTANTS
    Binds,          \* bind addresses an operator may configure
    Modes,          \* "tls", "private_plaintext"
    MaxGeneration,  \* bound: operations that move the desired generation
    MaxRotations,   \* bound: TLS generations
    MaxCrashes,     \* bound: crashes of the node
    MaxFaults       \* bound: authority losses, address losses, failed calls, dead listeners

ASSUME BoundAssumption ==
    /\ Modes \subseteq {"tls", "private_plaintext"}
    /\ {MaxGeneration, MaxRotations, MaxCrashes, MaxFaults} \subseteq Nat

VARIABLES
    desired,    \* the desired columns of ingress_listener_config
    applied,    \* its applied columns
    material,   \* generation of the approved TLS material, 0 without any
    files,      \* TLS generation -> what the custody directory holds of it
    authority,  \* the node may use the network (ownership, control API TLS)
    addresses,  \* bind addresses present on the interface
    runtime,    \* ListenerTransition: desired and applied generation
    active,     \* the serving listener the supervisor holds
    staged,     \* the listener it has bound and not yet switched to
    sup,        \* where the supervisor stands, and the configuration it read
    custody,    \* the custody directory was reconciled since the start
    crashes, faults

dbVars == <<desired, applied, material>>
worldVars == <<authority, addresses>>
runVars == <<runtime, active, staged>>
vars == <<dbVars, files, worldVars, runVars, sup, custody, crashes, faults>>

TlsGenerations == 1 .. MaxRotations

NoListener == [serving |-> FALSE]
Serving(c, paused) == [serving |-> TRUE, config |-> c, paused |-> paused, dead |-> FALSE]
NotApplied == [gen |-> 0]

-----------------------------------------------------------------------------
(* Durable state and TLS custody.                                           *)

(* Mutant: the generation of the running listener is not retained. *)
Referenced_NotApplied(d, a, m) == {m, d.tls} \ {0}

Referenced(d, a, m) == {m, d.tls, IF a.gen = 0 THEN 0 ELSE a.tls} \ {0}

\* reconcile_ingress_tls_custody: referenced staging directories are promoted,
\* unreferenced directories of both kinds removed.
Reconciled(fs, referenced) ==
    [g \in TlsGenerations |->
        CASE g \notin referenced -> "none"
          [] g \in referenced /\ fs[g] = "staged" -> "final"
          [] g \in referenced /\ fs[g] = "partial" -> "torn"
          [] OTHER -> fs[g]]

\* What is left when that stops short.  The promotions come first; a directory
\* that is removed may lose only some of its files.
CutShort(fs, referenced) ==
    LET done == Reconciled(fs, referenced)
    IN  {left \in [TlsGenerations -> {"none", "partial", "staged", "final", "torn"}] :
            /\ \A g \in referenced \cap TlsGenerations : left[g] \in {fs[g], done[g]}
            /\ \A g \in TlsGenerations \ referenced :
                  \/ left[g] = fs[g]
                  \/ /\ left[g] \in {"partial", "none"} /\ fs[g] # "none"
                     /\ \A h \in referenced \cap TlsGenerations : left[h] = done[h]}

\* build_validated_config: the address is on the interface and, for TLS, the
\* certificate and key of the generation can be read.
Valid(c) ==
    /\ c.bind \in addresses
    /\ c.mode = "tls" => c.tls # 0 /\ files[c.tls] = "final"

\* The recheck compares the desired columns with those the supervisor read.
SameDesired(c) == desired = c

\* The applied columns copy the desired ones; a TLS generation is installed
\* only by an enabled TLS configuration.
Installed(c) == IF c.on /\ c.mode = "tls" THEN c ELSE [c EXCEPT !.tls = 0]

-----------------------------------------------------------------------------
(* Operations.                                                              *)

Configure(on, bind, mode) ==
    /\ desired.gen < MaxGeneration
    /\ mode = "tls" => material # 0
    /\ desired' = [gen |-> desired.gen + 1, on |-> on, bind |-> bind, mode |-> mode,
                   tls |-> IF mode = "tls" THEN material ELSE 0]
    /\ UNCHANGED <<applied, material, files, worldVars, runVars, sup, custody, crashes, faults>>

Disable ==
    /\ desired.gen < MaxGeneration
    /\ desired' = [desired EXCEPT !.gen = @ + 1, !.on = FALSE]
    /\ UNCHANGED <<applied, material, files, worldVars, runVars, sup, custody, crashes, faults>>

MayRotate == desired.gen < MaxGeneration /\ material < MaxRotations

\* The whole dispatch: custody is reconciled, the new generation staged, the
\* transaction committed and the generation promoted.
RotateTls ==
    /\ MayRotate
    /\ LET g == material + 1
       IN  /\ material' = g
           /\ desired' = [desired EXCEPT !.gen = @ + 1, !.tls = g]
           /\ files' = Reconciled([Reconciled(files, Referenced(desired, applied, material))
                                       EXCEPT ![g] = "staged"],
                                  Referenced(desired', applied, g))
    /\ UNCHANGED <<applied, worldVars, runVars, sup, custody, crashes, faults>>

\* The dispatch ends early: in the first reconciliation, while it stages or
\* before the commit, with the staging directory cleaned up or not, or after
\* the commit, with the generation promoted or not.
RotationStops ==
    /\ MayRotate
    /\ LET g == material + 1
           old == Referenced(desired, applied, material)
           Writing(state) == [Reconciled(files, old) EXCEPT ![g] = state]
       IN  \/ /\ \/ files' \in CutShort(files, old)
                 \/ \E state \in {"partial", "staged"} : files' \in CutShort(Writing(state), old)
              /\ UNCHANGED <<desired, material>>
           \/ /\ material' = g
              /\ desired' = [desired EXCEPT !.gen = @ + 1, !.tls = g]
              /\ files' \in CutShort(Writing("staged"), Referenced(desired', applied, g))

Fault == faults < MaxFaults /\ faults' = faults + 1

\* An I/O or database error: the node goes on, and the supervisor does not
\* reconcile again.
RotationFails ==
    /\ Fault
    /\ RotationStops
    /\ UNCHANGED <<applied, worldVars, runVars, sup, custody, crashes>>

\* A process that starts has nothing but the database and the files.
Restarted ==
    /\ runtime' = [desired |-> 0, applied |-> 0]
    /\ active' = NoListener /\ staged' = NoListener
    /\ sup' = [pc |-> "start", config |-> NotApplied]
    /\ custody' = FALSE
    /\ crashes' = crashes + 1

\* The node stops in the middle of a rotation.
CrashInRotation ==
    /\ crashes < MaxCrashes
    /\ RotationStops
    /\ Restarted
    /\ UNCHANGED <<applied, worldVars, faults>>

Crash ==
    /\ crashes < MaxCrashes
    /\ sup.pc # "start"
    /\ Restarted
    /\ UNCHANGED <<dbVars, files, worldVars, faults>>

-----------------------------------------------------------------------------
(* The supervisor.                                                          *)

At(label) == sup.pc = label
Goto(label, c) == sup' = [pc |-> label, config |-> c]
NextTick == Goto("tick", NotApplied)

\* mark_ingress_runtime_unbound: a write that fails is ignored.
Unbound == applied' \in {NotApplied, applied}

(* Mutant: an invalidated runtime still counts its generation as applied. *)
Invalidate_KeepsGeneration ==
    /\ active' = NoListener
    /\ Unbound
    /\ NextTick
    /\ UNCHANGED <<desired, material, runtime, staged>>

\* invalidate: the listener is dropped and the applied generation forgotten,
\* at run time and in the database.
Invalidate ==
    /\ active' = NoListener
    /\ runtime' = [runtime EXCEPT !.applied = 0]
    /\ Unbound
    /\ NextTick
    /\ UNCHANGED <<desired, material, staged>>

\* The custody directory is reconciled once, at the start or at a later tick.
ReconcileCustody ==
    /\ \/ At("start")
       \/ At("tick") /\ ~custody
    /\ \/ /\ files' = Reconciled(files, Referenced(desired, applied, material))
          /\ custody' = TRUE
          /\ Goto(IF At("start") THEN "recover" ELSE "tick", NotApplied)
          /\ UNCHANGED <<applied, faults>>
       \/ /\ Fault
          /\ files' \in CutShort(files, Referenced(desired, applied, material))
          /\ IF At("start") THEN Unbound ELSE UNCHANGED applied
          /\ NextTick
          /\ UNCHANGED custody
    /\ UNCHANGED <<desired, material, worldVars, runVars, crashes>>

Restorable == authority /\ desired.on /\ applied.gen # 0 /\ Valid(applied)

\* recover_last_applied up to the bound socket; the bind may fail.  What was
\* applied is restored when the desired configuration is enabled; the applied
\* columns do not tell whether their generation was.
RecoverBind ==
    /\ At("recover")
    /\ \/ /\ Restorable
          /\ Goto("restore", desired)
          /\ UNCHANGED <<applied, faults>>
       \/ /\ IF Restorable THEN Fault ELSE UNCHANGED faults
          /\ Unbound
          /\ NextTick
    /\ UNCHANGED <<desired, material, files, worldVars, runVars, custody, crashes>>

\* The recheck of the authority, then the listener serves.
RecoverServe ==
    /\ At("restore")
    /\ \/ /\ authority /\ SameDesired(sup.config) /\ Valid(applied)
          /\ active' = Serving(applied, FALSE)
          /\ runtime' = [desired |-> desired.gen, applied |-> applied.gen]
          /\ UNCHANGED applied
       \/ /\ ~(authority /\ SameDesired(sup.config) /\ Valid(applied))
          /\ Unbound
          /\ UNCHANGED <<active, runtime>>
    /\ NextTick
    /\ UNCHANGED <<desired, material, files, worldVars, staged, custody, crashes, faults>>

\* observe_authority at a tick, and the first branch of the supervisor.
Observe ==
    /\ At("tick") /\ custody
    /\ \/ /\ ~authority
          /\ Invalidate
       \/ /\ authority
          /\ Goto(IF desired.on THEN "enabled" ELSE "disabled", desired)
          /\ UNCHANGED <<dbVars, runVars>>
    /\ UNCHANGED <<files, worldVars, custody, crashes, faults>>

\* prepare_generation
Prepared(c) == c.gen > runtime.applied

(* Mutant: the old listener accepts peers while its successor is published. *)
Paused_Not == active

Paused == [active EXCEPT !.paused = TRUE]
Resumed(l) == IF l.serving THEN [l EXCEPT !.paused = FALSE] ELSE l

\* The enabled branch up to the publication: a listener that exited is
\* invalidated, an applied one is validated again, a new generation is staged
\* on the bound socket or on a new one and the old listener pauses.
Stage ==
    /\ At("enabled")
    /\ LET c == sup.config
           settled == active.serving /\ runtime.applied = c.gen
           sameBind == active.serving /\ active.config.bind = c.bind
       IN  \/ /\ active.serving /\ active.dead
              /\ Invalidate
              /\ UNCHANGED faults
           \/ /\ ~(active.serving /\ active.dead)
              /\ settled
              /\ IF Valid(c) THEN NextTick /\ UNCHANGED <<dbVars, runVars>> ELSE Invalidate
              /\ UNCHANGED faults
           \/ /\ ~(active.serving /\ active.dead)
              /\ ~settled
              /\ ~(Prepared(c) /\ Valid(c))
              /\ NextTick
              /\ UNCHANGED <<dbVars, runVars, faults>>
           \/ /\ ~(active.serving /\ active.dead)
              /\ ~settled /\ Prepared(c) /\ Valid(c)
              /\ runtime' = [runtime EXCEPT !.desired = c.gen]
              /\ \/ /\ active' = IF active.serving THEN Paused ELSE active
                    /\ staged' = IF sameBind THEN staged ELSE Serving(Installed(c), TRUE)
                    /\ Goto("publish", c)
                    /\ UNCHANGED faults
                 \/ /\ ~sameBind
                    /\ Fault
                    /\ NextTick
                    /\ UNCHANGED <<active, staged>>
              /\ UNCHANGED dbVars
    /\ UNCHANGED <<files, worldVars, custody, crashes>>

\* The disabled branch up to the publication.
StageDisabled ==
    /\ At("disabled")
    /\ LET c == sup.config
           off == ~active.serving /\ runtime.applied = c.gen
           stuck == active.serving /\ active.dead
       IN  IF off \/ ~Prepared(c) \/ stuck
           THEN /\ NextTick
                /\ UNCHANGED runVars
           ELSE /\ runtime' = [runtime EXCEPT !.desired = c.gen]
                /\ active' = IF active.serving THEN Paused ELSE active
                /\ Goto("publish", c)
                /\ UNCHANGED staged
    /\ UNCHANGED <<dbVars, files, worldVars, custody, crashes, faults>>

\* publish_applied_if_authorized: the authority is rechecked and the desired
\* columns become the applied ones in one transaction.  On any refusal the old
\* listener resumes and the staged one is shut down.
Publish ==
    /\ At("publish")
    /\ LET c == sup.config
           allowed == authority /\ SameDesired(c) /\ (c.on => Valid(c))
       IN  \/ /\ allowed
              /\ applied' = Installed(c)
              /\ Goto("switch", c)
              /\ UNCHANGED <<active, staged, faults>>
           \/ /\ IF allowed THEN Fault ELSE UNCHANGED faults
              /\ active' = Resumed(active)
              /\ staged' = NoListener
              /\ NextTick
              /\ UNCHANGED applied
    /\ UNCHANGED <<desired, material, files, worldVars, runtime, custody, crashes>>

\* After the publication the new generation is served: by the staged listener,
\* by the old socket under the new policy, or by none.  The old listener is
\* paused and ends.
Switch ==
    /\ At("switch")
    /\ LET c == sup.config
       IN  /\ active' = IF ~c.on THEN NoListener
                        ELSE IF staged.serving THEN [staged EXCEPT !.paused = FALSE]
                        ELSE Serving(Installed(c), FALSE)
           /\ runtime' = [runtime EXCEPT !.applied = c.gen]
    /\ staged' = NoListener
    /\ NextTick
    /\ UNCHANGED <<dbVars, files, worldVars, custody, crashes, faults>>

-----------------------------------------------------------------------------
(* The world.                                                               *)

\* The accept loop ends with an error; it only accepts while not paused.
ListenerDies ==
    /\ Fault
    /\ active.serving /\ ~active.paused /\ ~active.dead
    /\ active' = [active EXCEPT !.dead = TRUE]
    /\ UNCHANGED <<dbVars, files, worldVars, runtime, staged, sup, custody, crashes>>

LoseAuthority ==
    /\ authority /\ Fault
    /\ authority' = FALSE
    /\ UNCHANGED <<dbVars, files, addresses, runVars, sup, custody, crashes>>

RegainAuthority ==
    /\ ~authority
    /\ authority' = TRUE
    /\ UNCHANGED <<dbVars, files, addresses, runVars, sup, custody, crashes, faults>>

LoseAddress(b) ==
    /\ b \in addresses /\ Fault
    /\ addresses' = addresses \ {b}
    /\ UNCHANGED <<dbVars, files, authority, runVars, sup, custody, crashes>>

RegainAddress(b) ==
    /\ b \notin addresses
    /\ addresses' = addresses \cup {b}
    /\ UNCHANGED <<dbVars, files, authority, runVars, sup, custody, crashes, faults>>

-----------------------------------------------------------------------------
Init ==
    /\ desired = [gen |-> 0, on |-> FALSE, bind |-> "unset", mode |-> "tls", tls |-> 0]
    /\ applied = NotApplied
    /\ material = 0
    /\ files = [g \in TlsGenerations |-> "none"]
    /\ authority = TRUE
    /\ addresses = Binds
    /\ runtime = [desired |-> 0, applied |-> 0]
    /\ active = NoListener
    /\ staged = NoListener
    /\ sup = [pc |-> "start", config |-> NotApplied]
    /\ custody = FALSE
    /\ crashes = 0 /\ faults = 0

Supervise ==
    \/ ReconcileCustody
    \/ RecoverBind
    \/ RecoverServe
    \/ Observe
    \/ Stage
    \/ StageDisabled
    \/ Publish
    \/ Switch

Next ==
    \/ \E on \in BOOLEAN, bind \in Binds, mode \in Modes : Configure(on, bind, mode)
    \/ Disable
    \/ RotateTls
    \/ RotationFails
    \/ CrashInRotation
    \/ Crash
    \/ Supervise
    \/ ListenerDies
    \/ LoseAuthority
    \/ RegainAuthority
    \/ \E b \in Binds : LoseAddress(b) \/ RegainAddress(b)

Spec == Init /\ [][Next]_vars

\* The supervisor's task is scheduled.
FairSpec == Spec /\ WF_vars(Supervise)

-----------------------------------------------------------------------------
(* Properties.                                                              *)

Listeners == {l \in {active, staged} : l.serving}
Accepting(l) == ~l.paused /\ ~l.dead

\* Every generation that has a number is consistent: the applied one is not
\* ahead of the desired one, neither in the database nor at run time.
TypeOK ==
    /\ desired.gen \in 0 .. MaxGeneration
    /\ applied.gen \in 0 .. desired.gen
    /\ material \in 0 .. MaxRotations
    /\ runtime.applied <= runtime.desired /\ runtime.desired <= desired.gen
    /\ staged.serving => staged.paused /\ sup.pc \in {"publish", "switch"}
    /\ \A g \in TlsGenerations : files[g] \in {"none", "partial", "staged", "final"}

\* A configuration reaches the network only after the database names it as
\* the applied one, so that a crash at any moment recovers what was exposed:
\* a listener that accepts peers serves exactly the durably applied state.
ExposedIsApplied == TypeOK /\ \A l \in Listeners : Accepting(l) => l.config = applied

\* Wherever a rotation stops, by an error or a crash, no TLS material the
\* database refers to is lost: all of it is in its final place but the newest,
\* which may wait complete in its staging directory, and the generation that
\* was applied can always be read, so that a failed switchover finds the last
\* safe key.
CustodyKept ==
    /\ \A g \in {material, desired.tls, IF applied.gen = 0 THEN 0 ELSE applied.tls} \ {0} :
          files[g] = "final" \/ (files[g] = "staged" /\ g = material)
    /\ applied.gen # 0 /\ applied.tls # 0 => files[applied.tls] = "final"

\* What an enabled, valid configuration calls for.
Wanted == desired.on /\ authority /\ Valid(desired)

\* When the operator and the world leave it alone, the supervisor ends with a
\* listener that accepts under the desired generation, or with none when the
\* listener is disabled or the network authority is gone.
Converges ==
    <>[](/\ Wanted => active.serving /\ Accepting(active) /\ active.config.gen = desired.gen
         /\ ~(desired.on /\ authority) => \A l \in Listeners : ~Accepting(l))

\* A restart restores the listener that was last applied.  A generation that
\* was applied as disabled had no listener and is not served.  It does not hold
\* of the code: see the README.
DisabledIsNotServed == \A l \in Listeners : Accepting(l) => l.config.on
=============================================================================
