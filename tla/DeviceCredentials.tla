-------------------------- MODULE DeviceCredentials --------------------------
(***************************************************************************)
(* The authority that devices have to deliver readings over HTTP:          *)
(* principals with their flow class and scopes, credentials and their life *)
(* cycle, the declared capacity with its approved debt, and the generation *)
(* that makes every earlier authentication stale                           *)
(* (src/edge-node/core/ops/src/device_credentials.rs,                      *)
(* src/edge-node/core/ops/src/ops/credential_ops.rs and the triggers of    *)
(* src/edge-node/core/ops/migrations/0015_device_credentials.sql).         *)
(*                                                                         *)
(* Every operation is one transaction.  Operators work from several        *)
(* processes, so anything may happen between the preview of a capacity     *)
(* debt and its approval, and between an authentication and its use.       *)
(* A principal is named after its device, so devices name both.  Times,    *)
(* labels, audit rows and the choice of the random ids are left out; the   *)
(* generation is advanced once by a transaction that advances it at all,   *)
(* because it is only ever compared for equality.                          *)
(***************************************************************************)
EXTENDS Integers, FiniteSets, FiniteSetsExt

CONSTANTS
    Devices,         \* the hardware that may be registered
    Classes,         \* flow classes
    Configs,         \* [weight: [Classes -> units], capacity: units] to install
    InitConfig,      \* the one in force at first
    MaxCredentials,  \* bound: credentials ever issued
    MaxGeneration,   \* bound: changes of the authority
    None

Units == [steady : Nat, burst : Nat]

ASSUME ConfigAssumption ==
    \A c \in Configs \cup {InitConfig} :
        /\ c.capacity \in Units /\ c.capacity.steady > 0 /\ c.capacity.burst > 0
        /\ \A k \in Classes : c.weight[k] \in Units /\ c.weight[k].steady > 0 /\ c.weight[k].burst > 0

(* None is no row of a table. *)
ASSUME NoneAssumption ==
    /\ None \notin [class : Classes, scopes : SUBSET Devices]
    /\ None \notin [principal : Devices, state : {"current", "pending", "revoked"},
                   proven : BOOLEAN, confirmed : BOOLEAN]
    /\ None \notin [required : Units, capacity : Units]

ASSUME BoundAssumption ==
    IsFiniteSet(Devices) /\ MaxCredentials \in Nat /\ MaxGeneration \in Nat

VARIABLES
    device,       \* [Devices -> {"absent", "live", "retired"}]
    principal,    \* [Devices -> [class, scopes] or None]
    credential,   \* [1..MaxCredentials -> [principal, state, proven, confirmed] or None]
    config,       \* device_flow_classes and device_capacity
    debt,         \* the row of capacity_debt that is not recovered, or None
    generation,   \* auth_state.device_credential_generation
    delivered,    \* credentials whose plaintext reached the device
    auth,         \* an authentication that a request or the cache holds, or None
    preview       \* the debt preview an operator is looking at, or None

vars == <<device, principal, credential, config, debt, generation, delivered, auth, preview>>

Ids == 1..MaxCredentials
LiveStates == {"current", "pending"}

-----------------------------------------------------------------------------
(* What the database says.                                                 *)

LiveCredentials(d, cr) ==
    {c \in Ids : cr[c] # None /\ cr[c].principal = d /\ cr[c].state \in LiveStates}

UsableScopes(d, dv, pr) == {s \in pr[d].scopes : dv[s] = "live"}

(* live_device_ingest_principals. *)
Live(dv, pr, cr) ==
    {d \in Devices : /\ dv[d] = "live" /\ pr[d] # None
                     /\ LiveCredentials(d, cr) # {}
                     /\ UsableScopes(d, dv, pr) # {}}

Status(live, pr, cf) ==
    [required |-> [steady |-> MapThenSumSet(LAMBDA d : cf.weight[pr[d].class].steady, live),
                   burst  |-> MapThenSumSet(LAMBDA d : cf.weight[pr[d].class].burst, live)],
     capacity |-> cf.capacity]

StatusNow == Status(Live(device, principal, credential), principal, config)

Exceeds(s) == s.required.steady > s.capacity.steady \/ s.required.burst > s.capacity.burst

Overage(s, u) == IF s.required[u] > s.capacity[u] THEN s.required[u] - s.capacity[u] ELSE 0

NoWorseThan(s, t) == \A u \in {"steady", "burst"} : Overage(s, u) <= Overage(t, u)

RequiresApproval(s) == Exceeds(s) /\ (debt = None \/ ~ NoWorseThan(s, debt))

(* The triggers that run when a principal stops being live. *)
Reconciled(s) == IF debt # None /\ Exceeds(s) THEN s ELSE None

Plus(s, d) ==
    [s EXCEPT !.required.steady = @ + d.steady, !.required.burst = @ + d.burst]

Minus(s, d) ==
    [s EXCEPT !.required.steady = @ - d.steady, !.required.burst = @ - d.burst]

World == <<device, principal, credential, config>>

Bump == generation < MaxGeneration /\ generation' = generation + 1

-----------------------------------------------------------------------------
(* Operations that can need capacity.                                      *)

Operations ==
    [kind : {"add"}, device : Devices, class : Classes, scopes : SUBSET Devices]
    \cup [kind : {"issue"}, device : Devices]
    \cup [kind : {"flow"}, device : Devices, class : Classes]
    \cup [kind : {"configure"}, config : Configs]

PrincipalExists(d) ==
    device[d] = "live" /\ principal[d] # None /\ UsableScopes(d, device, principal) # {}

(* The preconditions of the three operations on a device. *)
AddAllowed(op) ==
    /\ device[op.device] = "absent" /\ op.device \notin op.scopes
    /\ \A s \in op.scopes : device[s] = "live"

IssueAllowed(op) ==
    PrincipalExists(op.device) /\ LiveCredentials(op.device, credential) = {}

FlowAllowed(op) == device[op.device] = "live" /\ principal[op.device] # None

Allowed(op) ==
    CASE op.kind = "add" -> AddAllowed(op)
      [] op.kind = "issue" -> IssueAllowed(op)
      [] op.kind = "flow" -> FlowAllowed(op)
      [] op.kind = "configure" -> TRUE

(* What would be required with another class: the weight a live principal  *)
(* has is taken off and the new one put on.                                *)
ReclassedStatus(d, class) ==
    IF d \in Live(device, principal, credential)
    THEN Plus(Minus(StatusNow, config.weight[principal[d].class]), config.weight[class])
    ELSE StatusNow

(* With other weights and another capacity. *)
ConfiguredStatus(cf) == Status(Live(device, principal, credential), principal, cf)

Prospective(op) ==
    CASE op.kind = "add" -> Plus(StatusNow, config.weight[op.class])
      [] op.kind = "issue" -> Plus(StatusNow, config.weight[principal[op.device].class])
      [] op.kind = "flow" -> ReclassedStatus(op.device, op.class)
      [] op.kind = "configure" -> ConfiguredStatus(op.config)

(* The principal's row and its scopes, the device itself among them. *)
Registered(op) ==
    [principal EXCEPT ![op.device] = [class |-> op.class, scopes |-> op.scopes \cup {op.device}]]

NewCredential(d, state, c) ==
    /\ c \in Ids /\ credential[c] = None
    /\ \A e \in Ids : e < c => credential[e] # None
    /\ credential' = [credential EXCEPT ![c] = [principal |-> d, state |-> state,
                                                proven |-> FALSE, confirmed |-> FALSE]]

AddDevice(op) ==
    /\ device' = [device EXCEPT ![op.device] = "live"]
    /\ principal' = Registered(op)
    /\ \E c \in Ids : NewCredential(op.device, "current", c)
    /\ UNCHANGED config

IssueCredential(op) ==
    /\ \E c \in Ids : NewCredential(op.device, "current", c)
    /\ UNCHANGED <<device, principal, config>>

ChangeFlowClass(op) ==
    /\ principal' = [principal EXCEPT ![op.device].class = op.class]
    /\ UNCHANGED <<device, credential, config>>

Configure(op) ==
    /\ config' = op.config
    /\ UNCHANGED <<device, principal, credential>>

Perform(op) ==
    \/ op.kind = "add" /\ AddDevice(op)
    \/ op.kind = "issue" /\ IssueCredential(op)
    \/ op.kind = "flow" /\ ChangeFlowClass(op)
    \/ op.kind = "configure" /\ Configure(op)

(* A flow class that stays the same trips no trigger; configuring always   *)
(* advances the generation.                                                *)
Material(op) == op.kind = "flow" => principal[op.device].class # op.class

(* Mutant: a changed flow class is not material. *)
Advance_NotForFlow(op) == IF op.kind # "flow" THEN Bump ELSE UNCHANGED generation

Advance(op) == IF Material(op) THEN Bump ELSE UNCHANGED generation

(* The debt row after the operation: approved afresh, kept, lowered by a   *)
(* change that needs no approval, or recovered.                            *)
DebtAfter(op, approve) ==
    LET s == Prospective(op)
    IN CASE Exceeds(s) /\ (approve \/ op.kind \in {"flow", "configure"}) -> s
         [] Exceeds(s) /\ ~ approve /\ op.kind \in {"add", "issue"} -> debt
         [] OTHER -> IF op.kind \in {"flow", "configure"} THEN None ELSE debt

(* The plain operation: refused with capacity_exceeded when it would need  *)
(* an approval.                                                            *)
Execute(op) ==
    /\ Allowed(op) /\ ~ RequiresApproval(Prospective(op))
    /\ Perform(op) /\ Advance(op)
    /\ debt' = DebtAfter(op, FALSE)
    /\ UNCHANGED <<delivered, auth, preview>>

(* nodectl --accept-capacity-debt: dry-run, show, wait for the operator.   *)
PreviewDebt(op) ==
    /\ preview = None /\ Allowed(op) /\ Exceeds(Prospective(op))
    /\ preview' = [op |-> op, status |-> Prospective(op), generation |-> generation, world |-> World]
    /\ UNCHANGED <<device, principal, credential, config, debt, generation, delivered, auth>>

(* Mutant: only the amounts are compared with the preview. *)
ApprovalValid_AnyGeneration ==
    LET s == Prospective(preview.op) IN Exceeds(s) => preview.status = s

(* validate_capacity_approval. *)
ApprovalValid ==
    LET s == Prospective(preview.op)
    IN Exceeds(s) => preview.status = s /\ preview.generation = generation

ExecuteApproved ==
    /\ preview # None /\ Allowed(preview.op) /\ ApprovalValid
    /\ Perform(preview.op) /\ Advance(preview.op)
    /\ debt' = DebtAfter(preview.op, TRUE)
    /\ preview' = None
    /\ UNCHANGED <<delivered, auth>>

(* Refused as stale or by the other preconditions, or given up.            *)
AbandonPreview ==
    /\ preview # None
    /\ preview' = None
    /\ UNCHANGED <<device, principal, credential, config, debt, generation, delivered, auth>>

-----------------------------------------------------------------------------
(* The life of a credential.                                               *)

Reissue(d) ==
    /\ PrincipalExists(d)
    /\ \E c \in LiveCredentials(d, credential) : credential[c].state = "current"
    /\ ~ \E c \in LiveCredentials(d, credential) : credential[c].state = "pending"
    /\ \E c \in Ids : NewCredential(d, "pending", c)
    /\ Bump
    /\ UNCHANGED <<device, principal, config, debt, delivered, auth, preview>>

(* The operator takes the plaintext, shown once, to the device.            *)
Deliver(c) ==
    /\ credential[c] # None /\ c \notin delivered
    /\ delivered' = delivered \cup {c}
    /\ UNCHANGED <<device, principal, credential, config, debt, generation, auth, preview>>

Revoke(cs, cr) ==
    [c \in Ids |-> IF c \in cs THEN [cr[c] EXCEPT !.state = "revoked"] ELSE cr[c]]

(* Mutant: a pending credential is confirmed before its first use. *)
Confirm_Unproven(c) ==
    /\ credential[c] # None /\ credential[c].state = "pending"
    /\ LET d == credential[c].principal
           old == {e \in LiveCredentials(d, credential) : credential[e].state = "current"}
       IN credential' = [Revoke(old, credential) EXCEPT ![c].state = "current", ![c].confirmed = TRUE]
    /\ Bump
    /\ UNCHANGED <<device, principal, config, debt, delivered, auth, preview>>

Confirm(c) ==
    /\ credential[c] # None /\ credential[c].state = "pending" /\ credential[c].proven
    /\ LET d == credential[c].principal
           old == {e \in LiveCredentials(d, credential) : credential[e].state = "current"}
       IN credential' = [Revoke(old, credential) EXCEPT ![c].state = "current", ![c].confirmed = TRUE]
    /\ Bump
    /\ UNCHANGED <<device, principal, config, debt, delivered, auth, preview>>

(* Mutant: the triggers leave the debt as it was approved. *)
CloseAuthority_KeepsDebt(dv, pr, cr) ==
    /\ device' = dv /\ principal' = pr /\ credential' = cr
    /\ Bump
    /\ UNCHANGED <<config, debt, delivered, auth, preview>>

(* What a change of devices and credentials does through the triggers.     *)
CloseAuthority(dv, pr, cr) ==
    /\ device' = dv /\ principal' = pr /\ credential' = cr
    /\ debt' = IF Live(dv, pr, cr) = Live(device, principal, credential) THEN debt
               ELSE Reconciled(Status(Live(dv, pr, cr), pr, config))
    /\ Bump
    /\ UNCHANGED <<config, delivered, auth, preview>>

(* abandon_device_credential and revoke_device_credential. *)
RevokeCredential(c, states) ==
    /\ credential[c] # None /\ credential[c].state \in states
    /\ CloseAuthority(device, principal, Revoke({c}, credential))

Retired(d, pr) ==
    [e \in Devices |-> IF pr[e] = None THEN None
                       ELSE [pr[e] EXCEPT !.scopes = IF e = d THEN {} ELSE @ \ {d}]]

Retire(d) ==
    /\ device[d] = "live"
    /\ CloseAuthority([device EXCEPT ![d] = "retired"], Retired(d, principal),
                      Revoke(LiveCredentials(d, credential), credential))

(* replace_hardware: the device that used to have the new hardware, if     *)
(* there is one, is retired; the replaced one loses its credentials.       *)
ReplaceHardware(d, other) ==
    /\ device[d] = "live"
    /\ LET lost == LiveCredentials(d, credential)
       IN \/ other = d /\ CloseAuthority(device, principal, Revoke(lost, credential))
          \/ /\ other # d /\ device[other] = "live"
             /\ CloseAuthority([device EXCEPT ![other] = "retired"], Retired(other, principal),
                               Revoke(lost \cup LiveCredentials(other, credential), credential))

(* The passphrase reset advances both generations that authentication      *)
(* compares.                                                               *)
ResetPassphrase ==
    /\ Bump
    /\ UNCHANGED <<device, principal, credential, config, debt, delivered, auth, preview>>

-----------------------------------------------------------------------------
(* Authentication.                                                         *)

Known(c, dv, pr, cr) ==
    /\ cr[c] # None /\ cr[c].state \in LiveStates
    /\ cr[c].principal \in Live(dv, pr, cr)

(* What lookup_device_credential returns for the bearer of c. *)
Lookup(c, dv, pr, cr) ==
    LET d == cr[c].principal
    IN [credential |-> c, device |-> d, state |-> cr[c].state,
        class |-> pr[d].class, scopes |-> UsableScopes(d, dv, pr)]

(* The first use proves a pending credential, which itself advances the    *)
(* generation: the authentication carries the generation after that write. *)
Authenticate(c) ==
    /\ c \in delivered /\ Known(c, device, principal, credential)
    /\ IF credential[c].state = "pending" /\ ~ credential[c].proven
       THEN credential' = [credential EXCEPT ![c].proven = TRUE] /\ Bump
       ELSE UNCHANGED <<credential, generation>>
    /\ auth' = [who |-> Lookup(c, device, principal, credential'), generation |-> generation']
    /\ UNCHANGED <<device, principal, config, debt, delivered, preview>>

(* authentication_is_current. *)
IsCurrent(a) ==
    /\ a.generation = generation
    /\ Known(a.who.credential, device, principal, credential)

-----------------------------------------------------------------------------
Init ==
    /\ device = [d \in Devices |-> "absent"]
    /\ principal = [d \in Devices |-> None]
    /\ credential = [c \in Ids |-> None]
    /\ config = InitConfig
    /\ debt = None
    /\ generation = 0
    /\ delivered = {}
    /\ auth = None
    /\ preview = None

Next ==
    \/ \E op \in Operations : Execute(op) \/ PreviewDebt(op)
    \/ ExecuteApproved
    \/ AbandonPreview
    \/ \E d \in Devices : Reissue(d) \/ Retire(d)
    \/ \E d, e \in Devices : ReplaceHardware(d, e)
    \/ \E c \in Ids : \/ Deliver(c) \/ Confirm(c) \/ Authenticate(c)
                      \/ RevokeCredential(c, LiveStates)
    \/ ResetPassphrase

Spec == Init /\ [][Next]_vars

-----------------------------------------------------------------------------
(* Properties.                                                             *)

TypeOK ==
    /\ device \in [Devices -> {"absent", "live", "retired"}]
    /\ \A d \in Devices : principal[d] # None <=> device[d] # "absent"
    /\ \A c \in Ids : credential[c] # None =>
            /\ principal[credential[c].principal] # None
            /\ credential[c].state \in LiveStates \cup {"revoked"}
    /\ config \in Configs \cup {InitConfig}
    /\ generation \in 0..MaxGeneration
    /\ delivered \subseteq {c \in Ids : credential[c] # None}

(* There is an active capacity debt exactly when the principals that are   *)
(* live require more than the capacity, and the row then holds what they   *)
(* require: no path through the operations and triggers leaves an excess   *)
(* without its approval, or a debt that is over.                           *)
DebtIsExact ==
    IF Exceeds(StatusNow) THEN debt = StatusNow ELSE debt = None

(* The debt grows only by an approval, of exactly the amount the operator  *)
(* was shown, and in the very state of the authority it was computed in.   *)
DebtGrows == debt' # None /\ (debt = None \/ ~ NoWorseThan(debt', debt))

OnlyApprovedDebt ==
    [][DebtGrows => /\ preview # None
                    /\ preview.status = debt'
                    /\ preview.world = World]_vars

(* An authentication that authentication_is_current accepts says what the  *)
(* database says now: credential state, flow class and scopes included.    *)
CurrentAuthIsTrue ==
    auth # None => (IsCurrent(auth)
        => auth.who = Lookup(auth.who.credential, device, principal, credential))

(* A rotation never replaces a working credential by one that did not      *)
(* reach the device.                                                       *)
ConfirmedReachedDevice ==
    \A c \in Ids : credential[c] # None => (credential[c].confirmed => c \in delivered)

(* The preconditions alone keep a principal to one current and one pending *)
(* credential, so that the unique indexes never abort a transaction.       *)
OneOfEach ==
    \A d \in Devices, s \in LiveStates :
        Cardinality({c \in LiveCredentials(d, credential) : credential[c].state = s}) <= 1

(* A rotation, however it is interleaved with the other operations, keeps  *)
(* one credential of each state and retires the old one only for a new one *)
(* the device has.                                                         *)
RotationSafe == TypeOK /\ OneOfEach /\ ConfirmedReachedDevice
=============================================================================
