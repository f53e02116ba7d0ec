----------------------- MODULE DeviceCredentialsProofs -----------------------
(***************************************************************************)
(* Proofs about DeviceCredentials: an authentication that passes as        *)
(* current says what the database says, and a rotation keeps one           *)
(* credential of each state and confirms only what the device has, for any *)
(* devices, classes and numbers of credentials and generations; and for    *)
(* any finite set of devices the capacity debt is exact and grows only by  *)
(* an approval.                                                            *)
(***************************************************************************)
EXTENDS DeviceCredentials, FiniteSetTheorems, TLAPS

-----------------------------------------------------------------------------
(* The inductive invariant.                                                *)

Principals == [class : Classes, scopes : SUBSET Devices]
Credentials ==
    [principal : Devices, state : LiveStates \cup {"revoked"},
     proven : BOOLEAN, confirmed : BOOLEAN]

(* The rows of the tables. *)
Types ==
    /\ device \in [Devices -> {"absent", "live", "retired"}]
    /\ principal \in [Devices -> Principals \cup {None}]
    /\ credential \in [Ids -> Credentials \cup {None}]
    /\ config \in Configs \cup {InitConfig}
    /\ generation \in 0..MaxGeneration
    /\ delivered \in SUBSET Ids
    /\ preview # None => preview.op \in Operations

(* A row refers to rows that exist, and what is proven or confirmed was    *)
(* delivered.                                                              *)
Rows ==
    /\ \A d \in Devices : principal[d] # None <=> device[d] # "absent"
    /\ \A c \in Ids : credential[c] # None => principal[credential[c].principal] # None
    /\ \A c \in delivered : credential[c] # None
    /\ \A c \in Ids : credential[c] # None =>
            (credential[c].proven \/ credential[c].confirmed => c \in delivered)

(* Two live credentials of a principal are not in the same state.          *)
Unique ==
    \A c, e \in Ids :
        /\ credential[c] # None /\ credential[e] # None
        /\ credential[c].principal = credential[e].principal
        /\ credential[c].state = credential[e].state
        /\ credential[c].state \in LiveStates
        => c = e

(* The authentication in use is of this generation or an earlier one, and  *)
(* true if it is of this one.                                              *)
AuthTrue ==
    auth # None =>
        /\ auth.generation \in Nat /\ auth.generation <= generation
        /\ auth.generation = generation =>
              auth.who = Lookup(auth.who.credential, device, principal, credential)

CredentialInvariant == Types /\ Rows /\ Unique /\ AuthTrue

-----------------------------------------------------------------------------
(* The initial state. *)
LEMMA InitInvariant == Init => CredentialInvariant
  BY BoundAssumption
     DEF Init, CredentialInvariant, Types, Rows, Unique, AuthTrue

(* A record is not None. *)
LEMMA NotNone == None \notin Principals /\ None \notin Credentials
  <1>1. LiveStates \cup {"revoked"} = {"current", "pending", "revoked"}
    BY DEF LiveStates
  <1> QED BY <1>1, NoneAssumption DEF Principals, Credentials

(* An earlier authentication is of an earlier generation. *)
LEMMA Advanced ==
    ASSUME CredentialInvariant, Bump, auth' = auth
    PROVE  AuthTrue' /\ generation' \in 0..MaxGeneration
  BY BoundAssumption DEF CredentialInvariant, Types, AuthTrue, Bump

(* With nothing advanced and nothing changed, it stays as true as it was. *)
LEMMA Stable ==
    ASSUME CredentialInvariant, UNCHANGED <<device, principal, credential, generation, auth>>
    PROVE  AuthTrue'
  BY DEF CredentialInvariant, AuthTrue, Lookup, UsableScopes

(* A new credential of d in a state none of its live ones has.             *)
LEMMA Issued ==
    ASSUME CredentialInvariant, NEW d \in Devices, NEW s \in LiveStates, NEW c \in Ids,
           NewCredential(d, s, c),
           \A e \in LiveCredentials(d, credential) : credential[e].state # s,
           delivered' = delivered,
           principal'[d] # None,
           \A x \in Devices : principal[x] # None => principal'[x] # None
    PROVE  /\ credential' \in [Ids -> Credentials \cup {None}]
           /\ \A e \in Ids : credential'[e] # None => principal'[credential'[e].principal] # None
           /\ \A e \in delivered' : credential'[e] # None
           /\ \A e \in Ids : credential'[e] # None =>
                 (credential'[e].proven \/ credential'[e].confirmed => e \in delivered')
           /\ Unique'
  <1> DEFINE new == [principal |-> d, state |-> s, proven |-> FALSE, confirmed |-> FALSE]
  <1>1. /\ credential \in [Ids -> Credentials \cup {None}]
        /\ delivered \in SUBSET Ids
        /\ credential[c] = None
        /\ credential' = [credential EXCEPT ![c] = new]
    BY DEF CredentialInvariant, Types, NewCredential
  <1>2. new \in Credentials /\ new # None
    <2>1. new \in Credentials
      BY DEF Credentials
    <2> QED BY <2>1, NotNone, Zenon
  <1>3. new.principal = d /\ new.state = s /\ ~new.proven /\ ~new.confirmed
    OBVIOUS
  <1> HIDE DEF new
  <1>4. credential'[c] = new /\ \A e \in Ids : e # c => credential'[e] = credential[e]
    BY <1>1
  <1>5. \A e \in Ids : credential[e] # None => credential[e] \in Credentials
    BY <1>1
  <1>6. credential' \in [Ids -> Credentials \cup {None}]
    BY <1>1, <1>2
  <1>7. \A e \in Ids : credential'[e] # None => principal'[credential'[e].principal] # None
    <2> SUFFICES ASSUME NEW e \in Ids, credential'[e] # None
                 PROVE  principal'[credential'[e].principal] # None
      OBVIOUS
    <2>1. CASE e = c
      BY <2>1, <1>3, <1>4
    <2>2. CASE e # c
      BY <2>2, <1>4, <1>5 DEF CredentialInvariant, Rows, Credentials
    <2> QED BY <2>1, <2>2
  <1>8. \A e \in delivered' : credential'[e] # None
    BY <1>1, <1>2, <1>4 DEF CredentialInvariant, Rows
  <1>9. \A e \in Ids : credential'[e] # None =>
            (credential'[e].proven \/ credential'[e].confirmed => e \in delivered')
    BY <1>3, <1>4 DEF CredentialInvariant, Rows
  <1>10. Unique'
    <2>1. \A e \in Ids : credential[e] # None /\ credential[e].principal = d
                            => credential[e].state # s
      BY DEF LiveCredentials
    <2> QED BY <2>1, <1>3, <1>4 DEF CredentialInvariant, Unique
  <1> QED BY <1>6, <1>7, <1>8, <1>9, <1>10

(* Revoking credentials, with principals and devices that stay in place.   *)
LEMMA Revoked ==
    ASSUME CredentialInvariant, NEW cs, \A c \in cs : credential[c] # None,
           cs \subseteq Ids,
           credential' = Revoke(cs, credential), delivered' = delivered,
           \A x \in Devices : principal[x] # None => principal'[x] # None
    PROVE  /\ credential' \in [Ids -> Credentials \cup {None}]
           /\ \A e \in Ids : credential'[e] # None => principal'[credential'[e].principal] # None
           /\ \A e \in delivered' : credential'[e] # None
           /\ \A e \in Ids : credential'[e] # None =>
                 (credential'[e].proven \/ credential'[e].confirmed => e \in delivered')
           /\ Unique'
  <1>1. credential \in [Ids -> Credentials \cup {None}] /\ delivered \in SUBSET Ids
    BY DEF CredentialInvariant, Types
  <1>2. \A e \in Ids : credential[e] # None => credential[e] \in Credentials
    BY <1>1
  <1>3. \A e \in Ids \ cs : credential'[e] = credential[e]
    BY DEF Revoke
  <1>4. \A e \in cs :
            /\ credential'[e] \in Credentials /\ credential'[e] # None
            /\ credential'[e].principal = credential[e].principal
            /\ credential'[e].proven = credential[e].proven
            /\ credential'[e].confirmed = credential[e].confirmed
            /\ credential'[e].state = "revoked"
    <2> SUFFICES ASSUME NEW e \in cs
                 PROVE  /\ credential'[e] \in Credentials /\ credential'[e] # None
                        /\ credential'[e].principal = credential[e].principal
                        /\ credential'[e].proven = credential[e].proven
                        /\ credential'[e].confirmed = credential[e].confirmed
                        /\ credential'[e].state = "revoked"
      OBVIOUS
    <2>1. credential[e] \in Credentials
      BY <1>2
    <2>2. credential'[e] = [credential[e] EXCEPT !.state = "revoked"]
      BY DEF Revoke
    <2>3. [credential[e] EXCEPT !.state = "revoked"] \in Credentials
      BY <2>1 DEF Credentials
    <2> QED BY <2>1, <2>2, <2>3, NotNone DEF Credentials
  <1>5. credential' \in [Ids -> Credentials \cup {None}]
    <2>1. \A e \in Ids : credential'[e] \in Credentials \cup {None}
      BY <1>1, <1>3, <1>4
    <2> QED BY <2>1 DEF Revoke
  <1>6. \A e \in Ids : credential'[e] # None => principal'[credential'[e].principal] # None
    <2> SUFFICES ASSUME NEW e \in Ids, credential'[e] # None
                 PROVE  principal'[credential'[e].principal] # None
      OBVIOUS
    <2>1. credential[e] # None /\ credential'[e].principal = credential[e].principal
      BY <1>3, <1>4
    <2>2. credential[e].principal \in Devices
      BY <1>2, <2>1 DEF Credentials
    <2> QED BY <2>1, <2>2 DEF CredentialInvariant, Rows
  <1>7. \A e \in delivered' : credential'[e] # None
    BY <1>1, <1>3, <1>4 DEF CredentialInvariant, Rows
  <1>8. \A e \in Ids : credential'[e] # None =>
            (credential'[e].proven \/ credential'[e].confirmed => e \in delivered')
    BY <1>3, <1>4 DEF CredentialInvariant, Rows
  <1>9. Unique'
    BY <1>3, <1>4 DEF CredentialInvariant, Unique, LiveStates
  <1> QED BY <1>5, <1>6, <1>7, <1>8, <1>9

-----------------------------------------------------------------------------
(* The steps.                                                              *)

(* A device is registered with its principal and its first credential.     *)
LEMMA AddStep ==
    ASSUME CredentialInvariant, NEW op \in Operations, op.kind = "add",
           AddAllowed(op), AddDevice(op), Bump,
           UNCHANGED <<delivered, auth>>, preview' \in {preview, None}
    PROVE  CredentialInvariant'
  <1> DEFINE d == op.device
             row == [class |-> op.class, scopes |-> op.scopes \cup {d}]
  <1>1. d \in Devices /\ op.class \in Classes /\ op.scopes \in SUBSET Devices
    BY DEF Operations
  <1>2. row \in Principals /\ row # None
    <2>1. row \in Principals
      BY <1>1 DEF Principals
    <2> QED BY <2>1, NotNone
  <1>3. device \in [Devices -> {"absent", "live", "retired"}] /\ device[d] = "absent"
    BY DEF CredentialInvariant, Types, AddAllowed
  <1>4. principal \in [Devices -> Principals \cup {None}]
    BY DEF CredentialInvariant, Types
  <1>5. device' = [device EXCEPT ![d] = "live"] /\ principal' = [principal EXCEPT ![d] = row]
            /\ UNCHANGED config
    BY DEF AddDevice, Registered
  <1> HIDE DEF d, row
  <1>6. /\ device' \in [Devices -> {"absent", "live", "retired"}]
        /\ principal' \in [Devices -> Principals \cup {None}]
        /\ \A x \in Devices : principal[x] # None => principal'[x] # None
        /\ principal'[d] # None
        /\ \A x \in Devices : principal'[x] # None <=> device'[x] # "absent"
    BY <1>1, <1>2, <1>3, <1>4, <1>5 DEF CredentialInvariant, Rows
  <1>7. LiveCredentials(d, credential) = {}
    <2>1. principal[d] = None
      BY <1>1, <1>3 DEF CredentialInvariant, Rows
    <2> QED BY <2>1 DEF CredentialInvariant, Rows, LiveCredentials
  <1>8. PICK c \in Ids : NewCredential(d, "current", c)
    BY DEF AddDevice, d
  <1>9. /\ credential' \in [Ids -> Credentials \cup {None}]
        /\ \A e \in Ids : credential'[e] # None => principal'[credential'[e].principal] # None
        /\ \A e \in delivered' : credential'[e] # None
        /\ \A e \in Ids : credential'[e] # None =>
              (credential'[e].proven \/ credential'[e].confirmed => e \in delivered')
        /\ Unique'
    BY <1>1, <1>6, <1>7, <1>8, Issued DEF LiveStates
  <1>10. AuthTrue' /\ generation' \in 0..MaxGeneration
    BY Advanced
  <1>11. Types'
    BY <1>5, <1>6, <1>9, <1>10 DEF CredentialInvariant, Types
  <1>12. Rows'
    BY <1>6, <1>9 DEF Rows
  <1> QED BY <1>9, <1>10, <1>11, <1>12 DEF CredentialInvariant

(* A further credential of a principal: issued or reissued.                *)
LEMMA CredentialStep ==
    ASSUME CredentialInvariant, NEW d \in Devices, principal[d] # None, NEW s \in LiveStates,
           \A e \in LiveCredentials(d, credential) : credential[e].state # s,
           \E c \in Ids : NewCredential(d, s, c), Bump,
           UNCHANGED <<device, principal, config, delivered, auth>>, preview' \in {preview, None}
    PROVE  CredentialInvariant'
  <1>1. PICK c \in Ids : NewCredential(d, s, c)
    OBVIOUS
  <1>2. /\ credential' \in [Ids -> Credentials \cup {None}]
        /\ \A e \in Ids : credential'[e] # None => principal'[credential'[e].principal] # None
        /\ \A e \in delivered' : credential'[e] # None
        /\ \A e \in Ids : credential'[e] # None =>
              (credential'[e].proven \/ credential'[e].confirmed => e \in delivered')
        /\ Unique'
    BY <1>1, Issued
  <1>3. AuthTrue' /\ generation' \in 0..MaxGeneration
    BY Advanced
  <1>4. Types'
    BY <1>2, <1>3 DEF CredentialInvariant, Types
  <1>5. Rows'
    BY <1>2 DEF CredentialInvariant, Rows
  <1> QED BY <1>2, <1>3, <1>4, <1>5 DEF CredentialInvariant

(* Another flow class, or the same one again, which is no change at all.   *)
LEMMA FlowStep ==
    ASSUME CredentialInvariant, NEW op \in Operations, op.kind = "flow",
           FlowAllowed(op), ChangeFlowClass(op), Advance(op),
           UNCHANGED <<delivered, auth>>, preview' \in {preview, None}
    PROVE  CredentialInvariant'
  <1> DEFINE d == op.device
  <1>1. d \in Devices /\ op.class \in Classes
    BY DEF Operations
  <1>2. principal \in [Devices -> Principals \cup {None}] /\ principal[d] \in Principals
    BY <1>1 DEF CredentialInvariant, Types, FlowAllowed
  <1>3. /\ principal' = [principal EXCEPT ![d] = [principal[d] EXCEPT !.class = op.class]]
        /\ UNCHANGED <<device, credential, config>>
    BY DEF ChangeFlowClass
  <1>4. [principal[d] EXCEPT !.class = op.class] \in Principals
    BY <1>1, <1>2 DEF Principals
  <1> DEFINE row == [principal[d] EXCEPT !.class = op.class]
  <1>5. AuthTrue' /\ generation' \in 0..MaxGeneration
    <2>1. CASE Material(op)
      BY <2>1, Advanced DEF Advance
    <2>2. CASE ~Material(op)
      <3>1. UNCHANGED generation /\ principal[d].class = op.class
        BY <2>2 DEF Advance, Material
      <3>2. row = principal[d]
        BY <1>2, <3>1 DEF Principals
      <3>3. principal' = principal
        BY <1>1, <1>2, <1>3, <3>2
      <3> QED BY <1>3, <3>1, <3>3, Stable DEF CredentialInvariant, Types
    <2> QED BY <2>1, <2>2
  <1> HIDE DEF row
  <1>6. row \in Principals /\ row # None
    BY <1>4, NotNone DEF row
  <1>7. /\ principal' \in [Devices -> Principals \cup {None}]
        /\ \A x \in Devices : principal'[x] # None <=> principal[x] # None
    <2>1. principal' = [principal EXCEPT ![d] = row]
      BY <1>3 DEF row
    <2> HIDE DEF d
    <2>2. principal[d] # None
      BY <1>2, NotNone
    <2> QED BY <1>1, <1>2, <1>6, <2>1, <2>2
  <1>8. Types'
    BY <1>3, <1>5, <1>7 DEF CredentialInvariant, Types
  <1>9. \A c \in Ids : credential[c] # None => credential[c].principal \in Devices
    BY DEF CredentialInvariant, Types, Credentials
  <1>10. Rows'
    BY <1>3, <1>7, <1>9 DEF CredentialInvariant, Rows
  <1>11. Unique'
    BY <1>3 DEF CredentialInvariant, Unique
  <1> QED BY <1>5, <1>8, <1>10, <1>11 DEF CredentialInvariant

(* Any operation that can need capacity, plain or approved.                *)
LEMMA OperationStep ==
    ASSUME CredentialInvariant, NEW op \in Operations,
           Allowed(op), Perform(op), Advance(op),
           UNCHANGED <<delivered, auth>>, preview' \in {preview, None}
    PROVE  CredentialInvariant'
  <1>1. CASE op.kind = "add"
    <2>1. AddAllowed(op) /\ AddDevice(op) /\ Bump
      BY <1>1 DEF Allowed, Perform, Advance, Material
    <2> QED BY <1>1, <2>1, AddStep
  <1>2. CASE op.kind = "issue"
    <2>1. IssueAllowed(op) /\ IssueCredential(op) /\ Bump
      BY <1>2 DEF Allowed, Perform, Advance, Material
    <2>2. op.device \in Devices
      BY <1>2 DEF Operations
    <2>3. /\ principal[op.device] # None
          /\ \A e \in LiveCredentials(op.device, credential) : credential[e].state # "current"
          /\ \E c \in Ids : NewCredential(op.device, "current", c)
          /\ UNCHANGED <<device, principal, config>>
      BY <2>1 DEF IssueAllowed, PrincipalExists, IssueCredential
    <2> QED BY <2>1, <2>2, <2>3, CredentialStep DEF LiveStates
  <1>3. CASE op.kind = "flow"
    <2>1. FlowAllowed(op) /\ ChangeFlowClass(op)
      BY <1>3 DEF Allowed, Perform
    <2> QED BY <1>3, <2>1, FlowStep
  <1>4. CASE op.kind = "configure"
    <2>1. Configure(op) /\ Bump /\ op.config \in Configs
      BY <1>4 DEF Perform, Advance, Material, Operations
    <2>2. AuthTrue' /\ generation' \in 0..MaxGeneration
      BY <2>1, Advanced
    <2> QED BY <2>1, <2>2 DEF Configure, CredentialInvariant, Types, Rows, Unique
  <1> QED BY <1>1, <1>2, <1>3, <1>4 DEF Operations

(* Credentials revoked while devices retire: RevokeCredential, Retire and  *)
(* ReplaceHardware.                                                        *)
LEMMA CloseStep ==
    ASSUME CredentialInvariant, NEW dv, NEW pr, NEW cs,
           dv \in [Devices -> {"absent", "live", "retired"}],
           pr \in [Devices -> Principals \cup {None}],
           \A d \in Devices : /\ pr[d] # None <=> principal[d] # None
                              /\ dv[d] # "absent" <=> device[d] # "absent",
           cs \subseteq Ids, \A c \in cs : credential[c] # None,
           CloseAuthority(dv, pr, Revoke(cs, credential))
    PROVE  CredentialInvariant'
  <1>1. /\ device' = dv /\ principal' = pr /\ credential' = Revoke(cs, credential)
        /\ Bump /\ UNCHANGED <<config, delivered, auth, preview>>
    BY DEF CloseAuthority
  <1>2. /\ credential' \in [Ids -> Credentials \cup {None}]
        /\ \A e \in Ids : credential'[e] # None => principal'[credential'[e].principal] # None
        /\ \A e \in delivered' : credential'[e] # None
        /\ \A e \in Ids : credential'[e] # None =>
              (credential'[e].proven \/ credential'[e].confirmed => e \in delivered')
        /\ Unique'
    BY <1>1, Revoked
  <1>3. AuthTrue' /\ generation' \in 0..MaxGeneration
    BY <1>1, Advanced
  <1>4. Types'
    BY <1>1, <1>2, <1>3 DEF CredentialInvariant, Types
  <1>5. Rows'
    BY <1>1, <1>2 DEF CredentialInvariant, Rows
  <1> QED BY <1>2, <1>3, <1>4, <1>5 DEF CredentialInvariant

(* A retired device leaves every principal's row in place.                 *)
LEMMA RetiredRows ==
    ASSUME CredentialInvariant, NEW d \in Devices
    PROVE  /\ Retired(d, principal) \in [Devices -> Principals \cup {None}]
           /\ \A e \in Devices : Retired(d, principal)[e] # None <=> principal[e] # None
  <1>1. principal \in [Devices -> Principals \cup {None}]
    BY DEF CredentialInvariant, Types
  <1>2. ASSUME NEW e \in Devices
        PROVE  /\ Retired(d, principal)[e] \in Principals \cup {None}
               /\ Retired(d, principal)[e] # None <=> principal[e] # None
    <2>1. CASE principal[e] = None
      BY <2>1 DEF Retired
    <2>2. CASE principal[e] # None
      <3> DEFINE left == IF e = d THEN {} ELSE principal[e].scopes \ {d}
      <3>1. principal[e] \in Principals
        BY <1>1, <2>2
      <3>2. left \in SUBSET Devices
        BY <3>1 DEF Principals
      <3>3. Retired(d, principal)[e] = [principal[e] EXCEPT !.scopes = left]
        BY <2>2 DEF Retired
      <3> HIDE DEF left
      <3>4. [principal[e] EXCEPT !.scopes = left] \in Principals
        BY <3>1, <3>2 DEF Principals
      <3> QED BY <2>2, <3>3, <3>4, NotNone
    <2> QED BY <2>1, <2>2
  <1> QED BY <1>2 DEF Retired

(* A proven credential takes the place of the current one.                 *)
LEMMA ConfirmStep ==
    ASSUME CredentialInvariant, NEW c \in Ids, Confirm(c)
    PROVE  CredentialInvariant'
  <1> DEFINE d == credential[c].principal
             old == {e \in LiveCredentials(d, credential) : credential[e].state = "current"}
             mid == [credential[c] EXCEPT !.state = "current"]
             new == [mid EXCEPT !.confirmed = TRUE]
  <1>1. /\ credential \in [Ids -> Credentials \cup {None}] /\ delivered \in SUBSET Ids
        /\ credential[c] # None /\ credential[c].state = "pending" /\ credential[c].proven
        /\ Bump /\ UNCHANGED <<device, principal, config, delivered, auth, preview>>
    BY DEF CredentialInvariant, Types, Confirm
  <1>2. credential[c] \in Credentials
    BY <1>1
  <1>3. mid \in Credentials
    BY <1>2 DEF Credentials, LiveStates
  <1>4. /\ new \in Credentials /\ new # None
        /\ new.principal = d /\ new.state = "current" /\ new.confirmed
    <2>1. mid.principal = d /\ mid.state = "current"
      BY <1>2 DEF Credentials
    <2> HIDE DEF mid
    <2>2. new \in Credentials
      BY <1>3, Zenon DEF Credentials
    <2>3. new.principal = d /\ new.state = "current" /\ new.confirmed
      BY <1>3, <2>1 DEF Credentials
    <2> QED BY <2>2, <2>3, NotNone, Zenon
  <1>5. c \notin old /\ old \subseteq Ids
    BY <1>1 DEF LiveCredentials
  <1>6. Revoke(old, credential)[c] = credential[c]
    BY <1>5 DEF Revoke
  <1>7. credential' = [Revoke(old, credential) EXCEPT ![c] = new]
    <2>1. credential' = [Revoke(old, credential) EXCEPT ![c].state = "current", ![c].confirmed = TRUE]
      BY DEF Confirm
    <2> QED BY <2>1, <1>6, Zenon DEF Revoke
  <1>8. /\ credential'[c] = new
        /\ \A e \in Ids \ (old \cup {c}) : credential'[e] = credential[e]
        /\ \A e \in old : credential'[e] = [credential[e] EXCEPT !.state = "revoked"]
        /\ credential' = [e \in Ids |-> credential'[e]]
    BY <1>5, <1>7, Zenon DEF Revoke
  <1>9. \A e \in old :
            /\ credential'[e] \in Credentials /\ credential'[e] # None
            /\ credential[e] # None
            /\ credential'[e].principal = credential[e].principal
            /\ credential'[e].proven = credential[e].proven
            /\ credential'[e].confirmed = credential[e].confirmed
            /\ credential'[e].state = "revoked"
    <2> SUFFICES ASSUME NEW e \in old
                 PROVE  /\ credential'[e] \in Credentials /\ credential'[e] # None
                        /\ credential[e] # None
                        /\ credential'[e].principal = credential[e].principal
                        /\ credential'[e].proven = credential[e].proven
                        /\ credential'[e].confirmed = credential[e].confirmed
                        /\ credential'[e].state = "revoked"
      OBVIOUS
    <2>1. credential[e] # None /\ credential[e] \in Credentials
      BY <1>1 DEF LiveCredentials
    <2> HIDE DEF old
    <2>2. [credential[e] EXCEPT !.state = "revoked"] \in Credentials
      BY <2>1 DEF Credentials
    <2> QED BY <1>8, <2>1, <2>2, NotNone DEF Credentials
  <1>10. \A e \in Ids : e \notin old => (credential[e] # None /\ credential[e].principal = d
                                           => credential[e].state # "current")
    BY DEF LiveCredentials, LiveStates
  <1> HIDE DEF new, mid, old, d
  <1>11. credential' \in [Ids -> Credentials \cup {None}]
    <2>1. \A e \in Ids : credential'[e] \in Credentials \cup {None}
      BY <1>1, <1>4, <1>8, <1>9
    <2> QED BY <1>8, <2>1
  <1>12. AuthTrue' /\ generation' \in 0..MaxGeneration
    BY <1>1, Advanced
  <1>13. Types'
    BY <1>1, <1>11, <1>12 DEF CredentialInvariant, Types
  <1>14. c \in delivered /\ principal[d] # None
    BY <1>1 DEF CredentialInvariant, Rows, d
  <1>15. Rows'
    <2>1. \A e \in Ids : credential'[e] # None => principal'[credential'[e].principal] # None
      BY <1>1, <1>4, <1>8, <1>9, <1>14 DEF CredentialInvariant, Rows
    <2>2. \A e \in delivered' : credential'[e] # None
      BY <1>1, <1>4, <1>8, <1>9 DEF CredentialInvariant, Rows
    <2>3. \A e \in Ids : credential'[e] # None =>
              (credential'[e].proven \/ credential'[e].confirmed => e \in delivered')
      BY <1>1, <1>4, <1>8, <1>9, <1>14 DEF CredentialInvariant, Rows
    <2> QED BY <1>1, <2>1, <2>2, <2>3 DEF CredentialInvariant, Rows
  <1>16. Unique'
    <2> SUFFICES ASSUME NEW a \in Ids, NEW b \in Ids,
                        credential'[a] # None, credential'[b] # None,
                        credential'[a].principal = credential'[b].principal,
                        credential'[a].state = credential'[b].state,
                        credential'[a].state \in LiveStates, a # b
                 PROVE  FALSE
      BY DEF Unique
    <2>1. a \notin old /\ b \notin old
      BY <1>9 DEF LiveStates
    <2>2. CASE a = c
      BY <2>1, <2>2, <1>4, <1>8, <1>10
    <2>3. CASE b = c
      BY <2>1, <2>3, <1>4, <1>8, <1>10
    <2>4. CASE a # c /\ b # c
      BY <2>1, <2>4, <1>8 DEF CredentialInvariant, Unique
    <2> QED BY <2>2, <2>3, <2>4
  <1> QED BY <1>12, <1>13, <1>15, <1>16 DEF CredentialInvariant

(* The first use of a pending credential proves it; the authentication     *)
(* holds what the tables say at its generation.                            *)
LEMMA AuthenticateStep ==
    ASSUME CredentialInvariant, NEW c \in Ids, Authenticate(c)
    PROVE  CredentialInvariant'
  <1> DEFINE new == [credential[c] EXCEPT !.proven = TRUE]
  <1>1. /\ credential \in [Ids -> Credentials \cup {None}] /\ delivered \in SUBSET Ids
        /\ generation \in 0..MaxGeneration
        /\ c \in delivered /\ credential[c] # None
        /\ UNCHANGED <<device, principal, config, delivered, preview>>
        /\ auth' = [who |-> Lookup(c, device, principal, credential'), generation |-> generation']
    BY DEF CredentialInvariant, Types, Authenticate, Known
  <1>2. credential[c] \in Credentials
    BY <1>1
  <1>3. /\ new \in Credentials /\ new # None
        /\ new.principal = credential[c].principal /\ new.state = credential[c].state
        /\ new.confirmed = credential[c].confirmed
    <2>1. new \in Credentials
      BY <1>2, Zenon DEF Credentials
    <2>2. /\ new.principal = credential[c].principal /\ new.state = credential[c].state
          /\ new.confirmed = credential[c].confirmed
      BY <1>2 DEF Credentials
    <2> QED BY <2>1, <2>2, NotNone, Zenon
  <1>4. \/ credential' = [credential EXCEPT ![c] = new] /\ Bump
        \/ UNCHANGED <<credential, generation>>
    BY DEF Authenticate
  <1> HIDE DEF new
  <1>5. generation' \in 0..MaxGeneration
    BY <1>1, <1>4, BoundAssumption DEF Bump
  <1>6. AuthTrue'
    <2>1. auth'.who.credential = c /\ auth'.generation = generation'
      BY <1>1 DEF Lookup
    <2>2. auth'.who = Lookup(c, device', principal', credential')
      BY <1>1
    <2> QED BY <2>1, <2>2, <1>5, BoundAssumption DEF AuthTrue
  <1>7. CASE UNCHANGED <<credential, generation>>
    BY <1>1, <1>6, <1>7 DEF CredentialInvariant, Types, Rows, Unique
  <1>8. CASE credential' = [credential EXCEPT ![c] = new]
    <2>1. /\ credential'[c] = new /\ \A e \in Ids \ {c} : credential'[e] = credential[e]
          /\ credential' \in [Ids -> Credentials \cup {None}]
      BY <1>1, <1>3, <1>8
    <2>2. Types'
      BY <1>1, <1>5, <2>1 DEF CredentialInvariant, Types
    <2>3. Rows'
      BY <1>1, <1>3, <2>1 DEF CredentialInvariant, Rows
    <2>4. Unique'
      BY <1>1, <1>3, <2>1 DEF CredentialInvariant, Unique
    <2> QED BY <1>6, <2>2, <2>3, <2>4 DEF CredentialInvariant
  <1> QED BY <1>4, <1>7, <1>8

(* Every step keeps the invariant.                                         *)
LEMMA StepInvariant ==
    ASSUME CredentialInvariant, [Next]_vars
    PROVE  CredentialInvariant'
  <1> DEFINE Same == UNCHANGED <<device, principal, credential, config, generation, auth>>
  <1>1. ASSUME NEW op \in Operations, Execute(op)
        PROVE  CredentialInvariant'
    BY <1>1, OperationStep DEF Execute
  <1>2. ASSUME NEW op \in Operations, PreviewDebt(op)
        PROVE  CredentialInvariant'
    <2>1. Same /\ preview'.op = op /\ UNCHANGED delivered
      BY <1>2 DEF PreviewDebt
    <2> QED BY <2>1, Stable DEF CredentialInvariant, Types, Rows, Unique
  <1>3. CASE ExecuteApproved
    <2>1. preview.op \in Operations
      BY <1>3 DEF ExecuteApproved, CredentialInvariant, Types
    <2> QED BY <1>3, <2>1, OperationStep DEF ExecuteApproved
  <1>4. CASE AbandonPreview
    <2>1. Same /\ preview' = None /\ UNCHANGED delivered
      BY <1>4 DEF AbandonPreview
    <2> QED BY <2>1, Stable DEF CredentialInvariant, Types, Rows, Unique
  <1>5. ASSUME NEW d \in Devices, Reissue(d)
        PROVE  CredentialInvariant'
    <2>1. /\ principal[d] # None /\ "pending" \in LiveStates
          /\ \A e \in LiveCredentials(d, credential) : credential[e].state # "pending"
          /\ \E c \in Ids : NewCredential(d, "pending", c)
          /\ Bump /\ UNCHANGED <<device, principal, config, delivered, auth, preview>>
      BY <1>5 DEF Reissue, PrincipalExists, LiveStates
    <2> QED BY <2>1, CredentialStep
  <1>6. ASSUME NEW d \in Devices, NEW dv, dv \in {device, [device EXCEPT ![d] = "retired"]},
               device[d] = "live"
        PROVE  /\ dv \in [Devices -> {"absent", "live", "retired"}]
               /\ \A e \in Devices : dv[e] # "absent" <=> device[e] # "absent"
    BY <1>6 DEF CredentialInvariant, Types
  <1>7. ASSUME NEW d \in Devices
        PROVE  /\ LiveCredentials(d, credential) \subseteq Ids
               /\ \A c \in LiveCredentials(d, credential) : credential[c] # None
    BY DEF LiveCredentials
  <1>8. ASSUME NEW d \in Devices, Retire(d)
        PROVE  CredentialInvariant'
    <2> DEFINE dv == [device EXCEPT ![d] = "retired"]
               pr == Retired(d, principal)
               cs == LiveCredentials(d, credential)
    <2>1. CloseAuthority(dv, pr, Revoke(cs, credential)) /\ device[d] = "live"
      BY <1>8 DEF Retire
    <2>2. /\ dv \in [Devices -> {"absent", "live", "retired"}]
          /\ \A e \in Devices : dv[e] # "absent" <=> device[e] # "absent"
      BY <1>6, <2>1
    <2>3. /\ pr \in [Devices -> Principals \cup {None}]
          /\ \A e \in Devices : pr[e] # None <=> principal[e] # None
      BY RetiredRows
    <2>4. cs \subseteq Ids /\ \A c \in cs : credential[c] # None
      BY <1>7
    <2> HIDE DEF dv, pr, cs
    <2> QED BY <2>1, <2>2, <2>3, <2>4, CloseStep
  <1>9. /\ device \in [Devices -> {"absent", "live", "retired"}]
        /\ principal \in [Devices -> Principals \cup {None}]
    BY DEF CredentialInvariant, Types
  <1>10. ASSUME NEW d \in Devices, NEW other \in Devices, ReplaceHardware(d, other)
         PROVE  CredentialInvariant'
    <2> DEFINE dv == [device EXCEPT ![other] = "retired"]
               pr == Retired(other, principal)
               lost == LiveCredentials(d, credential)
               cs == lost \cup LiveCredentials(other, credential)
    <2>1. \/ CloseAuthority(device, principal, Revoke(lost, credential))
          \/ device[other] = "live" /\ CloseAuthority(dv, pr, Revoke(cs, credential))
      BY <1>10 DEF ReplaceHardware
    <2>2. /\ lost \subseteq Ids /\ \A c \in lost : credential[c] # None
          /\ cs \subseteq Ids /\ \A c \in cs : credential[c] # None
      BY <1>7
    <2>3. /\ pr \in [Devices -> Principals \cup {None}]
          /\ \A e \in Devices : pr[e] # None <=> principal[e] # None
      BY RetiredRows
    <2>4. device[other] = "live" =>
             /\ dv \in [Devices -> {"absent", "live", "retired"}]
             /\ \A e \in Devices : dv[e] # "absent" <=> device[e] # "absent"
      BY <1>6
    <2> HIDE DEF dv, pr, lost, cs
    <2>5. CASE CloseAuthority(device, principal, Revoke(lost, credential))
      BY <1>9, <2>2, <2>5, CloseStep
    <2>6. CASE device[other] = "live" /\ CloseAuthority(dv, pr, Revoke(cs, credential))
      BY <2>2, <2>3, <2>4, <2>6, CloseStep
    <2> QED BY <2>1, <2>5, <2>6
  <1>11. ASSUME NEW c \in Ids, Deliver(c)
         PROVE  CredentialInvariant'
    <2>1. Same /\ UNCHANGED preview /\ delivered' = delivered \cup {c} /\ credential[c] # None
      BY <1>11 DEF Deliver
    <2> QED BY <2>1, Stable DEF CredentialInvariant, Types, Rows, Unique
  <1>12. ASSUME NEW c \in Ids, RevokeCredential(c, LiveStates)
         PROVE  CredentialInvariant'
    <2>1. credential[c] # None /\ CloseAuthority(device, principal, Revoke({c}, credential))
      BY <1>12 DEF RevokeCredential
    <2> QED BY <1>9, <2>1, CloseStep
  <1>13. CASE ResetPassphrase
    <2>1. AuthTrue' /\ generation' \in 0..MaxGeneration
      BY <1>13, Advanced DEF ResetPassphrase
    <2> QED BY <1>13, <2>1 DEF ResetPassphrase, CredentialInvariant, Types, Rows, Unique
  <1>14. CASE UNCHANGED vars
    <2>1. Same /\ UNCHANGED <<delivered, preview>>
      BY <1>14 DEF vars
    <2> QED BY <2>1, Stable DEF CredentialInvariant, Types, Rows, Unique
  <1> QED
    BY <1>1, <1>2, <1>3, <1>4, <1>5, <1>8, <1>10, <1>11, <1>12, <1>13, <1>14,
       ConfirmStep, AuthenticateStep DEF Next

-----------------------------------------------------------------------------
(* The results.                                                            *)

(* The tables refer to one another consistently, no principal has two live *)
(* credentials in a state, and the authentication in use, if it is of the  *)
(* present generation, is what a lookup would return now.                  *)
THEOREM CredentialInvariantHolds == Spec => []CredentialInvariant
  BY InitInvariant, StepInvariant, PTL DEF Spec

(* authentication_is_current never accepts an authentication whose state,  *)
(* flow class or scopes differ from the tables: comparing one generation   *)
(* is enough, because every change of authority advances it.               *)
THEOREM CurrentAuthenticationIsTrue == Spec => []CurrentAuthIsTrue
  <1>1. CredentialInvariant => CurrentAuthIsTrue
    BY DEF CredentialInvariant, AuthTrue, CurrentAuthIsTrue, IsCurrent
  <1> QED BY <1>1, CredentialInvariantHolds, PTL

(* The preconditions of issue, reissue and confirm alone keep a principal  *)
(* to one current and one pending credential, and a confirmed credential   *)
(* is one that the device had.                                             *)
THEOREM RotationIsSafe == Spec => []RotationSafe
  <1>1. ASSUME CredentialInvariant PROVE TypeOK
    <2>1. \A c \in Ids : credential[c] # None => credential[c].state \in LiveStates \cup {"revoked"}
      BY <1>1 DEF CredentialInvariant, Types, Credentials
    <2> QED BY <1>1, <2>1 DEF CredentialInvariant, Types, Rows, TypeOK
  <1>2. ASSUME CredentialInvariant PROVE ConfirmedReachedDevice
    BY <1>2 DEF CredentialInvariant, Rows, ConfirmedReachedDevice
  <1>3. ASSUME CredentialInvariant PROVE OneOfEach
    <2> SUFFICES ASSUME NEW d \in Devices, NEW s \in LiveStates
                 PROVE  Cardinality({c \in LiveCredentials(d, credential) : credential[c].state = s}) <= 1
      BY DEF OneOfEach
    <2> DEFINE S == {c \in LiveCredentials(d, credential) : credential[c].state = s}
    <2>1. \A c, e \in S : c = e
      BY <1>3 DEF CredentialInvariant, Unique, LiveCredentials
    <2> HIDE DEF S
    <2>2. S = {} \/ \E c : S = {c}
      BY <2>1
    <2>3. Cardinality(S) = 0 \/ Cardinality(S) = 1
      <3>1. CASE S = {}
        <4>1. Cardinality({}) = 0
          BY FS_EmptySet
        <4> QED BY <3>1, <4>1
      <3>2. CASE \E c : S = {c}
        <4>1. PICK c : S = {c}
          BY <3>2, Zenon
        <4>2. Cardinality({c}) = 1
          BY FS_Singleton, Zenon
        <4> QED BY <4>1, <4>2
      <3> QED BY <2>2, <3>1, <3>2
    <2> QED BY <2>3 DEF S
  <1> QED BY <1>1, <1>2, <1>3, CredentialInvariantHolds, PTL DEF RotationSafe

-----------------------------------------------------------------------------
(* Sums over principals.                                                   *)

(* The units of weight of a set of principals, one by one, and their       *)
(* number.                                                                 *)
UnitsOf(w, S) == UNION {{d} \X (1 .. w[d]) : d \in S}
Total(w, S) == Cardinality(UnitsOf(w, S))

(* The number of units of a set is that of a member and that of the rest.  *)
LEMMA TotalSplits ==
    ASSUME NEW S, IsFiniteSet(S), NEW w, \A d \in S : w[d] \in Nat, NEW x \in S
    PROVE  /\ IsFiniteSet(UnitsOf(w, S))
           /\ Total(w, S) \in Nat /\ Total(w, S \ {x}) \in Nat
           /\ Total(w, S) = w[x] + Total(w, S \ {x})
  <1> DEFINE T == S \ {x}
             A == {x} \X (1 .. w[x])
             B == UnitsOf(w, T)
  <1>1. ASSUME NEW R \in SUBSET S PROVE IsFiniteSet(UnitsOf(w, R))
    <2> DEFINE F == {{d} \X (1 .. w[d]) : d \in R}
               f == [d \in R |-> {d} \X (1 .. w[d])]
    <2>1. IsFiniteSet(R)
      BY FS_Subset, Zenon
    <2>2. f \in Surjection(R, F)
      BY Zenon DEF Surjection
    <2>3. IsFiniteSet(F)
      BY <2>1, <2>2, FS_Surjection, Zenon
    <2>4. ASSUME NEW d \in R PROVE IsFiniteSet({d} \X (1 .. w[d]))
      <3>1. w[d] \in Int /\ 1 \in Int
        BY SMT
      <3>2. IsFiniteSet(1 .. w[d])
        BY <3>1, FS_Interval, Zenon
      <3>3. QED
        BY <3>2, FS_Singleton, FS_Product, Zenon
    <2>5. \A U \in F : IsFiniteSet(U)
      BY <2>4, Zenon
    <2> HIDE DEF F
    <2>6. IsFiniteSet(UNION F)
      BY <2>3, <2>5, FS_UNION, Zenon
    <2>7. QED
      BY <2>6, Zenon DEF UnitsOf, F
  <1>2. IsFiniteSet(A) /\ Cardinality(A) = w[x]
    <2>1. w[x] \in Nat /\ w[x] \in Int /\ 1 \in Int
      BY SMT
    <2>2. IsFiniteSet(1 .. w[x]) /\ Cardinality(1 .. w[x]) = IF 1 > w[x] THEN 0 ELSE w[x] - 1 + 1
      BY <2>1, FS_Interval, Zenon
    <2>3. IsFiniteSet({x}) /\ Cardinality({x}) = 1
      BY FS_Singleton, Zenon
    <2>4. IsFiniteSet(A) /\ Cardinality(A) = Cardinality({x}) * Cardinality(1 .. w[x])
      BY <2>2, <2>3, FS_Product, Zenon
    <2> HIDE DEF A
    <2>5. QED
      BY <2>1, <2>2, <2>3, <2>4
  <1>3. IsFiniteSet(B) /\ IsFiniteSet(UnitsOf(w, S))
    BY <1>1, Zenon
  <1>4. UnitsOf(w, S) = A \cup B
    BY Zenon DEF UnitsOf
  <1>5. A \cap B = {}
    <2> SUFFICES ASSUME NEW p \in A, p \in B PROVE FALSE
      BY Zenon
    <2>1. p[1] = x
      BY SMT
    <2>2. PICK d \in T : p \in {d} \X (1 .. w[d])
      BY Zenon DEF UnitsOf
    <2>3. p[1] = d
      BY <2>2, SMT
    <2>4. QED
      BY <2>1, <2>3, Zenon
  <1> HIDE DEF A, B, T
  <1>6. Cardinality(A \cup B) = Cardinality(A) + Cardinality(B) - Cardinality(A \cap B)
    BY <1>2, <1>3, FS_Union, Zenon
  <1>7. Cardinality(A \cap B) = 0
    BY <1>5, FS_EmptySet, Zenon
  <1>8. Cardinality(B) \in Nat /\ Cardinality(UnitsOf(w, S)) \in Nat
    BY <1>3, FS_CardinalityType, Zenon
  <1>9. Total(w, S) = w[x] + Cardinality(B)
    <2>1. w[x] \in Nat
      OBVIOUS
    <2>2. QED
      BY <1>2, <1>4, <1>6, <1>7, <1>8, <2>1 DEF Total
  <1>10. QED
    BY <1>3, <1>8, <1>9, Zenon DEF B, T, Total

(* Nobody weighs nothing.                                                  *)
LEMMA TotalOfNobody == \A w : Total(w, {}) = 0
  <1> SUFFICES ASSUME NEW w PROVE Total(w, {}) = 0
    OBVIOUS
  <1>1. UnitsOf(w, {}) = {}
    BY Zenon DEF UnitsOf
  <1>2. QED
    BY <1>1, FS_EmptySet, Zenon DEF Total

(* The member that the library's sum takes first.                          *)
Pick(s) == CHOOSE x \in s : TRUE

(* The equation the library's sum is defined by, which takes one member    *)
(* after the other, has one solution: the number of units.                 *)
LEMMA SumIsTotal ==
    ASSUME NEW S, IsFiniteSet(S), NEW w, \A d \in S : w[d] \in Nat, NEW f,
           \A s \in SUBSET S : f[s] = IF s = {} THEN 0 ELSE w[Pick(s)] + f[s \ {Pick(s)}]
    PROVE  f[S] = Total(w, S)
  <1> DEFINE T == {s \in SUBSET S : f[s] # Total(w, s)}
             R == StrictSubsetOrdering(S)
  <1> SUFFICES ASSUME T # {} PROVE FALSE
    BY Zenon
  <1>1. IsWellFoundedOn(R, SUBSET S)
    BY FS_StrictSubsetOrderingWellFounded, FS_FiniteSubsetsOfFinite, Zenon
  <1>2. T \subseteq SUBSET S
    BY Zenon
  <1>3. \A s, t \in SUBSET S : (s \subseteq t /\ s # t) => <<s, t>> \in R
    BY SMT DEF StrictSubsetOrdering
  <1> HIDE DEF R
  <1>4. PICK s \in T : \A t \in T : ~(<<t, s>> \in R)
    BY <1>1, <1>2, WFMin, Zenon
  <1>5. s \in SUBSET S /\ f[s] # Total(w, s)
    BY <1>4, Zenon
  <1>6. s # {}
    BY <1>5, TotalOfNobody, Zenon
  <1> DEFINE x == Pick(s)
             r == s \ {x}
  <1>7. x \in s
    BY <1>6, Zenon DEF Pick
  <1> HIDE DEF x
  <1>8. r \in SUBSET S /\ r \subseteq s /\ r # s
    BY <1>5, <1>7, Zenon
  <1>9. f[r] = Total(w, r)
    <2> HIDE DEF r
    <2>1. <<r, s>> \in R
      BY <1>3, <1>5, <1>8, Zenon
    <2>2. r \notin T
      BY <1>4, <2>1, Zenon
    <2>3. QED
      BY <1>8, <2>2, Zenon
  <1>10. f[s] = w[x] + f[r]
    BY <1>5, <1>6, Zenon DEF x
  <1>11. Total(w, s) = w[x] + Total(w, r)
    <2>1. IsFiniteSet(s) /\ \A d \in s : w[d] \in Nat
      BY <1>5, FS_Subset, Zenon
    <2>2. QED
      BY <1>7, <2>1, TotalSplits, Zenon
  <1>12. QED
    BY <1>5, <1>9, <1>10, <1>11, Zenon

(* The number of units solves the equation.                                *)
LEMMA TotalSolves ==
    ASSUME NEW S, IsFiniteSet(S), NEW w, \A d \in S : w[d] \in Nat
    PROVE  \A s \in SUBSET S :
              Total(w, s) = IF s = {} THEN 0 ELSE w[Pick(s)] + Total(w, s \ {Pick(s)})
  <1> SUFFICES ASSUME NEW s \in SUBSET S
               PROVE  Total(w, s) = IF s = {} THEN 0 ELSE w[Pick(s)] + Total(w, s \ {Pick(s)})
    BY Zenon
  <1>1. CASE s = {}
    BY <1>1, TotalOfNobody, Zenon
  <1>2. CASE s # {}
    <2>1. Pick(s) \in s
      BY <1>2, Zenon DEF Pick
    <2>2. IsFiniteSet(s) /\ \A d \in s : w[d] \in Nat
      BY FS_Subset, Zenon
    <2>3. QED
      BY <1>2, <2>1, <2>2, TotalSplits, Zenon
  <1>3. QED
    BY <1>1, <1>2

(* The weight of each principal in one unit.                               *)
WeightOf(pr, cf, u) ==
    [d \in Devices |-> IF pr[d] = None THEN 0 ELSE cf.weight[pr[d].class][u]]

Statuses == [required : Units, capacity : Units]

(* What the principals are known to weigh.                                 *)
LEMMA Weights ==
    ASSUME NEW pr \in [Devices -> Principals \cup {None}], NEW cf \in Configs \cup {InitConfig}
    PROVE  /\ cf.capacity \in Units
           /\ \A k \in Classes : /\ cf.weight[k] \in Units
                                 /\ cf.weight[k].steady > 0 /\ cf.weight[k].burst > 0
           /\ \A d \in Devices : WeightOf(pr, cf, "steady")[d] \in Nat
           /\ \A d \in Devices : WeightOf(pr, cf, "burst")[d] \in Nat
  <1>1. /\ cf.capacity \in Units
        /\ \A k \in Classes : /\ cf.weight[k] \in Units
                              /\ cf.weight[k].steady > 0 /\ cf.weight[k].burst > 0
    BY ConfigAssumption, Zenon
  <1>2. ASSUME NEW d \in Devices, pr[d] # None
        PROVE  cf.weight[pr[d].class].steady \in Nat /\ cf.weight[pr[d].class].burst \in Nat
    <2>1. pr[d] \in Principals
      BY <1>2, Zenon
    <2>2. pr[d].class \in Classes
      BY <2>1, Zenon DEF Principals
    <2>3. cf.weight[pr[d].class] \in Units
      BY <1>1, <2>2, Zenon
    <2>4. QED
      BY <2>3, Zenon DEF Units
  <1>3. 0 \in Nat
    OBVIOUS
  <1>4. \A d \in Devices : WeightOf(pr, cf, "steady")[d] \in Nat
    BY <1>2, <1>3, Zenon DEF WeightOf
  <1>5. \A d \in Devices : WeightOf(pr, cf, "burst")[d] \in Nat
    BY <1>2, <1>3, Zenon DEF WeightOf
  <1>6. QED
    BY <1>1, <1>4, <1>5, Zenon

(* The library's sum over the live principals is the number of units.      *)
LEMMA SteadyTotal ==
    ASSUME NEW live \in SUBSET Devices, NEW pr, NEW cf, NEW w,
           \A d \in live : w[d] \in Nat /\ w[d] = cf.weight[pr[d].class].steady
    PROVE  Status(live, pr, cf).required.steady = Total(w, live)
  <1> DEFINE F(f) == [s \in SUBSET live |->
                        IF s = {} THEN 0
                        ELSE cf.weight[pr[CHOOSE x \in s : TRUE].class].steady
                                + f[s \ {CHOOSE x \in s : TRUE}]]
             sum == CHOOSE f : f = F(f)
             g == [s \in SUBSET live |-> Total(w, s)]
  <1>1. Status(live, pr, cf).required.steady = sum[live]
    BY Zenon DEF Status, MapThenSumSet, MapThenFoldSet
  <1>2. IsFiniteSet(live) /\ \A d \in live : w[d] \in Nat
    BY BoundAssumption, FS_Subset, Zenon
  <1>3. ASSUME NEW s \in SUBSET live, s # {}
        PROVE  /\ Pick(s) \in live /\ Pick(s) = CHOOSE x \in s : TRUE
               /\ s \ {Pick(s)} \in SUBSET live
               /\ w[Pick(s)] = cf.weight[pr[Pick(s)].class].steady
    BY <1>3, Zenon DEF Pick
  <1> HIDE DEF F, g, sum
  <1>each. \A s \in SUBSET live :
            Total(w, s) = IF s = {} THEN 0 ELSE w[Pick(s)] + Total(w, s \ {Pick(s)})
    BY <1>2, TotalSolves, Zenon
  <1> USE DEF F, g, sum
  <1>4. g = F(g)
    <2>1. ASSUME NEW s \in SUBSET live PROVE g[s] = F(g)[s]
      <3>1. Total(w, s) = IF s = {} THEN 0 ELSE w[Pick(s)] + Total(w, s \ {Pick(s)})
        BY <1>each, Zenon
      <3>2. CASE s = {}
        BY <3>1, <3>2, Zenon
      <3>3. CASE s # {}
        BY <1>3, <3>1, <3>3, Zenon
      <3>4. QED
        BY <3>2, <3>3, Zenon
    <2>2. QED
      BY <2>1, Zenon
  <1>5. sum = F(sum)
    BY <1>4, Zenon
  <1> HIDE DEF sum
  <1>6. ASSUME NEW s \in SUBSET live
        PROVE  sum[s] = IF s = {} THEN 0 ELSE w[Pick(s)] + sum[s \ {Pick(s)}]
    <2>1. sum[s] = F(sum)[s]
      BY <1>5, Zenon
    <2>2. CASE s = {}
      BY <2>1, <2>2, Zenon
    <2>3. CASE s # {}
      BY <1>3, <2>1, <2>3, Zenon
    <2>4. QED
      BY <2>2, <2>3, Zenon
  <1> HIDE DEF F, g
  <1>7. sum[live] = Total(w, live)
    BY <1>2, <1>6, SumIsTotal, Zenon
  <1>8. QED
    BY <1>1, <1>7, Zenon

(* The same for the bursts.                                                *)
LEMMA BurstTotal ==
    ASSUME NEW live \in SUBSET Devices, NEW pr, NEW cf, NEW w,
           \A d \in live : w[d] \in Nat /\ w[d] = cf.weight[pr[d].class].burst
    PROVE  Status(live, pr, cf).required.burst = Total(w, live)
  <1> DEFINE F(f) == [s \in SUBSET live |->
                        IF s = {} THEN 0
                        ELSE cf.weight[pr[CHOOSE x \in s : TRUE].class].burst
                                + f[s \ {CHOOSE x \in s : TRUE}]]
             sum == CHOOSE f : f = F(f)
             g == [s \in SUBSET live |-> Total(w, s)]
  <1>1. Status(live, pr, cf).required.burst = sum[live]
    BY Zenon DEF Status, MapThenSumSet, MapThenFoldSet
  <1>2. IsFiniteSet(live) /\ \A d \in live : w[d] \in Nat
    BY BoundAssumption, FS_Subset, Zenon
  <1>3. ASSUME NEW s \in SUBSET live, s # {}
        PROVE  /\ Pick(s) \in live /\ Pick(s) = CHOOSE x \in s : TRUE
               /\ s \ {Pick(s)} \in SUBSET live
               /\ w[Pick(s)] = cf.weight[pr[Pick(s)].class].burst
    BY <1>3, Zenon DEF Pick
  <1> HIDE DEF F, g, sum
  <1>each. \A s \in SUBSET live :
            Total(w, s) = IF s = {} THEN 0 ELSE w[Pick(s)] + Total(w, s \ {Pick(s)})
    BY <1>2, TotalSolves, Zenon
  <1> USE DEF F, g, sum
  <1>4. g = F(g)
    <2>1. ASSUME NEW s \in SUBSET live PROVE g[s] = F(g)[s]
      <3>1. Total(w, s) = IF s = {} THEN 0 ELSE w[Pick(s)] + Total(w, s \ {Pick(s)})
        BY <1>each, Zenon
      <3>2. CASE s = {}
        BY <3>1, <3>2, Zenon
      <3>3. CASE s # {}
        BY <1>3, <3>1, <3>3, Zenon
      <3>4. QED
        BY <3>2, <3>3, Zenon
    <2>2. QED
      BY <2>1, Zenon
  <1>5. sum = F(sum)
    BY <1>4, Zenon
  <1> HIDE DEF sum
  <1>6. ASSUME NEW s \in SUBSET live
        PROVE  sum[s] = IF s = {} THEN 0 ELSE w[Pick(s)] + sum[s \ {Pick(s)}]
    <2>1. sum[s] = F(sum)[s]
      BY <1>5, Zenon
    <2>2. CASE s = {}
      BY <2>1, <2>2, Zenon
    <2>3. CASE s # {}
      BY <1>3, <2>1, <2>3, Zenon
    <2>4. QED
      BY <2>2, <2>3, Zenon
  <1> HIDE DEF F, g
  <1>7. sum[live] = Total(w, live)
    BY <1>2, <1>6, SumIsTotal, Zenon
  <1>8. QED
    BY <1>1, <1>7, Zenon

(* What the live principals require, in units.                             *)
LEMMA StatusTotals ==
    ASSUME NEW live \in SUBSET Devices, NEW pr \in [Devices -> Principals \cup {None}],
           NEW cf \in Configs \cup {InitConfig}, \A d \in live : pr[d] # None
    PROVE  /\ Status(live, pr, cf) \in Statuses
           /\ Status(live, pr, cf) = [required |-> [steady |-> Total(WeightOf(pr, cf, "steady"), live),
                                                    burst |-> Total(WeightOf(pr, cf, "burst"), live)],
                                      capacity |-> cf.capacity]
  <1> DEFINE s == Status(live, pr, cf).required.steady
             b == Status(live, pr, cf).required.burst
             ws == WeightOf(pr, cf, "steady")
             wb == WeightOf(pr, cf, "burst")
  <1>1. Status(live, pr, cf) = [required |-> [steady |-> Status(live, pr, cf).required.steady,
                                              burst |-> Status(live, pr, cf).required.burst],
                                capacity |-> cf.capacity]
    BY Zenon DEF Status
  <1>2. \A d \in live : /\ ws[d] \in Nat /\ ws[d] = cf.weight[pr[d].class].steady
                        /\ wb[d] \in Nat /\ wb[d] = cf.weight[pr[d].class].burst
    <2>1. ASSUME NEW d \in live
          PROVE  ws[d] = cf.weight[pr[d].class].steady /\ wb[d] = cf.weight[pr[d].class].burst
      BY Zenon DEF WeightOf
    <2>2. QED
      BY <2>1, Weights, Zenon
  <1>3. s = Total(ws, live)
    <2> HIDE DEF ws
    <2>1. \A d \in live : ws[d] \in Nat /\ ws[d] = cf.weight[pr[d].class].steady
      BY <1>2, Zenon
    <2>2. QED
      BY <2>1, SteadyTotal
  <1>4. b = Total(wb, live)
    <2> HIDE DEF wb
    <2>1. \A d \in live : wb[d] \in Nat /\ wb[d] = cf.weight[pr[d].class].burst
      BY <1>2, Zenon
    <2>2. QED
      BY <2>1, BurstTotal
  <1>5. Total(ws, live) \in Nat /\ Total(wb, live) \in Nat
    <2> HIDE DEF ws, wb
    <2>1. IsFiniteSet(live)
      BY BoundAssumption, FS_Subset, Zenon
    <2>2. CASE live = {}
      BY <2>2, TotalOfNobody
    <2>3. CASE live # {}
      <3>1. PICK x \in live : TRUE
        BY <2>3, Zenon
      <3>2. QED
        BY <1>2, <2>1, <3>1, TotalSplits, Zenon
    <2>4. QED
      BY <2>2, <2>3, Zenon
  <1>6. cf.capacity \in Units
    BY Weights, Zenon
  <1>7. PICK st : st = Status(live, pr, cf)
    BY Zenon
  <1>8. /\ st = [required |-> [steady |-> Total(ws, live), burst |-> Total(wb, live)],
                 capacity |-> cf.capacity]
    BY <1>1, <1>3, <1>4, <1>7, Zenon
  <1> HIDE DEF ws, wb
  <1>9. st \in Statuses
    BY <1>5, <1>6, <1>8, Zenon DEF Statuses, Units
  <1>10. QED
    BY <1>7, <1>8, <1>9, Zenon DEF ws, wb

(* Only the classes of the live principals count.                          *)
LEMMA StatusByClass ==
    ASSUME NEW live \in SUBSET Devices, NEW cf \in Configs \cup {InitConfig},
           NEW pr \in [Devices -> Principals \cup {None}],
           NEW qr \in [Devices -> Principals \cup {None}],
           \A d \in live : pr[d] # None /\ qr[d] # None /\ pr[d].class = qr[d].class
    PROVE  Status(live, pr, cf) = Status(live, qr, cf)
  <1>1. ASSUME NEW u, NEW d \in live PROVE WeightOf(pr, cf, u)[d] = WeightOf(qr, cf, u)[d]
    BY Zenon DEF WeightOf
  <1>2. ASSUME NEW u PROVE Total(WeightOf(pr, cf, u), live) = Total(WeightOf(qr, cf, u), live)
    <2>1. PICK w, v : w = WeightOf(pr, cf, u) /\ v = WeightOf(qr, cf, u)
      BY Zenon
    <2>2. \A d \in live : {d} \X (1 .. w[d]) = {d} \X (1 .. v[d])
      BY <1>1, <2>1, Zenon
    <2>3. {{d} \X (1 .. w[d]) : d \in live} = {{d} \X (1 .. v[d]) : d \in live}
      BY <2>2, Zenon
    <2>4. Total(w, live) = Total(v, live)
      BY ONLY <2>3, Zenon DEF Total, UnitsOf
    <2>5. QED
      BY <2>1, <2>4, Zenon
  <1>3. /\ Status(live, pr, cf) = [required |-> [steady |-> Total(WeightOf(pr, cf, "steady"), live),
                                                 burst |-> Total(WeightOf(pr, cf, "burst"), live)],
                                   capacity |-> cf.capacity]
        /\ Status(live, qr, cf) = [required |-> [steady |-> Total(WeightOf(qr, cf, "steady"), live),
                                                 burst |-> Total(WeightOf(qr, cf, "burst"), live)],
                                   capacity |-> cf.capacity]
    <2>1. \A d \in live : pr[d] # None /\ qr[d] # None
      BY Zenon
    <2>2. QED
      BY <2>1, StatusTotals, Zenon
  <1>4. /\ Total(WeightOf(pr, cf, "steady"), live) = Total(WeightOf(qr, cf, "steady"), live)
        /\ Total(WeightOf(pr, cf, "burst"), live) = Total(WeightOf(qr, cf, "burst"), live)
    BY <1>2, Zenon
  <1>5. QED
    BY <1>3, <1>4, Zenon

(* Devices that all have a principal, under a configuration.                *)
Weighed(live, pr, cf) ==
    /\ live \in SUBSET Devices /\ pr \in [Devices -> Principals \cup {None}]
    /\ cf \in Configs \cup {InitConfig} /\ \A d \in live : pr[d] # None

(* The capacity required with x is what is required without it and its weight. *)
AddsWeight(x, more, pr, cf) ==
    Status(more, pr, cf) = Plus(Status(more \ {x}, pr, cf), cf.weight[pr[x].class])

(* One more live principal requires its weight more.                       *)
LEMMA StatusOneMore ==
    ASSUME NEW more, NEW pr, NEW cf, Weighed(more, pr, cf), NEW x \in more
    PROVE  AddsWeight(x, more, pr, cf)
  <1> DEFINE ws == WeightOf(pr, cf, "steady")
             wb == WeightOf(pr, cf, "burst")
  <1> USE DEF Weighed
  <1>1. PICK live : /\ more \in SUBSET Devices /\ x \in more /\ more \ {x} = live
                    /\ live \in SUBSET Devices
    BY Zenon
  <1>2. IsFiniteSet(more)
    BY <1>1, BoundAssumption, FS_Subset, Zenon
  <1>3. /\ \A d \in more : ws[d] \in Nat
        /\ \A d \in more : wb[d] \in Nat
    BY <1>1, Weights, Zenon
  <1>4. Total(ws, more) = ws[x] + Total(ws, live) /\ Total(ws, live) \in Nat
    <2> HIDE DEF ws
    <2>1. Total(ws, more \ {x}) \in Nat /\ Total(ws, more) = ws[x] + Total(ws, more \ {x})
      BY <1>1, <1>2, <1>3, TotalSplits, Zenon
    <2>2. QED
      BY <1>1, <2>1, Zenon
  <1>5. Total(wb, more) = wb[x] + Total(wb, live) /\ Total(wb, live) \in Nat
    <2> HIDE DEF wb
    <2>1. Total(wb, more \ {x}) \in Nat /\ Total(wb, more) = wb[x] + Total(wb, more \ {x})
      BY <1>1, <1>2, <1>3, TotalSplits, Zenon
    <2>2. QED
      BY <1>1, <2>1, Zenon
  <1>6. ws[x] = cf.weight[pr[x].class].steady /\ wb[x] = cf.weight[pr[x].class].burst
    <2>1. pr[x] # None
      BY Zenon
    <2>2. QED
      BY <2>1, Zenon DEF WeightOf
  <1>7. /\ Status(live, pr, cf) = [required |-> [steady |-> Total(ws, live), burst |-> Total(wb, live)],
                                   capacity |-> cf.capacity]
        /\ Status(more, pr, cf) = [required |-> [steady |-> Total(ws, more), burst |-> Total(wb, more)],
                                   capacity |-> cf.capacity]
    <2>1. (\A d \in live : pr[d] # None) /\ (\A d \in more : pr[d] # None)
      BY <1>1, Zenon
    <2>2. QED
      BY <1>1, <2>1, StatusTotals, Zenon
  <1>8. PICK a, b, c, p, q : /\ a = Total(ws, live) /\ b = Total(wb, live) /\ c = cf.capacity
                             /\ p = ws[x] /\ q = wb[x]
    BY Zenon
  <1>9. p \in Nat /\ q \in Nat /\ a \in Nat /\ b \in Nat
    BY <1>1, <1>3, <1>4, <1>5, <1>8, Zenon
  <1>10. /\ Status(live, pr, cf) = [required |-> [steady |-> a, burst |-> b], capacity |-> c]
         /\ Status(more, pr, cf) = [required |-> [steady |-> p + a, burst |-> q + b], capacity |-> c]
         /\ cf.weight[pr[x].class].steady = p /\ cf.weight[pr[x].class].burst = q
    BY <1>4, <1>5, <1>6, <1>7, <1>8, Zenon
  <1> HIDE DEF ws, wb
  <1>11. PICK st, wt : st = Status(live, pr, cf) /\ wt = cf.weight[pr[x].class]
    BY Zenon
  <1>12. Plus(st, wt) = [required |-> [steady |-> a + p, burst |-> b + q], capacity |-> c]
    <2>1. st = [required |-> [steady |-> a, burst |-> b], capacity |-> c] /\ wt.steady = p /\ wt.burst = q
      BY <1>10, <1>11, Zenon
    <2>2. c \in Units
      BY <1>8, Weights, Zenon
    <2>3. st \in Statuses /\ st.capacity = c /\ st.required.steady = a /\ st.required.burst = b
      BY <1>9, <2>1, <2>2 DEF Statuses, Units
    <2>4. PICK t : t = Plus(st, wt)
      BY Zenon
    <2>5. t \in Statuses
      <3>1. PICK r : r = [st.required EXCEPT !.steady = a + p]
        BY Zenon
      <3>2. PICK m : m = [st EXCEPT !.required = r]
        BY Zenon
      <3>3. st.required \in Units /\ a + p \in Nat /\ b + q \in Nat
        BY <1>9, <2>3 DEF Statuses
      <3>4. r \in Units /\ r.steady = a + p /\ r.burst = b
        BY <2>3, <3>1, <3>3 DEF Units
      <3>5. m \in Statuses /\ m.required = r
        BY <2>3, <3>2, <3>4 DEF Statuses
      <3>6. t = [m EXCEPT !.required = [m.required EXCEPT !.burst = b + q]]
        BY <2>1, <2>3, <2>4, <3>1, <3>2, <3>4, <3>5 DEF Plus
      <3>7. PICK n : n = [r EXCEPT !.burst = b + q]
        BY Zenon
      <3>8. n \in Units
        BY <3>3, <3>4, <3>7 DEF Units
      <3>9. QED
        BY <3>5, <3>6, <3>7, <3>8 DEF Statuses
    <2>6. t.required.steady = a + p /\ t.required.burst = b + q /\ t.capacity = c
      BY <1>9, <2>1, <2>3, <2>4, Zenon DEF Plus, Statuses, Units
    <2>7. t.required = [steady |-> a + p, burst |-> b + q]
      BY <2>5, <2>6 DEF Statuses, Units
    <2>8. QED
      BY <2>4, <2>5, <2>6, <2>7 DEF Statuses
  <1>13. a + p = p + a /\ b + q = q + b
    BY <1>9
  <1>14. QED
    BY <1>1, <1>10, <1>11, <1>12, <1>13, Zenon DEF AddsWeight

(* Fewer live principals require no more.                                  *)
LEMMA StatusOfFewer ==
    ASSUME NEW live \in SUBSET Devices, NEW pr \in [Devices -> Principals \cup {None}],
           NEW cf \in Configs \cup {InitConfig}, \A d \in live : pr[d] # None,
           NEW left \in SUBSET live
    PROVE  /\ Status(left, pr, cf).required.steady <= Status(live, pr, cf).required.steady
           /\ Status(left, pr, cf).required.burst <= Status(live, pr, cf).required.burst
           /\ Status(left, pr, cf).capacity = Status(live, pr, cf).capacity
  <1>1. ASSUME NEW w, \A d \in live : w[d] \in Nat
        PROVE  Total(w, left) <= Total(w, live)
    <2>1. IsFiniteSet(live)
      BY BoundAssumption, FS_Subset, Zenon
    <2>2. IsFiniteSet(UnitsOf(w, live))
      <3>1. CASE live = {}
        <4>1. UnitsOf(w, live) = {}
          BY <3>1, Zenon DEF UnitsOf
        <4>2. QED
          BY <4>1, FS_EmptySet, Zenon
      <3>2. CASE live # {}
        BY <1>1, <2>1, <3>2, TotalSplits, Zenon
      <3>3. QED
        BY <3>1, <3>2, Zenon
    <2>3. UnitsOf(w, left) \in SUBSET UnitsOf(w, live)
      BY Zenon DEF UnitsOf
    <2>4. QED
      BY <2>2, <2>3, FS_Subset, Zenon DEF Total
  <1>2. \A d \in live : WeightOf(pr, cf, "steady")[d] \in Nat /\ WeightOf(pr, cf, "burst")[d] \in Nat
    BY Weights, Zenon
  <1>3. /\ Total(WeightOf(pr, cf, "steady"), left) <= Total(WeightOf(pr, cf, "steady"), live)
        /\ Total(WeightOf(pr, cf, "burst"), left) <= Total(WeightOf(pr, cf, "burst"), live)
    BY <1>1, <1>2, Zenon
  <1>4. left \in SUBSET Devices /\ \A d \in left : pr[d] # None
    BY Zenon
  <1>5. /\ Status(left, pr, cf) = [required |-> [steady |-> Total(WeightOf(pr, cf, "steady"), left),
                                                 burst |-> Total(WeightOf(pr, cf, "burst"), left)],
                                   capacity |-> cf.capacity]
        /\ Status(live, pr, cf) = [required |-> [steady |-> Total(WeightOf(pr, cf, "steady"), live),
                                                 burst |-> Total(WeightOf(pr, cf, "burst"), live)],
                                   capacity |-> cf.capacity]
    BY <1>4, StatusTotals, Zenon
  <1>6. PICK a, b, c, d, e : /\ a = Total(WeightOf(pr, cf, "steady"), left)
                             /\ b = Total(WeightOf(pr, cf, "burst"), left)
                             /\ c = Total(WeightOf(pr, cf, "steady"), live)
                             /\ d = Total(WeightOf(pr, cf, "burst"), live)
                             /\ e = cf.capacity
    BY Zenon
  <1>7. /\ Status(left, pr, cf) = [required |-> [steady |-> a, burst |-> b], capacity |-> e]
        /\ Status(live, pr, cf) = [required |-> [steady |-> c, burst |-> d], capacity |-> e]
    BY <1>5, <1>6, Zenon
  <1>8. a <= c /\ b <= d
    BY <1>3, <1>6, Zenon
  <1>9. QED
    BY <1>7, <1>8

(* More weight never makes an excess go away, and makes it worse.          *)
LEMMA MoreIsWorse ==
    ASSUME NEW s \in Statuses, NEW w \in Units, w.steady > 0, w.burst > 0, Exceeds(s)
    PROVE  Exceeds(Plus(s, w)) /\ ~NoWorseThan(Plus(s, w), s)
  <1>1. PICK a, b, p, q, x, y : /\ s.required.steady = a /\ s.required.burst = b
                                /\ s.capacity.steady = p /\ s.capacity.burst = q
                                /\ w.steady = x /\ w.burst = y
    BY Zenon
  <1>2. {a, b, p, q, x, y} \subseteq Nat /\ x > 0 /\ y > 0
    BY <1>1 DEF Statuses, Units
  <1>3. PICK t : t = Plus(s, w)
    BY Zenon
  <1>4. /\ t.required.steady = a + x /\ t.required.burst = b + y
        /\ t.capacity.steady = p /\ t.capacity.burst = q
    BY <1>1, <1>3, Zenon DEF Plus, Statuses, Units
  <1>5. a > p \/ b > q
    BY <1>1 DEF Exceeds
  <1>6. Exceeds(t)
    BY <1>2, <1>4, <1>5 DEF Exceeds
  <1>7. ~NoWorseThan(t, s)
    <2>1. CASE a > p
      <3>1. Overage(t, "steady") = (a + x) - p /\ Overage(s, "steady") = a - p
        BY <1>1, <1>2, <1>4, <2>1 DEF Overage
      <3>2. ~(Overage(t, "steady") <= Overage(s, "steady"))
        BY <1>2, <3>1
      <3>3. QED
        BY <3>2, Zenon DEF NoWorseThan
    <2>2. CASE b > q
      <3>1. Overage(t, "burst") = (b + y) - q /\ Overage(s, "burst") = b - q
        BY <1>1, <1>2, <1>4, <2>2 DEF Overage
      <3>2. ~(Overage(t, "burst") <= Overage(s, "burst"))
        BY <1>2, <3>1
      <3>3. QED
        BY <3>2, Zenon DEF NoWorseThan
    <2>3. QED
      BY <1>5, <2>1, <2>2, Zenon
  <1>8. QED
    BY <1>3, <1>6, <1>7, Zenon

(* Less required of the same capacity is no worse.                         *)
LEMMA LessIsNoWorse ==
    ASSUME NEW s \in Statuses, NEW t \in Statuses, s.capacity = t.capacity,
           s.required.steady <= t.required.steady, s.required.burst <= t.required.burst
    PROVE  NoWorseThan(s, t) /\ (Exceeds(s) => Exceeds(t))
  <1>1. PICK a, b, c, d, p, q : /\ s.required.steady = a /\ s.required.burst = b
                                /\ t.required.steady = c /\ t.required.burst = d
                                /\ t.capacity.steady = p /\ t.capacity.burst = q
    BY Zenon
  <1>2. {a, b, c, d, p, q} \subseteq Nat /\ a <= c /\ b <= d
    BY <1>1 DEF Statuses, Units
  <1>3. s.capacity.steady = p /\ s.capacity.burst = q
    BY <1>1, Zenon
  <1>4. Overage(s, "steady") <= Overage(t, "steady")
    BY <1>1, <1>2, <1>3 DEF Overage
  <1>5. Overage(s, "burst") <= Overage(t, "burst")
    BY <1>1, <1>2, <1>3 DEF Overage
  <1>6. Exceeds(s) => Exceeds(t)
    BY <1>1, <1>2, <1>3 DEF Exceeds
  <1>7. QED
    BY <1>4, <1>5, <1>6, Zenon DEF NoWorseThan

-----------------------------------------------------------------------------
(* The debt: inductive invariant.                                          *)

(* A device that is registered is in the scopes of its principal.          *)
OwnScope == \A d \in Devices : device[d] = "live" => d \in principal[d].scopes

(* A preview of this generation was computed in this state.                *)
PreviewTrue ==
    preview # None =>
        /\ preview.generation \in Nat /\ preview.generation <= generation
        /\ preview.generation = generation => preview.world = World

DebtInvariant == OwnScope /\ PreviewTrue /\ DebtIsExact

LiveNow == Live(device, principal, credential)

(* The live principals, and what they require.                             *)
LEMMA LiveFacts ==
    ASSUME CredentialInvariant
    PROVE  /\ LiveNow \in SUBSET Devices /\ \A d \in LiveNow : principal[d] # None
           /\ principal \in [Devices -> Principals \cup {None}]
           /\ config \in Configs \cup {InitConfig}
           /\ StatusNow = Status(LiveNow, principal, config) /\ StatusNow \in Statuses
           /\ StatusNow # None
  <1>1. LiveNow \in SUBSET Devices /\ \A d \in LiveNow : principal[d] # None
    BY Zenon DEF LiveNow, Live
  <1>2. /\ principal \in [Devices -> Principals \cup {None}]
        /\ config \in Configs \cup {InitConfig}
    BY Zenon DEF CredentialInvariant, Types
  <1>3. StatusNow = Status(LiveNow, principal, config)
    BY Zenon DEF StatusNow, LiveNow
  <1>4. StatusNow \in Statuses
    BY <1>1, <1>2, <1>3, StatusTotals, Zenon
  <1>5. None \notin Statuses
    BY NoneAssumption, Zenon DEF Statuses
  <1>6. QED
    BY <1>1, <1>2, <1>3, <1>4, <1>5, Zenon

(* Whether a principal is live depends on its having a live credential.    *)
LEMMA LiveByCredential ==
    ASSUME NEW dv, NEW pr, NEW cr, NEW er,
           \A d \in Devices : LiveCredentials(d, cr) # {} <=> LiveCredentials(d, er) # {}
    PROVE  Live(dv, pr, cr) = Live(dv, pr, er)
  BY Zenon DEF Live

(* A new credential makes its principal live.                              *)
LEMMA IssuedLive ==
    ASSUME CredentialInvariant, NEW d \in Devices, NEW s \in LiveStates, NEW c \in Ids,
           NewCredential(d, s, c), NEW e \in Devices
    PROVE  LiveCredentials(e, credential') # {} <=> (e = d \/ LiveCredentials(e, credential) # {})
  <1>1. /\ credential \in [Ids -> Credentials \cup {None}]
        /\ credential[c] = None
        /\ credential' = [credential EXCEPT ![c] = [principal |-> d, state |-> s,
                                                    proven |-> FALSE, confirmed |-> FALSE]]
    BY Zenon DEF CredentialInvariant, Types, NewCredential
  <1>2. PICK new : new = [principal |-> d, state |-> s, proven |-> FALSE, confirmed |-> FALSE]
    BY Zenon
  <1>3. new # None /\ new.principal = d /\ new.state \in LiveStates
    <2>1. new \in Credentials
      BY <1>2 DEF Credentials
    <2>2. QED
      BY <1>2, <2>1, NotNone, Zenon
  <1>4. credential'[c] = new /\ \A x \in Ids : x # c => credential'[x] = credential[x]
    BY <1>1, <1>2, Zenon
  <1>5. c \in LiveCredentials(d, credential')
    BY <1>3, <1>4, Zenon DEF LiveCredentials
  <1>6. ASSUME NEW x \in LiveCredentials(e, credential) PROVE x \in LiveCredentials(e, credential')
    <2>1. x # c
      BY <1>1, <1>6, Zenon DEF LiveCredentials
    <2>2. QED
      BY <1>4, <1>6, <2>1, Zenon DEF LiveCredentials
  <1>7. ASSUME NEW x \in LiveCredentials(e, credential'), e # d PROVE x \in LiveCredentials(e, credential)
    <2>1. x # c
      BY <1>3, <1>4, <1>7, Zenon DEF LiveCredentials
    <2>2. QED
      BY <1>4, <1>7, <2>1, Zenon DEF LiveCredentials
  <1>8. QED
    BY <1>5, <1>6, <1>7, Zenon

-----------------------------------------------------------------------------
(* What an operation does is what its prospective status says.             *)

(* add_device: one more live principal, of the class it was given.         *)
LEMMA AddPerformed ==
    ASSUME CredentialInvariant, CredentialInvariant', OwnScope, NEW op \in Operations, op.kind = "add",
           AddAllowed(op), AddDevice(op)
    PROVE  /\ StatusNow' = Plus(StatusNow, config.weight[op.class])
           /\ op.class \in Classes
           /\ OwnScope'
  <1> DEFINE d == op.device
             row == [class |-> op.class, scopes |-> op.scopes \cup {d}]
  <1>1. d \in Devices /\ op.class \in Classes /\ op.scopes \in SUBSET Devices
    BY DEF Operations
  <1>2. /\ device \in [Devices -> {"absent", "live", "retired"}] /\ device[d] = "absent"
        /\ principal \in [Devices -> Principals \cup {None}]
        /\ device' = [device EXCEPT ![d] = "live"] /\ principal' = [principal EXCEPT ![d] = row]
        /\ config' = config
    BY Zenon DEF CredentialInvariant, Types, AddAllowed, AddDevice, Registered
  <1>3. PICK c \in Ids : NewCredential(d, "current", c)
    BY Zenon DEF AddDevice
  <1>4. row.class = op.class /\ d \in row.scopes
    BY Zenon
  <1>5. row # None
    <2>1. row \in Principals
      BY <1>1, Zenon DEF Principals
    <2>2. QED
      BY <2>1, NotNone, Zenon
  <1> HIDE DEF d, row
  <1>6. /\ device'[d] = "live" /\ principal'[d] = row
        /\ \A e \in Devices : e # d => device'[e] = device[e] /\ principal'[e] = principal[e]
    BY <1>1, <1>2, Zenon
  <1>7. OwnScope'
    <2> SUFFICES ASSUME NEW e \in Devices, device'[e] = "live" PROVE e \in principal'[e].scopes
      BY Zenon DEF OwnScope
    <2>1. CASE e = d
      BY <1>4, <1>6, <2>1, Zenon
    <2>2. CASE e # d
      BY <1>6, <2>2, Zenon DEF OwnScope
    <2>3. QED
      BY <2>1, <2>2, Zenon
  <1>8. \A e \in Devices : LiveCredentials(e, credential') # {}
                               <=> (e = d \/ LiveCredentials(e, credential) # {})
    BY <1>1, <1>3, IssuedLive, Zenon DEF LiveStates
  <1>9. d \notin LiveNow
    <2>1. "absent" # "live"
      OBVIOUS
    <2>2. QED
      BY <1>2, <2>1, Zenon DEF LiveNow, Live
  <1>10. LiveNow' = LiveNow \cup {d}
    <2>1. ASSUME NEW e \in Devices PROVE e \in LiveNow' <=> e \in LiveNow \cup {d}
      <3>1. CASE e = d
        <4>1. d \in UsableScopes(d, device', principal')
          BY <1>4, <1>6, Zenon DEF UsableScopes
        <4>2. QED
          BY <1>1, <1>5, <1>6, <1>8, <3>1, <4>1, Zenon DEF LiveNow, Live
      <3>2. CASE e # d
        <4>1. CASE device[e] = "live"
          <5>1. e \in UsableScopes(e, device, principal)
            BY <4>1, Zenon DEF OwnScope, UsableScopes
          <5>2. e \in UsableScopes(e, device', principal')
            BY <1>6, <3>2, <4>1, Zenon DEF OwnScope, UsableScopes
          <5>3. QED
            BY <1>6, <1>8, <3>2, <4>1, <5>1, <5>2, Zenon DEF LiveNow, Live
        <4>2. CASE device[e] # "live"
          BY <1>6, <3>2, <4>2, Zenon DEF LiveNow, Live
        <4>3. QED
          BY <4>1, <4>2, Zenon
      <3>3. QED
        BY <3>1, <3>2, Zenon
    <2>2. LiveNow' \subseteq Devices /\ LiveNow \cup {d} \subseteq Devices
      BY <1>1, Zenon DEF LiveNow, Live
    <2>3. QED
      BY <2>1, <2>2, Zenon
  <1>11. /\ principal' \in [Devices -> Principals \cup {None}]
         /\ \A e \in LiveNow \cup {d} : principal'[e] # None
         /\ StatusNow' = Status(LiveNow', principal', config')
    <2>1. principal' \in [Devices -> Principals \cup {None}]
      BY Zenon DEF CredentialInvariant, Types
    <2>2. \A e \in LiveNow' : principal'[e] # None
      BY Zenon DEF LiveNow, Live
    <2>3. QED
      BY <1>10, <2>1, <2>2, Zenon DEF StatusNow, LiveNow
  <1>12. Status(LiveNow \cup {d}, principal', config)
           = Plus(Status(LiveNow, principal', config), config.weight[principal'[d].class])
    <2>1. PICK more : more = LiveNow \cup {d}
      BY Zenon
    <2>2. more \in SUBSET Devices /\ d \in more /\ more \ {d} = LiveNow
      BY <1>1, <1>9, <1>11, <2>1, LiveFacts, Zenon
    <2>3. Weighed(more, principal', config)
      BY <1>1, <1>9, <1>11, <2>1, <2>2, LiveFacts, Zenon DEF Weighed
    <2>4. AddsWeight(d, more, principal', config)
      BY <2>2, <2>3, StatusOneMore, Zenon
    <2>5. QED
      BY <2>1, <2>2, <2>4, Zenon DEF AddsWeight
  <1>13. Status(LiveNow, principal', config) = Status(LiveNow, principal, config)
    <2>1. \A e \in LiveNow : /\ principal[e] # None /\ principal'[e] # None
                             /\ principal[e].class = principal'[e].class
      BY <1>6, <1>9, <1>11, LiveFacts, Zenon
    <2>2. QED
      BY <1>11, <2>1, LiveFacts, StatusByClass, Zenon
  <1>14. StatusNow' = Plus(StatusNow, config.weight[op.class])
    BY <1>2, <1>4, <1>6, <1>10, <1>11, <1>12, <1>13, LiveFacts, Zenon
  <1>15. QED
    BY <1>1, <1>7, <1>14, Zenon

(* issue_device_credential: a principal without a live credential.         *)
LEMMA IssuePerformed ==
    ASSUME CredentialInvariant, CredentialInvariant', OwnScope, NEW op \in Operations, op.kind = "issue",
           IssueAllowed(op), IssueCredential(op)
    PROVE  /\ StatusNow' = Plus(StatusNow, config.weight[principal[op.device].class])
           /\ principal[op.device].class \in Classes
           /\ OwnScope'
  <1> DEFINE d == op.device
  <1>1. d \in Devices
    BY DEF Operations
  <1>2. /\ device[d] = "live" /\ principal[d] # None /\ UsableScopes(d, device, principal) # {}
        /\ LiveCredentials(d, credential) = {}
        /\ UNCHANGED <<device, principal, config>>
    BY Zenon DEF IssueAllowed, PrincipalExists, IssueCredential
  <1>3. PICK c \in Ids : NewCredential(d, "current", c)
    BY Zenon DEF IssueCredential
  <1> HIDE DEF d
  <1>4. \A e \in Devices : LiveCredentials(e, credential') # {}
                               <=> (e = d \/ LiveCredentials(e, credential) # {})
    BY <1>1, <1>3, IssuedLive, Zenon DEF LiveStates
  <1>5. d \notin LiveNow
    BY <1>2, Zenon DEF LiveNow, Live
  <1>6. LiveNow' = LiveNow \cup {d}
    BY <1>1, <1>2, <1>4, Zenon DEF LiveNow, Live
  <1>7. principal[d].class \in Classes
    <2>1. principal[d] \in Principals
      BY <1>1, <1>2, LiveFacts, Zenon
    <2>2. QED
      BY <2>1, Zenon DEF Principals
  <1>8. \A e \in LiveNow \cup {d} : principal[e] # None
    BY <1>2, LiveFacts, Zenon
  <1>9. Status(LiveNow \cup {d}, principal, config)
          = Plus(Status(LiveNow, principal, config), config.weight[principal[d].class])
    <2>1. PICK more : more = LiveNow \cup {d}
      BY Zenon
    <2>2. more \in SUBSET Devices /\ d \in more /\ more \ {d} = LiveNow
      BY <1>1, <1>5, <1>8, <2>1, LiveFacts, Zenon
    <2>3. Weighed(more, principal, config)
      BY <1>1, <1>5, <1>8, <2>1, <2>2, LiveFacts, Zenon DEF Weighed
    <2>4. AddsWeight(d, more, principal, config)
      BY <2>2, <2>3, StatusOneMore, Zenon
    <2>5. QED
      BY <2>1, <2>2, <2>4, Zenon DEF AddsWeight
  <1>10. StatusNow' = Status(LiveNow', principal', config')
    BY Zenon DEF StatusNow, LiveNow
  <1>11. StatusNow' = Plus(StatusNow, config.weight[principal[d].class])
    BY <1>2, <1>6, <1>9, <1>10, LiveFacts, Zenon
  <1>12. OwnScope'
    BY <1>2, Zenon DEF OwnScope
  <1>13. QED
    BY <1>7, <1>11, <1>12, Zenon DEF d

(* What was put on can be taken off.                                       *)
LEMMA MinusPlus ==
    ASSUME NEW s \in Statuses, NEW w \in Units
    PROVE  Minus(Plus(s, w), w) = s
  <1>1. PICK a, b, p, q : /\ s.required.steady = a /\ s.required.burst = b
                          /\ w.steady = p /\ w.burst = q
    BY Zenon
  <1>2. a \in Nat /\ b \in Nat /\ p \in Nat /\ q \in Nat
    BY <1>1 DEF Statuses, Units
  <1>3. PICK t : t = Plus(s, w)
    BY Zenon
  <1>4. /\ t \in Statuses /\ t.capacity = s.capacity
        /\ t.required.steady = a + p /\ t.required.burst = b + q
    <2>1. PICK x \in Nat, y \in Nat : x = a + p /\ y = b + q
      BY <1>2
    <2>2. PICK r : r = [s.required EXCEPT !.steady = x]
      BY Zenon
    <2>3. PICK m : m = [s EXCEPT !.required = r]
      BY Zenon
    <2>4. PICK n : n = [m.required EXCEPT !.burst = y]
      BY Zenon
    <2>5. PICK z : z = [m EXCEPT !.required = n]
      BY Zenon
    <2>6. /\ r.burst = s.required.burst /\ m \in Statuses /\ m.required = r
          /\ z \in Statuses /\ z.capacity = s.capacity
          /\ z.required.steady = x /\ z.required.burst = y
      <3>1. r \in Units /\ r.steady = x /\ r.burst = s.required.burst
        BY <2>1, <2>2 DEF Statuses, Units
      <3>2. m \in Statuses /\ m.required = r /\ m.capacity = s.capacity
        BY <2>3, <3>1 DEF Statuses
      <3>3. n \in Units /\ n.steady = x /\ n.burst = y
        BY <2>1, <2>4, <3>1, <3>2 DEF Units
      <3>4. z \in Statuses /\ z.required = n /\ z.capacity = m.capacity
        BY <2>5, <3>2, <3>3 DEF Statuses
      <3>5. QED
        BY <3>1, <3>2, <3>3, <3>4, Zenon
    <2>7. t = z
      <3>1. t = [m EXCEPT !.required = [m.required EXCEPT !.burst = b + q]]
        BY <1>1, <1>3, <2>1, <2>2, <2>3, <2>6 DEF Plus
      <3>2. QED
        BY <2>1, <2>4, <2>5, <3>1, Zenon
    <2>8. QED
      BY <2>1, <2>6, <2>7, Zenon
  <1>5. PICK v : v = Minus(t, w)
    BY Zenon
  <1>6. /\ v \in Statuses /\ v.capacity = s.capacity
        /\ v.required.steady = a /\ v.required.burst = b
    <2>1. t.required.steady - w.steady = a /\ t.required.burst - w.burst = b
      BY <1>1, <1>2, <1>4
    <2>2. PICK r : r = [t.required EXCEPT !.steady = a]
      BY Zenon
    <2>3. PICK m : m = [t EXCEPT !.required = r]
      BY Zenon
    <2>4. PICK n : n = [m.required EXCEPT !.burst = b]
      BY Zenon
    <2>5. PICK z : z = [m EXCEPT !.required = n]
      BY Zenon
    <2>6. /\ r.burst = t.required.burst /\ m \in Statuses /\ m.required = r
          /\ z \in Statuses /\ z.capacity = t.capacity
          /\ z.required.steady = a /\ z.required.burst = b
      <3>1. r \in Units /\ r.steady = a /\ r.burst = t.required.burst
        BY <1>2, <1>4, <2>2 DEF Statuses, Units
      <3>2. m \in Statuses /\ m.required = r /\ m.capacity = t.capacity
        BY <1>4, <2>3, <3>1 DEF Statuses
      <3>3. n \in Units /\ n.steady = a /\ n.burst = b
        BY <1>2, <2>4, <3>1, <3>2 DEF Units
      <3>4. z \in Statuses /\ z.required = n /\ z.capacity = m.capacity
        BY <2>5, <3>2, <3>3 DEF Statuses
      <3>5. QED
        BY <3>1, <3>2, <3>3, <3>4, Zenon
    <2>7. v = z
      <3>1. v = [m EXCEPT !.required = [m.required EXCEPT !.burst = t.required.burst - w.burst]]
        BY <1>5, <2>1, <2>2, <2>3, <2>6, Zenon DEF Minus
      <3>2. QED
        BY <2>1, <2>4, <2>5, <3>1, Zenon
    <2>8. QED
      BY <1>4, <2>6, <2>7, Zenon
  <1>7. v = s
    BY <1>1, <1>6 DEF Statuses, Units
  <1>8. QED
    BY <1>3, <1>5, <1>7, Zenon

(* change_flow_class: the same live principals, one of them with another   *)
(* weight.                                                                 *)
LEMMA FlowPerformed ==
    ASSUME CredentialInvariant, OwnScope, NEW op \in Operations, op.kind = "flow",
           FlowAllowed(op), ChangeFlowClass(op)
    PROVE  StatusNow' = ReclassedStatus(op.device, op.class) /\ OwnScope'
  <1> DEFINE d == op.device
             row == [principal[d] EXCEPT !.class = op.class]
  <1>1. d \in Devices /\ op.class \in Classes
    BY DEF Operations
  <1>2. /\ principal' = [principal EXCEPT ![d].class = op.class]
        /\ UNCHANGED <<device, credential, config>> /\ principal[d] # None
    BY Zenon DEF ChangeFlowClass, FlowAllowed
  <1>3. principal \in [Devices -> Principals \cup {None}] /\ principal[d] \in Principals
    BY <1>1, <1>2, LiveFacts, Zenon
  <1>4. row \in Principals /\ row.scopes = principal[d].scopes
    BY <1>1, <1>3 DEF Principals
  <1>5. principal' = [principal EXCEPT ![d] = row]
    BY <1>2, Zenon
  <1> HIDE DEF row, d
  <1>6. row # None
    BY <1>4, NotNone, Zenon
  <1>7. \A e \in Devices : /\ principal'[e] # None <=> principal[e] # None
                           /\ principal'[e].scopes = principal[e].scopes
    <2> SUFFICES ASSUME NEW e \in Devices
                 PROVE  /\ principal'[e] # None <=> principal[e] # None
                        /\ principal'[e].scopes = principal[e].scopes
      BY Zenon
    <2>1. CASE e = d
      BY <1>2, <1>3, <1>4, <1>5, <1>6, <2>1, Zenon
    <2>2. CASE e # d
      BY <1>3, <1>5, <2>2, Zenon
    <2>3. QED
      BY <2>1, <2>2, Zenon
  <1>8. LiveNow' = LiveNow
    <2>1. \A e \in Devices : UsableScopes(e, device', principal') = UsableScopes(e, device, principal)
      BY <1>2, <1>7, Zenon DEF UsableScopes
    <2>2. QED
      BY <1>2, <1>7, <2>1, Zenon DEF LiveNow, Live
  <1>9. StatusNow' = Status(LiveNow', principal', config')
    BY Zenon DEF StatusNow, LiveNow
  <1>10. /\ principal' \in [Devices -> Principals \cup {None}]
         /\ principal'[d].class = op.class
         /\ \A e \in Devices \ {d} : principal'[e] = principal[e]
    <2>1. row.class = op.class
      BY <1>3 DEF row, Principals
    <2>2. QED
      BY <1>1, <1>3, <1>4, <1>5, <2>1, Zenon
  <1>11. StatusNow' = ReclassedStatus(op.device, op.class)
    <2>1. /\ LiveNow \in SUBSET Devices /\ \A e \in LiveNow : principal[e] # None
          /\ StatusNow = Status(LiveNow, principal, config)
          /\ config \in Configs \cup {InitConfig}
      BY LiveFacts, Zenon
    <2>2. StatusNow' = Status(LiveNow, principal', config)
      BY <1>2, <1>8, <1>9, Zenon
    <2>3. PICK rest \in SUBSET Devices : rest = LiveNow \ {d}
      BY <2>1, Zenon
    <2>4. \A e \in rest : /\ principal[e] # None /\ principal'[e] # None
                          /\ principal[e].class = principal'[e].class
      BY <1>10, <2>1, <2>3, Zenon
    <2>5. Status(rest, principal, config) = Status(rest, principal', config)
      BY <1>3, <1>10, <2>1, <2>4, StatusByClass, Zenon
    <2>6. CASE d \notin LiveNow
      <3>1. rest = LiveNow
        BY <2>3, <2>6, Zenon
      <3>2. QED
        BY <2>1, <2>2, <2>5, <2>6, <3>1, Zenon DEF ReclassedStatus, LiveNow, d
    <2>7. CASE d \in LiveNow
      <3>1. PICK s, old, new : /\ s = Status(rest, principal, config)
                               /\ old = config.weight[principal[d].class]
                               /\ new = config.weight[op.class]
        BY Zenon
      <3>2. Weighed(LiveNow, principal, config) /\ Weighed(LiveNow, principal', config)
        <4>1. \A e \in LiveNow : principal'[e] # None
          BY <1>7, <2>1, Zenon
        <4>2. QED
          BY <1>3, <1>10, <2>1, <4>1, Zenon DEF Weighed
      <3>3. AddsWeight(d, LiveNow, principal, config) /\ AddsWeight(d, LiveNow, principal', config)
        BY <2>7, <3>2, StatusOneMore, Zenon
      <3>4. StatusNow = Plus(s, old)
        BY <2>1, <2>3, <3>1, <3>3, Zenon DEF AddsWeight
      <3>5. StatusNow' = Plus(s, new)
        <4>1. Status(LiveNow, principal', config)
                = Plus(Status(rest, principal', config), config.weight[principal'[d].class])
          BY <2>3, <3>3, Zenon DEF AddsWeight
        <4>2. QED
          BY <1>10, <2>2, <2>5, <3>1, <4>1, Zenon
      <3>6. s \in Statuses
        <4>1. \A e \in rest : principal[e] # None
          BY <2>4, Zenon
        <4>2. QED
          BY <1>3, <2>1, <3>1, <4>1, StatusTotals, Zenon
      <3>7. old \in Units
        <4>1. principal[d].class \in Classes
          BY <1>3 DEF Principals
        <4>2. QED
          BY <1>3, <2>1, <3>1, <4>1, Weights, Zenon
      <3>8. Minus(Plus(s, old), old) = s
        BY <3>6, <3>7, MinusPlus, Zenon
      <3>9. ReclassedStatus(op.device, op.class) = Plus(Minus(StatusNow, old), new)
        BY <2>7, <3>1, Zenon DEF ReclassedStatus, LiveNow, d
      <3>10. QED
        BY <3>4, <3>5, <3>8, <3>9, Zenon
    <2>8. QED
      BY <2>6, <2>7, Zenon
  <1>12. OwnScope'
    BY <1>2, <1>7, Zenon DEF OwnScope
  <1>13. QED
    BY <1>11, <1>12, Zenon

(* Any operation that can need capacity.                                   *)
LEMMA Performed ==
    ASSUME CredentialInvariant, CredentialInvariant', OwnScope, NEW op \in Operations,
           Allowed(op), Perform(op)
    PROVE  /\ OwnScope'
           /\ StatusNow' = Prospective(op)
           /\ op.kind \in {"add", "issue", "flow", "configure"}
           /\ op.kind \in {"add", "issue"} =>
                 \E w \in Units : w.steady > 0 /\ w.burst > 0 /\ Prospective(op) = Plus(StatusNow, w)
  <1>1. op.kind \in {"add", "issue", "flow", "configure"}
    BY DEF Operations
  <1>2. \A k \in Classes : /\ config.weight[k] \in Units
                           /\ config.weight[k].steady > 0 /\ config.weight[k].burst > 0
    BY LiveFacts, Weights, Zenon
  <1>3. CASE op.kind = "add"
    <2>1. AddAllowed(op) /\ AddDevice(op)
      BY <1>3 DEF Allowed, Perform
    <2>2. Prospective(op) = Plus(StatusNow, config.weight[op.class])
      BY <1>3 DEF Prospective
    <2>3. QED
      BY <1>1, <1>2, <1>3, <2>1, <2>2, AddPerformed, Zenon
  <1>4. CASE op.kind = "issue"
    <2>1. IssueAllowed(op) /\ IssueCredential(op)
      BY <1>4 DEF Allowed, Perform
    <2>2. Prospective(op) = Plus(StatusNow, config.weight[principal[op.device].class])
      BY <1>4 DEF Prospective
    <2>3. QED
      BY <1>1, <1>2, <1>4, <2>1, <2>2, IssuePerformed, Zenon
  <1>5. CASE op.kind = "flow"
    <2>1. FlowAllowed(op) /\ ChangeFlowClass(op)
      BY <1>5 DEF Allowed, Perform
    <2>2. Prospective(op) = ReclassedStatus(op.device, op.class)
      BY <1>5 DEF Prospective
    <2>3. op.kind \notin {"add", "issue"}
      BY <1>5
    <2>4. QED
      BY <1>1, <1>5, <2>1, <2>2, <2>3, FlowPerformed, Zenon
  <1>6. CASE op.kind = "configure"
    <2>1. config' = op.config /\ UNCHANGED <<device, principal, credential>>
      BY <1>6 DEF Perform, Configure
    <2>2. Prospective(op) = ConfiguredStatus(op.config)
      BY <1>6 DEF Prospective
    <2>3. StatusNow' = ConfiguredStatus(op.config)
      BY <2>1, Zenon DEF StatusNow, ConfiguredStatus
    <2>4. OwnScope'
      BY <2>1, Zenon DEF OwnScope
    <2>5. op.kind \notin {"add", "issue"}
      BY <1>6
    <2>6. QED
      BY <1>1, <2>2, <2>3, <2>4, <2>5, Zenon
  <1>7. QED
    BY <1>1, <1>3, <1>4, <1>5, <1>6, Zenon

(* What an operation leaves of the debt: the row is again what is          *)
(* required, and grew only if that was approved.                           *)
LEMMA OperationDebt ==
    ASSUME CredentialInvariant, CredentialInvariant', OwnScope, DebtIsExact, NEW op \in Operations,
           Allowed(op), Perform(op),
           NEW approve \in BOOLEAN, approve \/ ~RequiresApproval(Prospective(op)),
           debt' = DebtAfter(op, approve)
    PROVE  /\ OwnScope' /\ DebtIsExact'
           /\ DebtGrows => approve /\ Exceeds(Prospective(op)) /\ debt' = Prospective(op)
  <1> DEFINE s == Prospective(op)
  <1>1. /\ OwnScope' /\ StatusNow' = s
        /\ op.kind \in {"add", "issue", "flow", "configure"}
        /\ op.kind \in {"add", "issue"} =>
              \E w \in Units : w.steady > 0 /\ w.burst > 0 /\ s = Plus(StatusNow, w)
    BY Performed, Zenon
  <1>2. StatusNow \in Statuses
    BY LiveFacts, Zenon
  <1>3. debt' = CASE Exceeds(s) /\ (approve \/ op.kind \in {"flow", "configure"}) -> s
                  [] Exceeds(s) /\ ~ approve /\ op.kind \in {"add", "issue"} -> debt
                  [] OTHER -> IF op.kind \in {"flow", "configure"} THEN None ELSE debt
    BY Zenon DEF DebtAfter
  <1>4. ~approve /\ Exceeds(s) => debt # None /\ NoWorseThan(s, debt)
    BY Zenon DEF RequiresApproval
  <1>5. debt # None => Exceeds(StatusNow) /\ debt = StatusNow
    BY Zenon DEF DebtIsExact
  <1>6. Exceeds(StatusNow) => debt = StatusNow
    BY Zenon DEF DebtIsExact
  <1>7. DebtIsExact' <=> IF Exceeds(s) THEN debt' = s ELSE debt' = None
    BY <1>1, Zenon DEF DebtIsExact, Exceeds
  <1>8. NoWorseThan(StatusNow, StatusNow)
    <2>1. /\ StatusNow.required.steady <= StatusNow.required.steady
          /\ StatusNow.required.burst <= StatusNow.required.burst
      BY <1>2 DEF Statuses, Units
    <2>2. QED
      BY <1>2, <2>1, LessIsNoWorse, Zenon
  <1> HIDE DEF s
  <1>9. CASE op.kind \in {"flow", "configure"}
    <2>1. CASE Exceeds(s)
      <3>1. debt' = s
        BY <1>3, <1>9, <2>1, Zenon
      <3>2. ~approve => ~DebtGrows
        BY <1>4, <2>1, <3>1, Zenon DEF DebtGrows
      <3>3. QED
        BY <1>1, <1>7, <2>1, <3>1, <3>2, Zenon DEF s
    <2>2. CASE ~Exceeds(s)
      <3>1. debt' = None
        BY <1>3, <1>9, <2>2, Zenon
      <3>2. QED
        BY <1>1, <1>7, <2>2, <3>1, Zenon DEF DebtGrows
    <2>3. QED
      BY <2>1, <2>2, Zenon
  <1>10. CASE op.kind \in {"add", "issue"}
    <2>1. op.kind \notin {"flow", "configure"}
      BY <1>10
    <2>2. Exceeds(StatusNow) => Exceeds(s) /\ ~NoWorseThan(s, StatusNow)
      BY <1>1, <1>2, <1>10, MoreIsWorse, Zenon
    <2>3. CASE Exceeds(s)
      <3>1. approve
        BY <1>4, <1>5, <2>2, <2>3, Zenon
      <3>2. debt' = s
        BY <1>3, <2>3, <3>1, Zenon
      <3>3. QED
        BY <1>1, <1>7, <2>3, <3>1, <3>2, Zenon DEF s
    <2>4. CASE ~Exceeds(s)
      <3>1. debt = None
        BY <1>5, <2>2, <2>4, Zenon
      <3>2. debt' = None
        BY <1>3, <2>1, <2>4, <3>1, Zenon
      <3>3. QED
        BY <1>1, <1>7, <2>4, <3>2, Zenon DEF DebtGrows
    <2>5. QED
      BY <2>3, <2>4, Zenon
  <1>11. QED
    BY <1>1, <1>9, <1>10, Zenon

(* A change that leaves no principal live that was not (RevokeCredential,  *)
(* Retire and ReplaceHardware), with the triggers it fires.                *)
LEMMA CloseDebt ==
    ASSUME CredentialInvariant, DebtIsExact, NEW dv, NEW pr, NEW cr,
           pr \in [Devices -> Principals \cup {None}],
           \A d \in LiveNow : pr[d] # None /\ pr[d].class = principal[d].class,
           Live(dv, pr, cr) \subseteq LiveNow,
           CloseAuthority(dv, pr, cr)
    PROVE  DebtIsExact' /\ ~DebtGrows
  <1> DEFINE left == Live(dv, pr, cr)
             s == Status(left, pr, config)
  <1>1. /\ device' = dv /\ principal' = pr /\ credential' = cr /\ config' = config
        /\ debt' = IF left = LiveNow THEN debt ELSE Reconciled(s)
    BY Zenon DEF CloseAuthority, LiveNow
  <1>2. StatusNow' = s
    BY <1>1, Zenon DEF StatusNow
  <1>3. s = Status(left, principal, config) /\ s \in Statuses
    <2>1. left \in SUBSET Devices /\ \A d \in left : pr[d] # None
      BY Zenon DEF Live
    <2>2. \A d \in left : pr[d] # None /\ principal[d] # None /\ pr[d].class = principal[d].class
      BY LiveFacts, Zenon
    <2> HIDE DEF left
    <2>3. s = Status(left, principal, config)
      BY <2>1, <2>2, LiveFacts, StatusByClass, Zenon
    <2>4. QED
      BY <2>1, <2>3, LiveFacts, StatusTotals, Zenon
  <1>4. DebtIsExact' <=> IF Exceeds(s) THEN debt' = s ELSE debt' = None
    BY <1>2, Zenon DEF DebtIsExact, Exceeds
  <1>5. /\ StatusNow \in Statuses /\ StatusNow # None
        /\ StatusNow = Status(LiveNow, principal, config)
    BY LiveFacts, Zenon
  <1>6. NoWorseThan(s, StatusNow) /\ (Exceeds(s) => Exceeds(StatusNow))
    <2>1. left \in SUBSET LiveNow
      BY Zenon
    <2> HIDE DEF left, s
    <2>2. /\ s.required.steady <= StatusNow.required.steady
          /\ s.required.burst <= StatusNow.required.burst
          /\ s.capacity = StatusNow.capacity
      BY <1>3, <1>5, <2>1, LiveFacts, StatusOfFewer, Zenon
    <2>3. QED
      BY <1>3, <1>5, <2>2, LessIsNoWorse, Zenon
  <1>7. left = LiveNow => s = StatusNow
    BY <1>3, <1>5, Zenon
  <1>8. IF Exceeds(StatusNow) THEN debt = StatusNow ELSE debt = None
    BY Zenon DEF DebtIsExact
  <1> HIDE DEF left, s
  <1>9. CASE left = LiveNow
    <2>1. debt' = debt
      BY <1>1, <1>9, Zenon
    <2>2. QED
      BY <1>4, <1>6, <1>7, <1>8, <1>9, <2>1, Zenon DEF DebtGrows
  <1>10. CASE left # LiveNow
    <2>1. debt' = IF debt # None /\ Exceeds(s) THEN s ELSE None
      BY <1>1, <1>10, Zenon DEF Reconciled
    <2>2. CASE Exceeds(s)
      <3>1. debt = StatusNow /\ debt # None
        BY <1>5, <1>6, <1>8, <2>2, Zenon
      <3>2. QED
        BY <1>4, <1>6, <2>1, <2>2, <3>1, Zenon DEF DebtGrows
    <2>3. CASE ~Exceeds(s)
      BY <1>4, <2>1, <2>3, Zenon DEF DebtGrows
    <2>4. QED
      BY <2>2, <2>3, Zenon
  <1>11. QED
    BY <1>9, <1>10, Zenon

(* Revoked credentials make nobody live.                                   *)
LEMMA RevokedLive ==
    ASSUME CredentialInvariant, NEW cs \in SUBSET Ids, \A c \in cs : credential[c] # None, NEW d
    PROVE  LiveCredentials(d, Revoke(cs, credential)) \subseteq LiveCredentials(d, credential)
  <1> SUFFICES ASSUME NEW c \in LiveCredentials(d, Revoke(cs, credential))
               PROVE  c \in LiveCredentials(d, credential)
    BY Zenon
  <1>1. c \in Ids /\ Revoke(cs, credential)[c] # None
        /\ Revoke(cs, credential)[c].principal = d /\ Revoke(cs, credential)[c].state \in LiveStates
    BY Zenon DEF LiveCredentials
  <1>2. CASE c \notin cs
    <2>1. Revoke(cs, credential)[c] = credential[c]
      BY <1>1, <1>2, Zenon DEF Revoke
    <2>2. QED
      BY <1>1, <2>1, Zenon DEF LiveCredentials
  <1>3. CASE c \in cs
    <2>1. credential[c] \in Credentials
      BY <1>1, <1>3, Zenon DEF CredentialInvariant, Types
    <2>2. Revoke(cs, credential)[c] = [credential[c] EXCEPT !.state = "revoked"]
      BY <1>1, <1>3, Zenon DEF Revoke
    <2>3. Revoke(cs, credential)[c].state = "revoked"
      BY <2>1, <2>2 DEF Credentials
    <2>4. QED
      BY <1>1, <2>3 DEF LiveStates
  <1>4. QED
    BY <1>2, <1>3, Zenon

(* A preview of an earlier generation is never taken for one of this.      *)
LEMMA PreviewAdvanced ==
    ASSUME CredentialInvariant, PreviewTrue, Bump, preview' = preview
    PROVE  PreviewTrue'
  <1> SUFFICES ASSUME preview # None
               PROVE  /\ preview.generation \in Nat /\ preview.generation <= generation'
                      /\ preview.generation # generation'
    BY Zenon DEF PreviewTrue
  <1>1. preview.generation \in Nat /\ preview.generation <= generation
    BY Zenon DEF PreviewTrue
  <1>2. generation' = generation + 1 /\ generation \in Nat
    BY BoundAssumption DEF Bump, CredentialInvariant, Types
  <1>3. QED
    BY <1>1, <1>2

(* With nothing advanced and nothing changed, it stays as true as it was.  *)
LEMMA PreviewStable ==
    ASSUME PreviewTrue, UNCHANGED <<device, principal, credential, config, generation, preview>>
    PROVE  PreviewTrue'
  BY Zenon DEF PreviewTrue, World

(* A step that leaves the debt and what is required alone.                 *)
LEMMA QuietDebt ==
    ASSUME CredentialInvariant, DebtIsExact, debt' = debt, StatusNow' = StatusNow
    PROVE  DebtIsExact' /\ ~DebtGrows
  <1>1. IF Exceeds(StatusNow) THEN debt = StatusNow ELSE debt = None
    BY Zenon DEF DebtIsExact
  <1>2. DebtIsExact' <=> IF Exceeds(StatusNow) THEN debt' = StatusNow ELSE debt' = None
    BY Zenon DEF DebtIsExact, Exceeds
  <1>3. StatusNow \in Statuses
    BY LiveFacts, Zenon
  <1>4. NoWorseThan(StatusNow, StatusNow)
    <2>1. /\ StatusNow.required.steady <= StatusNow.required.steady
          /\ StatusNow.required.burst <= StatusNow.required.burst
      BY <1>3 DEF Statuses, Units
    <2>2. QED
      BY <1>3, <2>1, LessIsNoWorse, Zenon
  <1>5. QED
    BY <1>1, <1>2, <1>4, Zenon DEF DebtGrows

(* A step that leaves the tables alone.                                    *)
LEMMA QuietStep ==
    ASSUME CredentialInvariant, DebtInvariant,
           UNCHANGED <<device, principal, credential, config, debt>>, PreviewTrue'
    PROVE  DebtInvariant' /\ ~DebtGrows
  <1>1. StatusNow' = StatusNow
    BY Zenon DEF StatusNow
  <1>2. OwnScope'
    BY Zenon DEF DebtInvariant, OwnScope
  <1>3. QED
    BY <1>1, <1>2, QuietDebt, Zenon DEF DebtInvariant

(* A step of a credential that makes no principal live and none dead.      *)
LEMMA CredentialDebt ==
    ASSUME CredentialInvariant, DebtInvariant, UNCHANGED <<device, principal, config, debt>>, PreviewTrue',
           \A d \in Devices : LiveCredentials(d, credential) # {} <=> LiveCredentials(d, credential') # {}
    PROVE  DebtInvariant' /\ ~DebtGrows
  <1>1. Live(device, principal, credential) = Live(device, principal, credential')
    BY LiveByCredential, Zenon
  <1>2. StatusNow' = StatusNow
    BY <1>1, Zenon DEF StatusNow
  <1>3. OwnScope'
    BY Zenon DEF DebtInvariant, OwnScope
  <1>4. QED
    BY <1>2, <1>3, QuietDebt, Zenon DEF DebtInvariant

(* Devices and principals that gained no authority over the present ones.   *)
NoMore(dv, pr) ==
    /\ pr \in [Devices -> Principals \cup {None}]
    /\ \A e \in Devices :
          /\ dv[e] = "live" => device[e] = "live" /\ e \in pr[e].scopes
          /\ pr[e] # None <=> principal[e] # None
          /\ principal[e] # None => /\ pr[e].class = principal[e].class
                                    /\ pr[e].scopes \subseteq principal[e].scopes

(* Credentials revoked while devices retire: RevokeCredential, Retire and  *)
(* ReplaceHardware.                                                        *)
LEMMA Closing ==
    ASSUME CredentialInvariant, DebtInvariant, NEW dv, NEW pr, NEW cs \in SUBSET Ids,
           NoMore(dv, pr), \A c \in cs : credential[c] # None,
           CloseAuthority(dv, pr, Revoke(cs, credential))
    PROVE  DebtInvariant' /\ ~DebtGrows
  <1> USE DEF NoMore
  <1>1. \A d \in LiveNow : pr[d] # None /\ pr[d].class = principal[d].class
    BY LiveFacts, Zenon
  <1>2. Live(dv, pr, Revoke(cs, credential)) \subseteq LiveNow
    <2> SUFFICES ASSUME NEW d \in Live(dv, pr, Revoke(cs, credential)) PROVE d \in LiveNow
      BY Zenon
    <2>1. /\ d \in Devices /\ dv[d] = "live" /\ pr[d] # None
          /\ LiveCredentials(d, Revoke(cs, credential)) # {}
      BY Zenon DEF Live
    <2>2. device[d] = "live" /\ principal[d] # None /\ LiveCredentials(d, credential) # {}
      BY <2>1, RevokedLive, Zenon
    <2>3. d \in UsableScopes(d, device, principal)
      BY <2>1, <2>2, Zenon DEF DebtInvariant, OwnScope, UsableScopes
    <2>4. QED
      BY <2>1, <2>2, <2>3, Zenon DEF LiveNow, Live
  <1>3. DebtIsExact' /\ ~DebtGrows
    BY <1>1, <1>2, CloseDebt, Zenon DEF DebtInvariant
  <1>4. OwnScope'
    BY Zenon DEF CloseAuthority, OwnScope
  <1>5. PreviewTrue'
    BY PreviewAdvanced, Zenon DEF CloseAuthority, DebtInvariant
  <1>6. QED
    BY <1>3, <1>4, <1>5, Zenon DEF DebtInvariant

(* A retired device leaves the classes alone and takes itself out of the   *)
(* scopes.                                                                 *)
LEMMA RetiredScopes ==
    ASSUME CredentialInvariant, OwnScope, NEW d \in Devices, device[d] = "live", NEW e \in Devices
    PROVE  LET dv == [device EXCEPT ![d] = "retired"]
               pr == Retired(d, principal)
           IN  /\ dv[e] = "live" => device[e] = "live" /\ e \in pr[e].scopes
               /\ principal[e] # None => /\ pr[e].class = principal[e].class
                                         /\ pr[e].scopes \subseteq principal[e].scopes
  <1> DEFINE dv == [device EXCEPT ![d] = "retired"]
             pr == Retired(d, principal)
             left == IF e = d THEN {} ELSE principal[e].scopes \ {d}
  <1>1. /\ device \in [Devices -> {"absent", "live", "retired"}]
        /\ principal \in [Devices -> Principals \cup {None}]
        /\ device[e] # "absent" => principal[e] # None
    BY Zenon DEF CredentialInvariant, Types, Rows
  <1>2. ASSUME principal[e] # None
        PROVE  pr[e].class = principal[e].class /\ pr[e].scopes = left
    <2>1. principal[e] \in Principals
      BY <1>1, <1>2, Zenon
    <2>2. pr[e] = [principal[e] EXCEPT !.scopes = left]
      BY <1>2, Zenon DEF Retired
    <2> HIDE DEF left, pr
    <2>3. QED
      BY <2>1, <2>2 DEF Principals
  <1>3. ASSUME dv[e] = "live" PROVE e # d /\ device[e] = "live" /\ principal[e] # None
    <2>1. e # d
      BY <1>1, <1>3
    <2>2. device[e] = "live"
      BY <1>1, <1>3, <2>1, Zenon
    <2>3. "live" # "absent"
      OBVIOUS
    <2>4. QED
      BY <1>1, <2>1, <2>2, <2>3, Zenon
  <1>4. dv[e] = "live" => device[e] = "live" /\ e \in pr[e].scopes
    <2> HIDE DEF dv, pr
    <2>1. QED
      BY <1>2, <1>3, Zenon DEF OwnScope
  <1>5. principal[e] # None => /\ pr[e].class = principal[e].class
                               /\ pr[e].scopes \subseteq principal[e].scopes
    <2> HIDE DEF dv, pr
    <2>1. QED
      BY <1>2, Zenon
  <1>6. QED
    BY <1>4, <1>5, Zenon

(* Confirming a credential leaves its principal a live one, and takes one  *)
(* from nobody else.                                                       *)
LEMMA ConfirmedLive ==
    ASSUME CredentialInvariant, NEW c \in Ids, Confirm(c), NEW e \in Devices
    PROVE  LiveCredentials(e, credential) # {} <=> LiveCredentials(e, credential') # {}
  <1> DEFINE d == credential[c].principal
             old == {a \in LiveCredentials(d, credential) : credential[a].state = "current"}
             mid == [credential[c] EXCEPT !.state = "current"]
             new == [mid EXCEPT !.confirmed = TRUE]
  <1>1. /\ credential \in [Ids -> Credentials \cup {None}]
        /\ credential[c] # None /\ credential[c].state = "pending"
    BY Zenon DEF CredentialInvariant, Types, Confirm
  <1>2. credential[c] \in Credentials
    BY <1>1, Zenon
  <1>3. /\ new # None /\ new.principal = d /\ new.state = "current"
    <2>1. mid \in Credentials /\ mid.principal = d /\ mid.state = "current"
      BY <1>2 DEF Credentials, LiveStates
    <2> HIDE DEF mid
    <2>2. new \in Credentials /\ new.principal = d /\ new.state = "current"
      BY <2>1, Zenon DEF Credentials
    <2> HIDE DEF new
    <2>3. QED
      BY <2>2, NotNone, Zenon
  <1>4. c \notin old /\ old \subseteq Ids
    BY <1>1 DEF LiveCredentials
  <1>5. Revoke(old, credential)[c] = credential[c]
    BY <1>4 DEF Revoke
  <1>6. credential' = [Revoke(old, credential) EXCEPT ![c] = new]
    <2>1. credential' = [Revoke(old, credential) EXCEPT ![c].state = "current", ![c].confirmed = TRUE]
      BY DEF Confirm
    <2> QED BY <2>1, <1>5, Zenon DEF Revoke
  <1>7. /\ credential'[c] = new
        /\ \A a \in Ids \ {c} : credential'[a] = Revoke(old, credential)[a]
        /\ \A a \in Ids \ old : Revoke(old, credential)[a] = credential[a]
    BY <1>4, <1>6 DEF Revoke
  <1>8. \A a \in old : credential[a] # None /\ credential[a].principal = d
    BY Zenon DEF LiveCredentials
  <1>9. "current" \in LiveStates /\ "pending" \in LiveStates
    BY DEF LiveStates
  <1>10. c \in LiveCredentials(d, credential) /\ c \in LiveCredentials(d, credential')
    <2> HIDE DEF new
    <2>1. QED
      BY <1>1, <1>3, <1>7, <1>9, Zenon DEF LiveCredentials
  <1>11. LiveCredentials(e, Revoke(old, credential)) \subseteq LiveCredentials(e, credential)
    <2> HIDE DEF old
    <2>1. old \in SUBSET Ids
      BY <1>4, Zenon
    <2>2. QED
      BY <1>8, <2>1, RevokedLive, Zenon
  <1>12. CASE e = d
    BY <1>10, <1>12, Zenon
  <1>13. CASE e # d
    <2> HIDE DEF old, new, d
    <2>1. ASSUME NEW a \in LiveCredentials(e, credential)
          PROVE  a \in LiveCredentials(e, credential')
      <3>1. a \in Ids /\ credential[a] # None /\ credential[a].principal = e
        BY <2>1, Zenon DEF LiveCredentials
      <3>2. a # c /\ a \notin old
        BY <1>8, <1>13, <3>1, Zenon DEF d
      <3>3. credential'[a] = credential[a]
        BY <1>7, <3>1, <3>2, Zenon
      <3>4. QED
        BY <2>1, <3>3, Zenon DEF LiveCredentials
    <2>2. ASSUME NEW a \in LiveCredentials(e, credential')
          PROVE  a \in LiveCredentials(e, Revoke(old, credential))
      <3>1. a \in Ids /\ credential'[a].principal = e
        BY <2>2, Zenon DEF LiveCredentials
      <3>2. a # c
        BY <1>3, <1>7, <1>13, <3>1, Zenon
      <3>3. credential'[a] = Revoke(old, credential)[a]
        BY <1>7, <3>1, <3>2, Zenon
      <3>4. QED
        BY <2>2, <3>3, Zenon DEF LiveCredentials
    <2>3. QED
      BY <1>11, <2>1, <2>2, Zenon
  <1>14. QED
    BY <1>12, <1>13, Zenon

(* The first use of a credential makes no principal live.                  *)
LEMMA ProvenLive ==
    ASSUME CredentialInvariant, NEW c \in Ids, Authenticate(c), NEW e \in Devices
    PROVE  LiveCredentials(e, credential) # {} <=> LiveCredentials(e, credential') # {}
  <1> DEFINE new == [credential[c] EXCEPT !.proven = TRUE]
  <1>1. credential \in [Ids -> Credentials \cup {None}] /\ credential[c] # None
    BY Zenon DEF CredentialInvariant, Types, Authenticate, Known
  <1>2. credential[c] \in Credentials
    BY <1>1, Zenon
  <1>3. /\ new # None
        /\ new.principal = credential[c].principal /\ new.state = credential[c].state
    <2>1. /\ new \in Credentials
          /\ new.principal = credential[c].principal /\ new.state = credential[c].state
      BY <1>2, Zenon DEF Credentials
    <2> QED BY <2>1, NotNone, Zenon
  <1>4. credential' = [credential EXCEPT ![c] = new] \/ credential' = credential
    BY DEF Authenticate
  <1> HIDE DEF new
  <1>5. CASE credential' = [credential EXCEPT ![c] = new]
    <2>1. credential'[c] = new /\ \A a \in Ids \ {c} : credential'[a] = credential[a]
      BY <1>1, <1>5, Zenon
    <2>2. \A a \in Ids : /\ credential'[a] # None <=> credential[a] # None
                         /\ credential'[a].principal = credential[a].principal
                         /\ credential'[a].state = credential[a].state
      BY <1>1, <1>3, <2>1, Zenon
    <2>3. LiveCredentials(e, credential') = LiveCredentials(e, credential)
      BY <2>2, Zenon DEF LiveCredentials
    <2>4. QED
      BY <2>3, Zenon
  <1>6. QED
    BY <1>4, <1>5, Zenon

(* A change that is not material leaves the tables as they are.            *)
LEMMA MaterialOrNothing ==
    ASSUME CredentialInvariant, NEW op \in Operations, Allowed(op), Perform(op), Advance(op)
    PROVE  Bump \/ UNCHANGED <<device, principal, credential, config, generation>>
  <1>1. CASE Material(op)
    BY <1>1, Zenon DEF Advance
  <1>2. CASE ~Material(op)
    <2>1. op.kind = "flow" /\ principal[op.device].class = op.class
      BY <1>2, Zenon DEF Material
    <2>2. ChangeFlowClass(op)
      <3>1. "flow" # "add" /\ "flow" # "issue" /\ "flow" # "configure"
        OBVIOUS
      <3>2. QED
        BY <2>1, <3>1, Zenon DEF Perform
    <2>3. principal \in [Devices -> Principals \cup {None}]
      BY LiveFacts, Zenon
    <2>4. principal' = principal
      <3> DEFINE d == op.device
                 same == [principal[d] EXCEPT !.class = op.class]
      <3>1. principal' = [principal EXCEPT ![d] = same]
        BY <2>2, Zenon DEF ChangeFlowClass
      <3>2. same = [principal[d] EXCEPT !.class = principal[d].class]
        BY <2>1, Zenon
      <3>3. d \in Devices
        BY <2>1 DEF Operations
      <3>4. principal[d] # None
        <4>1. FlowAllowed(op)
          BY <2>1 DEF Allowed
        <4>2. QED
          BY <4>1, Zenon DEF FlowAllowed
      <3>5. principal[d] \in Principals
        BY <2>3, <3>3, <3>4, Zenon
      <3>6. same = principal[d]
        BY <3>2, <3>5 DEF Principals
      <3> HIDE DEF same, d
      <3>7. QED
        BY <2>3, <3>1, <3>3, <3>6
    <2>5. QED
      BY <1>2, <2>2, <2>4, Zenon DEF Advance, ChangeFlowClass
  <1>3. QED
    BY <1>1, <1>2, Zenon

(* What the operator was shown, of the state the tables are in.            *)
Shown == preview # None /\ preview.status = debt' /\ preview.world = World

(* The operation without an approval.                                      *)
LEMMA ExecuteDebt ==
    ASSUME CredentialInvariant, CredentialInvariant', DebtInvariant, NEW op \in Operations, Execute(op)
    PROVE  DebtInvariant' /\ ~DebtGrows
  <1>1. /\ Allowed(op) /\ Perform(op) /\ Advance(op) /\ ~RequiresApproval(Prospective(op))
        /\ debt' = DebtAfter(op, FALSE) /\ preview' = preview
    BY Zenon DEF Execute
  <1>2. /\ OwnScope' /\ DebtIsExact' /\ ~DebtGrows
    BY <1>1, OperationDebt, Zenon DEF DebtInvariant
  <1>3. PreviewTrue'
    BY <1>1, MaterialOrNothing, PreviewAdvanced, PreviewStable, Zenon DEF DebtInvariant
  <1>4. QED
    BY <1>2, <1>3, Zenon DEF DebtInvariant

(* The approved operation.                                                 *)
LEMMA ApprovedDebt ==
    ASSUME CredentialInvariant, CredentialInvariant', DebtInvariant, ExecuteApproved
    PROVE  DebtInvariant' /\ (DebtGrows => Shown)
  <1>1. /\ preview # None /\ Allowed(preview.op) /\ ApprovalValid
        /\ Perform(preview.op) /\ debt' = DebtAfter(preview.op, TRUE) /\ preview' = None
    BY Zenon DEF ExecuteApproved
  <1>2. preview.op \in Operations
    BY <1>1, Zenon DEF CredentialInvariant, Types
  <1>3. PICK op \in Operations : op = preview.op
    BY <1>2, Zenon
  <1>4. /\ OwnScope' /\ DebtIsExact'
        /\ DebtGrows => Exceeds(Prospective(op)) /\ debt' = Prospective(op)
    BY <1>1, <1>3, OperationDebt, Zenon DEF DebtInvariant
  <1>5. DebtGrows => preview.status = Prospective(op) /\ preview.generation = generation
    BY <1>1, <1>3, <1>4, Zenon DEF ApprovalValid
  <1>6. PreviewTrue'
    BY <1>1, Zenon DEF PreviewTrue
  <1>7. QED
    BY <1>1, <1>4, <1>5, <1>6, Zenon DEF DebtInvariant, PreviewTrue, Shown

(* The dry run.                                                            *)
LEMMA PreviewedDebt ==
    ASSUME CredentialInvariant, DebtInvariant, NEW op \in Operations, PreviewDebt(op)
    PROVE  DebtInvariant' /\ ~DebtGrows
  <1>1. /\ preview' = [op |-> op, status |-> Prospective(op), generation |-> generation, world |-> World]
        /\ UNCHANGED <<device, principal, credential, config, debt, generation>>
    BY Zenon DEF PreviewDebt
  <1>2. preview'.generation = generation /\ preview'.world = World
    BY <1>1
  <1>3. generation \in Nat
    BY BoundAssumption DEF CredentialInvariant, Types
  <1>4. generation <= generation
    BY <1>3
  <1>5. World' = World
    BY <1>1, Zenon DEF World
  <1>6. PreviewTrue'
    BY <1>1, <1>2, <1>3, <1>4, <1>5, Zenon DEF PreviewTrue
  <1>7. QED
    BY <1>1, <1>6, QuietStep, Zenon

(* Retiring and replacing devices, and revoking a credential.              *)
LEMMA RetiredDebt ==
    ASSUME CredentialInvariant, DebtInvariant, NEW d \in Devices, device[d] = "live",
           NEW cs \in SUBSET Ids, \A c \in cs : credential[c] # None,
           CloseAuthority([device EXCEPT ![d] = "retired"], Retired(d, principal), Revoke(cs, credential))
    PROVE  DebtInvariant' /\ ~DebtGrows
  <1> DEFINE dv == [device EXCEPT ![d] = "retired"]
             pr == Retired(d, principal)
  <1>1. /\ pr \in [Devices -> Principals \cup {None}]
        /\ \A e \in Devices : pr[e] # None <=> principal[e] # None
    BY RetiredRows, Zenon
  <1>2. \A e \in Devices :
           /\ dv[e] = "live" => device[e] = "live" /\ e \in pr[e].scopes
           /\ principal[e] # None => /\ pr[e].class = principal[e].class
                                     /\ pr[e].scopes \subseteq principal[e].scopes
    BY RetiredScopes, Zenon DEF DebtInvariant
  <1>3. CloseAuthority(dv, pr, Revoke(cs, credential))
    BY Zenon
  <1> HIDE DEF dv, pr
  <1>4. NoMore(dv, pr)
    BY <1>1, <1>2, Zenon DEF NoMore
  <1>5. QED
    BY <1>3, <1>4, Closing, Zenon

(* Revoking credentials alone.                                             *)
LEMMA RevokedDebt ==
    ASSUME CredentialInvariant, DebtInvariant,
           NEW cs \in SUBSET Ids, \A c \in cs : credential[c] # None,
           CloseAuthority(device, principal, Revoke(cs, credential))
    PROVE  DebtInvariant' /\ ~DebtGrows
  <1>1. principal \in [Devices -> Principals \cup {None}]
    BY LiveFacts, Zenon
  <1>2. \A e \in Devices :
           /\ device[e] = "live" => device[e] = "live" /\ e \in principal[e].scopes
           /\ principal[e] # None <=> principal[e] # None
           /\ principal[e] # None => /\ principal[e].class = principal[e].class
                                     /\ principal[e].scopes \subseteq principal[e].scopes
    BY Zenon DEF DebtInvariant, OwnScope
  <1>3. NoMore(device, principal)
    BY <1>1, <1>2, Zenon DEF NoMore
  <1>4. QED
    BY <1>3, Closing, Zenon

(* A step keeps the invariant, and lets the debt grow only as shown.       *)
LEMMA DebtStep ==
    ASSUME CredentialInvariant, CredentialInvariant', DebtInvariant, [Next]_vars
    PROVE  DebtInvariant' /\ (DebtGrows => Shown)
  <1>1. ASSUME NEW op \in Operations, Execute(op)
        PROVE  DebtInvariant' /\ (DebtGrows => Shown)
    BY <1>1, ExecuteDebt, Zenon
  <1>2. ASSUME NEW op \in Operations, PreviewDebt(op)
        PROVE  DebtInvariant' /\ (DebtGrows => Shown)
    BY <1>2, PreviewedDebt, Zenon
  <1>3. CASE ExecuteApproved
    BY <1>3, ApprovedDebt, Zenon
  <1>4. CASE AbandonPreview
    <2>1. UNCHANGED <<device, principal, credential, config, debt>> /\ preview' = None
      BY <1>4, Zenon DEF AbandonPreview
    <2>2. PreviewTrue'
      BY <2>1, Zenon DEF PreviewTrue
    <2>3. QED
      BY <2>1, <2>2, QuietStep, Zenon
  <1>5. ASSUME NEW d \in Devices, Reissue(d)
        PROVE  DebtInvariant' /\ (DebtGrows => Shown)
    <2>1. /\ LiveCredentials(d, credential) # {} /\ Bump
          /\ UNCHANGED <<device, principal, config, debt, preview>>
      BY <1>5, Zenon DEF Reissue
    <2>2. PICK c \in Ids : NewCredential(d, "pending", c)
      BY <1>5, Zenon DEF Reissue
    <2>3. "pending" \in LiveStates
      BY DEF LiveStates
    <2>4. \A e \in Devices : LiveCredentials(e, credential) # {} <=> LiveCredentials(e, credential') # {}
      BY <2>1, <2>2, <2>3, IssuedLive, Zenon
    <2>5. PreviewTrue'
      BY <2>1, PreviewAdvanced, Zenon DEF DebtInvariant
    <2>6. QED
      BY <2>1, <2>4, <2>5, CredentialDebt, Zenon
  <1>6. \A d \in Devices : /\ LiveCredentials(d, credential) \subseteq Ids
                           /\ \A c \in LiveCredentials(d, credential) : credential[c] # None
    BY Zenon DEF LiveCredentials
  <1>7. ASSUME NEW d \in Devices, Retire(d)
        PROVE  DebtInvariant' /\ (DebtGrows => Shown)
    <2>1. PICK cs : cs = LiveCredentials(d, credential)
      BY Zenon
    <2>2. cs \in SUBSET Ids /\ \A c \in cs : credential[c] # None
      BY <1>6, <2>1, Zenon
    <2>3. /\ device[d] = "live"
          /\ CloseAuthority([device EXCEPT ![d] = "retired"], Retired(d, principal), Revoke(cs, credential))
      BY <1>7, <2>1, Zenon DEF Retire
    <2>4. QED
      BY <2>2, <2>3, RetiredDebt, Zenon
  <1>8. ASSUME NEW d \in Devices, NEW e \in Devices, ReplaceHardware(d, e)
        PROVE  DebtInvariant' /\ (DebtGrows => Shown)
    <2>1. PICK lost : lost = LiveCredentials(d, credential)
      BY Zenon
    <2>2. PICK both : both = lost \cup LiveCredentials(e, credential)
      BY Zenon
    <2>3. /\ lost \in SUBSET Ids /\ \A c \in lost : credential[c] # None
          /\ both \in SUBSET Ids /\ \A c \in both : credential[c] # None
      BY <1>6, <2>1, <2>2, Zenon
    <2>4. \/ CloseAuthority(device, principal, Revoke(lost, credential))
          \/ /\ device[e] = "live"
             /\ CloseAuthority([device EXCEPT ![e] = "retired"], Retired(e, principal),
                               Revoke(both, credential))
      BY <1>8, <2>1, <2>2, Zenon DEF ReplaceHardware
    <2>5. QED
      BY <2>3, <2>4, RetiredDebt, RevokedDebt, Zenon
  <1>9. ASSUME NEW c \in Ids, RevokeCredential(c, LiveStates)
        PROVE  DebtInvariant' /\ (DebtGrows => Shown)
    <2>1. PICK cs : cs = {c}
      BY Zenon
    <2>2. cs \in SUBSET Ids /\ \A a \in cs : credential[a] # None
      BY <1>9, <2>1, Zenon DEF RevokeCredential
    <2>3. CloseAuthority(device, principal, Revoke(cs, credential))
      BY <1>9, <2>1, Zenon DEF RevokeCredential
    <2>4. QED
      BY <2>2, <2>3, RevokedDebt, Zenon
  <1>10. ASSUME NEW c \in Ids, Deliver(c)
         PROVE  DebtInvariant' /\ (DebtGrows => Shown)
    BY <1>10, QuietStep, PreviewStable, Zenon DEF Deliver, DebtInvariant
  <1>11. ASSUME NEW c \in Ids, Confirm(c)
         PROVE  DebtInvariant' /\ (DebtGrows => Shown)
    <2>1. Bump /\ UNCHANGED <<device, principal, config, debt, preview>>
      BY <1>11, Zenon DEF Confirm
    <2>2. \A e \in Devices : LiveCredentials(e, credential) # {} <=> LiveCredentials(e, credential') # {}
      BY <1>11, ConfirmedLive, Zenon
    <2>3. PreviewTrue'
      BY <2>1, PreviewAdvanced, Zenon DEF DebtInvariant
    <2>4. QED
      BY <2>1, <2>2, <2>3, CredentialDebt, Zenon
  <1>12. ASSUME NEW c \in Ids, Authenticate(c)
         PROVE  DebtInvariant' /\ (DebtGrows => Shown)
    <2>1. /\ Bump \/ UNCHANGED <<credential, generation>>
          /\ UNCHANGED <<device, principal, config, debt, preview>>
      BY <1>12, Zenon DEF Authenticate
    <2>2. \A e \in Devices : LiveCredentials(e, credential) # {} <=> LiveCredentials(e, credential') # {}
      BY <1>12, ProvenLive, Zenon
    <2>3. PreviewTrue'
      BY <2>1, PreviewAdvanced, PreviewStable, Zenon DEF DebtInvariant
    <2>4. QED
      BY <2>1, <2>2, <2>3, CredentialDebt, Zenon
  <1>13. CASE ResetPassphrase
    BY <1>13, QuietStep, PreviewAdvanced, Zenon DEF ResetPassphrase, DebtInvariant
  <1>14. CASE UNCHANGED vars
    BY <1>14, QuietStep, PreviewStable, Zenon DEF vars, DebtInvariant
  <1>15. QED
    BY <1>1, <1>2, <1>3, <1>4, <1>5, <1>7, <1>8, <1>9, <1>10, <1>11, <1>12, <1>13, <1>14, Zenon DEF Next

(* Nobody is live at first, so nothing is required.                        *)
LEMMA InitDebt == Init => DebtInvariant
  <1> SUFFICES ASSUME Init PROVE DebtInvariant
    BY Zenon
  <1>1. CredentialInvariant
    BY InitInvariant, Zenon
  <1>2. LiveNow = {}
    BY Zenon DEF Init, LiveNow, Live
  <1>3. OwnScope
    <2>1. "absent" # "live"
      OBVIOUS
    <2>2. QED
      BY <2>1, Zenon DEF Init, OwnScope
  <1>4. PreviewTrue
    BY Zenon DEF Init, PreviewTrue
  <1>5. ~Exceeds(StatusNow)
    <2>1. PICK v \in Statuses : v = StatusNow
      BY <1>1, LiveFacts, Zenon
    <2>2. PICK ws : ws = WeightOf(principal, config, "steady")
      BY Zenon
    <2>3. PICK wb : wb = WeightOf(principal, config, "burst")
      BY Zenon
    <2>4. PICK cap : cap = config.capacity
      BY Zenon
    <2>5. v = [required |-> [steady |-> Total(ws, {}), burst |-> Total(wb, {})], capacity |-> cap]
      <3>1. {} \in SUBSET Devices /\ \A d \in {} : principal[d] # None
        BY Zenon
      <3>2. /\ principal \in [Devices -> Principals \cup {None}]
            /\ config \in Configs \cup {InitConfig}
            /\ StatusNow = Status({}, principal, config)
        BY <1>1, <1>2, LiveFacts, Zenon
      <3>3. Status({}, principal, config) =
               [required |-> [steady |-> Total(WeightOf(principal, config, "steady"), {}),
                              burst |-> Total(WeightOf(principal, config, "burst"), {})],
                capacity |-> config.capacity]
        BY <3>1, <3>2, StatusTotals, Zenon
      <3>4. QED
        BY <2>1, <2>2, <2>3, <2>4, <3>2, <3>3, Zenon
    <2>6. Total(ws, {}) = 0 /\ Total(wb, {}) = 0
      BY TotalOfNobody, Zenon
    <2>7. v.required.steady = 0 /\ v.required.burst = 0
      <3>1. v = [required |-> [steady |-> 0, burst |-> 0], capacity |-> cap]
        BY <2>5, <2>6, Zenon
      <3>2. QED
        BY <3>1
    <2>8. v.capacity.steady \in Nat /\ v.capacity.burst \in Nat
      BY <2>1 DEF Statuses, Units
    <2>9. QED
      BY <2>1, <2>7, <2>8 DEF Exceeds
  <1>6. QED
    BY <1>3, <1>4, <1>5, Zenon DEF DebtInvariant, DebtIsExact, Init

-----------------------------------------------------------------------------
(* The results about the debt.                                             *)

(* A registered device is in its principal's scopes, the debt row is       *)
(* exact, and a preview of the present generation is of the present        *)
(* tables.                                                                 *)
THEOREM DebtInvariantHolds == Spec => []DebtInvariant
  <1>1. CredentialInvariant /\ CredentialInvariant' /\ DebtInvariant /\ [Next]_vars => DebtInvariant'
    BY DebtStep, Zenon
  <1> QED BY <1>1, InitDebt, CredentialInvariantHolds, PTL DEF Spec

(* After every operation, trigger and approval there is a debt row exactly *)
(* when the live principals require more than the capacity, with what they *)
(* require: the amounts added one by one agree with the sum over the       *)
(* principals that are live.                                               *)
THEOREM DebtStaysExact == Spec => []DebtIsExact
  <1>1. DebtInvariant => DebtIsExact
    BY Zenon DEF DebtInvariant
  <1> QED BY <1>1, DebtInvariantHolds, PTL

(* The debt grows only in execute_approved, to the amount the operator was *)
(* shown, in the state it was computed in: the generation that             *)
(* validate_capacity_approval compares stands for the whole state.         *)
THEOREM DebtNeedsApproval == Spec => OnlyApprovedDebt
  <1>1. CredentialInvariant /\ CredentialInvariant' /\ DebtInvariant /\ [Next]_vars
            => [DebtGrows => /\ preview # None
                             /\ preview.status = debt'
                             /\ preview.world = World]_vars
    BY DebtStep, Zenon DEF Shown
  <1> QED BY <1>1, DebtInvariantHolds, CredentialInvariantHolds, PTL DEF Spec, OnlyApprovedDebt
=============================================================================
