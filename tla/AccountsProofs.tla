--------------------------- MODULE AccountsProofs ---------------------------
(* Proofs about Accounts for every value of its constants: type correctness, *)
(* an unlink that leaves no Cognito user behind, and, for the operations     *)
(* whose read and write nothing comes between, closure in order, closed      *)
(* accounts that are empty, and one primary identity per tenant.             *)
EXTENDS Accounts, FiniteSetTheorems, TLAPS

CallType == [op : OpNames \cup {"none", "admit"}, sub : Subs \cup {None},
             tenant : TenantIds \cup {None}, nonce : 0..MaxLinks]
CloserType == [pc : {"idle", "listed", "cleanup"}, todo : SUBSET TenantIds, users : SUBSET Subs]

\* The types of the variables Accounts adds to Provisioning.
AccTypeOK ==
    /\ DOMAIN sessions \subseteq Subs /\ \A s \in DOMAIN sessions : sessions[s] \in Session
    /\ DOMAIN links \subseteq 1..MaxLinks /\ \A n \in DOMAIN links : links[n] \in Link
    /\ call \in [Clients -> CallType]
    /\ closer \in [Closers -> CloserType]
    /\ audited \subseteq Subs
    /\ known \in [TenantIds -> 0..MaxToken]
    /\ clock \in 0..MaxClock /\ nextToken \in 1..MaxToken + 1 /\ faults \in 0..MaxFaults

LEMMA TypeParts == TypeOK <=> ProvTypeOK /\ AccTypeOK
BY DEF TypeOK, AccTypeOK, CallType, CloserType

\* Tenants are numbered without gaps and never go: what names a tenant names a row.
Numbered == \E n \in Nat : DOMAIN tenants = 1..n

Named ==
    /\ Numbered
    /\ \A s \in DOMAIN identities : identities[s].tenant \in DOMAIN tenants
    /\ \A n \in DOMAIN links : links[n].tenant \in DOMAIN tenants
    /\ \A c \in Clients : call[c].op # "none" =>
          /\ call[c].tenant \in DOMAIN tenants
          /\ call[c].op \notin {"close", "cancel"} => call[c].sub \in Subs
    /\ \A k \in Closers : closer[k].todo \subseteq DOMAIN tenants

----------------------------------------------------------------------------
(* Provisioning.                                                             *)

LEMMA NewTenantId ==
    ASSUME Numbered
    PROVE  \E n \in Nat : /\ DOMAIN tenants = 1..n
                          /\ Cardinality(DOMAIN tenants) = n
                          /\ (n + 1) \notin DOMAIN tenants
                          /\ DOMAIN tenants \cup {n + 1} = 1..(n + 1)
<1>1. PICK n \in Nat : DOMAIN tenants = 1..n
  BY DEF Numbered
<1>2. Cardinality(1..n) = n
  BY FS_Interval
<1>3. 1..n \cup {n + 1} = 1..(n + 1)
  OBVIOUS
<1> QED BY <1>1, <1>2, <1>3

\* A new tenant and its only identity, all others as they were.
NewAccount(s, t) ==
    /\ Unused(s) /\ t \notin DOMAIN tenants
    /\ tenants' = Put(tenants, t, NewTenant(EmailOf[s]))
    /\ DOMAIN identities' = DOMAIN identities \cup {s}
    /\ identities'[s] \in Identity /\ identities'[s].tenant = t /\ identities'[s].is_primary
    /\ \A x \in DOMAIN identities : identities'[x] = identities[x]
    /\ personal' \subseteq TenantIds
    /\ AcceptInvite(s, t, EmailOf[s])

LEMMA ProvisionOneCases ==
    ASSUME ProvTypeOK, Named, NEW r \in Reconcilers, NEW s \in Subs, ProvisionOne(r, s)
    PROVE  \/ UNCHANGED <<tenants, identities, personal, members, invites>>
           \/ \E t \in TenantIds : /\ NewAccount(s, t)
                                   /\ \E n \in Nat : DOMAIN tenants' = 1..n
<1> USE ProvisioningAssumption
<1>1. PICK n \in Nat : /\ DOMAIN tenants = 1..n
                       /\ Cardinality(DOMAIN tenants) = n
                       /\ (n + 1) \notin DOMAIN tenants
                       /\ DOMAIN tenants \cup {n + 1} = 1..(n + 1)
  BY NewTenantId DEF Named
<1>2. CASE Unused(s)
  <2> DEFINE t == n + 1
             row == [tenant |-> t, is_primary |-> TRUE, team |-> None]
             ids == Put(identities, s, row)
  <2>1. t \in TenantIds
    BY <1>1 DEF ProvisionOne, TenantIds
  <2>2. /\ tenants' = Put(tenants, t, NewTenant(EmailOf[s]))
        /\ EnsurePersonalTeam(t, ids) /\ AcceptInvite(s, t, EmailOf[s])
    BY <1>1, <1>2 DEF ProvisionOne
  <2>3. t \notin DOMAIN tenants /\ s \notin DOMAIN identities
    BY <1>1, <1>2 DEF Unused
  <2>4. DOMAIN tenants' = 1..(n + 1)
    BY <1>1, <2>2 DEF Put
  <2> HIDE DEF t
  <2>5. /\ DOMAIN ids = DOMAIN identities \cup {s} /\ ids[s] = row
        /\ \A x \in DOMAIN identities : ids[x] = identities[x] /\ x # s
    BY <2>3 DEF Put
  <2>6. row \in Identity /\ row.tenant = t /\ row.is_primary
    BY <2>1 DEF Identity
  <2> HIDE DEF row, ids
  <2>7. CASE identities' = ids /\ UNCHANGED personal
    <3>1. NewAccount(s, t)
      BY <1>2, <2>2, <2>3, <2>5, <2>6, <2>7 DEF NewAccount, ProvTypeOK
    <3> QED BY <1>1, <2>1, <2>4, <3>1
  <2>8. CASE personal' = personal \cup {t} /\ identities' = Default(ids, t)
    <3>1. DOMAIN identities' = DOMAIN ids
      BY <2>8 DEF Default
    <3>2. ASSUME NEW x \in DOMAIN identities PROVE identities'[x] = identities[x]
      <4>1. ids[x].tenant # t
        BY <2>3, <2>5 DEF Named
      <4> QED BY <2>5, <2>8, <4>1 DEF Default
    <3>3. identities'[s] = row \/ identities'[s] = [row EXCEPT !.team = t]
      BY <2>5, <2>8 DEF Default
    <3>4. [row EXCEPT !.team = t] \in Identity
      BY <2>1, <2>6, Zenon DEF Identity
    <3>5. [row EXCEPT !.team = t].tenant = t /\ [row EXCEPT !.team = t].is_primary
      BY <2>6 DEF Identity
    <3>6. identities'[s] \in Identity /\ identities'[s].tenant = t /\ identities'[s].is_primary
      BY <2>6, <3>3, <3>4, <3>5, Zenon
    <3>7. personal' \subseteq TenantIds
      BY <2>1, <2>8 DEF ProvTypeOK
    <3>8. NewAccount(s, t)
      BY <1>2, <2>2, <2>3, <2>5, <3>1, <3>2, <3>6, <3>7 DEF NewAccount
    <3> QED BY <1>1, <2>1, <2>4, <3>8
  <2> QED BY <2>2, <2>7, <2>8 DEF EnsurePersonalTeam
<1> QED BY <1>2 DEF ProvisionOne

LEMMA JobType ==
    ASSUME ProvTypeOK, NEW r \in Reconcilers
    PROVE  /\ Classify(r) => job' \in [Reconcilers -> Job]
           /\ ListUsers(r) => job' \in [Reconcilers -> Job]
           /\ \A s \in Subs : ProvisionOne(r, s) => job' \in [Reconcilers -> Job]
<1>1. IdleJob \in Job /\ job \in [Reconcilers -> Job] /\ job[r] \in Job
  BY DEF IdleJob, Job, ProvTypeOK
<1>2. job[r].seen \subseteq Subs /\ job[r].todo \subseteq Subs
  BY <1>1 DEF Job
<1>3. Classify(r) => job' \in [Reconcilers -> Job]
  BY <1>1, <1>2 DEF Classify, ToProvision, Job
<1>4. ListUsers(r) => job' \in [Reconcilers -> Job]
  BY <1>1 DEF ListUsers, Job
<1>5. ASSUME NEW s \in Subs PROVE ProvisionOne(r, s) => job' \in [Reconcilers -> Job]
  <2>1. [job[r] EXCEPT !.todo = job[r].todo \ {s}] \in Job
    BY <1>1, <1>2 DEF Job
  <2>2. Done(r, s) \in [Reconcilers -> Job]
    BY <1>1, <2>1 DEF Done
  <2> QED BY <2>2 DEF ProvisionOne
<1> QED BY <1>1, <1>3, <1>4, <1>5

----------------------------------------------------------------------------
(* Types.                                                                    *)

LEMMA IdleTypes == IdleCall \in CallType /\ IdleCloser \in CloserType
BY AccountsAssumption DEF IdleCall, CallType, IdleCloser, CloserType, None

LEMMA InitType == Init => TypeOK /\ Named
<1> SUFFICES ASSUME Init PROVE TypeOK /\ Named
  OBVIOUS
<1> USE ProvisioningAssumption, AccountsAssumption
<1>1. ProvTypeOK
  BY DEF Init, ProvInit, ProvTypeOK, Job, IdleJob
<1>2. AccTypeOK
  BY IdleTypes DEF Init, AccTypeOK
<1>3. Numbered
  <2>1. DOMAIN tenants = {} /\ 1..0 = {}
    BY DEF Init, ProvInit
  <2> QED BY <2>1 DEF Numbered
<1>4. Named
  BY <1>3 DEF Named, Init, ProvInit, IdleCall, IdleCloser
<1> QED BY <1>1, <1>2, <1>4, TypeParts

\* Names stay good when tenants stay and new names are of tenants.
LEMMA NamedFrame ==
    ASSUME Named, Numbered', DOMAIN tenants \subseteq DOMAIN tenants',
           \A s \in DOMAIN identities' :
              \/ s \in DOMAIN identities /\ identities'[s].tenant = identities[s].tenant
              \/ identities'[s].tenant \in DOMAIN tenants',
           \A n \in DOMAIN links' :
              \/ n \in DOMAIN links /\ links'[n].tenant = links[n].tenant
              \/ links'[n].tenant \in DOMAIN tenants,
           \A c \in Clients :
              \/ call'[c] = call[c] \/ call'[c].op = "none"
              \/ /\ call'[c].tenant \in DOMAIN tenants
                 /\ call'[c].op \notin {"close", "cancel"} => call'[c].sub \in Subs,
           \A k \in Closers : closer'[k].todo \subseteq closer[k].todo \cup DOMAIN tenants
    PROVE  Named'
<1>1. \A s \in DOMAIN identities' : identities'[s].tenant \in DOMAIN tenants'
  BY DEF Named
<1>2. \A n \in DOMAIN links' : links'[n].tenant \in DOMAIN tenants'
  BY DEF Named
<1>3. \A c \in Clients : call'[c].op # "none" =>
          /\ call'[c].tenant \in DOMAIN tenants'
          /\ call'[c].op \notin {"close", "cancel"} => call'[c].sub \in Subs
  BY DEF Named
<1>4. \A k \in Closers : closer'[k].todo \subseteq DOMAIN tenants'
  BY DEF Named
<1> QED BY <1>1, <1>2, <1>3, <1>4 DEF Named

\* A call that begins changes nothing but itself.
LEMMA StartType ==
    ASSUME TypeOK, Named, NEW c \in Clients, NEW op \in OpNames, NEW s \in Subs \cup {None},
           NEW t \in DOMAIN tenants, NEW n \in 0..MaxLinks,
           op \notin {"close", "cancel"} => s \in Subs, Start(c, op, s, t, n),
           UNCHANGED <<provVars, sessions, links, closer, audited, known, clock, nextToken, faults>>
    PROVE  TypeOK' /\ Named'
<1>0. ProvTypeOK /\ AccTypeOK
  BY TypeParts
<1> DEFINE go == [op |-> op, sub |-> s, tenant |-> t, nonce |-> n]
<1>1. go \in CallType
  BY <1>0 DEF CallType, ProvTypeOK
<1>2. call' = [call EXCEPT ![c] = go] /\ call' \in [Clients -> CallType]
  BY <1>0, <1>1 DEF Start, AccTypeOK
<1>3. TypeOK'
  BY <1>0, <1>2 DEF TypeOK, ProvTypeOK, AccTypeOK, provVars, CallType, CloserType
<1>4. \A d \in Clients : call'[d] = call[d] \/ call'[d] = go
  BY <1>0, <1>2 DEF AccTypeOK
<1>5. go.tenant = t /\ go.op = op /\ go.sub = s
  OBVIOUS
<1>6. UNCHANGED <<tenants, identities, links, closer>>
  BY DEF provVars
<1> HIDE DEF go
<1>7. Numbered'
  BY <1>6 DEF Named, Numbered
<1> QED BY <1>3, <1>4, <1>5, <1>6, <1>7, NamedFrame

\* A call that ends.
LEMMA EndType ==
    ASSUME AccTypeOK, NEW c \in Clients, End(c)
    PROVE  /\ call' \in [Clients -> CallType]
           /\ \A d \in Clients : call'[d] = call[d] \/ call'[d].op = "none"
           /\ \A d \in Clients : d # c => call'[d] = call[d]
           /\ call'[c].op = "none"
BY IdleTypes DEF AccTypeOK, End, IdleCall

\* A session goes with its identity; the others stay.
LEMMA CascadeRows ==
    ASSUME NEW ids
    PROVE  /\ DOMAIN Cascade(ids) = DOMAIN sessions \cap DOMAIN ids
           /\ \A x \in DOMAIN Cascade(ids) : Cascade(ids)[x] = sessions[x]
BY DEF Cascade, Without

LEMMA BeginType ==
    ASSUME TypeOK, Named, NEW c \in Clients, Begin(c)
    PROVE  TypeOK' /\ Named'
<1> USE ProvisioningAssumption, AccountsAssumption
<1>0. None \in 0..MaxLinks /\ DOMAIN links \subseteq 0..MaxLinks
  BY TypeParts DEF None, AccTypeOK
<1>1. ASSUME NEW s \in Subs, Login(c, s) PROVE TypeOK' /\ Named'
  BY <1>0, <1>1, StartType DEF Login, Named, OpNames
<1>2. ASSUME NEW s \in Subs, Unlink(c, s) PROVE TypeOK' /\ Named'
  BY <1>0, <1>2, StartType DEF Unlink, Named, OpNames
<1>3. ASSUME NEW s \in Subs, Promote(c, s) PROVE TypeOK' /\ Named'
  BY <1>0, <1>3, StartType DEF Promote, Named, OpNames
<1>4. ASSUME NEW n \in DOMAIN links, NEW s \in Subs, CompleteLink(c, n, s) PROVE TypeOK' /\ Named'
  BY <1>0, <1>4, StartType DEF CompleteLink, Named, OpNames
<1>5. ASSUME NEW t \in DOMAIN tenants, RequestClosure(c, t) \/ CancelClosure(c, t) PROVE TypeOK' /\ Named'
  BY <1>0, <1>5, StartType DEF RequestClosure, CancelClosure, OpNames
<1> QED BY <1>1, <1>2, <1>3, <1>4, <1>5 DEF Begin

LEMMA SessionType ==
    ASSUME NEW t \in TenantIds, NEW e \in Nat, NEW r \in Nat \cup {-1}
    PROVE  [tenant |-> t, expires |-> e, revoked_at |-> r] \in Session
BY DEF Session

LEMMA LoginType ==
    ASSUME TypeOK, Named, NEW c \in Clients, LoginInvites(c) \/ LoginSession(c)
    PROVE  TypeOK' /\ Named'
<1> USE ProvisioningAssumption, AccountsAssumption
<1>0. ProvTypeOK /\ AccTypeOK /\ call[c] \in CallType
  BY TypeParts DEF AccTypeOK
<1>1. call[c].tenant \in DOMAIN tenants /\ call[c].tenant \in TenantIds /\ call[c].sub \in Subs
  BY <1>0 DEF LoginInvites, LoginSession, Named, ProvTypeOK
<1>2. UNCHANGED <<tenants, identities, links, closer>>
  BY DEF LoginInvites, LoginSession, provVars
<1>3. Numbered'
  BY <1>2 DEF Named, Numbered
<1>4. CASE LoginInvites(c)
  <2>1. call' = [call EXCEPT ![c].op = "admit"]
    BY <1>4 DEF LoginInvites
  <2>2. call' \in [Clients -> CallType]
    BY <1>0, <2>1 DEF AccTypeOK, CallType
  <2>3. \A d \in Clients : \/ call'[d] = call[d]
                           \/ call'[d].tenant = call[c].tenant /\ call'[d].sub = call[c].sub
    <3>1. call'[c].tenant = call[c].tenant /\ call'[c].sub = call[c].sub
      BY <1>0, <2>1 DEF AccTypeOK, CallType
    <3>2. \A d \in Clients : d # c => call'[d] = call[d]
      BY <1>0, <2>1 DEF AccTypeOK
    <3> QED BY <3>1, <3>2
  <2>4. members' \subseteq TenantIds /\ invites' \in [Emails -> {"none", "pending", "accepted"}]
    BY <1>0, <1>1, <1>4 DEF LoginInvites, AcceptInvite, ProvTypeOK
  <2>5. ProvTypeOK'
    BY <1>0, <1>4, <2>4 DEF LoginInvites, ProvTypeOK
  <2>6. AccTypeOK'
    BY <1>0, <1>4, <2>2 DEF LoginInvites, AccTypeOK
  <2> QED BY <1>1, <1>2, <1>3, <2>3, <2>5, <2>6, NamedFrame, TypeParts DEF TypeOK, AccTypeOK, CallType, CloserType
<1>5. CASE LoginSession(c)
  <2>1. clock + SessionTtl \in Nat
    BY <1>0 DEF AccTypeOK
  <2>2. [tenant |-> call[c].tenant, expires |-> clock + SessionTtl, revoked_at |-> -1] \in Session
    BY <1>1, <2>1, SessionType
  <2>3. DOMAIN sessions' \subseteq Subs /\ \A s \in DOMAIN sessions' : sessions'[s] \in Session
    BY <1>0, <1>1, <1>5, <2>2 DEF LoginSession, AccTypeOK, Put
  <2>4. End(c)
    BY <1>5 DEF LoginSession
  <2>5. ProvTypeOK'
    BY <1>0, <1>5 DEF LoginSession, provVars, ProvTypeOK
  <2>6. AccTypeOK'
    BY <1>0, <1>5, <2>3, <2>4, EndType DEF LoginSession, AccTypeOK
  <2> QED BY <1>0, <1>2, <1>3, <2>4, <2>5, <2>6, EndType, NamedFrame DEF TypeOK, AccTypeOK, CallType, CloserType
<1> QED BY <1>4, <1>5

\* The steps of a call that write identities.
LEMMA IdentityWriteType ==
    ASSUME TypeOK, Named, NEW c \in Clients, CompleteLinkInsert(c) \/ UnlinkDelete(c) \/ PromoteUpdate(c)
    PROVE  TypeOK' /\ Named'
<1> USE ProvisioningAssumption, AccountsAssumption
<1>0. ProvTypeOK /\ AccTypeOK /\ call[c] \in CallType
  BY TypeParts DEF AccTypeOK
<1>1. call[c].tenant \in DOMAIN tenants /\ call[c].tenant \in TenantIds /\ call[c].sub \in Subs
  BY <1>0 DEF CompleteLinkInsert, UnlinkDelete, PromoteUpdate, Named, ProvTypeOK
<1>2. UNCHANGED <<tenants, closer>> /\ End(c)
  BY DEF CompleteLinkInsert, UnlinkDelete, PromoteUpdate
<1>3. Numbered'
  BY <1>2 DEF Named, Numbered
<1>4. /\ call' \in [Clients -> CallType]
      /\ \A d \in Clients : call'[d] = call[d] \/ call'[d].op = "none"
  BY <1>0, <1>2, EndType
<1>5. CASE CompleteLinkInsert(c)
  <2> DEFINE s == call[c].sub  t == call[c].tenant  n == call[c].nonce
             row == [tenant |-> t, is_primary |-> FALSE, team |-> None]
  <2>1. row \in Identity
    BY <1>1, Zenon DEF Identity
  <2>2. CASE UNCHANGED <<identities, links, audited>>
    <3>1. TypeOK'
      BY <1>0, <1>4, <1>5, <2>2 DEF CompleteLinkInsert, TypeOK, ProvTypeOK, AccTypeOK, CallType, CloserType
    <3> QED BY <1>2, <1>3, <1>4, <2>2, <3>1, NamedFrame
  <2>3. CASE s \notin DOMAIN identities
    <3>1. /\ identities' = Put(identities, s, row)
          /\ links' = IF n \in DOMAIN links THEN [links EXCEPT ![n].consumed = TRUE] ELSE links
          /\ audited' = Audited(s)
      BY <1>5, <2>3 DEF CompleteLinkInsert
    <3>2. /\ DOMAIN identities' = DOMAIN identities \cup {s} /\ identities'[s] = row
          /\ \A x \in DOMAIN identities : identities'[x] = identities[x]
      BY <2>3, <3>1 DEF Put
    <3>3. row.tenant = t
      OBVIOUS
    <3> HIDE DEF row
    <3>4. DOMAIN identities' \subseteq Subs /\ \A x \in DOMAIN identities' : identities'[x] \in Identity
      BY <1>0, <1>1, <2>1, <3>2 DEF ProvTypeOK
    <3>5. ASSUME n \in DOMAIN links
          PROVE  /\ [links[n] EXCEPT !.consumed = TRUE] \in Link
                 /\ [links[n] EXCEPT !.consumed = TRUE].tenant = links[n].tenant
      <4>1. links[n] \in Link
        BY <1>0, <3>5 DEF AccTypeOK
      <4>2. [links[n] EXCEPT !.consumed = TRUE] \in Link
        BY <4>1, Zenon DEF Link
      <4> QED BY <4>1, <4>2 DEF Link
    <3>6. DOMAIN links' = DOMAIN links
      BY <3>1
    <3>7. ASSUME NEW m \in DOMAIN links PROVE links'[m] \in Link /\ links'[m].tenant = links[m].tenant
      <4>1. links[m] \in Link
        BY <1>0 DEF AccTypeOK
      <4>2. links'[m] = links[m] \/ (m = n /\ links'[m] = [links[n] EXCEPT !.consumed = TRUE])
        BY <3>1
      <4> QED BY <3>5, <4>1, <4>2
    <3>8. audited' \subseteq Subs
      BY <1>0, <1>1, <3>1 DEF Audited, AccTypeOK
    <3>9. ProvTypeOK'
      BY <1>0, <1>5, <3>4 DEF CompleteLinkInsert, ProvTypeOK
    <3>10. AccTypeOK'
      BY <1>0, <1>4, <1>5, <3>6, <3>7, <3>8 DEF CompleteLinkInsert, AccTypeOK
    <3>11. \A x \in DOMAIN identities' :
              \/ x \in DOMAIN identities /\ identities'[x].tenant = identities[x].tenant
              \/ identities'[x].tenant \in DOMAIN tenants'
      BY <1>1, <1>2, <3>2, <3>3
    <3>12. Named'
      BY <1>2, <1>3, <1>4, <3>6, <3>7, <3>11, NamedFrame
    <3> QED BY <3>9, <3>10, <3>12 DEF TypeOK, AccTypeOK, CallType, CloserType
  <2> QED BY <1>5, <2>2, <2>3 DEF CompleteLinkInsert
<1>6. CASE UnlinkDelete(c)
  <2> DEFINE s == call[c].sub
  <2>1. /\ DOMAIN identities' \subseteq DOMAIN identities
        /\ \A x \in DOMAIN identities' : identities'[x] = identities[x]
    <3>1. identities' = identities \/ identities' = Without(identities, {s})
      BY <1>6 DEF UnlinkDelete, UnlinkFails
    <3> QED BY <3>1 DEF Without
  <2>2. /\ DOMAIN sessions' \subseteq DOMAIN sessions
        /\ \A x \in DOMAIN sessions' : sessions'[x] = sessions[x]
    <3>1. sessions' = sessions \/ sessions' = Cascade(identities')
      BY <1>6 DEF UnlinkDelete, UnlinkFails
    <3> QED BY <3>1, CascadeRows
  <2>3. cognito' \in [Subs -> {"absent", "unconfirmed", "confirmed"}] /\ faults' \in 0..MaxFaults
    BY <1>0, <1>6 DEF UnlinkDelete, UnlinkFails, ProvTypeOK, AccTypeOK
  <2>4. ProvTypeOK'
    BY <1>0, <1>6, <2>1, <2>3 DEF UnlinkDelete, ProvTypeOK
  <2>5. AccTypeOK'
    BY <1>0, <1>4, <1>6, <2>2, <2>3 DEF UnlinkDelete, AccTypeOK
  <2>6. UNCHANGED links
    BY <1>6 DEF UnlinkDelete
  <2>7. Named'
    BY <1>2, <1>3, <1>4, <2>1, <2>6, NamedFrame
  <2> QED BY <2>4, <2>5, <2>7 DEF TypeOK, AccTypeOK, CallType, CloserType
<1>7. CASE PromoteUpdate(c)
  <2> DEFINE s == call[c].sub  t == call[c].tenant
  <2>1. DOMAIN identities' = DOMAIN identities
    BY <1>7 DEF PromoteUpdate
  <2>2. ASSUME NEW x \in DOMAIN identities
        PROVE  identities'[x] \in Identity /\ identities'[x].tenant = identities[x].tenant
    <3>1. identities[x] \in Identity
      BY <1>0 DEF ProvTypeOK
    <3>2. (x = s) \in BOOLEAN
      OBVIOUS
    <3>3. [identities[x] EXCEPT !.is_primary = (x = s)] \in Identity
      BY <3>1, <3>2, Zenon DEF Identity
    <3>4. [identities[x] EXCEPT !.is_primary = (x = s)].tenant = identities[x].tenant
      BY <3>1 DEF Identity
    <3>5. identities'[x] \in {identities[x], [identities[x] EXCEPT !.is_primary = (x = s)]}
      BY <1>7 DEF PromoteUpdate
    <3> QED BY <3>1, <3>3, <3>4, <3>5
  <2>3. audited' \subseteq Subs
    BY <1>0, <1>1, <1>7 DEF PromoteUpdate, Audited, AccTypeOK
  <2>4. ProvTypeOK'
    BY <1>0, <1>7, <2>1, <2>2 DEF PromoteUpdate, ProvTypeOK
  <2>5. AccTypeOK'
    BY <1>0, <1>4, <1>7, <2>3 DEF PromoteUpdate, AccTypeOK
  <2>6. UNCHANGED links
    BY <1>7 DEF PromoteUpdate
  <2>7. Named'
    BY <1>2, <1>3, <1>4, <2>1, <2>2, <2>6, NamedFrame
  <2> QED BY <2>4, <2>5, <2>7 DEF TypeOK, AccTypeOK, CallType, CloserType
<1> QED BY <1>5, <1>6, <1>7

\* The steps of a call that write the status of a tenant.
LEMMA ClosureType ==
    ASSUME TypeOK, Named, NEW c \in Clients, RequestClosureUpdate(c) \/ CancelClosureUpdate(c)
    PROVE  TypeOK' /\ Named'
<1> USE ProvisioningAssumption, AccountsAssumption
<1>0. ProvTypeOK /\ AccTypeOK /\ call[c] \in CallType
  BY TypeParts DEF AccTypeOK
<1> DEFINE t == call[c].tenant
<1>1. t \in DOMAIN tenants /\ t \in TenantIds /\ tenants[t] \in Tenant
  BY <1>0 DEF RequestClosureUpdate, CancelClosureUpdate, Named, ProvTypeOK
<1>2. /\ End(c) /\ DOMAIN tenants' = DOMAIN tenants
      /\ UNCHANGED <<cognito, invited, identities, personal, invites, members, job, sessions, links,
                     closer, audited, clock, faults>>
  BY DEF RequestClosureUpdate, CancelClosureUpdate
<1>3. Numbered'
  BY <1>2 DEF Named, Numbered
<1>4. /\ call' \in [Clients -> CallType]
      /\ \A d \in Clients : call'[d] = call[d] \/ call'[d].op = "none"
  BY <1>0, <1>2, EndType
<1>5. nextToken \in Nat /\ clock \in Nat /\ 0 \in Nat
  BY <1>0 DEF AccTypeOK
<1>6. \A x \in DOMAIN tenants : tenants'[x] \in Tenant
  <2> DEFINE asked == [tenants[t] EXCEPT !.status = "pending_deletion", !.requested_at = clock,
                                         !.token = nextToken]
             kept == [tenants[t] EXCEPT !.status = "active", !.requested_at = 0, !.token = 0]
  <2>1. asked \in Tenant /\ kept \in Tenant
    BY <1>1, <1>5 DEF Tenant
  <2>2. tenants' = [tenants EXCEPT ![t] = asked] \/ tenants' = [tenants EXCEPT ![t] = kept]
    BY <1>1 DEF RequestClosureUpdate, CancelClosureUpdate
  <2> HIDE DEF asked, kept
  <2> QED BY <1>0, <1>1, <2>1, <2>2 DEF ProvTypeOK
<1>7. nextToken' \in 1..MaxToken + 1 /\ known' \in [TenantIds -> 0..MaxToken]
  BY <1>0, <1>1 DEF RequestClosureUpdate, CancelClosureUpdate, AccTypeOK
<1>8. ProvTypeOK'
  BY <1>0, <1>2, <1>6 DEF ProvTypeOK
<1>9. AccTypeOK'
  BY <1>0, <1>2, <1>4, <1>7 DEF AccTypeOK
<1>10. Named'
  BY <1>2, <1>3, <1>4, NamedFrame
<1> QED BY <1>8, <1>9, <1>10 DEF TypeOK, AccTypeOK, CallType, CloserType

LEMMA AnonymisedType == Anonymised \in Tenant
BY DEF Anonymised, Tenant

LEMMA CloseType ==
    ASSUME TypeOK, Named, NEW k \in Closers, Close(k)
    PROVE  TypeOK' /\ Named'
<1> USE ProvisioningAssumption, AccountsAssumption
<1>0. /\ ProvTypeOK /\ AccTypeOK /\ closer[k] \in CloserType /\ closer \in [Closers -> CloserType]
      /\ closer[k].todo \subseteq DOMAIN tenants /\ closer[k].users \subseteq Subs
      /\ DOMAIN tenants \subseteq TenantIds
  BY TypeParts DEF AccTypeOK, Named, CloserType, ProvTypeOK
<1>1. ASSUME NEW new \in CloserType, new.todo \subseteq DOMAIN tenants,
             closer' = [closer EXCEPT ![k] = new]
      PROVE  /\ closer' \in [Closers -> CloserType]
             /\ \A j \in Closers : closer'[j].todo \subseteq closer[j].todo \cup DOMAIN tenants
  BY <1>0, <1>1
<1>2. IdleCloser \in CloserType /\ IdleCloser.todo \subseteq DOMAIN tenants
  BY IdleTypes DEF IdleCloser
<1>3. /\ closer' \in [Closers -> CloserType]
      /\ \A j \in Closers : closer'[j].todo \subseteq closer[j].todo \cup DOMAIN tenants
  <2>1. CASE ListCandidates(k)
    <3> DEFINE new == [pc |-> "listed", todo |-> {t \in DOMAIN tenants : PastGrace(t)}, users |-> {}]
    <3>1. new \in CloserType /\ new.todo \subseteq DOMAIN tenants
      BY <1>0 DEF CloserType
    <3>2. closer' = [closer EXCEPT ![k] = new]
      BY <2>1 DEF ListCandidates
    <3> HIDE DEF new
    <3> QED BY <1>1, <3>1, <3>2
  <2>2. CASE CloserCrash(k)
    BY <1>1, <1>2, <2>2 DEF CloserCrash
  <2>3. ASSUME NEW t \in TenantIds, FinalizeClosure(k, t)
        PROVE  /\ closer' \in [Closers -> CloserType]
               /\ \A j \in Closers : closer'[j].todo \subseteq closer[j].todo \cup DOMAIN tenants
    <3>1. PICK users \in SUBSET Subs : Finalised(k, t, users)
      <4>1. IdentitiesOf(t) \subseteq Subs
        BY <1>0 DEF IdentitiesOf, ProvTypeOK
      <4> QED BY <2>3, <4>1 DEF FinalizeClosure
    <3> DEFINE rest == closer[k].todo \ {t}
               more == [pc |-> IF users = {} THEN "listed" ELSE "cleanup", todo |-> rest, users |-> users]
    <3>2. more \in CloserType /\ more.todo \subseteq DOMAIN tenants
      BY <1>0 DEF CloserType
    <3>3. closer' = [closer EXCEPT ![k] = IF users = {} /\ rest = {} THEN IdleCloser ELSE more]
      BY <3>1 DEF Finalised
    <3> HIDE DEF more, rest
    <3> QED BY <1>1, <1>2, <3>2, <3>3
  <2>4. ASSUME NEW s \in Subs, DeleteUser(k, s)
        PROVE  /\ closer' \in [Closers -> CloserType]
               /\ \A j \in Closers : closer'[j].todo \subseteq closer[j].todo \cup DOMAIN tenants
    <3> DEFINE left == closer[k].users \ {s}
               more == [closer[k] EXCEPT !.users = left, !.pc = IF left = {} THEN "listed" ELSE "cleanup"]
    <3>1. more \in CloserType /\ more.todo \subseteq DOMAIN tenants
      BY <1>0 DEF CloserType
    <3>2. closer' = [closer EXCEPT ![k] = IF left = {} /\ closer[k].todo = {} THEN IdleCloser ELSE more]
      BY <1>0, <2>4 DEF DeleteUser
    <3> HIDE DEF more, left
    <3> QED BY <1>1, <1>2, <3>1, <3>2
  <2> QED BY <2>1, <2>2, <2>3, <2>4 DEF Close
<1>4. /\ cognito' \in [Subs -> {"absent", "unconfirmed", "confirmed"}] /\ faults' \in 0..MaxFaults
      /\ UNCHANGED <<invited, personal, invites, members, job, call, audited, known, clock, nextToken>>
  <2>1. UNCHANGED <<invited, personal, invites, members, job, call, audited, known, clock, nextToken>>
    BY DEF Close, ListCandidates, CloserCrash, FinalizeClosure, DeleteUser, provVars
  <2>2. cognito' = cognito \/ \E s \in Subs : cognito' = [cognito EXCEPT ![s] = "absent"]
    BY DEF Close, ListCandidates, CloserCrash, FinalizeClosure, DeleteUser, provVars
  <2>3. faults' = faults \/ (faults < MaxFaults /\ faults' = faults + 1)
    BY DEF Close, ListCandidates, CloserCrash, FinalizeClosure, DeleteUser, provVars
  <2> QED BY <1>0, <2>1, <2>2, <2>3 DEF ProvTypeOK, AccTypeOK
<1>5. \/ UNCHANGED <<tenants, identities, sessions, links>>
      \/ \E t \in TenantIds :
            /\ tenants' = [tenants EXCEPT ![t] = Anonymised]
            /\ identities' = Without(identities, IdentitiesOf(t))
            /\ sessions' = Without(Cascade(identities'), {s \in DOMAIN sessions : sessions[s].tenant = t})
            /\ links' = Without(links, {n \in DOMAIN links : links[n].tenant = t})
  BY DEF Close, ListCandidates, CloserCrash, FinalizeClosure, DeleteUser, provVars
<1>6. /\ DOMAIN tenants' = DOMAIN tenants
      /\ \A x \in DOMAIN tenants : tenants'[x] \in Tenant
  BY <1>0, <1>5, AnonymisedType DEF ProvTypeOK
<1>7. /\ DOMAIN identities' \subseteq DOMAIN identities
      /\ \A x \in DOMAIN identities' : identities'[x] = identities[x]
  BY <1>5 DEF Without
<1>8. /\ DOMAIN sessions' \subseteq DOMAIN sessions
      /\ \A x \in DOMAIN sessions' : sessions'[x] = sessions[x]
  BY <1>5 DEF Without, Cascade
<1>9. /\ DOMAIN links' \subseteq DOMAIN links
      /\ \A n \in DOMAIN links' : links'[n] = links[n]
  BY <1>5 DEF Without
<1>10. ProvTypeOK'
  BY <1>0, <1>4, <1>6, <1>7 DEF ProvTypeOK
<1>11. AccTypeOK'
  BY <1>0, <1>3, <1>4, <1>8, <1>9 DEF AccTypeOK
<1>12. Numbered'
  BY <1>6 DEF Named, Numbered
<1>13. Named'
  BY <1>3, <1>4, <1>6, <1>7, <1>9, <1>12, NamedFrame
<1> QED BY <1>10, <1>11, <1>13 DEF TypeOK, AccTypeOK, CallType, CloserType

LEMMA ProvisionType ==
    ASSUME TypeOK, Named, Provision, UNCHANGED accVars
    PROVE  TypeOK' /\ Named'
<1> USE ProvisioningAssumption, AccountsAssumption
<1>0. ProvTypeOK /\ AccTypeOK
  BY TypeParts
<1>1. AccTypeOK' /\ UNCHANGED <<links, call, closer>>
  BY <1>0 DEF accVars, AccTypeOK
<1>2. CASE UNCHANGED <<tenants, identities>> /\ ProvTypeOK'
  <2>1. Numbered'
    BY <1>2 DEF Named, Numbered
  <2>2. Named'
    BY <1>1, <1>2, <2>1, NamedFrame
  <2> QED BY <1>1, <1>2, <2>2 DEF TypeOK, AccTypeOK, CallType, CloserType
<1>3. ASSUME NEW s \in Subs, SignUp(s) \/ Confirm(s) PROVE UNCHANGED <<tenants, identities>> /\ ProvTypeOK'
  BY <1>0, <1>3 DEF SignUp, Confirm, ProvTypeOK
<1>4. ASSUME NEW r \in Reconcilers, ListUsers(r) \/ Classify(r)
      PROVE  UNCHANGED <<tenants, identities>> /\ ProvTypeOK'
  BY <1>0, <1>4, JobType DEF ListUsers, Classify, ProvTypeOK
<1>5. ASSUME NEW r \in Reconcilers, NEW s \in Subs, ProvisionOne(r, s) PROVE TypeOK' /\ Named'
  <2>1. UNCHANGED <<cognito, invited>> /\ job' \in [Reconcilers -> Job]
    BY <1>0, <1>5, JobType DEF ProvisionOne
  <2>2. CASE UNCHANGED <<tenants, identities, personal, members, invites>>
    BY <1>0, <1>2, <2>1, <2>2 DEF ProvTypeOK
  <2>3. ASSUME NEW t \in TenantIds, NewAccount(s, t), \E n \in Nat : DOMAIN tenants' = 1..n
        PROVE  TypeOK' /\ Named'
    <3>1. NewTenant(EmailOf[s]) \in Tenant
      BY DEF NewTenant, Tenant
    <3>2. /\ DOMAIN tenants' = DOMAIN tenants \cup {t}
          /\ \A x \in DOMAIN tenants' : tenants'[x] \in Tenant
      BY <1>0, <2>3, <3>1 DEF NewAccount, Put, ProvTypeOK
    <3>3. members' \subseteq TenantIds /\ invites' \in [Emails -> {"none", "pending", "accepted"}]
      BY <1>0, <2>3 DEF NewAccount, AcceptInvite, ProvTypeOK
    <3>4. ProvTypeOK'
      BY <1>0, <2>1, <2>3, <3>2, <3>3 DEF NewAccount, ProvTypeOK
    <3>5. Numbered'
      BY <2>3 DEF Numbered
    <3>6. \A x \in DOMAIN identities' :
              \/ x \in DOMAIN identities /\ identities'[x].tenant = identities[x].tenant
              \/ identities'[x].tenant \in DOMAIN tenants'
      BY <2>3, <3>2 DEF NewAccount
    <3>7. Named'
      BY <1>1, <3>2, <3>5, <3>6, NamedFrame
    <3> QED BY <1>1, <3>4, <3>7 DEF TypeOK, AccTypeOK, CallType, CloserType
  <2> QED BY <1>0, <1>5, <2>2, <2>3, ProvisionOneCases
<1> QED BY <1>2, <1>3, <1>4, <1>5 DEF Provision, Reconcile

\* The steps that change sessions, links or time only.
LEMMA OtherType ==
    ASSUME TypeOK, Named,
           \/ \E s \in Subs : Logout(s)
           \/ \E t \in DOMAIN tenants, n \in 1..MaxLinks : StartLink(t, n)
           \/ PurgeTokens \/ Tick
    PROVE  TypeOK' /\ Named'
<1> USE ProvisioningAssumption, AccountsAssumption
<1>0. ProvTypeOK /\ AccTypeOK /\ DOMAIN tenants \subseteq TenantIds
  BY TypeParts DEF ProvTypeOK
<1>1. UNCHANGED <<provVars, call, closer, audited, known, nextToken, faults>>
  BY DEF Logout, StartLink, PurgeTokens, Tick
<1>2. clock' \in 0..MaxClock /\ clock \in Nat
  <2>1. clock' = clock \/ (clock < MaxClock /\ clock' = clock + 1)
    BY DEF Logout, StartLink, PurgeTokens, Tick
  <2> QED BY <1>0, <2>1 DEF AccTypeOK
<1>3. DOMAIN sessions' \subseteq Subs /\ \A s \in DOMAIN sessions' : sessions'[s] \in Session
  <2>1. CASE UNCHANGED sessions
    BY <1>0, <2>1 DEF AccTypeOK
  <2>2. ASSUME NEW s \in Subs, Logout(s)
        PROVE  DOMAIN sessions' \subseteq Subs /\ \A x \in DOMAIN sessions' : sessions'[x] \in Session
    BY <1>0, <1>2, <2>2 DEF Logout, AccTypeOK, Session
  <2>3. CASE PurgeTokens
    BY <1>0, <2>3 DEF PurgeTokens, Without, AccTypeOK
  <2> QED BY <2>1, <2>2, <2>3 DEF StartLink, Tick
<1>4. /\ DOMAIN links' \subseteq 1..MaxLinks /\ \A n \in DOMAIN links' : links'[n] \in Link
      /\ \A n \in DOMAIN links' :
              \/ n \in DOMAIN links /\ links'[n].tenant = links[n].tenant
              \/ links'[n].tenant \in DOMAIN tenants
  <2>1. CASE UNCHANGED links
    BY <1>0, <2>1 DEF AccTypeOK
  <2>2. ASSUME NEW t \in DOMAIN tenants, NEW n \in 1..MaxLinks, StartLink(t, n)
        PROVE  /\ DOMAIN links' \subseteq 1..MaxLinks /\ \A m \in DOMAIN links' : links'[m] \in Link
               /\ \A m \in DOMAIN links' :
                    \/ m \in DOMAIN links /\ links'[m].tenant = links[m].tenant
                    \/ links'[m].tenant \in DOMAIN tenants
    <3> DEFINE row == [tenant |-> t, expires |-> clock + LinkTtl, consumed |-> FALSE]
    <3>1. clock + LinkTtl \in Nat /\ t \in TenantIds /\ FALSE \in BOOLEAN
      BY <1>0, <1>2
    <3>2. row \in Link
      BY <3>1, Zenon DEF Link
    <3>3. row.tenant = t
      OBVIOUS
    <3>4. links' = Put(links, n, row)
      BY <2>2 DEF StartLink
    <3> HIDE DEF row
    <3> QED BY <1>0, <3>2, <3>3, <3>4 DEF Put, AccTypeOK
  <2>3. CASE PurgeTokens
    BY <1>0, <2>3 DEF PurgeTokens, Without, AccTypeOK
  <2> QED BY <2>1, <2>2, <2>3 DEF Logout, Tick
<1>5. ProvTypeOK' /\ UNCHANGED <<tenants, identities>>
  BY <1>0, <1>1 DEF provVars, ProvTypeOK
<1>6. AccTypeOK'
  BY <1>0, <1>1, <1>2, <1>3, <1>4 DEF AccTypeOK
<1>7. Numbered'
  BY <1>5 DEF Named, Numbered
<1>8. Named'
  BY <1>1, <1>4, <1>5, <1>7, NamedFrame
<1> QED BY <1>5, <1>6, <1>8 DEF TypeOK, AccTypeOK, CallType, CloserType

LEMMA TypeStep == TypeOK /\ Named /\ [Next]_vars => TypeOK' /\ Named'
<1> SUFFICES ASSUME TypeOK, Named, [Next]_vars PROVE TypeOK' /\ Named'
  OBVIOUS
<1>1. CASE UNCHANGED vars
  <2>1. UNCHANGED <<provVars, accVars>>
    BY <1>1 DEF vars
  <2>2. TypeOK'
    BY <2>1 DEF provVars, accVars, TypeOK, ProvTypeOK
  <2>3. Named'
    BY <2>1 DEF provVars, accVars, Named, Numbered
  <2> QED BY <2>2, <2>3
<1>2. ASSUME NEW c \in Clients, Finish(c) PROVE TypeOK' /\ Named'
  BY <1>2, LoginType, IdentityWriteType, ClosureType DEF Finish
<1>3. CASE Next
  BY <1>2, <1>3, BeginType, CloseType, ProvisionType, OtherType DEF Next
<1> QED BY <1>1, <1>3

\* Every step keeps the rows and calls of the accounts well formed.
THEOREM TypeCorrect == Spec => []TypeOK
<1>1. TypeOK /\ Named /\ [Next]_vars => TypeOK' /\ Named'
  BY TypeStep
<1> QED BY <1>1, InitType, PTL DEF Spec

----------------------------------------------------------------------------
(* Unlinking.                                                                *)

\* Only the end of a call takes it back to "none".
LEMMA CallEnds ==
    ASSUME TypeOK, Next, NEW c \in Clients, call[c].op # "none", call'[c].op = "none"
    PROVE  Finish(c)
<1>0. call \in [Clients -> CallType] /\ AccTypeOK
  BY TypeParts DEF AccTypeOK
<1>1. ASSUME NEW d \in Clients, Finish(d) PROVE Finish(c)
  <2>1. ASSUME d # c PROVE call'[c] = call[c]
    <3>1. End(d) \/ call' = [call EXCEPT ![d].op = "admit"]
      BY <1>1 DEF Finish, LoginInvites, LoginSession, CompleteLinkInsert, UnlinkDelete, PromoteUpdate,
         RequestClosureUpdate, CancelClosureUpdate
    <3> QED BY <1>0, <2>1, <3>1 DEF End
  <2> QED BY <1>1, <2>1
<1>2. ASSUME NEW d \in Clients, Begin(d) PROVE FALSE
  <2>1. \E op, s, t, n : op \in OpNames /\ Start(d, op, s, t, n)
    BY <1>2 DEF Begin, Login, Unlink, Promote, CompleteLink, RequestClosure, CancelClosure, OpNames
  <2>2. PICK op, s, t, n : op \in OpNames /\ Start(d, op, s, t, n)
    BY <2>1
  <2>3. call'[c] = call[c] \/ call'[c].op = op
    BY <1>0, <2>2 DEF Start
  <2> QED BY <2>2, <2>3 DEF OpNames
<1>3. CASE UNCHANGED call
  BY <1>3
<1>4. ASSUME NEW k \in Closers, Close(k) PROVE UNCHANGED call
  BY <1>4 DEF Close, ListCandidates, CloserCrash, FinalizeClosure, DeleteUser
<1>5. CASE \/ \E s \in Subs : Logout(s)
           \/ \E t \in DOMAIN tenants, n \in 1..MaxLinks : StartLink(t, n)
           \/ PurgeTokens \/ Tick \/ UNCHANGED accVars
  BY <1>3, <1>5 DEF Logout, StartLink, PurgeTokens, Tick, accVars
<1> QED BY <1>1, <1>2, <1>3, <1>4, <1>5 DEF Next

\* Whatever runs beside it, whatever fails and whichever logger is used, an unlink
\* that drops the identity has deleted its Cognito user first (unlink_identity): none
\* is left that the reconciler would provision as a tenant of its own.
THEOREM UnlinkTakesTheUser == Spec => UnlinkedUserIsGone
<1>1. ASSUME TypeOK, [Next]_vars, NEW c \in Clients, call[c].op = "unlink", call'[c].op = "none",
             call[c].sub \in DOMAIN identities
      PROVE  call[c].sub \in DOMAIN identities' \/ cognito'[call[c].sub] = "absent"
  <2> DEFINE s == call[c].sub
  <2>1. Next
    <3>1. UNCHANGED vars => UNCHANGED call
      BY DEF vars, accVars
    <3> QED BY <1>1, <3>1
  <2>2. UnlinkDelete(c)
    <3>1. Finish(c)
      BY <1>1, <2>1, CallEnds
    <3> QED BY <1>1, <3>1 DEF Finish, LoginInvites, LoginSession, CompleteLinkInsert, PromoteUpdate,
               RequestClosureUpdate, CancelClosureUpdate
  <2>3. identities' = identities \/ cognito' = [cognito EXCEPT ![s] = "absent"]
    BY <2>2 DEF UnlinkDelete, UnlinkFails
  <2>4. cognito \in [Subs -> {"absent", "unconfirmed", "confirmed"}] /\ s \in Subs
    BY <1>1, TypeParts DEF ProvTypeOK
  <2> QED BY <1>1, <2>3, <2>4
<1>2. TypeOK /\ [Next]_vars =>
        [\A c \in Clients : LET s == call[c].sub IN
          call[c].op = "unlink" /\ call'[c].op = "none" /\ s \in DOMAIN identities
          => s \in DOMAIN identities' \/ cognito'[s] = "absent"]_vars
  BY <1>1
<1> QED BY <1>2, TypeCorrect, PTL DEF Spec, UnlinkedUserIsGone

----------------------------------------------------------------------------
(* Operations in Solo: what they read still holds when they write.           *)

Fresh(c) ==
    LET s == call[c].sub  t == call[c].tenant IN
    /\ call[c].op = "close" => tenants[t].status = "active"
    /\ call[c].op = "cancel" => MayCancel(t)
    /\ call[c].op = "link" => SessionOf(t)
    /\ call[c].op = "unlink" => s \in DOMAIN identities /\ ~identities[s].is_primary
    /\ call[c].op = "promote" => s \in DOMAIN identities /\ identities[s].tenant = t

SoloInv ==
    /\ \A c, d \in Clients : call[c].op \in Solo /\ call[d].op \in Solo => c = d
    /\ \A c \in Clients : call[c].op \in Solo => Fresh(c)

\* The step that ends a call, or admits a login, finds no other call in Solo.
LEMMA SoloFinish ==
    ASSUME TypeOK, SoloInv, NEW c \in Clients, call[c].op \in Solo \/ Undisturbed, Finish(c)
    PROVE  \A d \in Clients : call'[d].op \notin Solo
<1>0. call \in [Clients -> CallType] /\ "none" \notin Solo /\ "admit" \notin Solo
  BY TypeParts, AccountsAssumption DEF AccTypeOK, OpNames
<1>1. End(c) \/ call' = [call EXCEPT ![c].op = "admit"]
  BY DEF Finish, LoginInvites, LoginSession, CompleteLinkInsert, UnlinkDelete, PromoteUpdate,
     RequestClosureUpdate, CancelClosureUpdate
<1>2. call'[c].op \in {"none", "admit"}
  BY <1>0, <1>1 DEF End, IdleCall, CallType
<1>3. ASSUME NEW d \in Clients, d # c PROVE call'[d] = call[d] /\ call[d].op \notin Solo
  BY <1>0, <1>1, <1>3 DEF End, SoloInv, Undisturbed
<1> QED BY <1>0, <1>2, <1>3

LEMMA SoloBegin ==
    ASSUME TypeOK, Undisturbed, NEW c \in Clients, Begin(c)
    PROVE  SoloInv'
<1>0. call \in [Clients -> CallType]
  BY TypeParts DEF AccTypeOK
<1>1. UNCHANGED <<provVars, sessions, known, clock>>
  BY DEF Begin, Login, Unlink, Promote, CompleteLink, RequestClosure, CancelClosure
<1>2. UNCHANGED <<tenants, identities, sessions, known, clock>>
  BY <1>1 DEF provVars
<1>3. \A t : MayCancel(t)' = MayCancel(t)
  BY <1>2 DEF MayCancel
<1>4. \A t : SessionOf(t)' = SessionOf(t)
  BY <1>2 DEF SessionOf, ValidSession
<1>5. PICK op, s, t, n :
        /\ op \in OpNames /\ Start(c, op, s, t, n)
        /\ op = "close" => tenants[t].status = "active"
        /\ op = "cancel" => MayCancel(t)
        /\ op = "link" => SessionOf(t)
        /\ op = "unlink" => s \in DOMAIN identities /\ ~identities[s].is_primary
        /\ op = "promote" => s \in DOMAIN identities /\ identities[s].tenant = t
  <2>1. ASSUME NEW s \in Subs, Login(c, s)
        PROVE  Start(c, "login", s, identities[s].tenant, None)
    BY <2>1 DEF Login
  <2>2. ASSUME NEW s \in Subs, Unlink(c, s)
        PROVE  Start(c, "unlink", s, identities[s].tenant, None) /\ s \in DOMAIN identities
               /\ ~identities[s].is_primary
    BY <2>2 DEF Unlink, MayUnlink
  <2>3. ASSUME NEW s \in Subs, Promote(c, s)
        PROVE  Start(c, "promote", s, identities[s].tenant, None) /\ s \in DOMAIN identities
    BY <2>3 DEF Promote
  <2>4. ASSUME NEW n \in DOMAIN links, NEW s \in Subs, CompleteLink(c, n, s)
        PROVE  Start(c, "link", s, links[n].tenant, n) /\ SessionOf(links[n].tenant)
    BY <2>4 DEF CompleteLink
  <2>5. ASSUME NEW t \in DOMAIN tenants, RequestClosure(c, t)
        PROVE  Start(c, "close", None, t, None) /\ tenants[t].status = "active"
    BY <2>5 DEF RequestClosure
  <2>6. ASSUME NEW t \in DOMAIN tenants, CancelClosure(c, t)
        PROVE  Start(c, "cancel", None, t, None) /\ MayCancel(t)
    BY <2>6 DEF CancelClosure
  <2> QED BY <2>1, <2>2, <2>3, <2>4, <2>5, <2>6 DEF Begin, OpNames
<1> DEFINE go == [op |-> op, sub |-> s, tenant |-> t, nonce |-> n]
<1>6. call'[c] = go /\ \A d \in Clients : d # c => call'[d] = call[d]
  BY <1>0, <1>5 DEF Start
<1>7. go.op = op /\ go.sub = s /\ go.tenant = t
  OBVIOUS
<1> HIDE DEF go
<1>8. Fresh(c)'
  BY <1>2, <1>3, <1>4, <1>5, <1>6, <1>7 DEF Fresh
<1> QED BY <1>6, <1>8 DEF SoloInv, Undisturbed

LEMMA SoloStep == TypeOK /\ SoloInv /\ [Next]_vars => SoloInv'
<1> SUFFICES ASSUME TypeOK, SoloInv, [Next]_vars PROVE SoloInv'
  OBVIOUS
<1>1. CASE \A c \in Clients : call'[c].op \notin Solo
  BY <1>1 DEF SoloInv
<1>2. ASSUME NEW c \in Clients, call[c].op \in Solo \/ Undisturbed, Finish(c) PROVE SoloInv'
  BY <1>1, <1>2, SoloFinish
<1>3. CASE Undisturbed /\ UNCHANGED call
  BY <1>1, <1>3 DEF Undisturbed
<1>4. ASSUME NEW k \in Closers, Close(k) PROVE UNCHANGED call
  BY <1>4 DEF Close, ListCandidates, CloserCrash, FinalizeClosure, DeleteUser
<1>5. ASSUME \/ \E s \in Subs : Logout(s)
             \/ \E t \in DOMAIN tenants, n \in 1..MaxLinks : StartLink(t, n)
             \/ PurgeTokens \/ Tick \/ UNCHANGED accVars
      PROVE  UNCHANGED call
  BY <1>5 DEF Logout, StartLink, PurgeTokens, Tick, accVars
<1>6. CASE UNCHANGED vars
  <2>1. UNCHANGED <<tenants, identities, sessions, call, known, clock>>
    BY <1>6 DEF vars, provVars, accVars
  <2>2. \A t : MayCancel(t)' = MayCancel(t) /\ SessionOf(t)' = SessionOf(t)
    BY <2>1 DEF MayCancel, SessionOf, ValidSession
  <2> QED BY <2>1, <2>2 DEF SoloInv, Fresh
<1>7. CASE Next
  BY <1>2, <1>3, <1>4, <1>5, <1>7, SoloBegin DEF Next
<1> QED BY <1>6, <1>7

LEMMA InitSolo == Init => SoloInv
BY AccountsAssumption DEF Init, SoloInv, IdleCall, OpNames

\* Who changes tenants and identities.
LEMMA WhoWrites ==
    ASSUME TypeOK, Named, SoloInv, [Next]_vars
    PROVE  \/ UNCHANGED <<tenants, identities>>
           \/ \E c \in Clients : /\ call[c].op \in Solo => Fresh(c)
                                 /\ Finish(c) /\ call[c].op \notin {"login", "admit"}
           \/ \E k \in Closers, t \in TenantIds : FinalizeClosure(k, t)
           \/ \E s \in Subs, t \in TenantIds : NewAccount(s, t) /\ UNCHANGED accVars
<1>1. CASE UNCHANGED vars
  BY <1>1 DEF vars, provVars
<1>2. ASSUME NEW c \in Clients, Finish(c), call[c].op \in {"login", "admit"}
      PROVE  UNCHANGED <<tenants, identities>>
  BY <1>2 DEF Finish, LoginInvites, LoginSession, CompleteLinkInsert, UnlinkDelete, PromoteUpdate,
     RequestClosureUpdate, CancelClosureUpdate, provVars
<1>3. ASSUME NEW c \in Clients, Begin(c) PROVE UNCHANGED <<tenants, identities>>
  BY <1>3 DEF Begin, Login, Unlink, Promote, CompleteLink, RequestClosure, CancelClosure, provVars
<1>4. ASSUME NEW k \in Closers, ListCandidates(k) \/ CloserCrash(k) \/ (\E s \in Subs : DeleteUser(k, s))
      PROVE  UNCHANGED <<tenants, identities>>
  BY <1>4 DEF ListCandidates, CloserCrash, DeleteUser, provVars
<1>5. ASSUME \/ \E s \in Subs : Logout(s)
             \/ \E t \in DOMAIN tenants, n \in 1..MaxLinks : StartLink(t, n)
             \/ PurgeTokens \/ Tick
      PROVE  UNCHANGED <<tenants, identities>>
  BY <1>5 DEF Logout, StartLink, PurgeTokens, Tick, provVars
<1>6. ASSUME Provision, UNCHANGED accVars
      PROVE  \/ UNCHANGED <<tenants, identities>>
             \/ \E s \in Subs, t \in TenantIds : NewAccount(s, t)
  <2>1. ASSUME NEW s \in Subs, SignUp(s) \/ Confirm(s) PROVE UNCHANGED <<tenants, identities>>
    BY <2>1 DEF SignUp, Confirm
  <2>2. ASSUME NEW r \in Reconcilers, ListUsers(r) \/ Classify(r) PROVE UNCHANGED <<tenants, identities>>
    BY <2>2 DEF ListUsers, Classify
  <2>3. ASSUME NEW r \in Reconcilers, NEW s \in Subs, ProvisionOne(r, s)
        PROVE  \/ UNCHANGED <<tenants, identities>>
               \/ \E t \in TenantIds : NewAccount(s, t)
    BY <2>3, ProvisionOneCases, TypeParts
  <2> QED BY <1>6, <2>1, <2>2, <2>3 DEF Provision, Reconcile
<1>7. CASE Next
  <2>1. CASE \E c \in Clients : Finish(c)
    BY <1>2, <2>1 DEF SoloInv
  <2>2. CASE \E k \in Closers : Close(k)
    BY <1>4, <2>2 DEF Close
  <2> QED BY <1>3, <1>5, <1>6, <1>7, <2>1, <2>2 DEF Next
<1> QED BY <1>1, <1>7

----------------------------------------------------------------------------
(* Closure in order.                                                         *)

\* What the retention job has listed is overdue or already deleted.
Overdue ==
    \A k \in Closers : \A t \in closer[k].todo :
        tenants[t].status = "deleted" \/ PastGrace(t)

\* What a step does to the row of a tenant.
LEMMA TenantStep ==
    ASSUME TypeOK, Named, SoloInv, {"close", "cancel"} \subseteq Solo, [Next]_vars, NEW t \in DOMAIN tenants
    PROVE  /\ t \in DOMAIN tenants'
           /\ \/ tenants'[t] = tenants[t]
              \/ /\ tenants[t].status = "active" /\ tenants'[t].status = "pending_deletion"
                 /\ tenants'[t].email = tenants[t].email
              \/ /\ MayCancel(t) /\ tenants'[t].status = "active" /\ tenants'[t].email = tenants[t].email
              \/ /\ \E k \in Closers : FinalizeClosure(k, t) 
                 /\ tenants'[t] = Anonymised
<1>0. tenants[t] \in Tenant /\ t \in TenantIds
  BY TypeParts DEF ProvTypeOK
<1>1. CASE UNCHANGED <<tenants, identities>>
  BY <1>1
<1>2. ASSUME NEW c \in Clients, call[c].op \in Solo => Fresh(c), Finish(c),
             call[c].op \notin {"login", "admit"}
      PROVE  /\ t \in DOMAIN tenants'
             /\ \/ tenants'[t] = tenants[t]
                \/ /\ tenants[t].status = "active" /\ tenants'[t].status = "pending_deletion"
                   /\ tenants'[t].email = tenants[t].email
                \/ /\ MayCancel(t) /\ tenants'[t].status = "active" /\ tenants'[t].email = tenants[t].email
  <2> DEFINE asked == [tenants[t] EXCEPT !.status = "pending_deletion", !.requested_at = clock,
                                         !.token = nextToken]
             kept == [tenants[t] EXCEPT !.status = "active", !.requested_at = 0, !.token = 0]
  <2>1. /\ asked.status = "pending_deletion" /\ asked.email = tenants[t].email
        /\ kept.status = "active" /\ kept.email = tenants[t].email
    BY <1>0 DEF Tenant
  <2> HIDE DEF asked, kept
  <2>2. CASE RequestClosureUpdate(c)
    <3>1. CASE call[c].tenant = t
      <4>1. tenants' = [tenants EXCEPT ![t] = asked]
        BY <2>2, <3>1 DEF RequestClosureUpdate, asked
      <4>2. tenants[t].status = "active"
        BY <1>2, <2>2, <3>1 DEF RequestClosureUpdate, Fresh
      <4> QED BY <2>1, <4>1, <4>2
    <3>2. CASE call[c].tenant # t
      BY <2>2, <3>2 DEF RequestClosureUpdate
    <3> QED BY <3>1, <3>2
  <2>3. CASE CancelClosureUpdate(c)
    <3>1. CASE call[c].tenant = t
      <4>1. tenants' = [tenants EXCEPT ![t] = kept]
        BY <2>3, <3>1 DEF CancelClosureUpdate, kept
      <4>2. MayCancel(t)
        BY <1>2, <2>3, <3>1 DEF CancelClosureUpdate, Fresh
      <4> QED BY <2>1, <4>1, <4>2
    <3>2. CASE call[c].tenant # t
      BY <2>3, <3>2 DEF CancelClosureUpdate
    <3> QED BY <3>1, <3>2
  <2>4. CASE UNCHANGED tenants
    BY <2>4
  <2> QED BY <1>2, <2>2, <2>3, <2>4 DEF Finish, LoginInvites, LoginSession, CompleteLinkInsert,
             UnlinkDelete, PromoteUpdate
<1>3. ASSUME NEW k \in Closers, NEW u \in TenantIds, FinalizeClosure(k, u)
      PROVE  /\ t \in DOMAIN tenants'
             /\ \/ tenants'[t] = tenants[t]
                \/ u = t /\ tenants'[t] = Anonymised
  BY <1>3 DEF FinalizeClosure
<1>4. ASSUME NEW s \in Subs, NEW u \in TenantIds, NewAccount(s, u)
      PROVE  t \in DOMAIN tenants' /\ tenants'[t] = tenants[t]
  BY <1>4 DEF NewAccount, Put
<1> QED BY <1>1, <1>2, <1>3, <1>4, WhoWrites

LEMMA OverdueStep ==
    ASSUME TypeOK, Named, SoloInv, Overdue, {"close", "cancel"} \subseteq Solo, [Next]_vars
    PROVE  Overdue'
<1> USE AccountsAssumption
<1>0. closer \in [Closers -> CloserType] /\ clock \in Nat /\ ProvTypeOK
  BY TypeParts DEF AccTypeOK
<1>1. clock' \in Nat /\ clock' >= clock
  <2>1. UNCHANGED vars => UNCHANGED clock
    BY DEF vars, accVars
  <2>2. Next => UNCHANGED clock \/ Tick
    BY DEF Next, Finish, LoginInvites, LoginSession, CompleteLinkInsert, UnlinkDelete, PromoteUpdate,
       RequestClosureUpdate, CancelClosureUpdate, Begin, Login, Unlink, Promote, CompleteLink,
       RequestClosure, CancelClosure, Logout, StartLink, Close, ListCandidates, CloserCrash,
       FinalizeClosure, DeleteUser, PurgeTokens, accVars
  <2> QED BY <1>0, <2>1, <2>2 DEF Tick
<1>2. ASSUME NEW t \in DOMAIN tenants, tenants[t].status = "deleted" \/ PastGrace(t)
      PROVE  (tenants[t].status = "deleted" \/ PastGrace(t))'
  <2>0. tenants[t].requested_at \in Nat
    BY <1>0 DEF ProvTypeOK, Tenant
  <2>1. ~MayCancel(t) /\ tenants[t].status # "active"
    BY <1>0, <1>2, <2>0 DEF MayCancel, PastGrace
  <2>2. CASE tenants'[t] = tenants[t]
    BY <1>0, <1>1, <1>2, <2>0, <2>2 DEF PastGrace
  <2>3. CASE tenants'[t] = Anonymised
    BY <2>3 DEF Anonymised
  <2> QED BY <2>1, <2>2, <2>3, TenantStep
<1>3. ASSUME NEW k \in Closers, NEW t \in closer'[k].todo
      PROVE  \/ t \in closer[k].todo
             \/ t \in DOMAIN tenants /\ PastGrace(t)
  <2>1. CASE UNCHANGED closer
    BY <2>1
  <2>2. ASSUME NEW j \in Closers, Close(j) 
        PROVE  \/ t \in closer[k].todo
               \/ t \in DOMAIN tenants /\ PastGrace(t)
    <3>0. closer[j] \in CloserType
      BY <1>0
    <3>1. CASE ListCandidates(j)
      <4>1. closer'[k] = closer[k] \/ closer'[k].todo = {x \in DOMAIN tenants : PastGrace(x)}
        BY <1>0, <3>1 DEF ListCandidates
      <4> QED BY <4>1
    <3>2. CASE CloserCrash(j)
      BY <1>0, <3>2 DEF CloserCrash, IdleCloser
    <3>3. ASSUME NEW u, NEW users, Finalised(j, u, users) PROVE t \in closer[k].todo
      <4>1. closer'[k] = closer[k] \/ (k = j /\ closer'[k].todo = {}) \/ (k = j /\ closer'[k].todo = closer[j].todo \ {u})
        BY <1>0, <3>3 DEF Finalised, IdleCloser
      <4> QED BY <4>1
    <3>4. ASSUME NEW s \in Subs, DeleteUser(j, s) PROVE t \in closer[k].todo
      <4>1. closer'[k] = closer[k] \/ (k = j /\ closer'[k].todo = {}) \/ (k = j /\ closer'[k].todo = closer[j].todo)
        BY <1>0, <3>0, <3>4 DEF DeleteUser, IdleCloser, CloserType
      <4> QED BY <4>1
    <3> QED BY <2>2, <3>1, <3>2, <3>3, <3>4 DEF Close, FinalizeClosure
  <2>3. UNCHANGED vars => UNCHANGED closer
    BY DEF vars, accVars
  <2>4. Next => UNCHANGED closer \/ \E j \in Closers : Close(j)
    BY DEF Next, Finish, LoginInvites, LoginSession, CompleteLinkInsert, UnlinkDelete, PromoteUpdate,
       RequestClosureUpdate, CancelClosureUpdate, Begin, Login, Unlink, Promote, CompleteLink,
       RequestClosure, CancelClosure, Logout, StartLink, PurgeTokens, Tick, accVars
  <2> QED BY <2>1, <2>2, <2>3, <2>4
<1>4. ASSUME NEW k \in Closers, NEW t \in closer'[k].todo
      PROVE  (tenants[t].status = "deleted" \/ PastGrace(t))'
  <2>1. t \in DOMAIN tenants /\ (tenants[t].status = "deleted" \/ PastGrace(t))
    BY <1>3 DEF Overdue, Named
  <2> QED BY <1>2, <2>1
<1> QED BY <1>4 DEF Overdue

\* When nothing comes between the read and the write of a request for closure or
\* of its cancellation, a tenant is deleted only when its owner had asked for it
\* and the grace period is over, and it stays deleted (finalize_closure,
\* retention_deletion).
THEOREM ClosureIsOrderly ==
    ASSUME {"close", "cancel"} \subseteq Solo
    PROVE  Spec => ClosureInOrder
<1>1. Init => Overdue
  BY DEF Init, Overdue, IdleCloser
<1>2. TypeOK /\ Named /\ SoloInv /\ Overdue /\ [Next]_vars => TypeOK' /\ Named' /\ SoloInv' /\ Overdue'
  BY TypeStep, SoloStep, OverdueStep
<1>3. ASSUME TypeOK, Named, SoloInv, Overdue, [Next]_vars, NEW t \in DOMAIN tenants
      PROVE  /\ tenants'[t].status = "deleted" /\ tenants[t].status # "deleted"
                => tenants[t].status = "pending_deletion" /\ clock - tenants[t].requested_at > Grace
             /\ tenants[t].status = "deleted" => tenants'[t].status = "deleted"
  <2>0. tenants[t].requested_at \in Nat /\ clock \in Nat /\ Grace \in Nat
    BY <1>3, TypeParts, AccountsAssumption DEF AccTypeOK, ProvTypeOK, Tenant
  <2>1. CASE tenants'[t] = tenants[t]
    BY <2>1
  <2>2. CASE tenants[t].status = "active" /\ tenants'[t].status = "pending_deletion"
    BY <2>2
  <2>3. CASE MayCancel(t) /\ tenants'[t].status = "active"
    BY <2>3 DEF MayCancel
  <2>4. ASSUME NEW k \in Closers, FinalizeClosure(k, t), tenants'[t] = Anonymised
        PROVE  /\ tenants[t].status = "deleted" \/ PastGrace(t)
               /\ tenants'[t].status = "deleted"
    BY <1>3, <2>4 DEF FinalizeClosure, Overdue, Anonymised
  <2>5. PastGrace(t) => tenants[t].status = "pending_deletion" /\ clock - tenants[t].requested_at > Grace
    BY <2>0 DEF PastGrace
  <2> QED BY <1>3, <2>1, <2>2, <2>3, <2>4, <2>5, TenantStep
<1>4. TypeOK /\ Named /\ SoloInv /\ Overdue /\ [Next]_vars =>
      [\A t \in DOMAIN tenants :
          /\ tenants'[t].status = "deleted" /\ tenants[t].status # "deleted"
             => tenants[t].status = "pending_deletion" /\ clock - tenants[t].requested_at > Grace
          /\ tenants[t].status = "deleted" => tenants'[t].status = "deleted"]_vars
  BY <1>3
<1> QED BY <1>1, <1>2, <1>4, InitType, InitSolo, PTL DEF Spec, ClosureInOrder

----------------------------------------------------------------------------
(* A closed account is empty.                                                *)

\* The end of a call that does not sign in.
LEMMA EmptyFinish ==
    ASSUME TypeOK, Named, ClosedIsEmpty, "link" \in Solo, NEW c \in Clients,
           call[c].op \in Solo => Fresh(c), Finish(c), call[c].op \notin {"login", "admit"}
    PROVE  ClosedIsEmpty'
<1>0. /\ ProvTypeOK /\ call[c].op # "none" /\ call[c].tenant \in DOMAIN tenants
      /\ \A s \in DOMAIN identities : identities[s] \in Identity /\ identities[s].tenant \in DOMAIN tenants
  BY TypeParts DEF Finish, LoginInvites, LoginSession, CompleteLinkInsert, UnlinkDelete, PromoteUpdate,
     RequestClosureUpdate, CancelClosureUpdate, ProvTypeOK, Named
<1>1. CASE CompleteLinkInsert(c)
  <2>1. tenants[call[c].tenant].status # "deleted"
    <3>1. SessionOf(call[c].tenant)
      BY <1>1 DEF CompleteLinkInsert, Fresh
    <3> QED BY <3>1 DEF SessionOf, ClosedIsEmpty, IdentityRow
  <2>2. UNCHANGED <<tenants, sessions>>
    BY <1>1 DEF CompleteLinkInsert
  <2>3. CASE UNCHANGED identities
    BY <2>2, <2>3 DEF ClosedIsEmpty, IdentityRow
  <2>4. CASE call[c].sub \notin DOMAIN identities
    <3> DEFINE row == [tenant |-> call[c].tenant, is_primary |-> FALSE, team |-> None]
    <3>1. identities' = Put(identities, call[c].sub, row) /\ row.tenant = call[c].tenant
      BY <1>1, <2>4 DEF CompleteLinkInsert
    <3> HIDE DEF row
    <3>2. /\ DOMAIN identities' = DOMAIN identities \cup {call[c].sub}
          /\ identities'[call[c].sub].tenant = call[c].tenant
          /\ \A s \in DOMAIN identities : identities'[s] = identities[s]
      BY <2>4, <3>1 DEF Put
    <3> QED BY <2>1, <2>2, <3>2 DEF ClosedIsEmpty, IdentityRow
  <2> QED BY <1>1, <2>3, <2>4 DEF CompleteLinkInsert
<1>2. CASE UnlinkDelete(c)
  <2>1. UNCHANGED tenants
    BY <1>2 DEF UnlinkDelete
  <2>2. \/ UNCHANGED <<identities, sessions>>
        \/ identities' = Without(identities, {call[c].sub}) /\ sessions' = Cascade(identities')
    BY <1>2 DEF UnlinkDelete, UnlinkFails
  <2>3. CASE UNCHANGED <<identities, sessions>>
    BY <2>1, <2>3 DEF ClosedIsEmpty, IdentityRow
  <2>4. CASE identities' = Without(identities, {call[c].sub}) /\ sessions' = Cascade(identities')
    <3>1. \A s \in DOMAIN identities' : s \in DOMAIN identities /\ identities'[s] = identities[s]
      BY <2>4 DEF Without
    <3>2. \A s \in DOMAIN sessions' : s \in DOMAIN sessions /\ s \in DOMAIN identities' /\ sessions'[s] = sessions[s]
      BY <2>4, CascadeRows
    <3> QED BY <2>1, <3>1, <3>2 DEF ClosedIsEmpty, IdentityRow
  <2> QED BY <2>2, <2>3, <2>4
<1>3. CASE PromoteUpdate(c)
  <2>1. UNCHANGED <<tenants, sessions>> /\ DOMAIN identities' = DOMAIN identities
    BY <1>3 DEF PromoteUpdate
  <2>2. ASSUME NEW s \in DOMAIN identities PROVE identities'[s].tenant = identities[s].tenant
    <3>1. [identities[s] EXCEPT !.is_primary = (s = call[c].sub)].tenant = identities[s].tenant
      BY <1>0 DEF Identity
    <3> QED BY <1>3, <3>1 DEF PromoteUpdate
  <2> QED BY <2>1, <2>2 DEF ClosedIsEmpty, IdentityRow
<1>4. CASE RequestClosureUpdate(c) \/ CancelClosureUpdate(c)
  <2>1. UNCHANGED <<identities, sessions>>
    BY <1>4 DEF RequestClosureUpdate, CancelClosureUpdate
  <2>2. ASSUME NEW t \in DOMAIN tenants
        PROVE  tenants'[t] = tenants[t] \/ tenants'[t].status \in {"active", "pending_deletion"}
    <3>1. tenants[t] \in Tenant
      BY <1>0 DEF ProvTypeOK
    <3> QED BY <1>4, <3>1 DEF RequestClosureUpdate, CancelClosureUpdate, Tenant
  <2> QED BY <1>0, <2>1, <2>2 DEF ClosedIsEmpty, IdentityRow
<1> QED BY <1>1, <1>2, <1>3, <1>4 DEF Finish, LoginInvites, LoginSession

LEMMA EmptyFinalize ==
    ASSUME TypeOK, Named, ClosedIsEmpty, NEW k \in Closers, NEW t \in TenantIds, FinalizeClosure(k, t)
    PROVE  ClosedIsEmpty'
<1>0. \A s \in DOMAIN identities : identities[s].tenant \in DOMAIN tenants
  BY DEF Named
<1>1. CASE UNCHANGED <<tenants, identities, sessions>>
  BY <1>1 DEF ClosedIsEmpty, IdentityRow
<1>2. CASE /\ tenants' = [tenants EXCEPT ![t] = Anonymised]
           /\ identities' = Without(identities, IdentitiesOf(t))
           /\ sessions' = Without(Cascade(identities'), {s \in DOMAIN sessions : sessions[s].tenant = t})
  <2>1. \A s \in DOMAIN identities' :
           s \in DOMAIN identities /\ identities'[s] = identities[s] /\ identities[s].tenant # t
    BY <1>2 DEF Without, IdentitiesOf
  <2>2. \A s \in DOMAIN sessions' : s \in DOMAIN Cascade(identities') /\ sessions'[s] = Cascade(identities')[s]
    BY <1>2 DEF Without
  <2>3. \A s \in DOMAIN sessions' : s \in DOMAIN sessions /\ s \in DOMAIN identities' /\ sessions'[s] = sessions[s]
    BY <2>2, CascadeRows
  <2>4. \A u \in DOMAIN tenants : u # t => tenants'[u] = tenants[u]
    BY <1>2
  <2> QED BY <1>0, <2>1, <2>3, <2>4 DEF ClosedIsEmpty, IdentityRow
<1> QED BY <1>1, <1>2 DEF FinalizeClosure

LEMMA EmptyProvision ==
    ASSUME TypeOK, Named, ClosedIsEmpty, NEW s \in Subs, NEW t \in TenantIds, NewAccount(s, t), UNCHANGED accVars
    PROVE  ClosedIsEmpty'
<1>1. UNCHANGED sessions
  BY DEF accVars
<1>2. \A u \in DOMAIN tenants : tenants'[u] = tenants[u]
  BY DEF NewAccount, Put
<1>3. tenants'[t].status = "active"
  BY DEF NewAccount, Put, NewTenant
<1> QED BY <1>1, <1>2, <1>3 DEF NewAccount, ClosedIsEmpty, IdentityRow, Named

LEMMA EmptyStep ==
    ASSUME TypeOK, Named, SoloInv, ClosedIsEmpty, "link" \in Solo, [Next]_vars
    PROVE  ClosedIsEmpty'
<1>1. CASE UNCHANGED <<tenants, identities>>
  <2>1. \/ UNCHANGED sessions
        \/ \E c \in Clients : LoginSession(c)
        \/ \E s \in Subs : Logout(s)
        \/ PurgeTokens
        \/ \E c \in Clients : UnlinkDelete(c)
        \/ \E k \in Closers, t \in TenantIds : FinalizeClosure(k, t)
    <3>1. UNCHANGED vars => UNCHANGED sessions
      BY DEF vars, accVars
    <3>2. UNCHANGED accVars => UNCHANGED sessions
      BY DEF accVars
    <3> QED BY <3>1, <3>2 DEF Next, Finish, LoginInvites, CompleteLinkInsert, PromoteUpdate,
        RequestClosureUpdate, CancelClosureUpdate, Begin, Login, Unlink, Promote, CompleteLink,
        RequestClosure, CancelClosure, StartLink, Close, ListCandidates, CloserCrash, DeleteUser, Tick
  <2>2. ASSUME \A s \in DOMAIN sessions' : \/ s \in DOMAIN sessions /\ sessions'[s].tenant = sessions[s].tenant
                                           \/ IdentityRow(s, sessions'[s].tenant)
        PROVE  ClosedIsEmpty'
    BY <1>1, <2>2 DEF ClosedIsEmpty, IdentityRow
  <2>3. CASE UNCHANGED sessions
    BY <2>2, <2>3
  <2>4. ASSUME NEW c \in Clients, LoginSession(c) PROVE ClosedIsEmpty'
    <3> DEFINE row == [tenant |-> call[c].tenant, expires |-> clock + SessionTtl, revoked_at |-> -1]
    <3>1. row.tenant = call[c].tenant
      OBVIOUS
    <3>2. \/ sessions' = sessions
          \/ sessions' = Put(sessions, call[c].sub, row) /\ IdentityRow(call[c].sub, call[c].tenant)
      BY <2>4 DEF LoginSession
    <3> HIDE DEF row
    <3> QED BY <2>2, <3>1, <3>2 DEF Put
  <2>5. ASSUME NEW s \in Subs, Logout(s) PROVE ClosedIsEmpty'
    <3>1. \A x \in DOMAIN sessions : sessions[x] \in Session
      BY TypeParts DEF AccTypeOK
    <3>2. \A x \in DOMAIN sessions' : x \in DOMAIN sessions /\ sessions'[x].tenant = sessions[x].tenant
      BY <2>5, <3>1 DEF Logout, Session
    <3> QED BY <2>2, <3>2
  <2>6. CASE PurgeTokens
    <3>1. \A x \in DOMAIN sessions' : x \in DOMAIN sessions /\ sessions'[x] = sessions[x]
      BY <2>6 DEF PurgeTokens, Without
    <3> QED BY <2>2, <3>1
  <2>7. ASSUME NEW c \in Clients, UnlinkDelete(c) PROVE ClosedIsEmpty'
    <3>1. sessions' = sessions \/ sessions' = Cascade(identities')
      BY <2>7 DEF UnlinkDelete, UnlinkFails
    <3>2. \A x \in DOMAIN sessions' : x \in DOMAIN sessions /\ sessions'[x] = sessions[x]
      BY <3>1, CascadeRows
    <3> QED BY <2>2, <3>2
  <2> QED BY <2>1, <2>3, <2>4, <2>5, <2>6, <2>7, EmptyFinalize
<1> QED BY <1>1, WhoWrites, EmptyFinish, EmptyFinalize, EmptyProvision

\* When nothing comes between the check of a link's state and its insertion, no
\* sign-in, link, promotion or reconciler leaves an identity or a session with an
\* account that finalize_closure closed, also when the sign-in was under way.
THEOREM ClosedAccountIsEmpty ==
    ASSUME "link" \in Solo
    PROVE  Spec => []ClosedIsEmpty
<1>1. Init => ClosedIsEmpty
  BY DEF Init, ProvInit, ClosedIsEmpty
<1>2. TypeOK /\ Named /\ SoloInv /\ ClosedIsEmpty /\ [Next]_vars
      => TypeOK' /\ Named' /\ SoloInv' /\ ClosedIsEmpty'
  BY TypeStep, SoloStep, EmptyStep
<1> QED BY <1>1, <1>2, InitType, InitSolo, PTL DEF Spec

----------------------------------------------------------------------------
(* One primary identity.                                                     *)

\* s is the primary identity of tenant t, and the only one.
Primary(t, s) ==
    /\ s \in DOMAIN identities /\ identities[s].tenant = t /\ identities[s].is_primary
    /\ \A x \in DOMAIN identities : identities[x].tenant = t /\ identities[x].is_primary => x = s

HasPrimary(t) == \E s \in Subs : Primary(t, s)

\* A deleted tenant has lost its e-mail; the others are told apart by theirs.
MailInv ==
    /\ \A t \in DOMAIN tenants : tenants[t].status # "deleted" => tenants[t].email \in Emails
    /\ \A t \in DOMAIN tenants : tenants[t].status = "deleted" => tenants[t].email = None
    /\ \A t, u \in DOMAIN tenants :
          t # u /\ tenants[t].status # "deleted" => tenants[u].email # tenants[t].email

PrimaryInv == \A t \in DOMAIN tenants : tenants[t].status # "deleted" => HasPrimary(t)

LEMMA OnePrimaryFromInv == TypeOK /\ MailInv /\ PrimaryInv => OnePrimary
<1> SUFFICES ASSUME TypeOK, MailInv, PrimaryInv, NEW t \in DOMAIN tenants, tenants[t].status # "deleted"
             PROVE  /\ Cardinality({s \in IdentitiesOf(t) : identities[s].is_primary}) = 1
                    /\ \A u \in DOMAIN tenants \ {t} : tenants[u].email # tenants[t].email
  BY DEF OnePrimary
<1>1. PICK s \in Subs : Primary(t, s)
  BY DEF PrimaryInv, HasPrimary
<1>2. {x \in IdentitiesOf(t) : identities[x].is_primary} = {s}
  BY <1>1 DEF Primary, IdentitiesOf
<1>3. Cardinality({s}) = 1
  BY FS_Singleton
<1> QED BY <1>2, <1>3 DEF MailInv

LEMMA MailStep ==
    ASSUME TypeOK, Named, SoloInv, MailInv, {"close", "cancel"} \subseteq Solo, [Next]_vars
    PROVE  MailInv'
<1>0. ProvTypeOK
  BY TypeParts
<1>1. ASSUME NEW t \in DOMAIN tenants
      PROVE  /\ t \in DOMAIN tenants'
             /\ \/ tenants'[t].email = tenants[t].email
                   /\ (tenants'[t].status = "deleted") = (tenants[t].status = "deleted")
                \/ tenants'[t].email = None /\ tenants'[t].status = "deleted"
  BY TenantStep DEF Anonymised, MayCancel
<1>2. CASE DOMAIN tenants' = DOMAIN tenants
  BY <1>1, <1>2, ProvisioningAssumption DEF MailInv
<1>3. ASSUME NEW s \in Subs, NEW t \in TenantIds, NewAccount(s, t) PROVE MailInv'
  <2>1. /\ DOMAIN tenants' = DOMAIN tenants \cup {t} /\ t \notin DOMAIN tenants
        /\ tenants'[t].email = EmailOf[s] /\ tenants'[t].status = "active"
        /\ \A u \in DOMAIN tenants : tenants'[u] = tenants[u] /\ tenants[u].email # EmailOf[s]
    BY <1>3 DEF NewAccount, Put, NewTenant, Unused
  <2>2. EmailOf[s] \in Emails /\ EmailOf[s] # None
    BY ProvisioningAssumption
  <2> QED BY <2>1, <2>2 DEF MailInv
<1>4. ASSUME NEW c \in Clients, Finish(c) PROVE DOMAIN tenants' = DOMAIN tenants
  BY <1>4 DEF Finish, LoginInvites, LoginSession, CompleteLinkInsert, UnlinkDelete, PromoteUpdate,
     RequestClosureUpdate, CancelClosureUpdate, provVars
<1>5. ASSUME NEW k \in Closers, NEW t \in TenantIds, FinalizeClosure(k, t)
      PROVE  DOMAIN tenants' = DOMAIN tenants
  BY <1>5 DEF FinalizeClosure
<1> QED BY <1>2, <1>3, <1>4, <1>5, WhoWrites

\* The primary stays when the rows of its tenant stay.
LEMMA PrimaryKept ==
    ASSUME NEW t, HasPrimary(t),
           \A x \in DOMAIN identities :
              identities[x].tenant = t /\ identities[x].is_primary
              => x \in DOMAIN identities' /\ identities'[x].tenant = t /\ identities'[x].is_primary,
           \A x \in DOMAIN identities' :
              identities'[x].tenant = t /\ identities'[x].is_primary
              => x \in DOMAIN identities /\ identities[x].tenant = t /\ identities[x].is_primary
    PROVE  HasPrimary(t)'
<1>1. PICK s \in Subs : Primary(t, s)
  BY DEF HasPrimary
<1>2. Primary(t, s)'
  BY <1>1 DEF Primary
<1> QED BY <1>2 DEF HasPrimary

LEMMA PrimaryFinish ==
    ASSUME TypeOK, Named, {"unlink", "promote"} \subseteq Solo, NEW c \in Clients,
           call[c].op \in Solo => Fresh(c), Finish(c), call[c].op \notin {"login", "admit"},
           NEW t \in DOMAIN tenants, HasPrimary(t)
    PROVE  HasPrimary(t)'
<1>0. ProvTypeOK /\ \A x \in DOMAIN identities : identities[x] \in Identity /\ x \in Subs
  BY TypeParts DEF ProvTypeOK
<1>1. CASE UNCHANGED identities
  BY <1>1, PrimaryKept
<1>2. CASE CompleteLinkInsert(c) /\ call[c].sub \notin DOMAIN identities
  <2> DEFINE row == [tenant |-> call[c].tenant, is_primary |-> FALSE, team |-> None]
  <2>1. identities' = Put(identities, call[c].sub, row) /\ ~row.is_primary
    BY <1>2 DEF CompleteLinkInsert
  <2> HIDE DEF row
  <2>2. /\ DOMAIN identities' = DOMAIN identities \cup {call[c].sub}
        /\ ~identities'[call[c].sub].is_primary
        /\ \A x \in DOMAIN identities : identities'[x] = identities[x]
    BY <1>2, <2>1 DEF Put
  <2> QED BY <2>2, PrimaryKept
<1>3. CASE UnlinkDelete(c)
  <2>1. ~identities[call[c].sub].is_primary
    BY <1>3 DEF UnlinkDelete, Fresh
  <2>2. identities' = identities \/ identities' = Without(identities, {call[c].sub})
    BY <1>3 DEF UnlinkDelete, UnlinkFails
  <2>3. CASE identities' = Without(identities, {call[c].sub})
    <3>1. /\ DOMAIN identities' = DOMAIN identities \ {call[c].sub}
          /\ \A x \in DOMAIN identities' : identities'[x] = identities[x]
      BY <2>3 DEF Without
    <3> QED BY <2>1, <3>1, PrimaryKept
  <2> QED BY <1>1, <2>2, <2>3
<1>4. CASE PromoteUpdate(c)
  <2>0. PICK s \in DOMAIN identities : s = call[c].sub /\ identities[s].tenant = call[c].tenant
    BY <1>4 DEF PromoteUpdate, Fresh
  <2> DEFINE up(x) == [identities[x] EXCEPT !.is_primary = (x = s)]
  <2>1. s \in DOMAIN identities /\ identities[s].tenant = call[c].tenant
    BY <2>0
  <2>2. \A x \in DOMAIN identities : up(x).tenant = identities[x].tenant
    BY <1>0 DEF Identity
  <2>3. \A x \in DOMAIN identities : up(x).is_primary <=> x = s
    BY <1>0, Zenon DEF Identity
  <2>4. /\ DOMAIN identities' = DOMAIN identities
        /\ \A x \in DOMAIN identities :
              identities'[x] = IF identities[x].tenant = call[c].tenant THEN up(x) ELSE identities[x]
    BY <1>4, <2>0 DEF PromoteUpdate
  <2> HIDE DEF up
  <2>5. CASE t = call[c].tenant
    <3>1. Primary(t, s)'
      <4>1. s \in DOMAIN identities' /\ identities'[s].tenant = t /\ identities'[s].is_primary
        BY <2>1, <2>2, <2>3, <2>4, <2>5
      <4>2. ASSUME NEW x \in DOMAIN identities', identities'[x].tenant = t, identities'[x].is_primary PROVE x = s
        <5>1. identities[x].tenant = t
          BY <2>2, <2>4, <4>2
        <5> QED BY <2>3, <2>4, <2>5, <4>2, <5>1
      <4> QED BY <4>1, <4>2 DEF Primary
    <3> QED BY <1>0, <2>1, <3>1 DEF HasPrimary
  <2>6. CASE t # call[c].tenant
    <3>1. \A x \in DOMAIN identities : identities'[x].tenant = identities[x].tenant
      BY <2>2, <2>4
    <3>2. \A x \in DOMAIN identities : identities[x].tenant = t => identities'[x] = identities[x]
      BY <2>4, <2>6
    <3> QED BY <2>4, <3>1, <3>2, PrimaryKept
  <2> QED BY <2>5, <2>6
<1>5. RequestClosureUpdate(c) \/ CancelClosureUpdate(c) => UNCHANGED identities
  BY DEF RequestClosureUpdate, CancelClosureUpdate
<1>6. CompleteLinkInsert(c) => UNCHANGED identities \/ call[c].sub \notin DOMAIN identities
  BY DEF CompleteLinkInsert
<1> QED BY <1>1, <1>2, <1>3, <1>4, <1>5, <1>6 DEF Finish, LoginInvites, LoginSession

LEMMA PrimaryStep ==
    ASSUME TypeOK, Named, SoloInv, PrimaryInv, {"close", "cancel", "unlink", "promote"} \subseteq Solo,
           [Next]_vars
    PROVE  PrimaryInv'
<1>1. ASSUME NEW t \in DOMAIN tenants, tenants'[t].status # "deleted" PROVE tenants[t].status # "deleted"
  BY <1>1, TenantStep DEF Anonymised, MayCancel
<1>2. ASSUME DOMAIN tenants' = DOMAIN tenants,
             \A t \in DOMAIN tenants : HasPrimary(t) /\ tenants'[t].status # "deleted" => HasPrimary(t)'
      PROVE  PrimaryInv'
  BY <1>1, <1>2 DEF PrimaryInv
<1>3. CASE UNCHANGED <<tenants, identities>>
  BY <1>2, <1>3, PrimaryKept
<1>4. ASSUME NEW c \in Clients, call[c].op \in Solo => Fresh(c), Finish(c), call[c].op \notin {"login", "admit"}
      PROVE  PrimaryInv'
  <2>1. DOMAIN tenants' = DOMAIN tenants
    BY <1>4 DEF Finish, LoginInvites, LoginSession, CompleteLinkInsert, UnlinkDelete, PromoteUpdate,
       RequestClosureUpdate, CancelClosureUpdate, provVars
  <2> QED BY <1>2, <1>4, <2>1, PrimaryFinish
<1>5. ASSUME NEW k \in Closers, NEW u \in TenantIds, FinalizeClosure(k, u) PROVE PrimaryInv'
  <2>1. CASE UNCHANGED <<tenants, identities>>
    BY <1>3, <2>1
  <2>2. CASE /\ tenants' = [tenants EXCEPT ![u] = Anonymised]
             /\ identities' = Without(identities, IdentitiesOf(u))
    <3>1. /\ DOMAIN identities' = {x \in DOMAIN identities : identities[x].tenant # u}
          /\ \A x \in DOMAIN identities' : identities'[x] = identities[x]
      BY <2>2 DEF Without, IdentitiesOf
    <3>2. ASSUME NEW t \in DOMAIN tenants, HasPrimary(t), tenants'[t].status # "deleted" PROVE HasPrimary(t)'
      <4>1. t # u
        BY <2>2, <3>2 DEF Anonymised
      <4> QED BY <3>1, <3>2, <4>1, PrimaryKept
    <3> QED BY <1>2, <2>2, <3>2
  <2> QED BY <1>5, <2>1, <2>2 DEF FinalizeClosure
<1>6. ASSUME NEW s \in Subs, NEW u \in TenantIds, NewAccount(s, u) PROVE PrimaryInv'
  <2>1. /\ DOMAIN tenants' = DOMAIN tenants \cup {u} /\ u \notin DOMAIN tenants
        /\ \A t \in DOMAIN tenants : tenants'[t] = tenants[t]
    BY <1>6 DEF NewAccount, Put
  <2>2. \A x \in DOMAIN identities : identities[x].tenant # u
    BY <2>1 DEF Named
  <2>3. /\ DOMAIN identities' = DOMAIN identities \cup {s} /\ s \notin DOMAIN identities
        /\ identities'[s].tenant = u /\ identities'[s].is_primary
        /\ \A x \in DOMAIN identities : identities'[x] = identities[x]
    BY <1>6 DEF NewAccount, Unused
  <2>4. Primary(u, s)'
    BY <2>2, <2>3 DEF Primary
  <2>5. ASSUME NEW t \in DOMAIN tenants, HasPrimary(t) PROVE HasPrimary(t)'
    BY <2>1, <2>3, <2>5, PrimaryKept
  <2> QED BY <2>1, <2>4, <2>5 DEF PrimaryInv, HasPrimary
<1> QED BY <1>3, <1>4, <1>5, <1>6, WhoWrites

\* When nothing comes between the reads and the writes of closing, cancelling,
\* unlinking and promoting, every live tenant has exactly one primary identity
\* and an e-mail no other tenant has (identities.py, lifecycle.py and the
\* reconciler side by side).
THEOREM OnePrimaryAlways ==
    ASSUME {"close", "cancel", "unlink", "promote"} \subseteq Solo
    PROVE  Spec => []OnePrimary
<1>1. Init => MailInv /\ PrimaryInv
  BY DEF Init, ProvInit, MailInv, PrimaryInv
<1>2. TypeOK /\ Named /\ SoloInv /\ MailInv /\ PrimaryInv /\ [Next]_vars
      => TypeOK' /\ Named' /\ SoloInv' /\ MailInv' /\ PrimaryInv'
  BY TypeStep, SoloStep, MailStep, PrimaryStep
<1> QED BY <1>1, <1>2, InitType, InitSolo, OnePrimaryFromInv, PTL DEF Spec
=============================================================================
