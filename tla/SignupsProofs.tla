--------------------------- MODULE SignupsProofs ---------------------------
(* Proofs about Signups, and Provisioning within it, for every value of the *)
(* constants: type correctness, reminders only of those who still wait and   *)
(* once per submission, and accounts that are provisioned once and whole.   *)
EXTENDS Signups, FiniteSetTheorems, TLAPS

----------------------------------------------------------------------------
(* Types.                                                                    *)

\* A submission under way is about an e-mail.
FormNamed == \A c \in Form : form[c].pc = "read" => form[c].email \in Emails

\* The types of the queue's own variables.
QueueTypeOK ==
    /\ request \in [Emails -> Request]
    /\ rate \in [Emails -> [start : Nat, count : Nat]]
    /\ form \in [Form -> [pc : {"idle", "read"}, email : Emails \cup {None}]]
    /\ sweep \in [pc : {"idle", "expired", "listed"}, todo : SUBSET Emails]
    /\ captures \subseteq Emails
    /\ clock \in 0..MaxClock
    /\ faults \in 0..MaxFaults /\ submitted \in [Emails -> Nat]

LEMMA TypeParts == TypeOK <=> ProvTypeOK /\ QueueTypeOK
BY DEF TypeOK, QueueTypeOK

\* Tenants are numbered without gaps, so the id of a new one is unused.
Numbered == \E n \in Nat : DOMAIN tenants = 1..n

LEMMA NewTenantId ==
    ASSUME Numbered
    PROVE  \E n \in Nat : /\ DOMAIN tenants = 1..n
                          /\ Cardinality(DOMAIN tenants) = n
                          /\ (n + 1) \notin DOMAIN tenants
                          /\ DOMAIN tenants \cup {n + 1} = 1..(n + 1)
<1>1. PICK n \in Nat : DOMAIN tenants = 1..n
  BY DEF Numbered
<1>2. Cardinality(1..n) = n
  BY FS_Interval
<1>3. 1..n \cup {n + 1} = 1..(n + 1)
  OBVIOUS
<1> QED BY <1>1, <1>2, <1>3

LEMMA InitType == Init => TypeOK /\ FormNamed /\ Numbered
<1> SUFFICES ASSUME Init PROVE TypeOK /\ FormNamed /\ Numbered
  OBVIOUS
<1> USE ProvisioningAssumption, SignupsAssumption
<1>1. ProvTypeOK
  BY DEF Init, ProvInit, ProvTypeOK, Job, IdleJob
<1>2. NoRow \in Request
  BY DEF NoRow, Request, Statuses
<1>3. 0 \in 0..MaxClock /\ 0 \in 0..MaxFaults
  BY DEF MaxClock
<1>4. QueueTypeOK
  BY <1>2, <1>3 DEF Init, QueueTypeOK, IdleForm, IdleSweep, None
<1>5. FormNamed
  BY DEF Init, FormNamed, IdleForm
<1>6. Numbered
  <2>1. DOMAIN tenants = {} /\ 1..0 = {}
    BY DEF Init, ProvInit
  <2> QED BY <2>1 DEF Numbered
<1> QED BY <1>1, <1>4, <1>5, <1>6, TypeParts

\* What one provisioning does, whoever runs it: nothing, or a new tenant with its
\* identity and its personal team.
Provisioned(s, t) ==
    /\ Unused(s) /\ t \notin DOMAIN tenants
    /\ tenants' = Put(tenants, t, NewTenant(EmailOf[s]))
    /\ EnsurePersonalTeam(t, Put(identities, s, [tenant |-> t, is_primary |-> TRUE, team |-> None]))
    /\ AcceptInvite(s, t, EmailOf[s])

LEMMA ProvisionOneCases ==
    ASSUME Numbered, NEW r \in Reconcilers, NEW s \in Subs, ProvisionOne(r, s)
    PROVE  \/ UNCHANGED <<tenants, identities, personal, members, invites>>
           \/ \E t \in TenantIds : /\ Provisioned(s, t) /\ \E n \in Nat : DOMAIN tenants' = 1..n
<1>1. PICK n \in Nat : /\ DOMAIN tenants = 1..n
                       /\ Cardinality(DOMAIN tenants) = n
                       /\ (n + 1) \notin DOMAIN tenants
                       /\ DOMAIN tenants \cup {n + 1} = 1..(n + 1)
  BY NewTenantId
<1>2. n + 1 \in TenantIds
  BY <1>1, ProvisioningAssumption DEF ProvisionOne, TenantIds
<1>3. CASE Unused(s)
  <2>1. Provisioned(s, n + 1)
    BY <1>1, <1>3 DEF ProvisionOne, Provisioned
  <2>2. DOMAIN tenants' = 1..(n + 1)
    BY <1>1, <2>1 DEF Provisioned, Put
  <2> QED BY <1>1, <1>2, <2>1, <2>2
<1> QED BY <1>3 DEF ProvisionOne

\* Every step of Provisioning keeps its tables well-formed.
LEMMA ProvisionedType ==
    ASSUME ProvTypeOK, NEW s \in Subs, NEW t \in TenantIds, Provisioned(s, t)
    PROVE  /\ DOMAIN tenants' \subseteq TenantIds
           /\ \A u \in DOMAIN tenants' : tenants'[u] \in Tenant
           /\ DOMAIN identities' \subseteq Subs
           /\ \A x \in DOMAIN identities' : identities'[x] \in Identity
           /\ personal' \subseteq TenantIds /\ members' \subseteq TenantIds
           /\ invites' \in [Emails -> {"none", "pending", "accepted"}]
<1> USE ProvisioningAssumption
<1> DEFINE row == [tenant |-> t, is_primary |-> TRUE, team |-> None]
           ids == Put(identities, s, row)
<1>1. EmailOf[s] \in Emails
  OBVIOUS
<1>2. NewTenant(EmailOf[s]) \in Tenant
  BY <1>1 DEF NewTenant, Tenant
<1>3. DOMAIN tenants' \subseteq TenantIds /\ \A u \in DOMAIN tenants' : tenants'[u] \in Tenant
  BY <1>2 DEF Provisioned, Put, ProvTypeOK
<1>4. row \in Identity
  BY DEF Identity
<1>5. DOMAIN ids \subseteq Subs /\ \A x \in DOMAIN ids : ids[x] \in Identity
  BY <1>4 DEF Put, ProvTypeOK
<1>6. ASSUME NEW x \in DOMAIN ids PROVE [ids[x] EXCEPT !.team = t] \in Identity
  BY <1>5, Zenon DEF Identity
<1> HIDE DEF ids
<1>7. /\ DOMAIN Default(ids, t) = DOMAIN ids
      /\ \A x \in DOMAIN ids : Default(ids, t)[x] \in Identity
  BY <1>5, <1>6 DEF Default
<1>8. /\ identities' = ids \/ identities' = Default(ids, t)
      /\ personal' \subseteq TenantIds
  BY DEF Provisioned, EnsurePersonalTeam, ProvTypeOK, ids
<1>9. members' \subseteq TenantIds /\ invites' \in [Emails -> {"none", "pending", "accepted"}]
  BY <1>1 DEF Provisioned, AcceptInvite, ProvTypeOK
<1> QED BY <1>3, <1>5, <1>7, <1>8, <1>9

LEMMA JobType ==
    ASSUME ProvTypeOK, NEW r \in Reconcilers
    PROVE  /\ Classify(r) => job' \in [Reconcilers -> Job]
           /\ ListUsers(r) => job' \in [Reconcilers -> Job]
           /\ ReconcilerCrash(r) => job' \in [Reconcilers -> Job]
           /\ \A s \in Subs : ProvisionOne(r, s) => job' \in [Reconcilers -> Job]
<1>1. IdleJob \in Job /\ job \in [Reconcilers -> Job] /\ job[r] \in Job
  BY DEF IdleJob, Job, ProvTypeOK
<1>2. job[r].seen \subseteq Subs /\ job[r].todo \subseteq Subs
  BY <1>1 DEF Job
<1>3. Classify(r) => job' \in [Reconcilers -> Job]
  BY <1>1, <1>2 DEF Classify, ToProvision, Job
<1>4. ListUsers(r) => job' \in [Reconcilers -> Job]
  BY <1>1 DEF ListUsers, Job
<1>5. ASSUME NEW s \in Subs PROVE ProvisionOne(r, s) => job' \in [Reconcilers -> Job]
  <2>1. [job[r] EXCEPT !.todo = job[r].todo \ {s}] \in Job
    BY <1>1, <1>2 DEF Job
  <2>2. Done(r, s) \in [Reconcilers -> Job]
    BY <1>1, <2>1 DEF Done
  <2> QED BY <2>2 DEF ProvisionOne
<1> QED BY <1>1, <1>3, <1>4, <1>5 DEF ReconcilerCrash

\* Every step of Provisioning keeps its tables well-formed and numbers tenants on.
LEMMA ProvStep ==
    ASSUME ProvTypeOK, Numbered,
           \/ \E e \in Emails : InviteAdd(e) \/ InviteRevoke(e)
           \/ \E s \in Subs : Enrol(s)
           \/ \E r \in Reconcilers : Reconcile(r) \/ ReconcilerCrash(r)
    PROVE  ProvTypeOK' /\ Numbered'
<1>1. ASSUME NEW e \in Emails, InviteAdd(e) \/ InviteRevoke(e) PROVE ProvTypeOK' /\ Numbered'
  BY <1>1 DEF InviteAdd, InviteRevoke, ProvTypeOK, Numbered
<1>2. ASSUME NEW s \in Subs, Enrol(s) PROVE ProvTypeOK' /\ Numbered'
  BY <1>2 DEF Enrol, SignUp, Confirm, ProvTypeOK, Numbered
<1>3. ASSUME NEW r \in Reconcilers, ListUsers(r) \/ Classify(r) \/ ReconcilerCrash(r)
      PROVE  ProvTypeOK' /\ Numbered'
  <2>1. job' \in [Reconcilers -> Job]
    BY <1>3, JobType
  <2> QED BY <1>3, <2>1 DEF ListUsers, Classify, ReconcilerCrash, ProvTypeOK, Numbered
<1>4. ASSUME NEW r \in Reconcilers, NEW s \in Subs, ProvisionOne(r, s) PROVE ProvTypeOK' /\ Numbered'
  <2>1. job' \in [Reconcilers -> Job]
    BY <1>4, JobType
  <2>2. UNCHANGED <<cognito, invited>>
    BY <1>4 DEF ProvisionOne
  <2>3. CASE UNCHANGED <<tenants, identities, personal, members, invites>>
    BY <2>1, <2>2, <2>3 DEF ProvTypeOK, Numbered
  <2>4. ASSUME NEW t \in TenantIds, Provisioned(s, t), \E n \in Nat : DOMAIN tenants' = 1..n
        PROVE  ProvTypeOK' /\ Numbered'
    <3>1. Numbered'
      BY <2>4 DEF Numbered
    <3> QED BY <2>1, <2>2, <2>4, <3>1, ProvisionedType DEF ProvTypeOK
  <2> QED BY <1>4, <2>3, <2>4, ProvisionOneCases
<1> QED BY <1>1, <1>2, <1>3, <1>4 DEF Reconcile

\* The fields an action may set in a row of signup_requests.
LEMMA RequestFields ==
    ASSUME NEW row \in Request
    PROVE  /\ \A st \in Statuses : [row EXCEPT !.status = st] \in Request
           /\ row.expires \in Nat /\ row.submitted_at \in Nat /\ row.reminder_count \in Nat
           /\ row.last_reminder_at \in Nat \cup {-1}
BY DEF Request

LEMMA ClockNat == QueueTypeOK => clock \in Nat
BY DEF QueueTypeOK

\* The row a submission leaves behind, and the row a reminder leaves behind.
UpsertRow(e, link) ==
    [request[e] EXCEPT !.status = Reopened(@), !.link = link, !.expires = clock + Ttl,
                       !.submitted_at = IF request[e].status = "none" THEN clock ELSE @]

RemindedRow(e, link) ==
    [request[e] EXCEPT !.link = link, !.expires = clock + Ttl,
                       !.reminder_count = @ + 1, !.last_reminder_at = clock]

LEMMA SubmitUpsertRow ==
    ASSUME QueueTypeOK, NEW e \in Emails, NEW link \in {"held", "lost"}
    PROVE  LET row == UpsertRow(e, link)
           IN  /\ row \in Request /\ row.status = Reopened(request[e].status)
               /\ row.expires = clock + Ttl /\ row.reminder_count = request[e].reminder_count
               /\ row.last_reminder_at = request[e].last_reminder_at
<1>1. request[e] \in Request /\ clock \in Nat /\ clock + Ttl \in Nat
  BY SignupsAssumption DEF QueueTypeOK
<1>2. Reopened(request[e].status) \in Statuses
  BY <1>1 DEF Request, Reopened, Statuses
<1> QED BY <1>1, <1>2 DEF Request, UpsertRow

LEMMA RemindRow ==
    ASSUME QueueTypeOK, NEW e \in Emails, NEW link \in {"held", "lost"}
    PROVE  LET row == RemindedRow(e, link)
           IN  /\ row \in Request /\ row.status = request[e].status
               /\ row.expires = clock + Ttl /\ row.reminder_count = request[e].reminder_count + 1
               /\ row.last_reminder_at = clock
<1>1. request[e] \in Request /\ clock \in Nat /\ clock + Ttl \in Nat
  BY SignupsAssumption DEF QueueTypeOK
<1>2. request[e].reminder_count + 1 \in Nat
  BY <1>1 DEF Request
<1>3. RemindedRow(e, link) \in Request
  <2> DEFINE n == request[e].reminder_count + 1
             d == clock + Ttl
  <2>1. n \in Nat /\ d \in Nat
    BY <1>1, <1>2
  <2>2. RemindedRow(e, link) = [request[e] EXCEPT !.link = link, !.expires = d,
                                                  !.reminder_count = n, !.last_reminder_at = clock]
    BY DEF RemindedRow
  <2> HIDE DEF n, d
  <2> QED BY <1>1, <2>1, <2>2, Zenon DEF Request
<1> QED BY <1>1, <1>3 DEF Request, RemindedRow

\* The two steps that write them.
LEMMA UpsertWrites ==
    ASSUME NEW c \in Form, SubmitUpsert(c)
    PROVE  \E link \in {"held", "lost"} :
              Send(link) /\ request' = [request EXCEPT ![form[c].email] = UpsertRow(form[c].email, link)]
BY Zenon DEF SubmitUpsert, UpsertRow

LEMMA RemindWrites ==
    ASSUME NEW e \in Emails, Remind(e)
    PROVE  \/ UNCHANGED <<request, faults>>
           \/ \E link \in {"held", "lost"} :
                 Send(link) /\ request' = [request EXCEPT ![e] = RemindedRow(e, link)]
BY Zenon DEF Remind, RemindedRow

LEMMA RecordedRow ==
    ASSUME NEW row \in Request, clock \in Nat
    PROVE  /\ Recorded(row) \in Request
           /\ Recorded(row).status \in {row.status, "pending"}
           /\ row.status \in {"approved", "rejected"} => Recorded(row) = row
           /\ Recorded(row).expires = row.expires
           /\ Recorded(row).reminder_count = row.reminder_count
           /\ Recorded(row).last_reminder_at = row.last_reminder_at
BY DEF Recorded, Request, Statuses

\* Every step keeps the types of the queue.
LEMMA QueueStep ==
    ASSUME QueueTypeOK, FormNamed, ProvTypeOK, Next
    PROVE  QueueTypeOK' /\ FormNamed'
<1> USE ProvisioningAssumption, SignupsAssumption
<1>0. clock \in Nat
  BY ClockNat
<1>1. ASSUME UNCHANGED queueVars PROVE QueueTypeOK' /\ FormNamed'
  BY <1>1 DEF queueVars, QueueTypeOK, FormNamed
<1>2. ASSUME NEW link, Send(link) PROVE faults' \in 0..MaxFaults
  BY <1>2 DEF Send, QueueTypeOK
<1>3. ASSUME NEW c \in Form, NEW e \in Emails, SubmitRead(c, e) PROVE QueueTypeOK' /\ FormNamed'
  <2>1. Hit(e) \in [start : Nat, count : Nat]
    <3>1. rate[e] \in [start : Nat, count : Nat]
      BY DEF QueueTypeOK
    <3> QED BY <1>0, <3>1 DEF Hit
  <2>2. rate' \in [Emails -> [start : Nat, count : Nat]]
    BY <1>3, <2>1 DEF SubmitRead, QueueTypeOK
  <2>3. form' \in [Form -> [pc : {"idle", "read"}, email : Emails \cup {None}]]
    BY <1>3 DEF SubmitRead, QueueTypeOK, IdleForm
  <2>4. FormNamed'
    BY <1>3 DEF SubmitRead, QueueTypeOK, IdleForm, FormNamed
  <2> QED BY <1>3, <2>2, <2>3, <2>4 DEF SubmitRead, QueueTypeOK
<1>4. ASSUME NEW c \in Form, SubmitUpsert(c) PROVE QueueTypeOK' /\ FormNamed'
  <2>1. form[c].email \in Emails
    BY <1>4 DEF SubmitUpsert, FormNamed
  <2>2. request' \in [Emails -> Request] /\ faults' \in 0..MaxFaults
    <3>1. PICK link \in {"held", "lost"} :
             Send(link) /\ request' = [request EXCEPT ![form[c].email] = UpsertRow(form[c].email, link)]
      BY <1>4, UpsertWrites
    <3>2. UpsertRow(form[c].email, link) \in Request
      BY <2>1, SubmitUpsertRow
    <3>3. faults' \in 0..MaxFaults
      BY <1>2, <3>1
    <3> QED BY <2>1, <3>1, <3>2, <3>3 DEF QueueTypeOK
  <2>3. submitted' \in [Emails -> Nat]
    BY <1>4, <2>1 DEF SubmitUpsert, QueueTypeOK
  <2>4. form' \in [Form -> [pc : {"idle", "read"}, email : Emails \cup {None}]] /\ FormNamed'
    BY <1>4 DEF SubmitUpsert, QueueTypeOK, IdleForm, FormNamed
  <2> QED BY <1>4, <2>2, <2>3, <2>4 DEF SubmitUpsert, QueueTypeOK
<1>5. ASSUME NEW e \in Emails, Verify(e) PROVE QueueTypeOK' /\ FormNamed'
  <2>1. [request[e] EXCEPT !.status = "pending", !.link = "null", !.expires = 0] \in Request
    <3>1. request[e] \in Request /\ 0 \in Nat
      BY DEF QueueTypeOK
    <3> QED BY <3>1, Zenon DEF Request, Statuses
  <2>2. request' \in [Emails -> Request]
    BY <1>5, <2>1 DEF Verify, QueueTypeOK
  <2> QED BY <1>5, <2>2 DEF Verify, QueueTypeOK, FormNamed
<1>6. ASSUME NEW e \in Emails, Approve(e) \/ Reject(e) PROVE QueueTypeOK' /\ FormNamed'
  BY <1>1, <1>6 DEF Approve, Reject, GetReviewerEmailRaises, vars
<1>8. ASSUME NEW e \in Emails, RecordDenied(e) PROVE QueueTypeOK' /\ FormNamed'
  <2>1. request[e] \in Request
    BY DEF QueueTypeOK
  <2>2. request' \in [Emails -> Request] /\ faults' \in 0..MaxFaults
    BY <1>0, <1>8, <2>1, RecordedRow DEF RecordDenied, QueueTypeOK
  <2> QED BY <1>8, <2>2 DEF RecordDenied, QueueTypeOK, FormNamed
<1>9. CASE ExpireStale
  <2>1. \A e \in Emails : [request[e] EXCEPT !.status = "expired"] \in Request
    BY RequestFields DEF QueueTypeOK, Statuses
  <2>2. request' \in [Emails -> Request]
    BY <1>9, <2>1 DEF ExpireStale, QueueTypeOK
  <2> QED BY <1>9, <2>2 DEF ExpireStale, QueueTypeOK, FormNamed
<1>10. CASE ListStuck
  BY <1>10 DEF ListStuck, IdleSweep, QueueTypeOK, FormNamed
<1>11. ASSUME NEW e \in Emails, Remind(e) PROVE QueueTypeOK' /\ FormNamed'
  <2>1. request' \in [Emails -> Request] /\ faults' \in 0..MaxFaults
    BY <1>2, <1>11, RemindRow, RemindWrites DEF QueueTypeOK
  <2>2. Swept(e) \in [pc : {"idle", "expired", "listed"}, todo : SUBSET Emails]
    BY DEF Swept, IdleSweep, QueueTypeOK
  <2> QED BY <1>11, <2>1, <2>2 DEF Remind, QueueTypeOK, FormNamed
<1>12. CASE Tick
  <2>1. clock' \in 0..MaxClock
    BY <1>12 DEF Tick, QueueTypeOK, MaxClock
  <2> QED BY <1>12, <2>1 DEF Tick, QueueTypeOK, FormNamed
<1>13. ASSUME NEW s \in Subs, Denied(s) PROVE QueueTypeOK' /\ FormNamed'
  BY <1>13 DEF Denied, QueueTypeOK, FormNamed
<1>14. ASSUME NEW r \in Reconcilers, Crash(r) PROVE QueueTypeOK' /\ FormNamed'
  BY <1>14 DEF Crash, QueueTypeOK, FormNamed
<1> QED
  BY <1>1, <1>3, <1>4, <1>5, <1>6, <1>8, <1>9, <1>10, <1>11, <1>12, <1>13, <1>14 DEF Next, Sweep

LEMMA TypeStep ==
    TypeOK /\ FormNamed /\ Numbered /\ [Next]_vars => (TypeOK /\ FormNamed /\ Numbered)'
<1> SUFFICES ASSUME TypeOK, FormNamed, Numbered, [Next]_vars
             PROVE  TypeOK' /\ FormNamed' /\ Numbered'
  OBVIOUS
<1>0. ProvTypeOK /\ QueueTypeOK
  BY TypeParts
<1>1. CASE UNCHANGED vars
  BY <1>1 DEF vars, provVars, queueVars, TypeOK, ProvTypeOK, FormNamed, Numbered
<1>2. CASE Next
  <2>1. QueueTypeOK' /\ FormNamed'
    BY <1>0, <1>2, QueueStep
  <2>2. ASSUME UNCHANGED provVars PROVE ProvTypeOK' /\ Numbered'
    BY <1>0, <2>2 DEF provVars, ProvTypeOK, Numbered
  <2>4. ProvTypeOK' /\ Numbered'
    BY <1>0, <1>2, <2>2, ProvStep
    DEF Next, SubmitRead, SubmitUpsert, Verify, Approve, Reject, GetReviewerEmailRaises, vars, RecordDenied, Sweep, ExpireStale,
        ListStuck, Remind, Tick, Denied, Crash
  <2>5. TypeOK'
    BY <2>1, <2>4 DEF TypeOK, QueueTypeOK
  <2> QED BY <2>1, <2>4, <2>5
<1> QED BY <1>1, <1>2

LEMMA TypeInvariant == Spec => [](TypeOK /\ FormNamed /\ Numbered)
BY InitType, TypeStep, PTL DEF Spec

\* The rows of signup_requests, tenants, identities and teams and the work in progress
\* stay well-formed under every interleaving of forms, links, reviews, jobs and crashes.
THEOREM TypeCorrect == Spec => []TypeOK
BY TypeInvariant, PTL

----------------------------------------------------------------------------
(* Reminders.                                                                *)

\* What a step does to the row of an e-mail, as far as a review and the reminders are
\* concerned: it leaves it alone, stores a submission, reminds, records a denied
\* sign-up, or sets a status or a link it may set.
RowStep(e) ==
    \/ request'[e] = request[e] /\ submitted'[e] = submitted[e]
    \/ /\ request'[e].status = Reopened(request[e].status)
       /\ request'[e].reminder_count = request[e].reminder_count
       /\ request'[e].last_reminder_at = request[e].last_reminder_at
       /\ submitted'[e] = submitted[e] + 1
    \/ /\ Remind(e) /\ request[e].status = "awaiting_verification"
       /\ request'[e].status = request[e].status
       /\ request'[e].expires = clock + Ttl /\ request'[e].last_reminder_at = clock
       /\ request'[e].reminder_count = request[e].reminder_count + 1
       /\ submitted'[e] = submitted[e]
    \/ /\ request[e].status \notin {"approved", "rejected"}
       /\ request'[e].status # "awaiting_verification"
       /\ request'[e].reminder_count = request[e].reminder_count
       /\ request'[e].last_reminder_at = request[e].last_reminder_at
       /\ request'[e].expires \in {request[e].expires, 0}
       /\ submitted'[e] = submitted[e]

LEMMA RowSteps ==
    ASSUME TypeOK, FormNamed, [Next]_vars, NEW e \in Emails
    PROVE  RowStep(e)
<1> USE DEF RowStep
<1>0. /\ QueueTypeOK /\ clock \in Nat
      /\ request \in [Emails -> Request] /\ request[e] \in Request /\ submitted \in [Emails -> Nat]
  BY TypeParts, ClockNat DEF QueueTypeOK
<1>1. CASE UNCHANGED <<request, submitted>>
  BY <1>1
<1>2. ASSUME NEW c \in Form, SubmitUpsert(c) PROVE RowStep(e)
  <2>1. form[c].email \in Emails
    BY <1>2 DEF SubmitUpsert, FormNamed
  <2>2. PICK link \in {"held", "lost"} :
           request' = [request EXCEPT ![form[c].email] = UpsertRow(form[c].email, link)]
    BY <1>2, UpsertWrites
  <2>3. CASE form[c].email = e
    <3>1. request'[e] = UpsertRow(e, link)
      BY <1>0, <2>2, <2>3
    <3>2. submitted'[e] = submitted[e] + 1
      BY <1>0, <1>2, <2>3 DEF SubmitUpsert
    <3>3. /\ UpsertRow(e, link).status = Reopened(request[e].status)
          /\ UpsertRow(e, link).reminder_count = request[e].reminder_count
          /\ UpsertRow(e, link).last_reminder_at = request[e].last_reminder_at
      BY <1>0, SubmitUpsertRow
    <3> QED BY <3>1, <3>2, <3>3
  <2>4. CASE form[c].email # e
    <3>1. request'[e] = request[e]
      BY <1>0, <2>2, <2>4
    <3>2. submitted'[e] = submitted[e]
      BY <1>0, <1>2, <2>4 DEF SubmitUpsert
    <3> QED BY <3>1, <3>2
  <2> QED BY <2>3, <2>4
<1>3. ASSUME NEW x \in Emails, Remind(x) PROVE RowStep(e)
  <2>0. UNCHANGED submitted
    BY <1>3 DEF Remind
  <2>1. CASE UNCHANGED request
    BY <2>0, <2>1
  <2>2. ASSUME NEW link \in {"held", "lost"}, request' = [request EXCEPT ![x] = RemindedRow(x, link)],
               Remindable(x)
        PROVE  RowStep(e)
    <3>1. CASE x = e
      <4>1. request'[e] = RemindedRow(e, link)
        BY <1>0, <2>2, <3>1
      <4>2. request[e].status = "awaiting_verification"
        BY <2>2, <3>1 DEF Remindable
      <4> QED BY <1>0, <1>3, <2>0, <3>1, <4>1, <4>2, RemindRow
    <3>2. CASE x # e
      BY <1>0, <2>0, <2>2, <3>2
    <3> QED BY <3>1, <3>2
  <2>3. Remindable(x) \/ UNCHANGED request
    BY <1>3 DEF Remind
  <2> QED BY <1>3, <2>1, <2>2, <2>3, RemindWrites
<1>4. ASSUME NEW x \in Emails, Verify(x) PROVE RowStep(e)
  <2>1. CASE x = e
    <3>1. request'[e].status = "pending" /\ request'[e].expires = 0
          /\ request'[e].reminder_count = request[e].reminder_count
          /\ request'[e].last_reminder_at = request[e].last_reminder_at
      BY <1>0, <1>4, <2>1 DEF Verify, Request
    <3> QED BY <1>4, <2>1, <3>1 DEF Verify
  <2>2. CASE x # e
    BY <1>0, <1>4, <2>2 DEF Verify
  <2> QED BY <2>1, <2>2
<1>5. ASSUME NEW x \in Emails, Approve(x) \/ Reject(x) PROVE RowStep(e)
  BY <1>1, <1>5 DEF Approve, Reject, GetReviewerEmailRaises, vars, queueVars
<1>6. ASSUME NEW x \in Emails, RecordDenied(x) PROVE RowStep(e)
  <2>0. /\ UNCHANGED submitted
        /\ UNCHANGED request \/ request' = [request EXCEPT ![x] = Recorded(request[x])]
    BY <1>6 DEF RecordDenied
  <2>1. CASE UNCHANGED request
    BY <2>0, <2>1
  <2>2. CASE x = e /\ request' = [request EXCEPT ![x] = Recorded(request[x])]
    <3>1. request'[e] = Recorded(request[e])
      BY <1>0, <2>2
    <3>2. CASE request[e].status \in {"approved", "rejected", "pending"}
      BY <2>0, <3>1, <3>2 DEF Recorded
    <3>3. CASE request[e].status \notin {"approved", "rejected", "pending"}
      <4>1. request'[e].status = "pending"
        BY <1>0, <3>1, <3>3 DEF Recorded, Request, Statuses
      <4> QED BY <1>0, <2>0, <3>1, <3>3, <4>1, RecordedRow
    <3> QED BY <3>2, <3>3
  <2>3. CASE x # e /\ request' = [request EXCEPT ![x] = Recorded(request[x])]
    BY <1>0, <2>0, <2>3
  <2> QED BY <2>0, <2>1, <2>2, <2>3
<1>7. CASE ExpireStale
  <2>1. request'[e] = IF request[e].status = "awaiting_verification" /\ request[e].expires < clock
                      THEN [request[e] EXCEPT !.status = "expired"] ELSE request[e]
    BY <1>7 DEF ExpireStale
  <2>2. submitted' = submitted
    BY <1>7 DEF ExpireStale
  <2>3. CASE request[e].status = "awaiting_verification" /\ request[e].expires < clock
    BY <1>0, <2>1, <2>2, <2>3 DEF Request
  <2> QED BY <2>1, <2>2, <2>3
<1> QED
  BY <1>1, <1>2, <1>3, <1>4, <1>5, <1>6, <1>7
  DEF Next, vars, queueVars, SubmitRead, Sweep, ListStuck, Tick, Denied, Crash

\* A reminder is only ever issued to a request that still waits for its verification,
\* whatever happened between the sweep's list and its UPDATE: no applicant who has
\* verified, been recorded otherwise or expired is given a new link.
THEOREM OnlyWaitingReminded == Spec => RemindedWhileAwaiting
<1>1. ASSUME TypeOK, FormNamed, [Next]_vars, NEW e \in Emails,
             request'[e].reminder_count # request[e].reminder_count
      PROVE  /\ request[e].status = "awaiting_verification"
             /\ request'[e].status = "awaiting_verification"
  BY <1>1, RowSteps DEF RowStep
<1>2. TypeOK /\ FormNamed /\ [Next]_vars =>
         [\A e \in Emails :
             request'[e].reminder_count # request[e].reminder_count
             => request[e].status = "awaiting_verification"
                /\ request'[e].status = "awaiting_verification"]_vars
  BY <1>1
<1> QED BY <1>2, TypeInvariant, PTL DEF Spec, RemindedWhileAwaiting

\* A request that waits was submitted; one that has had a reminder for each of its
\* submissions holds the link of the last reminder, or one that lapses sooner; and the
\* sweep has listed only requests with a submission to spare.
RemindersInv ==
    /\ \A e \in Emails :
          /\ request[e].reminder_count <= submitted[e]
          /\ request[e].status = "awaiting_verification" => submitted[e] >= 1
          /\ request[e].reminder_count = submitted[e] /\ submitted[e] >= 1 =>
                /\ request[e].last_reminder_at # -1
                /\ request[e].expires <= request[e].last_reminder_at + Ttl
    /\ sweep.pc = "listed" => \A e \in sweep.todo : request[e].reminder_count < submitted[e]

LEMMA RemindersInit == Init => RemindersInv
BY DEF Init, RemindersInv, NoRow, IdleSweep

LEMMA RemindersStep ==
    ASSUME Ttl <= Cooldown
    PROVE  TypeOK /\ FormNamed /\ RemindersInv /\ [Next]_vars => RemindersInv'
<1> SUFFICES ASSUME TypeOK, FormNamed, RemindersInv, [Next]_vars PROVE RemindersInv'
  OBVIOUS
<1> USE SignupsAssumption
<1>0. /\ clock \in Nat /\ submitted \in [Emails -> Nat] /\ request \in [Emails -> Request]
      /\ sweep \in [pc : {"idle", "expired", "listed"}, todo : SUBSET Emails]
  BY TypeParts, ClockNat DEF QueueTypeOK
<1>1. ASSUME NEW e \in Emails
      PROVE  /\ request[e].expires \in Nat /\ request[e].reminder_count \in Nat
             /\ request[e].last_reminder_at \in Nat \cup {-1} /\ submitted[e] \in Nat
  BY <1>0, RequestFields
<1>2. ASSUME NEW e \in Emails, Remind(e) PROVE request[e].reminder_count < submitted[e]
  BY <1>2 DEF Remind, RemindersInv
<1>3. ASSUME NEW e \in Emails
      PROVE  /\ request'[e].reminder_count <= submitted'[e]
             /\ request'[e].status = "awaiting_verification" => submitted'[e] >= 1
             /\ request'[e].reminder_count = submitted'[e] /\ submitted'[e] >= 1 =>
                   /\ request'[e].last_reminder_at # -1
                   /\ request'[e].expires <= request'[e].last_reminder_at + Ttl
  <2>1. RowStep(e)
    BY RowSteps
  <2>2. /\ request[e].reminder_count <= submitted[e]
        /\ request[e].status = "awaiting_verification" => submitted[e] >= 1
        /\ request[e].reminder_count = submitted[e] /\ submitted[e] >= 1 =>
              /\ request[e].last_reminder_at # -1
              /\ request[e].expires <= request[e].last_reminder_at + Ttl
    BY DEF RemindersInv
  <2> QED BY <1>0, <1>1, <1>2, <2>1, <2>2 DEF RowStep
<1>4. ASSUME sweep'.pc = "listed", NEW e \in sweep'.todo
      PROVE  request'[e].reminder_count < submitted'[e]
  <2>1. CASE ListStuck
    <3>1. e \in Emails /\ Stuck(e) /\ UNCHANGED <<request, submitted>>
      BY <1>4, <2>1 DEF ListStuck, IdleSweep
    <3>2. /\ request[e].reminder_count <= submitted[e] /\ submitted[e] >= 1
          /\ request[e].reminder_count = submitted[e] =>
                /\ request[e].last_reminder_at # -1
                /\ request[e].expires <= request[e].last_reminder_at + Ttl
      BY <3>1 DEF RemindersInv, Stuck
    <3>3. /\ request[e].expires > clock
          /\ request[e].last_reminder_at = -1 \/ request[e].last_reminder_at < clock - Cooldown
      BY <3>1 DEF Stuck
    <3>4. request[e].reminder_count # submitted[e]
      BY <1>0, <1>1, <3>1, <3>2, <3>3
    <3> QED BY <1>1, <3>1, <3>2, <3>4
  <2>2. CASE ~ListStuck
    <3>1. sweep.pc = "listed" /\ e \in sweep.todo /\ e \in Emails /\ ~Remind(e)
      <4>1. CASE UNCHANGED sweep
        <5>1. sweep.pc = "listed" /\ e \in sweep.todo /\ e \in Emails
          BY <1>0, <1>4, <4>1
        <5>2. Remind(e) => sweep' # sweep
          BY <1>0, <5>1 DEF Remind, Swept, IdleSweep
        <5> QED BY <4>1, <5>1, <5>2
      <4>2. ASSUME NEW x \in Emails, Remind(x) PROVE sweep.pc = "listed" /\ e \in sweep.todo /\ e # x
        BY <1>4, <4>2 DEF Remind, Swept, IdleSweep
      <4>3. ~ExpireStale
        BY <1>4 DEF ExpireStale
      <4>4. UNCHANGED sweep \/ \E x \in Emails : Remind(x)
        BY <2>2, <4>3
        DEF Next, vars, queueVars, SubmitRead, SubmitUpsert, Verify, Approve, Reject,
        GetReviewerEmailRaises,
            RecordDenied, Sweep, Tick, Denied, Crash
      <4> QED BY <1>0, <4>1, <4>2, <4>4
    <3>2. request[e].reminder_count < submitted[e]
      BY <3>1 DEF RemindersInv
    <3>3. RowStep(e)
      BY <3>1, RowSteps
    <3> QED BY <1>1, <3>1, <3>2, <3>3 DEF RowStep
  <2> QED BY <2>1, <2>2
<1> QED BY <1>3, <1>4 DEF RemindersInv

\* With a cooldown no shorter than the life of a link (both are 24 hours in the code),
\* the backlog job reminds an applicant at most once per submission, whatever
\* submissions, verifications and denied sign-ups come between its listing and its mails.
THEOREM OneReminderPerSubmission ==
    ASSUME Ttl <= Cooldown
    PROVE  Spec => []RemindedOncePerSubmission
<1>1. RemindersInv => RemindedOncePerSubmission
  BY DEF RemindersInv, RemindedOncePerSubmission
<1>2. TypeOK /\ FormNamed /\ RemindersInv /\ [Next]_vars => RemindersInv'
  BY RemindersStep
<1> QED BY <1>1, <1>2, RemindersInit, TypeInvariant, PTL DEF Spec

----------------------------------------------------------------------------
(* Provisioning.                                                             *)

\* Identities and personal teams are those of tenants, so nothing is there already
\* under the id of the next tenant.
Owned == /\ \A s \in DOMAIN identities : identities[s].tenant \in DOMAIN tenants
         /\ personal \subseteq DOMAIN tenants

ProvInv == Owned /\ ProvisionedWhole

\* A provisioning adds one tenant with one identity, and changes no other.
LEMMA ProvisionedRows ==
    ASSUME ProvTypeOK, Owned, NEW s \in Subs, NEW t \in TenantIds, Provisioned(s, t)
    PROVE  /\ DOMAIN tenants' = DOMAIN tenants \cup {t} /\ t \notin DOMAIN tenants
           /\ tenants'[t] = NewTenant(EmailOf[s])
           /\ \A u \in DOMAIN tenants : tenants'[u] = tenants[u]
           /\ DOMAIN identities' = DOMAIN identities \cup {s} /\ s \notin DOMAIN identities
           /\ identities'[s].tenant = t /\ identities'[s].is_primary /\ identities'[s].team = t
           /\ \A x \in DOMAIN identities : identities'[x] = identities[x]
           /\ personal' = personal \cup {t}
<1> DEFINE row == [tenant |-> t, is_primary |-> TRUE, team |-> None]
           ids == Put(identities, s, row)
<1>1. t \notin DOMAIN tenants /\ t \notin personal /\ s \notin DOMAIN identities
  BY DEF Provisioned, Owned, Unused
<1>2. /\ DOMAIN tenants' = DOMAIN tenants \cup {t} /\ tenants'[t] = NewTenant(EmailOf[s])
      /\ \A u \in DOMAIN tenants : tenants'[u] = tenants[u]
  BY <1>1 DEF Provisioned, Put
<1>3. /\ DOMAIN ids = DOMAIN identities \cup {s} /\ ids[s] = row
      /\ \A x \in DOMAIN identities : ids[x] = identities[x] /\ x # s
  BY <1>1 DEF Put
<1>4. personal' = personal \cup {t} /\ identities' = Default(ids, t)
  BY <1>1 DEF Provisioned, EnsurePersonalTeam
<1> HIDE DEF ids
<1>5. DOMAIN identities' = DOMAIN ids
  BY <1>4 DEF Default
<1>6. ASSUME NEW x \in DOMAIN identities PROVE identities'[x] = identities[x]
  <2>1. ids[x].tenant # t
    BY <1>1, <1>3 DEF Owned
  <2> QED BY <1>3, <1>4, <2>1 DEF Default
<1>7. identities'[s] = [row EXCEPT !.team = t]
  <2>1. s \in DOMAIN ids /\ ids[s] = row
    BY <1>3
  <2>2. row.tenant = t /\ row.is_primary = TRUE /\ row.team = None
    OBVIOUS
  <2>3. ids[s].tenant = t /\ ids[s].is_primary /\ ids[s].team = None
    BY <2>1, <2>2
  <2> HIDE DEF row
  <2> QED BY <1>4, <2>1, <2>3 DEF Default
<1>8. identities'[s].tenant = t /\ identities'[s].is_primary /\ identities'[s].team = t
  BY <1>7
<1> QED BY <1>1, <1>2, <1>3, <1>4, <1>5, <1>6, <1>7, <1>8

\* What ProvisionedWhole says of one tenant.
Whole(t) ==
    /\ t \in personal
    /\ \E s \in IdentitiesOf(t) :
           /\ identities[s].is_primary /\ identities[s].team # None
           /\ \A other \in IdentitiesOf(t) \ {s} : ~identities[other].is_primary
    /\ \A u \in DOMAIN tenants \ {t} : tenants[u].email # tenants[t].email

LEMMA ProvInvInit == Init => ProvInv
BY DEF Init, ProvInit, ProvInv, Owned, ProvisionedWhole

LEMMA ProvInvStep ==
    ASSUME ProvTypeOK, ProvInv, NEW s \in Subs, NEW t \in TenantIds, Provisioned(s, t)
    PROVE  ProvInv'
<1>0. ProvTypeOK /\ Owned /\ ProvisionedWhole
  BY DEF ProvInv
<1>1. /\ DOMAIN tenants' = DOMAIN tenants \cup {t} /\ t \notin DOMAIN tenants
      /\ tenants'[t] = NewTenant(EmailOf[s])
      /\ \A u \in DOMAIN tenants : tenants'[u] = tenants[u]
      /\ DOMAIN identities' = DOMAIN identities \cup {s} /\ s \notin DOMAIN identities
      /\ identities'[s].tenant = t /\ identities'[s].is_primary /\ identities'[s].team = t
      /\ \A x \in DOMAIN identities : identities'[x] = identities[x]
      /\ personal' = personal \cup {t}
  BY <1>0, ProvisionedRows
<1>2. Owned'
  BY <1>0, <1>1 DEF Owned
<1>3. \A u \in DOMAIN tenants : tenants[u].email # EmailOf[s]
  BY DEF Provisioned, Unused
<1>4. tenants'[t].email = EmailOf[s]
  BY <1>1 DEF NewTenant
<1>5. IdentitiesOf(t)' = {s}
  <2>1. \A x \in DOMAIN identities : identities'[x].tenant # t
    BY <1>0, <1>1 DEF Owned
  <2> QED BY <1>1, <2>1 DEF IdentitiesOf
<1>6. Whole(t)'
  <2>1. identities'[s].is_primary /\ identities'[s].team = t /\ t # None
    BY <1>1 DEF TenantIds, None
  <2>2. \A u \in DOMAIN tenants' \ {t} : tenants'[u].email # tenants'[t].email
    BY <1>1, <1>3, <1>4
  <2> QED BY <1>1, <1>5, <2>1, <2>2 DEF Whole
<1>7. ASSUME NEW u \in DOMAIN tenants, tenants[u].status # "deleted" PROVE Whole(u)'
  <2>1. Whole(u)
    BY <1>0, <1>7 DEF ProvisionedWhole, Whole
  <2>2. IdentitiesOf(u)' = IdentitiesOf(u)
    <3>1. identities'[s].tenant = t /\ t # u
      BY <1>1
    <3> QED BY <1>1, <3>1 DEF IdentitiesOf
  <2>3. \A x \in IdentitiesOf(u) : identities'[x] = identities[x]
    BY <1>1 DEF IdentitiesOf
  <2>4. \A v \in DOMAIN tenants' \ {u} : tenants'[v].email # tenants'[u].email
    BY <1>1, <1>3, <1>4, <2>1 DEF Whole
  <2>5. PICK x \in IdentitiesOf(u) :
           /\ identities[x].is_primary /\ identities[x].team # None
           /\ \A other \in IdentitiesOf(u) \ {x} : ~identities[other].is_primary
    BY <2>1 DEF Whole
  <2>6. /\ identities'[x].is_primary /\ identities'[x].team # None
        /\ \A other \in IdentitiesOf(u)' \ {x} : ~identities'[other].is_primary
    BY <2>2, <2>3, <2>5, Zenon
  <2>7. u \in personal'
    BY <1>1, <2>1 DEF Whole
  <2> QED BY <2>2, <2>4, <2>6, <2>7 DEF Whole
<1>8. ProvisionedWhole'
  <2> SUFFICES ASSUME NEW u \in DOMAIN tenants', tenants'[u].status # "deleted"
               PROVE  Whole(u)'
    BY DEF ProvisionedWhole, Whole
  <2> QED BY <1>1, <1>6, <1>7
<1> QED BY <1>2, <1>8 DEF ProvInv

\* The reconcilers, however many run at once and wherever one of them dies, provision an
\* invited user once and whole: every live tenant has its personal team and exactly one
\* primary identity with a default team, and shares its e-mail with no other.
THEOREM ProvisioningIsWhole == Spec => []ProvisionedWhole
<1>1. ASSUME TypeOK, FormNamed, Numbered, ProvInv, [Next]_vars PROVE ProvInv'
  <2>0. ProvTypeOK
    BY <1>1, TypeParts
  <2>1. CASE UNCHANGED <<tenants, identities, personal>>
    BY <1>1, <2>1 DEF ProvInv, Owned, ProvisionedWhole, IdentitiesOf
  <2>2. ASSUME NEW r \in Reconcilers, NEW s \in Subs, ProvisionOne(r, s) PROVE ProvInv'
    BY <1>1, <2>0, <2>1, <2>2, ProvisionOneCases, ProvInvStep
  <2> QED
    BY <1>1, <2>1, <2>2
    DEF Next, vars, provVars, SubmitRead, SubmitUpsert, Verify, Approve, Reject,
        GetReviewerEmailRaises,
        RecordDenied, Sweep, ExpireStale, ListStuck, Remind, Tick, Denied, Crash, InviteAdd,
        InviteRevoke, Enrol, SignUp, Confirm, Reconcile, ListUsers, Classify, ReconcilerCrash
<1>2. TypeOK /\ FormNamed /\ Numbered /\ ProvInv /\ [Next]_vars => ProvInv'
  BY <1>1
<1>3. ProvInv => ProvisionedWhole
  BY DEF ProvInv
<1> QED BY <1>2, <1>3, ProvInvInit, TypeInvariant, PTL DEF Spec
=============================================================================
