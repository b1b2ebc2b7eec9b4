---------------------------- MODULE Provisioning ----------------------------
(* From a Cognito user to a tenant: the operator's list of invited e-mails,  *)
(* the PreSignUp trigger that asks for it, and the reconciler that turns     *)
(* invited, confirmed users into tenants.  The reconciler runs every five    *)
(* minutes and on the administrators' button, so several may be under way.   *)
(*                                                                           *)
(* Listing the pool, classifying and each provisioning are steps of their    *)
(* own; a provisioning is one transaction, which the unique e-mail of a      *)
(* tenant and the unique sub of an identity order.  Names, providers and     *)
(* domains as such are left out; the one shared team stands for the teams    *)
(* somebody is invited to.                                                   *)
EXTENDS Integers, FiniteSets

CONSTANTS
    Subs,         \* Cognito users
    Emails,
    EmailOf,      \* the e-mail of a user
    SameDomain,   \* users whose workspace domain is that of the shared team
    Reconcilers,  \* runs of reconcile_signups
    MaxTenant     \* bound: tenants ever created

None == 0
TenantIds == 1..MaxTenant

ASSUME ProvisioningAssumption ==
    /\ EmailOf \in [Subs -> Emails] /\ None \notin Emails
    /\ SameDomain \subseteq Subs
    /\ MaxTenant \in Nat

VARIABLES
    cognito,     \* state of each user in the pool
    invited,     \* invited_emails, by e-mail
    tenants,     \* tenants, by id
    identities,  \* tenant_identities, by cognito_sub
    personal,    \* tenants with a live personal team of which they are the owner
    invites,     \* team_invites of the shared team, by e-mail
    members,     \* team_members of the shared team
    job          \* the run of each reconciler

provVars == <<cognito, invited, tenants, identities, personal, invites, members, job>>

\* email is None once the row is anonymised; token stands for the hash of the
\* cancel token, 0 when NULL.
Tenant == [email : Emails \cup {None}, status : {"active", "pending_deletion", "deleted"},
           requested_at : Nat, token : Nat]

\* team is default_team_id; the personal team of a tenant is named by the tenant.
Identity == [tenant : TenantIds, is_primary : BOOLEAN, team : TenantIds \cup {None}]

\* seen holds the users listed, todo those classified as to_provision.
IdleJob == [pc |-> "idle", seen |-> {}, todo |-> {}]

Job == [pc : {"idle", "listed", "classified"}, seen : SUBSET Subs, todo : SUBSET Subs]

ProvTypeOK ==
    /\ cognito \in [Subs -> {"absent", "unconfirmed", "confirmed"}]
    /\ invited \in [Emails -> {"none", "open", "consumed"}]
    /\ DOMAIN tenants \subseteq TenantIds
    /\ \A t \in DOMAIN tenants : tenants[t] \in Tenant
    /\ DOMAIN identities \subseteq Subs
    /\ \A s \in DOMAIN identities : identities[s] \in Identity
    /\ personal \subseteq TenantIds /\ members \subseteq TenantIds
    /\ invites \in [Emails -> {"none", "pending", "accepted"}]
    /\ job \in [Reconcilers -> Job]

ProvInit ==
    /\ cognito = [s \in Subs |-> "absent"]
    /\ tenants = [t \in {} |-> None]
    /\ identities = [s \in {} |-> None]
    /\ personal = {} /\ members = {}
    /\ invites = [e \in Emails |-> "pending"]
    /\ job = [r \in Reconcilers |-> IdleJob]

Put(f, k, v) == [x \in DOMAIN f \cup {k} |-> IF x = k THEN v ELSE f[x]]
Without(f, gone) == [x \in DOMAIN f \ gone |-> f[x]]

IdentitiesOf(t) == {s \in DOMAIN identities : identities[s].tenant = t}

-----------------------------------------------------------------------------
(* Invitations and sign-up at Cognito.                                       *)

\* seed_invite.py add: a revoked invitation stays consumed.
InviteAdd(email) ==
    /\ invited[email] = "none"
    /\ invited' = [invited EXCEPT ![email] = "open"]
    /\ UNCHANGED <<cognito, tenants, identities, personal, invites, members, job>>

\* seed_invite.py revoke: consumed_at gets a sentinel, the row stays.
InviteRevoke(email) ==
    /\ invited[email] = "open"
    /\ invited' = [invited EXCEPT ![email] = "consumed"]
    /\ UNCHANGED <<cognito, tenants, identities, personal, invites, members, job>>

\* DbInviteStore.lookup and the decision made of it.
CheckInvite(email) == invited[email] = "open"

\* The trigger lets an invited user in, confirmed at once when Google vouches for
\* the e-mail; any other answer, or none, denies.
SignUp(s) ==
    /\ cognito[s] = "absent"
    /\ CheckInvite(EmailOf[s])
    /\ \E state \in {"unconfirmed", "confirmed"} : cognito' = [cognito EXCEPT ![s] = state]
    /\ UNCHANGED <<invited, tenants, identities, personal, invites, members, job>>

\* The user enters the code Cognito mailed.
Confirm(s) ==
    /\ cognito[s] = "unconfirmed"
    /\ cognito' = [cognito EXCEPT ![s] = "confirmed"]
    /\ UNCHANGED <<invited, tenants, identities, personal, invites, members, job>>

-----------------------------------------------------------------------------
(* reconcile_signups.                                                        *)

ListUsers(r) ==
    /\ job[r].pc = "idle"
    /\ job' = [job EXCEPT ![r] = [pc |-> "listed", todo |-> {},
                                  seen |-> {s \in Subs : cognito[s] = "confirmed"}]]
    /\ UNCHANGED <<cognito, invited, tenants, identities, personal, invites, members>>


\* consumed_at is not looked at.
ToProvision(users) == {s \in users : s \notin DOMAIN identities /\ invited[EmailOf[s]] # "none"}

\* Nothing to provision ends the run.
Classify(r) ==
    /\ job[r].pc = "listed"
    /\ LET todo == ToProvision(job[r].seen)
       IN  job' = [job EXCEPT ![r] = IF todo = {} THEN IdleJob
                                     ELSE [pc |-> "classified", seen |-> {}, todo |-> todo]]
    /\ UNCHANGED <<cognito, invited, tenants, identities, personal, invites, members>>

\* ensure_personal_team, given the identities of the transaction.
Default(ids, t) ==
    [s \in DOMAIN ids |-> IF ids[s].tenant = t /\ ids[s].is_primary /\ ids[s].team = None
                          THEN [ids[s] EXCEPT !.team = t] ELSE ids[s]]

EnsurePersonalTeam(t, ids) ==
    IF t \in personal THEN identities' = ids /\ UNCHANGED personal
    ELSE personal' = personal \cup {t} /\ identities' = Default(ids, t)

\* The pending invitation of an e-mail is accepted when the domains agree.
Consumed(s, email) == s \in SameDomain /\ invites[email] = "pending"

AcceptInvite(s, t, email) ==
    /\ members' = IF Consumed(s, email) THEN members \cup {t} ELSE members
    /\ invites' = IF Consumed(s, email) THEN [invites EXCEPT ![email] = "accepted"] ELSE invites

NewTenant(email) == [email |-> email, status |-> "active", requested_at |-> 0, token |-> 0]

\* Mutation: what the classification found is trusted.
Unused_Listed(s) == TRUE

Unused(s) ==
    /\ s \notin DOMAIN identities
    /\ \A t \in DOMAIN tenants : tenants[t].email # EmailOf[s]

Done(r, s) == LET rest == job[r].todo \ {s}
              IN  [job EXCEPT ![r] = IF rest = {} THEN IdleJob ELSE [@ EXCEPT !.todo = rest]]

\* Either INSERT raises on a duplicate, and the transaction is rolled back.
ProvisionOne(r, s) ==
    /\ job[r].pc = "classified" /\ s \in job[r].todo
    /\ Cardinality(DOMAIN tenants) < MaxTenant
    /\ LET t == Cardinality(DOMAIN tenants) + 1
           row == [tenant |-> t, is_primary |-> TRUE, team |-> None]
       IN  IF Unused(s)
           THEN /\ tenants' = Put(tenants, t, NewTenant(EmailOf[s]))
                /\ EnsurePersonalTeam(t, Put(identities, s, row))
                /\ AcceptInvite(s, t, EmailOf[s])
           ELSE UNCHANGED <<tenants, identities, personal, members, invites>>
    /\ job' = Done(r, s)
    /\ UNCHANGED <<cognito, invited>>

\* The process of the run dies: what it committed stays.
ReconcilerCrash(r) ==
    /\ job[r].pc # "idle"
    /\ job' = [job EXCEPT ![r] = IdleJob]
    /\ UNCHANGED <<cognito, invited, tenants, identities, personal, invites, members>>

Reconcile(r) == ListUsers(r) \/ Classify(r) \/ \E s \in Subs : ProvisionOne(r, s)

-----------------------------------------------------------------------------
\* Reconciliation provisions an account once and whole: the identities of a live
\* tenant have one primary among them, whose default team is the tenant's own
\* personal team, and no two live tenants share an e-mail, whenever a run dies
\* and whatever the operator does with the invitation meanwhile.
ProvisionedWhole ==
    \A t \in DOMAIN tenants : tenants[t].status # "deleted" =>
        /\ t \in personal
        /\ \E s \in IdentitiesOf(t) :
               /\ identities[s].is_primary /\ identities[s].team # None
               /\ \A other \in IdentitiesOf(t) \ {s} : ~identities[other].is_primary
        /\ \A u \in DOMAIN tenants \ {t} : tenants[u].email # tenants[t].email
=============================================================================
