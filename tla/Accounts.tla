------------------------------ MODULE Accounts ------------------------------
(* The life of an account after its provisioning: web sessions, linked       *)
(* identities, closure with its grace period and the job that finalises it,  *)
(* beside the reconciler of module Provisioning.                             *)
(*                                                                           *)
(* A handler reads with one statement and writes with a later one; what it   *)
(* read may have changed in between.  A write and the commit that follows    *)
(* it are one step, ordered by row locks and unique keys.  Nothing happens   *)
(* between the read and the write of an operation in Solo.                   *)
(*                                                                           *)
(* Logger is the audit logger the functions are given: "db" is DbAuditLogger *)
(* of the running service, which has no log_event and whose rows refer to    *)
(* identities; "events" is what lifecycle.py is written against and its      *)
(* tests pass.  Memories, consents, feedback and clients of a closed tenant  *)
(* are left out.                                                             *)
EXTENDS Provisioning

CONSTANTS
    Clients,     \* concurrent callers
    Closers,     \* runs of RetentionDeletionJob
    Logger,      \* "db" or "events"
    Solo,        \* operations whose read and write are one step
    Grace,       \* GRACE_PERIOD_HOURS, in ticks
    SessionTtl,  \* SESSION_TTL
    LinkTtl,     \* ttl_seconds of start_link
    KeepRevoked, \* how long a revoked session is kept
    MaxClock,    \* bound: time
    MaxLinks,    \* bound: link attempts
    MaxToken,    \* bound: requests for closure
    MaxFaults    \* bound: failing calls of Cognito, crashes

OpNames == {"login", "close", "cancel", "link", "unlink", "promote"}

ASSUME AccountsAssumption ==
    /\ Logger \in {"db", "events"} /\ Solo \subseteq OpNames
    /\ Grace \in Nat /\ SessionTtl \in Nat /\ LinkTtl \in Nat /\ KeepRevoked \in Nat
    /\ MaxClock \in Nat /\ MaxLinks \in Nat /\ MaxToken \in Nat /\ MaxFaults \in Nat

VARIABLES
    sessions,   \* web_sessions, by identity; one session per identity
    links,      \* link_state, by nonce
    call,       \* the call of each client
    closer,     \* the run of each retention job
    audited,    \* identities some audit_log row refers to
    known,      \* cancel token each tenant's owner was given
    clock,
    nextToken,
    faults

accVars == <<sessions, links, call, closer, audited, known, clock, nextToken, faults>>
vars == <<provVars, accVars>>

\* revoked_at is -1 when NULL.
Session == [tenant : TenantIds, expires : Nat, revoked_at : Nat \cup {-1}]
Link == [tenant : TenantIds, expires : Nat, consumed : BOOLEAN]

\* sub is the identity the call is about, tenant the caller's, nonce its link.
IdleCall == [op |-> "none", sub |-> None, tenant |-> None, nonce |-> None]
IdleCloser == [pc |-> "idle", todo |-> {}, users |-> {}]

TypeOK ==
    /\ ProvTypeOK
    /\ DOMAIN sessions \subseteq Subs /\ \A s \in DOMAIN sessions : sessions[s] \in Session
    /\ DOMAIN links \subseteq 1..MaxLinks /\ \A n \in DOMAIN links : links[n] \in Link
    /\ call \in [Clients -> [op : OpNames \cup {"none", "admit"}, sub : Subs \cup {None},
                             tenant : TenantIds \cup {None}, nonce : 0..MaxLinks]]
    /\ closer \in [Closers -> [pc : {"idle", "listed", "cleanup"}, todo : SUBSET TenantIds,
                               users : SUBSET Subs]]
    /\ audited \subseteq Subs
    /\ known \in [TenantIds -> 0..MaxToken]
    /\ clock \in 0..MaxClock /\ nextToken \in 1..MaxToken + 1 /\ faults \in 0..MaxFaults

Init ==
    /\ ProvInit
    /\ invited = [e \in Emails |-> "open"]
    /\ sessions = [s \in {} |-> None]
    /\ links = [n \in {} |-> None]
    /\ call = [c \in Clients |-> IdleCall]
    /\ closer = [k \in Closers |-> IdleCloser]
    /\ audited = {}
    /\ known = [t \in TenantIds |-> 0]
    /\ clock = 0 /\ nextToken = 1 /\ faults = 0

\* A call of an operation in Solo is under way: nothing else happens until it ends.
Undisturbed == \A c \in Clients : call[c].op \notin Solo

Start(c, op, s, t, n) ==
    /\ call[c].op = "none"
    /\ call' = [call EXCEPT ![c] = [op |-> op, sub |-> s, tenant |-> t, nonce |-> n]]

End(c) == call' = [call EXCEPT ![c] = IdleCall]

\* lookup_session: neither revoked nor expired; the tenant's status is not asked.
ValidSession(s) == s \in DOMAIN sessions /\ sessions[s].revoked_at = -1 /\ sessions[s].expires > clock

\* The call of a caller whose cookie is a session of tenant t.
SessionOf(t) == \E s \in DOMAIN sessions : ValidSession(s) /\ sessions[s].tenant = t

-----------------------------------------------------------------------------
(* Web sessions.                                                             *)

\* The callback finds the identity of the user who signed in, if there is one.
Login(c, s) ==
    /\ cognito[s] = "confirmed" /\ s \in DOMAIN identities
    /\ Start(c, "login", s, identities[s].tenant, None)
    /\ UNCHANGED <<provVars, sessions, links, closer, audited, known, clock, nextToken, faults>>

\* The second transaction accepts the invitation of the e-mail, when the identity
\* still is there to have a domain.
LoginInvites(c) ==
    /\ call[c].op = "login"
    /\ IF call[c].sub \in DOMAIN identities
       THEN AcceptInvite(call[c].sub, call[c].tenant, EmailOf[call[c].sub])
       ELSE UNCHANGED <<members, invites>>
    /\ call' = [call EXCEPT ![c].op = "admit"]
    /\ UNCHANGED <<cognito, invited, tenants, identities, personal, job, sessions, links, closer,
                   audited, known, clock, nextToken, faults>>

\* Mutation: no foreign key ties a session to its identity.
IdentityRow_Any(s, t) == TRUE

\* The row a session's foreign key refers to.
IdentityRow(s, t) == s \in DOMAIN identities /\ identities[s].tenant = t

\* create_session: the INSERT raises when the identity is gone.
LoginSession(c) ==
    LET s == call[c].sub IN
    /\ call[c].op = "admit"
    /\ sessions' = IF IdentityRow(s, call[c].tenant)
                   THEN Put(sessions, s, [tenant |-> call[c].tenant, expires |-> clock + SessionTtl,
                                          revoked_at |-> -1])
                   ELSE sessions
    /\ End(c)
    /\ UNCHANGED <<provVars, links, closer, audited, known, clock, nextToken, faults>>

Logout(s) ==
    /\ s \in DOMAIN sessions /\ sessions[s].revoked_at = -1
    /\ sessions' = [sessions EXCEPT ![s].revoked_at = clock]
    /\ UNCHANGED <<provVars, links, call, closer, audited, known, clock, nextToken, faults>>

\* retention_tokens.run.
PurgeTokens ==
    LET dead == {s \in DOMAIN sessions :
                    \/ sessions[s].expires < clock
                    \/ sessions[s].revoked_at # -1 /\ sessions[s].revoked_at < clock - KeepRevoked}
        old == {n \in DOMAIN links : links[n].expires < clock}
    IN  /\ dead # {} \/ old # {}
        /\ sessions' = Without(sessions, dead)
        /\ links' = Without(links, old)
        /\ UNCHANGED <<provVars, call, closer, audited, known, clock, nextToken, faults>>

\* Sessions go with the identity they were opened for.
Cascade(ids) == Without(sessions, {s \in DOMAIN sessions : s \notin DOMAIN ids})

-----------------------------------------------------------------------------
(* Linked identities.                                                        *)

\* Audit rows of the service's logger refer to the identity.
Audited(s) == IF Logger = "db" THEN audited \cup {s} ELSE audited

StartLink(t, n) ==
    /\ SessionOf(t)
    /\ n \notin DOMAIN links /\ \A c \in Clients : call[c].nonce # n
    /\ links' = Put(links, n, [tenant |-> t, expires |-> clock + LinkTtl, consumed |-> FALSE])
    /\ UNCHANGED <<provVars, sessions, call, closer, audited, known, clock, nextToken, faults>>

\* The state is checked; then the code is exchanged at Cognito for user s.
CompleteLink(c, n, s) ==
    /\ n \in DOMAIN links /\ ~links[n].consumed /\ links[n].expires >= clock
    /\ SessionOf(links[n].tenant) /\ cognito[s] = "confirmed"
    /\ Start(c, "link", s, links[n].tenant, n)
    /\ UNCHANGED <<provVars, sessions, links, closer, audited, known, clock, nextToken, faults>>

\* A sub that is linked anywhere fails the SELECT or the unique key.
CompleteLinkInsert(c) ==
    LET s == call[c].sub  t == call[c].tenant  n == call[c].nonce IN
    /\ call[c].op = "link"
    /\ IF s \in DOMAIN identities THEN UNCHANGED <<identities, links, audited>>
       ELSE /\ identities' = Put(identities, s, [tenant |-> t, is_primary |-> FALSE, team |-> None])
            /\ links' = IF n \in DOMAIN links THEN [links EXCEPT ![n].consumed = TRUE] ELSE links
            /\ audited' = Audited(s)
    /\ End(c)
    /\ UNCHANGED <<cognito, invited, tenants, personal, invites, members, job, sessions, closer,
                   known, clock, nextToken, faults>>

\* Mutation: the primary may be unlinked.
MayUnlink_Primary(s) == Cardinality(IdentitiesOf(identities[s].tenant)) # 1

MayUnlink(s) ==
    /\ Cardinality(IdentitiesOf(identities[s].tenant)) # 1
    /\ ~identities[s].is_primary

Unlink(c, s) ==
    /\ s \in DOMAIN identities /\ SessionOf(identities[s].tenant)
    /\ MayUnlink(s)
    /\ Start(c, "unlink", s, identities[s].tenant, None)
    /\ UNCHANGED <<provVars, sessions, links, closer, audited, known, clock, nextToken, faults>>

\* Mutation: the row goes although Cognito refused.
UnlinkFails_Ignored(c) ==
    /\ call[c].sub \in DOMAIN identities
    /\ faults < MaxFaults /\ faults' = faults + 1
    /\ identities' = Without(identities, {call[c].sub})
    /\ sessions' = Cascade(identities')
    /\ UNCHANGED cognito

\* admin_delete_user raises, or the connection or the process is lost between it
\* and the commit: the transaction is rolled back, the user may be gone.
UnlinkFails(c) ==
    /\ faults < MaxFaults /\ faults' = faults + 1
    /\ \/ UNCHANGED cognito
       \/ cognito' = [cognito EXCEPT ![call[c].sub] = "absent"]
    /\ UNCHANGED <<identities, sessions>>

\* DELETE, AdminDeleteUser, audit.  An audit row that refers to the identity
\* refuses the DELETE.  The audit row of the service's logger then refers to a
\* row that is gone: its INSERT fails, the logger swallows the error, and the
\* commit of the aborted transaction rolls back.
UnlinkDelete(c) ==
    LET s == call[c].sub IN
    /\ call[c].op = "unlink"
    /\ \/ /\ s \in audited
          /\ UNCHANGED <<identities, sessions, cognito, faults>>
       \/ /\ s \notin audited /\ Logger = "db"
          /\ cognito' = [cognito EXCEPT ![s] = "absent"]
          /\ UNCHANGED <<identities, sessions, faults>>
       \/ /\ s \notin audited /\ Logger = "events"
          /\ cognito' = [cognito EXCEPT ![s] = "absent"]
          /\ identities' = Without(identities, {s})
          /\ sessions' = Cascade(identities')
          /\ UNCHANGED faults
       \/ s \notin audited /\ UnlinkFails(c)
    /\ End(c)
    /\ UNCHANGED <<invited, tenants, personal, invites, members, job, links, closer, audited, known,
                   clock, nextToken>>

Promote(c, s) ==
    /\ s \in DOMAIN identities /\ SessionOf(identities[s].tenant)
    /\ ~identities[s].is_primary
    /\ Start(c, "promote", s, identities[s].tenant, None)
    /\ UNCHANGED <<provVars, sessions, links, closer, audited, known, clock, nextToken, faults>>

\* All are demoted, then the target, if it still is there, is promoted.
PromoteUpdate(c) ==
    LET s == call[c].sub  t == call[c].tenant IN
    /\ call[c].op = "promote"
    /\ identities' = [x \in DOMAIN identities |->
                         IF identities[x].tenant = t THEN [identities[x] EXCEPT !.is_primary = (x = s)]
                         ELSE identities[x]]
    /\ audited' = IF s \in DOMAIN identities THEN Audited(s) ELSE audited
    /\ End(c)
    /\ UNCHANGED <<cognito, invited, tenants, personal, invites, members, job, sessions, links,
                   closer, known, clock, nextToken, faults>>

-----------------------------------------------------------------------------
(* Closure.                                                                  *)

RequestClosure(c, t) ==
    /\ SessionOf(t) /\ tenants[t].status = "active"
    /\ Start(c, "close", None, t, None)
    /\ UNCHANGED <<provVars, sessions, links, closer, audited, known, clock, nextToken, faults>>

\* The token is lost with the exception when the logger has no log_event.
RequestClosureUpdate(c) ==
    LET t == call[c].tenant IN
    /\ call[c].op = "close" /\ nextToken <= MaxToken
    /\ tenants' = [tenants EXCEPT ![t] = [@ EXCEPT !.status = "pending_deletion",
                                                   !.requested_at = clock, !.token = nextToken]]
    /\ known' = IF Logger = "events" THEN [known EXCEPT ![t] = nextToken] ELSE known
    /\ nextToken' = nextToken + 1
    /\ End(c)
    /\ UNCHANGED <<cognito, invited, identities, personal, invites, members, job, sessions, links,
                   closer, audited, clock, faults>>

\* Mutation: the window of the cancellation is not looked at.
MayCancel_Late(t) == tenants[t].status = "pending_deletion" /\ tenants[t].token = known[t]

MayCancel(t) ==
    /\ tenants[t].status = "pending_deletion" /\ tenants[t].token = known[t]
    /\ clock - tenants[t].requested_at <= Grace

CancelClosure(c, t) ==
    /\ SessionOf(t) /\ MayCancel(t)
    /\ Start(c, "cancel", None, t, None)
    /\ UNCHANGED <<provVars, sessions, links, closer, audited, known, clock, nextToken, faults>>

\* The UPDATE does not look at the status again.
CancelClosureUpdate(c) ==
    LET t == call[c].tenant IN
    /\ call[c].op = "cancel"
    /\ tenants' = [tenants EXCEPT ![t] = [@ EXCEPT !.status = "active", !.requested_at = 0, !.token = 0]]
    /\ End(c)
    /\ UNCHANGED <<cognito, invited, identities, personal, invites, members, job, sessions, links,
                   closer, audited, known, clock, nextToken, faults>>

PastGrace(t) ==
    /\ tenants[t].status = "pending_deletion"
    /\ tenants[t].requested_at < clock - Grace

ListCandidates(k) ==
    /\ closer[k].pc = "idle"
    /\ LET todo == {t \in DOMAIN tenants : PastGrace(t)}
       IN  /\ todo # {}
           /\ closer' = [closer EXCEPT ![k] = [pc |-> "listed", todo |-> todo, users |-> {}]]
    /\ UNCHANGED <<provVars, sessions, links, call, audited, known, clock, nextToken, faults>>

Finalised(k, t, users) ==
    LET rest == closer[k].todo \ {t}
    IN  closer' = [closer EXCEPT ![k] =
            IF users = {} /\ rest = {} THEN IdleCloser
            ELSE [pc |-> IF users = {} THEN "listed" ELSE "cleanup", todo |-> rest, users |-> users]]

Anonymised == [email |-> None, status |-> "deleted", requested_at |-> 0, token |-> 0]

\* Without log_event the transaction fails before its first write.  The status
\* of the tenant is not looked at again.
FinalizeClosure(k, t) ==
    /\ closer[k].pc = "listed" /\ t \in closer[k].todo
    /\ IF Logger = "db"
       THEN Finalised(k, t, {}) /\ UNCHANGED <<tenants, identities, sessions, links>>
       ELSE /\ Finalised(k, t, IdentitiesOf(t))
            /\ tenants' = [tenants EXCEPT ![t] = Anonymised]
            /\ identities' = Without(identities, IdentitiesOf(t))
            /\ sessions' = Without(Cascade(identities'),
                                   {s \in DOMAIN sessions : sessions[s].tenant = t})
            /\ links' = Without(links, {n \in DOMAIN links : links[n].tenant = t})
    /\ UNCHANGED <<cognito, invited, personal, invites, members, job, call, audited, known, clock,
                   nextToken, faults>>

\* After the commit the Cognito users go, one by one; a failure is logged.
DeleteUser(k, s) ==
    /\ closer[k].pc = "cleanup" /\ s \in closer[k].users
    /\ LET left == closer[k].users \ {s}
       IN  closer' = [closer EXCEPT ![k] =
               IF left = {} /\ closer[k].todo = {} THEN IdleCloser
               ELSE [@ EXCEPT !.users = left, !.pc = IF left = {} THEN "listed" ELSE "cleanup"]]
    /\ \/ cognito' = [cognito EXCEPT ![s] = "absent"] /\ UNCHANGED faults
       \/ faults < MaxFaults /\ faults' = faults + 1 /\ UNCHANGED cognito
    /\ UNCHANGED <<invited, tenants, identities, personal, invites, members, job, sessions, links,
                   call, audited, known, clock, nextToken>>

\* The job dies: nobody deletes the users it had left.
CloserCrash(k) ==
    /\ closer[k].pc # "idle" /\ faults < MaxFaults
    /\ faults' = faults + 1
    /\ closer' = [closer EXCEPT ![k] = IdleCloser]
    /\ UNCHANGED <<provVars, sessions, links, call, audited, known, clock, nextToken>>

-----------------------------------------------------------------------------
Tick ==
    /\ clock < MaxClock
    /\ clock' = clock + 1
    /\ UNCHANGED <<provVars, sessions, links, call, closer, audited, known, nextToken, faults>>

Finish(c) == LoginInvites(c) \/ LoginSession(c) \/ CompleteLinkInsert(c) \/ UnlinkDelete(c)
             \/ PromoteUpdate(c) \/ RequestClosureUpdate(c) \/ CancelClosureUpdate(c)

Begin(c) ==
    \/ \E s \in Subs : Login(c, s) \/ Unlink(c, s) \/ Promote(c, s)
    \/ \E n \in DOMAIN links, s \in Subs : CompleteLink(c, n, s)
    \/ \E t \in DOMAIN tenants : RequestClosure(c, t) \/ CancelClosure(c, t)

Close(k) == ListCandidates(k) \/ CloserCrash(k) \/ (\E t \in TenantIds : FinalizeClosure(k, t))
            \/ (\E s \in Subs : DeleteUser(k, s))

Provision == (\E s \in Subs : SignUp(s) \/ Confirm(s)) \/ (\E r \in Reconcilers : Reconcile(r))

Next ==
    \/ \E c \in Clients : (call[c].op \in Solo \/ Undisturbed) /\ Finish(c)
    \/ /\ Undisturbed
       /\ \/ \E c \in Clients : Begin(c)
          \/ \E s \in Subs : Logout(s)
          \/ \E t \in DOMAIN tenants, n \in 1..MaxLinks : StartLink(t, n)
          \/ \E k \in Closers : Close(k)
          \/ PurgeTokens \/ Tick
          \/ Provision /\ UNCHANGED accVars

Spec == Init /\ [][Next]_vars

-----------------------------------------------------------------------------
\* Nobody can sign in to an account that is closed: no identity and no session
\* belongs to a deleted tenant, and a session's identity exists, also when the
\* sign-in had found the identity before the account was finalised.
ClosedIsEmpty ==
    /\ \A s \in DOMAIN identities : tenants[identities[s].tenant].status # "deleted"
    /\ \A s \in DOMAIN sessions : IdentityRow(s, sessions[s].tenant)

\* The grace period is the owner's: a tenant is deleted only while its closure is
\* requested and the window to cancel it is over, and then stays deleted.
ClosureInOrder ==
    [][\A t \in DOMAIN tenants :
          /\ tenants'[t].status = "deleted" /\ tenants[t].status # "deleted"
             => tenants[t].status = "pending_deletion" /\ clock - tenants[t].requested_at > Grace
          /\ tenants[t].status = "deleted" => tenants'[t].status = "deleted"]_vars

\* "Delete tenant_identities row + Cognito user" (unlinking.py:50): unlinking drops
\* both together or neither of them, so nobody is left with an identity that cannot
\* sign in.
UnlinkDropsBoth ==
    [][\A c \in Clients : LET s == call[c].sub IN
          call[c].op = "unlink" /\ call'[c].op = "none" /\ s \in DOMAIN identities /\ cognito[s] # "absent"
          => (s \in DOMAIN identities') = (cognito'[s] # "absent")]_vars

\* The half of it that holds whatever fails and whichever logger is used: no unlink
\* leaves behind a Cognito user without an identity, whom the reconciler would turn
\* into a tenant of its own.
UnlinkedUserIsGone ==
    [][\A c \in Clients : LET s == call[c].sub IN
          call[c].op = "unlink" /\ call'[c].op = "none" /\ s \in DOMAIN identities
          => s \in DOMAIN identities' \/ cognito'[s] = "absent"]_vars

\* A live tenant has exactly one primary identity, and no two live tenants share
\* an e-mail, whatever overlapping reconcilers, crashes and sign-ins do beside the
\* links, promotions and unlinks, which come one at a time.
OnePrimary ==
    \A t \in DOMAIN tenants : tenants[t].status # "deleted" =>
        /\ Cardinality({s \in IdentitiesOf(t) : identities[s].is_primary}) = 1
        /\ \A u \in DOMAIN tenants \ {t} : tenants[u].email # tenants[t].email
=============================================================================
