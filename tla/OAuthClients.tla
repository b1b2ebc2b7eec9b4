---------------------------- MODULE OAuthClients ----------------------------
(* The OAuth clients of the MCP server: dynamic registration (POST           *)
(* /oauth/register), deletion with the registration token (DELETE            *)
(* /oauth/register/{id}), revocation from the web page, and the daily        *)
(* cleanup_clients job.  A client lives twice, as an app client of the       *)
(* Cognito pool and as a row of oauth_clients, and every operation changes   *)
(* the two in separate steps.                                                *)
(*                                                                           *)
(* Registration metadata (names, URIs, scopes, secrets), the software        *)
(* allowlist and the rate limits only decide whether a registration goes     *)
(* ahead: a refused call changes neither side and is no step.  Clients whose *)
(* name is in PROTECTED_CLIENT_NAMES are left out.                           *)
EXTENDS Integers, FiniteSets

CONSTANTS
    Owned,      \* clients whose row has the tenant_id of the web user
    Faults,     \* the calls that may fail
    MaxClient,  \* bound: registrations
    MaxFaults   \* bound: failures

Clients == 1..MaxClient
FaultNames == {"register", "admin_pool", "revoke_pool", "revoke", "clean_pool", "tombstone", "touch"}

ASSUME OAuthClientsAssumption ==
    /\ MaxClient \in Nat /\ MaxFaults \in Nat
    /\ Owned \subseteq Clients /\ Faults \subseteq FaultNames

None == 0

VARIABLES
    clients,    \* by client_id: the app client of the pool and the row
    register,   \* registrations that have created the app client and not yet the row
    admin,      \* the clients whose deletion still has its Cognito call to make
    revoke,     \* the revocation transaction of each client
    cleaner,    \* the cleanup job: candidates left, and the one just deleted in Cognito
    touches,    \* last_used_at updates in flight
    failures    \* failures so far

clientVars == <<clients, register, admin, revoke, cleaner, touches, failures>>

\* The row, where there is one and it is live, by its created_at and last_used_at: new
\* and unused are never used (for less or more than NEVER_USED_GRACE_HOURS), recent
\* and stale are used (less or more than STALE_DAYS ago).
Live == {"new", "unused", "recent", "stale"}
Client == [pool : BOOLEAN, row : Live \cup {"none", "disabled", "deleted"}]

ClientsTypeOK ==
    /\ clients \in [Clients -> Client]
    /\ register \subseteq Clients /\ admin \subseteq Clients
    /\ revoke \in [Clients -> {"none", "updated", "called"}]
    /\ cleaner \in [todo : SUBSET Clients, gone : Clients \cup {None}]
    /\ touches \subseteq Clients
    /\ failures \in 0..MaxFaults

ClientsInit ==
    /\ clients = [i \in Clients |-> [pool |-> FALSE, row |-> "none"]]
    /\ register = {} /\ admin = {} /\ touches = {} /\ failures = 0
    /\ revoke = [i \in Clients |-> "none"]
    /\ cleaner = [todo |-> {}, gone |-> None]

Fails(f) == f \in Faults /\ failures < MaxFaults /\ failures' = failures + 1
Works == UNCHANGED failures

-----------------------------------------------------------------------------
(* Registration.  Between the two calls the client exists in Cognito only.   *)

\* Cognito draws an unused client id.
Fresh(i) ==
    /\ ~clients[i].pool /\ clients[i].row = "none"
    /\ \A j \in Clients : j < i => clients[j].pool \/ clients[j].row # "none"

\* The app client create_user_pool_client returns.
InPool(i) == [clients EXCEPT ![i].pool = TRUE]

\* register, up to the answer of Cognito.
RegisterCreate(i) ==
    /\ Fresh(i)
    /\ clients' = InPool(i)
    /\ register' = register \cup {i}
    /\ UNCHANGED <<admin, revoke, cleaner, touches, failures>>

\* DbOauthClientStore.insert.
Inserted(i) == [clients EXCEPT ![i].row = "new"]

\* The rest of register.  When the insert fails or the process dies first, the
\* app client stays in the pool with no row: no code deletes it.
RegisterInsert(i) ==
    /\ i \in register
    /\ register' = register \ {i}
    /\ \/ clients' = Inserted(i) /\ Works
       \/ Fails("register") /\ UNCHANGED clients
    /\ UNCHANGED <<admin, revoke, cleaner, touches>>

-----------------------------------------------------------------------------
(* Deletion and revocation.                                                  *)

OutOfPool(i) == [clients EXCEPT ![i].pool = FALSE]

\* The UPDATE of DbOauthClientDeleter and of DbTombstoneMarker.
SoftDeleted(i) == IF clients[i].row \in Live \cup {"disabled"} THEN [clients EXCEPT ![i].row = "deleted"] ELSE clients

\* An open revocation has updated the row: every other UPDATE of it waits.
Unlocked(i) == revoke[i] = "none"

\* _authenticated_row finds the row unless it is deleted.
Manageable(i) == clients[i].row \in Live \cup {"disabled"}

\* delete_client: the row first ...
AdminDelete(i) ==
    /\ Manageable(i) /\ i \notin admin /\ Unlocked(i)
    /\ clients' = SoftDeleted(i)
    /\ admin' = admin \cup {i}
    /\ UNCHANGED <<register, revoke, cleaner, touches, failures>>

\* ... then Cognito, whose failure is logged only.
AdminDeletePool(i) ==
    /\ i \in admin
    /\ admin' = admin \ {i}
    /\ \/ clients' = OutOfPool(i) /\ Works
       \/ Fails("admin_pool") /\ UNCHANGED clients
    /\ UNCHANGED <<register, revoke, cleaner, touches>>

\* The checks of revoke_client: not_found, wrong_tenant, already_disabled (a deleted
\* row is disabled too).
Revocable(i) == i \in Owned /\ clients[i].row \in Live

\* revoke_client opens its transaction and disables the row.
Revoke(i) ==
    /\ Revocable(i) /\ Unlocked(i)
    /\ revoke' = [revoke EXCEPT ![i] = "updated"]
    /\ UNCHANGED <<clients, register, admin, cleaner, touches, failures>>

\* The Cognito call inside the transaction, its failure swallowed.
RevokePool(i) ==
    /\ revoke[i] = "updated"
    /\ revoke' = [revoke EXCEPT ![i] = "called"]
    /\ \/ clients' = OutOfPool(i) /\ Works
       \/ Fails("revoke_pool") /\ UNCHANGED clients
    /\ UNCHANGED <<register, admin, cleaner, touches>>

\* The audit row and the commit, or a crash that rolls the row back.
RevokeCommit(i) ==
    /\ revoke[i] = "called"
    /\ revoke' = [revoke EXCEPT ![i] = "none"]
    /\ \/ clients' = [clients EXCEPT ![i].row = "disabled"] /\ Works
       \/ Fails("revoke") /\ UNCHANGED clients
    /\ UNCHANGED <<register, admin, cleaner, touches>>

-----------------------------------------------------------------------------
(* The cleanup job.                                                          *)

\* Mutation: clients that were used once are not listed.
Candidates_NeverUsed ==
    {i \in Clients : clients[i].row \in {"disabled", "unused"}}

\* DbCandidateLister.list_candidates.
Candidates ==
    {i \in Clients : clients[i].row \in {"disabled", "unused", "stale"}}

\* run lists once; what happens to a candidate afterwards is not looked at again.
CleanList ==
    /\ cleaner = [todo |-> {}, gone |-> None]
    /\ Candidates # {}
    /\ cleaner' = [cleaner EXCEPT !.todo = Candidates]
    /\ UNCHANGED <<clients, register, admin, revoke, touches, failures>>

\* The Cognito deletion of a candidate: already gone counts as done, a failure
\* leaves the row to the next run.
CleanPool(i) ==
    /\ cleaner.gone = None /\ i \in cleaner.todo
    /\ \/ /\ clients' = OutOfPool(i) /\ Works
          /\ cleaner' = [todo |-> cleaner.todo \ {i}, gone |-> i]
       \/ /\ Fails("clean_pool") /\ UNCHANGED clients
          /\ cleaner' = [cleaner EXCEPT !.todo = @ \ {i}]
    /\ UNCHANGED <<register, admin, revoke, touches>>

\* mark_deleted; a failure is logged only.
Tombstone ==
    /\ cleaner.gone # None /\ Unlocked(cleaner.gone)
    /\ cleaner' = [cleaner EXCEPT !.gone = None]
    /\ \/ clients' = SoftDeleted(cleaner.gone) /\ Works
       \/ Fails("tombstone") /\ UNCHANGED clients
    /\ UNCHANGED <<register, admin, revoke, touches>>

\* DbTouch.touch, fire and forget.
Touch(i) ==
    /\ i \in touches /\ Unlocked(i)
    /\ touches' = touches \ {i}
    /\ \/ clients' = [clients EXCEPT ![i].row = IF @ \in Live THEN "recent" ELSE @] /\ Works
       \/ Fails("touch") /\ UNCHANGED clients
    /\ UNCHANGED <<register, admin, revoke, cleaner>>

\* Time passes: a client nobody uses passes the age limits of the job.
GrowOld(i) ==
    /\ clients[i].row \in {"new", "recent"}
    /\ clients' = [clients EXCEPT ![i].row = IF @ = "new" THEN "unused" ELSE "stale"]
    /\ UNCHANGED <<register, admin, revoke, cleaner, touches, failures>>

\* A call of a client operation, and everything that happens afterwards by itself.
ClientCall == \E i \in Clients : RegisterCreate(i) \/ AdminDelete(i) \/ Revoke(i)
ClientStep ==
    \/ \E i \in Clients :
          \/ RegisterInsert(i) \/ AdminDeletePool(i) \/ RevokePool(i) \/ RevokeCommit(i)
          \/ CleanPool(i) \/ Touch(i) \/ GrowOld(i)
    \/ CleanList \/ Tombstone

\* No operation is under way.
ClientsAtRest ==
    /\ register = {} /\ admin = {} /\ touches = {}
    /\ \A i \in Clients : Unlocked(i)
    /\ cleaner = [todo |-> {}, gone |-> None]

\* A handler that has started goes on, and the scheduler starts the job every day.
ClientsFairness ==
    /\ \A i \in Clients : /\ WF_clientVars(AdminDeletePool(i))
                          /\ WF_clientVars(RevokePool(i)) /\ WF_clientVars(RevokeCommit(i))
                          /\ WF_clientVars(CleanPool(i))
    /\ WF_clientVars(CleanList) /\ WF_clientVars(Tombstone)

\* FR-6.5.10 (cleanup_clients.py:3): a client past its age limit, or disabled, does
\* not keep its row: it is deleted or used again, although the job does not look at a
\* candidate again before it deletes it, revocations and deletions come in between,
\* and a call to Cognito or an update may fail in any of them.
StaleIsDeleted ==
    \A i \in Clients :
       clients[i].row \in {"unused", "stale", "disabled"} ~> clients[i].row \in {"recent", "deleted"}

-----------------------------------------------------------------------------
(* Claims of the repository that the code does not keep (README, Deviations) *)

\* "Cleanup job T-4.9 will retry" (dcr_admin.py:219): the app client of a deleted row
\* leaves the pool, although delete_client's own call to Cognito failed.
DeletedLeavesPool ==
    \A i \in Clients : clients[i].row = "deleted" ~> ~clients[i].pool
=============================================================================
