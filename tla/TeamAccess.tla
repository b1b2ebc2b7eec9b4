----------------------------- MODULE TeamAccess -----------------------------
(* Teams, their members and the table of effective access.  A team has users *)
(* and other teams as members, each with a role; user_effective_team_access  *)
(* caches, for every user and team, the roles of all membership paths.  The  *)
(* MCP tools and the web handlers change memberships in transactions that    *)
(* read, write and commit at different times; direct changes refresh the     *)
(* cache themselves, changes between teams leave it to a reconciler that     *)
(* runs every minute.                                                        *)
(*                                                                           *)
(* A transaction is three steps: its checks, its writes (seen by itself      *)
(* only) with the access it computes from them, and its commit.  Role class  *)
(* and permissions are functions of the set of roles that the cache holds    *)
(* here.  Domains are left out, and invitations are part of Provisioning.    *)
EXTENDS Integers, FiniteSets

CONSTANTS
    Users,       \* tenants
    Teams,       \* team ids
    Founder,     \* the user who created each team of the initial state
    Clients,     \* concurrent callers
    Roles,       \* role_key values in use
    MAX_DAG_DEPTH,
    Ops,         \* the tools and handlers of the run
    Syncs,       \* values of force_sync
    MaxChanges   \* bound: calls that pass their checks

ASSUME TeamAssumption ==
    /\ IsFiniteSet(Users)
    /\ DOMAIN Founder \subseteq Teams
    /\ \A t \in DOMAIN Founder : Founder[t] \in Users
    /\ "owner" \in Roles /\ "none" \notin Roles
    /\ MAX_DAG_DEPTH \in Nat \ {0}
    /\ Syncs \subseteq BOOLEAN
    /\ MaxChanges \in Nat

VARIABLES
    teams,      \* the teams that exist
    deleted,    \* those with a deleted_at
    user,       \* user[t][u]: the role of user u in team t
    edge,       \* edge[p][m]: the role of team m in team p
    access,     \* access[u][t]: the roles in the cache, {} when there is no row
    tx,         \* the open transaction of each client
    refresh,    \* the reconciler's transaction
    changes     \* number of calls so far

vars == <<teams, deleted, user, edge, access, tx, refresh, changes>>

ADMIN_ROLE_KEYS == {"owner", "admin"}
RoleOrNone == Roles \cup {"none"}
Pairs == Users \X Teams

UserRow == Teams \X Users \X RoleOrNone
EdgeRow == Teams \X Teams \X RoleOrNone

\* users and edges are the assignments a transaction writes ("none": DELETE), new
\* the rows of the cache it has computed.
NoRows == [pr \in {} |-> {}]
Idle == [pc |-> "idle", users |-> {}, edges |-> {}, sync |-> FALSE, new |-> NoRows]

Asleep == [pc |-> "idle", pairs |-> {}, orphans |-> {}, new |-> NoRows]

----------------------------------------------------------------------------
(* The graph *)

Parents(E, S) == {p \in Teams : \E m \in S : E[p][m] # "none"}
Children(E, S) == {m \in Teams : \E p \in S : E[p][m] # "none"}

\* Teams exactly k edges above and below t.
Above(E, t) == LET A[k \in 0..MAX_DAG_DEPTH] == IF k = 0 THEN {t} ELSE Parents(E, A[k - 1])
               IN  A
Below(E, t) == LET B[k \in 0..MAX_DAG_DEPTH] == IF k = 0 THEN {t} ELSE Children(E, B[k - 1])
               IN  B

walk_ancestors(E, t) == UNION {Above(E, t)[k] : k \in 1..MAX_DAG_DEPTH}
walk_descendants(E, t) == UNION {Below(E, t)[k] : k \in 1..MAX_DAG_DEPTH}

\* The length of the longest chain, as the bounded recursion sees it.
max_chain_depth(level) ==
    CHOOSE k \in 0..MAX_DAG_DEPTH :
       level[k] # {} /\ \A j \in 0..MAX_DAG_DEPTH : level[j] # {} => j <= k

can_add_team_as_member(E, p, m) ==
    /\ p # m
    /\ m \notin walk_ancestors(E, p)
    /\ max_chain_depth(Above(E, p)) + 1 + max_chain_depth(Below(E, m)) <= MAX_DAG_DEPTH

----------------------------------------------------------------------------
(* Effective access *)

\* recursive_membership: the teams at depth 1..MAX_DAG_DEPTH above user u; a team
\* the user belongs to has depth 1.
Membership(U, E, u) ==
    LET R[k \in 1..MAX_DAG_DEPTH] ==
          IF k = 1 THEN {t \in Teams : U[t][u] # "none"} ELSE Parents(E, R[k - 1])
    IN  R

\* recompute_effective_access: the role on the last edge of every path to t.
recompute_effective_access(U, E, u, t) ==
    ({U[t][u]} \cup {E[t][m] : m \in UNION {Membership(U, E, u)[k] : k \in 1..MAX_DAG_DEPTH - 1}})
       \ {"none"}

Recomputed(U, E, S) == [pr \in S |-> recompute_effective_access(U, E, pr[1], pr[2])]

\* upsert_effective_access for every pair of new: no path, no row.
upsert_effective_access(new) ==
    [u \in Users |-> [t \in Teams |-> IF <<u, t>> \in DOMAIN new THEN new[<<u, t>>]
                                                                 ELSE access[u][t]]]

\* Mutation: the ancestors are not refreshed.
sync_refresh_on_user_assignment_Direct(E, t, u) == {<<u, t>>}

sync_refresh_on_user_assignment(E, t, u) == {u} \X ({t} \cup walk_ancestors(E, t))

cascade_on_team_member_change(U, E, p, m) ==
    {u \in Users : \E t \in {m} \cup walk_descendants(E, m) : U[t][u] # "none"}
       \X ({p} \cup walk_ancestors(E, p))

----------------------------------------------------------------------------
(* Transactions *)

Init ==
    /\ teams = DOMAIN Founder
    /\ deleted = {}
    /\ user = [t \in Teams |-> [u \in Users |->
                 IF t \in DOMAIN Founder /\ Founder[t] = u THEN "owner" ELSE "none"]]
    /\ edge = [p \in Teams |-> [m \in Teams |-> "none"]]
    /\ access = [u \in Users |-> [t \in Teams |->
                   IF t \in DOMAIN Founder /\ Founder[t] = u THEN {"owner"} ELSE {}]]
    /\ tx = [c \in Clients |-> Idle]
    /\ refresh = Asleep
    /\ changes = 0

\* The tables as the transaction of client c sees them after its writes.
UserSeen(c) ==
    [t \in Teams |-> [u \in Users |->
       IF \E r \in RoleOrNone : <<t, u, r>> \in tx[c].users
       THEN CHOOSE r \in RoleOrNone : <<t, u, r>> \in tx[c].users ELSE user[t][u]]]
EdgeSeen(c) ==
    [p \in Teams |-> [m \in Teams |->
       IF \E r \in RoleOrNone : <<p, m, r>> \in tx[c].edges
       THEN CHOOSE r \in RoleOrNone : <<p, m, r>> \in tx[c].edges ELSE edge[p][m]]]

\* The checks of a call have passed.
Checked(c, users, edges, sync) ==
    /\ tx[c].pc = "idle"
    /\ changes < MaxChanges
    /\ tx' = [tx EXCEPT ![c] = [pc |-> "checked", users |-> users, edges |-> edges,
                                sync |-> sync, new |-> NoRows]]
    /\ changes' = changes + 1
    /\ UNCHANGED <<teams, deleted, user, edge, access, refresh>>

\* has_permission(team.manage_members).
Manages(a, t) == user[t][a] \in ADMIN_ROLE_KEYS

\* memsys_add_team_member and memsys_assign_role, for a user: an upsert of any
\* role of any user, a member or not.  No tool asks whether the team is deleted.
AssignUser(c) ==
    /\ "assign" \in Ops
    /\ \E a \in Users, t \in teams, u \in Users, r \in Roles :
          Manages(a, t) /\ Checked(c, {<<t, u, r>>}, {}, FALSE)

\* The web's add_member, for a user: the same upsert, also of a member.
WebAddMember(c) ==
    /\ "web_add" \in Ops
    /\ \E a \in Users, t \in teams \ deleted, u \in Users, r \in Roles :
          Manages(a, t) /\ Checked(c, {<<t, u, r>>}, {}, FALSE)

Administrators(t) == Cardinality({u \in Users : user[t][u] \in ADMIN_ROLE_KEYS})

\* The web's protection of the last administrator.
LastAdminProtected(t, u, r) ==
    user[t][u] \in ADMIN_ROLE_KEYS /\ r \notin ADMIN_ROLE_KEYS /\ Administrators(t) = 1

\* The web's patch_member.
PatchMember(c) ==
    /\ "patch" \in Ops
    /\ \E a \in Users, t \in teams, u \in Users, r \in Roles :
          /\ Manages(a, t)
          /\ user[t][u] # "none"
          /\ ~LastAdminProtected(t, u, r)
          /\ Checked(c, {<<t, u, r>>}, {}, FALSE)

\* The owners remove_member counts, teams among them.
SoleOwner(t, u) ==
    /\ user[t][u] = "owner"
    /\ \A v \in Users \ {u} : user[t][v] # "owner"
    /\ \A m \in Teams : edge[t][m] # "owner"

\* memsys_remove_team_member, for a user.
RemoveUser(c) ==
    /\ "remove" \in Ops
    /\ \E a \in Users, t \in teams, u \in Users :
          /\ a = u \/ Manages(a, t)
          /\ ~SoleOwner(t, u)
          /\ Checked(c, {<<t, u, "none">>}, {}, FALSE)

\* The web's remove_member.
WebRemove(c) ==
    /\ "web_remove" \in Ops
    /\ \E a \in Users, t \in teams, u \in Users :
          /\ user[t][a] # "none" /\ user[t][u] # "none"
          /\ a = u \/ Manages(a, t)
          /\ ~LastAdminProtected(t, u, "none")
          /\ ~SoleOwner(t, u)
          /\ Checked(c, {<<t, u, "none">>}, {}, FALSE)

\* memsys_add_team_member, memsys_assign_role and memsys_remove_team_member, for
\* a team.
AssignTeam(c) ==
    /\ "assign_team" \in Ops
    /\ \E a \in Users, p \in teams, m \in teams, r \in Roles, s \in Syncs :
          Manages(a, p) /\ Checked(c, {}, {<<p, m, r>>}, s)

RemoveTeam(c) ==
    /\ "remove_team" \in Ops
    /\ \E a \in Users, p \in teams, m \in teams, s \in Syncs :
          Manages(a, p) /\ Checked(c, {}, {<<p, m, "none">>}, s)

\* memsys_create_team; a parent must have the caller as a member.
CreateTeam(c) ==
    /\ "create" \in Ops
    /\ \E a \in Users, t \in Teams \ teams :
          /\ \A d \in Clients, w \in Users : <<t, w, "owner">> \notin tx[d].users
          /\ \/ Checked(c, {<<t, a, "owner">>}, {}, FALSE)
             \/ \E p \in teams, r \in Roles :
                   user[p][a] # "none" /\ Checked(c, {<<t, a, "owner">>}, {<<p, t, r>>}, FALSE)

\* The web's create_team: no parent, and the creator is the owner.
WebCreateTeam(c) ==
    /\ "web_create" \in Ops
    /\ \E a \in Users, t \in Teams \ teams :
          /\ \A d \in Clients, w \in Users : <<t, w, "owner">> \notin tx[d].users
          /\ Checked(c, {<<t, a, "owner">>}, {}, FALSE)

\* The web's delete_team: its assignments and the cache stay as they are.
WebDeleteTeam ==
    /\ "web_delete" \in Ops
    /\ \E a \in Users, t \in teams \ deleted :
          Manages(a, t) /\ deleted' = deleted \cup {t}
    /\ changes < MaxChanges /\ changes' = changes + 1
    /\ UNCHANGED <<teams, user, edge, access, tx, refresh>>

\* Another transaction has written the same assignment: its row is locked.
RowLocked(c) ==
    \E d \in Clients \ {c} : /\ tx[d].pc = "written"
                             /\ \E x \in tx[c].users, y \in tx[d].users : x[1] = y[1] /\ x[2] = y[2]

\* Mutation: the graph is checked and changed without the lock.
DagLocked_Never(c) == FALSE

\* acquire_dag_lock has to wait.
DagLocked(c) == tx[c].edges # {} /\ \E d \in Clients \ {c} : tx[d].pc = "written" /\ tx[d].edges # {}

EdgesAllowed(c) ==
    \A e \in tx[c].edges : e[3] # "none" => can_add_team_as_member(edge, e[1], e[2])

\* The rows of the cache the transaction refreshes: for its user assignments,
\* which come first, and for its team assignments when force_sync is set.
Refreshed(c) ==
    LET pairs == UNION {sync_refresh_on_user_assignment(edge, x[1], x[2]) : x \in tx[c].users}
        cascade == UNION {cascade_on_team_member_change(user, EdgeSeen(c), e[1], e[2]) : e \in tx[c].edges}
    IN  IF tx[c].sync THEN Recomputed(user, EdgeSeen(c), cascade)
                      ELSE Recomputed(UserSeen(c), edge, pairs)

\* assign_role and remove_member: lock, graph check, INSERT or DELETE, refresh.
Write(c) ==
    /\ tx[c].pc = "checked"
    /\ ~RowLocked(c) /\ ~DagLocked(c)
    /\ EdgesAllowed(c)
    /\ tx' = [tx EXCEPT ![c].pc = "written", ![c].new = Refreshed(c)]
    /\ UNCHANGED <<teams, deleted, user, edge, access, refresh, changes>>

Commit(c) ==
    /\ tx[c].pc = "written"
    /\ teams' = teams \cup {x[1] : x \in tx[c].users}
    /\ user' = UserSeen(c)
    /\ edge' = EdgeSeen(c)
    /\ access' = upsert_effective_access(tx[c].new)
    /\ tx' = [tx EXCEPT ![c] = Idle]
    /\ UNCHANGED <<deleted, refresh, changes>>

\* CycleWouldFormError, MaxDepthExceededError, or any failure before the commit.
Rollback(c) ==
    /\ tx[c].pc # "idle"
    /\ tx' = [tx EXCEPT ![c] = Idle]
    /\ UNCHANGED <<teams, deleted, user, edge, access, refresh, changes>>

----------------------------------------------------------------------------
(* The reconciler *)

\* Mutation: only the pairs that the cache already has are looked at.
RefreshRead_CachedOnly ==
    /\ "refresh" \in Ops
    /\ refresh.pc = "idle"
    /\ refresh' = [pc |-> "read", pairs |-> {pr \in Pairs : access[pr[1]][pr[2]] # {}},
                   orphans |-> {}, new |-> NoRows]
    /\ UNCHANGED <<teams, deleted, user, edge, access, tx, changes>>

\* The pairs the graph implies and the pairs the cache has.
RefreshRead ==
    /\ "refresh" \in Ops
    /\ refresh.pc = "idle"
    /\ LET implied == {pr \in Pairs :
                         \E k \in 1..MAX_DAG_DEPTH : pr[2] \in Membership(user, edge, pr[1])[k]}
           existing == {pr \in Pairs : access[pr[1]][pr[2]] # {}}
       IN  refresh' = [pc |-> "read", pairs |-> implied \cup existing,
                       orphans |-> existing \ implied, new |-> NoRows]
    /\ UNCHANGED <<teams, deleted, user, edge, access, tx, changes>>

RefreshCompute ==
    /\ refresh.pc = "read"
    /\ refresh' = [refresh EXCEPT !.pc = "computed", !.new = Recomputed(user, edge, refresh.pairs)]
    /\ UNCHANGED <<teams, deleted, user, edge, access, tx, changes>>

\* Every pair is upserted, then the orphans are deleted.
RefreshCommit ==
    /\ refresh.pc = "computed"
    /\ access' = upsert_effective_access(
                   [pr \in refresh.pairs |-> IF pr \in refresh.orphans THEN {} ELSE refresh.new[pr]])
    /\ refresh' = Asleep
    /\ UNCHANGED <<teams, deleted, user, edge, tx, changes>>

----------------------------------------------------------------------------
(* What users are shown *)

\* memsys_list_my_teams, and the same list on the web.
list_my_teams(u) == {t \in teams \ deleted : user[t][u] # "none"}

\* The web's member list, for members only; it is shown of a deleted team, too.
list_members(u, t) == IF user[t][u] = "none" THEN {} ELSE {m \in Users : user[t][m] # "none"}

----------------------------------------------------------------------------
Call(c) == AssignUser(c) \/ WebAddMember(c) \/ PatchMember(c) \/ RemoveUser(c) \/ WebRemove(c)
              \/ AssignTeam(c) \/ RemoveTeam(c) \/ CreateTeam(c) \/ WebCreateTeam(c)

Next ==
    \/ \E c \in Clients : Call(c) \/ Write(c) \/ Commit(c) \/ Rollback(c)
    \/ WebDeleteTeam
    \/ RefreshRead \/ RefreshCompute \/ RefreshCommit

Spec == Init /\ [][Next]_vars

\* A transaction ends, and the timer starts the reconciler every minute.
FairSpec ==
    /\ Spec
    /\ \A c \in Clients : WF_vars(Commit(c) \/ Rollback(c))
    /\ WF_vars(RefreshRead) /\ WF_vars(RefreshCompute) /\ WF_vars(RefreshCommit)

----------------------------------------------------------------------------
(* Properties *)

\* Type invariant: tables, transactions and the reconciler are well-formed, and
\* only existing teams have members.
TypeOK ==
    /\ teams \subseteq Teams /\ deleted \subseteq teams
    /\ \A t \in Teams \ teams : /\ \A u \in Users : user[t][u] = "none"
                                /\ \A m \in Teams : edge[t][m] = "none" /\ edge[m][t] = "none"
    /\ user \in [Teams -> [Users -> RoleOrNone]]
    /\ edge \in [Teams -> [Teams -> RoleOrNone]]
    /\ access \in [Users -> [Teams -> SUBSET Roles]]
    /\ \A c \in Clients :
          /\ tx[c].pc \in {"idle", "checked", "written"} /\ tx[c].sync \in BOOLEAN
          /\ tx[c].users \subseteq UserRow /\ tx[c].edges \subseteq EdgeRow
          /\ DOMAIN tx[c].new \subseteq Pairs
    /\ refresh.pc \in {"idle", "read", "computed"}
    /\ refresh.pairs \subseteq Pairs /\ refresh.orphans \subseteq refresh.pairs
    /\ changes \in Nat

\* No chain of teams is longer than MAX_DAG_DEPTH, nor a cycle, which would have
\* no end, also when two chains are joined by concurrent calls (assign_role, under
\* the advisory lock of dag.py): the recursive queries rely on it.
DepthBounded == \A t \in Teams : Parents(edge, Above(edge, t)[MAX_DAG_DEPTH]) = {}

Effective(u, t) == recompute_effective_access(user, edge, u, t)

\* The cache holds what the memberships imply.
CacheAgrees == \A u \in Users, t \in Teams : access[u][t] = Effective(u, t)

\* Amendment #24, sync-by-default for direct user changes, and force_sync for
\* changes between teams: a commit of either leaves a cache that agrees with the
\* memberships agreeing with them, for every user and every team however far above
\* the one that changed, unless another commit has made what it computed stale.
SyncedAccess ==
    [][\A c \in Clients :
          /\ Commit(c)
          /\ \/ tx[c].edges = {} /\ ~tx[c].sync
             \/ tx[c].users = {} /\ tx[c].sync
          /\ tx[c].new = Refreshed(c)
          /\ CacheAgrees
          => CacheAgrees']_vars

\* The reconciler is "the safety net": once the memberships no longer change, the
\* cache comes to agree with them and stays so, whatever races went before.
AccessConverges == <>[]CacheAgrees

-----------------------------------------------------------------------------
(* Claims of the repository that the code does not keep (README, Deviations) *)

\* "the last owner cannot strand a team" (remove_team_member.py:46): every team
\* has a user who can manage its members.
HasAdministrator == \A t \in teams : \E a \in Users : Manages(a, t)
=============================================================================
