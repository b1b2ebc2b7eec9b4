------------------------------ MODULE Gateway ------------------------------
(* What an MCP request passes on its way to a tool and back: the bearer      *)
(* middleware (key lookup in the JWKS cache of the worker, verification,     *)
(* client and tenant), the JSON-RPC transport and registry, and the delivery *)
(* of pending plugin notices with the answer, which GET /api/web/notices     *)
(* does as well.  Composed with the life of the OAuth clients.               *)
(*                                                                           *)
(* One worker process; its requests interleave at awaits, and a claim of     *)
(* notices holds row locks until its commit.  Claims other than the key and  *)
(* the client, the state of the tenant, scopes, arguments and quotas only    *)
(* decide whether a request goes on, which is a choice here; what tools do   *)
(* is the subject of other modules.                                          *)
EXTENDS OAuthClients

CONSTANTS
    Callers,    \* concurrent MCP requests and reads of the notices page
    Ttl,        \* ttl_seconds of JwksCache, in ticks
    FetchMax,   \* the time limit of a JWKS fetch, in ticks
    Limit,      \* notices claimed at a time
    NoticeTtl,  \* ttl_seconds of a notice, in ticks
    Apart,      \* whether client operations and requests wait for one another
    GatewayFaults, \* what may go wrong around the delivery of notices
    MaxKey,     \* bound: signing keys
    MaxNotice   \* bound: notices queued

Keys == 1..MaxKey
Notices == 1..MaxNotice
GatewayFaultNames == {"fetch", "lost", "hook"}

ASSUME GatewayAssumption ==
    /\ Ttl \in Nat /\ FetchMax \in Nat /\ Limit \in Nat \ {0} /\ NoticeTtl \in Nat
    /\ GatewayFaults \subseteq GatewayFaultNames /\ Apart \in BOOLEAN
    /\ MaxKey \in Nat \ {0} /\ MaxNotice \in Nat

\* A retirement is past remembering when no cache can hold the key any more.
Horizon == FetchMax + Ttl
Never == -1

VARIABLES
    newest,     \* the key Cognito signs with
    retired,    \* ticks since each key left the published set, up to Horizon; Never before that
    cache,      \* JwksCache: _payload, and the ticks since _fetched_at (Never: nothing fetched)
    req,        \* the request or read of each caller
    notices,    \* plugin_notices: delivered_at, and the ticks left to expires_at
    shown       \* history: answers that carried each notice

gatewayVars == <<newest, retired, cache, req, notices, shown>>
vars == <<clientVars, gatewayVars>>

\* first: the refresh is for a stale cache, a miss will refresh once more; seen is the
\* key set Cognito answered with; age the ticks since the fetch began; locked are the
\* notices claimed.
Idle == [pc |-> "idle", client |-> None, key |-> None, first |-> FALSE, seen |-> {}, age |-> 0, locked |-> {}]

GatewayTypeOK ==
    /\ newest \in Keys
    /\ retired \in [Keys -> {Never} \cup 0..Horizon]
    /\ cache \in [keys : SUBSET Keys, age : {Never} \cup 0..Ttl]
    /\ req \in [Callers -> [pc : {"idle", "fetching", "served", "unknown_kid", "resolve", "dispatch", "claimed"},
                            client : Clients \cup {None}, key : Keys \cup {None}, first : BOOLEAN,
                            seen : SUBSET Keys, age : 0..FetchMax, locked : SUBSET Notices]]
    /\ notices \in [Notices -> [state : {"none", "pending", "delivered"}, left : 0..NoticeTtl]]
    /\ shown \in [Notices -> Nat]

TypeOK == ClientsTypeOK /\ GatewayTypeOK

Init ==
    /\ ClientsInit
    /\ newest = 1 /\ retired = [k \in Keys |-> Never]
    /\ cache = [keys |-> {}, age |-> Never]
    /\ req = [r \in Callers |-> Idle]
    /\ notices = [n \in Notices |-> [state |-> "none", left |-> 0]]
    /\ shown = [n \in Notices |-> 0]

-----------------------------------------------------------------------------
(* Cognito: signing keys and tokens (external).                              *)

Published == {k \in Keys : k <= newest /\ retired[k] = Never}

\* A new key is published and used from now on.
Rotate ==
    /\ newest < MaxKey
    /\ newest' = newest + 1
    /\ UNCHANGED <<clientVars, retired, cache, req, notices, shown>>

Retire(k) ==
    /\ k \in Published /\ k < newest
    /\ retired' = [retired EXCEPT ![k] = 0]
    /\ UNCHANGED <<clientVars, newest, cache, req, notices, shown>>

\* The tokens Cognito may have issued: to a client while it was in the pool, signed
\* with the newest key of that moment.
Token == {i \in Clients : ~Fresh(i)} \X (1..newest)

-----------------------------------------------------------------------------
(* Verification of the token.                                                *)

\* Mutation: what was fetched once is used for ever.
Stale_Never == cache.age = Never

\* JwksCache._stale.
Stale == cache.age = Never \/ cache.age >= Ttl

\* JwksCache._find in a key set.
Found(k, keys) == k \in keys

\* validate once the key is known, and the claims: the request goes on or gets a 401.
Verified(r, call) ==
    \/ req' = [req EXCEPT ![r] = [Idle EXCEPT !.pc = "resolve", !.client = call.client, !.key = call.key]]
    \/ req' = [req EXCEPT ![r] = Idle]

\* JwksCache.refresh sends its request.
Refreshing(r, call, first) ==
    req' = [req EXCEPT ![r] = [call EXCEPT !.pc = "fetching", !.first = first, !.seen = {}, !.age = 0]]

\* Mutation: a kid that a fresh cache lacks is refused without a refresh.
KidMiss_Refused(r, call) == req' = [req EXCEPT ![r] = [call EXCEPT !.pc = "unknown_kid"]]

\* get_key: the key set at hand has no such kid.
KidMiss(r, call) == Refreshing(r, call, FALSE)

\* get_key up to its first await.
Looked(r, call) ==
    \/ Stale /\ Refreshing(r, call, TRUE)
    \/ ~Stale /\ Found(call.key, cache.keys) /\ Verified(r, call)
    \/ ~Stale /\ ~Found(call.key, cache.keys) /\ KidMiss(r, call)

\* bearer_middleware receives a request with a token; one without is no step.
Arrive(r) ==
    /\ req[r].pc = "idle" /\ (Apart => ClientsAtRest)
    /\ \E t \in Token : Looked(r, [Idle EXCEPT !.client = t[1], !.key = t[2]])
    /\ UNCHANGED <<clientVars, newest, retired, cache, notices, shown>>

\* Cognito answers the fetch with the keys published then.
Serve(r) ==
    /\ req[r].pc = "fetching"
    /\ req' = [req EXCEPT ![r].pc = "served", ![r].seen = Published]
    /\ UNCHANGED <<clientVars, newest, retired, cache, notices, shown>>

\* The answer arrives: refresh stores it and get_key goes on without an await, so it
\* looks the key up in what it has just stored.
Fetched(r) ==
    /\ req[r].pc = "served"
    /\ cache' = [keys |-> req[r].seen, age |-> 0]
    /\ \/ Found(req[r].key, req[r].seen) /\ Verified(r, req[r])
       \/ ~Found(req[r].key, req[r].seen) /\ req[r].first /\ KidMiss(r, req[r])
       \/ ~Found(req[r].key, req[r].seen) /\ ~req[r].first
          /\ req' = [req EXCEPT ![r] = [req[r] EXCEPT !.pc = "unknown_kid"]]
    /\ UNCHANGED <<clientVars, newest, retired, notices, shown>>

\* JwksError: the request is refused, the cache stays.
FetchFails(r) ==
    /\ req[r].pc \in {"fetching", "served"} /\ "fetch" \in GatewayFaults
    /\ req' = [req EXCEPT ![r] = Idle]
    /\ UNCHANGED <<clientVars, newest, retired, cache, notices, shown>>

\* The 401 of an unknown kid.
Refuse(r) ==
    /\ req[r].pc = "unknown_kid"
    /\ req' = [req EXCEPT ![r] = Idle]
    /\ UNCHANGED <<clientVars, newest, retired, cache, notices, shown>>

-----------------------------------------------------------------------------
(* Client, tenant, tool.                                                     *)

\* client_known and not client_disabled, as DbTenantResolver reads the row.
ClientAccepted(i) == clients[i].row \in Live

\* The rest of bearer_middleware.  The touch is a task of its own.
Resolve(r) ==
    /\ req[r].pc = "resolve"
    /\ \/ /\ ClientAccepted(req[r].client)
          /\ req' = [req EXCEPT ![r] = [Idle EXCEPT !.pc = "dispatch"]]
          /\ touches' = touches \cup {req[r].client}
       \/ req' = [req EXCEPT ![r] = Idle] /\ UNCHANGED touches
    /\ UNCHANGED <<clients, register, admin, revoke, cleaner, failures, newest, retired, cache, notices, shown>>

\* mcp_handler answers without a tool: the envelope, the origin or the parameters are
\* refused, or the method is tools/list, initialize or a notification.
HandlerReturns(r) ==
    /\ req[r].pc = "dispatch"
    /\ req' = [req EXCEPT ![r] = Idle]
    /\ UNCHANGED <<clientVars, newest, retired, cache, notices, shown>>

\* dispatch raises (unknown tool, scope, arguments, permission, quota, an error of the
\* tool), or the tool was called by its name and not through tools/call.
DispatchEnds(r) ==
    /\ req[r].pc = "dispatch"
    /\ req' = [req EXCEPT ![r] = Idle]
    /\ UNCHANGED <<clientVars, newest, retired, cache, notices, shown>>

-----------------------------------------------------------------------------
(* Notices.                                                                  *)

\* NoticeClientImpl.queue.
Queue(n) ==
    /\ notices[n].state = "none" /\ \A m \in Notices : m < n => notices[m].state # "none"
    /\ notices' = [notices EXCEPT ![n] = [state |-> "pending", left |-> NoticeTtl]]
    /\ UNCHANGED <<clientVars, newest, retired, cache, req, shown>>

Due(n) == notices[n].state = "pending" /\ notices[n].left > 0

\* The oldest Limit of a set of notices.
Oldest(S) == {n \in S : Cardinality({m \in S : m < n}) < Limit}

\* Mutation: the rows are selected without FOR UPDATE SKIP LOCKED.
Claimable_Locked == {n \in Notices : Due(n)}

\* The subselect of deliver_pending: rows another claim holds are skipped.
Claimable == {n \in Notices : Due(n) /\ \A r \in Callers : n \notin req[r].locked}

\* The tool has answered: mcp_handler opens a transaction and runs deliver_pending.
Claim(r) ==
    /\ req[r].pc = "dispatch"
    /\ req' = [req EXCEPT ![r].pc = "claimed", ![r].locked = Oldest(Claimable)]
    /\ UNCHANGED <<clientVars, newest, retired, cache, notices, shown>>

\* get_notices does the same for a web session.
ReadNotices(r) ==
    /\ req[r].pc = "idle"
    /\ req' = [req EXCEPT ![r].pc = "claimed", ![r].locked = Oldest(Claimable)]
    /\ UNCHANGED <<clientVars, newest, retired, cache, notices, shown>>

Delivered(S) == [n \in Notices |-> IF n \in S THEN [notices[n] EXCEPT !.state = "delivered", !.left = 0] ELSE notices[n]]
Shown(S) == [n \in Notices |-> IF n \in S THEN shown[n] + 1 ELSE shown[n]]

\* The commit and the answer.  lost: the answer does not arrive, or the process dies
\* before the commit.  hook: a surface_pending_state whose statement fails aborts the
\* transaction, the exception is swallowed, the COMMIT rolls back, and the answer
\* carries the notices all the same.
Answer(r) ==
    /\ req[r].pc = "claimed"
    /\ req' = [req EXCEPT ![r] = Idle]
    /\ \/ notices' = Delivered(req[r].locked) /\ shown' = Shown(req[r].locked)
       \/ "lost" \in GatewayFaults /\ notices' = Delivered(req[r].locked) /\ UNCHANGED shown
       \/ "lost" \in GatewayFaults /\ UNCHANGED <<notices, shown>>
       \/ "hook" \in GatewayFaults /\ UNCHANGED notices /\ shown' = Shown(req[r].locked)
    /\ UNCHANGED <<clientVars, newest, retired, cache>>

-----------------------------------------------------------------------------

Older(t, max) == IF t = Never \/ t = max THEN t ELSE t + 1

\* timeout_seconds of HttpxJwksFetcher ends a fetch.
Tick ==
    /\ \A r \in Callers : req[r].pc \in {"fetching", "served"} => req[r].age < FetchMax
    /\ retired' = [k \in Keys |-> Older(retired[k], Horizon)]
    /\ cache' = [cache EXCEPT !.age = Older(@, Ttl)]
    /\ req' = [r \in Callers |->
                 IF req[r].pc \in {"fetching", "served"} THEN [req[r] EXCEPT !.age = @ + 1] ELSE req[r]]
    /\ notices' = [n \in Notices |->
                     IF notices[n].left > 0 THEN [notices[n] EXCEPT !.left = @ - 1] ELSE notices[n]]
    /\ UNCHANGED <<clientVars, newest, shown>>

Next ==
    \/ ClientCall /\ (Apart => \A r \in Callers : req[r].pc = "idle") /\ UNCHANGED gatewayVars
    \/ ClientStep /\ UNCHANGED gatewayVars
    \/ Rotate \/ Tick
    \/ \E k \in Keys : Retire(k)
    \/ \E n \in Notices : Queue(n)
    \/ \E r \in Callers :
          \/ Arrive(r) \/ Serve(r) \/ Fetched(r) \/ FetchFails(r) \/ Refuse(r)
          \/ Resolve(r) \/ HandlerReturns(r) \/ DispatchEnds(r) \/ Claim(r) \/ ReadNotices(r) \/ Answer(r)

Spec == Init /\ [][Next]_vars /\ ClientsFairness

-----------------------------------------------------------------------------

\* A token signed with a retired key is accepted only while a cache may still hold
\* the key: less than a fetch plus ttl_seconds after the retirement, however the
\* fetches of concurrent requests overlap and overwrite one another.
RetiredKeyRefused ==
    [][\A r \in Callers :
          req[r].pc # "resolve" /\ req'[r].pc = "resolve" => retired[req'[r].key] < Horizon]_vars

\* A token whose key is still published is never refused as unknown_kid, although the
\* key may be newer than the cache and other requests replace the cache meanwhile.
PublishedKeyKnown == \A r \in Callers : req[r].pc = "unknown_kid" => req[r].key \notin Published

\* deliver_pending gives a notice to one answer at most, of tool calls and page reads
\* that run at the same time.
NoticeShownOnce == \A n \in Notices : shown[n] <= 1
=============================================================================
