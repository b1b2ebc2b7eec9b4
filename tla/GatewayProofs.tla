--------------------------- MODULE GatewayProofs ---------------------------
(* Proofs about Gateway for every value of its constants: type correctness, *)
(* the fate of tokens around a key rotation (a published key is known, a    *)
(* retired one is refused in time), and notices shown once.                 *)
EXTENDS Gateway, TLAPS

----------------------------------------------------------------------------
(* Types.                                                                    *)

\* An idle caller's record is well-formed, and so is one about to resolve.
ReqType == [pc : {"idle", "fetching", "served", "unknown_kid", "resolve", "dispatch", "claimed"},
            client : Clients \cup {None}, key : Keys \cup {None}, first : BOOLEAN,
            seen : SUBSET Keys, age : 0..FetchMax, locked : SUBSET Notices]

LEMMA IdleType == Idle \in ReqType
BY GatewayAssumption DEF Idle, ReqType, None

\* Taking an app client out of the pool leaves well-formed tables.
LEMMA OutOfPoolType ==
    ASSUME ClientsTypeOK, NEW i \in Clients
    PROVE  OutOfPool(i) \in [Clients -> Client]
<1>1. clients \in [Clients -> Client]
  BY DEF ClientsTypeOK
<1>2. clients[i] \in Client
  BY <1>1
<1>3. [clients[i] EXCEPT !.pool = FALSE] \in Client
  BY <1>2, Zenon DEF Client
<1>4. OutOfPool(i) = [clients EXCEPT ![i] = [clients[i] EXCEPT !.pool = FALSE]]
  BY DEF OutOfPool
<1> QED BY <1>1, <1>3, <1>4

\* The steps of the OAuth clients keep their tables well-formed.
LEMMA ClientsType == ClientsTypeOK /\ (ClientCall \/ ClientStep) => ClientsTypeOK'
<1> SUFFICES ASSUME ClientsTypeOK, ClientCall \/ ClientStep
             PROVE  ClientsTypeOK'
  OBVIOUS
<1> USE OAuthClientsAssumption DEF ClientsTypeOK, Client, Live
<1>1. None \notin Clients
  BY DEF Clients, None
<1>2. ASSUME NEW f, Fails(f) \/ Works
      PROVE  failures' \in 0..MaxFaults
  BY <1>2 DEF Fails, Works
<1>3. ASSUME NEW i \in Clients, RegisterCreate(i) PROVE ClientsTypeOK'
  BY <1>3 DEF RegisterCreate, InPool
<1>4. ASSUME NEW i \in Clients, RegisterInsert(i) PROVE ClientsTypeOK'
  <2>1. clients' \in [Clients -> Client]
    BY <1>4 DEF RegisterInsert, Inserted
  <2>2. failures' \in 0..MaxFaults
    BY <1>2, <1>4 DEF RegisterInsert
  <2> QED BY <1>4, <2>1, <2>2 DEF RegisterInsert
<1>5. ASSUME NEW i \in Clients, AdminDelete(i) PROVE ClientsTypeOK'
  BY <1>5 DEF AdminDelete, SoftDeleted
<1>6. ASSUME NEW i \in Clients, AdminDeletePool(i) PROVE ClientsTypeOK'
  <2>1. clients' \in [Clients -> Client]
    BY <1>6, OutOfPoolType DEF AdminDeletePool
  <2>2. failures' \in 0..MaxFaults
    BY <1>2, <1>6 DEF AdminDeletePool
  <2> QED BY <1>6, <2>1, <2>2 DEF AdminDeletePool
<1>7. ASSUME NEW i \in Clients, Revoke(i) PROVE ClientsTypeOK'
  BY <1>7 DEF Revoke
<1>8. ASSUME NEW i \in Clients, RevokePool(i) PROVE ClientsTypeOK'
  <2>1. clients' \in [Clients -> Client]
    BY <1>8, OutOfPoolType DEF RevokePool
  <2> QED BY <1>2, <1>8, <2>1 DEF RevokePool
<1>9. ASSUME NEW i \in Clients, RevokeCommit(i) PROVE ClientsTypeOK'
  <2>1. clients' \in [Clients -> Client]
    BY <1>9 DEF RevokeCommit
  <2>2. failures' \in 0..MaxFaults
    BY <1>2, <1>9 DEF RevokeCommit
  <2> QED BY <1>9, <2>1, <2>2 DEF RevokeCommit
<1>10. CASE CleanList
  BY <1>10 DEF CleanList, Candidates
<1>11. ASSUME NEW i \in Clients, CleanPool(i) PROVE ClientsTypeOK'
  <2>1. clients' \in [Clients -> Client]
    BY <1>11, OutOfPoolType DEF CleanPool
  <2>3. failures' \in 0..MaxFaults
    BY <1>2, <1>11 DEF CleanPool
  <2>2. cleaner' \in [todo : SUBSET Clients, gone : Clients \cup {None}]
    BY <1>11 DEF CleanPool
  <2> QED BY <1>11, <2>1, <2>2, <2>3 DEF CleanPool
<1>12. CASE Tombstone
  <2>1. cleaner.gone \in Clients
    BY <1>12 DEF Tombstone
  <2>2. clients' \in [Clients -> Client] /\ failures' \in 0..MaxFaults
    BY <1>2, <1>12, <2>1 DEF Tombstone, SoftDeleted
  <2> QED BY <1>12, <2>2 DEF Tombstone
<1>13. ASSUME NEW i \in Clients, Touch(i) PROVE ClientsTypeOK'
  BY <1>2, <1>13 DEF Touch
<1>14. ASSUME NEW i \in Clients, GrowOld(i) PROVE ClientsTypeOK'
  BY <1>14 DEF GrowOld
<1> QED
  BY <1>3, <1>4, <1>5, <1>6, <1>7, <1>8, <1>9, <1>10, <1>11, <1>12, <1>13, <1>14
  DEF ClientCall, ClientStep

\* A request under way names a client and a key.
CallsNamed ==
    \A r \in Callers : req[r].pc \in {"fetching", "served", "unknown_kid", "resolve"}
                       => req[r].client \in Clients /\ req[r].key \in Keys

\* The initial state is well-formed.
LEMMA InitType == Init => TypeOK /\ CallsNamed
<1> SUFFICES ASSUME Init PROVE TypeOK /\ CallsNamed
  OBVIOUS
<1> USE OAuthClientsAssumption, GatewayAssumption
<1>1. ClientsTypeOK
  BY DEF Init, ClientsInit, ClientsTypeOK, Client, Clients, None
<1>2. req \in [Callers -> ReqType]
  BY IdleType DEF Init
<1>3. notices \in [Notices -> [state : {"none", "pending", "delivered"}, left : 0..NoticeTtl]]
  BY DEF Init
<1>4. newest \in Keys /\ retired \in [Keys -> {Never} \cup 0..Horizon]
  BY DEF Init, Keys
<1>5. cache \in [keys : SUBSET Keys, age : {Never} \cup 0..Ttl] /\ shown \in [Notices -> Nat]
  BY DEF Init
<1>6. CallsNamed
  BY DEF Init, CallsNamed, Idle
<1> QED BY <1>1, <1>2, <1>3, <1>4, <1>5, <1>6 DEF TypeOK, GatewayTypeOK, ReqType

\* What every step of a caller does to its own record.
LEMMA VerifiedType ==
    ASSUME TypeOK, NEW r \in Callers, NEW call \in ReqType, Verified(r, call)
    PROVE  req' \in [Callers -> ReqType]
<1>1. [Idle EXCEPT !.pc = "resolve", !.client = call.client, !.key = call.key] \in ReqType
  BY IdleType DEF ReqType
<1>2. req \in [Callers -> ReqType]
  BY DEF TypeOK, GatewayTypeOK, ReqType
<1> QED BY <1>1, <1>2, IdleType DEF Verified

LEMMA RefreshingType ==
    ASSUME TypeOK, NEW r \in Callers, NEW call \in ReqType, NEW first \in BOOLEAN,
           Refreshing(r, call, first)
    PROVE  req' \in [Callers -> ReqType]
<1>1. [call EXCEPT !.pc = "fetching", !.first = first, !.seen = {}, !.age = 0] \in ReqType
  <2>1. 0 \in 0..FetchMax /\ {} \in SUBSET Keys
    BY GatewayAssumption
  <2> QED BY <2>1, Zenon DEF ReqType
<1>2. req \in [Callers -> ReqType]
  BY DEF TypeOK, GatewayTypeOK, ReqType
<1> QED BY <1>1, <1>2 DEF Refreshing

\* A verified request goes on with its client and key and nothing else, or is over.
LEMMA VerifiedRecord ==
    ASSUME TypeOK, NEW r \in Callers, NEW call, Verified(r, call)
    PROVE  /\ \A q \in Callers : q # r => req'[q] = req[q]
           /\ \/ req'[r] = Idle
              \/ /\ req'[r].pc = "resolve" /\ req'[r].client = call.client /\ req'[r].key = call.key
                 /\ req'[r].locked = {}
<1>0. req \in [Callers -> ReqType]
  BY DEF TypeOK, GatewayTypeOK, ReqType
<1> DEFINE go == [Idle EXCEPT !.pc = "resolve", !.client = call.client, !.key = call.key]
<1>1. go.pc = "resolve" /\ go.client = call.client /\ go.key = call.key /\ go.locked = {}
  BY DEF Idle
<1>2. CASE req' = [req EXCEPT ![r] = go]
  <2>1. req'[r] = go
    BY <1>0, <1>2
  <2> QED BY <1>0, <1>1, <1>2, <2>1
<1>3. CASE req' = [req EXCEPT ![r] = Idle]
  BY <1>0, <1>3
<1> QED BY <1>2, <1>3 DEF Verified

\* A refresh begins with no key set and keeps what the request is about.
LEMMA RefreshingRecord ==
    ASSUME TypeOK, NEW r \in Callers, NEW call \in ReqType, NEW first \in BOOLEAN,
           Refreshing(r, call, first)
    PROVE  /\ \A q \in Callers : q # r => req'[q] = req[q]
           /\ req'[r].pc = "fetching" /\ req'[r].client = call.client /\ req'[r].key = call.key
           /\ req'[r].seen = {} /\ req'[r].age = 0 /\ req'[r].locked = call.locked
<1>0. req \in [Callers -> ReqType]
  BY DEF TypeOK, GatewayTypeOK, ReqType
<1> DEFINE go == [call EXCEPT !.pc = "fetching", !.first = first, !.seen = {}, !.age = 0]
<1>1. req' = [req EXCEPT ![r] = go]
  BY DEF Refreshing
<1>2. req'[r] = go
  BY <1>0, <1>1
<1>3. go.pc = "fetching" /\ go.seen = {} /\ go.age = 0
      /\ go.client = call.client /\ go.key = call.key /\ go.locked = call.locked
  BY Zenon DEF ReqType
<1> HIDE DEF go
<1> QED BY <1>0, <1>1, <1>2, <1>3

\* Every step keeps the types.
LEMMA TypeStep == TypeOK /\ CallsNamed /\ [Next]_vars => TypeOK'
<1> SUFFICES ASSUME TypeOK, CallsNamed, [Next]_vars PROVE TypeOK'
  OBVIOUS
<1> USE OAuthClientsAssumption, GatewayAssumption
<1>0. req \in [Callers -> ReqType]
  BY DEF TypeOK, GatewayTypeOK, ReqType
<1>1. ASSUME UNCHANGED clientVars PROVE ClientsTypeOK'
  BY <1>1 DEF TypeOK, ClientsTypeOK, clientVars
<1>2. ASSUME UNCHANGED gatewayVars PROVE GatewayTypeOK'
  BY <1>2 DEF TypeOK, GatewayTypeOK, gatewayVars
<1>3. ASSUME req' \in [Callers -> ReqType], UNCHANGED <<newest, retired, cache, notices, shown>>
      PROVE  GatewayTypeOK'
  BY <1>3 DEF TypeOK, GatewayTypeOK, ReqType
<1>4. CASE (ClientCall \/ ClientStep) /\ UNCHANGED gatewayVars
  BY <1>2, <1>4, ClientsType DEF TypeOK
<1>5. CASE Rotate
  BY <1>1, <1>5 DEF TypeOK, GatewayTypeOK, Rotate, Keys
<1>6. CASE Tick
  <2>1. retired' \in [Keys -> {Never} \cup 0..Horizon]
    <3> SUFFICES ASSUME NEW k \in Keys PROVE Older(retired[k], Horizon) \in {Never} \cup 0..Horizon
      BY <1>6 DEF Tick
    <3>1. retired[k] \in {Never} \cup 0..Horizon /\ Horizon \in Nat
      BY DEF TypeOK, GatewayTypeOK, Horizon
    <3> QED BY <3>1 DEF Older, Never
  <2>2. cache' \in [keys : SUBSET Keys, age : {Never} \cup 0..Ttl]
    <3>1. cache \in [keys : SUBSET Keys, age : {Never} \cup 0..Ttl]
      BY DEF TypeOK, GatewayTypeOK
    <3>2. Older(cache.age, Ttl) \in {Never} \cup 0..Ttl
      BY <3>1 DEF Older, Never
    <3>3. cache' = [cache EXCEPT !.age = Older(cache.age, Ttl)]
      BY <1>6 DEF Tick
    <3> QED BY <3>1, <3>2, <3>3
  <2>3. req' \in [Callers -> ReqType]
    <3> SUFFICES ASSUME NEW r \in Callers, req[r].pc \in {"fetching", "served"}
                 PROVE  [req[r] EXCEPT !.age = @ + 1] \in ReqType
      BY <1>0, <1>6 DEF Tick
    <3>1. req[r] \in ReqType /\ req[r].age < FetchMax
      BY <1>0, <1>6 DEF Tick
    <3>2. req[r].age + 1 \in 0..FetchMax
      BY <3>1 DEF ReqType
    <3> QED BY <3>1, <3>2 DEF ReqType
  <2>4. notices' \in [Notices -> [state : {"none", "pending", "delivered"}, left : 0..NoticeTtl]]
    <3> SUFFICES ASSUME NEW n \in Notices, notices[n].left > 0
                 PROVE  [notices[n] EXCEPT !.left = @ - 1]
                           \in [state : {"none", "pending", "delivered"}, left : 0..NoticeTtl]
      BY <1>6 DEF Tick, TypeOK, GatewayTypeOK
    <3>1. notices[n] \in [state : {"none", "pending", "delivered"}, left : 0..NoticeTtl]
      BY DEF TypeOK, GatewayTypeOK
    <3>2. notices[n].left - 1 \in 0..NoticeTtl
      BY <3>1
    <3> QED BY <3>1, <3>2
  <2> QED BY <1>1, <1>6, <2>1, <2>2, <2>3, <2>4 DEF Tick, TypeOK, GatewayTypeOK, ReqType
<1>7. ASSUME NEW k \in Keys, Retire(k) PROVE TypeOK'
  <2>1. 0 \in 0..Horizon
    BY DEF Horizon
  <2> QED BY <1>1, <1>7, <2>1 DEF TypeOK, GatewayTypeOK, Retire
<1>8. ASSUME NEW n \in Notices, Queue(n) PROVE TypeOK'
  <2>1. [state |-> "pending", left |-> NoticeTtl] \in [state : {"none", "pending", "delivered"}, left : 0..NoticeTtl]
    OBVIOUS
  <2> QED BY <1>1, <1>8, <2>1 DEF TypeOK, GatewayTypeOK, Queue
<1>9. ASSUME NEW r \in Callers, Arrive(r) PROVE TypeOK'
  <2>1. PICK t \in Token : Looked(r, [Idle EXCEPT !.client = t[1], !.key = t[2]])
    BY <1>9 DEF Arrive
  <2>2. t[1] \in Clients /\ t[2] \in Keys
    BY DEF Token, Keys, TypeOK, GatewayTypeOK
  <2>3. [Idle EXCEPT !.client = t[1], !.key = t[2]] \in ReqType
    BY <2>2, IdleType DEF ReqType
  <2>4. req' \in [Callers -> ReqType]
    BY <2>1, <2>3, VerifiedType, RefreshingType DEF Looked, KidMiss
  <2> QED BY <1>1, <1>3, <1>9, <2>4 DEF Arrive, TypeOK
<1>10. ASSUME NEW r \in Callers, Serve(r) PROVE TypeOK'
  <2>1. Published \in SUBSET Keys
    BY DEF Published
  <2>2. req' \in [Callers -> ReqType]
    <3>1. [req[r] EXCEPT !.pc = "served", !.seen = Published] \in ReqType
      BY <1>0, <2>1 DEF ReqType
    <3>2. req' = [req EXCEPT ![r] = [req[r] EXCEPT !.pc = "served", !.seen = Published]]
      BY <1>0, <1>10 DEF Serve
    <3> QED BY <1>0, <3>1, <3>2
  <2> QED BY <1>1, <1>3, <1>10, <2>2 DEF Serve, TypeOK
<1>11. ASSUME NEW r \in Callers, Fetched(r) PROVE TypeOK'
  <2>1. req[r] \in ReqType
    BY <1>0
  <2>2. cache' \in [keys : SUBSET Keys, age : {Never} \cup 0..Ttl]
    BY <1>11, <2>1 DEF Fetched, ReqType
  <2>3. [req[r] EXCEPT !.pc = "unknown_kid"] \in ReqType
    BY <2>1 DEF ReqType
  <2>4. req' \in [Callers -> ReqType]
    BY <1>0, <1>11, <2>1, <2>3, VerifiedType, RefreshingType DEF Fetched, KidMiss
  <2> QED BY <1>1, <1>11, <2>2, <2>4 DEF Fetched, TypeOK, GatewayTypeOK, ReqType
<1>12. ASSUME NEW r \in Callers, FetchFails(r) \/ Refuse(r) \/ HandlerReturns(r) \/ DispatchEnds(r)
       PROVE  TypeOK'
  <2>1. req' \in [Callers -> ReqType]
    BY <1>0, <1>12, IdleType DEF FetchFails, Refuse, HandlerReturns, DispatchEnds
  <2> QED BY <1>1, <1>3, <1>12, <2>1 DEF FetchFails, Refuse, HandlerReturns, DispatchEnds, TypeOK
<1>13. ASSUME NEW r \in Callers, Resolve(r) PROVE TypeOK'
  <2>1. [Idle EXCEPT !.pc = "dispatch"] \in ReqType
    BY IdleType DEF ReqType
  <2>2. req' \in [Callers -> ReqType]
    BY <1>0, <1>13, <2>1, IdleType DEF Resolve
  <2>3. ClientsTypeOK'
    <3>1. req[r].client \in Clients
      BY <1>13 DEF Resolve, CallsNamed
    <3> QED BY <1>13, <3>1 DEF Resolve, TypeOK, ClientsTypeOK
  <2> QED BY <1>3, <1>13, <2>2, <2>3 DEF Resolve, TypeOK
<1>14. ASSUME NEW r \in Callers, Claim(r) \/ ReadNotices(r) PROVE TypeOK'
  <2>1. Oldest(Claimable) \in SUBSET Notices
    BY DEF Oldest, Claimable
  <2>2. req' \in [Callers -> ReqType]
    BY <1>0, <1>14, <2>1 DEF Claim, ReadNotices, ReqType
  <2> QED BY <1>1, <1>3, <1>14, <2>2 DEF Claim, ReadNotices, TypeOK
<1>15. ASSUME NEW r \in Callers, Answer(r) PROVE TypeOK'
  <2>1. req' \in [Callers -> ReqType]
    BY <1>0, <1>15, IdleType DEF Answer
  <2>2. Delivered(req[r].locked) \in [Notices -> [state : {"none", "pending", "delivered"}, left : 0..NoticeTtl]]
    <3> SUFFICES ASSUME NEW n \in Notices
                 PROVE  [notices[n] EXCEPT !.state = "delivered", !.left = 0]
                           \in [state : {"none", "pending", "delivered"}, left : 0..NoticeTtl]
      BY DEF Delivered, TypeOK, GatewayTypeOK
    <3>1. notices[n] \in [state : {"none", "pending", "delivered"}, left : 0..NoticeTtl]
      BY DEF TypeOK, GatewayTypeOK
    <3>2. 0 \in 0..NoticeTtl
      OBVIOUS
    <3> QED BY <3>1, <3>2, Zenon
  <2>3. Shown(req[r].locked) \in [Notices -> Nat]
    BY DEF Shown, TypeOK, GatewayTypeOK
  <2> QED BY <1>1, <1>15, <2>1, <2>2, <2>3 DEF Answer, TypeOK, GatewayTypeOK, ReqType
<1>16. CASE UNCHANGED vars
  BY <1>1, <1>2, <1>16 DEF vars, TypeOK
<1> QED
  BY <1>4, <1>5, <1>6, <1>7, <1>8, <1>9, <1>10, <1>11, <1>12, <1>13, <1>14, <1>15, <1>16 DEF Next

\* A caller whose record is new has one that comes from Verified or Refreshing, or one
\* that waits for no key.
LEMMA NamedStep == TypeOK /\ CallsNamed /\ [Next]_vars => CallsNamed'
<1> SUFFICES ASSUME TypeOK, CallsNamed, [Next]_vars, NEW q \in Callers,
                    req'[q].pc \in {"fetching", "served", "unknown_kid", "resolve"}
             PROVE  req'[q].client \in Clients /\ req'[q].key \in Keys
  BY DEF CallsNamed
<1>0. req \in [Callers -> ReqType]
  BY DEF TypeOK, GatewayTypeOK, ReqType
<1>1. CASE req'[q] = req[q]
  BY <1>1 DEF CallsNamed
<1>2. ASSUME NEW r \in Callers, Arrive(r) PROVE req'[q].client \in Clients /\ req'[q].key \in Keys
  <2>1. PICK t \in Token : Looked(r, [Idle EXCEPT !.client = t[1], !.key = t[2]])
    BY <1>2 DEF Arrive
  <2>2. t[1] \in Clients /\ t[2] \in Keys
    BY GatewayAssumption DEF Token, Keys, TypeOK, GatewayTypeOK
  <2> DEFINE call == [Idle EXCEPT !.client = t[1], !.key = t[2]]
  <2>3. call \in ReqType /\ call.client = t[1] /\ call.key = t[2]
    BY <2>2, IdleType DEF ReqType, Idle
  <2> HIDE DEF call
  <2>4. CASE Verified(r, call)
    BY <1>1, <2>2, <2>3, <2>4, VerifiedRecord DEF Idle
  <2>5. ASSUME NEW b \in BOOLEAN, Refreshing(r, call, b)
        PROVE  req'[q].client \in Clients /\ req'[q].key \in Keys
    BY <1>1, <2>2, <2>3, <2>5, RefreshingRecord
  <2> QED BY <2>1, <2>4, <2>5 DEF Looked, KidMiss, call
<1>3. ASSUME NEW r \in Callers, Serve(r) PROVE req'[q].client \in Clients /\ req'[q].key \in Keys
  <2>1. req[r].client \in Clients /\ req[r].key \in Keys
    BY <1>3 DEF Serve, CallsNamed
  <2>2. q = r => req'[q].client = req[r].client /\ req'[q].key = req[r].key
    BY <1>0, <1>3 DEF Serve, ReqType
  <2>3. q # r => req'[q] = req[q]
    BY <1>0, <1>3 DEF Serve
  <2> QED BY <1>1, <2>1, <2>2, <2>3
<1>4. ASSUME NEW r \in Callers, Fetched(r) PROVE req'[q].client \in Clients /\ req'[q].key \in Keys
  <2>1. req[r].client \in Clients /\ req[r].key \in Keys
    BY <1>4 DEF Fetched, CallsNamed
  <2>2. req[r] \in ReqType
    BY <1>0
  <2>3. CASE Verified(r, req[r])
    BY <1>1, <2>1, <2>3, VerifiedRecord DEF Idle
  <2>4. CASE Refreshing(r, req[r], FALSE)
    BY <1>1, <2>1, <2>2, <2>4, RefreshingRecord
  <2>5. CASE req' = [req EXCEPT ![r] = [req[r] EXCEPT !.pc = "unknown_kid"]]
    BY <1>0, <1>1, <2>1, <2>2, <2>5 DEF ReqType
  <2> QED BY <1>4, <2>3, <2>4, <2>5 DEF Fetched, KidMiss
<1>5. ASSUME NEW r \in Callers,
             FetchFails(r) \/ Refuse(r) \/ Resolve(r) \/ HandlerReturns(r) \/ DispatchEnds(r)
             \/ Claim(r) \/ ReadNotices(r) \/ Answer(r)
      PROVE  req'[q] = req[q]
  BY <1>0, <1>5 DEF FetchFails, Refuse, Resolve, HandlerReturns, DispatchEnds, Claim, ReadNotices,
                    Answer, Idle, ReqType
<1>6. CASE Tick
  <2>1. req'[q].pc = req[q].pc /\ req'[q].client = req[q].client /\ req'[q].key = req[q].key
    BY <1>0, <1>6 DEF Tick, ReqType
  <2> QED BY <2>1 DEF CallsNamed
<1>7. ASSUME UNCHANGED req PROVE req'[q] = req[q]
  BY <1>7
<1> QED
  BY <1>1, <1>2, <1>3, <1>4, <1>5, <1>6, <1>7
  DEF Next, vars, gatewayVars, Rotate, Retire, Queue

\* Rows of oauth_clients, cached keys, requests under way and notices stay well-formed
\* under every interleaving of registrations, revocations, the cleanup job, requests,
\* key rotations and time.
THEOREM TypeCorrect == Spec => []TypeOK
<1>1. TypeOK /\ CallsNamed /\ [Next]_vars => (TypeOK /\ CallsNamed)'
  BY TypeStep, NamedStep
<1> QED BY <1>1, InitType, PTL DEF Spec

----------------------------------------------------------------------------
(* Keys.                                                                     *)

\* What the worker knows of the published keys.  A key set in a cache or in an answer
\* on its way is as old as its fetch, so a key in it was retired no longer ago.  A key
\* that the answer lacks was retired before: tokens are signed with published keys.
KeysInv ==
    /\ \A k \in cache.keys : retired[k] <= FetchMax + cache.age
    /\ cache.age = Never => cache.keys = {}
    /\ \A r \in Callers :
          /\ req[r].pc \in {"fetching", "served", "unknown_kid"} => req[r].key <= newest
          /\ req[r].pc = "served" =>
                /\ \A k \in req[r].seen : retired[k] <= req[r].age
                /\ req[r].key \notin req[r].seen => retired[req[r].key] # Never
          /\ req[r].pc = "unknown_kid" => retired[req[r].key] # Never

IInv == TypeOK /\ CallsNamed /\ KeysInv

\* A step that leaves the keys, the cache and the key work of every request alone, or
\* ends the key work, keeps the invariant.
LEMMA KeysFrame ==
    ASSUME IInv, UNCHANGED <<newest, retired, cache>>,
           \A q \in Callers : req'[q] = req[q] \/ req'[q].pc \in {"idle", "resolve", "dispatch", "claimed"}
    PROVE  KeysInv'
BY DEF IInv, KeysInv

\* A step of one caller that begins a refresh keeps it too.
LEMMA KeysRefreshing ==
    ASSUME IInv, NEW r \in Callers, NEW call \in ReqType, NEW first \in BOOLEAN,
           Refreshing(r, call, first), call.key <= newest, UNCHANGED <<newest, retired>>,
           \A k \in cache'.keys : retired[k] <= FetchMax + cache'.age,
           cache'.age = Never => cache'.keys = {}
    PROVE  KeysInv'
<1>1. /\ \A q \in Callers : q # r => req'[q] = req[q]
      /\ req'[r].pc = "fetching" /\ req'[r].key = call.key
  BY RefreshingRecord DEF IInv
<1> QED BY <1>1 DEF IInv, KeysInv

LEMMA KeysInit == Init => KeysInv
BY GatewayAssumption DEF Init, KeysInv, Idle, Never

LEMMA KeysStep == IInv /\ [Next]_vars => KeysInv'
<1> SUFFICES ASSUME IInv, [Next]_vars PROVE KeysInv'
  OBVIOUS
<1> USE GatewayAssumption
<1>0. /\ req \in [Callers -> ReqType] /\ newest \in Keys /\ TypeOK
      /\ retired \in [Keys -> {Never} \cup 0..Horizon]
      /\ cache \in [keys : SUBSET Keys, age : {Never} \cup 0..Ttl]
  BY DEF IInv, TypeOK, GatewayTypeOK, ReqType
<1>1. CASE UNCHANGED gatewayVars
  BY <1>1, KeysFrame DEF gatewayVars
<1>2. CASE Rotate
  <2>1. newest <= newest'
    BY <1>0, <1>2 DEF Rotate, Keys
  <2>2. \A r \in Callers : req[r].pc \in {"fetching", "served", "unknown_kid"} => req[r].key \in Keys
    BY DEF IInv, CallsNamed
  <2>3. \A r \in Callers : req[r].pc \in {"fetching", "served", "unknown_kid"} => req[r].key <= newest'
    BY <1>0, <1>2, <2>1, <2>2 DEF IInv, KeysInv, Rotate, Keys
  <2> QED BY <1>2, <2>3 DEF IInv, KeysInv, Rotate
<1>3. ASSUME NEW k \in Keys, Retire(k) PROVE KeysInv'
  <2>1. \A j \in Keys : retired'[j] = IF j = k THEN 0 ELSE retired[j]
    BY <1>0, <1>3 DEF Retire
  <2>2. UNCHANGED <<newest, cache, req>>
    BY <1>3 DEF Retire
  <2>3. ASSUME NEW j \in cache'.keys PROVE retired'[j] <= FetchMax + cache'.age
    <3>1. cache.age \in 0..Ttl /\ j \in Keys
      BY <1>0, <2>2, <2>3 DEF IInv, KeysInv
    <3> QED BY <2>1, <2>2, <2>3, <3>1 DEF IInv, KeysInv
  <2>4. ASSUME NEW r \in Callers, req'[r].pc = "served"
        PROVE  /\ \A j \in req'[r].seen : retired'[j] <= req'[r].age
               /\ req'[r].key \notin req'[r].seen => retired'[req'[r].key] # Never
    <3>1. req[r] \in ReqType /\ req[r].key \in Keys
      BY <1>0, <2>2, <2>4 DEF IInv, CallsNamed
    <3>2. req[r].age \in 0..FetchMax /\ req[r].seen \subseteq Keys
      BY <3>1 DEF ReqType
    <3> QED BY <2>1, <2>2, <2>4, <3>1, <3>2 DEF IInv, KeysInv, Never
  <2>5. ASSUME NEW r \in Callers, req'[r].pc = "unknown_kid" PROVE retired'[req'[r].key] # Never
    <3>1. req[r].key \in Keys
      BY <2>2, <2>5 DEF IInv, CallsNamed
    <3> QED BY <2>1, <2>2, <2>5, <3>1 DEF IInv, KeysInv, Never
  <2> QED BY <2>2, <2>3, <2>4, <2>5 DEF IInv, KeysInv
<1>4. ASSUME NEW r \in Callers, Arrive(r) PROVE KeysInv'
  <2>1. PICK t \in Token : Looked(r, [Idle EXCEPT !.client = t[1], !.key = t[2]])
    BY <1>4 DEF Arrive
  <2>2. t[1] \in Clients /\ t[2] \in Keys /\ t[2] <= newest
    BY <1>0 DEF Token, Keys
  <2> DEFINE call == [Idle EXCEPT !.client = t[1], !.key = t[2]]
  <2>3. call \in ReqType /\ call.key = t[2]
    BY <2>2, IdleType DEF ReqType, Idle
  <2> HIDE DEF call
  <2>4. UNCHANGED <<newest, retired, cache>>
    BY <1>4 DEF Arrive
  <2>5. CASE Verified(r, call)
    BY <1>0, <2>4, <2>5, VerifiedRecord, KeysFrame DEF Idle
  <2>6. ASSUME NEW b \in BOOLEAN, Refreshing(r, call, b) PROVE KeysInv'
    BY <2>2, <2>3, <2>4, <2>6, KeysRefreshing DEF IInv, KeysInv
  <2> QED BY <2>1, <2>5, <2>6 DEF Looked, KidMiss, call
<1>5. ASSUME NEW r \in Callers, Serve(r) PROVE KeysInv'
  <2>1. req[r] \in ReqType /\ req[r].key \in Keys /\ req[r].key <= newest
    BY <1>0, <1>5 DEF IInv, CallsNamed, KeysInv, Serve
  <2>2. req'[r] = [req[r] EXCEPT !.pc = "served", !.seen = Published]
    BY <1>0, <1>5 DEF Serve
  <2>3. req'[r].pc = "served" /\ req'[r].seen = Published
        /\ req'[r].key = req[r].key /\ req'[r].age = req[r].age
    BY <2>1, <2>2 DEF ReqType
  <2>4. \A k \in Published : retired[k] = Never
    BY DEF Published
  <2>5. req[r].key \notin Published => retired[req[r].key] # Never
    BY <2>1 DEF Published
  <2>6. req[r].age \in Nat
    BY <2>1 DEF ReqType
  <2>7. \A q \in Callers : q # r => req'[q] = req[q]
    BY <1>0, <1>5 DEF Serve
  <2>8. UNCHANGED <<newest, retired, cache>>
    BY <1>5 DEF Serve
  <2>9. \A k \in req'[r].seen : retired[k] <= req'[r].age
    BY <2>3, <2>4, <2>6 DEF Never
  <2> QED BY <2>1, <2>3, <2>5, <2>7, <2>8, <2>9 DEF IInv, KeysInv
<1>6. ASSUME NEW r \in Callers, Fetched(r) PROVE KeysInv'
  <2>1. req[r] \in ReqType /\ req[r].key \in Keys /\ req[r].key <= newest /\ req[r].pc = "served"
    BY <1>0, <1>6 DEF IInv, CallsNamed, KeysInv, Fetched
  <2>2. cache'.keys = req[r].seen /\ cache'.age = 0 /\ UNCHANGED <<newest, retired>>
    BY <1>6 DEF Fetched
  <2>3. \A k \in cache'.keys : retired'[k] <= FetchMax + cache'.age
    <3> TAKE k \in cache'.keys
    <3>1. retired[k] <= req[r].age /\ k \in Keys
      BY <2>1, <2>2 DEF IInv, KeysInv, ReqType
    <3>2. req[r].age \in 0..FetchMax
      BY <2>1 DEF ReqType
    <3>3. retired[k] \in Int
      BY <1>0, <3>1 DEF Never, Horizon
    <3> QED BY <2>2, <3>1, <3>2, <3>3
  <2>4. cache'.age # Never
    BY <2>2 DEF Never
  <2>5. CASE Verified(r, req[r])
    <3>1. \A q \in Callers : q # r => req'[q] = req[q]
      BY <1>0, <2>5, VerifiedRecord
    <3>2. req'[r].pc \in {"idle", "resolve"}
      BY <1>0, <2>5, VerifiedRecord DEF Idle
    <3> QED BY <2>2, <2>3, <2>4, <3>1, <3>2 DEF IInv, KeysInv
  <2>6. CASE Refreshing(r, req[r], FALSE)
    BY <2>1, <2>2, <2>3, <2>4, <2>6, KeysRefreshing
  <2>7. CASE /\ req[r].key \notin req[r].seen
             /\ req' = [req EXCEPT ![r] = [req[r] EXCEPT !.pc = "unknown_kid"]]
    <3>1. \A q \in Callers : q # r => req'[q] = req[q]
      BY <1>0, <2>7
    <3>2. req'[r].pc = "unknown_kid" /\ req'[r].key = req[r].key
      BY <1>0, <2>1, <2>7 DEF ReqType
    <3>3. retired[req[r].key] # Never
      BY <2>1, <2>7 DEF IInv, KeysInv
    <3> QED BY <2>1, <2>2, <2>3, <2>4, <3>1, <3>2, <3>3 DEF IInv, KeysInv
  <2> QED BY <1>6, <2>5, <2>6, <2>7 DEF Fetched, KidMiss, Found
<1>7. ASSUME NEW r \in Callers,
             FetchFails(r) \/ Refuse(r) \/ Resolve(r) \/ HandlerReturns(r) \/ DispatchEnds(r)
             \/ Claim(r) \/ ReadNotices(r) \/ Answer(r)
      PROVE  KeysInv'
  <2>1. UNCHANGED <<newest, retired, cache>>
    BY <1>7 DEF FetchFails, Refuse, Resolve, HandlerReturns, DispatchEnds, Claim, ReadNotices, Answer
  <2>2. \A q \in Callers : q # r => req'[q] = req[q]
    BY <1>0, <1>7 DEF FetchFails, Refuse, Resolve, HandlerReturns, DispatchEnds, Claim, ReadNotices,
                      Answer
  <2>3. req'[r].pc \in {"idle", "dispatch", "claimed"}
    BY <1>0, <1>7 DEF FetchFails, Refuse, Resolve, HandlerReturns, DispatchEnds, Claim, ReadNotices,
                      Answer, Idle, ReqType
  <2> QED BY <2>1, <2>2, <2>3, KeysFrame
<1>8. ASSUME NEW n \in Notices, Queue(n) PROVE KeysInv'
  BY <1>8, KeysFrame DEF Queue
<1>9. CASE Tick
  <2>1. ASSUME NEW k \in Keys
        PROVE  /\ retired[k] = Never => retired'[k] = Never
               /\ retired[k] # Never => retired'[k] # Never
               /\ retired[k] \in Int /\ retired'[k] \in Int
               /\ retired'[k] <= Horizon /\ retired'[k] <= retired[k] + 1
    <3>1. retired'[k] = Older(retired[k], Horizon)
      BY <1>9 DEF Tick
    <3>2. retired[k] \in {Never} \cup 0..Horizon /\ Horizon \in Nat
      BY <1>0 DEF Horizon
    <3> QED BY <3>1, <3>2 DEF Older, Never
  <2>2. cache'.keys = cache.keys /\ cache'.age = Older(cache.age, Ttl)
    BY <1>0, <1>9 DEF Tick
  <2>3. ASSUME NEW k \in cache'.keys PROVE retired'[k] <= FetchMax + cache'.age
    <3>1. k \in Keys /\ cache.age \in 0..Ttl /\ retired[k] <= FetchMax + cache.age
      BY <1>0, <2>2, <2>3 DEF IInv, KeysInv
    <3>2. CASE cache.age = Ttl
      BY <2>1, <2>2, <3>1, <3>2 DEF Older, Horizon
    <3>3. CASE cache.age # Ttl
      <4>1. cache'.age = cache.age + 1
        BY <2>2, <3>1, <3>3 DEF Older, Never
      <4> QED BY <2>1, <3>1, <4>1
    <3> QED BY <3>2, <3>3
  <2>4. cache'.age = Never => cache'.keys = {}
    BY <1>0, <2>2 DEF IInv, KeysInv, Older, Never
  <2>5. ASSUME NEW r \in Callers
        PROVE  /\ req'[r].pc = req[r].pc /\ req'[r].key = req[r].key /\ req'[r].seen = req[r].seen
               /\ req[r].pc = "served" => req'[r].age = req[r].age + 1
    BY <1>0, <1>9, <2>5 DEF Tick, ReqType
  <2>6. ASSUME NEW r \in Callers, req[r].pc = "served"
        PROVE  /\ \A k \in req'[r].seen : retired'[k] <= req'[r].age
               /\ req'[r].key \notin req'[r].seen => retired'[req'[r].key] # Never
    <3>1. req[r] \in ReqType /\ req[r].key \in Keys
      BY <1>0, <2>6 DEF IInv, CallsNamed
    <3>2. req[r].seen \subseteq Keys /\ req[r].age \in Nat
      BY <3>1 DEF ReqType
    <3>3. \A k \in req[r].seen : retired[k] <= req[r].age
      BY <2>6 DEF IInv, KeysInv
    <3>4. \A k \in req'[r].seen : retired'[k] <= req'[r].age
      BY <2>1, <2>5, <2>6, <3>2, <3>3
    <3>5. req'[r].key \notin req'[r].seen => retired'[req'[r].key] # Never
      BY <2>1, <2>5, <2>6, <3>1 DEF IInv, KeysInv
    <3> QED BY <3>4, <3>5
  <2>7. ASSUME NEW r \in Callers, req[r].pc = "unknown_kid" PROVE retired'[req'[r].key] # Never
    BY <2>1, <2>5, <2>7 DEF IInv, KeysInv, CallsNamed
  <2>8. newest' = newest
    BY <1>9 DEF Tick
  <2>9. \A r \in Callers : req'[r].pc \in {"fetching", "served", "unknown_kid"} => req'[r].key <= newest'
    BY <2>5, <2>8 DEF IInv, KeysInv
  <2> QED BY <2>3, <2>4, <2>5, <2>6, <2>7, <2>9 DEF KeysInv
<1> QED
  BY <1>1, <1>2, <1>3, <1>4, <1>5, <1>6, <1>7, <1>8, <1>9 DEF Next, vars

LEMMA KeysInvariant == Spec => []IInv
<1>1. Init => IInv
  BY InitType, KeysInit DEF IInv
<1>2. IInv /\ [Next]_vars => IInv'
  BY TypeStep, NamedStep, KeysStep DEF IInv
<1> QED BY <1>1, <1>2, PTL DEF Spec

\* JwksCache.get_key refuses no token whose key Cognito still publishes: the second
\* refresh it makes on a miss asks Cognito after the token was signed.
THEOREM PublishedIsKnown == Spec => []PublishedKeyKnown
<1>1. IInv => PublishedKeyKnown
  BY DEF IInv, KeysInv, PublishedKeyKnown, Published
<1> QED BY <1>1, KeysInvariant, PTL

\* With a cache that keeps keys at all, a token is accepted less than one fetch and one
\* ttl_seconds after Cognito withdrew its key, however the refreshes of concurrent
\* requests overlap: no cached key set is older than its own fetch.
THEOREM RetiredIsRefused == ASSUME Ttl # 0 PROVE Spec => RetiredKeyRefused
<1> USE GatewayAssumption
<1>1. ASSUME IInv, [Next]_vars, NEW r \in Callers, req[r].pc # "resolve", req'[r].pc = "resolve"
      PROVE  retired[req'[r].key] < Horizon
  <2>0. /\ req \in [Callers -> ReqType] /\ TypeOK
        /\ retired \in [Keys -> {Never} \cup 0..Horizon]
        /\ cache \in [keys : SUBSET Keys, age : {Never} \cup 0..Ttl]
    BY <1>1 DEF IInv, TypeOK, GatewayTypeOK, ReqType
  <2>1. CASE Arrive(r)
    <3>1. PICK t \in Token : Looked(r, [Idle EXCEPT !.client = t[1], !.key = t[2]])
      BY <2>1 DEF Arrive
    <3>2. t[1] \in Clients /\ t[2] \in Keys
      BY <1>1 DEF Token, Keys, IInv, TypeOK, GatewayTypeOK
    <3> DEFINE call == [Idle EXCEPT !.client = t[1], !.key = t[2]]
    <3>3. call \in ReqType /\ call.key = t[2]
      BY <3>2, IdleType DEF ReqType, Idle
    <3> HIDE DEF call
    <3>4. \A b \in BOOLEAN : ~Refreshing(r, call, b)
      BY <1>1, <2>0, <3>3, RefreshingRecord
    <3>5. ~Stale /\ call.key \in cache.keys /\ Verified(r, call)
      BY <3>1, <3>4 DEF Looked, KidMiss, Found, call
    <3>6. req'[r].key = t[2]
      BY <1>1, <2>0, <3>3, <3>5, VerifiedRecord DEF Idle
    <3>7. cache.age \in 0..(Ttl - 1) /\ t[2] \in Keys
      BY <2>0, <3>2, <3>5 DEF Stale
    <3>8. retired[t[2]] <= FetchMax + cache.age
      BY <1>1, <3>3, <3>5 DEF IInv, KeysInv
    <3>9. retired[t[2]] \in Int
      BY <2>0, <3>7 DEF Never, Horizon
    <3> QED BY <3>6, <3>7, <3>8, <3>9 DEF Horizon
  <2>2. CASE Fetched(r)
    <3>1. req[r] \in ReqType /\ req[r].key \in Keys /\ req[r].pc = "served"
      BY <1>1, <2>0, <2>2 DEF Fetched, IInv, CallsNamed
    <3>2. ~Refreshing(r, req[r], FALSE)
      BY <1>1, <2>0, <3>1, RefreshingRecord
    <3>3. req' # [req EXCEPT ![r] = [req[r] EXCEPT !.pc = "unknown_kid"]]
      BY <1>1, <2>0, <3>1 DEF ReqType
    <3>4. req[r].key \in req[r].seen /\ Verified(r, req[r])
      BY <2>2, <3>2, <3>3 DEF Fetched, KidMiss, Found
    <3>5. req'[r].key = req[r].key
      BY <1>1, <2>0, <3>4, VerifiedRecord DEF Idle
    <3>6. retired[req[r].key] <= req[r].age
      BY <1>1, <3>1, <3>4 DEF IInv, KeysInv
    <3>7. req[r].age \in 0..FetchMax /\ retired[req[r].key] \in Int
      BY <2>0, <3>1 DEF ReqType, Never, Horizon
    <3> QED BY <3>5, <3>6, <3>7 DEF Horizon
  <2>3. ASSUME NEW q \in Callers, q # r, Arrive(q) \/ Fetched(q) PROVE FALSE
    <3>1. req'[r] = req[r]
      BY <2>0, <2>3 DEF Arrive, Fetched, Looked, Verified, Refreshing, KidMiss
    <3> QED BY <1>1, <3>1
  <2>4. ASSUME NEW q \in Callers,
               Serve(q) \/ FetchFails(q) \/ Refuse(q) \/ Resolve(q) \/ HandlerReturns(q)
               \/ DispatchEnds(q) \/ Claim(q) \/ ReadNotices(q) \/ Answer(q)
        PROVE  FALSE
    <3>1. q # r => req'[r] = req[r]
      BY <2>0, <2>4 DEF Serve, FetchFails, Refuse, Resolve, HandlerReturns, DispatchEnds, Claim,
                        ReadNotices, Answer
    <3>2. q = r => req'[r].pc \in {"served", "idle", "dispatch", "claimed"}
      BY <2>0, <2>4 DEF Serve, FetchFails, Refuse, Resolve, HandlerReturns, DispatchEnds, Claim,
                        ReadNotices, Answer, Idle, ReqType
    <3> QED BY <1>1, <3>1, <3>2
  <2>5. CASE Tick
    <3>1. req'[r].pc = req[r].pc
      BY <2>0, <2>5 DEF Tick, ReqType
    <3> QED BY <1>1, <3>1
  <2>6. req' # req
    BY <1>1
  <2> QED
    BY <1>1, <2>1, <2>2, <2>3, <2>4, <2>5, <2>6
    DEF Next, vars, gatewayVars, Rotate, Retire, Queue
<1>2. IInv /\ [Next]_vars =>
         [\A r \in Callers :
             req[r].pc # "resolve" /\ req'[r].pc = "resolve" => retired[req'[r].key] < Horizon]_vars
  BY <1>1
<1> QED BY <1>2, KeysInvariant, PTL DEF Spec, RetiredKeyRefused

----------------------------------------------------------------------------
(* Notices.                                                                  *)

\* A notice that was shown is delivered for good, and the claims of two callers hold
\* different rows, none of which was shown.
NoticesInv ==
    /\ \A n \in Notices : shown[n] = 0 \/ (shown[n] = 1 /\ notices[n].state = "delivered")
    /\ \A r \in Callers : \A n \in req[r].locked : notices[n].state = "pending"
    /\ \A r, q \in Callers : r # q => req[r].locked \cap req[q].locked = {}
    /\ \A r \in Callers : req[r].pc # "claimed" => req[r].locked = {}

\* Only the oldest free rows are claimed.
LEMMA ClaimedAreFree ==
    \A n \in Oldest(Claimable) : /\ n \in Notices /\ notices[n].state = "pending"
                                 /\ \A r \in Callers : n \notin req[r].locked
BY DEF Oldest, Claimable, Due

\* A step that keeps the claims and the tables of notices, but for time.
LEMMA NoticesFrame ==
    ASSUME NoticesInv, UNCHANGED shown,
           \A n \in Notices : notices'[n].state = notices[n].state,
           \A q \in Callers : \/ req'[q].pc = req[q].pc /\ req'[q].locked = req[q].locked
                              \/ req'[q].locked = {},
           \A q \in Callers : req[q].locked \subseteq Notices
    PROVE  NoticesInv'
BY DEF NoticesInv

LEMMA NoticesInit == Init => NoticesInv
BY DEF Init, NoticesInv, Idle

LEMMA NoticesStep ==
    ASSUME "hook" \notin GatewayFaults
    PROVE  TypeOK /\ NoticesInv /\ [Next]_vars => NoticesInv'
<1> SUFFICES ASSUME TypeOK, NoticesInv, [Next]_vars PROVE NoticesInv'
  OBVIOUS
<1>0. /\ req \in [Callers -> ReqType] /\ shown \in [Notices -> Nat]
      /\ notices \in [Notices -> [state : {"none", "pending", "delivered"}, left : 0..NoticeTtl]]
      /\ \A q \in Callers : req[q].locked \subseteq Notices
  BY DEF TypeOK, GatewayTypeOK, ReqType
<1>1. CASE UNCHANGED <<req, notices, shown>>
  BY <1>0, <1>1, NoticesFrame
<1>2. ASSUME NEW r \in Callers, Arrive(r) \/ Fetched(r) PROVE NoticesInv'
  <2>1. UNCHANGED <<notices, shown>>
    BY <1>2 DEF Arrive, Fetched
  <2>2. req[r].locked = {}
    BY <1>2 DEF Arrive, Fetched, NoticesInv
  <2>3. \A q \in Callers : q # r => req'[q] = req[q]
    BY <1>0, <1>2 DEF Arrive, Fetched, Looked, Verified, Refreshing, KidMiss
  <2>4. req'[r].locked = {}
    <3>1. CASE Arrive(r)
      <4>1. PICK t \in Token : Looked(r, [Idle EXCEPT !.client = t[1], !.key = t[2]])
        BY <3>1 DEF Arrive
      <4>2. t[1] \in Clients /\ t[2] \in Keys
        BY GatewayAssumption DEF Token, Keys, TypeOK, GatewayTypeOK
      <4> DEFINE call == [Idle EXCEPT !.client = t[1], !.key = t[2]]
      <4>3. call \in ReqType /\ call.locked = {}
        BY <4>2, IdleType DEF ReqType, Idle
      <4> HIDE DEF call
      <4>4. Verified(r, call) \/ \E b \in BOOLEAN : Refreshing(r, call, b)
        BY <4>1 DEF Looked, KidMiss, call
      <4>5. Verified(r, call) => req'[r].locked = {}
        BY VerifiedRecord DEF Idle
      <4> QED BY <4>3, <4>4, <4>5, RefreshingRecord
    <3>2. CASE Fetched(r)
      <4>1. req[r] \in ReqType
        BY <1>0
      <4>2. CASE Verified(r, req[r])
        BY <4>2, VerifiedRecord DEF Idle
      <4>3. CASE Refreshing(r, req[r], FALSE)
        BY <2>2, <4>1, <4>3, RefreshingRecord
      <4>4. CASE req' = [req EXCEPT ![r] = [req[r] EXCEPT !.pc = "unknown_kid"]]
        BY <1>0, <2>2, <4>1, <4>4 DEF ReqType
      <4> QED BY <3>2, <4>2, <4>3, <4>4 DEF Fetched, KidMiss
    <3> QED BY <1>2, <3>1, <3>2
  <2> QED BY <1>0, <2>1, <2>3, <2>4, NoticesFrame
<1>3. ASSUME NEW r \in Callers,
             Serve(r) \/ FetchFails(r) \/ Refuse(r) \/ Resolve(r) \/ HandlerReturns(r) \/ DispatchEnds(r)
      PROVE  NoticesInv'
  <2>1. UNCHANGED <<notices, shown>>
    BY <1>3 DEF Serve, FetchFails, Refuse, Resolve, HandlerReturns, DispatchEnds
  <2>2. req[r].locked = {}
    BY <1>3 DEF Serve, FetchFails, Refuse, Resolve, HandlerReturns, DispatchEnds, NoticesInv
  <2>3. \A q \in Callers : q # r => req'[q] = req[q]
    BY <1>0, <1>3 DEF Serve, FetchFails, Refuse, Resolve, HandlerReturns, DispatchEnds
  <2>4. req'[r].locked = {}
    BY <1>0, <1>3, <2>2 DEF Serve, FetchFails, Refuse, Resolve, HandlerReturns, DispatchEnds, Idle, ReqType
  <2> QED BY <1>0, <2>1, <2>3, <2>4, NoticesFrame
<1>4. ASSUME NEW n \in Notices, Queue(n) PROVE NoticesInv'
  <2>1. notices[n].state = "none" /\ UNCHANGED <<req, shown>>
    BY <1>4 DEF Queue
  <2>2. \A m \in Notices : m # n => notices'[m] = notices[m]
    BY <1>0, <1>4 DEF Queue
  <2>3. shown[n] = 0 /\ \A r \in Callers : n \notin req[r].locked
    BY <2>1 DEF NoticesInv
  <2> QED BY <1>0, <2>1, <2>2, <2>3 DEF NoticesInv
<1>5. ASSUME NEW r \in Callers, Claim(r) \/ ReadNotices(r) PROVE NoticesInv'
  <2>1. UNCHANGED <<notices, shown>>
    BY <1>5 DEF Claim, ReadNotices
  <2>2. \A q \in Callers : q # r => req'[q] = req[q]
    BY <1>0, <1>5 DEF Claim, ReadNotices
  <2>3. req'[r].pc = "claimed" /\ req'[r].locked = Oldest(Claimable)
    BY <1>0, <1>5 DEF Claim, ReadNotices, ReqType
  <2> QED BY <2>1, <2>2, <2>3, ClaimedAreFree DEF NoticesInv
<1>6. ASSUME NEW r \in Callers, Answer(r) PROVE NoticesInv'
  <2>1. req'[r].locked = {} /\ \A q \in Callers : q # r => req'[q] = req[q]
    BY <1>0, <1>6 DEF Answer, Idle
  <2>2. CASE UNCHANGED <<notices, shown>>
    BY <1>0, <2>1, <2>2, NoticesFrame
  <2>3. CASE notices' = Delivered(req[r].locked) /\ (shown' = Shown(req[r].locked) \/ UNCHANGED shown)
    <3>1. \A n \in Notices : n \notin req[r].locked => notices'[n] = notices[n] /\ shown'[n] = shown[n]
      BY <2>3 DEF Delivered, Shown
    <3>2. ASSUME NEW n \in req[r].locked
          PROVE  notices'[n].state = "delivered" /\ (shown'[n] = 0 \/ shown'[n] = 1)
      <4>1. n \in Notices /\ notices[n].state = "pending" /\ shown[n] = 0
        BY <1>0 DEF NoticesInv
      <4>2. notices'[n].state = "delivered"
        BY <1>0, <2>3, <4>1 DEF Delivered
      <4>3. shown'[n] = 0 \/ shown'[n] = 1
        BY <2>3, <4>1 DEF Shown
      <4> QED BY <4>2, <4>3
    <3>3. \A q \in Callers : \A n \in req'[q].locked : n \notin req[r].locked /\ n \in req[q].locked
      BY <2>1 DEF NoticesInv
    <3>4. \A n \in Notices : shown'[n] = 0 \/ (shown'[n] = 1 /\ notices'[n].state = "delivered")
      BY <3>1, <3>2 DEF NoticesInv
    <3>5. \A q \in Callers : \A n \in req'[q].locked : notices'[n].state = "pending"
      BY <1>0, <3>1, <3>3 DEF NoticesInv
    <3>6. /\ \A p, q \in Callers : p # q => req'[p].locked \cap req'[q].locked = {}
          /\ \A q \in Callers : req'[q].pc # "claimed" => req'[q].locked = {}
      BY <2>1 DEF NoticesInv
    <3> QED BY <3>4, <3>5, <3>6 DEF NoticesInv
  <2> QED BY <1>6, <2>2, <2>3 DEF Answer
<1>7. CASE Tick
  <2>1. \A q \in Callers : req'[q].pc = req[q].pc /\ req'[q].locked = req[q].locked
    BY <1>0, <1>7 DEF Tick, ReqType
  <2>2. \A n \in Notices : notices'[n].state = notices[n].state
    BY <1>0, <1>7 DEF Tick
  <2>3. UNCHANGED shown
    BY <1>7 DEF Tick
  <2> QED BY <1>0, <2>1, <2>2, <2>3, NoticesFrame
<1> QED
  BY <1>1, <1>2, <1>3, <1>4, <1>5, <1>6, <1>7 DEF Next, vars, gatewayVars, Rotate, Retire

\* deliver_pending, as long as no surface_pending_state hook fails inside its
\* transaction, gives every notice to one answer at most, whatever tool calls and page
\* reads claim at the same time and whatever answers are lost: FOR UPDATE SKIP LOCKED
\* keeps the claims apart and delivered_at ends the row.
THEOREM NoticesAreShownOnce ==
    ASSUME "hook" \notin GatewayFaults
    PROVE  Spec => []NoticeShownOnce
<1>1. Init => NoticesInv
  BY NoticesInit
<1>2. TypeOK /\ NoticesInv /\ [Next]_vars => NoticesInv'
  BY NoticesStep
<1>3. NoticesInv => NoticeShownOnce
  BY DEF NoticesInv, NoticeShownOnce
<1> QED BY <1>1, <1>2, <1>3, TypeCorrect, PTL DEF Spec
=============================================================================
