----------------------- MODULE AsyncWriteQueueProofs -----------------------
(* AsyncWriteQueue keeps its types, implements AsyncRequest and stamps what *)
(* it reports as succeeded, for any number of clients, drains and requests. *)
EXTENDS AsyncWriteQueue, TLAPS

\* A drain works on claimed requests: those it has not come to were not
\* executed, the current one was executed when its write has committed.
DrainInv(d) ==
    /\ drain[d].pc # "sleep" => drain[d].cur \in Requests \ drain[d].batch
    /\ drain[d].pc = "sleep" => drain[d].batch = {}
    /\ \A r \in Held(d) : queue[r].state = "in_flight"
    /\ \A r \in drain[d].batch : runs[r] = 0
    /\ drain[d].pc = "write" => runs[drain[d].cur] = 0
    /\ drain[d].pc \in {"stamp", "succeed"} =>
          runs[drain[d].cur] = 1 /\ Holds(drain[d].memory, drain[d].cur)
    /\ drain[d].pc = "succeed" => Stamped(drain[d].memory)

\* No request is held by two drains.
OneHolder == \A d, e \in Drains : d # e => Held(d) \cap Held(e) = {}

\* Requests are executed at most once, and not before they are claimed.
RunsInv ==
    \A r \in Requests : /\ runs[r] \in {0, 1}
                        /\ queue[r].state \in {"absent", "queued"} => runs[r] = 0

\* A submission about to insert has an id of its own that is not in the queue.
ClientInv ==
    /\ \A r \in Requests : r >= nextReq => queue[r].state = "absent"
    /\ \A c \in Clients : clients[c].pc = "insert" =>
          /\ clients[c].req \in Requests /\ clients[c].req < nextReq
          /\ queue[clients[c].req].state = "absent"
    /\ \A b, c \in Clients : clients[b].pc = "insert" /\ clients[c].pc = "insert" /\ b # c
          => clients[b].req # clients[c].req

IInv == /\ TypeOK
        /\ \A d \in Drains : DrainInv(d)
        /\ OneHolder /\ RunsInv /\ ClientInv /\ SucceededIsStamped

----------------------------------------------------------------------------
(* Types *)

\* Updating a field of a row or of a process gives a row or a process.
LEMMA StampedMemory ==
    ASSUME NEW m \in Memory, NEW v \in Nat
    PROVE  LET n == [m EXCEPT !.created_at = v]
           IN  n \in Memory /\ n.created_at = v /\ n.tenant = m.tenant /\ n.content = m.content
  BY DEF Memory

LEMMA DrainAt ==
    ASSUME NEW p \in Drain, NEW pc \in {"sleep", "write", "stamp", "succeed", "fail", "notice"}
    PROVE  /\ [p EXCEPT !.pc = pc] \in Drain
           /\ [p EXCEPT !.pc = pc].pc = pc
           /\ [p EXCEPT !.pc = pc].cur = p.cur
           /\ [p EXCEPT !.pc = pc].batch = p.batch
           /\ [p EXCEPT !.pc = pc].memory = p.memory
  BY DEF Drain

LEMMA DrainWrote ==
    ASSUME NEW p \in Drain, NEW m \in Nat
    PROVE  LET q == [[p EXCEPT !.pc = "stamp"] EXCEPT !.memory = m]
           IN  q \in Drain /\ q.pc = "stamp" /\ q.cur = p.cur /\ q.batch = p.batch /\ q.memory = m
  BY DEF Drain

LEMMA RowClaimed ==
    ASSUME NEW q \in QueueRow, NEW a \in Nat
    PROVE  LET n == [[q EXCEPT !.state = "in_flight"] EXCEPT !.attempts = a]
           IN  /\ n \in QueueRow /\ n.state = "in_flight" /\ n.result = q.result
               /\ n.tenant = q.tenant /\ n.content = q.content
               /\ n.submitted_at = q.submitted_at
  BY DEF QueueRow

LEMMA RowSucceeded ==
    ASSUME NEW q \in QueueRow, NEW m \in Nat
    PROVE  LET n == [[q EXCEPT !.state = "succeeded"] EXCEPT !.result = m]
           IN  /\ n \in QueueRow /\ n.state = "succeeded" /\ n.result = m /\ n.tenant = q.tenant
               /\ n.content = q.content /\ n.submitted_at = q.submitted_at
  BY DEF QueueRow

LEMMA RowFailed ==
    ASSUME NEW q \in QueueRow
    PROVE  LET n == [q EXCEPT !.state = "failed"]
           IN  /\ n \in QueueRow /\ n.state = "failed" /\ n.result = q.result
               /\ n.tenant = q.tenant /\ n.content = q.content
               /\ n.submitted_at = q.submitted_at
  BY DEF QueueRow

\* What memory_write returns and does to the table.
LEMMA WriteResult ==
    ASSUME NEW t \in Tenants \cup {None}, NEW x \in Contents, NEW m,
           memories \in Seq(Memory), clock \in Nat, memory_write(t, x, m)
    PROVE  /\ m \in Nat
           /\ memories' \in Seq(Memory)
           /\ clock' \in Nat
           /\ Len(memories') >= Len(memories)
           /\ m \in DOMAIN memories'
           /\ memories'[m].tenant = t
           /\ memories'[m].content = x \/ <<memories'[m].content, x>> \in Similar
           /\ \A k \in DOMAIN memories : k \in DOMAIN memories' /\ memories'[k] = memories[k]
  <1>1. CASE m \in Duplicates(t, x) \ {None} /\ UNCHANGED <<memories, clock>>
    BY <1>1 DEF Duplicates, OfTenant
  <1>2. CASE /\ m = Len(memories) + 1 /\ clock' = clock + 1
             /\ memories' = Append(memories, [tenant |-> t, content |-> x, created_at |-> clock])
    <2> DEFINE row == [tenant |-> t, content |-> x, created_at |-> clock]
    <2>1. row \in Memory
      BY DEF Memory
    <2>2. m = Len(memories) + 1 /\ memories' = Append(memories, row) /\ clock' = clock + 1
      BY <1>2
    <2> HIDE DEF row
    <2>3. memories' \in Seq(Memory) /\ Len(memories') = Len(memories) + 1
      BY <2>1, <2>2
    <2>4. memories'[m] = row
      BY <2>1, <2>2
    <2>5. row.tenant = t /\ row.content = x
      BY DEF row
    <2> QED
      BY <2>1, <2>2, <2>3, <2>4, <2>5
  <1> QED
    BY <1>1, <1>2 DEF memory_write

----------------------------------------------------------------------------
(* What the actions do to the queue, the drains and the memories, field by  *)
(* field                                                                    *)

\* Request r keeps what it was submitted with.
SameRequest(r) ==
    /\ queue'[r].tenant = queue[r].tenant /\ queue'[r].content = queue[r].content
    /\ queue'[r].submitted_at = queue[r].submitted_at

\* Only the requests of S change state, to st.
StateChange(S, st) ==
    /\ queue' \in [Requests -> QueueRow]
    /\ \A r \in Requests : /\ SameRequest(r)
                           /\ queue'[r].state = IF r \in S THEN st ELSE queue[r].state

\* Only drain d moves.
Moves(d) ==
    /\ drain' \in [Drains -> Drain]
    /\ \A e \in Drains : e # d => drain'[e] = drain[e]

\* The drain goes on with a row of batch B, or sleeps when there is none.
GoesOn(d, B) ==
    /\ Moves(d)
    /\ \/ B = {} /\ drain'[d] = Asleep
       \/ /\ drain'[d].pc = "write" /\ drain'[d].cur \in B
          /\ drain'[d].batch = B \ {drain'[d].cur}

LEMMA AsleepIsDrain == Asleep \in Drain
  BY DEF Asleep, Drain, None

LEMMA ClaimEffect ==
    ASSUME TypeOK, NEW d \in Drains, ClaimBatch(d)
    PROVE  /\ drain[d].pc = "sleep"
           /\ \E S \in SUBSET Queued : StateChange(S, "in_flight") /\ GoesOn(d, S)
           /\ \A r \in Requests : queue'[r].result = queue[r].result
           /\ UNCHANGED <<nextReq, clients, memories, synced, clock, notices, runs, lost>>
  <1>1. PICK S \in SUBSET Queued :
           /\ queue' = [r \in Requests |->
                         IF r \in S THEN [queue[r] EXCEPT !.state = "in_flight", !.attempts = @ + 1]
                         ELSE queue[r]]
           /\ \E r \in S : drain' = [drain EXCEPT ![d] = [pc |-> "write", batch |-> S \ {r},
                                                         cur |-> r, memory |-> None]]
    BY DEF ClaimBatch
  <1>2. ASSUME NEW r \in Requests
        PROVE  /\ queue'[r] \in QueueRow /\ SameRequest(r) /\ queue'[r].result = queue[r].result
               /\ queue'[r].state = IF r \in S THEN "in_flight" ELSE queue[r].state
    <2>1. queue[r] \in QueueRow
      BY DEF TypeOK
    <2>2. queue[r].attempts + 1 \in Nat
      BY <2>1 DEF QueueRow
    <2>3. CASE r \in S
      <3> DEFINE n == [[queue[r] EXCEPT !.state = "in_flight"]
                                 EXCEPT !.attempts = queue[r].attempts + 1]
      <3>1. /\ n \in QueueRow /\ n.state = "in_flight" /\ n.result = queue[r].result
            /\ n.tenant = queue[r].tenant /\ n.content = queue[r].content
            /\ n.submitted_at = queue[r].submitted_at
        BY <2>1, <2>2, RowClaimed, Zenon
      <3>2. queue'[r] = n
        BY <1>1, <2>3, Zenon
      <3> HIDE DEF n
      <3> QED
        BY <2>3, <3>1, <3>2 DEF SameRequest
    <2>4. CASE r \notin S
      <3>1. queue'[r] = queue[r]
        BY <1>1, <2>4, Zenon
      <3> QED
        BY <2>1, <2>4, <3>1 DEF SameRequest
    <2> QED
      BY <2>3, <2>4
  <1>3. StateChange(S, "in_flight")
    <2>1. queue' = [r \in Requests |-> queue'[r]]
      BY <1>1, Zenon
    <2> QED
      BY <1>2, <2>1, Zenon DEF StateChange
  <1>4. PICK r \in S : drain' = [drain EXCEPT ![d] = [pc |-> "write", batch |-> S \ {r},
                                                      cur |-> r, memory |-> None]]
    BY <1>1
  <1>5. GoesOn(d, S)
    BY <1>4 DEF GoesOn, Moves, TypeOK, Drain, None, Queued
  <1> QED
    BY <1>2, <1>3, <1>5 DEF ClaimBatch

LEMMA NextRowEffect ==
    ASSUME TypeOK, NEW d \in Drains, NextRow(d)
    PROVE  GoesOn(d, drain[d].batch)
  <1>1. CASE drain[d].batch = {} /\ drain' = [drain EXCEPT ![d] = Asleep]
    BY <1>1, AsleepIsDrain DEF GoesOn, Moves, TypeOK
  <1>2. ASSUME NEW r \in drain[d].batch,
               drain' = [drain EXCEPT ![d] = [pc |-> "write", batch |-> drain[d].batch \ {r},
                                              cur |-> r, memory |-> None]]
        PROVE  GoesOn(d, drain[d].batch)
    <2>1. drain[d].batch \subseteq Requests
      BY DEF TypeOK, Drain
    <2> QED
      BY <1>2, <2>1 DEF GoesOn, Moves, TypeOK, Drain, None
  <1> QED
    BY <1>1, <1>2 DEF NextRow

LEMMA GotoEffect ==
    ASSUME TypeOK, NEW d \in Drains, NEW pc \in {"succeed", "fail", "notice"}, Goto(d, pc)
    PROVE  /\ Moves(d)
           /\ drain'[d].pc = pc /\ drain'[d].cur = drain[d].cur
           /\ drain'[d].batch = drain[d].batch /\ drain'[d].memory = drain[d].memory
  <1> DEFINE p == [drain[d] EXCEPT !.pc = pc]
  <1>1. drain[d] \in Drain /\ pc \in {"sleep", "write", "stamp", "succeed", "fail", "notice"}
    BY DEF TypeOK
  <1>2. /\ p \in Drain /\ p.pc = pc /\ p.cur = drain[d].cur
        /\ p.batch = drain[d].batch /\ p.memory = drain[d].memory
    BY <1>1, DrainAt, Zenon
  <1>3. drain' = [drain EXCEPT ![d] = p]
    BY DEF Goto
  <1> HIDE DEF p
  <1> QED
    BY <1>2, <1>3 DEF Moves, TypeOK

LEMMA SleepEffect ==
    ASSUME TypeOK, NEW d \in Drains, MarkFailedRaises(d) \/ Crash(d)
    PROVE  /\ Moves(d) /\ drain'[d] = Asleep
           /\ lost' = lost \cup Held(d)
           /\ UNCHANGED <<queue, nextReq, clients, memories, synced, clock, notices, runs>>
  BY AsleepIsDrain DEF MarkFailedRaises, Crash, Moves, TypeOK

LEMMA WriteEffect ==
    ASSUME TypeOK, NEW d \in Drains, DrainWrite(d)
    PROVE  /\ drain[d].pc = "write" /\ drain[d].cur \in Requests
           /\ Moves(d)
           /\ drain'[d].pc = "stamp" /\ drain'[d].cur = drain[d].cur
           /\ drain'[d].batch = drain[d].batch
           /\ memory_write(queue[drain[d].cur].tenant, queue[drain[d].cur].content, drain'[d].memory)
           /\ runs' = [runs EXCEPT ![drain[d].cur] = @ + 1]
           /\ UNCHANGED <<queue, nextReq, clients, synced, notices, lost>>
  <1>1. drain[d] \in Drain /\ drain[d].pc = "write" /\ drain[d].cur \in Requests
    BY DEF DrainWrite, TypeOK, Drain
  <1>2. PICK m \in 1..(Len(memories) + 1) :
           /\ memory_write(queue[drain[d].cur].tenant, queue[drain[d].cur].content, m)
           /\ drain' = [drain EXCEPT ![d] = [[drain[d] EXCEPT !.pc = "stamp"] EXCEPT !.memory = m]]
    BY Zenon DEF DrainWrite
  <1> DEFINE p == [[drain[d] EXCEPT !.pc = "stamp"] EXCEPT !.memory = m]
  <1>3. m \in Nat
    BY DEF TypeOK
  <1>4. /\ p \in Drain /\ p.pc = "stamp" /\ p.cur = drain[d].cur
        /\ p.batch = drain[d].batch /\ p.memory = m
    BY <1>1, <1>3, DrainWrote, Zenon
  <1>5. drain' = [drain EXCEPT ![d] = p]
    BY <1>2
  <1> HIDE DEF p
  <1>6. /\ Moves(d) /\ drain'[d] = p
    BY <1>4, <1>5 DEF Moves, TypeOK
  <1>7. /\ runs' = [runs EXCEPT ![drain[d].cur] = @ + 1]
        /\ UNCHANGED <<queue, nextReq, clients, synced, notices, lost>>
    BY DEF DrainWrite
  <1> QED
    BY <1>1, <1>2, <1>4, <1>6, <1>7, Zenon

LEMMA SucceededEffect ==
    ASSUME TypeOK, NEW d \in Drains, MarkSucceeded(d)
    PROVE  /\ drain[d].pc = "succeed" /\ drain[d].cur \in Requests
           /\ StateChange({drain[d].cur}, "succeeded")
           /\ queue'[drain[d].cur].result = drain[d].memory
           /\ \A r \in Requests : r # drain[d].cur => queue'[r] = queue[r]
           /\ GoesOn(d, drain[d].batch)
           /\ UNCHANGED <<nextReq, clients, memories, synced, clock, notices, runs, lost>>
  <1> DEFINE r == drain[d].cur
             n == [[queue[r] EXCEPT !.state = "succeeded"] EXCEPT !.result = drain[d].memory]
  <1>1. drain[d].pc = "succeed" /\ r \in Requests /\ drain[d].memory \in Nat
    BY DEF MarkSucceeded, TypeOK, Drain
  <1>2. queue[r] \in QueueRow
    BY <1>1 DEF TypeOK
  <1>3. /\ n \in QueueRow /\ n.state = "succeeded" /\ n.result = drain[d].memory
        /\ n.tenant = queue[r].tenant /\ n.content = queue[r].content
        /\ n.submitted_at = queue[r].submitted_at
    BY <1>1, <1>2, RowSucceeded, Zenon
  <1>4. queue' = [queue EXCEPT ![r] = n]
    BY DEF MarkSucceeded
  <1> HIDE DEF n
  <1>5. /\ StateChange({r}, "succeeded") /\ queue'[r].result = drain[d].memory
        /\ \A q \in Requests : q # r => queue'[q] = queue[q]
    BY <1>1, <1>3, <1>4 DEF StateChange, SameRequest, TypeOK
  <1>6. /\ NextRow(d)
        /\ UNCHANGED <<nextReq, clients, memories, synced, clock, notices, runs, lost>>
    BY DEF MarkSucceeded
  <1> QED
    BY <1>1, <1>5, <1>6, NextRowEffect

LEMMA FailedEffect ==
    ASSUME TypeOK, NEW d \in Drains, MarkFailed(d)
    PROVE  /\ drain[d].pc = "fail" /\ drain[d].cur \in Requests
           /\ StateChange({drain[d].cur}, "failed")
           /\ \A r \in Requests : queue'[r].result = queue[r].result
           /\ Moves(d)
           /\ drain'[d].pc = "notice" /\ drain'[d].cur = drain[d].cur
           /\ drain'[d].batch = drain[d].batch /\ drain'[d].memory = drain[d].memory
           /\ UNCHANGED <<nextReq, clients, memories, synced, clock, notices, runs, lost>>
  <1> DEFINE r == drain[d].cur
             n == [queue[r] EXCEPT !.state = "failed"]
  <1>1. drain[d].pc = "fail" /\ r \in Requests
    BY DEF MarkFailed, TypeOK, Drain
  <1>2. queue[r] \in QueueRow
    BY <1>1 DEF TypeOK
  <1>3. /\ n \in QueueRow /\ n.state = "failed" /\ n.result = queue[r].result
        /\ n.tenant = queue[r].tenant /\ n.content = queue[r].content
        /\ n.submitted_at = queue[r].submitted_at
    BY <1>2, RowFailed, Zenon
  <1>4. queue' = [queue EXCEPT ![r] = n]
    BY DEF MarkFailed
  <1> HIDE DEF n
  <1>5. /\ StateChange({r}, "failed")
        /\ \A q \in Requests : queue'[q].result = queue[q].result
    BY <1>1, <1>3, <1>4 DEF StateChange, SameRequest, TypeOK
  <1>6. /\ Goto(d, "notice")
        /\ UNCHANGED <<nextReq, clients, memories, synced, clock, notices, runs, lost>>
    BY DEF MarkFailed
  <1> QED
    BY <1>1, <1>5, <1>6, GotoEffect

LEMMA StampEffect ==
    ASSUME TypeOK, NEW d \in Drains, DrainStamp(d)
    PROVE  /\ drain[d].pc = "stamp" /\ drain[d].cur \in Requests
           /\ memories' \in Seq(Memory) /\ DOMAIN memories' = DOMAIN memories
           /\ \A m \in DOMAIN memories :
                 /\ memories'[m].tenant = memories[m].tenant
                 /\ memories'[m].content = memories[m].content
                 /\ memories'[m].created_at = IF m = drain[d].memory
                                              THEN queue[drain[d].cur].submitted_at
                                              ELSE memories[m].created_at
           /\ Moves(d)
           /\ drain'[d].pc = "succeed" /\ drain'[d].cur = drain[d].cur
           /\ drain'[d].batch = drain[d].batch /\ drain'[d].memory = drain[d].memory
           /\ UNCHANGED <<queue, nextReq, clients, synced, clock, notices, runs, lost>>
  <1> DEFINE k == drain[d].memory
             v == queue[drain[d].cur].submitted_at
             n == [memories[k] EXCEPT !.created_at = v]
  <1>1. drain[d].pc = "stamp" /\ drain[d].cur \in Requests /\ v \in Nat
    BY DEF DrainStamp, TypeOK, Drain, QueueRow
  <1>2. memories' = [memories EXCEPT ![k] = n]
    BY DEF DrainStamp
  <1>3. k \in DOMAIN memories => /\ n \in Memory /\ n.created_at = v
                                 /\ n.tenant = memories[k].tenant
                                 /\ n.content = memories[k].content
    <2> SUFFICES ASSUME k \in DOMAIN memories
                 PROVE  /\ n \in Memory /\ n.created_at = v
                        /\ n.tenant = memories[k].tenant /\ n.content = memories[k].content
      OBVIOUS
    <2>1. memories[k] \in Memory
      BY DEF TypeOK
    <2> QED
      BY <1>1, <2>1, StampedMemory, Zenon
  <1> HIDE DEF n
  <1>4. memories' \in Seq(Memory) /\ DOMAIN memories' = DOMAIN memories
    <2>1. memories \in [1..Len(memories) -> Memory] /\ DOMAIN memories = 1..Len(memories)
      BY DEF TypeOK
    <2>2. memories' \in [1..Len(memories) -> Memory]
      BY <1>2, <1>3, <2>1
    <2>3. Len(memories) \in Nat
      BY DEF TypeOK
    <2> QED
      BY <2>1, <2>2, <2>3
  <1>5. \A m \in DOMAIN memories : memories'[m] = IF m = k THEN n ELSE memories[m]
    BY <1>2 DEF TypeOK
  <1>6. /\ Goto(d, "succeed")
        /\ UNCHANGED <<queue, nextReq, clients, synced, clock, notices, runs, lost>>
    BY DEF DrainStamp
  <1> QED
    BY <1>1, <1>3, <1>4, <1>5, <1>6, GotoEffect

----------------------------------------------------------------------------
(* Types *)

LEMMA TypeInit == Init => TypeOK
  <1> SUFFICES ASSUME Init PROVE TypeOK
    OBVIOUS
  <1>1. AnyContent \in Contents
    BY QueueAssumption DEF AnyContent
  <1>2. Absent \in QueueRow /\ IdleClient \in Client
    BY <1>1 DEF Absent, IdleClient, QueueRow, Client, None
  <1>3. memories \in Seq(Memory) /\ lost \subseteq Requests
    BY DEF Init
  <1>4. \A d \in Drains : drain[d].pc = "sleep"
    BY DEF Init, Asleep
  <1> QED
    BY <1>2, <1>3, <1>4, AsleepIsDrain, QueueAssumption DEF Init, TypeOK

\* After a step of drain d the drains are well-formed if d is.
LEMMA MovesType ==
    ASSUME TypeOK, NEW d \in Drains, Moves(d), drain'[d].pc # "sleep" => drain'[d].cur # None
    PROVE  /\ drain' \in [Drains -> Drain]
           /\ \A e \in Drains : drain'[e].pc # "sleep" => drain'[e].cur # None
  BY DEF TypeOK, Moves

LEMMA GoesOnType ==
    ASSUME TypeOK, NEW d \in Drains, NEW B \in SUBSET Requests, GoesOn(d, B)
    PROVE  /\ drain' \in [Drains -> Drain]
           /\ \A e \in Drains : drain'[e].pc # "sleep" => drain'[e].cur # None
  <1>1. drain'[d].pc # "sleep" => drain'[d].cur # None
    BY DEF GoesOn, Asleep, Requests, None
  <1> QED
    BY <1>1, MovesType DEF GoesOn

LEMMA TypeStep == TypeOK /\ [Next]_vars => TypeOK'
  <1> SUFFICES ASSUME TypeOK, [Next]_vars PROVE TypeOK'
    OBVIOUS
  <1> USE QueueAssumption
  <1>0. IdleClient \in Client /\ None = 0
    BY DEF AnyContent, IdleClient, Client, None
  <1>1. ASSUME NEW c \in Clients, SubmitCheck(c) PROVE TypeOK'
    BY <1>1 DEF SubmitCheck, TypeOK, Client, Requests
  <1>2. ASSUME NEW c \in Clients, SubmitInsert(c) PROVE TypeOK'
    <2>1. clients[c] \in Client
      BY DEF TypeOK
    <2>2. queue' \in [Requests -> QueueRow]
      BY <1>2, <2>1 DEF SubmitInsert, TypeOK, Client, QueueRow, None
    <2>3. clients' \in [Clients -> Client]
      BY <1>0, <1>2 DEF SubmitInsert, TypeOK
    <2> QED
      BY <1>2, <2>2, <2>3 DEF SubmitInsert, TypeOK
  <1>3. ASSUME NEW c \in Clients, SubmitFails(c) PROVE TypeOK'
    BY <1>0, <1>3 DEF SubmitFails, TypeOK
  <1>4. ASSUME SyncWrite PROVE TypeOK'
    <2>1. PICK t \in Tenants, x \in Contents, m \in 1..(Len(memories) + 1) : memory_write(t, x, m)
      BY <1>4 DEF SyncWrite
    <2>2. memories' \in Seq(Memory) /\ clock' \in Nat
      BY <2>1, WriteResult DEF TypeOK
    <2> QED
      BY <1>4, <2>2 DEF SyncWrite, TypeOK
  <1>5. ASSUME NEW d \in Drains, ClaimBatch(d) PROVE TypeOK'
    <2>1. PICK S \in SUBSET Queued : StateChange(S, "in_flight") /\ GoesOn(d, S)
      BY <1>5, ClaimEffect
    <2>2. S \in SUBSET Requests
      BY DEF Queued
    <2> QED
      BY <1>5, <2>1, <2>2, ClaimEffect, GoesOnType DEF StateChange, TypeOK
  <1>6. ASSUME NEW d \in Drains, DrainWrite(d) PROVE TypeOK'
    <2> DEFINE r == drain[d].cur
               m == drain'[d].memory
    <2>1. /\ r \in Requests /\ Moves(d) /\ drain'[d].cur = r
          /\ memory_write(queue[r].tenant, queue[r].content, m)
          /\ runs' = [runs EXCEPT ![r] = @ + 1]
          /\ UNCHANGED <<queue, nextReq, clients, synced, notices, lost>>
      BY <1>6, WriteEffect
    <2>2. queue[r].tenant \in Tenants \cup {None} /\ queue[r].content \in Contents
      BY <2>1 DEF TypeOK, QueueRow
    <2>3. memories' \in Seq(Memory) /\ clock' \in Nat
      BY <2>1, <2>2, WriteResult DEF TypeOK
    <2>4. /\ drain' \in [Drains -> Drain]
          /\ \A e \in Drains : drain'[e].pc # "sleep" => drain'[e].cur # None
      BY <1>0, <2>1, MovesType DEF Requests
    <2> HIDE DEF r, m
    <2>5. runs' \in [Requests -> Nat]
      BY <2>1 DEF TypeOK
    <2> QED
      BY <2>1, <2>3, <2>4, <2>5 DEF TypeOK
  <1>7. ASSUME NEW d \in Drains, DrainStamp(d) PROVE TypeOK'
    <2>1. /\ drain[d].cur \in Requests /\ drain'[d].cur = drain[d].cur /\ Moves(d)
          /\ memories' \in Seq(Memory)
          /\ UNCHANGED <<queue, nextReq, clients, synced, clock, notices, runs, lost>>
      BY <1>7, StampEffect
    <2>2. drain'[d].cur # None
      BY <1>0, <2>1 DEF Requests
    <2> QED
      BY <2>1, <2>2, MovesType DEF TypeOK
  <1>8. ASSUME NEW d \in Drains, DrainRaises(d) PROVE TypeOK'
    <2>1. Moves(d) /\ drain'[d].cur = drain[d].cur /\ drain[d].pc # "sleep"
      BY <1>8, GotoEffect DEF DrainRaises
    <2> QED
      BY <1>8, <2>1, MovesType DEF DrainRaises, TypeOK
  <1>9. ASSUME NEW d \in Drains, MarkSucceeded(d) PROVE TypeOK'
    <2>1. drain[d].batch \in SUBSET Requests
      BY DEF TypeOK, Drain
    <2> QED
      BY <1>9, <2>1, SucceededEffect, GoesOnType DEF StateChange, TypeOK
  <1>10. ASSUME NEW d \in Drains, MarkFailed(d) PROVE TypeOK'
    <2>1. /\ drain[d].cur \in Requests /\ drain'[d].cur = drain[d].cur /\ Moves(d)
          /\ queue' \in [Requests -> QueueRow]
          /\ UNCHANGED <<nextReq, clients, memories, synced, clock, notices, runs, lost>>
      BY <1>10, FailedEffect DEF StateChange
    <2>2. drain'[d].cur # None
      BY <1>0, <2>1 DEF Requests
    <2> QED
      BY <2>1, <2>2, MovesType DEF TypeOK
  <1>11. ASSUME NEW d \in Drains, MarkFailedRaises(d) \/ Crash(d) PROVE TypeOK'
    <2>1. lost' \subseteq Requests
      BY <1>11, SleepEffect DEF Held, TypeOK, Drain, MarkFailedRaises, Crash
    <2> QED
      BY <1>11, <2>1, SleepEffect, MovesType DEF TypeOK, Asleep
  <1>12. ASSUME NEW d \in Drains, Notify(d) PROVE TypeOK'
    <2>1. drain[d].batch \in SUBSET Requests /\ drain[d].cur \in Requests
      BY <1>12 DEF Notify, TypeOK, Drain
    <2> QED
      BY <1>12, <2>1, NextRowEffect, GoesOnType DEF Notify, TypeOK
  <1>13. CASE UNCHANGED vars
    BY <1>13 DEF vars, TypeOK
  <1> QED
    BY <1>1, <1>2, <1>3, <1>4, <1>5, <1>6, <1>7, <1>8, <1>9, <1>10, <1>11, <1>12, <1>13
       DEF Next, DrainStep

\* The table, the calls under way and the drains keep the shapes of the schema
\* and of the code's variables.
THEOREM TypeCorrect == Spec => []TypeOK
  BY TypeInit, TypeStep, PTL DEF Spec

----------------------------------------------------------------------------
(* The inductive invariant *)

\* What no step undoes: a submitted request keeps its tenant, content and
\* time, a memory its tenant and content, and created_at changes to the time of
\* a request the memory belongs to.
TableStep ==
    /\ \A r \in Requests : queue[r].state # "absent" =>
          SameRequest(r) /\ queue'[r].state # "absent"
    /\ \A m \in DOMAIN memories :
          /\ m \in DOMAIN memories'
          /\ memories'[m].tenant = memories[m].tenant
          /\ memories'[m].content = memories[m].content
          /\ \/ memories'[m].created_at = memories[m].created_at
             \/ \E q \in Requests : /\ queue[q].state # "absent" /\ Holds(m, q)
                                    /\ memories'[m].created_at = queue[q].submitted_at

LEMMA HoldsKept ==
    ASSUME TableStep, NEW r \in Requests, queue[r].state # "absent", NEW m, Holds(m, r)
    PROVE  Holds(m, r)' /\ (Stamped(m) => Stamped(m)')
  <1>1. ASSUME NEW q \in Requests, queue[q].state # "absent", Holds(m, q) PROVE Holds(m, q)'
    BY <1>1 DEF TableStep, Holds, SameRequest
  <1>2. ASSUME Stamped(m) PROVE Stamped(m)'
    <2>1. PICK q \in Requests : /\ queue[q].state # "absent" /\ Holds(m, q)
                                /\ memories'[m].created_at = queue[q].submitted_at
      BY <1>2 DEF TableStep, Holds, Stamped
    <2>2. Holds(m, q)'
      BY <1>1, <2>1
    <2> QED
      BY <2>1, <2>2 DEF TableStep, Stamped, SameRequest
  <1> QED
    BY <1>1, <1>2

LEMMA TableStepHolds ==
    ASSUME IInv, [Next]_vars
    PROVE  TableStep
  <1>1. ASSUME NEW c \in Clients, SubmitInsert(c) PROVE TableStep
    <2>1. clients[c].req \in Requests /\ queue[clients[c].req].state = "absent"
      BY <1>1 DEF SubmitInsert, IInv, ClientInv
    <2>2. \A r \in Requests : r # clients[c].req => queue'[r] = queue[r]
      BY <1>1, <2>1 DEF SubmitInsert, IInv, TypeOK
    <2> QED
      BY <1>1, <2>1, <2>2 DEF SubmitInsert, TableStep, SameRequest
  <1>2. ASSUME SyncWrite PROVE TableStep
    <2>1. PICK t \in Tenants, x \in Contents, m \in 1..(Len(memories) + 1) : memory_write(t, x, m)
      BY <1>2 DEF SyncWrite
    <2>2. \A k \in DOMAIN memories : k \in DOMAIN memories' /\ memories'[k] = memories[k]
      BY <2>1, WriteResult DEF IInv, TypeOK
    <2>3. queue' = queue
      BY <1>2 DEF SyncWrite
    <2> QED
      BY <2>2, <2>3 DEF TableStep, SameRequest
  <1>3. ASSUME NEW d \in Drains, ClaimBatch(d) PROVE TableStep
    <2>1. PICK S \in SUBSET Queued : StateChange(S, "in_flight")
      BY <1>3, ClaimEffect DEF IInv
    <2>2. memories' = memories
      BY <1>3 DEF ClaimBatch
    <2> QED
      BY <2>1, <2>2 DEF TableStep, StateChange
  <1>4. ASSUME NEW d \in Drains, DrainWrite(d) PROVE TableStep
    <2> DEFINE r == drain[d].cur
    <2>1. /\ r \in Requests /\ memory_write(queue[r].tenant, queue[r].content, drain'[d].memory)
          /\ queue' = queue
      BY <1>4, WriteEffect DEF IInv
    <2>2. queue[r].tenant \in Tenants \cup {None} /\ queue[r].content \in Contents
      BY <2>1 DEF IInv, TypeOK, QueueRow
    <2>3. \A k \in DOMAIN memories : k \in DOMAIN memories' /\ memories'[k] = memories[k]
      BY <2>1, <2>2, WriteResult DEF IInv, TypeOK
    <2> QED
      BY <2>1, <2>3 DEF TableStep, SameRequest
  <1>5. ASSUME NEW d \in Drains, DrainStamp(d) PROVE TableStep
    <2>1. /\ queue[drain[d].cur].state # "absent" /\ Holds(drain[d].memory, drain[d].cur)
          /\ drain[d].cur \in Requests
      BY <1>5, StampEffect DEF IInv, DrainInv, Held
    <2>2. /\ DOMAIN memories' = DOMAIN memories /\ queue' = queue
          /\ \A m \in DOMAIN memories :
                 /\ memories'[m].tenant = memories[m].tenant
                 /\ memories'[m].content = memories[m].content
                 /\ memories'[m].created_at = IF m = drain[d].memory
                                              THEN queue[drain[d].cur].submitted_at
                                              ELSE memories[m].created_at
      BY <1>5, StampEffect DEF IInv
    <2> QED
      BY <2>1, <2>2 DEF TableStep, SameRequest
  <1>6. ASSUME NEW d \in Drains, MarkSucceeded(d) PROVE TableStep
    BY <1>6, SucceededEffect DEF TableStep, StateChange, IInv
  <1>7. ASSUME NEW d \in Drains, MarkFailed(d) PROVE TableStep
    BY <1>7, FailedEffect DEF TableStep, StateChange, IInv
  <1>8. ASSUME UNCHANGED <<queue, memories>> PROVE TableStep
    BY <1>8 DEF TableStep, SameRequest
  <1> QED
    BY <1>1, <1>2, <1>3, <1>4, <1>5, <1>6, <1>7, <1>8
       DEF Next, DrainStep, vars, SubmitCheck, SubmitFails, DrainRaises, MarkFailedRaises, Notify, Crash

\* A drain that does not move keeps its invariant if what it holds is left alone.
LEMMA DrainKept ==
    ASSUME TableStep, NEW e \in Drains, TypeOK, DrainInv(e), drain'[e] = drain[e],
           \A r \in Held(e) : queue'[r].state = queue[r].state /\ runs'[r] = runs[r]
    PROVE  DrainInv(e)' /\ Held(e)' = Held(e)
  <1>1. Held(e)' = Held(e)
    BY DEF Held
  <1>2. ASSUME NEW k, NEW r \in Requests, k = drain[e].memory, r = drain[e].cur,
               drain[e].pc \in {"stamp", "succeed"}
        PROVE  Holds(k, r)' /\ (drain[e].pc = "succeed" => Stamped(k)')
    BY <1>2, HoldsKept DEF DrainInv, Held
  <1>3. drain[e].pc # "sleep" => drain[e].cur \in Requests
    BY DEF TypeOK, Drain
  <1>4. /\ drain[e].pc \in {"stamp", "succeed"} => Holds(drain[e].memory, drain[e].cur)'
        /\ drain[e].pc = "succeed" => Stamped(drain[e].memory)'
    BY <1>2, <1>3 DEF Holds, Stamped
  <1>5. drain[e].batch \subseteq Held(e)
    BY DEF Held
  <1>6. drain[e].pc \in {"write", "stamp", "succeed", "fail"} => drain[e].cur \in Held(e)
    BY DEF Held
  <1> QED
    BY <1>1, <1>4, <1>5, <1>6 DEF DrainInv

\* A drain that goes on holds the rest of its batch.
LEMMA GoesOnInv ==
    ASSUME NEW d \in Drains, NEW B \in SUBSET Requests, GoesOn(d, B),
           \A r \in B : queue'[r].state = "in_flight" /\ runs'[r] = 0
    PROVE  DrainInv(d)' /\ Held(d)' = B
  <1>1. CASE B = {} /\ drain'[d] = Asleep
    BY <1>1 DEF DrainInv, Held, Asleep
  <1>2. CASE drain'[d].pc = "write" /\ drain'[d].cur \in B /\ drain'[d].batch = B \ {drain'[d].cur}
    <2>1. Held(d)' = B
      BY <1>2 DEF Held
    <2> QED
      BY <1>2, <2>1 DEF DrainInv
  <1> QED
    BY <1>1, <1>2 DEF GoesOn

\* A step that moves no drain and leaves claimed requests and runs alone.
LEMMA DrainsKept ==
    ASSUME IInv, TableStep, drain' = drain, runs' = runs,
           \A r \in Requests : queue[r].state = "in_flight" => queue'[r].state = "in_flight"
    PROVE  (\A d \in Drains : DrainInv(d)') /\ OneHolder'
  <1>1. ASSUME NEW e \in Drains PROVE DrainInv(e)' /\ Held(e)' = Held(e)
    <2>1. DrainInv(e) /\ TypeOK
      BY DEF IInv
    <2>2. Held(e) \subseteq Requests
      BY <2>1 DEF Held, TypeOK, Drain, DrainInv
    <2>3. \A r \in Held(e) : queue'[r].state = queue[r].state /\ runs'[r] = runs[r]
      BY <2>1, <2>2 DEF DrainInv
    <2> QED
      BY <2>1, <2>3, DrainKept
  <1> QED
    BY <1>1 DEF IInv, OneHolder

\* A step of drain d that only touches what d holds.
LEMMA OthersKept ==
    ASSUME IInv, TableStep, NEW d \in Drains, Moves(d), DrainInv(d)',
           Held(d)' \subseteq Held(d),
           \A r \in Requests \ Held(d) : queue'[r].state = queue[r].state /\ runs'[r] = runs[r]
    PROVE  (\A e \in Drains : DrainInv(e)') /\ OneHolder'
  <1>1. ASSUME NEW e \in Drains, e # d PROVE DrainInv(e)' /\ Held(e)' = Held(e)
    <2>1. DrainInv(e) /\ TypeOK /\ Held(e) \cap Held(d) = {} /\ drain'[e] = drain[e]
      BY <1>1 DEF IInv, OneHolder, Moves
    <2>2. Held(e) \subseteq Requests
      BY <2>1 DEF Held, TypeOK, Drain, DrainInv
    <2>3. \A r \in Held(e) : queue'[r].state = queue[r].state /\ runs'[r] = runs[r]
      BY <2>1, <2>2
    <2> QED
      BY <2>1, <2>3, DrainKept
  <1>2. \A a, b \in Drains : a # b => Held(a)' \cap Held(b)' = {}
    BY <1>1 DEF IInv, OneHolder
  <1> QED
    BY <1>1, <1>2 DEF OneHolder

\* The drains' part of the inductive step.
LEMMA DrainStepInv ==
    ASSUME IInv, [Next]_vars
    PROVE  (\A d \in Drains : DrainInv(d)') /\ OneHolder'
  <1>0. TypeOK /\ TableStep /\ RunsInv /\ \A d \in Drains : DrainInv(d)
    BY TableStepHolds DEF IInv
  <1> DEFINE Goal == (\A d \in Drains : DrainInv(d)') /\ OneHolder'
  <1>1. ASSUME NEW c \in Clients, SubmitInsert(c) PROVE Goal
    <2>1. /\ clients[c].req \in Requests /\ queue[clients[c].req].state = "absent"
          /\ drain' = drain /\ runs' = runs
      BY <1>1 DEF SubmitInsert, IInv, ClientInv
    <2>2. \A r \in Requests : r # clients[c].req => queue'[r] = queue[r]
      BY <1>1, <2>1 DEF SubmitInsert, IInv, TypeOK
    <2> QED
      BY <1>0, <2>1, <2>2, DrainsKept
  <1>2. ASSUME UNCHANGED <<queue, drain, runs>> PROVE Goal
    BY <1>0, <1>2, DrainsKept
  <1>3. ASSUME NEW d \in Drains, ClaimBatch(d) PROVE Goal
    <2>1. PICK S \in SUBSET Queued : StateChange(S, "in_flight") /\ GoesOn(d, S)
      BY <1>0, <1>3, ClaimEffect
    <2>2. runs' = runs /\ S \in SUBSET Requests
      BY <1>3 DEF ClaimBatch, Queued
    <2>3. \A r \in S : queue[r].state = "queued" /\ runs[r] = 0
      BY <1>0 DEF Queued, RunsInv
    <2>4. \A r \in S : queue'[r].state = "in_flight" /\ runs'[r] = 0
      BY <2>1, <2>2, <2>3 DEF StateChange
    <2>5. DrainInv(d)' /\ Held(d)' = S
      BY <2>1, <2>2, <2>4, GoesOnInv
    <2>6. ASSUME NEW e \in Drains, e # d
          PROVE  DrainInv(e)' /\ Held(e)' = Held(e) /\ Held(e) \cap S = {}
      <3>1. Held(e) \subseteq Requests /\ \A r \in Held(e) : queue[r].state = "in_flight"
        BY <1>0 DEF Held, TypeOK, Drain, DrainInv
      <3>2. Held(e) \cap S = {}
        BY <2>3, <3>1
      <3>3. \A r \in Held(e) : queue'[r].state = queue[r].state /\ runs'[r] = runs[r]
        BY <2>1, <2>2, <3>1, <3>2 DEF StateChange
      <3>4. drain'[e] = drain[e]
        BY <2>1, <2>6 DEF GoesOn, Moves
      <3> QED
        BY <1>0, <3>2, <3>3, <3>4, DrainKept
    <2>7. \A a, b \in Drains : a # b => Held(a)' \cap Held(b)' = {}
      BY <2>5, <2>6 DEF IInv, OneHolder
    <2> QED
      BY <2>5, <2>6, <2>7 DEF OneHolder
  <1>4. ASSUME NEW d \in Drains, DrainWrite(d) PROVE Goal
    <2> DEFINE r == drain[d].cur
               m == drain'[d].memory
    <2>1. /\ drain[d].pc = "write" /\ r \in Requests /\ Moves(d)
          /\ drain'[d].pc = "stamp" /\ drain'[d].cur = r /\ drain'[d].batch = drain[d].batch
          /\ memory_write(queue[r].tenant, queue[r].content, m)
          /\ runs' = [runs EXCEPT ![r] = @ + 1] /\ queue' = queue
      BY <1>0, <1>4, WriteEffect
    <2>2. queue[r].tenant \in Tenants \cup {None} /\ queue[r].content \in Contents
      BY <1>0, <2>1 DEF TypeOK, QueueRow
    <2>3. Holds(drain[d].memory, drain[d].cur)'
      <3>1. /\ m \in DOMAIN memories'
            /\ memories'[m].tenant = queue[r].tenant
            /\ \/ memories'[m].content = queue[r].content
               \/ <<memories'[m].content, queue[r].content>> \in Similar
        <4>1. PICK k : k = m
          OBVIOUS
        <4>2. PICK t, x : t = queue[r].tenant /\ x = queue[r].content
          OBVIOUS
        <4>3. memory_write(t, x, k) /\ t \in Tenants \cup {None} /\ x \in Contents
          BY <2>1, <2>2, <4>1, <4>2
        <4>4. memories \in Seq(Memory) /\ clock \in Nat
          BY <1>0 DEF TypeOK
        <4>5. /\ k \in DOMAIN memories' /\ memories'[k].tenant = t
              /\ memories'[k].content = x \/ <<memories'[k].content, x>> \in Similar
          BY <4>3, <4>4, WriteResult
        <4> QED
          BY <4>1, <4>2, <4>5
      <3> QED
        BY <2>1, <3>1 DEF Holds
    <2>4. runs'[r] = 1 /\ \A q \in Requests : q # r => runs'[q] = runs[q]
      BY <1>0, <2>1 DEF DrainInv, TypeOK
    <2>5. Held(d)' = Held(d) /\ r \in Held(d) /\ r \notin drain[d].batch
      BY <1>0, <2>1 DEF Held, DrainInv
    <2>6. drain[d].batch \subseteq Requests
      BY <1>0 DEF TypeOK, Drain
    <2>7. DrainInv(d)'
      BY <1>0, <2>1, <2>3, <2>4, <2>5, <2>6 DEF DrainInv, Holds
    <2> QED
      BY <1>0, <2>1, <2>4, <2>5, <2>7, OthersKept
  <1>5. ASSUME NEW d \in Drains, DrainStamp(d) PROVE Goal
    <2> DEFINE r == drain[d].cur
               m == drain[d].memory
    <2>1. /\ drain[d].pc = "stamp" /\ r \in Requests /\ Moves(d)
          /\ drain'[d].pc = "succeed" /\ drain'[d].cur = r /\ drain'[d].batch = drain[d].batch
          /\ drain'[d].memory = m /\ runs' = runs /\ queue' = queue
          /\ DOMAIN memories' = DOMAIN memories
          /\ \A k \in DOMAIN memories : memories'[k].created_at =
                IF k = m THEN queue[r].submitted_at ELSE memories[k].created_at
      BY <1>0, <1>5, StampEffect
    <2>2. Held(d)' = Held(d) /\ r \in Held(d)
      BY <2>1 DEF Held
    <2>3. queue[r].state = "in_flight" /\ Holds(m, r) /\ runs[r] = 1
      BY <1>0, <2>1, <2>2 DEF DrainInv
    <2>4. ASSUME NEW k, k = m, NEW q \in Requests, q = r PROVE Holds(k, q)' /\ Stamped(k)'
      <3>1. Holds(k, q)'
        BY <1>0, <2>3, <2>4, HoldsKept
      <3>2. memories'[k].created_at = queue'[q].submitted_at
        BY <2>1, <2>3, <2>4 DEF Holds
      <3> QED
        BY <2>1, <2>3, <2>4, <3>1, <3>2 DEF Stamped
    <2>5. Holds(drain[d].memory, drain[d].cur)' /\ Stamped(drain[d].memory)'
      BY <2>1, <2>4 DEF Holds, Stamped
    <2>6. DrainInv(d)'
      BY <1>0, <2>1, <2>2, <2>3, <2>5 DEF DrainInv
    <2> QED
      BY <1>0, <2>1, <2>2, <2>6, OthersKept
  <1>6. ASSUME NEW d \in Drains, DrainRaises(d) PROVE Goal
    <2>1. /\ Moves(d) /\ drain'[d].cur = drain[d].cur /\ drain'[d].batch = drain[d].batch
          /\ drain[d].pc \in {"write", "stamp", "succeed"} /\ drain'[d].pc = "fail"
          /\ queue' = queue /\ runs' = runs
      BY <1>0, <1>6, GotoEffect DEF DrainRaises
    <2>2. Held(d)' = Held(d)
      BY <2>1 DEF Held
    <2>3. DrainInv(d)'
      BY <1>0, <2>1, <2>2 DEF DrainInv
    <2> QED
      BY <1>0, <2>1, <2>2, <2>3, OthersKept
  <1>7. ASSUME NEW d \in Drains, MarkSucceeded(d) PROVE Goal
    <2>1. /\ drain[d].pc = "succeed" /\ StateChange({drain[d].cur}, "succeeded")
          /\ GoesOn(d, drain[d].batch) /\ runs' = runs /\ drain[d].cur \in Requests
      BY <1>0, <1>7, SucceededEffect
    <2>2. /\ drain[d].cur \notin drain[d].batch /\ drain[d].batch \in SUBSET Requests
          /\ Held(d) = drain[d].batch \cup {drain[d].cur}
      BY <1>0, <2>1 DEF DrainInv, TypeOK, Drain, Held
    <2>3. \A q \in drain[d].batch : queue'[q].state = "in_flight" /\ runs'[q] = 0
      BY <1>0, <2>1, <2>2 DEF DrainInv, StateChange
    <2>4. DrainInv(d)' /\ Held(d)' = drain[d].batch
      BY <2>1, <2>2, <2>3, GoesOnInv
    <2>5. \A q \in Requests \ Held(d) : queue'[q].state = queue[q].state /\ runs'[q] = runs[q]
      BY <2>1, <2>2 DEF StateChange
    <2> QED
      BY <1>0, <2>1, <2>2, <2>4, <2>5, OthersKept DEF GoesOn
  <1>8. ASSUME NEW d \in Drains, MarkFailed(d) PROVE Goal
    <2>1. /\ drain[d].pc = "fail" /\ StateChange({drain[d].cur}, "failed") /\ Moves(d)
          /\ drain'[d].pc = "notice" /\ drain'[d].cur = drain[d].cur
          /\ drain'[d].batch = drain[d].batch /\ runs' = runs /\ drain[d].cur \in Requests
      BY <1>0, <1>8, FailedEffect
    <2>2. /\ drain[d].cur \notin drain[d].batch /\ drain[d].batch \subseteq Requests
          /\ Held(d) = drain[d].batch \cup {drain[d].cur} /\ Held(d)' = drain[d].batch
      BY <1>0, <2>1 DEF DrainInv, TypeOK, Drain, Held
    <2>3. DrainInv(d)'
      BY <1>0, <2>1, <2>2 DEF DrainInv, StateChange
    <2>4. \A q \in Requests \ Held(d) : queue'[q].state = queue[q].state /\ runs'[q] = runs[q]
      BY <2>1, <2>2 DEF StateChange
    <2> QED
      BY <1>0, <2>1, <2>2, <2>3, <2>4, OthersKept
  <1>9. ASSUME NEW d \in Drains, MarkFailedRaises(d) \/ Crash(d) PROVE Goal
    <2>1. Moves(d) /\ drain'[d] = Asleep /\ queue' = queue /\ runs' = runs
      BY <1>0, <1>9, SleepEffect
    <2>2. DrainInv(d)' /\ Held(d)' = {}
      BY <2>1 DEF DrainInv, Held, Asleep
    <2> QED
      BY <1>0, <2>1, <2>2, OthersKept
  <1>10. ASSUME NEW d \in Drains, Notify(d) PROVE Goal
    <2>1. /\ drain[d].pc = "notice" /\ GoesOn(d, drain[d].batch) /\ queue' = queue /\ runs' = runs
          /\ drain[d].batch \in SUBSET Requests /\ Held(d) = drain[d].batch
      BY <1>0, <1>10, NextRowEffect DEF Notify, Held, TypeOK, Drain
    <2>2. \A q \in drain[d].batch : queue'[q].state = "in_flight" /\ runs'[q] = 0
      BY <1>0, <2>1 DEF DrainInv
    <2>3. DrainInv(d)' /\ Held(d)' = drain[d].batch
      BY <2>1, <2>2, GoesOnInv
    <2> QED
      BY <1>0, <2>1, <2>3, OthersKept DEF GoesOn
  <1> HIDE DEF Goal
  <1> QED
    BY <1>1, <1>2, <1>3, <1>4, <1>5, <1>6, <1>7, <1>8, <1>9, <1>10
       DEF Next, DrainStep, vars, SubmitCheck, SubmitFails, SyncWrite, Goal

\* Requests come into the queue by SubmitInsert, and runs grow by DrainWrite.
LEMMA RunsStep ==
    ASSUME IInv, [Next]_vars
    PROVE  RunsInv'
  <1>0. TypeOK /\ RunsInv /\ \A d \in Drains : DrainInv(d)
    BY DEF IInv
  <1>1. ASSUME NEW c \in Clients, SubmitInsert(c) PROVE RunsInv'
    <2>1. clients[c].req \in Requests /\ queue[clients[c].req].state = "absent" /\ runs' = runs
      BY <1>1 DEF SubmitInsert, IInv, ClientInv
    <2>2. \A r \in Requests : r # clients[c].req => queue'[r] = queue[r]
      BY <1>0, <1>1, <2>1 DEF SubmitInsert, TypeOK
    <2> QED
      BY <1>0, <2>1, <2>2 DEF RunsInv
  <1>2. ASSUME UNCHANGED <<queue, runs>> PROVE RunsInv'
    BY <1>0, <1>2 DEF RunsInv
  <1>3. ASSUME NEW S, NEW st \in {"in_flight", "succeeded", "failed"}, StateChange(S, st), runs' = runs
        PROVE  RunsInv'
    BY <1>0, <1>3 DEF RunsInv, StateChange
  <1>4. ASSUME NEW d \in Drains, ClaimBatch(d) PROVE RunsInv'
    BY <1>0, <1>3, <1>4, ClaimEffect
  <1>5. ASSUME NEW d \in Drains, MarkSucceeded(d) PROVE RunsInv'
    BY <1>0, <1>3, <1>5, SucceededEffect
  <1>6. ASSUME NEW d \in Drains, MarkFailed(d) PROVE RunsInv'
    BY <1>0, <1>3, <1>6, FailedEffect
  <1>7. ASSUME NEW d \in Drains, DrainWrite(d) PROVE RunsInv'
    <2> DEFINE r == drain[d].cur
    <2>1. drain[d].pc = "write" /\ r \in Requests /\ runs' = [runs EXCEPT ![r] = @ + 1] /\ queue' = queue
      BY <1>0, <1>7, WriteEffect
    <2>2. queue[r].state = "in_flight" /\ runs[r] = 0
      BY <1>0, <2>1 DEF DrainInv, Held
    <2> HIDE DEF r
    <2>3. runs'[r] = 1 /\ \A q \in Requests : q # r => runs'[q] = runs[q]
      BY <1>0, <2>1, <2>2 DEF TypeOK
    <2> QED
      BY <1>0, <2>1, <2>2, <2>3 DEF RunsInv
  <1> QED
    BY <1>1, <1>2, <1>4, <1>5, <1>6, <1>7
       DEF Next, DrainStep, vars, SubmitCheck, SubmitFails, SyncWrite, DrainStamp, DrainRaises,
           MarkFailedRaises, Notify, Crash

\* Ids are handed out once, so a submission inserts a request of its own.
LEMMA ClientStep ==
    ASSUME IInv, [Next]_vars
    PROVE  ClientInv'
  <1>0. TypeOK /\ ClientInv /\ \A d \in Drains : DrainInv(d)
    BY DEF IInv
  <1>1. ASSUME NEW c \in Clients, SubmitCheck(c) PROVE ClientInv'
    <2>1. /\ nextReq \in Requests /\ nextReq' = nextReq + 1 /\ queue' = queue
          /\ clients'[c].req = nextReq /\ \A b \in Clients : b # c => clients'[b] = clients[b]
      BY <1>0, <1>1 DEF SubmitCheck, TypeOK, Requests
    <2>2. \A r \in Requests : r >= nextReq => queue[r].state = "absent"
      BY <1>0 DEF ClientInv
    <2>3. \A r \in Requests : r \in Nat
      BY QueueAssumption DEF Requests
    <2> QED
      BY <1>0, <2>1, <2>2, <2>3 DEF ClientInv
  <1>2. ASSUME NEW c \in Clients, SubmitInsert(c) PROVE ClientInv'
    <2>1. /\ clients[c].pc = "insert" /\ clients'[c].pc = "idle" /\ nextReq' = nextReq
          /\ \A b \in Clients : b # c => clients'[b] = clients[b]
          /\ clients[c].req \in Requests /\ clients[c].req < nextReq
      BY <1>0, <1>2 DEF SubmitInsert, TypeOK, IdleClient, ClientInv
    <2>2. \A r \in Requests : r # clients[c].req => queue'[r] = queue[r]
      BY <1>0, <1>2, <2>1 DEF SubmitInsert, TypeOK
    <2>3. \A r \in Requests : r >= nextReq => r # clients[c].req
      BY <1>0, <2>1, QueueAssumption DEF TypeOK, Requests
    <2> QED
      BY <1>0, <2>1, <2>2, <2>3 DEF ClientInv
  <1>3. ASSUME NEW c \in Clients, SubmitFails(c) PROVE ClientInv'
    <2>1. /\ clients'[c].pc = "idle" /\ nextReq' = nextReq /\ queue' = queue
          /\ \A b \in Clients : b # c => clients'[b] = clients[b]
      BY <1>0, <1>3 DEF SubmitFails, TypeOK, IdleClient
    <2> QED
      BY <1>0, <2>1 DEF ClientInv
  <1>4. ASSUME UNCHANGED <<queue, clients, nextReq>> PROVE ClientInv'
    BY <1>0, <1>4 DEF ClientInv
  <1>5. ASSUME NEW S \in SUBSET Requests, NEW st, StateChange(S, st),
               \A r \in S : queue[r].state # "absent", UNCHANGED <<clients, nextReq>>
        PROVE  ClientInv'
    BY <1>0, <1>5 DEF ClientInv, StateChange
  <1>6. ASSUME NEW d \in Drains, ClaimBatch(d) PROVE ClientInv'
    <2>1. PICK S \in SUBSET Queued : StateChange(S, "in_flight")
      BY <1>0, <1>6, ClaimEffect
    <2>2. S \in SUBSET Requests /\ \A r \in S : queue[r].state # "absent"
      BY DEF Queued
    <2> QED
      BY <1>5, <1>6, <2>1, <2>2 DEF ClaimBatch
  <1>7. ASSUME NEW d \in Drains, MarkSucceeded(d) PROVE ClientInv'
    <2>1. /\ drain[d].pc = "succeed" /\ drain[d].cur \in Requests
          /\ StateChange({drain[d].cur}, "succeeded") /\ UNCHANGED <<clients, nextReq>>
      BY <1>0, <1>7, SucceededEffect
    <2>2. queue[drain[d].cur].state # "absent"
      BY <1>0, <2>1 DEF DrainInv, Held
    <2> QED
      BY <1>5, <2>1, <2>2
  <1>8. ASSUME NEW d \in Drains, MarkFailed(d) PROVE ClientInv'
    <2>1. /\ drain[d].pc = "fail" /\ drain[d].cur \in Requests
          /\ StateChange({drain[d].cur}, "failed") /\ UNCHANGED <<clients, nextReq>>
      BY <1>0, <1>8, FailedEffect
    <2>2. queue[drain[d].cur].state # "absent"
      BY <1>0, <2>1 DEF DrainInv, Held
    <2> QED
      BY <1>5, <2>1, <2>2
  <1> QED
    BY <1>1, <1>2, <1>3, <1>4, <1>6, <1>7, <1>8
       DEF Next, DrainStep, vars, SyncWrite, DrainWrite, DrainStamp, DrainRaises,
           MarkFailedRaises, Notify, Crash

\* A reported success stays stamped, and a new one was stamped before.
LEMMA StampedStep ==
    ASSUME IInv, [Next]_vars
    PROVE  SucceededIsStamped'
  <1>0. TypeOK /\ TableStep /\ SucceededIsStamped /\ \A d \in Drains : DrainInv(d)
    BY TableStepHolds DEF IInv
  <1>1. ASSUME NEW r \in Requests, queue'[r].state = "succeeded",
               queue[r].state = "succeeded", queue'[r].result = queue[r].result
        PROVE  (Holds(queue[r].result, r) /\ Stamped(queue[r].result))'
    <2>1. PICK m : m = queue[r].result
      OBVIOUS
    <2>2. Holds(m, r) /\ Stamped(m)
      BY <1>0, <1>1, <2>1 DEF SucceededIsStamped
    <2>3. Holds(m, r)' /\ Stamped(m)'
      BY <1>0, <1>1, <2>2, HoldsKept
    <2> QED
      BY <1>1, <2>1, <2>3 DEF Holds, Stamped
  <1>2. ASSUME \A r \in Requests : queue'[r].state = "succeeded" =>
                  queue[r].state = "succeeded" /\ queue'[r].result = queue[r].result
        PROVE  SucceededIsStamped'
    BY <1>1, <1>2 DEF SucceededIsStamped
  <1>3. ASSUME NEW c \in Clients, SubmitInsert(c) PROVE SucceededIsStamped'
    BY <1>0, <1>2, <1>3 DEF SubmitInsert, TypeOK
  <1>4. ASSUME UNCHANGED queue PROVE SucceededIsStamped'
    BY <1>2, <1>4
  <1>5. ASSUME NEW d \in Drains, ClaimBatch(d) PROVE SucceededIsStamped'
    BY <1>0, <1>2, <1>5, ClaimEffect DEF StateChange
  <1>6. ASSUME NEW d \in Drains, MarkFailed(d) PROVE SucceededIsStamped'
    BY <1>0, <1>2, <1>6, FailedEffect DEF StateChange
  <1>7. ASSUME NEW d \in Drains, MarkSucceeded(d) PROVE SucceededIsStamped'
    <2>1. PICK r \in Requests : r = drain[d].cur
      BY <1>0, <1>7, SucceededEffect
    <2>2. PICK m : m = drain[d].memory
      OBVIOUS
    <2>3. /\ drain[d].pc = "succeed" /\ StateChange({r}, "succeeded") /\ queue'[r].result = m
          /\ \A q \in Requests : q # r => queue'[q] = queue[q]
      BY <1>0, <1>7, <2>1, <2>2, SucceededEffect
    <2>4. Holds(m, r) /\ Stamped(m) /\ queue[r].state # "absent"
      BY <1>0, <2>1, <2>2, <2>3 DEF DrainInv, Held
    <2>5. Holds(m, r)' /\ Stamped(m)'
      BY <1>0, <2>4, HoldsKept
    <2>6. (Holds(queue[r].result, r) /\ Stamped(queue[r].result))'
      BY <2>3, <2>5 DEF Holds, Stamped
    <2>7. ASSUME NEW q \in Requests, q # r, queue'[q].state = "succeeded"
          PROVE  (Holds(queue[q].result, q) /\ Stamped(queue[q].result))'
      BY <1>1, <2>3, <2>7
    <2> QED
      BY <2>6, <2>7 DEF SucceededIsStamped
  <1> QED
    BY <1>3, <1>4, <1>5, <1>6, <1>7
       DEF Next, DrainStep, vars, SubmitCheck, SubmitFails, SyncWrite, DrainWrite, DrainStamp,
           DrainRaises, MarkFailedRaises, Notify, Crash

LEMMA InvInit == Init => IInv
  <1> SUFFICES ASSUME Init PROVE IInv
    OBVIOUS
  <1>1. \A r \in Requests : queue[r].state = "absent" /\ runs[r] = 0
    BY DEF Init, Absent
  <1>2. \A c \in Clients : clients[c].pc = "idle"
    BY DEF Init, IdleClient
  <1>3. \A d \in Drains : Held(d) = {} /\ drain[d].pc = "sleep" /\ drain[d].batch = {}
    BY DEF Init, Asleep, Held
  <1>4. \A d \in Drains : DrainInv(d)
    BY <1>3 DEF DrainInv
  <1> QED
    BY <1>1, <1>2, <1>3, <1>4, TypeInit
       DEF IInv, OneHolder, RunsInv, ClientInv, SucceededIsStamped

LEMMA InvStep == IInv /\ [Next]_vars => IInv'
  <1> SUFFICES ASSUME IInv, [Next]_vars PROVE IInv'
    OBVIOUS
  <1>1. TypeOK'
    BY TypeStep DEF IInv
  <1> QED
    BY <1>1, DrainStepInv, RunsStep, ClientStep, StampedStep DEF IInv

\* A request reported as succeeded names a memory of its tenant, with its
\* content or one check_dup takes for the same, that carries the submission time
\* of a request it stands for: Decision 1 holds across the drain's two
\* transactions, crashes and merges of similar contents between them included.
THEOREM SuccessIsStamped == Spec => []SucceededIsStamped
  <1>1. Spec => []IInv
    BY InvInit, InvStep, PTL DEF Spec
  <1>2. IInv => SucceededIsStamped
    BY DEF IInv
  <1> QED
    BY <1>1, <1>2, PTL

----------------------------------------------------------------------------
(* The queue implements AsyncRequest *)

LEMMA PromiseInit == Init => Promise!AInit
  BY DEF Init, Promise!AInit, Absent

LEMMA PromiseStep == IInv /\ [Next]_vars => [Promise!ANext]_(Promise!avars)
  <1> SUFFICES ASSUME IInv, [Next]_vars PROVE [Promise!ANext]_(Promise!avars)
    OBVIOUS
  <1>0. TypeOK /\ \A d \in Drains : DrainInv(d)
    BY DEF IInv
  <1>1. ASSUME NEW c \in Clients, SubmitInsert(c) PROVE Promise!ANext
    <2>1. PICK r \in Requests : r = clients[c].req
      BY <1>1 DEF SubmitInsert, IInv, ClientInv
    <2>2. /\ queue[r].state = "absent" /\ queue'[r].state = "queued" /\ runs' = runs
          /\ \A q \in Requests : q # r => queue'[q] = queue[q]
      BY <1>0, <1>1, <2>1 DEF SubmitInsert, IInv, ClientInv, TypeOK
    <2>3. Promise!Accept(r)
      BY <2>2 DEF Promise!Accept
    <2> QED
      BY <2>3 DEF Promise!ANext
  <1>2. ASSUME NEW d \in Drains, ClaimBatch(d) PROVE Promise!ANext
    <2>1. PICK S \in SUBSET Queued : StateChange(S, "in_flight")
      BY <1>0, <1>2, ClaimEffect
    <2>2. S \in SUBSET Requests /\ \A r \in S : queue[r].state = "queued"
      BY DEF Queued
    <2>3. Promise!Take(S)
      BY <1>2, <2>1, <2>2 DEF Promise!Take, StateChange, ClaimBatch
    <2> QED
      BY <2>2, <2>3 DEF Promise!ANext
  <1>3. ASSUME NEW d \in Drains, DrainWrite(d) PROVE Promise!ANext
    <2>1. PICK r \in Requests : r = drain[d].cur
      BY <1>0, <1>3, WriteEffect
    <2>2. drain[d].pc = "write" /\ runs' = [runs EXCEPT ![r] = @ + 1] /\ queue' = queue
      BY <1>0, <1>3, <2>1, WriteEffect
    <2>3. queue[r].state = "in_flight" /\ runs[r] = 0
      BY <1>0, <2>1, <2>2 DEF DrainInv, Held
    <2>4. runs' = [runs EXCEPT ![r] = 1]
      BY <1>0, <2>2, <2>3 DEF TypeOK
    <2>5. Promise!Execute(r)
      BY <2>2, <2>3, <2>4 DEF Promise!Execute
    <2> QED
      BY <2>5 DEF Promise!ANext
  <1>4. ASSUME NEW d \in Drains, MarkSucceeded(d) PROVE Promise!ANext
    <2>1. PICK r \in Requests : r = drain[d].cur
      BY <1>0, <1>4, SucceededEffect
    <2>2. drain[d].pc = "succeed" /\ StateChange({r}, "succeeded") /\ runs' = runs
      BY <1>0, <1>4, <2>1, SucceededEffect
    <2>3. queue[r].state = "in_flight" /\ runs[r] = 1
      BY <1>0, <2>1, <2>2 DEF DrainInv, Held
    <2>4. Promise!Succeed(r)
      BY <2>2, <2>3 DEF Promise!Succeed, StateChange
    <2> QED
      BY <2>4 DEF Promise!ANext
  <1>5. ASSUME NEW d \in Drains, MarkFailed(d) PROVE Promise!ANext
    <2>1. PICK r \in Requests : r = drain[d].cur
      BY <1>0, <1>5, FailedEffect
    <2>2. drain[d].pc = "fail" /\ StateChange({r}, "failed") /\ runs' = runs
      BY <1>0, <1>5, <2>1, FailedEffect
    <2>3. queue[r].state = "in_flight"
      BY <1>0, <2>1, <2>2 DEF DrainInv, Held
    <2>4. Promise!Fail(r)
      BY <2>2, <2>3 DEF Promise!Fail, StateChange
    <2> QED
      BY <2>4 DEF Promise!ANext
  <1>6. ASSUME UNCHANGED <<queue, runs>> PROVE UNCHANGED Promise!avars
    BY <1>6 DEF Promise!avars
  <1> QED
    BY <1>1, <1>2, <1>3, <1>4, <1>5, <1>6
       DEF Next, DrainStep, vars, SubmitCheck, SubmitFails, SyncWrite, DrainStamp, DrainRaises,
           MarkFailedRaises, Notify, Crash

\* The queue table and any number of drains carry each accepted request out at
\* most once, report success only for an executed request, and never change a
\* reported outcome, whichever transactions fail and whenever a drain dies.
THEOREM AtMostOnce == Spec => ImplementsRequest
  <1>1. Spec => []IInv
    BY InvInit, InvStep, PTL DEF Spec
  <1> QED
    BY <1>1, PromiseInit, PromiseStep, PTL DEF Spec, ImplementsRequest, Promise!ASpec
=============================================================================
