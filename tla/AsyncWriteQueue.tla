-------------------------- MODULE AsyncWriteQueue --------------------------
(* The async_write_queue table: memory_write_async submits, the drain       *)
(* daemon claims batches and carries each request out.  Every transaction   *)
(* of the two is an action; processes may crash between any two of them.    *)
(* The queued memory_write itself is reduced to its outcomes: an error, a   *)
(* merge into a row with the same or a similar content, or a new row.       *)
(*                                                                          *)
(* The drain runs memory_write with NoopQuotas (make_default_deps), so the  *)
(* memories_count limit is looked at when a request is submitted and by     *)
(* synchronous writes only.  The token bucket and tenant_daily_usage are    *)
(* not part of this module.                                                 *)
EXTENDS Integers, FiniteSets, Sequences

CONSTANTS
    Tenants,    \* tenants: numbers, ordered as their uuids are
    Clients,    \* concurrent callers of memory_write_async
    Drains,     \* drain processes; SKIP LOCKED lets more than one run
    Contents,   \* contents (with their type), told apart by their hash
    Similar,    \* pairs of contents whose embeddings are closer than 0.95
    BatchSize,  \* DRAIN_BATCH_SIZE
    Limit,      \* memories_limit of the tenants' tier
    Faults,     \* "reject": the queued write is refused; "db": a transaction
                \* of the drain fails; "crash": the drain process dies
    MaxReq,     \* bound: requests ever submitted
    MaxSync     \* bound: synchronous writes

ASSUME QueueAssumption ==
    /\ Tenants \subseteq Nat
    /\ BatchSize \in Nat /\ Limit \in Nat /\ MaxReq \in Nat /\ MaxSync \in Nat
    /\ Contents # {}

Requests == 1..MaxReq
None == 0

VARIABLES
    queue,      \* async_write_queue, "absent" before a request is inserted
    nextReq,    \* uuid4(): request ids are never reused
    clients,    \* memory_write_async calls under way
    memories,   \* the live rows of memories
    synced,     \* number of synchronous writes so far
    clock,      \* now(): later readings are larger
    drain,      \* the drain processes
    notices,    \* requests with an async_write.failed notice
    runs,       \* history: how often each request's memory_write committed
    lost        \* history: requests a drain held when it died or failed to fail them

vars == <<queue, nextReq, clients, memories, synced, clock, drain, notices, runs, lost>>

QueueRow == [state : {"absent", "queued", "in_flight", "succeeded", "failed"},
             tenant : Tenants \cup {None}, content : Contents, submitted_at : Nat,
             attempts : Nat, result : Nat]

Memory == [tenant : Tenants \cup {None}, content : Contents, created_at : Nat]

Client == [pc : {"idle", "insert"}, req : Requests \cup {None}, tenant : Tenants \cup {None},
           content : Contents, now : Nat]

\* pc is the transaction the drain is about to start for cur; batch holds the
\* claimed rows it has not come to yet.
Drain == [pc : {"sleep", "write", "stamp", "succeed", "fail", "notice"},
          batch : SUBSET Requests, cur : Requests \cup {None}, memory : Nat]

AnyContent == CHOOSE x \in Contents : TRUE
Absent == [state |-> "absent", tenant |-> None, content |-> AnyContent, submitted_at |-> 0,
           attempts |-> 0, result |-> None]
IdleClient == [pc |-> "idle", req |-> None, tenant |-> None, content |-> AnyContent, now |-> 0]
Asleep == [pc |-> "sleep", batch |-> {}, cur |-> None, memory |-> None]

Init ==
    /\ queue = [r \in Requests |-> Absent]
    /\ nextReq = 1
    /\ clients = [c \in Clients |-> IdleClient]
    /\ memories = << >>
    /\ synced = 0
    /\ clock = 1
    /\ drain = [d \in Drains |-> Asleep]
    /\ notices = {}
    /\ runs = [r \in Requests |-> 0]
    /\ lost = {}

----------------------------------------------------------------------------
(* memory_write_async *)

\* The memories_count part of QuotaEnforcer.check_write.
check_write(t) == Cardinality({m \in DOMAIN memories : memories[m].tenant = t}) < Limit

\* The checks of the call, then its reading of the clock.
SubmitCheck(c) ==
    /\ clients[c].pc = "idle"
    /\ nextReq <= MaxReq
    /\ \E t \in Tenants, x \in Contents :
          /\ check_write(t)
          /\ clients' = [clients EXCEPT ![c] = [pc |-> "insert", req |-> nextReq, tenant |-> t,
                                                content |-> x, now |-> clock]]
    /\ nextReq' = nextReq + 1
    /\ clock' = clock + 1
    /\ UNCHANGED <<queue, memories, synced, drain, notices, runs, lost>>

\* The tenant_tx with the INSERT.
SubmitInsert(c) ==
    /\ clients[c].pc = "insert"
    /\ queue' = [queue EXCEPT ![clients[c].req] =
                   [state |-> "queued", tenant |-> clients[c].tenant,
                    content |-> clients[c].content, submitted_at |-> clients[c].now,
                    attempts |-> 0, result |-> None]]
    /\ clients' = [clients EXCEPT ![c] = IdleClient]
    /\ UNCHANGED <<nextReq, memories, synced, clock, drain, notices, runs, lost>>

\* The call fails before its INSERT commits.
SubmitFails(c) ==
    /\ clients[c].pc = "insert"
    /\ clients' = [clients EXCEPT ![c] = IdleClient]
    /\ UNCHANGED <<queue, nextReq, memories, synced, clock, drain, notices, runs, lost>>

----------------------------------------------------------------------------
(* memory_write, called directly or by the drain *)

OfTenant(t) == {m \in DOMAIN memories : memories[m].tenant = t}

\* check_dup: a row with the same hash, else one whose embedding is close
\* enough.  None: there is neither, or one of the two has no embedding.
Duplicates(t, x) ==
    LET byHash == {m \in OfTenant(t) : memories[m].content = x}
        byVec  == {m \in OfTenant(t) : <<memories[m].content, x>> \in Similar}
    IN  IF byHash # {} THEN byHash ELSE byVec \cup {None}

\* m is the row returned: merging touches tags and updated_at only.
memory_write(t, x, m) ==
    \/ /\ m \in Duplicates(t, x) \ {None}
       /\ UNCHANGED <<memories, clock>>
    \/ /\ None \in Duplicates(t, x)
       /\ m = Len(memories) + 1
       /\ memories' = Append(memories, [tenant |-> t, content |-> x, created_at |-> clock])
       /\ clock' = clock + 1

SyncWrite ==
    /\ synced < MaxSync
    /\ \E t \in Tenants, x \in Contents :
          /\ check_write(t)
          /\ \E m \in 1..(Len(memories) + 1) : memory_write(t, x, m)
    /\ synced' = synced + 1
    /\ UNCHANGED <<queue, nextReq, clients, drain, notices, runs, lost>>

----------------------------------------------------------------------------
(* The drain *)

\* Mutation: rows left in flight are claimed again.
Queued_Reclaim == {r \in Requests : queue[r].state \in {"queued", "in_flight"}}

Queued == {r \in Requests : queue[r].state = "queued"}

\* ORDER BY tenant_id, submitted_at.
Before(r, q) ==
    \/ queue[r].tenant < queue[q].tenant
    \/ queue[r].tenant = queue[q].tenant /\ queue[r].submitted_at < queue[q].submitted_at

\* What the sub-select with LIMIT and SKIP LOCKED returns.
FirstQueued(S) ==
    /\ S \subseteq Queued
    /\ Cardinality(S) <= BatchSize
    /\ \A q \in Queued \ S : Cardinality(S) = BatchSize /\ \A r \in S : Before(r, q)

\* A batch is gone through in no particular order: RETURNING has no ORDER BY.
NextRow(d) ==
    \/ /\ drain[d].batch = {}
       /\ drain' = [drain EXCEPT ![d] = Asleep]
    \/ \E r \in drain[d].batch :
          drain' = [drain EXCEPT ![d] = [pc |-> "write", batch |-> drain[d].batch \ {r},
                                         cur |-> r, memory |-> None]]

Goto(d, pc) == drain' = [drain EXCEPT ![d].pc = pc]

\* _claim_batch.  With nothing queued the drain sleeps on.
ClaimBatch(d) ==
    /\ drain[d].pc = "sleep"
    /\ \E S \in SUBSET Queued :
          /\ S # {}
          /\ FirstQueued(S)
          /\ queue' = [r \in Requests |->
                         IF r \in S THEN [queue[r] EXCEPT !.state = "in_flight", !.attempts = @ + 1]
                         ELSE queue[r]]
          /\ \E r \in S : drain' = [drain EXCEPT ![d] = [pc |-> "write", batch |-> S \ {r},
                                                         cur |-> r, memory |-> None]]
    /\ UNCHANGED <<nextReq, clients, memories, synced, clock, notices, runs, lost>>

\* _execute_memory_write, first transaction: the tool commits.
DrainWrite(d) ==
    /\ drain[d].pc = "write"
    /\ LET r == drain[d].cur IN
       /\ \E m \in 1..(Len(memories) + 1) :
             /\ memory_write(queue[r].tenant, queue[r].content, m)
             /\ drain' = [drain EXCEPT ![d].pc = "stamp", ![d].memory = m]
       /\ runs' = [runs EXCEPT ![r] = @ + 1]
    /\ UNCHANGED <<queue, nextReq, clients, synced, notices, lost>>

\* Mutation: a merged request is not stamped.
DrainStamp_NewRowsOnly(d) ==
    /\ drain[d].pc = "stamp"
    /\ memories' = IF drain[d].memory = Len(memories)
                   THEN [memories EXCEPT ![drain[d].memory].created_at = queue[drain[d].cur].submitted_at]
                   ELSE memories
    /\ Goto(d, "succeed")
    /\ UNCHANGED <<queue, nextReq, clients, synced, clock, notices, runs, lost>>

\* Second transaction: created_at = submitted_at.
DrainStamp(d) ==
    /\ drain[d].pc = "stamp"
    /\ memories' = [memories EXCEPT ![drain[d].memory].created_at = queue[drain[d].cur].submitted_at]
    /\ Goto(d, "succeed")
    /\ UNCHANGED <<queue, nextReq, clients, synced, clock, notices, runs, lost>>

\* Any exception before the outcome is recorded: the write is refused, or the
\* transaction at hand fails.
DrainRaises(d) ==
    /\ \/ drain[d].pc = "write" /\ "reject" \in Faults
       \/ drain[d].pc \in {"write", "stamp", "succeed"} /\ "db" \in Faults
    /\ Goto(d, "fail")
    /\ UNCHANGED <<queue, nextReq, clients, memories, synced, clock, notices, runs, lost>>

\* Mutation: the drain leaves its batch after the first row.
MarkSucceeded_DropsBatch(d) ==
    /\ drain[d].pc = "succeed"
    /\ queue' = [queue EXCEPT ![drain[d].cur].state = "succeeded",
                              ![drain[d].cur].result = drain[d].memory]
    /\ drain' = [drain EXCEPT ![d] = Asleep]
    /\ UNCHANGED <<nextReq, clients, memories, synced, clock, notices, runs, lost>>

MarkSucceeded(d) ==
    /\ drain[d].pc = "succeed"
    /\ queue' = [queue EXCEPT ![drain[d].cur].state = "succeeded",
                              ![drain[d].cur].result = drain[d].memory]
    /\ NextRow(d)
    /\ UNCHANGED <<nextReq, clients, memories, synced, clock, notices, runs, lost>>

MarkFailed(d) ==
    /\ drain[d].pc = "fail"
    /\ queue' = [queue EXCEPT ![drain[d].cur].state = "failed"]
    /\ Goto(d, "notice")
    /\ UNCHANGED <<nextReq, clients, memories, synced, clock, notices, runs, lost>>

\* Requests whose outcome drain d is going to record.
Held(d) ==
    drain[d].batch \cup IF drain[d].pc \in {"write", "stamp", "succeed", "fail"}
                        THEN {drain[d].cur} ELSE {}

\* The exception leaves drain_once; main logs it and sleeps, the rest of the
\* batch is forgotten.
MarkFailedRaises(d) ==
    /\ drain[d].pc = "fail" /\ "db" \in Faults
    /\ drain' = [drain EXCEPT ![d] = Asleep]
    /\ lost' = lost \cup Held(d)
    /\ UNCHANGED <<queue, nextReq, clients, memories, synced, clock, notices, runs>>

\* The notice is queued, or its failure logged.
Notify(d) ==
    /\ drain[d].pc = "notice"
    /\ \/ notices' = notices \cup {drain[d].cur}
       \/ "db" \in Faults /\ UNCHANGED notices
    /\ NextRow(d)
    /\ UNCHANGED <<queue, nextReq, clients, memories, synced, clock, runs, lost>>

\* systemd restarts the process; what it held in memory is lost.
Crash(d) ==
    /\ "crash" \in Faults
    /\ drain[d].pc # "sleep"
    /\ drain' = [drain EXCEPT ![d] = Asleep]
    /\ lost' = lost \cup Held(d)
    /\ UNCHANGED <<queue, nextReq, clients, memories, synced, clock, notices, runs>>

DrainStep(d) ==
    \/ ClaimBatch(d) \/ DrainWrite(d) \/ DrainStamp(d) \/ DrainRaises(d)
    \/ MarkSucceeded(d) \/ MarkFailed(d) \/ MarkFailedRaises(d) \/ Notify(d)

Next ==
    \/ \E c \in Clients : SubmitCheck(c) \/ SubmitInsert(c) \/ SubmitFails(c)
    \/ SyncWrite
    \/ \E d \in Drains : DrainStep(d) \/ Crash(d)

Spec == Init /\ [][Next]_vars

\* The daemon loops for ever (while not stop) and systemd restarts it.
FairSpec == Spec /\ \A d \in Drains : WF_vars(DrainStep(d))

----------------------------------------------------------------------------
(* Properties *)

\* Type invariant: queue rows, memories and the processes' local state have
\* the shapes of the schema and of the code's variables.
TypeOK ==
    /\ queue \in [Requests -> QueueRow]
    /\ nextReq \in 1..(MaxReq + 1)
    /\ clients \in [Clients -> Client]
    /\ memories \in Seq(Memory)
    /\ synced \in Nat /\ clock \in Nat
    /\ drain \in [Drains -> Drain]
    /\ \A d \in Drains : drain[d].pc # "sleep" => drain[d].cur # None
    /\ notices \subseteq Requests
    /\ runs \in [Requests -> Nat]
    /\ lost \subseteq Requests

Promise == INSTANCE AsyncRequest WITH status <- [r \in Requests |-> queue[r].state]

\* The queue and its drains implement AsyncRequest: whatever crashes and
\* however many drains run, a request is executed at most once, is reported
\* succeeded only if it was executed, and its outcome never changes.
ImplementsRequest == Promise!ASpec

\* Row m is what request r may have become: it has its tenant, and its content
\* or one that check_dup takes for the same.
Holds(m, r) ==
    /\ m \in DOMAIN memories
    /\ memories[m].tenant = queue[r].tenant
    /\ \/ memories[m].content = queue[r].content
       \/ <<memories[m].content, queue[r].content>> \in Similar

\* A request that row m may stand for was submitted at its created_at.
Stamped(m) ==
    \E q \in Requests : /\ queue[q].state # "absent"
                        /\ Holds(m, q)
                        /\ memories[m].created_at = queue[q].submitted_at

\* A request reported as succeeded names a memory of its tenant, with its
\* content or one close to it, whose created_at is the submission time of a
\* request it stands for and never the time the drain got to it (Decision 1),
\* although row and stamp are written in two transactions, between which other
\* requests, with the same or a similar content, are merged into the memory.
SucceededIsStamped ==
    \A r \in Requests : queue[r].state = "succeeded" =>
       Holds(queue[r].result, r) /\ Stamped(queue[r].result)

Settled(r) == queue[r].state \in {"succeeded", "failed"}

\* 0028: "queued -> in_flight -> succeeded | failed": an accepted request gets
\* an outcome, whatever is refused, fails or crashes around it, except a
\* request that was itself in the hands of a drain that died or that could not
\* record its failure: nobody takes those up again.
EveryRequestSettles ==
    \A r \in Requests : (queue[r].state = "queued") ~> (Settled(r) \/ r \in lost)

-----------------------------------------------------------------------------
(* Claims of the repository that the code does not keep (README, Deviations) *)

\* "Failure surfaces via notice" (async_write_drain.py:29).
FailureIsNotified == \A r \in Requests : (queue[r].state = "failed") ~> (r \in notices)

\* "claim <=50 oldest queued rows" (async_write_drain.py:10): no claimed row is
\* younger than one left in the queue.
ClaimsOldest ==
    [][\A r, q \in Requests :
         /\ queue[r].state = "queued" /\ queue'[r].state = "in_flight"
         /\ queue[q].state = "queued" /\ queue'[q].state = "queued"
         => queue[r].submitted_at < queue[q].submitted_at]_vars

\* "Per-tenant ordering preserved by ORDER BY (tenant_id, submitted_at)"
\* (async_write_drain.py:59): the requests of a tenant are carried out in the
\* order they were submitted.
ProcessedInOrder ==
    [][\A r, q \in Requests :
         /\ runs'[r] # runs[r]
         /\ queue[q].state \in {"queued", "in_flight"} /\ runs[q] = 0 /\ q \notin lost
         /\ queue[q].tenant = queue[r].tenant
         => queue[r].submitted_at <= queue[q].submitted_at]_vars

\* "The resulting memory's created_at equals submitted_at"
\* (tool_descriptions.py:68).
CreatedAtIsSubmittedAt ==
    \A r \in Requests : queue[r].state = "succeeded" =>
       memories[queue[r].result].created_at = queue[r].submitted_at

\* "within the same tenant_tx so the transient state isn't visible"
\* (async_write_drain.py:20): between two transactions, the memory of a request
\* has its final created_at.
TransientHidden ==
    \A d \in Drains : drain[d].memory # None =>
       memories[drain[d].memory].created_at \in
          {queue[r].submitted_at : r \in Requests}

\* "Quota counts at submission (no bypass via async)" (tool_descriptions.py:66):
\* asynchronous writes do not take a tenant past memories_limit.
WithinLimit ==
    \A t \in Tenants :
       Cardinality({m \in DOMAIN memories : memories[m].tenant = t}) <= Limit
=============================================================================
