------------------------------ MODULE Mindmap ------------------------------
(* Mind maps: memory_maps, memory_map_membership and memory_map_events, the  *)
(* mindmap_* tools of the agents, and the web pages on which the owner reads *)
(* maps, answers questions and settles branches.                             *)
(*                                                                           *)
(* A tool that adds a node is three transactions: its checks, the write of   *)
(* the memory (nobody can name it yet, so it is no step here) and the graph  *)
(* rows.  now() is the start of a transaction, the id of an event is drawn   *)
(* when it is logged, both become visible at the commit: beginning, logging  *)
(* and commit are steps of their own.  The statements of a read each see     *)
(* what is committed by then.  A call refused by its checks changes nothing  *)
(* and is no step.                                                           *)
(*                                                                           *)
(* Texts, titles, slugs, edges and ratifications are left out, and so is the *)
(* deletion of a node's memory.                                              *)
EXTENDS Integers, FiniteSets

CONSTANTS
    Clients,    \* concurrent callers
    Web,        \* the callers that are web sessions of the owner
    Authors,    \* values agents pass for authored_by
    Turns,      \* values agents pass for responsible_party
    Seeds,      \* memories a map may be seeded from; None: opened without a seed
    Ops,        \* operations of the run
    Solo,       \* operations that overlap no other call; "flag": review flags that
                \* overlap no transaction that has logged an event
    Threshold,  \* review_threshold
    MaxId,      \* bound: memories written
    MaxCalls    \* bound: calls

WebOps == {"answer", "resolve", "web_get"}
OpNames == WebOps \cup {"open", "write_owner", "write_model", "link", "review", "close",
                        "get", "get_open", "get_since", "get_open_since", "reply_cursor"}

ASSUME MindmapAssumption ==
    /\ Web \subseteq Clients
    /\ Authors \subseteq {"owner", "model", "null"} /\ Turns \subseteq {"owner", "model", "null"}
    /\ Ops \subseteq OpNames /\ Solo \subseteq OpNames \cup {"flag"}
    /\ Threshold \in Nat /\ MaxId \in Nat /\ MaxCalls \in Nat

None == 0
Ids == 1..MaxId
Parties == {"owner", "model"}

VARIABLES
    maps,       \* memory_maps, by root_memory_id
    member,     \* memory_map_membership, by memory_id
    events,     \* memory_map_events, committed
    tx,         \* the call of each client
    clock,      \* now()
    nextId,     \* gen_random_uuid() of memories
    nextEvent,  \* the sequence of memory_map_events.id
    cursor,     \* the cursor each client holds for each map
    calls,      \* number of calls so far
    told,       \* history: ids of the events each client was shown the node of
    reviewed,   \* history: the nodes some review returned
    promoted    \* history: how often the decisions of a map were promoted

vars == <<maps, member, events, tx, clock, nextId, nextEvent, cursor, calls, told, reviewed, promoted>>

\* last_owner_write_at and last_agent_read_at are 0 when NULL.
Map == [state : {"live", "archived"}, seed : Seeds, writes_since_review : Nat,
        last_owner_write_at : Nat, last_agent_read_at : Nat]

\* answers is the question a node answers, settles whether that resolved it.
Member == [map : Ids, authored_by : Parties \cup {"null"}, turn : Parties \cup {"null"},
           status : {"open", "resolved", "dropped"}, added_at : Nat, answers : Ids \cup {None},
           settles : BOOLEAN]

Event == [id : Nat, map : Ids, node : Ids \cup {None}]

\* node is the question or branch the call names, or the node it adds; ids the
\* nodes and shown the events a read has collected.
Idle == [pc |-> "idle", op |-> "none", map |-> None, seed |-> None, node |-> None,
         question |-> None, party |-> "null", turn |-> "null", status |-> "open", at |-> 0, event |-> 0,
         cursor |-> 0, ids |-> {}, shown |-> {}]

Init ==
    /\ maps = [m \in {} |-> None]
    /\ member = [n \in {} |-> None]
    /\ events = {}
    /\ tx = [c \in Clients |-> Idle]
    /\ clock = 0 /\ nextId = 1 /\ nextEvent = 1 /\ calls = 0
    /\ cursor = [c \in Clients |-> [m \in Ids |-> 0]]
    /\ told = [c \in Clients |-> {}]
    /\ reviewed = {}
    /\ promoted = [m \in Ids |-> 0]

----------------------------------------------------------------------------
(* Queries *)

LiveMaps == {m \in DOMAIN maps : maps[m].state = "live"}
Members(m) == {n \in DOMAIN member : member[n].map = m}

find_live_map_seeded_from(s) == {m \in LiveMaps : maps[m].seed = s}

\* Mutation: a node counts as the owner's when it is the owner's turn.
unacknowledged_owner_input_Turn(m) ==
    {n \in Members(m) : member[n].turn = "owner" /\ member[n].added_at > maps[m].last_agent_read_at}

\* The owner's nodes that are newer than the agent's last read.
unacknowledged_owner_input(m) ==
    IF maps[m].last_owner_write_at <= maps[m].last_agent_read_at THEN {}
    ELSE {n \in Members(m) : /\ member[n].authored_by = "owner"
                             /\ member[n].added_at > maps[m].last_agent_read_at}

\* current_cursor, over the committed events and those of the caller.
current_cursor(m, own) ==
    LET ids == {0} \cup own \cup {e.id : e \in {f \in events : f.map = m}}
    IN  CHOOSE i \in ids : \A j \in ids : j <= i

fetch_memory_ids_since(m, since) ==
    {e.node : e \in {f \in events : f.map = m /\ f.id > since}} \ {None}

\* fetch_members.
fetch_members(m, statuses) == {n \in Members(m) : member[n].status \in statuses}

AnyStatus == {"open", "resolved", "dropped"}

\* The questions that wait for the owner, of all live maps; mindmap_queue shows
\* them to agents and to the owner on the web, as long as the limit is not reached.
fetch_open_questions ==
    {n \in DOMAIN member : /\ member[n].map \in LiveMaps
                           /\ member[n].status = "open" /\ member[n].turn = "owner"}

mindmap_queue == fetch_open_questions

----------------------------------------------------------------------------
(* Calls *)

\* A call that has passed its first checks.
Start(c, t) ==
    /\ tx[c].pc = "idle"
    /\ calls < MaxCalls
    /\ t.op \in Ops
    /\ IF c \in Web THEN t.op \in WebOps ELSE t.op # "web_get"
    /\ \A d \in Clients \ {c} : tx[d].pc = "idle" \/ {t.op, tx[d].op} \cap Solo = {}
    /\ calls' = calls + 1
    /\ tx' = [tx EXCEPT ![c] = t]

\* A transaction that begins now.
Now == clock + 1

History == <<told, reviewed, promoted>>
Sequences == <<clock, nextId, nextEvent>>

\* mindmap_open: an existing live map of the seed is returned instead.
OpenCheck(c) ==
    /\ \E s \in Seeds :
          /\ s # None => find_live_map_seeded_from(s) = {}
          /\ Start(c, [Idle EXCEPT !.pc = "checked", !.op = "open", !.seed = s])
    /\ UNCHANGED <<maps, member, events, Sequences, cursor, History>>

\* mindmap_write_node: who wrote the node and whose turn is next are two arguments,
\* and may both be left out.
WriteNodeCheck(c) ==
    /\ \E m \in LiveMaps, p \in Authors, u \in Turns :
          Start(c, [Idle EXCEPT !.pc = "checked", !.map = m, !.party = p, !.turn = u,
                                !.op = IF p = "owner" THEN "write_owner" ELSE "write_model"])
    /\ UNCHANGED <<maps, member, events, Sequences, cursor, History>>

\* A question is any node of the map that is open.
Answerable(m) == fetch_members(m, {"open"})

\* mindmap_answer; with auto_resolve the question is resolved.
AnswerCheck(c) ==
    /\ \E m \in LiveMaps, p \in Parties, s \in {"open", "resolved"} : \E q \in Answerable(m) :
          Start(c, [Idle EXCEPT !.pc = "checked", !.map = m, !.party = p, !.question = q,
                                !.status = s, !.op = "answer"])
    /\ UNCHANGED <<maps, member, events, Sequences, cursor, History>>

\* mindmap_resolve checks and writes in one transaction.
ResolveCheck(c) ==
    /\ \E m \in LiveMaps, s \in {"resolved", "dropped"} : \E n \in Members(m) :
          Start(c, [Idle EXCEPT !.pc = "begun", !.map = m, !.node = n, !.question = n, !.status = s,
                                !.op = "resolve", !.at = Now])
    /\ clock' = Now
    /\ UNCHANGED <<maps, member, events, nextId, nextEvent, cursor, History>>

\* mindmap_link with a map_key: any node, any map.
LinkCheck(c) ==
    /\ \E m \in DOMAIN maps, n \in DOMAIN member :
          Start(c, [Idle EXCEPT !.pc = "begun", !.map = m, !.node = n, !.op = "link", !.at = Now])
    /\ clock' = Now
    /\ UNCHANGED <<maps, member, events, nextId, nextEvent, cursor, History>>

\* mindmap_close: the map is live and nothing of the owner is unread.
CloseCheck(c) ==
    /\ \E m \in LiveMaps :
          /\ unacknowledged_owner_input(m) = {}
          /\ Start(c, [Idle EXCEPT !.pc = "checked", !.map = m, !.op = "close"])
    /\ UNCHANGED <<maps, member, events, Sequences, cursor, History>>

\* The confirmed decisions are written to the knowledge base.
ClosePromote(c) ==
    /\ tx[c].pc = "checked" /\ tx[c].op = "close"
    /\ promoted' = [promoted EXCEPT ![tx[c].map] = @ + 1]
    /\ tx' = [tx EXCEPT ![c].pc = "promoted"]
    /\ UNCHANGED <<maps, member, events, Sequences, cursor, calls, told, reviewed>>

\* The transaction that writes the graph rows begins.
GraphBegin(c) ==
    /\ tx[c].pc = (IF tx[c].op = "close" THEN "promoted" ELSE "checked")
    /\ tx' = [tx EXCEPT ![c].pc = "begun", ![c].at = Now]
    /\ clock' = Now
    /\ UNCHANGED <<maps, member, events, nextId, nextEvent, cursor, calls, History>>

Adds(op) == op \in {"open", "write_owner", "write_model", "answer"}

\* Mutation: the event is logged before the counter is updated.
Updates_Never(t) == FALSE

\* The transaction UPDATEs the row of the map: touch_owner_write,
\* bump_review_counter, archive_map.
Updates(t) ==
    t.op \in {"write_owner", "write_model", "close"} \/ (t.op = "answer" /\ t.party = "owner")

\* A row lock: of the map, or of the branch whose status is set.
Blocked(c) ==
    \E d \in Clients \ {c} :
       /\ tx[d].pc = "written"
       /\ \/ tx[d].map = tx[c].map /\ Updates(tx[d]) /\ (Updates(tx[c]) \/ tx[c].pc # "begun")
          \/ tx[c].question # None /\ tx[c].question = tx[d].question /\ "open" \notin {tx[c].status, tx[d].status}

\* The rows are written, the event last.  Other transactions see none of it yet.
GraphWrite(c) ==
    /\ tx[c].pc = "begun"
    /\ ~Blocked(c)
    /\ Adds(tx[c].op) => nextId \in Ids
    /\ LET n == IF Adds(tx[c].op) THEN nextId ELSE tx[c].node
           m == IF tx[c].op = "open" THEN n ELSE tx[c].map
       IN  tx' = [tx EXCEPT ![c].pc = "written", ![c].node = n, ![c].map = m,
                            ![c].event = nextEvent, ![c].cursor = current_cursor(m, {nextEvent})]
    /\ nextId' = (IF Adds(tx[c].op) THEN nextId + 1 ELSE nextId)
    /\ nextEvent' = nextEvent + 1
    /\ UNCHANGED <<maps, member, events, clock, cursor, calls, History>>

Logged(c) == [id |-> tx[c].event, map |-> tx[c].map, node |-> tx[c].node]

\* The new membership row.
insert_membership(c, turn) ==
    [map |-> tx[c].map, authored_by |-> tx[c].party, turn |-> turn, status |-> "open",
     added_at |-> tx[c].at, answers |-> tx[c].question, settles |-> tx[c].status = "resolved"]

With(f, k, v) == [i \in DOMAIN f \cup {k} |-> IF i = k THEN v ELSE f[i]]

OpenCommit(c) ==
    /\ tx[c].pc = "written" /\ tx[c].op = "open"
    /\ maps' = With(maps, tx[c].map, [state |-> "live", seed |-> tx[c].seed, writes_since_review |-> 0,
                                      last_owner_write_at |-> 0, last_agent_read_at |-> 0])
    /\ member' = With(member, tx[c].node, insert_membership(c, "null"))
    /\ events' = events \cup {Logged(c)}
    /\ tx' = [tx EXCEPT ![c] = Idle]
    /\ UNCHANGED <<Sequences, cursor, calls, History>>

\* touch_owner_write.
OwnerWrite(c, m) == IF tx[c].party = "owner" THEN tx[c].at ELSE maps[m].last_owner_write_at

WriteNodeCommit(c) ==
    /\ tx[c].pc = "written" /\ tx[c].op \in {"write_owner", "write_model"}
    /\ LET m == tx[c].map
           count == maps[m].writes_since_review + 1
       IN  /\ maps' = [maps EXCEPT ![m].writes_since_review = count,
                                   ![m].last_owner_write_at = OwnerWrite(c, m)]
           /\ member' = With(member, tx[c].node, insert_membership(c, tx[c].turn))
           /\ tx' = [tx EXCEPT ![c] = IF count >= Threshold THEN [tx[c] EXCEPT !.pc = "flag"] ELSE Idle]
    /\ events' = events \cup {Logged(c)}
    /\ UNCHANGED <<Sequences, cursor, calls, History>>

\* review_due: the flag is an event of a transaction of its own.
ReviewFlag(c) ==
    /\ tx[c].pc = "flag"
    /\ "flag" \in Solo => \A d \in Clients : tx[d].pc # "written"
    /\ events' = events \cup {[id |-> nextEvent, map |-> tx[c].map, node |-> None]}
    /\ nextEvent' = nextEvent + 1
    /\ tx' = [tx EXCEPT ![c] = Idle]
    /\ UNCHANGED <<maps, member, clock, nextId, cursor, calls, History>>

\* The cursor in the answer, when the client goes on with it.
KeepCursor(c) ==
    cursor' = IF "reply_cursor" \in Ops THEN [cursor EXCEPT ![c][tx[c].map] = tx[c].cursor] ELSE cursor

\* Whatever the status of the branch is by now.
set_node_status(n, status) == [member EXCEPT ![n].status = status]

\* The answer node, and the status of its question.
AnswerCommit(c) ==
    /\ tx[c].pc = "written" /\ tx[c].op = "answer"
    /\ LET m == tx[c].map
           q == tx[c].question
       IN  /\ maps' = [maps EXCEPT ![m].last_owner_write_at = OwnerWrite(c, m)]
           /\ member' = With(IF tx[c].status = "open" THEN member ELSE set_node_status(q, tx[c].status),
                             tx[c].node, insert_membership(c, "model"))
    /\ events' = events \cup {Logged(c)}
    /\ KeepCursor(c)
    /\ tx' = [tx EXCEPT ![c] = Idle]
    /\ UNCHANGED <<Sequences, calls, History>>

ResolveCommit(c) ==
    /\ tx[c].pc = "written" /\ tx[c].op = "resolve"
    /\ member' = set_node_status(tx[c].node, tx[c].status)
    /\ events' = events \cup {Logged(c)}
    /\ KeepCursor(c)
    /\ tx' = [tx EXCEPT ![c] = Idle]
    /\ UNCHANGED <<maps, Sequences, calls, History>>

LinkCommit(c) ==
    /\ tx[c].pc = "written" /\ tx[c].op = "link"
    /\ events' = events \cup {Logged(c)}
    /\ tx' = [tx EXCEPT ![c] = Idle]
    /\ UNCHANGED <<maps, member, Sequences, cursor, calls, History>>

\* archive_map, whatever the state of the map is by now.
CloseCommit(c) ==
    /\ tx[c].pc = "written" /\ tx[c].op = "close"
    /\ maps' = [maps EXCEPT ![tx[c].map].state = "archived"]
    /\ events' = events \cup {Logged(c)}
    /\ tx' = [tx EXCEPT ![c] = Idle]
    /\ UNCHANGED <<member, Sequences, cursor, calls, History>>

\* A call fails before the commit of its last transaction.
Rollback(c) ==
    /\ tx[c].pc # "idle"
    /\ tx' = [tx EXCEPT ![c] = Idle]
    /\ UNCHANGED <<maps, member, events, Sequences, cursor, calls, History>>

----------------------------------------------------------------------------
(* Reads *)

Reads == {"get", "get_open", "get_since", "get_open_since", "web_get"}
Delta(op) == op \in {"get_since", "get_open_since"}

\* mindmap_get: a delta read first collects the nodes touched since the cursor, a
\* full read takes the cursor first.
GetBegin(c) ==
    /\ \E m \in DOMAIN maps, op \in Reads :
          /\ Delta(op) => cursor[c][m] > 0
          /\ Start(c, [Idle EXCEPT !.pc = IF Delta(op) THEN "head" ELSE "fetch", !.map = m, !.op = op,
                                   !.at = Now, !.cursor = current_cursor(m, {}),
                                   !.ids = fetch_memory_ids_since(m, IF Delta(op) THEN cursor[c][m] ELSE 0)])
    /\ clock' = Now
    /\ UNCHANGED <<maps, member, events, nextId, nextEvent, cursor, History>>

GetHead(c) ==
    /\ tx[c].pc = "head"
    /\ tx' = [tx EXCEPT ![c].pc = "fetch", ![c].cursor = current_cursor(tx[c].map, {})]
    /\ UNCHANGED <<maps, member, events, Sequences, cursor, calls, History>>

\* The nodes returned: a delta read of the open branches leaves out the settled
\* ones, a full one has them as summaries.
Returned(t) ==
    LET all == fetch_members(t.map, IF t.op = "get_open_since" THEN {"open"} ELSE AnyStatus)
    IN  IF Delta(t.op) THEN all \cap t.ids ELSE all

GetMembers(c) ==
    /\ tx[c].pc = "fetch"
    /\ tx' = [tx EXCEPT ![c].pc = "touch",
                        ![c].shown = {e.id : e \in {f \in events : f.map = tx[c].map
                                                                   /\ f.node \in Returned(tx[c])}}]
    /\ UNCHANGED <<maps, member, events, Sequences, cursor, calls, History>>

\* touch_agent_read, also for a read on the web.
GetTouch(c) ==
    /\ tx[c].pc = "touch"
    /\ ~Blocked(c)
    /\ maps' = [maps EXCEPT ![tx[c].map].last_agent_read_at = tx[c].at]
    /\ told' = [told EXCEPT ![c] = @ \cup tx[c].shown]
    /\ cursor' = [cursor EXCEPT ![c][tx[c].map] = tx[c].cursor]
    /\ tx' = [tx EXCEPT ![c] = Idle]
    /\ UNCHANGED <<member, events, Sequences, calls, reviewed, promoted>>

\* Mutation: the review returns the open branches only.
ReviewNodes_Open(m) == fetch_members(m, {"open"})

ReviewNodes(m) == fetch_members(m, AnyStatus)

\* mindmap_review: the nodes, then the reset of the counter.
ReviewRead(c) ==
    /\ \E m \in DOMAIN maps :
          Start(c, [Idle EXCEPT !.pc = "reset", !.map = m, !.op = "review", !.ids = ReviewNodes(m)])
    /\ UNCHANGED <<maps, member, events, Sequences, cursor, History>>

ReviewReset(c) ==
    /\ tx[c].pc = "reset"
    /\ ~Blocked(c)
    /\ maps' = [maps EXCEPT ![tx[c].map].writes_since_review = 0]
    /\ events' = events \cup {[id |-> nextEvent, map |-> tx[c].map, node |-> None]}
    /\ nextEvent' = nextEvent + 1
    /\ reviewed' = reviewed \cup tx[c].ids
    /\ tx' = [tx EXCEPT ![c] = Idle]
    /\ UNCHANGED <<member, clock, nextId, cursor, calls, told, promoted>>

Check(c) == OpenCheck(c) \/ WriteNodeCheck(c) \/ AnswerCheck(c) \/ ResolveCheck(c)
               \/ LinkCheck(c) \/ CloseCheck(c) \/ GetBegin(c) \/ ReviewRead(c)

Commit(c) == OpenCommit(c) \/ WriteNodeCommit(c) \/ AnswerCommit(c) \/ ResolveCommit(c)
                \/ LinkCommit(c) \/ CloseCommit(c)

Step(c) == ClosePromote(c) \/ GraphBegin(c) \/ GraphWrite(c) \/ ReviewFlag(c)
              \/ GetHead(c) \/ GetMembers(c) \/ GetTouch(c) \/ ReviewReset(c)

Next == \E c \in Clients : Check(c) \/ Step(c) \/ Commit(c) \/ Rollback(c)

Spec == Init /\ [][Next]_vars

----------------------------------------------------------------------------
(* Properties *)

\* Type invariant: the tables are well-formed, every node belongs to a map, and
\* timestamps and event ids are of the past.
TypeOK ==
    /\ DOMAIN maps \subseteq Ids /\ \A m \in DOMAIN maps : maps[m] \in Map
    /\ DOMAIN member \subseteq Ids
    /\ \A n \in DOMAIN member : /\ member[n] \in Member /\ member[n].map \in DOMAIN maps
                                /\ member[n].added_at \in 1..clock
    /\ events \subseteq Event
    /\ \A e \in events : e.id < nextEvent /\ e.map \in DOMAIN maps
    /\ cursor \in [Clients -> [Ids -> Nat]]
    /\ \A c \in Clients : told[c] \subseteq {e.id : e \in events}
    /\ reviewed \subseteq DOMAIN member

\* "a map must not be settled past an owner node the agent never read"
\* (mindmap_close.py:87): when a map is archived, a read of an agent has returned
\* every node of the owner.
AgentSaw(n) == \E c \in Clients \ Web, e \in events : e.node = n /\ e.id \in told[c]
NoBuriedInput ==
    [][\A m \in LiveMaps :
          maps'[m].state = "archived" =>
             \A n \in Members(m) : member[n].authored_by = "owner" => AgentSaw(n)]_vars

\* "memory_map_events.id ... is already a monotonic cursor" (service.py): a client
\* that holds a cursor has been shown every change up to it, also the changes that
\* were under way when it read.
CursorCovers ==
    \A c \in Clients : \A e \in events :
       e.node \in Members(e.map) /\ e.id <= cursor[c][e.map] => e.id \in told[c]

\* The write counter that calls for a review counts every node that was written
\* and that no review has returned.
UnreviewedCounted ==
    \A m \in DOMAIN maps :
       Cardinality({n \in Members(m) \ (reviewed \cup {m}) : member[n].answers = None})
          <= maps[m].writes_since_review

----------------------------------------------------------------------------
(* Claims of the repository that the code does not keep when calls overlap   *)
(* (README, Deviations)                                                      *)

\* "closed maps do not accept new nodes" (mindmap_write_node.py:93) and "archived
\* maps are no-reopen": a map that is archived stays so, with the nodes it had and
\* their status.
ClosedIsFinal ==
    [][\A m \in DOMAIN maps \ LiveMaps :
          /\ maps'[m].state = "archived"
          /\ \A n \in DOMAIN member' :
                member'[n].map = m => n \in DOMAIN member /\ member[n].status = member'[n].status]_vars

\* The from_spec guard of mindmap_open: no two live maps grow from one seed.
OneLiveMapPerSeed ==
    \A m, k \in LiveMaps : m # k => maps[m].seed = None \/ maps[m].seed # maps[k].seed

\* "a question cannot be answered twice" (web/handlers/mindmaps.py:6), from the web
\* or by an agent: a question has one answer that settles it, and with it leaves
\* mindmap_queue for good, whatever is done to its branch later.
AnsweredOnce ==
    \A n \in {k \in DOMAIN member : member[k].settles} :
       /\ member[n].answers \notin mindmap_queue
       /\ \A k \in DOMAIN member \ {n} : member[k].settles => member[k].answers # member[n].answers

\* The decisions of a map are promoted once, however often mindmap_close is called.
PromotedOnce == \A m \in Ids : promoted[m] <= 1
=============================================================================
