---------------------------- MODULE MemoryStore ----------------------------
(* The `memories` table with its version chains, reply threads, slugs and   *)
(* citations, and every operation that changes that structure: the MCP      *)
(* tools memory_write, memory_update, memory_supersede, memory_delete and   *)
(* memory_undelete, and the jobs retention_memories and expire_transient.   *)
(*                                                                          *)
(* A tool call is one tenant_tx under READ COMMITTED: it SELECTs what it    *)
(* decides on without locking it, then writes.  It is modelled by two       *)
(* actions, the reads and decisions (XxxBegin) and the writes with COMMIT   *)
(* (XxxCommit); other transactions may commit in between.  A call that ends *)
(* in an error before its writes changes nothing and is no step; Rollback   *)
(* is one that fails later.  A job is one statement or one transaction that *)
(* decides inside its own SQL, and is a single action.  The read tools are  *)
(* operators over the committed tables, in which the properties are stated. *)
(*                                                                          *)
(* Tags, metadata, embeddings and quotas are not part of this module.       *)
EXTENDS Integers, FiniteSets

CONSTANTS
    Tenants,      \* tenants of the service
    Clients,      \* concurrent callers, each acting for one tenant
    TenantOf,     \* the tenant of each client
    SharedWith,   \* <<reader, owner>>: a team membership lets reader cite owner's rows
    Types,        \* memory types clients use
    Contents,     \* contents, told apart by their hash
    Similar,      \* pairs of contents whose embeddings are closer than 0.95
    TTLs,         \* lifetimes in days a client may ask for; 0 is none
    Ops,          \* operations clients issue
    OnlyCurrent,  \* operations that clients apply to current versions only
    Retention,    \* tenants.retention_days
    Grace,        \* the 30 days of UNDELETE_GRACE_DAYS and of the purge
    MaxId,        \* bound: rows ever inserted
    MaxDay,       \* bound: days
    MaxVersion,   \* bound: version numbers
    MaxStamp      \* bound: distinct transaction timestamps in use at once

OpNames == {"write", "force_new", "reply", "write_supersedes", "cite", "update",
            "supersede", "delete", "cascade", "undelete", "retention", "expire"}

ASSUME StoreAssumption ==
    /\ MaxId \in Nat /\ MaxDay \in Nat /\ MaxVersion \in Nat /\ MaxStamp \in Nat
    /\ Retention \in Nat /\ Grace \in Nat
    /\ TTLs \subseteq Nat
    /\ TenantOf \in [Clients -> Tenants]
    /\ Types # {} /\ Contents # {}

VARIABLES
    rows,       \* the memories table: a function from the ids present to rows
    slugs,      \* slugs table: slug minted for row k -> the row it names
    refs,       \* memory_references: <<source, target>>
    nextId,     \* gen_random_uuid(): ids are never reused
    today,      \* now() in days
    tx,         \* the open transaction of each client
    withRoot    \* history: replies soft-deleted together with their root

vars == <<rows, slugs, refs, nextId, today, tx, withRoot>>

----------------------------------------------------------------------------
(* Data *)

VERSIONED_TYPES == {"decision", "fact"}

Ids == 1..MaxId
None == 0
IdOrNone == Ids \cup {None}

\* A timestamp is the day it falls on and a stamp that is equal only for
\* statements of one transaction, as now() is.
Timestamp == [day : Nat, stamp : Nat]
Null == [day |-> 0, stamp |-> 0]

Row == [tenant : Tenants, type : Types, content : Contents, version : Nat,
        supersedes : IdOrNone, superseded_by : IdOrNone, parent_id : IdOrNone,
        is_current : BOOLEAN, deleted_at : Timestamp, created : Nat, expires : Nat]

AnyType == CHOOSE t \in Types : TRUE
AnyContent == CHOOSE x \in Contents : TRUE

Tx == [op : {"idle", "insert", "merge", "new_version", "in_place", "supersede",
             "delete", "cascade", "undelete"},
       id : IdOrNone, other : IdOrNone, type : Types, content : Contents,
       version : Nat, expires : Nat, cites : IdOrNone, slug : BOOLEAN,
       flag : BOOLEAN, root : BOOLEAN, day : Nat, stamp : Nat, seen : Timestamp]

Idle == [op |-> "idle", id |-> None, other |-> None, type |-> AnyType,
         content |-> AnyContent, version |-> 0, expires |-> 0, cites |-> None,
         slug |-> FALSE, flag |-> FALSE, root |-> FALSE, day |-> 0, stamp |-> 0,
         seen |-> Null]

Present == DOMAIN rows
Deleted(i) == rows[i].deleted_at.stamp # 0
Live(i) == i \in Present /\ ~Deleted(i)
Current(i) == Live(i) /\ rows[i].is_current

\* Mutation: the tenant filter is missing.
Visible_AllTenants(c) == Present

\* What WHERE tenant_id = $ and row-level security leave of the table.
Visible(c) == {i \in Present : rows[i].tenant = TenantOf[c]}
LiveRows(c) == {i \in Visible(c) : Live(i)}

\* The policy memories_select: also what the caller's teams share with it.
memories_select(c) ==
    {i \in Present : \/ rows[i].tenant = TenantOf[c]
                     \/ <<TenantOf[c], rows[i].tenant>> \in SharedWith}

\* Rows a client names as the target of an operation.
Targets(c, op) == {i \in LiveRows(c) : op \in OnlyCurrent => rows[i].is_current}

UsedStamps == {rows[i].deleted_at.stamp : i \in Present} \cup {tx[c].stamp : c \in Clients}
FreshStamp(s) == /\ s \in 1..MaxStamp \ UsedStamps
                 /\ \A u \in 1..MaxStamp \ UsedStamps : s <= u

Init ==
    /\ rows = [i \in {} |-> Null]
    /\ slugs = [i \in {} |-> None]
    /\ refs = {}
    /\ nextId = 1
    /\ today = 1
    /\ tx = [c \in Clients |-> Idle]
    /\ withRoot = {}

----------------------------------------------------------------------------
(* Transactions *)

Begin(c, t) ==
    /\ tx[c].op = "idle"
    /\ tx' = [tx EXCEPT ![c] = [t EXCEPT !.day = today]]
    /\ UNCHANGED <<rows, slugs, refs, nextId, today, withRoot>>

End(c) == tx' = [tx EXCEPT ![c] = Idle]

\* The transaction fails after its reads: embedding error, constraint,
\* dropped connection.
Rollback(c) ==
    /\ tx[c].op # "idle"
    /\ End(c)
    /\ UNCHANGED <<rows, slugs, refs, nextId, today, withRoot>>

----------------------------------------------------------------------------
(* memory_write *)

\* Mutation: superseded rows count as duplicates.
check_dup_AnyVersion(c, type, content) ==
    LET byHash == {i \in LiveRows(c) : rows[i].content = content}
    IN  IF byHash # {} THEN byHash ELSE {None}

\* dedupe.check_dup: an exact hash match, else the nearest same-type row if it
\* is close enough and the content could be embedded.  The possible results.
check_dup(c, type, content) ==
    LET current == {i \in LiveRows(c) : rows[i].is_current}
        byHash  == {i \in current : rows[i].content = content}
        byVec   == {i \in current : /\ rows[i].type = type
                                    /\ <<rows[i].content, content>> \in Similar}
    IN  IF byHash # {} THEN byHash ELSE byVec \cup {None}

\* references.resolve_reference_target: a live row of the caller's tenant or of
\* a team the caller belongs to.
resolve_reference_target(c) == {i \in memories_select(c) : Live(i)}

Citable(c) == {None} \cup IF "cite" \in Ops THEN resolve_reference_target(c) ELSE {}

\* The row to merge into, None when there is none or force_new is passed.
DedupeResults(c, type, content) ==
    check_dup(c, type, content) \cup IF "force_new" \in Ops THEN {None} ELSE {}

\* A lifetime ends at the midnight before the day it names.
ExpiresIn(ttl) == IF ttl = 0 THEN 0 ELSE today + ttl

\* The reads of a plain write: no duplicate, or one to merge into.
WriteBegin(c) ==
    /\ "write" \in Ops
    /\ \E t \in Types, x \in Contents, ttl \in TTLs, r \in Citable(c) :
       \E dup \in DedupeResults(c, t, x) :
          IF dup # None
          THEN Begin(c, [Idle EXCEPT !.op = "merge", !.id = dup, !.content = x])
          ELSE /\ nextId <= MaxId
               /\ Begin(c, [Idle EXCEPT !.op = "insert", !.type = t, !.content = x,
                              !.version = 1, !.expires = ExpiresIn(ttl), !.cites = r,
                              !.slug = (t \in VERSIONED_TYPES)])

\* Mutation: the parent may be a reply.
ReplyBegin_Nested(c) ==
    /\ "reply" \in Ops
    /\ nextId <= MaxId
    /\ \E p \in LiveRows(c), t \in Types, x \in Contents :
          Begin(c, [Idle EXCEPT !.op = "insert", !.other = p, !.type = t, !.content = x,
                      !.version = 1])

\* The reads of a write with parent_id (never deduplicated): the parent is live
\* and no reply itself.
ReplyBegin(c) ==
    /\ "reply" \in Ops
    /\ nextId <= MaxId
    /\ \E p \in LiveRows(c), t \in Types, x \in Contents, ttl \in TTLs, r \in Citable(c) :
          /\ rows[p].parent_id = None
          /\ Begin(c, [Idle EXCEPT !.op = "insert", !.other = p, !.type = t, !.content = x,
                         !.version = 1, !.expires = ExpiresIn(ttl), !.cites = r])

\* The reads of a write with supersedes: the old row is live and of the same
\* versioned type.  Deduplication comes first.
WriteSupersedesBegin(c) ==
    /\ "write_supersedes" \in Ops
    /\ \E old \in Targets(c, "write_supersedes"), x \in Contents, ttl \in TTLs, r \in Citable(c) :
          LET t == rows[old].type IN
          /\ t \in VERSIONED_TYPES
          /\ \E dup \in DedupeResults(c, t, x) :
                IF dup # None
                THEN Begin(c, [Idle EXCEPT !.op = "merge", !.id = dup, !.content = x])
                ELSE /\ nextId <= MaxId
                     /\ Begin(c, [Idle EXCEPT !.op = "new_version", !.id = old, !.type = t,
                                    !.content = x, !.version = rows[old].version + 1,
                                    !.expires = ExpiresIn(ttl), !.cites = r, !.slug = TRUE])

\* The row a transaction inserts.
NewRow(c) ==
    LET t == tx[c] IN
    [tenant |-> TenantOf[c], type |-> t.type, content |-> t.content, version |-> t.version,
     supersedes |-> t.id, superseded_by |-> None, parent_id |-> t.other,
     is_current |-> TRUE, deleted_at |-> Null, created |-> t.day, expires |-> t.expires]

\* Foreign keys of the inserted row and of its citation.
ForeignKeysHold(c) == {tx[c].id, tx[c].other, tx[c].cites} \subseteq Present \cup {None}

Insert(c, updated) ==
    /\ nextId <= MaxId
    /\ rows' = [i \in Present \cup {nextId} |-> IF i = nextId THEN NewRow(c) ELSE updated[i]]
    /\ nextId' = nextId + 1
    /\ refs' = refs \cup IF tx[c].cites = None THEN {} ELSE {<<nextId, tx[c].cites>>}

\* Merging touches tags and updated_at only; the UPDATE does not look again
\* whether its row is still live and current.
MergeCommit(c) ==
    /\ tx[c].op = "merge"
    /\ tx[c].id \in Present
    /\ End(c)
    /\ UNCHANGED <<rows, slugs, refs, nextId, today, withRoot>>

\* A slug of its own for the new row: one that is taken is retried with a
\* suffix, and when no attempt is left the call fails.
insert_slug_with_retry(new) ==
    [k \in DOMAIN slugs \cup {new} |-> IF k = new THEN new ELSE slugs[k]]

InsertCommit(c) ==
    /\ tx[c].op = "insert"
    /\ ForeignKeysHold(c)
    /\ Insert(c, rows)
    /\ slugs' = IF tx[c].slug THEN insert_slug_with_retry(nextId) ELSE slugs
    /\ End(c)
    /\ UNCHANGED <<today, withRoot>>

\* Mutation: the slug loses its row.
redirect_slug_Cleared(old, new) ==
    slugs' = [k \in DOMAIN slugs |-> IF slugs[k] = old THEN None ELSE slugs[k]]

\* slugs.redirect_slug_on_supersession: one slug of the old row follows.
redirect_slug_on_supersession(old, new) ==
    IF \E k \in DOMAIN slugs : slugs[k] = old
    THEN \E k \in DOMAIN slugs : slugs[k] = old /\ slugs' = [slugs EXCEPT ![k] = new]
    ELSE slugs' = slugs

\* UPDATE of the old version by every way to supersede it.
Superseded(r, new) == [r EXCEPT !.is_current = FALSE, !.superseded_by = new]

\* Shared by memory_write with supersedes (slug set: the slug moves along) and
\* memory_update's new version (the slug stays).
NewVersionCommit(c) ==
    /\ tx[c].op = "new_version"
    /\ ForeignKeysHold(c)
    /\ Insert(c, [rows EXCEPT ![tx[c].id] = Superseded(@, nextId)])
    /\ IF tx[c].slug THEN redirect_slug_on_supersession(tx[c].id, nextId) ELSE slugs' = slugs
    /\ End(c)
    /\ UNCHANGED <<today, withRoot>>

----------------------------------------------------------------------------
(* memory_update *)

\* Mutation: a change of type hides the change of content.
NewVersionPath_SameType(oldType, newType, contentChanged) ==
    IF newType = oldType THEN oldType \in VERSIONED_TYPES /\ contentChanged
    ELSE newType \in VERSIONED_TYPES /\ oldType \notin VERSIONED_TYPES

NewVersionPath(oldType, newType, contentChanged) ==
    \/ (oldType \in VERSIONED_TYPES \/ newType \in VERSIONED_TYPES) /\ contentChanged
    \/ newType # oldType /\ newType \in VERSIONED_TYPES /\ oldType \notin VERSIONED_TYPES

\* Passing the stored type or content is the same as passing none.
UpdateBegin(c) ==
    /\ "update" \in Ops
    /\ \E i \in Targets(c, "update"), t \in Types, x \in Contents :
          LET old == rows[i]
              changed == x # old.content
          IN  IF NewVersionPath(old.type, t, changed)
              THEN /\ nextId <= MaxId
                   /\ Begin(c, [Idle EXCEPT !.op = "new_version", !.id = i, !.type = t,
                                  !.content = x,
                                  !.version = IF old.type \in VERSIONED_TYPES
                                              THEN old.version + 1 ELSE 1])
              ELSE Begin(c, [Idle EXCEPT !.op = "in_place", !.id = i, !.type = t,
                               !.content = x, !.flag = changed])

\* UPDATE ... WHERE id: no row, no error.
InPlaceCommit(c) ==
    /\ tx[c].op = "in_place"
    /\ rows' = [i \in Present |->
                  IF i # tx[c].id THEN rows[i]
                  ELSE [rows[i] EXCEPT !.type = tx[c].type,
                                       !.content = IF tx[c].flag THEN tx[c].content ELSE @]]
    /\ End(c)
    /\ UNCHANGED <<slugs, refs, nextId, today, withRoot>>

----------------------------------------------------------------------------
(* memory_supersede *)

SupersedeBegin(c) ==
    /\ "supersede" \in Ops
    /\ \E old, new \in LiveRows(c) :
          /\ rows[old].type \in VERSIONED_TYPES
          /\ rows[new].type = rows[old].type
          /\ rows[old].version < MaxVersion
          /\ Begin(c, [Idle EXCEPT !.op = "supersede", !.id = old, !.other = new,
                         !.version = rows[old].version + 1])

\* The two UPDATEs one after the other: old and new may be one row.
SupersedeCommit(c) ==
    /\ tx[c].op = "supersede"
    /\ ForeignKeysHold(c)
    /\ LET old == tx[c].id
           new == tx[c].other
           marked == [rows EXCEPT ![old] = Superseded(@, new)]
       IN  rows' = [marked EXCEPT ![new].supersedes = old, ![new].version = tx[c].version,
                                  ![new].is_current = TRUE]
    /\ End(c)
    /\ UNCHANGED <<slugs, refs, nextId, today, withRoot>>

----------------------------------------------------------------------------
(* memory_delete and memory_undelete *)

\* Mutation: the link is followed the wrong way.
PriorVersion_Forward(i) ==
    IF rows[i].is_current /\ rows[i].type \in VERSIONED_TYPES THEN rows[i].superseded_by ELSE None

\* The version to promote when i is deleted.
PriorVersion(i) ==
    IF rows[i].is_current /\ rows[i].type \in VERSIONED_TYPES THEN rows[i].supersedes ELSE None

\* other is the prior version to promote, root says that replies go along.
DeleteBegin(c) ==
    \E i \in Targets(c, "delete"), s \in 1..MaxStamp, mode \in {"delete", "cascade"} \cap Ops :
       /\ FreshStamp(s)
       /\ Begin(c, [Idle EXCEPT !.op = mode, !.id = i, !.stamp = s,
                      !.other = PriorVersion(i), !.root = (rows[i].parent_id = None)])

SoftDelete(r, at) == [r EXCEPT !.deleted_at = at, !.is_current = FALSE]

\* Live replies of i.
Replies(i) == {j \in Present : rows[j].parent_id = i /\ ~Deleted(j)}

\* The UPDATE of the target has no deleted_at guard; the prior version is looked
\* up now, the decision to promote it was taken from the earlier read.
DeleteCommit(c) ==
    /\ tx[c].op = "delete"
    /\ LET i == tx[c].id
           at == [day |-> tx[c].day, stamp |-> tx[c].stamp]
           promoted == {j \in {tx[c].other} \ {i} : Live(j)}
           gone == IF tx[c].root /\ i \in Present THEN Replies(i) \ {i} ELSE {}
       IN  /\ rows' = [j \in Present |->
                         CASE j = i -> SoftDelete(rows[j], at)
                           [] j \in gone -> SoftDelete(rows[j], at)
                           [] j \in promoted \ gone -> [rows[j] EXCEPT !.is_current = TRUE]
                           [] OTHER -> rows[j]]
           /\ withRoot' = (withRoot \ {i}) \cup gone
    /\ End(c)
    /\ UNCHANGED <<slugs, refs, nextId, today>>

\* The rows the recursive query walks back to over supersedes, the target first.
\* The n-th step of the walk is None when the walk has ended.
Walk(i) ==
    LET step[n \in 0..MaxId] ==
          IF n = 0 THEN i
          ELSE LET p == IF step[n-1] \in Present THEN rows[step[n-1]].supersedes ELSE None
               IN  IF Live(p) THEN p ELSE None
    IN  step

Chain(i) == {Walk(i)[n] : n \in 0..MaxId} \ {None}
\* UNION ALL does not stop on a cycle: the statement runs into its timeout.
WalkEnds(i) == Walk(i)[MaxId] = None

CascadeCommit(c) ==
    /\ tx[c].op = "cascade"
    /\ tx[c].id \in Present
    /\ WalkEnds(tx[c].id)
    /\ LET i == tx[c].id
           at == IF Deleted(i) THEN rows[i].deleted_at
                 ELSE [day |-> tx[c].day, stamp |-> tx[c].stamp]
           chain == {j \in Chain(i) : Live(j)}
           gone == IF tx[c].root THEN Replies(i) \ chain ELSE {}
       IN  /\ rows' = [j \in Present |-> IF j \in chain \cup gone THEN SoftDelete(rows[j], at)
                                         ELSE rows[j]]
           /\ withRoot' = (withRoot \ chain) \cup gone
    /\ End(c)
    /\ UNCHANGED <<slugs, refs, nextId, today>>

\* A live current neighbour of i in its chain (one link away, either way).
CurrentNeighbour(i) ==
    \E j \in Present \ {i} :
       /\ Current(j) /\ rows[j].tenant = rows[i].tenant
       /\ \/ j = rows[i].supersedes \/ j = rows[i].superseded_by
          \/ rows[j].supersedes = i \/ rows[j].superseded_by = i

WithinGrace(at, day) == day - at.day <= Grace

\* flag is the is_current the row is restored with.
UndeleteBegin(c) ==
    /\ "undelete" \in Ops
    /\ \E i \in Visible(c) :
          /\ Deleted(i)
          /\ WithinGrace(rows[i].deleted_at, today)
          /\ Begin(c, [Idle EXCEPT !.op = "undelete", !.id = i,
                         !.flag = ~(rows[i].type \in VERSIONED_TYPES /\ CurrentNeighbour(i)),
                         !.root = (rows[i].parent_id = None), !.seen = rows[i].deleted_at])

\* Mutation: undelete forgets the replies.
DeletedWith_Nothing(i, at) == {}

\* Replies of i whose deleted_at is the one the root had when it was read.
DeletedWith(i, at) == {j \in Present \ {i} : rows[j].parent_id = i /\ rows[j].deleted_at = at}

\* A row that vanished makes the call fail on the missing RETURNING row.
UndeleteCommit(c) ==
    /\ tx[c].op = "undelete"
    /\ tx[c].id \in Present
    /\ LET i == tx[c].id
           back == IF tx[c].root THEN DeletedWith(i, tx[c].seen) ELSE {}
       IN  /\ rows' = [j \in Present |->
                         CASE j = i -> [rows[j] EXCEPT !.deleted_at = Null, !.is_current = tx[c].flag]
                           [] j \in back -> [rows[j] EXCEPT !.deleted_at = Null, !.is_current = TRUE]
                           [] OTHER -> rows[j]]
           /\ withRoot' = withRoot \ ({i} \cup back)
    /\ End(c)
    /\ UNCHANGED <<slugs, refs, nextId, today>>

----------------------------------------------------------------------------
(* Jobs and time *)

\* expire_transient: soft-deletes, leaves is_current alone.
ExpireTransient ==
    /\ "expire" \in Ops
    /\ \E s \in 1..MaxStamp :
          /\ FreshStamp(s)
          /\ LET due == {i \in Present : Live(i) /\ rows[i].expires # 0 /\ rows[i].expires <= today}
             IN  /\ due # {}
                 /\ rows' = [i \in Present |->
                               IF i \in due
                               THEN [rows[i] EXCEPT !.deleted_at = [day |-> today, stamp |-> s]]
                               ELSE rows[i]]
    /\ UNCHANGED <<slugs, refs, nextId, today, tx, withRoot>>

PastRetention == {i \in Present : Live(i) /\ rows[i].created + Retention < today}

\* Mutation: the purge's limit is a day early.
PastGrace_Early == {i \in Present : Deleted(i) /\ rows[i].deleted_at.day + Grace <= today}

PastGrace == {i \in Present : Deleted(i) /\ rows[i].deleted_at.day + Grace < today}

\* ON DELETE CASCADE of parent_id.
Purged == PastGrace \cup {i \in Present : rows[i].parent_id \in PastGrace}
Kept == Present \ Purged

\* The foreign keys without ON DELETE action (supersedes, superseded_by) and the
\* RESTRICT ones (slugs, references) make the whole transaction fail.  Whether a
\* citation between two purged rows does depends on the order of the row triggers.
PurgeAllowed ==
    /\ \A i \in Kept : {rows[i].supersedes, rows[i].superseded_by} \cap Purged = {}
    /\ \A k \in DOMAIN slugs : slugs[k] \notin Purged
    /\ \A r \in refs : r[2] \in Purged => r[1] \in Purged

RetentionDue == PastRetention # {} \/ PastGrace # {}

\* retention_memories.run: step A and step B in one transaction.  When a foreign
\* key refuses step B nothing changes, step A included.
RetentionMemories ==
    /\ "retention" \in Ops
    /\ RetentionDue
    /\ PurgeAllowed
    /\ \E s \in 1..MaxStamp :
          /\ FreshStamp(s)
          /\ rows' = [i \in Kept |->
                        IF i \in PastRetention
                        THEN [rows[i] EXCEPT !.deleted_at = [day |-> today, stamp |-> s]]
                        ELSE rows[i]]
    /\ refs' = {r \in refs : r[1] \in Kept}
    /\ withRoot' = withRoot \cap Kept
    /\ UNCHANGED <<slugs, nextId, today, tx>>

\* A call takes seconds: it spans at most one midnight.
NewDay ==
    /\ today < MaxDay
    /\ \A c \in Clients : tx[c].op # "idle" => tx[c].day = today
    /\ today' = today + 1
    /\ UNCHANGED <<rows, slugs, refs, nextId, tx, withRoot>>

----------------------------------------------------------------------------
(* What the read tools return of the committed tables *)

\* The row a slug names.
lookup_slug(k) == IF k \in DOMAIN slugs THEN slugs[k] ELSE None

\* memory_get with include_history: the row, whatever its state, and the
\* versions before it.  A slug is looked up first.
memory_get(c, i) ==
    LET step[n \in 0..MaxId] ==
          IF n = 0 THEN i
          ELSE IF step[n-1] \in Visible(c) THEN rows[step[n-1]].supersedes ELSE None
    IN  {step[n] : n \in 0..MaxId} \cap Visible(c)

\* memory_get_batch: rows by id are the caller's, rows by slug may be a team's.
memory_get_batch(c, ids, keys) ==
    LET bySlug == {lookup_slug(k) : k \in keys}
    IN  {i \in (ids \cap Visible(c)) \cup (bySlug \cap memories_select(c)) : ~Deleted(i)}

\* memory_list: a page that holds every row the filters leave; include is the
\* subset of {"deleted", "expired", "history"} the caller asks for.
memory_list(c, include) ==
    {i \in Visible(c) :
       /\ Deleted(i) => "deleted" \in include
       /\ rows[i].expires # 0 /\ rows[i].expires <= today => "expired" \in include
       /\ ~rows[i].is_current => "history" \in include}

\* memory_thread_get: nothing unless root is a live root.
memory_thread_get(c, root) ==
    IF root \in LiveRows(c) /\ rows[root].parent_id = None
    THEN {root} \cup {i \in LiveRows(c) : rows[i].parent_id = root}
    ELSE {}

----------------------------------------------------------------------------
ClientStep(c) ==
    \/ WriteBegin(c) \/ ReplyBegin(c) \/ WriteSupersedesBegin(c)
    \/ UpdateBegin(c) \/ SupersedeBegin(c) \/ DeleteBegin(c) \/ UndeleteBegin(c)
    \/ MergeCommit(c) \/ InsertCommit(c) \/ NewVersionCommit(c) \/ InPlaceCommit(c)
    \/ SupersedeCommit(c) \/ DeleteCommit(c) \/ CascadeCommit(c) \/ UndeleteCommit(c)
    \/ Rollback(c)

Next == (\E c \in Clients : ClientStep(c)) \/ ExpireTransient \/ RetentionMemories \/ NewDay

Spec == Init /\ [][Next]_vars
----------------------------------------------------------------------------
(* Properties *)

\* Type invariant: the tables hold rows of the schema's shape, ids come from the
\* allocated range and open transactions carry well-formed values.
TypeOK ==
    /\ DOMAIN rows \subseteq Ids /\ \A i \in DOMAIN rows : rows[i] \in Row
    /\ DOMAIN slugs \subseteq Ids /\ \A k \in DOMAIN slugs : slugs[k] \in Ids
    /\ refs \subseteq Ids \X Ids
    /\ nextId \in 1..(MaxId + 1)
    /\ today \in Nat
    /\ tx \in [Clients -> Tx]
    /\ withRoot \subseteq Ids

\* The version links and thread links of a row, its slug and the citations of it
\* lead to rows that exist, and the links stay inside the row's tenant, whatever
\* was purged or committed between a call's lookup and its writes.
LinksIntact ==
    /\ \A i \in Present :
          \A j \in {rows[i].supersedes, rows[i].superseded_by, rows[i].parent_id} \ {None} :
             j \in Present /\ rows[j].tenant = rows[i].tenant
    /\ \A k \in DOMAIN slugs : slugs[k] \in Present
    /\ \A r \in refs : r[1] \in Present /\ r[2] \in Present

\* Threads are flat: the parent of a reply is never a reply, although parent and
\* reply are written by different transactions.
ThreadFlat ==
    \A i \in Present : rows[i].parent_id # None => rows[rows[i].parent_id].parent_id = None

\* The nightly purge removes no root that memory_undelete would still restore:
\* the two 30-day limits meet without overlap.
PurgeSparesUndeletable ==
    [][\A i \in DOMAIN rows \ DOMAIN rows' :
          rows[i].parent_id = None => Deleted(i) /\ ~WithinGrace(rows[i].deleted_at, today)]_vars

\* "Replies share root.deleted_at exactly" (delete.py:151): memory_undelete of a
\* root brings back, for memory_thread_get, every reply that was deleted with it,
\* whatever was deleted, expired or restored on its own in between.
ThreadRestored ==
    [][\A c \in Clients, i \in Ids :
         UndeleteCommit(c) /\ tx[c].root /\ tx[c].id = i =>
            {j \in withRoot : rows[j].parent_id = i} \subseteq memory_thread_get(c, i)']_vars

\* A write that reports success names a row that memory_list lists and
\* memory_get_batch returns, by id and, for a new versioned row, by slug, with the
\* content written or an embedding neighbour of it.
AckedId(c) == IF tx[c].op = "merge" THEN tx[c].id ELSE nextId
AckedWriteIsReadable ==
    [][\A c \in Clients, i \in Ids :
         (MergeCommit(c) \/ InsertCommit(c)) /\ AckedId(c) = i =>
            /\ i \in memory_list(c, {})'
            /\ i \in memory_get_batch(c, {i}, {})'
            /\ tx[c].slug => memory_get_batch(c, {}, {i})' = {i}
            /\ \/ rows'[i].content = tx[c].content
               \/ <<rows'[i].content, tx[c].content>> \in Similar]_vars

\* FR-10.6.2: the history memory_get shows of a version stays as it is: no version
\* before it drops out, also when the versions in between are deleted, and no
\* content is rewritten but that of rows of a non-versioned type.
HistoryPreserved ==
    [][\A c \in Clients, i \in DOMAIN rows \cap DOMAIN rows' :
          rows[i].type \in VERSIONED_TYPES =>
             /\ rows'[i].content = rows[i].content
             /\ memory_get(c, i) \subseteq memory_get(c, i)']_vars

\* The first version of the chain i belongs to.
Origin(i) ==
    LET step[n \in 0..MaxId] ==
          IF n = 0 THEN i
          ELSE LET p == rows[step[n-1]].supersedes IN IF p = None THEN step[n-1] ELSE p
    IN  step[MaxId]

\* FR-10.6.4: while a chain has a live version, one of its versions is current,
\* so deleting the current one does not make the memory disappear from search.
LiveChainHasCurrent ==
    \A i \in Present : Live(i) => \E j \in Present : Current(j) /\ Origin(j) = Origin(i)

----------------------------------------------------------------------------
(* Claims of the repository that the code does not keep (README, Deviations) *)

\* FR-9.3.7.2, "Ensure no current version exists for the same versioned chain
\* (prevent two is_current siblings)": a version chain never has two live current
\* versions, whichever of its versions memory_delete and memory_undelete are called
\* for.
OneCurrentPerChain ==
    \A i, j \in Present : Current(i) /\ Current(j) /\ Origin(i) = Origin(j) => i = j

\* 0024_slugs: "they FOLLOW the current canonical version on supersession": the
\* row a slug names has not been superseded by a live current row.
SlugFollowsCurrent ==
    \A k \in DOMAIN slugs :
       LET next == rows[slugs[k]].superseded_by IN ~(next # None /\ Current(next))

\* FR-5.6.4: the purge removes memories that were soft-deleted more than 30 days
\* ago, and no other.
OnlyDeletedArePurged ==
    [][\A i \in DOMAIN rows \ DOMAIN rows' : Deleted(i)]_vars

\* The nightly job keeps running and days keep passing.
FairSpec == Spec /\ WF_vars(RetentionMemories) /\ WF_vars(NewDay)

\* FR-5.6.4: a memory soft-deleted more than 30 days ago is hard-deleted.
DeletedIsPurged == \A i \in Ids : (i \in PastGrace) ~> (i \notin PastGrace)
=============================================================================
