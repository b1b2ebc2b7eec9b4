------------------------- MODULE MemoryStoreProofs -------------------------
(* Proofs about MemoryStore.  For every value of its constants: type        *)
(* correctness, link integrity with tenant isolation, flat threads and the  *)
(* agreement of the two 30-day limits.  For the callers and operations each *)
(* theorem names: threads come back whole, acknowledged writes can be read, *)
(* histories stay, and a chain has a current version as long as it has a    *)
(* live one.                                                                *)
EXTENDS MemoryStore, WellFoundedInduction, TLAPS

\* What an open transaction knows of the rows it read: they belong to the
\* caller's tenant if they are still there, the parent of a reply about to be
\* inserted is a root, and every id in it was allocated before.  tenant and
\* parent_id never change, so other commits cannot invalidate it.
TxInv ==
    \A c \in Clients :
       /\ {tx[c].id, tx[c].other, tx[c].cites} \subseteq 0..(nextId - 1)
       /\ \A j \in {tx[c].id, tx[c].other} \cap Present : rows[j].tenant = TenantOf[c]
       /\ tx[c].op \in {"insert", "new_version"} /\ tx[c].other \in Present
             => rows[tx[c].other].parent_id = None

\* Ids present were allocated.
RowsAllocated == Present \subseteq 1..(nextId - 1)

\* The inductive invariant.
IInv == TypeOK /\ RowsAllocated /\ LinksIntact /\ ThreadFlat /\ TxInv

\* An idle client's record is well-formed, as Types and Contents are not empty.
LEMMA IdleType == Idle \in Tx
<1>1. AnyType \in Types /\ AnyContent \in Contents
  BY StoreAssumption DEF AnyType, AnyContent
<1> QED BY <1>1 DEF Idle, Tx, IdOrNone, Ids, None, Timestamp, Null

\* The invariant holds of the empty store.
LEMMA InitInv == Init => IInv
<1> SUFFICES ASSUME Init PROVE IInv
  OBVIOUS
<1> USE StoreAssumption DEF Init
<1>1. DOMAIN rows = {} /\ DOMAIN slugs = {} /\ refs = {}
  OBVIOUS
<1>2. TypeOK
  BY <1>1, IdleType DEF TypeOK
<1>3. RowsAllocated /\ LinksIntact /\ ThreadFlat
  BY <1>1 DEF RowsAllocated, LinksIntact, ThreadFlat, Present
<1>4. TxInv
  BY <1>1 DEF TxInv, Present, Idle, None
<1> QED BY <1>2, <1>3, <1>4 DEF IInv

\* Beginning a transaction with a well-formed record that names allocated rows of
\* the caller's tenant keeps the invariant.
LEMMA BeginInv ==
    ASSUME IInv, NEW c \in Clients, NEW t \in Tx, Begin(c, t),
           {t.id, t.other, t.cites} \subseteq Present \cup {None},
           \A j \in {t.id, t.other} \cap Present : rows[j].tenant = TenantOf[c],
           t.op \in {"insert", "new_version"} /\ t.other \in Present
              => rows[t.other].parent_id = None
    PROVE  IInv'
<1> DEFINE u == [t EXCEPT !.day = today]
<1>1. u \in Tx /\ u.id = t.id /\ u.other = t.other /\ u.cites = t.cites /\ u.op = t.op
  BY DEF Tx, IInv, TypeOK
<1>2. tx' = [tx EXCEPT ![c] = u] /\ UNCHANGED <<rows, slugs, refs, nextId, today, withRoot>>
  BY DEF Begin
<1>3. TypeOK'
  BY <1>1, <1>2 DEF IInv, TypeOK
<1>4. RowsAllocated' /\ LinksIntact' /\ ThreadFlat'
  BY <1>2 DEF IInv, RowsAllocated, LinksIntact, ThreadFlat, Present
<1>5. TxInv'
  <2> SUFFICES ASSUME NEW d \in Clients
               PROVE  /\ {tx'[d].id, tx'[d].other, tx'[d].cites} \subseteq 0..(nextId' - 1)
                      /\ \A j \in {tx'[d].id, tx'[d].other} \cap Present' :
                            rows'[j].tenant = TenantOf[d]
                      /\ tx'[d].op \in {"insert", "new_version"} /\ tx'[d].other \in Present'
                            => rows'[tx'[d].other].parent_id = None
    BY DEF TxInv
  <2>1. Present' = Present /\ rows' = rows /\ nextId' = nextId
    BY <1>2 DEF Present
  <2>2. CASE d = c
    <3>1. tx'[d] = u
      BY <1>2, <2>2 DEF IInv, TypeOK
    <3>2. {t.id, t.other, t.cites} \subseteq 0..(nextId - 1)
      <4>1. nextId \in Nat \ {0}
        BY StoreAssumption DEF IInv, TypeOK
      <4>2. \A x \in Present \cup {None} : x \in 0..(nextId - 1)
        BY <4>1 DEF IInv, RowsAllocated, None
      <4> QED BY <4>2
    <3> QED BY <1>1, <2>1, <2>2, <3>1, <3>2
  <2>3. CASE d # c
    <3>1. tx'[d] = tx[d]
      BY <1>2, <2>3 DEF IInv, TypeOK
    <3> QED BY <2>1, <3>1 DEF IInv, TxInv
  <2> QED BY <2>2, <2>3
<1> QED BY <1>3, <1>4, <1>5 DEF IInv

\* Allocated ids stay allocated.
LEMMA RangeMonotone ==
    ASSUME NEW m \in Nat, NEW n \in Nat, m <= n
    PROVE  0..(m - 1) \subseteq 0..(n - 1) /\ (m # 0 => 0 \in 0..(n - 1))
OBVIOUS

\* Open transactions stay consistent while rows keep tenant and parent_id and new
\* rows get fresh ids.
LEMMA TxStable ==
    ASSUME IInv,
           \A d \in Clients : tx'[d] = tx[d] \/ tx'[d] = Idle,
           nextId' \in Nat, nextId <= nextId',
           \A i \in Present' :
              \/ /\ i \in Present /\ rows'[i].tenant = rows[i].tenant
                 /\ rows'[i].parent_id = rows[i].parent_id
              \/ i \in Nat /\ i >= nextId
    PROVE  TxInv'
<1>1. nextId \in Nat \ {0}
  BY StoreAssumption DEF IInv, TypeOK
<1>2. 0 \notin Present'
  BY <1>1 DEF IInv, RowsAllocated
<1>5. 0..(nextId - 1) \subseteq 0..(nextId' - 1)
  BY <1>1, RangeMonotone
<1>6. 0 \in 0..(nextId' - 1)
  BY <1>1, RangeMonotone
<1> SUFFICES ASSUME NEW d \in Clients
             PROVE  /\ {tx'[d].id, tx'[d].other, tx'[d].cites} \subseteq 0..(nextId' - 1)
                    /\ \A j \in {tx'[d].id, tx'[d].other} \cap Present' :
                          rows'[j].tenant = TenantOf[d]
                    /\ tx'[d].op \in {"insert", "new_version"} /\ tx'[d].other \in Present'
                          => rows'[tx'[d].other].parent_id = None
  BY DEF TxInv
<1>3. CASE tx'[d] = Idle
  <2>1. tx'[d].id = 0 /\ tx'[d].other = 0 /\ tx'[d].cites = 0
    BY <1>3 DEF Idle, None
  <2> QED BY <1>2, <1>6, <2>1
<1>4. CASE tx'[d] = tx[d]
  <2>1. /\ {tx[d].id, tx[d].other, tx[d].cites} \subseteq 0..(nextId - 1)
        /\ \A j \in {tx[d].id, tx[d].other} \cap Present : rows[j].tenant = TenantOf[d]
        /\ tx[d].op \in {"insert", "new_version"} /\ tx[d].other \in Present
              => rows[tx[d].other].parent_id = None
    BY DEF IInv, TxInv
  <2>2. \A j \in {tx[d].id, tx[d].other} \cap Present' :
           /\ j \in Present /\ rows'[j].tenant = rows[j].tenant
           /\ rows'[j].parent_id = rows[j].parent_id
    <3> TAKE j \in {tx[d].id, tx[d].other} \cap Present'
    <3>1. j \in 0..(nextId - 1)
      BY <2>1
    <3>2. ~(j >= nextId)
      BY <1>1, <3>1
    <3> QED BY <3>2
  <2>3. {tx[d].id, tx[d].other, tx[d].cites} \subseteq 0..(nextId' - 1)
    BY <1>5, <2>1
  <2> QED BY <1>4, <2>1, <2>2, <2>3
<1> QED BY <1>3, <1>4

\* A commit that changes no link, no tenant and no table but memories keeps the
\* invariant: in-place updates, soft deletes, restores, and doing nothing.
LEMMA RowUpdateInv ==
    ASSUME IInv,
           tx' \in [Clients -> Tx], \A d \in Clients : tx'[d] = tx[d] \/ tx'[d] = Idle,
           DOMAIN rows' = Present, \A i \in Present : rows'[i] \in Row,
           \A i \in Present :
              /\ rows'[i].tenant = rows[i].tenant /\ rows'[i].parent_id = rows[i].parent_id
              /\ rows'[i].supersedes = rows[i].supersedes
              /\ rows'[i].superseded_by = rows[i].superseded_by,
           UNCHANGED <<slugs, refs, nextId>>, today' \in Nat, withRoot' \subseteq Ids
    PROVE  IInv'
<1>1. Present' = Present
  BY DEF Present
<1>2. TypeOK'
  BY <1>1 DEF IInv, TypeOK, Present
<1>3. RowsAllocated'
  BY <1>1 DEF IInv, RowsAllocated
<1>4. LinksIntact'
  BY <1>1 DEF IInv, LinksIntact
<1>5. ThreadFlat'
  <2>1. \A i \in Present : rows[i].parent_id # None => rows[i].parent_id \in Present
    BY DEF IInv, LinksIntact
  <2> QED BY <1>1, <2>1 DEF IInv, ThreadFlat
<1>6. TxInv'
  <2>1. nextId' \in Nat /\ nextId <= nextId'
    BY StoreAssumption DEF IInv, TypeOK
  <2> QED BY <1>1, <2>1, TxStable
<1> QED BY <1>2, <1>3, <1>4, <1>5, <1>6 DEF IInv

\* A step of one client that ends its transaction.
LEMMA EndTx ==
    ASSUME IInv, NEW c \in Clients, End(c)
    PROVE  /\ tx' \in [Clients -> Tx]
           /\ \A d \in Clients : tx'[d] = tx[d] \/ tx'[d] = Idle
BY IdleType DEF IInv, TypeOK, End

\* Commits that change no link: merge, rollback, in-place update.
LEMMA PlainCommitInv ==
    ASSUME IInv, NEW c \in Clients, MergeCommit(c) \/ Rollback(c) \/ InPlaceCommit(c)
    PROVE  IInv'
<1> USE DEF Present
<1>1. CASE MergeCommit(c) \/ Rollback(c)
  <2>1. End(c) /\ UNCHANGED <<rows, slugs, refs, nextId, today, withRoot>>
    BY <1>1 DEF MergeCommit, Rollback
  <2> QED BY <2>1, EndTx, RowUpdateInv DEF IInv, TypeOK
<1>2. CASE InPlaceCommit(c)
  <2>1. End(c) /\ UNCHANGED <<slugs, refs, nextId, today, withRoot>>
    BY <1>2 DEF InPlaceCommit
  <2>2. /\ DOMAIN rows' = Present
        /\ \A i \in Present :
              rows'[i] = IF i # tx[c].id THEN rows[i]
                         ELSE [rows[i] EXCEPT !.type = tx[c].type,
                                 !.content = IF tx[c].flag THEN tx[c].content ELSE @]
    BY <1>2 DEF InPlaceCommit
  <2>3. tx[c].type \in Types /\ tx[c].content \in Contents
    BY DEF IInv, TypeOK, Tx
  <2>4. \A i \in Present :
           /\ rows'[i] \in Row
           /\ rows'[i].tenant = rows[i].tenant /\ rows'[i].parent_id = rows[i].parent_id
           /\ rows'[i].supersedes = rows[i].supersedes
           /\ rows'[i].superseded_by = rows[i].superseded_by
    <3> TAKE i \in Present
    <3>1. rows[i] \in Row
      BY DEF IInv, TypeOK
    <3>2. CASE i # tx[c].id
      BY <2>2, <3>1, <3>2
    <3>3. CASE i = tx[c].id
      <4>1. PICK x \in Contents :
               rows'[i] = [rows[i] EXCEPT !.type = tx[c].type, !.content = x]
        BY <2>2, <2>3, <3>1, <3>3 DEF Row
      <4> QED BY <2>3, <3>1, <4>1 DEF Row
    <3> QED BY <3>2, <3>3
  <2> QED BY <2>1, <2>2, <2>4, EndTx, RowUpdateInv DEF IInv, TypeOK
<1> QED BY <1>1, <1>2

\* memory_delete and memory_undelete.
LEMMA DeleteInv ==
    ASSUME IInv, NEW c \in Clients, DeleteCommit(c) \/ CascadeCommit(c) \/ UndeleteCommit(c)
    PROVE  IInv'
<1>1. /\ End(c) /\ UNCHANGED <<slugs, refs, nextId, today>>
      /\ DOMAIN rows' = Present
  BY DEF DeleteCommit, CascadeCommit, UndeleteCommit
<1>2. Present \subseteq Ids /\ withRoot \subseteq Ids /\ \A i \in Present : rows[i] \in Row
  BY DEF IInv, TypeOK, Present
<1>3. withRoot' \subseteq Ids
  BY <1>2 DEF DeleteCommit, CascadeCommit, UndeleteCommit, Replies
<1>4. [day |-> tx[c].day, stamp |-> tx[c].stamp] \in Timestamp /\ Null \in Timestamp
      /\ tx[c].flag \in BOOLEAN
  BY DEF IInv, TypeOK, Tx, Timestamp, Null
<1>5. \A i \in Present : rows[i].deleted_at \in Timestamp
  BY <1>2 DEF Row
<1>6. \A i \in Present : \E at \in Timestamp, b \in BOOLEAN :
         rows'[i] \in {rows[i], SoftDelete(rows[i], at), [rows[i] EXCEPT !.is_current = b],
                       [rows[i] EXCEPT !.deleted_at = at, !.is_current = b]}
  <2> TAKE i \in Present
  <2>1. CASE DeleteCommit(c)
    <3>1. rows'[i] \in {rows[i], SoftDelete(rows[i], [day |-> tx[c].day, stamp |-> tx[c].stamp]),
                        [rows[i] EXCEPT !.is_current = TRUE]}
      BY <2>1 DEF DeleteCommit
    <3> QED BY <1>4, <3>1
  <2>2. CASE CascadeCommit(c)
    <3>1. PICK at \in Timestamp : rows'[i] \in {rows[i], SoftDelete(rows[i], at)}
      BY <1>4, <1>5, <2>2 DEF CascadeCommit
    <3> QED BY <3>1
  <2>3. CASE UndeleteCommit(c)
    <3>1. rows'[i] \in {rows[i], [rows[i] EXCEPT !.deleted_at = Null, !.is_current = tx[c].flag],
                        [rows[i] EXCEPT !.deleted_at = Null, !.is_current = TRUE]}
      BY <2>3 DEF UndeleteCommit
    <3> QED BY <1>4, <3>1
  <2> QED BY <2>1, <2>2, <2>3
<1>7. \A i \in Present :
         /\ rows'[i] \in Row
         /\ rows'[i].tenant = rows[i].tenant /\ rows'[i].parent_id = rows[i].parent_id
         /\ rows'[i].supersedes = rows[i].supersedes
         /\ rows'[i].superseded_by = rows[i].superseded_by
  <2> TAKE i \in Present
  <2>1. PICK at \in Timestamp, b \in BOOLEAN :
           rows'[i] \in {rows[i], SoftDelete(rows[i], at), [rows[i] EXCEPT !.is_current = b],
                         [rows[i] EXCEPT !.deleted_at = at, !.is_current = b]}
    BY <1>6
  <2>2. rows[i] \in Row
    BY <1>2
  <2> QED BY <2>1, <2>2 DEF Row, SoftDelete
<1> QED BY <1>1, <1>3, <1>7, EndTx, RowUpdateInv DEF IInv, TypeOK

\* expire_transient and the passing of a day.
LEMMA ExpireInv ==
    ASSUME IInv, ExpireTransient \/ NewDay PROVE IInv'
<1>1. CASE ExpireTransient
  <2>1. PICK s \in 1..MaxStamp : \A i \in Present :
           rows'[i] \in {rows[i], [rows[i] EXCEPT !.deleted_at = [day |-> today, stamp |-> s]]}
    BY <1>1 DEF ExpireTransient
  <2>2. [day |-> today, stamp |-> s] \in Timestamp
    BY DEF IInv, TypeOK, Timestamp
  <2>3. DOMAIN rows' = Present /\ UNCHANGED <<slugs, refs, nextId, today, tx, withRoot>>
    BY <1>1 DEF ExpireTransient
  <2>4. \A i \in Present : rows[i] \in Row
    BY DEF IInv, TypeOK, Present
  <2>5. \A i \in Present :
           /\ rows'[i] \in Row
           /\ rows'[i].tenant = rows[i].tenant /\ rows'[i].parent_id = rows[i].parent_id
           /\ rows'[i].supersedes = rows[i].supersedes
           /\ rows'[i].superseded_by = rows[i].superseded_by
    <3> TAKE i \in Present
    <3>1. rows[i] \in Row
      BY <2>4
    <3>2. rows'[i] \in {rows[i], [rows[i] EXCEPT !.deleted_at = [day |-> today, stamp |-> s]]}
      BY <2>1
    <3> QED BY <2>2, <3>1, <3>2 DEF Row
  <2> QED BY <2>3, <2>5, RowUpdateInv DEF IInv, TypeOK
<1>2. CASE NewDay
  BY <1>2, RowUpdateInv DEF NewDay, IInv, TypeOK, Present
<1> QED BY <1>1, <1>2

\* memory_supersede: both rows exist and belong to the caller's tenant.
LEMMA SupersedeInv ==
    ASSUME IInv, NEW c \in Clients, SupersedeCommit(c) PROVE IInv'
<1> DEFINE old == tx[c].id
           new == tx[c].other
           marked == [rows EXCEPT ![old] = Superseded(@, new)]
<1>1. /\ rows' = [marked EXCEPT ![new].supersedes = old, ![new].version = tx[c].version,
                                ![new].is_current = TRUE]
      /\ End(c) /\ UNCHANGED <<slugs, refs, nextId, today, withRoot>>
      /\ {old, new} \subseteq Present \cup {None}
  BY DEF SupersedeCommit, ForeignKeysHold
<1>2. Present \subseteq Ids /\ \A i \in Present : rows[i] \in Row
  BY DEF IInv, TypeOK, Present
<1>3. old \in IdOrNone /\ new \in IdOrNone /\ tx[c].version \in Nat
  BY DEF IInv, TypeOK, Tx
<1>4. Present' = Present
  BY <1>1 DEF Present
<1>5. \A i \in Present :
         /\ rows'[i] \in Row
         /\ rows'[i].tenant = rows[i].tenant /\ rows'[i].parent_id = rows[i].parent_id
         /\ rows'[i].supersedes = IF i = new THEN old ELSE rows[i].supersedes
         /\ rows'[i].superseded_by = IF i = old THEN new ELSE rows[i].superseded_by
  <2> TAKE i \in Present
  <2>1. rows[i] \in Row
    BY <1>2
  <2>2. /\ marked[i] \in Row
        /\ marked[i].tenant = rows[i].tenant /\ marked[i].parent_id = rows[i].parent_id
        /\ marked[i].supersedes = rows[i].supersedes
        /\ marked[i].superseded_by = IF i = old THEN new ELSE rows[i].superseded_by
    BY <1>3, <2>1 DEF Superseded, Row, Present
  <2>3. rows'[i] = IF i = new
                   THEN [marked[i] EXCEPT !.supersedes = old, !.version = tx[c].version,
                                          !.is_current = TRUE]
                   ELSE marked[i]
    BY <1>1 DEF Present
  <2> HIDE DEF marked
  <2> QED BY <1>3, <2>2, <2>3 DEF Row
<1>6. TypeOK'
  BY <1>1, <1>4, <1>5, EndTx DEF IInv, TypeOK, Present
<1>7. RowsAllocated'
  BY <1>1, <1>4 DEF IInv, RowsAllocated
<1>8. LinksIntact'
  <2>1. \A j \in {old, new} \cap Present : rows[j].tenant = TenantOf[c]
    BY DEF IInv, TxInv
  <2>2. \A i \in Present :
           \A j \in {rows[i].supersedes, rows[i].superseded_by, rows[i].parent_id} \ {None} :
              j \in Present /\ rows[j].tenant = rows[i].tenant
    BY DEF IInv, LinksIntact
  <2>3. ASSUME NEW i \in Present,
               NEW j \in {rows'[i].supersedes, rows'[i].superseded_by, rows'[i].parent_id} \ {None}
        PROVE  j \in Present /\ rows'[j].tenant = rows'[i].tenant
    <3>1. CASE j \in {rows[i].supersedes, rows[i].superseded_by, rows[i].parent_id}
      BY <1>5, <2>2, <2>3, <3>1
    <3>2. CASE (i = new /\ j = old) \/ (i = old /\ j = new)
      <4>1. j \in Present /\ j \in {old, new} /\ i \in {old, new}
        BY <1>1, <2>3, <3>2
      <4>2. rows[j].tenant = TenantOf[c] /\ rows[i].tenant = TenantOf[c]
        BY <2>1, <2>3, <4>1
      <4> QED BY <1>5, <2>3, <4>1, <4>2
    <3> QED BY <1>5, <2>3, <3>1, <3>2
  <2>4. /\ \A k \in DOMAIN slugs' : slugs'[k] \in Present'
        /\ \A r \in refs' : r[1] \in Present' /\ r[2] \in Present'
    BY <1>1, <1>4 DEF IInv, LinksIntact
  <2> QED BY <1>4, <2>3, <2>4 DEF LinksIntact
<1>9. ThreadFlat'
  <2>1. \A i \in Present : rows[i].parent_id # None => rows[i].parent_id \in Present
    BY DEF IInv, LinksIntact
  <2> QED BY <1>4, <1>5, <2>1 DEF IInv, ThreadFlat
<1>10. TxInv'
  <2>1. nextId' \in Nat /\ nextId <= nextId'
    BY <1>1, StoreAssumption DEF IInv, TypeOK
  <2> QED BY <1>1, <1>4, <1>5, <2>1, EndTx, TxStable
<1> QED BY <1>6, <1>7, <1>8, <1>9, <1>10 DEF IInv

\* A superseded row is a row with the same tenant, thread and predecessor.
LEMMA SupersededRow ==
    ASSUME NEW r \in Row, NEW n \in IdOrNone
    PROVE  /\ Superseded(r, n) \in Row
           /\ Superseded(r, n).tenant = r.tenant /\ Superseded(r, n).parent_id = r.parent_id
           /\ Superseded(r, n).supersedes = r.supersedes /\ Superseded(r, n).superseded_by = n
BY DEF Superseded, Row

\* Inserting a row: a plain write, a reply, or a new version that marks the old.
LEMMA InsertInv ==
    ASSUME IInv, NEW c \in Clients, InsertCommit(c) \/ NewVersionCommit(c) PROVE IInv'
<1> DEFINE n == nextId
           old == tx[c].id
<1>1. /\ n <= MaxId /\ nextId' = n + 1 /\ End(c) /\ UNCHANGED <<today, withRoot>>
      /\ refs' = refs \cup IF tx[c].cites = None THEN {} ELSE {<<n, tx[c].cites>>}
      /\ {tx[c].id, tx[c].other, tx[c].cites} \subseteq Present \cup {None}
      /\ tx[c].op \in {"insert", "new_version"}
  BY DEF InsertCommit, NewVersionCommit, Insert, ForeignKeysHold
<1>2. n \in Ids /\ n \notin Present /\ n # None /\ MaxId \in Nat /\ n \in Nat
  BY <1>1, StoreAssumption DEF IInv, TypeOK, RowsAllocated, Ids, None
<1>3. Present \subseteq Ids /\ \A i \in Present : rows[i] \in Row
  BY DEF IInv, TypeOK, Present
<1>4. Present' = Present \cup {n}
  BY DEF InsertCommit, NewVersionCommit, Insert, Present
<1>5. rows'[n] = NewRow(c)
  BY DEF InsertCommit, NewVersionCommit, Insert, Present
<1>6. \A i \in Present : rows'[i] = rows[i] \/ (i = old /\ rows'[i] = Superseded(rows[i], n))
  <2> TAKE i \in Present
  <2>1. CASE InsertCommit(c)
    BY <1>2, <2>1 DEF InsertCommit, Insert
  <2>2. CASE NewVersionCommit(c)
    BY <1>2, <2>2 DEF NewVersionCommit, Insert, Present
  <2> QED BY <2>1, <2>2
<1>7. \A i \in Present :
         /\ rows'[i] \in Row
         /\ rows'[i].tenant = rows[i].tenant /\ rows'[i].parent_id = rows[i].parent_id
         /\ rows'[i].supersedes = rows[i].supersedes
         /\ rows'[i].superseded_by = rows[i].superseded_by \/ (i = old /\ rows'[i].superseded_by = n)
  <2> TAKE i \in Present
  <2>1. rows[i] \in Row /\ n \in IdOrNone
    BY <1>2, <1>3 DEF IdOrNone
  <2>2. CASE rows'[i] = rows[i]
    BY <2>1, <2>2
  <2>3. CASE i = old /\ rows'[i] = Superseded(rows[i], n)
    <3>1. /\ Superseded(rows[i], n) \in Row
          /\ Superseded(rows[i], n).tenant = rows[i].tenant
          /\ Superseded(rows[i], n).parent_id = rows[i].parent_id
          /\ Superseded(rows[i], n).supersedes = rows[i].supersedes
          /\ Superseded(rows[i], n).superseded_by = n
      BY <2>1, SupersededRow
    <3> QED BY <2>3, <3>1
  <2> QED BY <1>6, <2>2, <2>3
<1>8. /\ NewRow(c) \in Row
      /\ NewRow(c).tenant = TenantOf[c] /\ NewRow(c).supersedes = old
      /\ NewRow(c).superseded_by = None /\ NewRow(c).parent_id = tx[c].other
  <2>1. tx[c] \in Tx /\ TenantOf[c] \in Tenants
    BY StoreAssumption DEF IInv, TypeOK
  <2> QED BY <2>1 DEF NewRow, Row, Tx, Null, Timestamp, IdOrNone
<1>9. \A k \in DOMAIN slugs' : \/ slugs'[k] = n /\ k \in Ids
                               \/ k \in DOMAIN slugs /\ slugs'[k] = slugs[k]
  <2>1. CASE InsertCommit(c)
    BY <1>2, <2>1 DEF InsertCommit, insert_slug_with_retry
  <2>2. CASE NewVersionCommit(c)
    <3>1. slugs' = slugs \/ \E k \in DOMAIN slugs : slugs' = [slugs EXCEPT ![k] = n]
      BY <2>2 DEF NewVersionCommit, redirect_slug_on_supersession
    <3> QED BY <3>1 DEF IInv, TypeOK
  <2> QED BY <2>1, <2>2
<1>10. DOMAIN slugs' \subseteq Ids /\ \A k \in DOMAIN slugs' : slugs'[k] \in Present' \cap Ids
  BY <1>2, <1>3, <1>4, <1>9 DEF IInv, TypeOK, LinksIntact
<1>11. \A r \in refs' : r \in refs \/ (r = <<n, tx[c].cites>> /\ tx[c].cites \in Present)
  BY <1>1
<1>12. TypeOK'
  <2>1. \A i \in Present' : i \in Ids /\ rows'[i] \in Row
    BY <1>2, <1>3, <1>4, <1>5, <1>7, <1>8
  <2>2. refs' \subseteq Ids \X Ids
    <3>1. refs \subseteq Ids \X Ids
      BY DEF IInv, TypeOK
    <3>2. tx[c].cites \in Present => <<n, tx[c].cites>> \in Ids \X Ids
      BY <1>2, <1>3
    <3> QED BY <1>11, <3>1, <3>2
  <2>3. nextId' \in 1..(MaxId + 1)
    BY <1>1, <1>2
  <2> QED BY <1>1, <1>10, <2>1, <2>2, <2>3, EndTx DEF IInv, TypeOK, Present
<1>13. RowsAllocated'
  <2>1. \A x \in Present : x \in 1..(n - 1)
    BY DEF IInv, RowsAllocated
  <2>2. \A x \in Present \cup {n} : x \in 1..((n + 1) - 1)
    BY <1>2, <2>1 DEF Ids
  <2> QED BY <1>1, <1>4, <2>2 DEF RowsAllocated
<1>14. \A j \in {old, tx[c].other} \cap Present : rows[j].tenant = TenantOf[c]
  BY DEF IInv, TxInv
<1>15. LinksIntact'
  <2>1. \A i \in Present :
           \A j \in {rows[i].supersedes, rows[i].superseded_by, rows[i].parent_id} \ {None} :
              j \in Present /\ rows[j].tenant = rows[i].tenant
    BY DEF IInv, LinksIntact
  <2>2. ASSUME NEW i \in Present',
               NEW j \in {rows'[i].supersedes, rows'[i].superseded_by, rows'[i].parent_id} \ {None}
        PROVE  j \in Present' /\ rows'[j].tenant = rows'[i].tenant
    <3>1. CASE i = n
      <4>1. j \in {old, tx[c].other} \cap Present
        BY <1>1, <1>5, <1>8, <2>2, <3>1
      <4> QED BY <1>4, <1>5, <1>7, <1>8, <1>14, <3>1, <4>1
    <3>2. CASE i \in Present /\ j \in {rows[i].supersedes, rows[i].superseded_by, rows[i].parent_id}
      BY <1>4, <1>7, <2>1, <2>2, <3>2
    <3>3. CASE i \in Present /\ i = old /\ j = n
      BY <1>4, <1>5, <1>7, <1>8, <1>14, <3>3
    <3> QED BY <1>4, <1>7, <2>2, <3>1, <3>2, <3>3
  <2>3. \A r \in refs' : r[1] \in Present' /\ r[2] \in Present'
    BY <1>4, <1>11 DEF IInv, LinksIntact
  <2> QED BY <1>10, <2>2, <2>3 DEF LinksIntact
<1>16. ThreadFlat'
  <2>1. \A i \in Present : rows[i].parent_id # None =>
           rows[i].parent_id \in Present /\ rows[rows[i].parent_id].parent_id = None
    BY DEF IInv, LinksIntact, ThreadFlat
  <2>2. tx[c].other \in Present => rows[tx[c].other].parent_id = None
    BY <1>1 DEF IInv, TxInv
  <2>3. ASSUME NEW i \in Present', rows'[i].parent_id # None
        PROVE  rows'[rows'[i].parent_id].parent_id = None
    <3>1. CASE i = n
      BY <1>1, <1>5, <1>7, <1>8, <2>2, <2>3, <3>1
    <3>2. CASE i \in Present
      BY <1>7, <2>1, <2>3, <3>2
    <3> QED BY <1>4, <3>1, <3>2
  <2> QED BY <2>3 DEF ThreadFlat
<1>17. TxInv'
  <2>1. nextId' \in Nat /\ nextId <= nextId'
    BY <1>1, <1>2
  <2> QED BY <1>2, <1>4, <1>7, <2>1, <1>1, EndTx, TxStable
<1> QED BY <1>12, <1>13, <1>15, <1>16, <1>17 DEF IInv

\* What a caller's lookups return: rows of its own tenant, well-formed.
LEMMA LookupFacts ==
    ASSUME IInv, NEW c \in Clients
    PROVE  /\ \A i \in Visible(c) : /\ i \in Present /\ i \in Ids /\ i # None
                                    /\ rows[i] \in Row /\ rows[i].tenant = TenantOf[c]
           /\ LiveRows(c) \subseteq Visible(c)
           /\ \A op : Targets(c, op) \subseteq LiveRows(c)
           /\ Citable(c) \subseteq (Present \cap Ids) \cup {None}
           /\ None \notin Present
           /\ \A t \in Types, x \in Contents :
                 DedupeResults(c, t, x) \subseteq LiveRows(c) \cup {None}
BY DEF IInv, TypeOK, Visible, LiveRows, Targets, Citable, resolve_reference_target, memories_select, Present,
       Ids, None, DedupeResults, check_dup

\* Every expiry a client may ask for is a day.
LEMMA ExpiryType ==
    ASSUME IInv, NEW ttl \in TTLs PROVE ExpiresIn(ttl) \in Nat
BY StoreAssumption DEF IInv, TypeOK, ExpiresIn

\* The reads of memory_write.
LEMMA WriteBeginInv ==
    ASSUME IInv, NEW c \in Clients,
           WriteBegin(c) \/ ReplyBegin(c) \/ WriteSupersedesBegin(c)
    PROVE  IInv'
<1>1. ASSUME NEW dup \in LiveRows(c), NEW x \in Contents,
             Begin(c, [Idle EXCEPT !.op = "merge", !.id = dup, !.content = x])
      PROVE  IInv'
  <2> DEFINE t == [Idle EXCEPT !.op = "merge", !.id = dup, !.content = x]
  <2>1. /\ t \in Tx /\ t.id = dup /\ t.other = None /\ t.cites = None /\ t.op = "merge"
    BY <1>1, IdleType, LookupFacts DEF Tx, Idle, IdOrNone
  <2>2. Begin(c, t)
    BY <1>1
  <2> HIDE DEF t
  <2> QED BY <2>1, <2>2, LookupFacts, BeginInv
<1>2. CASE WriteBegin(c)
  <2>0. PICK ty \in Types, x \in Contents, ttl \in TTLs, r \in Citable(c) :
          \E dup \in DedupeResults(c, ty, x) :
          \/ dup # None /\ Begin(c, [Idle EXCEPT !.op = "merge", !.id = dup, !.content = x])
          \/ Begin(c, [Idle EXCEPT !.op = "insert", !.type = ty, !.content = x,
                         !.version = 1, !.expires = ExpiresIn(ttl), !.cites = r,
                         !.slug = (ty \in VERSIONED_TYPES)])
    BY <1>2 DEF WriteBegin
  <2>1. PICK dup \in DedupeResults(c, ty, x) :
          \/ dup # None /\ Begin(c, [Idle EXCEPT !.op = "merge", !.id = dup, !.content = x])
          \/ Begin(c, [Idle EXCEPT !.op = "insert", !.type = ty, !.content = x,
                         !.version = 1, !.expires = ExpiresIn(ttl), !.cites = r,
                         !.slug = (ty \in VERSIONED_TYPES)])
    BY <2>0
  <2> DEFINE t == [Idle EXCEPT !.op = "insert", !.type = ty, !.content = x,
                         !.version = 1, !.expires = ExpiresIn(ttl), !.cites = r,
                         !.slug = (ty \in VERSIONED_TYPES)]
  <2>2. CASE dup # None /\ Begin(c, [Idle EXCEPT !.op = "merge", !.id = dup, !.content = x])
    BY <1>1, <2>1, <2>2, LookupFacts
  <2>3. CASE Begin(c, t)
    <3>1. ExpiresIn(ttl) \in Nat /\ r \in IdOrNone /\ r \in Present \cup {None}
      BY ExpiryType, LookupFacts DEF IdOrNone
    <3>2. ASSUME NEW b \in BOOLEAN
          PROVE  LET u == [Idle EXCEPT !.op = "insert", !.type = ty, !.content = x,
                             !.version = 1, !.expires = ExpiresIn(ttl), !.cites = r, !.slug = b]
                 IN  u \in Tx /\ u.id = None /\ u.other = None /\ u.cites = r
      BY <3>1, IdleType DEF Tx, Idle
    <3>3. (ty \in VERSIONED_TYPES) \in BOOLEAN
      OBVIOUS
    <3>4. t \in Tx /\ t.id = None /\ t.other = None /\ t.cites = r
      BY <3>2, <3>3, Zenon
    <3> HIDE DEF t
    <3> QED BY <2>3, <3>1, <3>4, LookupFacts, BeginInv
  <2> QED BY <2>1, <2>2, <2>3
<1>3. CASE ReplyBegin(c)
  <2>1. PICK p \in LiveRows(c), ty \in Types, x \in Contents, ttl \in TTLs, r \in Citable(c) :
          /\ rows[p].parent_id = None
          /\ Begin(c, [Idle EXCEPT !.op = "insert", !.other = p, !.type = ty, !.content = x,
                         !.version = 1, !.expires = ExpiresIn(ttl), !.cites = r])
    BY <1>3 DEF ReplyBegin
  <2> DEFINE t == [Idle EXCEPT !.op = "insert", !.other = p, !.type = ty, !.content = x,
                         !.version = 1, !.expires = ExpiresIn(ttl), !.cites = r]
  <2>2. /\ ExpiresIn(ttl) \in Nat /\ r \in IdOrNone /\ r \in Present \cup {None}
        /\ p \in Present /\ p \in IdOrNone /\ rows[p].tenant = TenantOf[c]
    BY ExpiryType, LookupFacts DEF IdOrNone
  <2>3. t \in Tx /\ t.id = None /\ t.other = p /\ t.cites = r
    BY <2>2, IdleType DEF Tx, Idle
  <2>4. Begin(c, t)
    BY <2>1
  <2> HIDE DEF t
  <2> QED BY <2>1, <2>2, <2>3, <2>4, LookupFacts, BeginInv
<1>4. CASE WriteSupersedesBegin(c)
  <2>0. PICK old \in LiveRows(c), x \in Contents, ttl \in TTLs, r \in Citable(c) :
          \E dup \in DedupeResults(c, rows[old].type, x) :
          \/ dup # None /\ Begin(c, [Idle EXCEPT !.op = "merge", !.id = dup, !.content = x])
          \/ Begin(c, [Idle EXCEPT !.op = "new_version", !.id = old, !.type = rows[old].type,
                         !.content = x, !.version = rows[old].version + 1,
                         !.expires = ExpiresIn(ttl), !.cites = r, !.slug = TRUE])
    BY <1>4, LookupFacts DEF WriteSupersedesBegin
  <2>1. PICK dup \in DedupeResults(c, rows[old].type, x) :
          \/ dup # None /\ Begin(c, [Idle EXCEPT !.op = "merge", !.id = dup, !.content = x])
          \/ Begin(c, [Idle EXCEPT !.op = "new_version", !.id = old, !.type = rows[old].type,
                         !.content = x, !.version = rows[old].version + 1,
                         !.expires = ExpiresIn(ttl), !.cites = r, !.slug = TRUE])
    BY <2>0
  <2> DEFINE t == [Idle EXCEPT !.op = "new_version", !.id = old, !.type = rows[old].type,
                         !.content = x, !.version = rows[old].version + 1,
                         !.expires = ExpiresIn(ttl), !.cites = r, !.slug = TRUE]
  <2>2. /\ ExpiresIn(ttl) \in Nat /\ r \in IdOrNone /\ r \in Present \cup {None}
        /\ old \in Present /\ old \in IdOrNone /\ rows[old].tenant = TenantOf[c]
        /\ rows[old] \in Row
    BY ExpiryType, LookupFacts DEF IdOrNone
  <2>3. rows[old].type \in Types /\ rows[old].version + 1 \in Nat
    BY <2>2 DEF Row
  <2>4. CASE dup # None /\ Begin(c, [Idle EXCEPT !.op = "merge", !.id = dup, !.content = x])
    <3>1. dup \in LiveRows(c)
      BY <2>1, <2>3, <2>4, LookupFacts
    <3> QED BY <1>1, <2>4, <3>1
  <2>5. CASE Begin(c, t)
    <3>1. t \in Tx /\ t.id = old /\ t.other = None /\ t.cites = r
      BY <2>2, <2>3, IdleType DEF Tx, Idle
    <3> HIDE DEF t
    <3> QED BY <2>2, <2>5, <3>1, LookupFacts, BeginInv
  <2> QED BY <2>1, <2>4, <2>5
<1> QED BY <1>2, <1>3, <1>4

\* The reads of memory_update and memory_supersede.
LEMMA UpdateBeginInv ==
    ASSUME IInv, NEW c \in Clients, UpdateBegin(c) \/ SupersedeBegin(c) PROVE IInv'
<1>1. CASE UpdateBegin(c)
  <2>1. PICK i \in LiveRows(c), ty \in Types, x \in Contents :
          LET old == rows[i] IN
          \/ \E v \in {old.version + 1, 1} :
                Begin(c, [Idle EXCEPT !.op = "new_version", !.id = i, !.type = ty,
                            !.content = x, !.version = v])
          \/ Begin(c, [Idle EXCEPT !.op = "in_place", !.id = i, !.type = ty,
                         !.content = x, !.flag = (x # old.content)])
    BY <1>1, LookupFacts DEF UpdateBegin
  <2>2. /\ i \in Present /\ i \in IdOrNone /\ rows[i].tenant = TenantOf[c] /\ rows[i] \in Row
        /\ {rows[i].version + 1, 1} \subseteq Nat
    BY LookupFacts DEF IdOrNone, Row
  <2>3. ASSUME NEW v \in Nat,
               Begin(c, [Idle EXCEPT !.op = "new_version", !.id = i, !.type = ty,
                           !.content = x, !.version = v])
        PROVE  IInv'
    <3> DEFINE t == [Idle EXCEPT !.op = "new_version", !.id = i, !.type = ty,
                       !.content = x, !.version = v]
    <3>1. t \in Tx /\ t.id = i /\ t.other = None /\ t.cites = None
      BY <2>2, IdleType DEF Tx, Idle
    <3>2. Begin(c, t)
      BY <2>3
    <3> HIDE DEF t
    <3> QED BY <2>2, <3>1, <3>2, LookupFacts, BeginInv
  <2>4. ASSUME Begin(c, [Idle EXCEPT !.op = "in_place", !.id = i, !.type = ty,
                           !.content = x, !.flag = (x # rows[i].content)])
        PROVE  IInv'
    <3> DEFINE t == [Idle EXCEPT !.op = "in_place", !.id = i, !.type = ty,
                       !.content = x, !.flag = (x # rows[i].content)]
    <3>1. ASSUME NEW b \in BOOLEAN
          PROVE  LET u == [Idle EXCEPT !.op = "in_place", !.id = i, !.type = ty,
                             !.content = x, !.flag = b]
                 IN  u \in Tx /\ u.id = i /\ u.other = None /\ u.cites = None
      BY <2>2, IdleType DEF Tx, Idle
    <3>2. (x # rows[i].content) \in BOOLEAN
      OBVIOUS
    <3>3. t \in Tx /\ t.id = i /\ t.other = None /\ t.cites = None
      BY <3>1, <3>2, Zenon
    <3>4. Begin(c, t)
      BY <2>4
    <3> HIDE DEF t
    <3> QED BY <2>2, <3>3, <3>4, LookupFacts, BeginInv
  <2> QED BY <2>1, <2>2, <2>3, <2>4
<1>2. CASE SupersedeBegin(c)
  <2>1. PICK old \in LiveRows(c), new \in LiveRows(c) :
          Begin(c, [Idle EXCEPT !.op = "supersede", !.id = old, !.other = new,
                      !.version = rows[old].version + 1])
    BY <1>2 DEF SupersedeBegin
  <2> DEFINE t == [Idle EXCEPT !.op = "supersede", !.id = old, !.other = new,
                      !.version = rows[old].version + 1]
  <2>2. /\ old \in Present /\ old \in IdOrNone /\ rows[old].tenant = TenantOf[c]
        /\ new \in Present /\ new \in IdOrNone /\ rows[new].tenant = TenantOf[c]
        /\ rows[old].version + 1 \in Nat
    BY LookupFacts DEF IdOrNone, Row
  <2>3. t \in Tx /\ t.id = old /\ t.other = new /\ t.cites = None /\ t.op = "supersede"
    BY <2>2, IdleType DEF Tx, Idle
  <2>4. Begin(c, t)
    BY <2>1
  <2> HIDE DEF t
  <2> QED BY <2>2, <2>3, <2>4, LookupFacts, BeginInv
<1> QED BY <1>1, <1>2

\* The reads of memory_delete and memory_undelete.
LEMMA DeleteBeginInv ==
    ASSUME IInv, NEW c \in Clients, DeleteBegin(c) \/ UndeleteBegin(c) PROVE IInv'
<1>1. CASE DeleteBegin(c)
  <2>1. PICK i \in LiveRows(c), s \in 1..MaxStamp, mode \in {"delete", "cascade"} :
          Begin(c, [Idle EXCEPT !.op = mode, !.id = i, !.stamp = s, !.other = PriorVersion(i),
                      !.root = (rows[i].parent_id = None)])
    BY <1>1, LookupFacts DEF DeleteBegin
  <2> DEFINE t == [Idle EXCEPT !.op = mode, !.id = i, !.stamp = s, !.other = PriorVersion(i),
                      !.root = (rows[i].parent_id = None)]
  <2>2. /\ i \in Present /\ i \in IdOrNone /\ rows[i].tenant = TenantOf[c] /\ s \in Nat
        /\ rows[i] \in Row
    BY LookupFacts, StoreAssumption DEF IdOrNone
  <2>3. /\ PriorVersion(i) \in IdOrNone /\ PriorVersion(i) \in Present \cup {None}
        /\ PriorVersion(i) \in Present => rows[PriorVersion(i)].tenant = TenantOf[c]
    <3>1. PriorVersion(i) \in {rows[i].supersedes, None}
      BY DEF PriorVersion
    <3>2. rows[i].supersedes # None =>
             rows[i].supersedes \in Present /\ rows[rows[i].supersedes].tenant = rows[i].tenant
      BY <2>2 DEF IInv, LinksIntact
    <3>3. rows[i].supersedes \in IdOrNone
      BY <2>2 DEF Row
    <3> QED BY <2>2, <3>1, <3>2, <3>3, LookupFacts DEF IdOrNone
  <2>4. ASSUME NEW b \in BOOLEAN
        PROVE  LET u == [Idle EXCEPT !.op = mode, !.id = i, !.stamp = s,
                           !.other = PriorVersion(i), !.root = b]
               IN  /\ u \in Tx /\ u.id = i /\ u.other = PriorVersion(i) /\ u.cites = None
                   /\ u.op = mode
    BY <2>2, <2>3, IdleType DEF Tx, Idle
  <2>5. (rows[i].parent_id = None) \in BOOLEAN
    OBVIOUS
  <2>6. t \in Tx /\ t.id = i /\ t.other = PriorVersion(i) /\ t.cites = None /\ t.op = mode
    BY <2>4, <2>5, Zenon
  <2>7. Begin(c, t)
    BY <2>1
  <2> HIDE DEF t
  <2> QED BY <2>2, <2>3, <2>6, <2>7, LookupFacts, BeginInv
<1>2. CASE UndeleteBegin(c)
  <2>1. PICK i \in Visible(c) :
          Begin(c, [Idle EXCEPT !.op = "undelete", !.id = i,
                      !.flag = ~(rows[i].type \in VERSIONED_TYPES /\ CurrentNeighbour(i)),
                      !.root = (rows[i].parent_id = None), !.seen = rows[i].deleted_at])
    BY <1>2 DEF UndeleteBegin
  <2> DEFINE f == ~(rows[i].type \in VERSIONED_TYPES /\ CurrentNeighbour(i))
             g == rows[i].parent_id = None
             t == [Idle EXCEPT !.op = "undelete", !.id = i, !.flag = f, !.root = g,
                     !.seen = rows[i].deleted_at]
  <2>2. /\ i \in Present /\ i \in IdOrNone /\ rows[i].tenant = TenantOf[c]
        /\ rows[i].deleted_at \in Timestamp
    BY LookupFacts DEF IdOrNone, Row
  <2>3. ASSUME NEW b \in BOOLEAN, NEW d \in BOOLEAN
        PROVE  LET u == [Idle EXCEPT !.op = "undelete", !.id = i, !.flag = b, !.root = d,
                           !.seen = rows[i].deleted_at]
               IN  u \in Tx /\ u.id = i /\ u.other = None /\ u.cites = None /\ u.op = "undelete"
    BY <2>2, IdleType DEF Tx, Idle
  <2>4. f \in BOOLEAN /\ g \in BOOLEAN
    BY Zenon
  <2>5. t \in Tx /\ t.id = i /\ t.other = None /\ t.cites = None /\ t.op = "undelete"
    BY <2>3, <2>4, Zenon
  <2>6. Begin(c, t)
    BY <2>1
  <2> HIDE DEF t
  <2> QED BY <2>2, <2>5, <2>6, LookupFacts, BeginInv
<1> QED BY <1>1, <1>2

\* The nightly purge leaves the surviving rows closed under all links: the foreign
\* keys see to version links, slugs and citations, the cascade to threads, and one
\* level of cascade is enough because threads are flat.
LEMMA RetentionInv ==
    ASSUME IInv, RetentionMemories PROVE IInv'
<1>1. PICK s \in 1..MaxStamp :
         rows' = [i \in Kept |-> IF i \in PastRetention
                                 THEN [rows[i] EXCEPT !.deleted_at = [day |-> today, stamp |-> s]]
                                 ELSE rows[i]]
  BY DEF RetentionMemories
<1>2. /\ refs' = {r \in refs : r[1] \in Kept} /\ withRoot' = withRoot \cap Kept
      /\ UNCHANGED <<slugs, nextId, today, tx>> /\ PurgeAllowed
  BY DEF RetentionMemories
<1>3. Present' = Kept /\ Kept \subseteq Present /\ PastGrace \subseteq Present
  BY <1>1 DEF Present, Kept, PastGrace
<1>4. Present \subseteq Ids /\ \A i \in Present : rows[i] \in Row
  BY DEF IInv, TypeOK, Present
<1>5. [day |-> today, stamp |-> s] \in Timestamp
  BY StoreAssumption DEF IInv, TypeOK, Timestamp
<1>6. \A i \in Kept :
         /\ rows'[i] \in Row
         /\ rows'[i].tenant = rows[i].tenant /\ rows'[i].parent_id = rows[i].parent_id
         /\ rows'[i].supersedes = rows[i].supersedes
         /\ rows'[i].superseded_by = rows[i].superseded_by
  <2> TAKE i \in Kept
  <2>1. rows[i] \in Row
    BY <1>3, <1>4
  <2>2. rows'[i] \in {rows[i], [rows[i] EXCEPT !.deleted_at = [day |-> today, stamp |-> s]]}
    BY <1>1
  <2> QED BY <1>5, <2>1, <2>2 DEF Row
<1>7. TypeOK'
  BY <1>2, <1>3, <1>4, <1>6 DEF IInv, TypeOK, Present
<1>8. RowsAllocated'
  BY <1>2, <1>3 DEF IInv, RowsAllocated
<1>9. None \notin Present
  BY <1>4 DEF Ids, None
<1>10. \A i \in Present :
          \A j \in {rows[i].supersedes, rows[i].superseded_by, rows[i].parent_id} \ {None} :
             j \in Present /\ rows[j].tenant = rows[i].tenant
  BY DEF IInv, LinksIntact
<1>11. \A i \in Kept : rows[i].parent_id # None => rows[i].parent_id \in Kept
  <2> SUFFICES ASSUME NEW i \in Kept, rows[i].parent_id # None, rows[i].parent_id \notin Kept
               PROVE  FALSE
    OBVIOUS
  <2>1. rows[i].parent_id \in Present /\ rows[rows[i].parent_id].parent_id = None
    BY <1>3, <1>10 DEF IInv, ThreadFlat
  <2>2. rows[i].parent_id \in PastGrace
    BY <1>3, <1>9, <2>1 DEF Kept, Purged
  <2> QED BY <2>2 DEF Kept, Purged
<1>12. LinksIntact'
  <2>1. ASSUME NEW i \in Kept,
               NEW j \in {rows[i].supersedes, rows[i].superseded_by, rows[i].parent_id} \ {None}
        PROVE  j \in Kept /\ rows[j].tenant = rows[i].tenant
    <3>1. j \in Present /\ rows[j].tenant = rows[i].tenant
      BY <1>3, <1>10, <2>1
    <3>2. j \in {rows[i].supersedes, rows[i].superseded_by} => j \in Kept
      BY <1>2, <3>1 DEF PurgeAllowed, Kept
    <3> QED BY <1>11, <2>1, <3>1, <3>2
  <2>2. \A k \in DOMAIN slugs : slugs[k] \in Kept
    BY <1>2 DEF IInv, LinksIntact, PurgeAllowed, Kept
  <2>3. \A r \in refs' : r[1] \in Kept /\ r[2] \in Kept
    BY <1>2 DEF IInv, LinksIntact, PurgeAllowed, Kept
  <2> QED BY <1>2, <1>3, <1>6, <2>1, <2>2, <2>3 DEF LinksIntact
<1>13. ThreadFlat'
  BY <1>3, <1>6, <1>11 DEF IInv, ThreadFlat
<1>14. TxInv'
  <2>1. nextId' \in Nat /\ nextId <= nextId'
    BY <1>2, StoreAssumption DEF IInv, TypeOK
  <2> QED BY <1>2, <1>3, <1>6, <2>1, TxStable
<1> QED BY <1>7, <1>8, <1>12, <1>13, <1>14 DEF IInv

\* Every step keeps the invariant.
LEMMA NextInv == IInv /\ [Next]_vars => IInv'
<1> SUFFICES ASSUME IInv, [Next]_vars PROVE IInv'
  OBVIOUS
<1>1. CASE UNCHANGED vars
  BY <1>1 DEF vars, IInv, TypeOK, RowsAllocated, LinksIntact, ThreadFlat, TxInv, Present
<1>2. ASSUME NEW c \in Clients, ClientStep(c) PROVE IInv'
  BY <1>2, WriteBeginInv, UpdateBeginInv, DeleteBeginInv, PlainCommitInv, InsertInv,
     SupersedeInv, DeleteInv DEF ClientStep
<1>3. CASE ExpireTransient \/ NewDay
  BY <1>3, ExpireInv
<1>4. CASE RetentionMemories
  BY <1>4, RetentionInv
<1> QED BY <1>1, <1>2, <1>3, <1>4 DEF Next

\* Type correctness of the store.
THEOREM TypeCorrect == Spec => []TypeOK
<1>1. IInv => TypeOK
  BY DEF IInv
<1> QED BY InitInv, NextInv, <1>1, PTL DEF Spec

\* Whatever interleaving of tool calls, purges and expiries happens, no link,
\* slug or citation dangles and no version or thread link crosses a tenant.
THEOREM LinkIntegrity == Spec => []LinksIntact
<1>1. IInv => LinksIntact
  BY DEF IInv
<1> QED BY InitInv, NextInv, <1>1, PTL DEF Spec

\* Replies never have replies.
THEOREM FlatThreads == Spec => []ThreadFlat
<1>1. IInv => ThreadFlat
  BY DEF IInv
<1> QED BY InitInv, NextInv, <1>1, PTL DEF Spec

\* No step removes a root that memory_undelete would still accept.
LEMMA PurgeStep ==
    ASSUME IInv, [Next]_vars,
           NEW i \in DOMAIN rows \ DOMAIN rows', rows[i].parent_id = None
    PROVE  Deleted(i) /\ ~WithinGrace(rows[i].deleted_at, today)
<1>1. CASE RetentionMemories
  <2>1. i \in Present \ Kept
    BY <1>1 DEF RetentionMemories, Present
  <2>2. i \in PastGrace
    BY <2>1 DEF Kept, Purged, PastGrace, IInv, TypeOK, Present, Ids, None
  <2>3. rows[i].deleted_at.day \in Nat /\ today \in Nat /\ Grace \in Nat
    BY StoreAssumption DEF IInv, TypeOK, Row, Timestamp
  <2> QED BY <2>2, <2>3 DEF PastGrace, WithinGrace
<1>2. CASE UNCHANGED rows
  BY <1>2
<1>3. ASSUME NEW c \in Clients, ClientStep(c) PROVE DOMAIN rows \subseteq DOMAIN rows'
  <2>1. CASE UNCHANGED rows
    BY <2>1
  <2>2. CASE \/ InsertCommit(c) \/ NewVersionCommit(c) \/ InPlaceCommit(c) \/ SupersedeCommit(c)
             \/ DeleteCommit(c) \/ CascadeCommit(c) \/ UndeleteCommit(c)
    BY <2>2 DEF InsertCommit, NewVersionCommit, Insert, InPlaceCommit, SupersedeCommit,
                DeleteCommit, CascadeCommit, UndeleteCommit, Present
  <2> QED BY <1>3, <2>1, <2>2 DEF ClientStep, WriteBegin, ReplyBegin, WriteSupersedesBegin,
             UpdateBegin, SupersedeBegin, DeleteBegin, UndeleteBegin, MergeCommit, Rollback, Begin
<1>4. CASE ExpireTransient
  BY <1>4 DEF ExpireTransient, Present
<1> QED BY <1>1, <1>2, <1>3, <1>4 DEF Next, NewDay, vars

\* The purge and undelete agree on the 30 days for every root.
THEOREM GraceHonoured == Spec => PurgeSparesUndeletable
<1>1. IInv /\ [Next]_vars =>
        [\A i \in DOMAIN rows \ DOMAIN rows' :
           rows[i].parent_id = None => Deleted(i) /\ ~WithinGrace(rows[i].deleted_at, today)]_vars
  BY PurgeStep
<1> QED BY InitInv, NextInv, <1>1, PTL DEF Spec, PurgeSparesUndeletable

----------------------------------------------------------------------------
(* Induction up to a bound, over a set instead of a predicate.               *)

LEMMA UpTo ==
    ASSUME NEW N \in Nat, NEW S, 0 \in S, \A n \in 0 .. N - 1 : n \in S => n + 1 \in S
    PROVE  \A n \in 0 .. N : n \in S
<1> SUFFICES ASSUME NEW x \in 0 .. N, x \notin S
             PROVE  FALSE
  OBVIOUS
<1> DEFINE T == {n \in Nat : n <= N /\ n \notin S}
<1>1. T # {} /\ T \subseteq Nat
  OBVIOUS
<1>2. PICK n \in T : \A m \in T : <<m, n>> \notin OpToRel(<, Nat)
  BY <1>1, NatLessThanWellFounded, WFMin
<1>3. n \in T /\ \A m \in T : ~(m < n)
  BY <1>2 DEF OpToRel
<1>4. n \in 0 .. N /\ n \notin S /\ n # 0
  BY <1>3
<1>5. n - 1 \in 0 .. N - 1 /\ n - 1 < n /\ n - 1 \in 0 .. N
  BY <1>4
<1>6. n - 1 \in S
  BY <1>3, <1>5
<1>7. (n - 1) + 1 = n
  BY <1>4
<1> QED BY <1>4, <1>5, <1>6, <1>7

\* A function can be iterated.
Iteration(T, F, a, N, f) ==
    /\ f \in [0 .. N -> T]
    /\ f[0] = a /\ \A k \in 1 .. N : f[k] = F[f[k - 1]]
LEMMA Iterates ==
    ASSUME NEW T, NEW a \in T, NEW F \in [T -> T], NEW N \in Nat
    PROVE  \E f : Iteration(T, F, a, N, f)
<1> DEFINE Iter(n, f) == f[0] = a /\ \A k \in 1 .. n : f[k] = F[f[k - 1]]
           S == {n \in Nat : \E f \in [0 .. n -> T] : Iter(n, f)}
<1>1. 0 \in S
  <2>1. [i \in 0 .. 0 |-> a] \in [0 .. 0 -> T] /\ Iter(0, [i \in 0 .. 0 |-> a])
    OBVIOUS
  <2> QED BY <2>1
<1>2. ASSUME NEW n \in 0 .. N - 1, n \in S PROVE n + 1 \in S
  <2>1. PICK f \in [0 .. n -> T] : Iter(n, f)
    BY <1>2
  <2>2. PICK g : g = [k \in 0 .. n + 1 |-> IF k = n + 1 THEN F[f[n]] ELSE f[k]]
    OBVIOUS
  <2>3. \A k \in 0 .. n : g[k] = f[k]
    BY <2>2
  <2>4. g[n + 1] = F[f[n]] /\ (n + 1) - 1 = n /\ f[n] \in T
    BY <2>1, <2>2
  <2>5. g \in [0 .. n + 1 -> T]
    BY <2>1, <2>2, <2>4
  <2>6. ASSUME NEW k \in 1 .. n + 1 PROVE g[k] = F[g[k - 1]]
    <3>1. CASE k = n + 1
      BY <2>3, <2>4, <3>1
    <3>2. CASE k # n + 1
      <4>1. k \in 1 .. n /\ k \in 0 .. n /\ k - 1 \in 0 .. n
        BY <3>2
      <4> QED BY <4>1, <2>1, <2>3
    <3> QED BY <3>1, <3>2
  <2>7. Iter(n + 1, g)
    BY <2>1, <2>3, <2>6
  <2>8. n + 1 \in Nat
    OBVIOUS
  <2> QED BY <2>5, <2>7, <2>8
<1>3. \A n \in 0 .. N : n \in S
  BY <1>1, <1>2, UpTo
<1>4. N \in S
  BY <1>3
<1> QED BY <1>4 DEF Iteration

LEMMA Largest ==
    ASSUME NEW S \in SUBSET Nat, S # {}, NEW b \in Nat, \A i \in S : i <= b
    PROVE  \E i \in S : \A j \in S : j <= i
<1> DEFINE T == {n \in Nat : b - n \in S}
<1>1. T # {} /\ T \subseteq Nat
  <2>1. PICK i \in S : TRUE
    OBVIOUS
  <2>2. b - i \in Nat /\ b - (b - i) = i
    BY <2>1
  <2> QED BY <2>1, <2>2
<1>2. PICK n \in T : \A m \in T : <<m, n>> \notin OpToRel(<, Nat)
  BY <1>1, NatLessThanWellFounded, WFMin
<1>3. \A m \in T : ~(m < n)
  BY <1>2 DEF OpToRel
<1>4. ASSUME NEW j \in S PROVE j <= b - n
  <2>1. b - j \in T
    BY b - j \in Nat /\ b - (b - j) = j
  <2>2. ~(b - j < n) /\ n \in Nat
    BY <1>3, <2>1
  <2> QED BY <2>2
<1> QED BY <1>2, <1>4

----------------------------------------------------------------------------
(* What a call knows of the rows it read.                                   *)

BeginStep(c) ==
    \/ WriteBegin(c) \/ ReplyBegin(c) \/ WriteSupersedesBegin(c)
    \/ UpdateBegin(c) \/ SupersedeBegin(c) \/ DeleteBegin(c) \/ UndeleteBegin(c)

CommitStep(c) ==
    \/ MergeCommit(c) \/ InsertCommit(c) \/ NewVersionCommit(c) \/ InPlaceCommit(c)
    \/ SupersedeCommit(c) \/ DeleteCommit(c) \/ CascadeCommit(c) \/ UndeleteCommit(c)
    \/ Rollback(c)

ReadMerge(c, t) ==
    /\ t.op = "merge" /\ t.slug = FALSE /\ t.id \in LiveRows(c) /\ rows[t.id].is_current
    /\ \/ rows[t.id].content = t.content
       \/ <<rows[t.id].content, t.content>> \in Similar
ReadInsert(c, t) ==
    /\ t.op = "insert" /\ t.id = None /\ \E ttl \in TTLs : t.expires = ExpiresIn(ttl)
ReadVersion(c, t) ==
    /\ t.op = "new_version" /\ t.id \in LiveRows(c) /\ t.other = None
    /\ {"write_supersedes", "update"} \subseteq OnlyCurrent => rows[t.id].is_current
    /\ t.expires = 0 \/ \E ttl \in TTLs : t.expires = ExpiresIn(ttl)
ReadInPlace(c, t) ==
    /\ t.op = "in_place" /\ t.id \in LiveRows(c)
    /\ t.flag => rows[t.id].type \notin VERSIONED_TYPES
ReadSupersede(c, t) == t.op = "supersede" /\ "supersede" \in Ops
ReadDelete(c, t) ==
    /\ t.op \in {"delete", "cascade"} \cap Ops /\ t.id \in LiveRows(c) /\ t.stamp # 0
    /\ "delete" \in OnlyCurrent => rows[t.id].is_current
    /\ t.other = PriorVersion(t.id)
ReadUndelete(c, t) ==
    /\ t.op = "undelete" /\ "undelete" \in Ops /\ t.id \in Visible(c) /\ Deleted(t.id)
    /\ t.seen = rows[t.id].deleted_at /\ (t.root <=> rows[t.id].parent_id = None)

Reads(c, t) ==
    \/ ReadMerge(c, t) \/ ReadInsert(c, t) \/ ReadVersion(c, t) \/ ReadInPlace(c, t)
    \/ ReadSupersede(c, t) \/ ReadDelete(c, t) \/ ReadUndelete(c, t)

\* Begin stores the record it is given and the day.
LEMMA BeginSets ==
    ASSUME IInv, NEW c \in Clients, NEW t \in Tx, Begin(c, t)
    PROVE  /\ UNCHANGED <<rows, slugs, refs, nextId, today, withRoot>>
           /\ \A d \in Clients \ {c} : tx'[d] = tx[d]
           /\ tx'[c] = [t EXCEPT !.day = today]
BY DEF Begin, IInv, TypeOK

\* The day is none of the facts that were read.
LEMMA ReadsDay ==
    ASSUME NEW c \in Clients, NEW t \in Tx, NEW day, Reads(c, t)
    PROVE  Reads(c, [t EXCEPT !.day = day]) /\ [t EXCEPT !.day = day].day = day
<1> PICK u : u = [t EXCEPT !.day = day]
  OBVIOUS
<1>1. /\ u.op = t.op /\ u.id = t.id /\ u.other = t.other /\ u.content = t.content
      /\ u.expires = t.expires /\ u.stamp = t.stamp /\ u.seen = t.seen /\ u.day = day
  BY DEF Tx
<1>2. (u.flag = t.flag) /\ (u.root = t.root) /\ (u.slug = t.slug)
  BY DEF Tx
<1>3. Reads(c, u)
  BY <1>1, <1>2 DEF Reads, ReadMerge, ReadInsert, ReadVersion, ReadInPlace, ReadSupersede,
     ReadDelete, ReadUndelete
<1> QED BY <1>1, <1>3

\* The record a begin step stores is what it has read.
LEMMA BeginRecord ==
    ASSUME IInv, NEW c \in Clients, BeginStep(c)
    PROVE  \E t \in Tx : Begin(c, t) /\ Reads(c, t)
<1>1. ASSUME NEW dup, NEW ty \in Types, NEW x \in Contents, dup \in DedupeResults(c, ty, x), dup # None
      PROVE  LET t == [Idle EXCEPT !.op = "merge", !.id = dup, !.content = x]
             IN  t \in Tx /\ Reads(c, t)
  <2>1. PICK t : t = [Idle EXCEPT !.op = "merge", !.id = dup, !.content = x]
    OBVIOUS
  <2>2. dup \in LiveRows(c) /\ dup \in Ids
    BY <1>1, LookupFacts
  <2>3. t \in Tx /\ t.id = dup /\ t.op = "merge" /\ t.content = x /\ t.slug = FALSE
    BY <2>1, <2>2, IdleType DEF Tx, Idle, IdOrNone
  <2>4. /\ rows[dup].is_current
        /\ rows[dup].content = x \/ <<rows[dup].content, x>> \in Similar
    BY <1>1 DEF DedupeResults, check_dup
  <2> QED BY <2>1, <2>2, <2>3, <2>4 DEF Reads, ReadMerge
<1>2. CASE WriteBegin(c)
  <2>1. PICK ty \in Types, x \in Contents, ttl \in TTLs, r \in Citable(c) :
          \E dup \in DedupeResults(c, ty, x) :
          \/ dup # None /\ Begin(c, [Idle EXCEPT !.op = "merge", !.id = dup, !.content = x])
          \/ Begin(c, [Idle EXCEPT !.op = "insert", !.type = ty, !.content = x,
                         !.version = 1, !.expires = ExpiresIn(ttl), !.cites = r,
                         !.slug = (ty \in VERSIONED_TYPES)])
    BY <1>2 DEF WriteBegin
  <2>2. PICK dup \in DedupeResults(c, ty, x) :
          \/ dup # None /\ Begin(c, [Idle EXCEPT !.op = "merge", !.id = dup, !.content = x])
          \/ Begin(c, [Idle EXCEPT !.op = "insert", !.type = ty, !.content = x,
                         !.version = 1, !.expires = ExpiresIn(ttl), !.cites = r,
                         !.slug = (ty \in VERSIONED_TYPES)])
    BY <2>1
  <2>3. PICK b \in BOOLEAN : b = (ty \in VERSIONED_TYPES)
    <3>1. (ty \in VERSIONED_TYPES) \in BOOLEAN
      OBVIOUS
    <3> QED BY <3>1, Zenon
  <2>4. ExpiresIn(ttl) \in Nat /\ r \in IdOrNone
    BY ExpiryType, LookupFacts DEF IdOrNone
  <2>5. PICK t : t = [Idle EXCEPT !.op = "insert", !.type = ty, !.content = x,
                        !.version = 1, !.expires = ExpiresIn(ttl), !.cites = r, !.slug = b]
    OBVIOUS
  <2>6. t \in Tx /\ t.id = None /\ t.op = "insert" /\ t.expires = ExpiresIn(ttl)
    BY <2>4, <2>5, IdleType DEF Tx, Idle
  <2>7. CASE dup # None /\ Begin(c, [Idle EXCEPT !.op = "merge", !.id = dup, !.content = x])
    BY <1>1, <2>2, <2>7
  <2>8. CASE Begin(c, [Idle EXCEPT !.op = "insert", !.type = ty, !.content = x,
                         !.version = 1, !.expires = ExpiresIn(ttl), !.cites = r,
                         !.slug = (ty \in VERSIONED_TYPES)])
    <3>1. Begin(c, t)
      BY <2>3, <2>5, <2>8, Zenon
    <3> QED BY <2>6, <3>1 DEF Reads, ReadInsert
  <2> QED BY <2>2, <2>7, <2>8
<1>3. CASE ReplyBegin(c)
  <2>1. PICK p \in LiveRows(c), ty \in Types, x \in Contents, ttl \in TTLs, r \in Citable(c) :
          Begin(c, [Idle EXCEPT !.op = "insert", !.other = p, !.type = ty, !.content = x,
                         !.version = 1, !.expires = ExpiresIn(ttl), !.cites = r])
    BY <1>3 DEF ReplyBegin
  <2>2. PICK t : t = [Idle EXCEPT !.op = "insert", !.other = p, !.type = ty, !.content = x,
                         !.version = 1, !.expires = ExpiresIn(ttl), !.cites = r]
    OBVIOUS
  <2>3. ExpiresIn(ttl) \in Nat /\ r \in IdOrNone /\ p \in IdOrNone
    BY ExpiryType, LookupFacts DEF IdOrNone
  <2>4. t \in Tx /\ t.id = None /\ t.op = "insert" /\ t.expires = ExpiresIn(ttl)
    BY <2>2, <2>3, IdleType DEF Tx, Idle
  <2> QED BY <2>1, <2>2, <2>4 DEF Reads, ReadInsert
<1>4. CASE WriteSupersedesBegin(c)
  <2>1. PICK old \in Targets(c, "write_supersedes"), x \in Contents, ttl \in TTLs, r \in Citable(c) :
          \E dup \in DedupeResults(c, rows[old].type, x) :
          \/ dup # None /\ Begin(c, [Idle EXCEPT !.op = "merge", !.id = dup, !.content = x])
          \/ Begin(c, [Idle EXCEPT !.op = "new_version", !.id = old, !.type = rows[old].type,
                         !.content = x, !.version = rows[old].version + 1,
                         !.expires = ExpiresIn(ttl), !.cites = r, !.slug = TRUE])
    BY <1>4 DEF WriteSupersedesBegin
  <2>2. PICK dup \in DedupeResults(c, rows[old].type, x) :
          \/ dup # None /\ Begin(c, [Idle EXCEPT !.op = "merge", !.id = dup, !.content = x])
          \/ Begin(c, [Idle EXCEPT !.op = "new_version", !.id = old, !.type = rows[old].type,
                         !.content = x, !.version = rows[old].version + 1,
                         !.expires = ExpiresIn(ttl), !.cites = r, !.slug = TRUE])
    BY <2>1
  <2>3. /\ ExpiresIn(ttl) \in Nat /\ r \in IdOrNone
        /\ old \in LiveRows(c) /\ old \in IdOrNone /\ rows[old] \in Row
        /\ "write_supersedes" \in OnlyCurrent => rows[old].is_current
    BY ExpiryType, LookupFacts DEF IdOrNone, Targets
  <2>4. rows[old].type \in Types /\ rows[old].version + 1 \in Nat
    BY <2>3 DEF Row
  <2>5. PICK t : t = [Idle EXCEPT !.op = "new_version", !.id = old, !.type = rows[old].type,
                         !.content = x, !.version = rows[old].version + 1,
                         !.expires = ExpiresIn(ttl), !.cites = r, !.slug = TRUE]
    OBVIOUS
  <2>6. t \in Tx /\ t.id = old /\ t.other = None /\ t.op = "new_version" /\ t.expires = ExpiresIn(ttl)
    BY <2>3, <2>4, <2>5, IdleType DEF Tx, Idle
  <2>7. CASE dup # None /\ Begin(c, [Idle EXCEPT !.op = "merge", !.id = dup, !.content = x])
    BY <1>1, <2>2, <2>4, <2>7
  <2>8. CASE Begin(c, t)
    <3>1. ReadVersion(c, t)
      BY <2>3, <2>6 DEF ReadVersion
    <3> QED BY <2>6, <2>8, <3>1 DEF Reads
  <2> QED BY <2>2, <2>5, <2>7, <2>8
<1>5. CASE UpdateBegin(c)
  <2>1. PICK i \in Targets(c, "update"), ty \in Types, x \in Contents :
          LET old == rows[i] IN
          \/ \E v \in {old.version + 1, 1} :
                Begin(c, [Idle EXCEPT !.op = "new_version", !.id = i, !.type = ty,
                            !.content = x, !.version = v])
          \/ /\ ~NewVersionPath(old.type, ty, x # old.content)
             /\ Begin(c, [Idle EXCEPT !.op = "in_place", !.id = i, !.type = ty,
                         !.content = x, !.flag = (x # old.content)])
    BY <1>5 DEF UpdateBegin
  <2>2. /\ i \in LiveRows(c) /\ i \in IdOrNone /\ rows[i] \in Row
        /\ {rows[i].version + 1, 1} \subseteq Nat
        /\ "update" \in OnlyCurrent => rows[i].is_current
    BY LookupFacts DEF IdOrNone, Row, Targets
  <2>3. ASSUME NEW v \in Nat,
               Begin(c, [Idle EXCEPT !.op = "new_version", !.id = i, !.type = ty,
                           !.content = x, !.version = v])
        PROVE  \E t \in Tx : Begin(c, t) /\ Reads(c, t)
    <3>1. PICK t : t = [Idle EXCEPT !.op = "new_version", !.id = i, !.type = ty,
                          !.content = x, !.version = v]
      OBVIOUS
    <3>2. t \in Tx /\ t.id = i /\ t.other = None /\ t.op = "new_version" /\ t.expires = 0
      BY <2>2, <3>1, IdleType DEF Tx, Idle
    <3>3. ReadVersion(c, t)
      BY <2>2, <3>2 DEF ReadVersion
    <3> QED BY <2>3, <3>1, <3>2, <3>3 DEF Reads
  <2>4. ASSUME ~NewVersionPath(rows[i].type, ty, x # rows[i].content),
               Begin(c, [Idle EXCEPT !.op = "in_place", !.id = i, !.type = ty,
                           !.content = x, !.flag = (x # rows[i].content)])
        PROVE  \E t \in Tx : Begin(c, t) /\ Reads(c, t)
    <3>1. PICK b \in BOOLEAN : b = (x # rows[i].content)
      BY Zenon
    <3>2. PICK t : t = [Idle EXCEPT !.op = "in_place", !.id = i, !.type = ty,
                          !.content = x, !.flag = b]
      OBVIOUS
    <3>3. t \in Tx /\ t.id = i /\ t.op = "in_place" /\ (t.flag = b)
      BY <2>2, <3>2, IdleType DEF Tx, Idle
    <3>4. Begin(c, t)
      BY <2>4, <3>1, <3>2, Zenon
    <3>5. b => rows[i].type \notin VERSIONED_TYPES
      BY <2>4, <3>1, Zenon DEF NewVersionPath
    <3>6. ReadInPlace(c, t)
      BY <2>2, <3>3, <3>5 DEF ReadInPlace
    <3> QED BY <3>3, <3>4, <3>6 DEF Reads
  <2> QED BY <2>1, <2>2, <2>3, <2>4
<1>6. CASE SupersedeBegin(c)
  <2>1. PICK old \in LiveRows(c), new \in LiveRows(c) :
          Begin(c, [Idle EXCEPT !.op = "supersede", !.id = old, !.other = new,
                      !.version = rows[old].version + 1])
    BY <1>6 DEF SupersedeBegin
  <2>2. PICK t : t = [Idle EXCEPT !.op = "supersede", !.id = old, !.other = new,
                      !.version = rows[old].version + 1]
    OBVIOUS
  <2>3. old \in IdOrNone /\ new \in IdOrNone /\ rows[old].version + 1 \in Nat
    BY LookupFacts DEF IdOrNone, Row
  <2>4. t \in Tx /\ t.op = "supersede"
    BY <2>2, <2>3, IdleType DEF Tx, Idle
  <2> QED BY <1>6, <2>1, <2>2, <2>4 DEF Reads, ReadSupersede, SupersedeBegin
<1>7. CASE DeleteBegin(c)
  <2>1. PICK i \in Targets(c, "delete"), s \in 1..MaxStamp, mode \in {"delete", "cascade"} \cap Ops :
          Begin(c, [Idle EXCEPT !.op = mode, !.id = i, !.stamp = s, !.other = PriorVersion(i),
                      !.root = (rows[i].parent_id = None)])
    BY <1>7 DEF DeleteBegin
  <2>2. /\ i \in LiveRows(c) /\ i \in Present /\ i \in IdOrNone /\ s \in Nat /\ s # 0 /\ rows[i] \in Row
        /\ "delete" \in OnlyCurrent => rows[i].is_current
    BY LookupFacts, StoreAssumption DEF IdOrNone, Targets
  <2>3. PriorVersion(i) \in IdOrNone
    BY <2>2 DEF PriorVersion, Row, IdOrNone
  <2>4. PICK b \in BOOLEAN : b = (rows[i].parent_id = None)
    BY Zenon
  <2>5. PICK t : t = [Idle EXCEPT !.op = mode, !.id = i, !.stamp = s, !.other = PriorVersion(i),
                        !.root = b]
    OBVIOUS
  <2>6. t \in Tx /\ t.id = i /\ t.op = mode /\ t.stamp = s /\ t.other = PriorVersion(i)
    BY <2>2, <2>3, <2>5, IdleType DEF Tx, Idle
  <2>7. Begin(c, t)
    BY <2>1, <2>4, <2>5, Zenon
  <2>8. ReadDelete(c, t)
    BY <2>1, <2>2, <2>6 DEF ReadDelete
  <2> QED BY <2>6, <2>7, <2>8 DEF Reads
<1>8. CASE UndeleteBegin(c)
  <2>1. PICK i \in Visible(c) :
          /\ Deleted(i)
          /\ Begin(c, [Idle EXCEPT !.op = "undelete", !.id = i,
                      !.flag = ~(rows[i].type \in VERSIONED_TYPES /\ CurrentNeighbour(i)),
                      !.root = (rows[i].parent_id = None), !.seen = rows[i].deleted_at])
    BY <1>8 DEF UndeleteBegin
  <2>2. i \in IdOrNone /\ rows[i].deleted_at \in Timestamp
    BY LookupFacts DEF IdOrNone, Row
  <2>3. PICK b \in BOOLEAN : b = (rows[i].parent_id = None)
    BY Zenon
  <2>4. PICK f \in BOOLEAN : f = ~(rows[i].type \in VERSIONED_TYPES /\ CurrentNeighbour(i))
    BY Zenon
  <2>5. PICK t : t = [Idle EXCEPT !.op = "undelete", !.id = i, !.flag = f, !.root = b,
                        !.seen = rows[i].deleted_at]
    OBVIOUS
  <2>6. t \in Tx /\ t.id = i /\ t.op = "undelete" /\ t.seen = rows[i].deleted_at /\ (t.root = b)
    BY <2>2, <2>5, IdleType DEF Tx, Idle
  <2>7. Begin(c, t)
    BY <2>1, <2>3, <2>4, <2>5, Zenon
  <2>8. ReadUndelete(c, t)
    <3>1. t.root <=> rows[i].parent_id = None
      BY <2>3, <2>6, Zenon
    <3> QED BY <1>8, <2>1, <2>6, <3>1 DEF ReadUndelete, UndeleteBegin
  <2> QED BY <2>6, <2>7, <2>8 DEF Reads
<1> QED BY <1>2, <1>3, <1>4, <1>5, <1>6, <1>7, <1>8 DEF BeginStep

LEMMA BeginReads ==
    ASSUME IInv, NEW c \in Clients, BeginStep(c)
    PROVE  /\ UNCHANGED <<rows, slugs, refs, nextId, today, withRoot>>
           /\ \A d \in Clients \ {c} : tx'[d] = tx[d]
           /\ Reads(c, tx'[c]) /\ tx'[c].day = today
<1>1. PICK t \in Tx : Begin(c, t) /\ Reads(c, t)
  BY BeginRecord
<1>2. PICK u : u = [t EXCEPT !.day = today]
  OBVIOUS
<1>3. Reads(c, u) /\ u.day = today
  BY <1>1, <1>2, ReadsDay
<1>4. /\ UNCHANGED <<rows, slugs, refs, nextId, today, withRoot>>
      /\ \A d \in Clients \ {c} : tx'[d] = tx[d]
      /\ tx'[c] = u
  BY <1>1, <1>2, BeginSets
<1> QED BY <1>3, <1>4

\* A commit ends its call.
LEMMA CommitEnds ==
    ASSUME IInv, NEW c \in Clients, CommitStep(c)
    PROVE  tx'[c] = Idle /\ \A d \in Clients \ {c} : tx'[d] = tx[d]
<1>1. End(c)
  BY DEF CommitStep, MergeCommit, InsertCommit, NewVersionCommit, InPlaceCommit, SupersedeCommit,
         DeleteCommit, CascadeCommit, UndeleteCommit, Rollback
<1> QED BY <1>1 DEF End, IInv, TypeOK

----------------------------------------------------------------------------
(* Replies come back with their root.                                       *)

\* The walk of the cascade starts at its target.
LEMMA WalkDef ==
    ASSUME IInv, NEW i \in Present
    PROVE  /\ Walk(i)[0] = i
           /\ \A k \in 1 .. MaxId :
                 LET p == IF Walk(i)[k - 1] \in Present THEN rows[Walk(i)[k - 1]].supersedes ELSE None
                 IN  Walk(i)[k] = IF Live(p) THEN p ELSE None
<1> DEFINE Before(j) == LET p == IF j \in Present THEN rows[j].supersedes ELSE None
                        IN  IF Live(p) THEN p ELSE None
           Sol(w) == w = [n \in 0 .. MaxId |-> IF n = 0 THEN i ELSE Before(w[n - 1])]
<1>0. MaxId \in Nat /\ i \in IdOrNone /\ i # None
  BY StoreAssumption DEF IInv, TypeOK, Present, IdOrNone, Ids, None
<1>1. PICK F : F = [j \in IdOrNone |-> Before(j)]
  OBVIOUS
<1>2. F \in [IdOrNone -> IdOrNone]
  BY <1>1 DEF Live, Present, IInv, TypeOK, IdOrNone
<1> HIDE DEF Before, Sol
<1>3. PICK f \in [0 .. MaxId -> IdOrNone] :
         f[0] = i /\ \A k \in 1 .. MaxId : f[k] = F[f[k - 1]]
  <2>1. \E f : Iteration(IdOrNone, F, i, MaxId, f)
    BY <1>0, <1>2, Iterates
  <2> QED BY <2>1 DEF Iteration
<1>4. ASSUME NEW k \in 1 .. MaxId PROVE f[k] = Before(f[k - 1])
  <2>1. k - 1 \in 0 .. MaxId
    BY <1>0
  <2> QED BY <1>1, <1>3, <2>1
<1>5. Sol(f)
  BY <1>0, <1>3, <1>4 DEF Sol
<1>6. Walk(i) = CHOOSE w : Sol(w)
  BY DEF Walk, Before, Sol
<1>7. Sol(Walk(i))
  BY <1>5, <1>6
<1>8. PICK g : g = Walk(i)
  OBVIOUS
<1>9. g[0] = i /\ \A k \in 1 .. MaxId : g[k] = Before(g[k - 1])
  BY <1>0, <1>7, <1>8 DEF Sol
<1> QED BY <1>8, <1>9 DEF Before

LEMMA WalkStarts ==
    ASSUME IInv, NEW i \in Present
    PROVE  i \in Chain(i)
<1>1. MaxId \in Nat /\ i # None
  BY StoreAssumption DEF IInv, TypeOK, Present, Ids, None
<1>2. Walk(i)[0] = i
  BY WalkDef
<1> QED BY <1>1, <1>2 DEF Chain

\* A walk that ends has gone on to the live predecessor of every row it has met.
LEMMA WalkGoesOn ==
    ASSUME IInv, NEW i \in Present, WalkEnds(i), NEW k \in Chain(i), k \in Present,
           Live(rows[k].supersedes)
    PROVE  rows[k].supersedes \in Chain(i)
<1>0. MaxId \in Nat /\ None \notin Present
  BY StoreAssumption DEF IInv, TypeOK, Present, Ids, None
<1>1. PICK g : g = Walk(i)
  OBVIOUS
<1>2. \A n \in 1 .. MaxId :
         LET p == IF g[n - 1] \in Present THEN rows[g[n - 1]].supersedes ELSE None
         IN  g[n] = IF Live(p) THEN p ELSE None
  BY <1>1, WalkDef
<1>3. PICK n \in 0 .. MaxId : g[n] = k
  BY <1>1 DEF Chain
<1>4. n # MaxId
  BY <1>0, <1>1, <1>3 DEF WalkEnds
<1>5. n + 1 \in 1 .. MaxId /\ n + 1 \in 0 .. MaxId /\ (n + 1) - 1 = n
  BY <1>0, <1>4
<1>6. g[n + 1] = rows[k].supersedes
  BY <1>2, <1>3, <1>5
<1>7. rows[k].supersedes # None
  BY <1>0 DEF Live
<1> QED BY <1>1, <1>5, <1>6, <1>7 DEF Chain

\* A reply deleted with its root is still deleted, at the root's own deleted_at.
\* A call that deletes finds no such reply of its target, for the target was live;
\* one that restores still finds the deleted_at it has read.
SameDeletion(j) ==
    /\ j \in Present /\ rows[j].parent_id \in Present
    /\ Deleted(j) /\ rows[rows[j].parent_id].deleted_at = rows[j].deleted_at
ThreadCall(c) ==
    /\ tx[c].op \in {"delete", "cascade"} =>
          tx[c].stamp # 0 /\ \A j \in withRoot : rows[j].parent_id # tx[c].id
    /\ tx[c].op = "undelete" /\ tx[c].id \in Present =>
          /\ Deleted(tx[c].id) /\ rows[tx[c].id].deleted_at = tx[c].seen
          /\ tx[c].root <=> rows[tx[c].id].parent_id = None
ThreadInv == (\A j \in withRoot : SameDeletion(j)) /\ \A c \in Clients : ThreadCall(c)

\* Steps that leave soft-deleted rows as they are, or purge them.
KeepsDeletions ==
    \/ UNCHANGED rows \/ ExpireTransient \/ RetentionMemories
    \/ \E c \in Clients : \/ InsertCommit(c) \/ NewVersionCommit(c) \/ InPlaceCommit(c)
                           \/ SupersedeCommit(c)

LEMMA DeletionKept ==
    ASSUME IInv, NEW j \in Present, Deleted(j), j \in Present', KeepsDeletions
    PROVE  rows'[j].deleted_at = rows[j].deleted_at /\ rows'[j].parent_id = rows[j].parent_id
<1>0. rows[j] \in Row /\ ~Live(j)
  BY DEF IInv, TypeOK, Present, Live
<1>1. CASE UNCHANGED rows
  BY <1>1
<1>2. ASSUME NEW c \in Clients, InsertCommit(c) PROVE rows'[j] = rows[j]
  <2>1. j # nextId
    BY StoreAssumption DEF IInv, RowsAllocated, TypeOK
  <2> QED BY <1>2, <2>1 DEF InsertCommit, Insert
<1>3. ASSUME NEW c \in Clients, NewVersionCommit(c)
      PROVE  rows'[j].deleted_at = rows[j].deleted_at /\ rows'[j].parent_id = rows[j].parent_id
  <2>1. j # nextId
    BY StoreAssumption DEF IInv, RowsAllocated, TypeOK
  <2>2. rows'[j] = rows[j] \/ rows'[j] = Superseded(rows[j], nextId)
    BY <1>3, <2>1 DEF NewVersionCommit, Insert, Present
  <2> QED BY <1>0, <2>2 DEF Superseded, Row
<1>4. ASSUME NEW c \in Clients, InPlaceCommit(c)
      PROVE  rows'[j].deleted_at = rows[j].deleted_at /\ rows'[j].parent_id = rows[j].parent_id
  <2>1. PICK ty, x : rows'[j] = rows[j] \/ rows'[j] = [rows[j] EXCEPT !.type = ty, !.content = x]
    BY <1>4 DEF InPlaceCommit
  <2> QED BY <1>0, <2>1 DEF Row
<1>5. ASSUME NEW c \in Clients, SupersedeCommit(c)
      PROVE  rows'[j].deleted_at = rows[j].deleted_at /\ rows'[j].parent_id = rows[j].parent_id
  <2> DEFINE old == tx[c].id
             new == tx[c].other
             marked == [rows EXCEPT ![old] = Superseded(@, new)]
  <2>1. marked[j].deleted_at = rows[j].deleted_at /\ marked[j].parent_id = rows[j].parent_id
        /\ (marked[j] = rows[j] \/ marked[j] = Superseded(rows[j], new))
    BY <1>0 DEF Superseded, Row, Present
  <2>2. DOMAIN marked[j] = DOMAIN rows[j]
    BY <1>0, <2>1 DEF Superseded, Row
  <2>3. rows' = [marked EXCEPT ![new].supersedes = old, ![new].version = tx[c].version,
                               ![new].is_current = TRUE]
    BY <1>5 DEF SupersedeCommit
  <2>4. DOMAIN marked = Present
    BY DEF Present
  <2>5. \/ rows'[j] = marked[j]
        \/ rows'[j] = [marked[j] EXCEPT !.supersedes = old, !.version = tx[c].version,
                                        !.is_current = TRUE]
    BY <2>3, <2>4
  <2> HIDE DEF marked
  <2> QED BY <1>0, <2>1, <2>5, <2>2 DEF Row
<1>6. CASE ExpireTransient
  BY <1>0, <1>6 DEF ExpireTransient
<1>7. CASE RetentionMemories
  <2>1. Present' = Kept
    BY <1>7 DEF RetentionMemories, Present
  <2> QED BY <1>0, <1>7, <2>1 DEF RetentionMemories, PastRetention
<1> QED BY <1>1, <1>2, <1>3, <1>4, <1>5, <1>6, <1>7 DEF KeepsDeletions

\* What memory_undelete writes.
LEMMA UndeleteWrites ==
    ASSUME IInv, NEW c \in Clients, UndeleteCommit(c),
           NEW back, back = IF tx[c].root THEN DeletedWith(tx[c].id, tx[c].seen) ELSE {}
    PROVE  /\ tx[c].id \in Present /\ Present' = Present
           /\ withRoot' = withRoot \ ({tx[c].id} \cup back)
           /\ \A j \in Present : rows'[j].tenant = rows[j].tenant /\ rows'[j].parent_id = rows[j].parent_id
           /\ \A j \in Present \cap ({tx[c].id} \cup back) : rows'[j].deleted_at = Null
           /\ \A j \in Present \ ({tx[c].id} \cup back) : rows'[j] = rows[j]
<1>1. tx[c].id \in Present
  BY DEF UndeleteCommit
<1>2. Present' = Present
  BY DEF UndeleteCommit, Present
<1>3. withRoot' = withRoot \ ({tx[c].id} \cup back)
  BY Zenon DEF UndeleteCommit
<1>4. tx[c].id \notin back
  BY DEF DeletedWith
<1>5. ASSUME NEW j \in Present
      PROVE  /\ rows'[j].tenant = rows[j].tenant /\ rows'[j].parent_id = rows[j].parent_id
             /\ j \in {tx[c].id} \cup back => rows'[j].deleted_at = Null
             /\ j \notin {tx[c].id} \cup back => rows'[j] = rows[j]
  <2>1. rows[j] \in Row
    BY DEF IInv, TypeOK, Present
  <2>2. j = tx[c].id => rows'[j] = [rows[j] EXCEPT !.deleted_at = Null, !.is_current = tx[c].flag]
    BY <1>4 DEF UndeleteCommit
  <2>3. j # tx[c].id /\ j \in back => rows'[j] = [rows[j] EXCEPT !.deleted_at = Null, !.is_current = TRUE]
    BY <1>4 DEF UndeleteCommit
  <2>4. j \notin {tx[c].id} \cup back => rows'[j] = rows[j]
    BY <1>4 DEF UndeleteCommit
  <2> QED BY <2>1, <2>2, <2>3, <2>4 DEF Row
<1> QED BY <1>1, <1>2, <1>3, <1>5

\* Calls one after the other, and the jobs at any time, keep the facts about deleted
\* replies.
LEMMA ThreadStep ==
    ASSUME IInv, ThreadInv, [Next]_vars, \A c \in Clients, d \in Clients : c = d
    PROVE  ThreadInv'
<1>0. /\ \A i \in Present : rows[i] \in Row /\ i # None
      /\ \A i \in Present : rows[i].parent_id # None =>
            rows[i].parent_id \in Present /\ rows[rows[i].parent_id].parent_id = None
  BY DEF IInv, TypeOK, Present, Ids, None, LinksIntact, ThreadFlat
<1>1. IInv'
  BY NextInv
<1>2. \A i \in Present' : rows'[i].parent_id # None => rows'[i].parent_id \in Present'
  BY <1>1 DEF IInv, LinksIntact
<1>3. ASSUME withRoot' \subseteq withRoot, withRoot' \subseteq Present',
             KeepsDeletions
      PROVE  \A j \in withRoot' : SameDeletion(j)' /\ rows'[j].parent_id = rows[j].parent_id
  <2> TAKE j \in withRoot'
  <2>1. /\ j \in Present /\ Deleted(j) /\ j \in Present' /\ rows[j].parent_id \in Present
        /\ rows[rows[j].parent_id].deleted_at = rows[j].deleted_at
    BY <1>3 DEF ThreadInv, SameDeletion
  <2>2. rows'[j].deleted_at = rows[j].deleted_at /\ rows'[j].parent_id = rows[j].parent_id
    BY <1>3, <2>1, DeletionKept
  <2>3. PICK p \in Present : p = rows[j].parent_id
    BY <2>1
  <2>4. Deleted(p) /\ p \in Present'
    BY <1>0, <1>2, <2>1, <2>2, <2>3 DEF Deleted
  <2>5. rows'[p].deleted_at = rows[p].deleted_at
    BY <1>3, <2>4, DeletionKept
  <2> QED BY <2>1, <2>2, <2>3, <2>4, <2>5 DEF SameDeletion, Deleted
<1>4. ASSUME NEW c \in Clients, tx'[c] = Idle PROVE ThreadInv' <=> \A j \in withRoot' : SameDeletion(j)'
  <2>1. \A d \in Clients : d = c
    OBVIOUS
  <2>2. tx'[c].op = "idle"
    BY <1>4 DEF Idle
  <2>3. ThreadCall(c)'
    BY <2>2 DEF ThreadCall
  <2> QED BY <2>1, <2>3 DEF ThreadInv
<1>5. CASE UNCHANGED vars
  BY <1>5 DEF vars, ThreadInv, ThreadCall, SameDeletion, Deleted, Present
<1>6. ASSUME NEW c \in Clients, BeginStep(c) PROVE ThreadInv'
  <2>1. UNCHANGED <<rows, withRoot>> /\ Reads(c, tx'[c]) /\ \A d \in Clients : d = c
    BY <1>6, BeginReads
  <2>2. \A j \in withRoot' : SameDeletion(j)'
    BY <2>1 DEF ThreadInv, SameDeletion, Deleted, Present
  <2>3. PICK t : t = tx'[c]
    OBVIOUS
  <2>4. t.op \in {"delete", "cascade"} => t.stamp # 0 /\ \A j \in withRoot : rows[j].parent_id # t.id
    <3> SUFFICES ASSUME t.op \in {"delete", "cascade"}
                 PROVE  t.stamp # 0 /\ \A j \in withRoot : rows[j].parent_id # t.id
      OBVIOUS
    <3>1. ReadDelete(c, t)
      BY <2>1, <2>3 DEF Reads, ReadMerge, ReadInsert, ReadVersion, ReadInPlace, ReadSupersede, ReadUndelete
    <3>2. t.stamp # 0 /\ ~Deleted(t.id)
      BY <3>1 DEF ReadDelete, LiveRows, Live
    <3> QED BY <3>2 DEF ThreadInv, SameDeletion, Deleted
  <2>5. t.op = "undelete" =>
          /\ Deleted(t.id) /\ rows[t.id].deleted_at = t.seen
          /\ t.root <=> rows[t.id].parent_id = None
    <3> SUFFICES ASSUME t.op = "undelete"
                 PROVE  /\ Deleted(t.id) /\ rows[t.id].deleted_at = t.seen
                        /\ t.root <=> rows[t.id].parent_id = None
      OBVIOUS
    <3>1. ReadUndelete(c, t)
      BY <2>1, <2>3 DEF Reads, ReadMerge, ReadInsert, ReadVersion, ReadInPlace, ReadSupersede, ReadDelete
    <3> QED BY <3>1 DEF ReadUndelete
  <2>6. ThreadCall(c)'
    BY <2>1, <2>3, <2>4, <2>5 DEF ThreadCall, Deleted
  <2> QED BY <2>1, <2>2, <2>6 DEF ThreadInv
<1>7. ASSUME NEW c \in Clients,
             \/ MergeCommit(c) \/ Rollback(c) \/ InsertCommit(c) \/ NewVersionCommit(c)
             \/ InPlaceCommit(c) \/ SupersedeCommit(c)
      PROVE  ThreadInv'
  <2>1. tx'[c] = Idle
    BY <1>7, CommitEnds DEF CommitStep
  <2>2. withRoot' = withRoot /\ Present \subseteq Present'
    BY <1>7 DEF MergeCommit, Rollback, InsertCommit, NewVersionCommit, InPlaceCommit, SupersedeCommit,
       Insert, Present
  <2>3. withRoot \subseteq Present
    BY DEF ThreadInv, SameDeletion
  <2>4. KeepsDeletions
    BY <1>7 DEF MergeCommit, Rollback, KeepsDeletions
  <2> QED BY <1>3, <1>4, <2>1, <2>2, <2>3, <2>4
<1>8. ASSUME NEW c \in Clients, DeleteCommit(c) PROVE ThreadInv'
  <2>a. PICK i : i = tx[c].id
    OBVIOUS
  <2>b. PICK at : at = [day |-> tx[c].day, stamp |-> tx[c].stamp]
    OBVIOUS
  <2>c. PICK promoted : promoted = {j \in {tx[c].other} \ {i} : Live(j)}
    OBVIOUS
  <2>d. PICK gone : gone = IF tx[c].root /\ i \in Present THEN Replies(i) \ {i} ELSE {}
    OBVIOUS
  <2>1. /\ rows' = [j \in Present |->
                         CASE j = i -> SoftDelete(rows[j], at)
                           [] j \in gone -> SoftDelete(rows[j], at)
                           [] j \in promoted \ gone -> [rows[j] EXCEPT !.is_current = TRUE]
                           [] OTHER -> rows[j]]
        /\ withRoot' = (withRoot \ {i}) \cup gone
    BY <1>8, <2>a, <2>b, <2>c, <2>d DEF DeleteCommit
  <2>2. tx'[c] = Idle
    BY <1>8, CommitEnds DEF CommitStep
  <2>3. Present' = Present /\ tx[c].stamp # 0 /\ at.stamp = tx[c].stamp
    BY <1>8, <2>1, <2>a, <2>b, <2>c, <2>d DEF Present, ThreadInv, ThreadCall, DeleteCommit
  <2>4. \A j \in Present : rows'[j].parent_id = rows[j].parent_id
    <3> TAKE j \in Present
    <3>1. rows'[j] \in {rows[j], SoftDelete(rows[j], at), [rows[j] EXCEPT !.is_current = TRUE]}
      BY <2>1, <2>a, <2>b, <2>c, <2>d
    <3> QED BY <1>0, <3>1 DEF SoftDelete, Row
  <2>5. ASSUME NEW j \in Present, j = i \/ j \in gone PROVE rows'[j].deleted_at = at
    <3>1. rows'[j] = SoftDelete(rows[j], at)
      BY <2>1, <2>a, <2>b, <2>c, <2>d, <2>5
    <3> QED BY <1>0, <3>1 DEF SoftDelete, Row
  <2>6. ASSUME NEW j \in Present, j # i, Deleted(j) PROVE rows'[j] = rows[j]
    BY <2>1, <2>a, <2>b, <2>c, <2>d, <2>6 DEF Live, Replies
  <2>7. ASSUME NEW j \in gone PROVE SameDeletion(j)'
    <3>1. j \in Present /\ rows[j].parent_id = i /\ i \in Present
      BY <2>1, <2>a, <2>b, <2>c, <2>d, <2>7 DEF Replies
    <3> QED BY <2>3, <2>4, <2>5, <2>7, <3>1 DEF SameDeletion, Deleted
  <2>8. ASSUME NEW j \in withRoot, j # i PROVE SameDeletion(j)'
    <3>1. /\ j \in Present /\ Deleted(j) /\ rows[j].parent_id \in Present
          /\ rows[rows[j].parent_id].deleted_at = rows[j].deleted_at /\ rows[j].parent_id # i
      BY <1>8, <2>1, <2>a, <2>b, <2>c, <2>d, <2>8 DEF ThreadInv, SameDeletion, ThreadCall, DeleteCommit
    <3>2. PICK p \in Present : p = rows[j].parent_id
      BY <3>1
    <3>3. rows'[j] = rows[j] /\ rows'[p] = rows[p]
      BY <2>6, <2>8, <3>1, <3>2 DEF Deleted
    <3> QED BY <2>3, <3>1, <3>2, <3>3 DEF SameDeletion, Deleted
  <2> QED BY <1>4, <2>1, <2>a, <2>b, <2>c, <2>d, <2>2, <2>7, <2>8
<1>9. ASSUME NEW c \in Clients, CascadeCommit(c) PROVE ThreadInv'
  <2>a. PICK i : i = tx[c].id
    OBVIOUS
  <2>b. PICK at : at = IF Deleted(i) THEN rows[i].deleted_at
                       ELSE [day |-> tx[c].day, stamp |-> tx[c].stamp]
    OBVIOUS
  <2>c. PICK chain : chain = {j \in Chain(i) : Live(j)}
    OBVIOUS
  <2>d. PICK gone : gone = IF tx[c].root THEN Replies(i) \ chain ELSE {}
    OBVIOUS
  <2>1. /\ rows' = [j \in Present |-> IF j \in chain \cup gone THEN SoftDelete(rows[j], at)
                                         ELSE rows[j]]
        /\ withRoot' = (withRoot \ chain) \cup gone
    BY <1>9, <2>a, <2>b, <2>c, <2>d DEF CascadeCommit
  <2>2. tx'[c] = Idle
    BY <1>9, CommitEnds DEF CommitStep
  <2>3. Present' = Present /\ i \in Present /\ at.stamp # 0
    BY <1>9, <2>1, <2>a, <2>b, <2>c, <2>d DEF Present, ThreadInv, ThreadCall, CascadeCommit, Deleted
  <2>4. \A j \in Present : rows'[j].parent_id = rows[j].parent_id
    <3> TAKE j \in Present
    <3>1. rows'[j] \in {rows[j], SoftDelete(rows[j], at)}
      BY <2>1, <2>a, <2>b, <2>c, <2>d
    <3> QED BY <1>0, <3>1 DEF SoftDelete, Row
  <2>5. ASSUME NEW j \in Present, j \in chain \cup gone PROVE rows'[j].deleted_at = at
    <3>1. rows'[j] = SoftDelete(rows[j], at)
      BY <2>1, <2>a, <2>b, <2>c, <2>d, <2>5
    <3> QED BY <1>0, <3>1 DEF SoftDelete, Row
  <2>6. ASSUME NEW j \in Present, Deleted(j) PROVE rows'[j] = rows[j] /\ j \notin gone /\ j \notin chain
    BY <2>1, <2>a, <2>b, <2>c, <2>d, <2>6 DEF Live, Replies
  <2>7. rows'[i].deleted_at = at
    <3>1. CASE Deleted(i)
      BY <2>1, <2>a, <2>b, <2>c, <2>d, <2>3, <2>6, <3>1
    <3>2. CASE ~Deleted(i)
      <4>1. i \in chain
        BY <2>1, <2>a, <2>b, <2>c, <2>d, <2>3, <3>2, WalkStarts DEF Live
      <4> QED BY <2>3, <2>5, <4>1
    <3> QED BY <3>1, <3>2
  <2>8. ASSUME NEW j \in gone PROVE SameDeletion(j)'
    <3>1. j \in Present /\ rows[j].parent_id = i
      BY <2>1, <2>a, <2>b, <2>c, <2>d, <2>8 DEF Replies
    <3> QED BY <2>3, <2>4, <2>5, <2>7, <2>8, <3>1 DEF SameDeletion, Deleted
  <2>9. ASSUME NEW j \in withRoot PROVE SameDeletion(j)'
    <3>1. /\ j \in Present /\ Deleted(j) /\ rows[j].parent_id \in Present
          /\ rows[rows[j].parent_id].deleted_at = rows[j].deleted_at
      BY <2>9 DEF ThreadInv, SameDeletion
    <3>2. PICK p \in Present : p = rows[j].parent_id
      BY <3>1
    <3>3. rows'[j] = rows[j] /\ rows'[p] = rows[p]
      BY <2>6, <3>1, <3>2 DEF Deleted
    <3> QED BY <2>3, <3>1, <3>2, <3>3 DEF SameDeletion, Deleted
  <2> QED BY <1>4, <2>1, <2>a, <2>b, <2>c, <2>d, <2>2, <2>8, <2>9
<1>10. ASSUME NEW c \in Clients, UndeleteCommit(c) PROVE ThreadInv'
  <2>1. PICK i : i = tx[c].id
    OBVIOUS
  <2>2. PICK back : back = IF tx[c].root THEN DeletedWith(i, tx[c].seen) ELSE {}
    OBVIOUS
  <2>3. /\ i \in Present /\ Present' = Present /\ withRoot' = withRoot \ ({i} \cup back)
        /\ \A j \in Present \ ({i} \cup back) : rows'[j] = rows[j]
    BY <1>10, <2>1, <2>2, UndeleteWrites
  <2>4. rows[i].deleted_at = tx[c].seen /\ (tx[c].root <=> rows[i].parent_id = None)
    BY <1>10, <2>1, <2>3 DEF ThreadInv, ThreadCall, UndeleteCommit
  <2>5. ASSUME NEW j \in withRoot, j # i, j \notin back PROVE SameDeletion(j)'
    <3>1. /\ j \in Present /\ Deleted(j) /\ rows[j].parent_id \in Present
          /\ rows[rows[j].parent_id].deleted_at = rows[j].deleted_at
      BY <2>5 DEF ThreadInv, SameDeletion
    <3>2. PICK p \in Present : p = rows[j].parent_id
      BY <3>1
    <3>3. p # None /\ rows[p].parent_id = None
      BY <1>0, <3>1, <3>2
    <3>4. p # i
      BY <2>2, <2>4, <2>5, <3>1, <3>2, <3>3 DEF DeletedWith
    <3>5. p \notin back
      BY <1>0, <2>2, <2>3, <3>3 DEF DeletedWith
    <3>6. rows'[j] = rows[j] /\ rows'[p] = rows[p]
      BY <2>3, <2>5, <3>1, <3>4, <3>5
    <3> QED BY <2>3, <3>1, <3>2, <3>6 DEF SameDeletion, Deleted
  <2>6. tx'[c] = Idle
    BY <1>10, CommitEnds DEF CommitStep
  <2> QED BY <1>4, <2>3, <2>5, <2>6
<1>11. CASE ExpireTransient \/ NewDay \/ RetentionMemories
  <2>1. tx' = tx /\ withRoot' \subseteq withRoot
    BY <1>11 DEF ExpireTransient, NewDay, RetentionMemories
  <2>2. Present' \subseteq Present
    BY <1>11 DEF ExpireTransient, NewDay, RetentionMemories, Present, Kept
  <2>3. KeepsDeletions
    BY <1>11 DEF NewDay, KeepsDeletions
  <2>4. withRoot \subseteq Present
    BY DEF ThreadInv, SameDeletion
  <2>5. withRoot' \subseteq Present'
    BY <1>11, <2>4 DEF ExpireTransient, NewDay, RetentionMemories, Present
  <2>6. \A j \in withRoot' : SameDeletion(j)' /\ rows'[j].parent_id = rows[j].parent_id
    BY <1>3, <2>1, <2>3, <2>5
  <2>7. ASSUME NEW c \in Clients PROVE ThreadCall(c)'
    <3>1. ThreadCall(c) /\ tx'[c] = tx[c]
      BY <2>1 DEF ThreadInv
    <3>2. tx[c].op \in {"delete", "cascade"} =>
             tx[c].stamp # 0 /\ \A j \in withRoot' : rows'[j].parent_id # tx[c].id
      BY <2>1, <2>6, <3>1 DEF ThreadCall
    <3>3. ASSUME tx[c].op = "undelete", tx[c].id \in Present'
          PROVE  /\ Deleted(tx[c].id)' /\ rows'[tx[c].id].deleted_at = tx[c].seen
                 /\ tx[c].root <=> rows'[tx[c].id].parent_id = None
      <4>1. PICK i \in Present : i = tx[c].id
        BY <2>2, <3>3
      <4>2. Deleted(i) /\ rows[i].deleted_at = tx[c].seen /\ (tx[c].root <=> rows[i].parent_id = None)
        BY <3>1, <3>3, <4>1 DEF ThreadCall
      <4>3. rows'[i].deleted_at = rows[i].deleted_at /\ rows'[i].parent_id = rows[i].parent_id
        BY <2>3, <3>3, <4>1, <4>2, DeletionKept
      <4> QED BY <2>1, <4>1, <4>2, <4>3 DEF Deleted
    <3> QED BY <3>1, <3>2, <3>3 DEF ThreadCall
  <2> QED BY <2>6, <2>7 DEF ThreadInv
<1> QED BY <1>5, <1>6, <1>7, <1>8, <1>9, <1>10, <1>11 DEF Next, ClientStep, BeginStep

\* With calls one after the other, memory_undelete of a root restores every reply that
\* memory_delete took along, whatever the nightly jobs expire or purge between the
\* two: the replies share the root's deleted_at until it is restored.
THEOREM RepliesComeBack ==
    ASSUME \A c \in Clients, d \in Clients : c = d
    PROVE  Spec => ThreadRestored
<1>1. Init => IInv /\ ThreadInv
  <2> SUFFICES ASSUME Init PROVE ThreadInv
    BY InitInv
  <2>1. withRoot = {} /\ \A c \in Clients : tx[c].op = "idle"
    BY DEF Init, Idle
  <2> QED BY <2>1 DEF ThreadInv, ThreadCall
<1>2. IInv /\ ThreadInv /\ [Next]_vars => IInv' /\ ThreadInv'
  BY NextInv, ThreadStep
<1>3. ASSUME IInv, ThreadInv, NEW c \in Clients, NEW i \in Ids, UndeleteCommit(c), tx[c].root, tx[c].id = i
      PROVE  {j \in withRoot : rows[j].parent_id = i} \subseteq memory_thread_get(c, i)'
  <2>1. PICK back : back = DeletedWith(i, tx[c].seen)
    OBVIOUS
  <2>2. /\ i \in Present /\ Present' = Present
        /\ \A j \in Present : rows'[j].tenant = rows[j].tenant /\ rows'[j].parent_id = rows[j].parent_id
        /\ \A j \in Present \cap ({i} \cup back) : rows'[j].deleted_at = Null
    BY <1>3, <2>1, UndeleteWrites
  <2>3. /\ rows[i].deleted_at = tx[c].seen /\ rows[i].parent_id = None
        /\ rows[i].tenant = TenantOf[c] /\ i # None
    <3>1. tx[c].op = "undelete" /\ tx[c].root /\ tx[c].id = i
      BY <1>3, Zenon DEF UndeleteCommit
    <3>2. ThreadCall(c)
      BY <1>3 DEF ThreadInv
    <3>3. rows[i].deleted_at = tx[c].seen /\ rows[i].parent_id = None
      BY <2>2, <3>1, <3>2 DEF ThreadCall
    <3>4. rows[i].tenant = TenantOf[c]
      BY <1>3, <2>2, <3>1 DEF IInv, TxInv
    <3>5. i # None
      BY <1>3 DEF Ids, None
    <3> QED BY <3>3, <3>4, <3>5
  <2>4. i \in LiveRows(c)' /\ rows'[i].parent_id = None
    BY <2>2, <2>3 DEF LiveRows, Visible, Live, Deleted, Null
  <2>5. ASSUME NEW j \in withRoot, rows[j].parent_id = i
        PROVE  j \in LiveRows(c)' /\ rows'[j].parent_id = i
    <3>1. j \in Present /\ rows[j].deleted_at = tx[c].seen
      BY <1>3, <2>3, <2>5 DEF ThreadInv, SameDeletion
    <3>2. j # i /\ j \in back
      BY <2>1, <2>3, <2>5, <3>1 DEF DeletedWith
    <3>3. rows[j].tenant = TenantOf[c]
      BY <1>3, <2>3, <2>5, <3>1 DEF IInv, LinksIntact
    <3> QED BY <2>2, <2>5, <3>1, <3>2, <3>3 DEF LiveRows, Visible, Live, Deleted, Null
  <2> QED BY <2>4, <2>5 DEF memory_thread_get
<1>4. IInv /\ ThreadInv /\ [Next]_vars =>
        [\A c \in Clients, i \in Ids :
           UndeleteCommit(c) /\ tx[c].root /\ tx[c].id = i =>
              {j \in withRoot : rows[j].parent_id = i} \subseteq memory_thread_get(c, i)']_vars
  BY <1>3
<1> QED BY <1>1, <1>2, <1>4, PTL DEF Spec, ThreadRestored

----------------------------------------------------------------------------
(* An acknowledged write can be read.                                       *)

\* What no commit changes of a row: tenant, times, and, but for memory_supersede
\* and the update in place, its predecessor and its text.
LEMMA CommitFrame ==
    ASSUME IInv, NEW c \in Clients, CommitStep(c), NEW i \in Present
    PROVE  /\ rows'[i].tenant = rows[i].tenant /\ rows'[i].expires = rows[i].expires
           /\ rows'[i].created = rows[i].created /\ rows'[i].parent_id = rows[i].parent_id
           /\ ~SupersedeCommit(c) => rows'[i].supersedes = rows[i].supersedes
           /\ ~InPlaceCommit(c) => rows'[i].content = rows[i].content /\ rows'[i].type = rows[i].type
<1>0. rows[i] \in Row /\ i # nextId
  BY StoreAssumption DEF IInv, TypeOK, Present, RowsAllocated
<1>1. CASE MergeCommit(c) \/ Rollback(c) \/ InsertCommit(c)
  BY <1>0, <1>1 DEF MergeCommit, Rollback, InsertCommit, Insert
<1>2. CASE NewVersionCommit(c)
  <2>1. rows'[i] = rows[i] \/ rows'[i] = Superseded(rows[i], nextId)
    BY <1>0, <1>2 DEF NewVersionCommit, Insert, Present
  <2> QED BY <1>0, <2>1 DEF Superseded, Row
<1>3. CASE InPlaceCommit(c)
  <2>1. PICK ty, x : rows'[i] = rows[i] \/ rows'[i] = [rows[i] EXCEPT !.type = ty, !.content = x]
    BY <1>3 DEF InPlaceCommit
  <2> QED BY <1>0, <1>3, <2>1 DEF Row
<1>4. CASE SupersedeCommit(c)
  <2> DEFINE old == tx[c].id
             new == tx[c].other
             marked == [rows EXCEPT ![old] = Superseded(@, new)]
  <2>1. marked[i] = rows[i] \/ marked[i] = Superseded(rows[i], new)
    BY DEF Present
  <2>2. /\ DOMAIN marked[i] = DOMAIN rows[i]
        /\ marked[i].tenant = rows[i].tenant /\ marked[i].expires = rows[i].expires
        /\ marked[i].created = rows[i].created /\ marked[i].parent_id = rows[i].parent_id
        /\ marked[i].content = rows[i].content /\ marked[i].type = rows[i].type
    BY <1>0, <2>1 DEF Superseded, Row
  <2>3. rows' = [marked EXCEPT ![new].supersedes = old, ![new].version = tx[c].version,
                               ![new].is_current = TRUE]
    BY <1>4 DEF SupersedeCommit
  <2>4. DOMAIN marked = Present
    BY DEF Present
  <2>5. \/ rows'[i] = marked[i]
        \/ rows'[i] = [marked[i] EXCEPT !.supersedes = old, !.version = tx[c].version,
                                        !.is_current = TRUE]
    BY <2>3, <2>4
  <2> HIDE DEF marked
  <2> QED BY <1>0, <1>4, <2>2, <2>5 DEF Row
<1>5. CASE DeleteCommit(c)
  <2>1. PICK at : rows'[i] \in {rows[i], SoftDelete(rows[i], at), [rows[i] EXCEPT !.is_current = TRUE]}
    BY <1>5 DEF DeleteCommit
  <2> QED BY <1>0, <2>1 DEF SoftDelete, Row
<1>6. CASE CascadeCommit(c)
  <2>1. PICK at : rows'[i] \in {rows[i], SoftDelete(rows[i], at)}
    BY <1>6 DEF CascadeCommit
  <2> QED BY <1>0, <2>1 DEF SoftDelete, Row
<1>7. CASE UndeleteCommit(c)
  <2>1. PICK f : rows'[i] \in {rows[i], [rows[i] EXCEPT !.deleted_at = Null, !.is_current = f],
                               [rows[i] EXCEPT !.deleted_at = Null, !.is_current = TRUE]}
    BY <1>7 DEF UndeleteCommit
  <2> QED BY <1>0, <2>1 DEF Row
<1> QED BY <1>1, <1>2, <1>3, <1>4, <1>5, <1>6, <1>7 DEF CommitStep

\* What a commit adds.
Grows(c) ==
    /\ tx[c].op \in {"insert", "new_version"} /\ nextId \notin Present /\ nextId # None
    /\ Present' = Present \cup {nextId} /\ rows'[nextId] = NewRow(c)
    /\ \A i \in Present : i < nextId
LEMMA CommitDomain ==
    ASSUME IInv, NEW c \in Clients, CommitStep(c)
    PROVE  \/ Present' = Present
           \/ Grows(c) /\ (InsertCommit(c) \/ NewVersionCommit(c))
<1>1. CASE InsertCommit(c) \/ NewVersionCommit(c)
  <2>1. /\ nextId \notin Present /\ nextId # None /\ \A i \in Present : i < nextId
    BY StoreAssumption DEF IInv, TypeOK, RowsAllocated, None
  <2>2. Present' = Present \cup {nextId} /\ rows'[nextId] = NewRow(c)
    BY <1>1 DEF InsertCommit, NewVersionCommit, Insert, Present
  <2> QED BY <1>1, <2>1, <2>2 DEF Grows, InsertCommit, NewVersionCommit
<1>2. ASSUME MergeCommit(c) \/ Rollback(c) \/ InPlaceCommit(c) PROVE Present' = Present
  BY <1>2 DEF MergeCommit, Rollback, InPlaceCommit, Present
<1>3. ASSUME SupersedeCommit(c) PROVE Present' = Present
  <2>1. DOMAIN rows' = DOMAIN [rows EXCEPT ![tx[c].id] = Superseded(@, tx[c].other)]
    BY <1>3 DEF SupersedeCommit
  <2> QED BY <2>1 DEF Present
<1>4. ASSUME DeleteCommit(c) \/ CascadeCommit(c) \/ UndeleteCommit(c) PROVE Present' = Present
  BY <1>4 DEF DeleteCommit, CascadeCommit, UndeleteCommit, Present
<1> QED BY <1>1, <1>2, <1>3, <1>4 DEF CommitStep

\* Nothing expires, and the row a write is merged into is as it was read.
AckInv ==
    /\ \A i \in Present : rows[i].expires = 0
    /\ \A c \in Clients : /\ tx[c].op \in {"insert", "new_version"} => tx[c].expires = 0
                          /\ tx[c].op = "merge" => ReadMerge(c, tx[c])

LEMMA AckStep ==
    ASSUME IInv, AckInv, [Next]_vars, \A c \in Clients, d \in Clients : c = d,
           TTLs \subseteq {0}, Ops \cap {"expire", "retention"} = {}
    PROVE  AckInv'
<1>1. CASE UNCHANGED vars
  BY <1>1 DEF vars, AckInv, ReadMerge, LiveRows, Visible, Live, Deleted, Present
<1>2. CASE NewDay
  BY <1>2 DEF NewDay, AckInv, ReadMerge, LiveRows, Visible, Live, Deleted, Present
<1>3. ASSUME NEW c \in Clients, BeginStep(c) PROVE AckInv'
  <2>1. UNCHANGED rows /\ Reads(c, tx'[c]) /\ \A d \in Clients : d = c
    BY <1>3, BeginReads
  <2>2. PICK t : t = tx'[c]
    OBVIOUS
  <2>3. t.op \in {"insert", "new_version"} => t.expires = 0
    BY <2>1, <2>2 DEF Reads, ReadMerge, ReadInsert, ReadVersion, ReadInPlace, ReadSupersede,
       ReadDelete, ReadUndelete, ExpiresIn
  <2>4. t.op = "merge" => ReadMerge(c, t)
    BY <2>1, <2>2 DEF Reads, ReadInsert, ReadVersion, ReadInPlace, ReadSupersede,
       ReadDelete, ReadUndelete
  <2>5. tx'[c].op = "merge" => ReadMerge(c, tx[c])'
    BY <2>1, <2>2, <2>4 DEF ReadMerge, LiveRows, Visible, Live, Deleted, Present
  <2> QED BY <2>1, <2>2, <2>3, <2>5 DEF AckInv, Present
<1>4. ASSUME NEW c \in Clients, CommitStep(c) PROVE AckInv'
  <2>1. tx'[c] = Idle /\ \A d \in Clients : d = c
    BY <1>4, CommitEnds
  <2>2. tx'[c].op = "idle"
    BY <2>1 DEF Idle
  <2>3. \A i \in Present : rows'[i].expires = 0
    BY <1>4, CommitFrame DEF AckInv
  <2>4. \A i \in Present' : rows'[i].expires = 0
    <3>1. CASE Grows(c)
      <4>1. rows'[nextId].expires = 0
        BY <3>1 DEF Grows, NewRow, AckInv
      <4> QED BY <2>3, <3>1, <4>1 DEF Grows
    <3> QED BY <1>4, <2>3, <3>1, CommitDomain
  <2> QED BY <2>1, <2>2, <2>4 DEF AckInv
<1> QED BY <1>1, <1>2, <1>3, <1>4 DEF Next, ClientStep, BeginStep, CommitStep, ExpireTransient,
    RetentionMemories

\* With calls one after the other and no lifetimes, every write that is acknowledged,
\* merged into an earlier row or not, names a row that memory_list lists and
\* memory_get_batch returns by id and by its slug.
THEOREM WritesAreReadable ==
    ASSUME \A c \in Clients, d \in Clients : c = d, TTLs \subseteq {0},
           Ops \cap {"expire", "retention"} = {}
    PROVE  Spec => AckedWriteIsReadable
<1>1. Init => IInv /\ AckInv
  <2> SUFFICES ASSUME Init PROVE AckInv
    BY InitInv
  <2>1. Present = {} /\ \A c \in Clients : tx[c].op = "idle"
    BY DEF Init, Idle, Present
  <2> QED BY <2>1 DEF AckInv
<1>2. IInv /\ AckInv /\ [Next]_vars => IInv' /\ AckInv'
  BY NextInv, AckStep
<1>3. ASSUME IInv, AckInv, NEW c \in Clients, NEW i \in Ids, MergeCommit(c) \/ InsertCommit(c), AckedId(c) = i
      PROVE  /\ i \in memory_list(c, {})'
             /\ i \in memory_get_batch(c, {i}, {})'
             /\ tx[c].slug => memory_get_batch(c, {}, {i})' = {i}
             /\ \/ rows'[i].content = tx[c].content
                \/ <<rows'[i].content, tx[c].content>> \in Similar
  <2>1. ASSUME i \in Present', rows'[i].tenant = TenantOf[c], rows'[i].is_current,
               rows'[i].expires = 0, rows'[i].deleted_at.stamp = 0
        PROVE  i \in memory_list(c, {})' /\ i \in memory_get_batch(c, {i}, {})'
    <3>1. i \in Visible(c)' /\ ~Deleted(i)'
      BY <2>1 DEF Visible, Deleted
    <3> QED BY <2>1, <3>1 DEF memory_list, memory_get_batch
  <2>2. CASE MergeCommit(c)
    <3>1. tx[c].op = "merge" /\ UNCHANGED rows /\ tx[c].id = i
      BY <1>3, <2>2 DEF MergeCommit, AckedId
    <3>2. ReadMerge(c, tx[c]) /\ \A k \in Present : rows[k].expires = 0
      BY <1>3, <3>1 DEF AckInv
    <3>3. /\ i \in Present /\ rows[i].tenant = TenantOf[c] /\ rows[i].is_current /\ ~Deleted(i)
          /\ rows[i].expires = 0
      BY <3>1, <3>2 DEF ReadMerge, LiveRows, Visible, Live
    <3>4. tx[c].slug = FALSE
      BY <3>2 DEF ReadMerge
    <3>5. rows[i].content = tx[c].content \/ <<rows[i].content, tx[c].content>> \in Similar
      BY <3>1, <3>2 DEF ReadMerge
    <3>6. i \in Present' /\ rows'[i] = rows[i] /\ rows[i].deleted_at.stamp = 0
      BY <3>1, <3>3 DEF Present, Deleted
    <3> QED BY <2>1, <3>1, <3>3, <3>4, <3>5, <3>6
  <2>3. CASE InsertCommit(c)
    <3>1. i = nextId /\ tx[c].op = "insert"
      BY <1>3, <2>3 DEF InsertCommit, AckedId
    <3>2. i \in Present' /\ rows'[i] = NewRow(c)
      BY <1>3, <2>3, <3>1 DEF InsertCommit, Insert, Present
    <3>3. /\ NewRow(c).tenant = TenantOf[c] /\ NewRow(c).is_current /\ NewRow(c).expires = tx[c].expires
          /\ NewRow(c).deleted_at.stamp = 0 /\ NewRow(c).content = tx[c].content
      BY DEF NewRow, Null
    <3>4. tx[c].expires = 0
      BY <1>3, <3>1 DEF AckInv
    <3>5. ASSUME tx[c].slug PROVE memory_get_batch(c, {}, {i})' = {i}
      <4>1. slugs' = insert_slug_with_retry(i)
        BY <2>3, <3>1, <3>5 DEF InsertCommit
      <4>2. i \in DOMAIN slugs' /\ slugs'[i] = i
        BY <4>1 DEF insert_slug_with_retry
      <4>3. lookup_slug(i)' = i
        BY <4>2 DEF lookup_slug
      <4>4. i \in memories_select(c)' /\ ~Deleted(i)'
        BY <3>2, <3>3 DEF memories_select, Deleted
      <4> QED BY <4>3, <4>4 DEF memory_get_batch
    <3> QED BY <2>1, <3>2, <3>3, <3>4, <3>5
  <2> QED BY <1>3, <2>2, <2>3
<1>4. IInv /\ AckInv /\ [Next]_vars =>
        [\A c \in Clients, i \in Ids :
           (MergeCommit(c) \/ InsertCommit(c)) /\ AckedId(c) = i =>
              /\ i \in memory_list(c, {})'
              /\ i \in memory_get_batch(c, {i}, {})'
              /\ tx[c].slug => memory_get_batch(c, {}, {i})' = {i}
              /\ \/ rows'[i].content = tx[c].content
                 \/ <<rows'[i].content, tx[c].content>> \in Similar]_vars
  BY <1>3, Zenon
<1> QED BY <1>1, <1>2, <1>4, PTL DEF Spec, AckedWriteIsReadable

----------------------------------------------------------------------------
(* History stays as it is.                                                  *)

Job == ExpireTransient \/ RetentionMemories

\* The jobs soft-delete and purge, and change nothing else.
LEMMA JobFrame ==
    ASSUME IInv, Job
    PROVE  /\ UNCHANGED <<tx, nextId, today>> /\ Present' \subseteq Present
           /\ \A i \in Present' :
                 /\ rows'[i].tenant = rows[i].tenant /\ rows'[i].type = rows[i].type
                 /\ rows'[i].content = rows[i].content /\ rows'[i].supersedes = rows[i].supersedes
                 /\ rows'[i].parent_id = rows[i].parent_id
                 /\ rows'[i].is_current = rows[i].is_current /\ rows'[i].created = rows[i].created
<1>1. UNCHANGED <<tx, nextId, today>>
  BY DEF Job, ExpireTransient, RetentionMemories
<1>2. Present' \subseteq Present
  BY DEF Job, ExpireTransient, RetentionMemories, Present, Kept
<1>3. ASSUME NEW i \in Present'
      PROVE  \E at : rows'[i] = rows[i] \/ rows'[i] = [rows[i] EXCEPT !.deleted_at = at]
  <2>1. CASE ExpireTransient
    BY <1>2, <1>3, <2>1 DEF ExpireTransient
  <2>2. CASE RetentionMemories
    <3>1. Present' = Kept
      BY <2>2 DEF RetentionMemories, Present
    <3> QED BY <1>3, <2>2, <3>1 DEF RetentionMemories
  <2> QED BY <2>1, <2>2 DEF Job
<1>4. ASSUME NEW i \in Present'
      PROVE  /\ rows'[i].tenant = rows[i].tenant /\ rows'[i].type = rows[i].type
             /\ rows'[i].content = rows[i].content /\ rows'[i].supersedes = rows[i].supersedes
             /\ rows'[i].parent_id = rows[i].parent_id
             /\ rows'[i].is_current = rows[i].is_current /\ rows'[i].created = rows[i].created
  <2>1. rows[i] \in Row
    BY <1>2, <1>4 DEF IInv, TypeOK, Present
  <2> QED BY <1>3, <1>4, <2>1 DEF Row
<1> QED BY <1>1, <1>2, <1>4

\* An update rewrites a content only of a row whose type keeps no versions, and no
\* call is about to relink rows.
HistoryInv ==
    \A c \in Clients :
       /\ tx[c].op # "supersede"
       /\ tx[c].op = "in_place" /\ tx[c].flag /\ tx[c].id \in Present
             => rows[tx[c].id].type \notin VERSIONED_TYPES

LEMMA HistoryStep ==
    ASSUME IInv, HistoryInv, [Next]_vars, "supersede" \notin Ops,
           (\A c \in Clients, d \in Clients : c = d) \/ Types \subseteq VERSIONED_TYPES
    PROVE  HistoryInv'
<1>1. CASE UNCHANGED vars \/ NewDay
  BY <1>1 DEF vars, NewDay, HistoryInv, Present
<1>2. CASE Job
  <2> SUFFICES ASSUME NEW c \in Clients
               PROVE  /\ tx'[c].op # "supersede"
                      /\ tx'[c].op = "in_place" /\ tx'[c].flag /\ tx'[c].id \in Present'
                            => rows'[tx'[c].id].type \notin VERSIONED_TYPES
    BY DEF HistoryInv
  <2>1. /\ tx' = tx /\ Present' \subseteq Present
        /\ \A i \in Present' : rows'[i].type = rows[i].type
    BY <1>2, JobFrame
  <2> QED BY <2>1 DEF HistoryInv
<1>3. ASSUME NEW c \in Clients, BeginStep(c) PROVE HistoryInv'
  <2>1. rows' = rows /\ Present' = Present /\ Reads(c, tx'[c]) /\ \A d \in Clients \ {c} : tx'[d] = tx[d]
    BY <1>3, BeginReads DEF Present
  <2>2. tx'[c].op # "supersede"
    BY <2>1 DEF Reads, ReadMerge, ReadInsert, ReadVersion, ReadInPlace, ReadSupersede, ReadDelete, ReadUndelete
  <2>3. tx'[c].op = "in_place" => ReadInPlace(c, tx'[c])
    BY <2>1 DEF Reads, ReadMerge, ReadInsert, ReadVersion, ReadSupersede, ReadDelete, ReadUndelete
  <2>4. tx'[c].op = "in_place" /\ tx'[c].flag => rows[tx'[c].id].type \notin VERSIONED_TYPES
    BY <2>3 DEF ReadInPlace
  <2>5. ASSUME NEW d \in Clients
        PROVE  /\ tx'[d].op # "supersede"
               /\ tx'[d].op = "in_place" /\ tx'[d].flag /\ tx'[d].id \in Present'
                     => rows'[tx'[d].id].type \notin VERSIONED_TYPES
    <3>1. CASE d = c
      BY <2>1, <2>2, <2>4, <3>1
    <3>2. CASE d # c
      BY <2>1, <3>2 DEF HistoryInv
    <3> QED BY <3>1, <3>2
  <2> QED BY <2>5 DEF HistoryInv
<1>4. ASSUME NEW c \in Clients, CommitStep(c) PROVE HistoryInv'
  <2>1. tx'[c].op = "idle" /\ \A d \in Clients \ {c} : tx'[d] = tx[d]
    BY <1>4, CommitEnds DEF Idle
  <2>2. ASSUME NEW d \in Clients
        PROVE  /\ tx'[d].op # "supersede"
               /\ tx'[d].op = "in_place" /\ tx'[d].flag /\ tx'[d].id \in Present'
                     => rows'[tx'[d].id].type \notin VERSIONED_TYPES
    <3>1. CASE d = c
      BY <2>1, <3>1
    <3>2. CASE d # c
      <4>1. tx'[d] = tx[d] /\ Types \subseteq VERSIONED_TYPES
        BY <2>1, <3>2
      <4>2. ASSUME tx[d].op = "in_place", tx[d].flag, tx[d].id \in Present' PROVE FALSE
        <5>1. tx[d].id \notin Present
          BY <4>1, <4>2 DEF HistoryInv, IInv, TypeOK, Present, Row
        <5>2. tx[d].id = nextId
          BY <1>4, <4>2, <5>1, CommitDomain DEF Grows
        <5>3. tx[d].id \in 0..(nextId - 1) /\ nextId \in Nat
          BY StoreAssumption DEF IInv, TxInv, TypeOK
        <5> QED BY <5>2, <5>3
      <4> QED BY <4>1, <4>2 DEF HistoryInv
    <3> QED BY <3>1, <3>2
  <2> QED BY <2>2 DEF HistoryInv
<1> QED BY <1>1, <1>2, <1>3, <1>4 DEF Next, ClientStep, BeginStep, CommitStep, Job

\* The walk of memory_get, for a table and the rows its caller sees.
Back(R, V, i) ==
    LET step[n \in 0..MaxId] ==
          IF n = 0 THEN i ELSE IF step[n-1] \in V THEN R[step[n-1]].supersedes ELSE None
    IN  step

LEMMA BackDef ==
    ASSUME NEW R, NEW V, V \subseteq Ids, \A j \in V : R[j].supersedes \in IdOrNone, NEW i \in Ids
    PROVE  /\ Back(R, V, i)[0] = i
           /\ \A k \in 1 .. MaxId :
                 Back(R, V, i)[k] = IF Back(R, V, i)[k - 1] \in V
                                    THEN R[Back(R, V, i)[k - 1]].supersedes ELSE None
<1> DEFINE Sol(w) == w = [n \in 0..MaxId |-> IF n = 0 THEN i ELSE IF w[n-1] \in V THEN R[w[n-1]].supersedes
                                             ELSE None]
<1>0. MaxId \in Nat
  BY StoreAssumption
<1>1. PICK F : F = [j \in IdOrNone |-> IF j \in V THEN R[j].supersedes ELSE None]
  OBVIOUS
<1>2. F \in [IdOrNone -> IdOrNone] /\ i \in IdOrNone
  BY <1>1 DEF IdOrNone
<1> HIDE DEF Sol
<1>5. PICK f \in [0 .. MaxId -> IdOrNone] : f[0] = i /\ \A k \in 1 .. MaxId : f[k] = F[f[k - 1]]
  <2>1. \E f : Iteration(IdOrNone, F, i, MaxId, f)
    BY <1>0, <1>2, Iterates
  <2> QED BY <2>1 DEF Iteration
<1>6. \A k \in 1 .. MaxId : f[k] = IF f[k - 1] \in V THEN R[f[k - 1]].supersedes ELSE None
  BY <1>0, <1>1, <1>5
<1>7. Sol(f)
  BY <1>0, <1>5, <1>6 DEF Sol
<1>8. Back(R, V, i) = CHOOSE w : Sol(w)
  BY DEF Back, Sol
<1>9. Sol(Back(R, V, i))
  BY <1>7, <1>8
<1>10. PICK w : w = Back(R, V, i)
  OBVIOUS
<1>11. w[0] = i /\ \A k \in 1 .. MaxId : w[k] = IF w[k - 1] \in V THEN R[w[k - 1]].supersedes ELSE None
  BY <1>0, <1>9, <1>10 DEF Sol
<1> QED BY <1>10, <1>11

\* Two tables in which the rows seen keep their predecessor give the same history.
SameBefore(R, V, R2, V2) ==
    /\ V \subseteq Ids /\ \A j \in V : R[j].supersedes \in IdOrNone
    /\ V2 \subseteq Ids /\ \A j \in V2 : R2[j].supersedes \in IdOrNone
    /\ \A j \in V \cap V2 : R2[j].supersedes = R[j].supersedes /\ R[j].supersedes \in V2 \cup {None}
LEMMA BackAgrees ==
    ASSUME NEW R, NEW V, NEW R2, NEW V2, SameBefore(R, V, R2, V2), NEW i \in Ids, i \in V => i \in V2
    PROVE  \A n \in 0 .. MaxId : Back(R, V, i)[n] \in V =>
              Back(R, V, i)[n] \in V2 /\ Back(R2, V2, i)[n] = Back(R, V, i)[n]
<1>0. MaxId \in Nat /\ None \notin V
  BY StoreAssumption DEF Ids, None, SameBefore
<1>1. PICK f : f = Back(R, V, i)
  OBVIOUS
<1>2. PICK g : g = Back(R2, V2, i)
  OBVIOUS
<1>3. f[0] = i /\ \A k \in 1 .. MaxId : f[k] = IF f[k - 1] \in V THEN R[f[k - 1]].supersedes ELSE None
  BY <1>1, BackDef DEF SameBefore
<1>4. g[0] = i /\ \A k \in 1 .. MaxId : g[k] = IF g[k - 1] \in V2 THEN R2[g[k - 1]].supersedes ELSE None
  BY <1>2, BackDef DEF SameBefore
<1> DEFINE S == {n \in Nat : f[n] \in V => f[n] \in V2 /\ g[n] = f[n]}
<1>5. 0 \in S
  BY <1>3, <1>4
<1>6. ASSUME NEW n \in 0 .. MaxId - 1, n \in S PROVE n + 1 \in S
  <2>1. n + 1 \in 1 .. MaxId /\ (n + 1) - 1 = n /\ n + 1 \in Nat
    BY <1>0
  <2>2. /\ f[n + 1] = IF f[n] \in V THEN R[f[n]].supersedes ELSE None
        /\ g[n + 1] = IF g[n] \in V2 THEN R2[g[n]].supersedes ELSE None
    BY <1>3, <1>4, <2>1
  <2>3. f[n] \in V => f[n] \in V2 /\ g[n] = f[n]
    BY <1>6
  <2>4. f[n + 1] \in V => f[n + 1] \in V2 /\ g[n + 1] = f[n + 1]
    BY <1>0, <2>2, <2>3 DEF SameBefore
  <2> QED BY <2>1, <2>4
<1>7. \A n \in 0 .. MaxId : n \in S
  <2> HIDE DEF S
  <2> QED BY <1>0, <1>5, <1>6, UpTo
<1> QED BY <1>1, <1>2, <1>7

\* Where nobody calls memory_supersede, the history memory_get shows of a version stays,
\* through updates, deletions, restores and purges, for one caller at a time or, when
\* all types keep versions, for any number of them.
THEOREM HistoryStays ==
    ASSUME "supersede" \notin Ops,
           (\A c \in Clients, d \in Clients : c = d) \/ Types \subseteq VERSIONED_TYPES
    PROVE  Spec => HistoryPreserved
<1>1. Init => IInv /\ HistoryInv
  <2> SUFFICES ASSUME Init PROVE HistoryInv
    BY InitInv
  <2>1. \A c \in Clients : tx[c].op = "idle"
    BY DEF Init, Idle
  <2> QED BY <2>1 DEF HistoryInv
<1>2. IInv /\ HistoryInv /\ [Next]_vars => IInv' /\ HistoryInv'
  BY NextInv, HistoryStep
<1>3. ASSUME IInv, HistoryInv, [Next]_vars, NEW j \in Present \cap Present'
      PROVE  /\ rows'[j].tenant = rows[j].tenant /\ rows'[j].supersedes = rows[j].supersedes
             /\ rows[j].type \in VERSIONED_TYPES => rows'[j].content = rows[j].content
  <2>1. CASE UNCHANGED rows
    BY <2>1
  <2>2. CASE Job
    BY <1>3, <2>2, JobFrame
  <2>3. ASSUME NEW c \in Clients, BeginStep(c) PROVE UNCHANGED rows
    BY <1>3, <2>3, BeginReads
  <2>4. ASSUME NEW c \in Clients, CommitStep(c)
        PROVE  /\ rows'[j].tenant = rows[j].tenant /\ rows'[j].supersedes = rows[j].supersedes
               /\ rows[j].type \in VERSIONED_TYPES => rows'[j].content = rows[j].content
    <3>1. ~SupersedeCommit(c)
      BY <1>3 DEF SupersedeCommit, HistoryInv
    <3>2. ASSUME InPlaceCommit(c), rows[j].type \in VERSIONED_TYPES
          PROVE  rows'[j].content = rows[j].content
      <4>1. CASE j # tx[c].id
        BY <1>3, <3>2, <4>1 DEF InPlaceCommit
      <4>2. CASE j = tx[c].id
        <5>1. ~tx[c].flag
          BY <1>3, <3>2, <4>2 DEF InPlaceCommit, HistoryInv
        <5>2. rows'[j] = [rows[j] EXCEPT !.type = tx[c].type, !.content = rows[j].content]
          BY <1>3, <3>2, <4>2, <5>1 DEF InPlaceCommit
        <5>3. rows[j] \in Row
          BY <1>3 DEF IInv, TypeOK, Present
        <5> QED BY <5>2, <5>3 DEF Row
      <4> QED BY <4>1, <4>2
    <3> QED BY <1>3, <2>4, <3>1, <3>2, CommitFrame
  <2> QED BY <1>3, <2>1, <2>2, <2>3, <2>4 DEF Next, NewDay, vars, ClientStep, BeginStep, CommitStep, Job
<1>4. ASSUME IInv, HistoryInv, [Next]_vars, NEW c \in Clients, NEW i \in Present \cap Present'
      PROVE  memory_get(c, i) \subseteq memory_get(c, i)'
  <2>0. IInv'
    BY <1>4, NextInv
  <2>1. PICK V : V = Visible(c)
    OBVIOUS
  <2>2. PICK V2 : V2 = Visible(c)'
    OBVIOUS
  <2>3. PICK R2 : R2 = rows'
    OBVIOUS
  <2>4. V = {j \in Present : rows[j].tenant = TenantOf[c]} /\ V2 = {j \in Present' : R2[j].tenant = TenantOf[c]}
    BY <2>1, <2>2, <2>3 DEF Visible
  <2>5. V \subseteq Ids /\ \A j \in V : rows[j].supersedes \in IdOrNone
    BY <1>4, <2>4 DEF IInv, TypeOK, Present, Row
  <2>6. V2 \subseteq Ids /\ \A j \in V2 : R2[j].supersedes \in IdOrNone
    BY <2>0, <2>3, <2>4 DEF IInv, TypeOK, Present, Row
  <2>7. i \in Ids /\ (i \in V => i \in V2)
    BY <1>3, <1>4, <2>3, <2>4 DEF IInv, TypeOK, Present
  <2>8. ASSUME NEW j \in V \cap V2
        PROVE  R2[j].supersedes = rows[j].supersedes /\ rows[j].supersedes \in V2 \cup {None}
    <3>1. R2[j].supersedes = rows[j].supersedes
      BY <1>3, <1>4, <2>3, <2>4, <2>8
    <3>2. R2[j].supersedes # None => R2[j].supersedes \in Present' /\ R2[R2[j].supersedes].tenant = R2[j].tenant
      BY <2>0, <2>3, <2>4, <2>8 DEF IInv, LinksIntact
    <3> QED BY <2>4, <2>8, <3>1, <3>2
  <2>9. PICK R : R = rows
    OBVIOUS
  <2>9a. PICK f : f = Back(R, V, i)
    OBVIOUS
  <2>10. PICK g : g = Back(R2, V2, i)
    OBVIOUS
  <2>11. \A n \in 0 .. MaxId : f[n] \in V => f[n] \in V2 /\ g[n] = f[n]
    <3>1. SameBefore(R, V, R2, V2)
      BY <2>5, <2>6, <2>8, <2>9 DEF SameBefore
    <3>2. \A n \in 0 .. MaxId : Back(R, V, i)[n] \in V =>
             Back(R, V, i)[n] \in V2 /\ Back(R2, V2, i)[n] = Back(R, V, i)[n]
      BY <2>7, <3>1, BackAgrees
    <3> QED BY <2>9a, <2>10, <3>2
  <2>12. memory_get(c, i) = {f[n] : n \in 0 .. MaxId} \cap V
    BY <2>1, <2>9, <2>9a DEF memory_get, Back
  <2>13. memory_get(c, i)' = {g[n] : n \in 0 .. MaxId} \cap V2
    BY <2>2, <2>3, <2>10 DEF memory_get, Back
  <2> QED BY <2>11, <2>12, <2>13
<1>5. IInv /\ HistoryInv /\ [Next]_vars =>
        [\A c \in Clients, i \in DOMAIN rows \cap DOMAIN rows' :
            rows[i].type \in VERSIONED_TYPES =>
               /\ rows'[i].content = rows[i].content
               /\ memory_get(c, i) \subseteq memory_get(c, i)']_vars
  BY <1>3, <1>4 DEF Present
<1> QED BY <1>1, <1>2, <1>5, PTL DEF Spec, HistoryPreserved

----------------------------------------------------------------------------
(* Version chains.                                                          *)

\* The walk to the first version, for a table R with the rows D.
ToOrigin(R, i) ==
    LET step[n \in 0..MaxId] ==
          IF n = 0 THEN i
          ELSE LET p == R[step[n-1]].supersedes IN IF p = None THEN step[n-1] ELSE p
    IN  step
Linked(R, D) ==
    D \subseteq Ids /\ \A j \in D : R[j].supersedes \in D \cup {None} /\ R[j].supersedes < j
Step(R, j) == IF R[j].supersedes = None THEN j ELSE R[j].supersedes

LEMMA ToOriginDef ==
    ASSUME NEW R, NEW D, Linked(R, D), NEW i \in D
    PROVE  /\ ToOrigin(R, i) \in [0 .. MaxId -> D] /\ ToOrigin(R, i)[0] = i
           /\ \A k \in 1 .. MaxId : ToOrigin(R, i)[k] = Step(R, ToOrigin(R, i)[k - 1])
<1> DEFINE Sol(w) == w = [n \in 0..MaxId |-> IF n = 0 THEN i ELSE Step(R, w[n - 1])]
<1>0. MaxId \in Nat
  BY StoreAssumption
<1>1. PICK F : F = [j \in D |-> Step(R, j)]
  OBVIOUS
<1>2. F \in [D -> D]
  BY <1>1 DEF Linked, Step
<1> HIDE DEF Sol
<1>3. PICK f : f \in [0 .. MaxId -> D] /\ f[0] = i /\ \A k \in 1 .. MaxId : f[k] = F[f[k - 1]]
  <2>1. \E f : Iteration(D, F, i, MaxId, f)
    BY <1>0, <1>2, Iterates
  <2> QED BY <2>1 DEF Iteration
<1>4. ASSUME NEW k \in 1 .. MaxId PROVE f[k] = Step(R, f[k - 1])
  <2>1. k - 1 \in 0 .. MaxId
    BY <1>0
  <2> QED BY <1>1, <1>3, <2>1
<1>5. Sol(f)
  BY <1>0, <1>3, <1>4 DEF Sol
<1>6. ToOrigin(R, i) = CHOOSE w : Sol(w)
  BY DEF ToOrigin, Sol, Step
<1>7. Sol(ToOrigin(R, i))
  BY <1>5, <1>6
<1>8. PICK g : g = ToOrigin(R, i)
  OBVIOUS
<1>9. g = [n \in 0..MaxId |-> IF n = 0 THEN i ELSE Step(R, g[n - 1])]
  BY <1>7, <1>8 DEF Sol
<1>10. g[0] = i /\ \A k \in 1 .. MaxId : g[k] = Step(R, g[k - 1])
  BY <1>0, <1>9
<1>11. g \in [0 .. MaxId -> D]
  <2> DEFINE S == {n \in Nat : g[n] \in D}
  <2>1. 0 \in S
    BY <1>10
  <2>2. ASSUME NEW n \in 0 .. MaxId - 1, n \in S PROVE n + 1 \in S
    <3>1. n + 1 \in 1 .. MaxId /\ (n + 1) - 1 = n /\ n + 1 \in Nat
      BY <1>0
    <3>2. g[n + 1] = Step(R, g[n])
      BY <1>10, <3>1
    <3> QED BY <2>2, <3>1, <3>2 DEF Linked, Step
  <2>3. \A n \in 0 .. MaxId : n \in S
    <3> HIDE DEF S
    <3> QED BY <1>0, <2>1, <2>2, UpTo
  <2>4. \A n \in 0 .. MaxId : g[n] \in D
    BY <2>3
  <2>5. g = [n \in 0..MaxId |-> g[n]]
    BY <1>9
  <2> QED BY <2>4, <2>5
<1> QED BY <1>8, <1>10, <1>11

\* A later version has the origin of the version before it: the walk goes to older
\* rows, so it has arrived one step before the bound.
LEMMA OriginOfNext ==
    ASSUME NEW R, NEW D, Linked(R, D), NEW i \in D, R[i].supersedes # None
    PROVE  R[i].supersedes \in D /\ ToOrigin(R, i)[MaxId] = ToOrigin(R, R[i].supersedes)[MaxId]
<1>1. PICK p : p = R[i].supersedes
  OBVIOUS
<1>2. MaxId \in Nat /\ p \in D /\ p \in 1 .. MaxId /\ p < i /\ i \in 1 .. MaxId
  BY <1>1, StoreAssumption DEF Linked, Ids, None
<1>3. PICK f : f = ToOrigin(R, i)
  OBVIOUS
<1>4. PICK g : g = ToOrigin(R, p)
  OBVIOUS
<1>5. f[0] = i /\ \A k \in 1 .. MaxId : f[k] = Step(R, f[k - 1])
  BY <1>3, ToOriginDef
<1>6. g \in [0 .. MaxId -> D] /\ g[0] = p /\ \A k \in 1 .. MaxId : g[k] = Step(R, g[k - 1])
  <2>1. \A q \in D : /\ ToOrigin(R, q) \in [0 .. MaxId -> D] /\ ToOrigin(R, q)[0] = q
                     /\ \A k \in 1 .. MaxId : ToOrigin(R, q)[k] = Step(R, ToOrigin(R, q)[k - 1])
    BY ToOriginDef
  <2> QED BY <1>2, <1>4, <2>1
<1> DEFINE S == {n \in Nat : n + 1 <= MaxId => f[n + 1] = g[n]}
           T == {n \in Nat : R[g[n]].supersedes = None \/ g[n] <= p - n}
<1>7. 0 \in S
  <2>1. 1 \in 1 .. MaxId /\ 1 - 1 = 0
    BY <1>2
  <2>2. f[1] = Step(R, f[0])
    BY <1>5, <2>1
  <2> QED BY <1>1, <1>5, <1>6, <2>2 DEF Step
<1>8. ASSUME NEW n \in 0 .. MaxId - 1, n \in S PROVE n + 1 \in S
  <2>1. n + 1 \in 1 .. MaxId /\ (n + 1) - 1 = n /\ n + 1 \in Nat /\ n + 1 <= MaxId
    BY <1>2
  <2>2. CASE (n + 1) + 1 <= MaxId
    <3>1. (n + 1) + 1 \in 1 .. MaxId /\ ((n + 1) + 1) - 1 = n + 1
      BY <2>1, <2>2
    <3>2. f[(n + 1) + 1] = Step(R, f[n + 1])
      BY <1>5, <3>1
    <3>3. g[n + 1] = Step(R, g[n])
      BY <1>6, <2>1
    <3>4. f[n + 1] = g[n]
      BY <1>8, <2>1
    <3> QED BY <2>1, <3>2, <3>3, <3>4
  <2> QED BY <2>1, <2>2
<1>9. \A n \in 0 .. MaxId : n \in S
  <2> HIDE DEF S
  <2> QED BY <1>2, <1>7, <1>8, UpTo
<1>10. 0 \in T
  BY <1>2, <1>6
<1>11. ASSUME NEW n \in 0 .. MaxId - 1, n \in T PROVE n + 1 \in T
  <2>1. n + 1 \in 1 .. MaxId /\ (n + 1) - 1 = n /\ n + 1 \in Nat
    BY <1>2
  <2>2. g[n + 1] = Step(R, g[n])
    BY <1>6, <2>1
  <2>3. PICK a : a = g[n]
    OBVIOUS
  <2>4. a \in D /\ a \in Nat
    BY <1>2, <1>6, <2>3 DEF Linked, Ids
  <2>5. CASE R[a].supersedes = None
    BY <2>1, <2>2, <2>3, <2>5 DEF Step
  <2>6. CASE R[a].supersedes # None
    <3>1. a <= p - n
      BY <1>11, <2>3, <2>6
    <3>2. R[a].supersedes \in Nat /\ R[a].supersedes < a
      <4>1. R[a].supersedes \in D /\ R[a].supersedes < a
        BY <2>4, <2>6 DEF Linked
      <4>2. \A d \in D : d \in Nat
        BY <1>2 DEF Linked, Ids
      <4> QED BY <4>1, <4>2
    <3>3. R[a].supersedes <= p - (n + 1)
      BY <1>2, <2>4, <3>1, <3>2
    <3>4. g[n + 1] = R[a].supersedes
      BY <2>2, <2>3, <2>6 DEF Step
    <3> QED BY <2>1, <3>3, <3>4
  <2> QED BY <2>5, <2>6
<1>12. \A n \in 0 .. MaxId : n \in T
  <2> HIDE DEF T
  <2> QED BY <1>2, <1>10, <1>11, UpTo
<1>13. PICK m : m = MaxId - 1
  OBVIOUS
<1>14. m \in 0 .. MaxId /\ m \in Nat /\ m + 1 = MaxId /\ MaxId \in 1 .. MaxId /\ MaxId - 1 = m
  BY <1>2, <1>13
<1>15. f[MaxId] = g[m]
  BY <1>9, <1>14
<1>16. R[g[m]].supersedes = None
  <2>1. g[m] \in 1 .. MaxId
    BY <1>6, <1>14 DEF Linked, Ids
  <2>2. ~(g[m] <= p - m)
    BY <1>2, <1>14, <2>1
  <2> QED BY <1>12, <1>14, <2>2
<1>17. g[MaxId] = g[m]
  BY <1>6, <1>14, <1>16 DEF Step
<1> QED BY <1>1, <1>2, <1>3, <1>4, <1>15, <1>17

\* Tables that agree on the links of the rows they share agree on origins.
SameLinks(R, D, R2, D2) ==
    Linked(R, D) /\ Linked(R2, D2) /\ \A j \in D \cap D2 : R2[j].supersedes = R[j].supersedes
LEMMA SameOrigin ==
    ASSUME NEW R, NEW D, NEW R2, NEW D2, SameLinks(R, D, R2, D2), NEW i \in D \cap D2
    PROVE  ToOrigin(R2, i)[MaxId] = ToOrigin(R, i)[MaxId]
<1>0. MaxId \in Nat
  BY StoreAssumption
<1>1. PICK f : f = ToOrigin(R, i)
  OBVIOUS
<1>2. PICK g : g = ToOrigin(R2, i)
  OBVIOUS
<1>3. f \in [0 .. MaxId -> D] /\ f[0] = i /\ \A k \in 1 .. MaxId : f[k] = Step(R, f[k - 1])
  BY <1>1, ToOriginDef DEF SameLinks
<1>4. g \in [0 .. MaxId -> D2] /\ g[0] = i /\ \A k \in 1 .. MaxId : g[k] = Step(R2, g[k - 1])
  BY <1>2, ToOriginDef DEF SameLinks
<1> DEFINE S == {n \in Nat : g[n] = f[n]}
<1>5. 0 \in S
  BY <1>3, <1>4
<1>6. ASSUME NEW n \in 0 .. MaxId - 1, n \in S PROVE n + 1 \in S
  <2>1. n + 1 \in 1 .. MaxId /\ (n + 1) - 1 = n /\ n + 1 \in Nat /\ n \in 0 .. MaxId
    BY <1>0
  <2>2. f[n + 1] = Step(R, f[n]) /\ g[n + 1] = Step(R2, g[n])
    BY <1>3, <1>4, <2>1
  <2>3. f[n] \in D /\ g[n] \in D2 /\ g[n] = f[n]
    BY <1>3, <1>4, <1>6, <2>1
  <2> QED BY <2>1, <2>2, <2>3 DEF SameLinks, Step
<1>7. \A n \in 0 .. MaxId : n \in S
  <2> HIDE DEF S
  <2> QED BY <1>0, <1>5, <1>6, UpTo
<1> QED BY <1>0, <1>1, <1>2, <1>7

\* Versions are linked to older rows, and no call is about to relink rows.
LinkInv ==
    /\ \A i \in Present : rows[i].supersedes < i
    /\ \A c \in Clients : tx[c].op # "supersede"

LEMMA ChainLinked ==
    ASSUME IInv, \A i \in Present : rows[i].supersedes < i
    PROVE  Linked(rows, Present) /\ \A i \in Present : Origin(i) = ToOrigin(rows, i)[MaxId]
<1>1. Linked(rows, Present)
  BY DEF Linked, IInv, TypeOK, LinksIntact, Present
<1> QED BY <1>1 DEF Origin, ToOrigin

LEMMA ChainLinkedNext ==
    ASSUME IInv', \A i \in Present' : rows'[i].supersedes < i
    PROVE  Linked(rows', Present') /\ \A i \in Present' : Origin(i)' = ToOrigin(rows', i)[MaxId]
<1>1. Linked(rows', Present')
  BY DEF Linked, IInv, TypeOK, LinksIntact, Present
<1> QED BY <1>1 DEF Origin, ToOrigin

\* Without memory_supersede no link changes, new links lead to older rows, and no
\* version changes its chain.
LEMMA LinkStep ==
    ASSUME IInv, LinkInv, [Next]_vars
    PROVE  /\ \A i \in Present \cap Present' : rows'[i].supersedes = rows[i].supersedes
           /\ \A i \in Present' : rows'[i].supersedes < i
           /\ \A i \in Present \cap Present' : Origin(i)' = Origin(i)
<1>1. ASSUME NEW i \in Present \cap Present' PROVE rows'[i].supersedes = rows[i].supersedes
  <2>1. CASE UNCHANGED rows
    BY <2>1
  <2>2. CASE Job
    BY <1>1, <2>2, JobFrame
  <2>3. ASSUME NEW c \in Clients, BeginStep(c) PROVE UNCHANGED rows
    BY <2>3, BeginReads
  <2>4. ASSUME NEW c \in Clients, CommitStep(c) PROVE rows'[i].supersedes = rows[i].supersedes
    <3>1. ~SupersedeCommit(c)
      BY DEF SupersedeCommit, LinkInv
    <3> QED BY <1>1, <2>4, <3>1, CommitFrame
  <2> QED BY <2>1, <2>2, <2>3, <2>4 DEF Next, NewDay, vars, ClientStep, BeginStep, CommitStep, Job
<1>2. ASSUME NEW i \in Present' PROVE i \in Present \/ rows'[i].supersedes < i
  <2>1. CASE UNCHANGED rows
    BY <1>2, <2>1 DEF Present
  <2>2. CASE Job
    BY <1>2, <2>2, JobFrame
  <2>3. ASSUME NEW c \in Clients, BeginStep(c) PROVE UNCHANGED rows
    BY <2>3, BeginReads
  <2>4. ASSUME NEW c \in Clients, CommitStep(c), i \notin Present PROVE rows'[i].supersedes < i
    <3>1. i = nextId /\ rows'[i] = NewRow(c)
      BY <1>2, <2>4, CommitDomain DEF Grows
    <3>2. tx[c].id \in 0 .. (nextId - 1) /\ nextId \in Nat
      BY StoreAssumption DEF IInv, TxInv, TypeOK
    <3> QED BY <3>1, <3>2 DEF NewRow
  <2> QED BY <1>2, <2>1, <2>2, <2>3, <2>4 DEF Next, NewDay, vars, ClientStep, BeginStep, CommitStep, Job,
      Present
<1>3. \A i \in Present' : rows'[i].supersedes < i
  BY <1>1, <1>2 DEF LinkInv
<1>4. IInv'
  BY NextInv
<1>5. Linked(rows, Present) /\ \A i \in Present : Origin(i) = ToOrigin(rows, i)[MaxId]
  BY ChainLinked DEF LinkInv
<1>6. Linked(rows', Present') /\ \A i \in Present' : Origin(i)' = ToOrigin(rows', i)[MaxId]
  BY <1>3, <1>4, ChainLinkedNext
<1>7. ASSUME NEW i \in Present \cap Present' PROVE Origin(i)' = Origin(i)
  <2>1. PICK R : R = rows
    OBVIOUS
  <2>2. PICK D : D = Present
    OBVIOUS
  <2>3. PICK R2 : R2 = rows'
    OBVIOUS
  <2>4. PICK D2 : D2 = Present'
    OBVIOUS
  <2>5. SameLinks(R, D, R2, D2)
    BY <1>1, <1>5, <1>6, <2>1, <2>2, <2>3, <2>4 DEF SameLinks
  <2>6. i \in D \cap D2
    BY <1>7, <2>2, <2>4
  <2>7. ToOrigin(R2, i)[MaxId] = ToOrigin(R, i)[MaxId]
    BY <2>5, <2>6, SameOrigin
  <2> QED BY <1>5, <1>6, <1>7, <2>1, <2>3, <2>7
<1> QED BY <1>1, <1>3, <1>7

\* LinkInv is inductive.
LEMMA LinkCalls ==
    ASSUME IInv, LinkInv, [Next]_vars, "supersede" \notin Ops
    PROVE  LinkInv'
<1>1. \A i \in Present' : rows'[i].supersedes < i
  BY LinkStep
<1>2. ASSUME NEW d \in Clients PROVE tx'[d].op # "supersede"
  <2>1. CASE UNCHANGED tx
    BY <2>1 DEF LinkInv
  <2>2. ASSUME NEW c \in Clients, BeginStep(c) PROVE tx'[d].op # "supersede"
    <3>1. Reads(c, tx'[c]) /\ \A e \in Clients \ {c} : tx'[e] = tx[e]
      BY <2>2, BeginReads
    <3>2. PICK t : t = tx'[c]
      OBVIOUS
    <3>3. t.op # "supersede"
      BY <3>1, <3>2 DEF Reads, ReadMerge, ReadInsert, ReadVersion, ReadInPlace, ReadSupersede,
         ReadDelete, ReadUndelete
    <3> QED BY <3>1, <3>2, <3>3 DEF LinkInv
  <2>3. ASSUME NEW c \in Clients, CommitStep(c) PROVE tx'[d].op # "supersede"
    <3>1. tx'[c] = Idle /\ \A e \in Clients \ {c} : tx'[e] = tx[e]
      BY <2>3, CommitEnds
    <3> QED BY <3>1 DEF LinkInv, Idle
  <2> QED BY <2>1, <2>2, <2>3 DEF Next, NewDay, vars, ClientStep, BeginStep, CommitStep, ExpireTransient,
      RetentionMemories
<1> QED BY <1>1, <1>2 DEF LinkInv

\* A live version that is not current has a live successor, no version is older than
\* the one before it or a reply, and a call still finds what it has decided on.
HasSuccessor(i) == \E k \in Present : Live(k) /\ rows[k].supersedes = i
LiveCall(c) ==
    /\ tx[c].op # "undelete" /\ tx[c].day <= today
    /\ tx[c].op = "insert" => tx[c].id = None
    /\ tx[c].op = "new_version" =>
          tx[c].other = None /\ (tx[c].id \in Present => rows[tx[c].id].created <= tx[c].day)
    /\ tx[c].op \in {"delete", "cascade"} => tx[c].stamp # 0
    /\ tx[c].op = "delete" /\ tx[c].id \in Present => tx[c].other = rows[tx[c].id].supersedes
VersionRow(i) ==
    /\ rows[i].created <= today
    /\ rows[i].supersedes # None =>
          rows[i].parent_id = None /\ rows[rows[i].supersedes].created <= rows[i].created
LiveInv ==
    /\ LinkInv
    /\ \A i \in Present : VersionRow(i)
    /\ \A i \in Present : Live(i) => rows[i].is_current \/ HasSuccessor(i)
    /\ \A c \in Clients : LiveCall(c)

\* What a deletion does to each row.
LEMMA DeleteRows ==
    ASSUME IInv, NEW c \in Clients, DeleteCommit(c), tx[c].stamp # 0, NEW j \in Present
    PROVE  /\ j = tx[c].id => Deleted(j)'
           /\ ~Deleted(j)' => ~Deleted(j)
           /\ Deleted(j)' => Deleted(j) \/ j = tx[c].id \/ rows[j].parent_id = tx[c].id
           /\ ~Deleted(j)' =>
                 rows'[j].is_current = (rows[j].is_current \/ (j = tx[c].other /\ j # tx[c].id))
<1> DEFINE i == tx[c].id
           at == [day |-> tx[c].day, stamp |-> tx[c].stamp]
           promoted == {k \in {tx[c].other} \ {i} : Live(k)}
           gone == IF tx[c].root /\ i \in Present THEN Replies(i) \ {i} ELSE {}
<1>0. rows[j] \in Row
  BY DEF IInv, TypeOK, Present
<1>1. i \notin gone /\ i \notin promoted
  OBVIOUS
<1>2. rows' = [k \in Present |->
                 CASE k = i -> SoftDelete(rows[k], at)
                   [] k \in gone -> SoftDelete(rows[k], at)
                   [] k \in promoted \ gone -> [rows[k] EXCEPT !.is_current = TRUE]
                   [] OTHER -> rows[k]]
  BY DEF DeleteCommit
<1>3. PICK s : s = SoftDelete(rows[j], at)
  OBVIOUS
<1>4. s.deleted_at.stamp # 0
  BY <1>0, <1>3 DEF SoftDelete, Row
<1>5. CASE j = i \/ j \in gone
  <2>1. rows'[j] = s
    BY <1>1, <1>2, <1>3, <1>5
  <2>2. Deleted(j)'
    BY <1>4, <2>1 DEF Deleted
  <2> QED BY <1>5, <2>2 DEF Replies
<1>6. CASE j # i /\ j \notin gone /\ j \in promoted
  <2>1. rows'[j] = [rows[j] EXCEPT !.is_current = TRUE]
    BY <1>2, <1>6
  <2>2. (rows'[j].is_current = TRUE) /\ (Deleted(j)' <=> Deleted(j)) /\ j = tx[c].other
    BY <1>0, <1>6, <2>1 DEF Row, Deleted
  <2> QED BY <1>6, <2>2
<1>7. CASE j # i /\ j \notin gone /\ j \notin promoted
  <2>1. rows'[j] = rows[j]
    BY <1>2, <1>7
  <2>2. j = tx[c].other => Deleted(j)
    BY <1>7 DEF Live
  <2>3. (Deleted(j)' <=> Deleted(j)) /\ (rows'[j].is_current = rows[j].is_current)
    BY <2>1 DEF Deleted
  <2>4. rows[j].is_current \in BOOLEAN
    BY <1>0 DEF Row
  <2> QED BY <1>7, <2>2, <2>3, <2>4
<1> QED BY <1>5, <1>6, <1>7

\* What a deletion with all the versions before does.
LEMMA CascadeRows ==
    ASSUME IInv, NEW c \in Clients, CascadeCommit(c), tx[c].stamp # 0, NEW j \in Present
    PROVE  /\ ~Deleted(j)' => ~Deleted(j) /\ rows'[j] = rows[j]
           /\ Deleted(j)' => Deleted(j) \/ j \in Chain(tx[c].id) \/ rows[j].parent_id = tx[c].id
           /\ j \in Chain(tx[c].id) => Deleted(j)'
<1> DEFINE i == tx[c].id
           at == IF Deleted(i) THEN rows[i].deleted_at ELSE [day |-> tx[c].day, stamp |-> tx[c].stamp]
           chain == {k \in Chain(i) : Live(k)}
           gone == IF tx[c].root THEN Replies(i) \ chain ELSE {}
<1>0. rows[j] \in Row
  BY DEF IInv, TypeOK, Present
<1>1. rows' = [k \in Present |-> IF k \in chain \cup gone THEN SoftDelete(rows[k], at) ELSE rows[k]]
  BY DEF CascadeCommit
<1>2. at.stamp # 0
  BY DEF Deleted
<1>3. PICK a : a = at
  OBVIOUS
<1>4. PICK s : s = SoftDelete(rows[j], a)
  OBVIOUS
<1>5. s.deleted_at.stamp # 0
  BY <1>0, <1>2, <1>3, <1>4 DEF SoftDelete, Row
<1>6. CASE j \in chain \cup gone
  <2>1. rows'[j] = s
    BY <1>1, <1>3, <1>4, <1>6
  <2>2. Deleted(j)'
    BY <1>5, <2>1 DEF Deleted
  <2> QED BY <1>6, <2>2 DEF Replies
<1>7. CASE j \notin chain \cup gone
  <2>1. rows'[j] = rows[j]
    BY <1>1, <1>7
  <2>2. j \in Chain(i) => Deleted(j)
    BY <1>7 DEF Live
  <2> QED BY <2>1, <2>2 DEF Deleted
<1> QED BY <1>6, <1>7

\* Every commit leaves a live version that is not current a live successor.
LEMMA LiveCommit ==
    ASSUME IInv, LiveInv, NEW c \in Clients, CommitStep(c), NEW i \in Present, Live(i)',
           ~rows'[i].is_current
    PROVE  HasSuccessor(i)'
<1>0. /\ rows[i] \in Row /\ i # None /\ i # nextId
      /\ tx[c].op \notin {"supersede", "undelete"} /\ LiveCall(c)
      /\ Present \subseteq Present' /\ None \notin Present
  <2>1. Present \subseteq Present'
    BY CommitDomain DEF Grows
  <2> QED BY <2>1, StoreAssumption DEF IInv, TypeOK, Present, Ids, None, RowsAllocated, LiveInv, LinkInv, LiveCall
<1>1. \A k \in Present : rows'[k].supersedes = rows[k].supersedes
  BY <1>0, CommitFrame DEF SupersedeCommit
<1>2. ASSUME Live(i), ~rows[i].is_current,
             \A k \in Present : Live(k) /\ rows[k].supersedes = i => Live(k)'
      PROVE  HasSuccessor(i)'
  <2>1. PICK k \in Present : Live(k) /\ rows[k].supersedes = i
    BY <1>2 DEF LiveInv, HasSuccessor
  <2> QED BY <1>0, <1>1, <1>2, <2>1 DEF HasSuccessor
<1>3. ASSUME \A k \in Present : (Deleted(k)' <=> Deleted(k)) /\ (rows'[k].is_current <=> rows[k].is_current)
      PROVE  HasSuccessor(i)'
  BY <1>0, <1>2, <1>3 DEF Live
<1>4. CASE MergeCommit(c) \/ Rollback(c) \/ InsertCommit(c)
  <2>1. \A k \in Present : rows'[k] = rows[k]
    BY <1>4, StoreAssumption DEF MergeCommit, Rollback, InsertCommit, Insert, IInv, RowsAllocated, TypeOK
  <2> QED BY <1>3, <2>1 DEF Deleted
<1>5. CASE InPlaceCommit(c)
  <2>1. ASSUME NEW k \in Present
        PROVE  (Deleted(k)' <=> Deleted(k)) /\ (rows'[k].is_current <=> rows[k].is_current)
    <3>1. PICK ty, x : rows'[k] = rows[k] \/ rows'[k] = [rows[k] EXCEPT !.type = ty, !.content = x]
      BY <1>5 DEF InPlaceCommit
    <3>2. rows[k] \in Row
      BY DEF IInv, TypeOK, Present
    <3> QED BY <3>1, <3>2 DEF Row, Deleted
  <2> QED BY <1>3, <2>1
<1>6. CASE NewVersionCommit(c)
  <2>1. \A k \in Present : rows'[k] = IF k = tx[c].id THEN Superseded(rows[k], nextId) ELSE rows[k]
    BY <1>6, StoreAssumption DEF NewVersionCommit, Insert, Present, IInv, RowsAllocated, TypeOK
  <2>2. ASSUME NEW k \in Present PROVE Deleted(k)' <=> Deleted(k)
    <3>1. rows[k] \in Row
      BY DEF IInv, TypeOK, Present
    <3> QED BY <2>1, <3>1 DEF Superseded, Row, Deleted
  <2>3. CASE i = tx[c].id
    <3>1. nextId \in Present' /\ rows'[nextId] = NewRow(c)
      BY <1>6 DEF NewVersionCommit, Insert, Present
    <3>2. rows'[nextId].supersedes = i /\ rows'[nextId].deleted_at.stamp = 0
      BY <2>3, <3>1 DEF NewRow, Null
    <3> QED BY <3>1, <3>2 DEF HasSuccessor, Live, Deleted
  <2>4. CASE i # tx[c].id
    <3>1. rows'[i] = rows[i]
      BY <2>1, <2>4
    <3>2. Live(i) /\ \A k \in Present : Live(k) => Live(k)'
      BY <1>0, <2>2 DEF Live
    <3> QED BY <1>2, <3>1, <3>2
  <2> QED BY <2>3, <2>4
<1>7. CASE DeleteCommit(c)
  <2>1. \A j \in Present :
           /\ j = tx[c].id => Deleted(j)'
           /\ ~Deleted(j)' => ~Deleted(j)
           /\ Deleted(j)' => Deleted(j) \/ j = tx[c].id \/ rows[j].parent_id = tx[c].id
           /\ ~Deleted(j)' =>
                 rows'[j].is_current = (rows[j].is_current \/ (j = tx[c].other /\ j # tx[c].id))
    BY <1>0, <1>7, DeleteRows DEF LiveCall, DeleteCommit
  <2>2. ~Deleted(i)' /\ i # tx[c].id /\ ~Deleted(i)
    BY <2>1 DEF Live
  <2>3. ~rows[i].is_current /\ i # tx[c].other
    BY <2>1, <2>2
  <2>4. ASSUME NEW k \in Present, Live(k), rows[k].supersedes = i PROVE Live(k)'
    <3>1. k # tx[c].id
      BY <1>0, <1>7, <2>3, <2>4 DEF LiveCall, DeleteCommit
    <3>2. CASE tx[c].id \in Present
      <4>1. rows[k].parent_id # tx[c].id
        BY <1>0, <2>4, <3>2 DEF LiveInv, VersionRow
      <4> QED BY <1>0, <2>1, <2>4, <3>1, <4>1 DEF Live
    <3>3. CASE tx[c].id \notin Present
      <4>1. Deleted(k)' <=> Deleted(k)
        <5>1. rows'[k] = rows[k] \/ rows'[k] = [rows[k] EXCEPT !.is_current = TRUE]
          BY <1>7, <3>1, <3>3 DEF DeleteCommit
        <5>2. rows[k] \in Row
          BY DEF IInv, TypeOK, Present
        <5> QED BY <5>1, <5>2 DEF Row, Deleted
      <4> QED BY <1>0, <2>4, <4>1 DEF Live
    <3> QED BY <3>2, <3>3
  <2> QED BY <1>2, <2>2, <2>3, <2>4 DEF Live
<1>8. CASE CascadeCommit(c)
  <2>1. \A j \in Present :
           /\ ~Deleted(j)' => ~Deleted(j) /\ rows'[j] = rows[j]
           /\ Deleted(j)' => Deleted(j) \/ j \in Chain(tx[c].id) \/ rows[j].parent_id = tx[c].id
           /\ j \in Chain(tx[c].id) => Deleted(j)'
    BY <1>0, <1>8, CascadeRows DEF LiveCall, CascadeCommit
  <2>2. ~Deleted(i)' /\ ~Deleted(i) /\ ~rows[i].is_current
    BY <2>1 DEF Live
  <2>3. ASSUME NEW k \in Present, Live(k), rows[k].supersedes = i PROVE Live(k)'
    <3>1. tx[c].id \in Present /\ WalkEnds(tx[c].id)
      BY <1>8 DEF CascadeCommit
    <3>2. rows[k].parent_id # tx[c].id
      BY <1>0, <2>3, <3>1 DEF LiveInv, VersionRow
    <3>3. k \notin Chain(tx[c].id)
      <4> SUFFICES ASSUME k \in Chain(tx[c].id) PROVE FALSE
        OBVIOUS
      <4>1. i \in Chain(tx[c].id)
        BY <2>2, <2>3, <3>1, WalkGoesOn DEF Live
      <4> QED BY <2>1, <2>2, <4>1
    <3> QED BY <1>0, <2>1, <2>3, <3>2, <3>3 DEF Live
  <2> QED BY <1>2, <2>2, <2>3 DEF Live
<1>9. ~SupersedeCommit(c) /\ ~UndeleteCommit(c)
  BY <1>0 DEF SupersedeCommit, UndeleteCommit
<1> QED BY <1>4, <1>5, <1>6, <1>7, <1>8, <1>9 DEF CommitStep

\* Retention takes an older version no later than the version after it, and the purge
\* only deleted rows and replies.
LEMMA LiveRetention ==
    ASSUME IInv, LiveInv, RetentionMemories
    PROVE  /\ \A i \in Present' : VersionRow(i)'
           /\ \A i \in Present' : Live(i)' => rows'[i].is_current \/ HasSuccessor(i)'
<1>1. /\ UNCHANGED <<tx, nextId, today>> /\ Present' \subseteq Present
      /\ \A i \in Present' : /\ rows'[i].supersedes = rows[i].supersedes
                             /\ rows'[i].parent_id = rows[i].parent_id
                             /\ (rows'[i].is_current = rows[i].is_current)
                             /\ rows'[i].created = rows[i].created
  BY JobFrame DEF Job
<1>2. IInv'
  BY NextInv DEF Next
<1>3. ASSUME NEW i \in Present' PROVE VersionRow(i)'
  <2>1. VersionRow(i) /\ (rows[i].supersedes # None => rows[i].supersedes \in Present')
    BY <1>1, <1>2, <1>3 DEF LiveInv, IInv, LinksIntact
  <2> QED BY <1>1, <1>3, <2>1 DEF VersionRow
<1>4. PICK s \in 1 .. MaxStamp :
         rows' = [i \in Kept |-> IF i \in PastRetention
                                 THEN [rows[i] EXCEPT !.deleted_at = [day |-> today, stamp |-> s]]
                                 ELSE rows[i]]
  BY DEF RetentionMemories
<1>5. Present' = Kept /\ s # 0
  BY <1>4, StoreAssumption DEF Present
<1>6. ASSUME NEW i \in Present', Live(i)' PROVE rows'[i].is_current \/ HasSuccessor(i)'
  <2>1. rows[i] \in Row /\ i \in Kept /\ i \in Present /\ i \in Ids /\ i # None
    BY <1>1, <1>5, <1>6 DEF IInv, TypeOK, Present, Ids, None
  <2>2. i \notin PastRetention
    <3> SUFFICES ASSUME i \in PastRetention PROVE FALSE
      OBVIOUS
    <3>1. rows'[i] = [rows[i] EXCEPT !.deleted_at = [day |-> today, stamp |-> s]]
      BY <1>4, <2>1
    <3>2. rows'[i].deleted_at.stamp = s
      BY <2>1, <3>1 DEF Row
    <3> QED BY <1>5, <1>6, <3>2 DEF Live, Deleted
  <2>3. Live(i)
    <3>1. rows'[i] = rows[i]
      BY <1>4, <2>1, <2>2
    <3> QED BY <1>6, <2>1, <3>1 DEF Live, Deleted
  <2>4. CASE ~rows[i].is_current
    <3>1. PICK k \in Present : Live(k) /\ rows[k].supersedes = i
      BY <2>1, <2>3, <2>4 DEF LiveInv, HasSuccessor
    <3>2. rows[k].parent_id = None /\ rows[i].created <= rows[k].created
      BY <2>1, <3>1 DEF LiveInv, VersionRow
    <3>3. k \notin PastRetention
      <4>1. rows[i].created \in Nat /\ rows[k].created \in Nat /\ Retention \in Nat /\ today \in Nat
        BY <2>1, <3>1, StoreAssumption DEF IInv, TypeOK, Present, Row
      <4>2. ~(rows[i].created + Retention < today)
        BY <2>1, <2>2, <2>3 DEF PastRetention
      <4>3. ~(rows[k].created + Retention < today)
        BY <3>2, <4>1, <4>2
      <4> QED BY <4>3 DEF PastRetention
    <3>4. k \in Kept
      BY <3>1, <3>2 DEF Kept, Purged, PastGrace, Live, IInv, TypeOK, Present, Ids, None
    <3>5. k \in Present' /\ rows'[k] = rows[k]
      BY <1>4, <1>5, <3>3, <3>4
    <3> QED BY <3>1, <3>5 DEF HasSuccessor, Live, Deleted
  <2> QED BY <1>1, <1>6, <2>4
<1> QED BY <1>3, <1>6

LEMMA LiveStep ==
    ASSUME IInv, LiveInv, [Next]_vars, \A c \in Clients, d \in Clients : c = d,
           Types \subseteq VERSIONED_TYPES, "delete" \in OnlyCurrent,
           Ops \cap {"supersede", "undelete", "expire"} = {}
    PROVE  LiveInv'
<1>0. /\ \A i \in Present \cap Present' : rows'[i].supersedes = rows[i].supersedes
      /\ LinkInv' /\ IInv' /\ today \in Nat
  BY LinkStep, LinkCalls, NextInv DEF LiveInv, IInv, TypeOK
<1>1. ASSUME UNCHANGED <<rows, tx>>, today <= today' PROVE LiveInv'
  <2>1. Present' = Present /\ today' \in Nat /\ \A i \in Present : Live(i)' = Live(i)
    BY <1>0, <1>1 DEF Present, Live, Deleted, IInv, TypeOK
  <2>2. ASSUME NEW i \in Present' PROVE VersionRow(i)'
    <3>1. VersionRow(i) /\ rows[i].created \in Nat
      BY <2>1, <2>2 DEF LiveInv, IInv, TypeOK, Present, Row
    <3> QED BY <1>0, <1>1, <2>1, <3>1 DEF VersionRow
  <2>3. ASSUME NEW i \in Present', Live(i)' PROVE rows'[i].is_current \/ HasSuccessor(i)'
    <3>1. rows[i].is_current \/ HasSuccessor(i)
      BY <2>1, <2>3 DEF LiveInv
    <3> QED BY <1>1, <2>1, <3>1 DEF HasSuccessor
  <2>4. ASSUME NEW c \in Clients PROVE LiveCall(c)'
    <3>1. LiveCall(c) /\ tx[c].day \in Nat
      BY DEF LiveInv, IInv, TypeOK, Tx
    <3> QED BY <1>0, <1>1, <2>1, <3>1 DEF LiveCall
  <2> QED BY <1>0, <2>2, <2>3, <2>4 DEF LiveInv
<1>2. CASE UNCHANGED vars \/ NewDay
  BY <1>0, <1>1, <1>2 DEF vars, NewDay
<1>3. CASE RetentionMemories
  <2>1. /\ \A i \in Present' : VersionRow(i)'
        /\ \A i \in Present' : Live(i)' => rows'[i].is_current \/ HasSuccessor(i)'
    BY <1>3, LiveRetention
  <2>2. /\ UNCHANGED <<tx, today>> /\ Present' \subseteq Present
        /\ \A i \in Present' : rows'[i].created = rows[i].created
    BY <1>3, JobFrame DEF Job
  <2>3. ASSUME NEW c \in Clients PROVE LiveCall(c)'
    <3>1. LiveCall(c)
      BY DEF LiveInv
    <3> QED BY <1>0, <2>2, <3>1 DEF LiveCall
  <2> QED BY <1>0, <2>1, <2>3 DEF LiveInv
<1>4. ASSUME NEW c \in Clients, BeginStep(c) PROVE LiveInv'
  <2>1. /\ UNCHANGED <<rows, today>> /\ Present' = Present /\ Reads(c, tx'[c]) /\ tx'[c].day = today
        /\ \A d \in Clients : d = c
    BY <1>4, BeginReads DEF Present
  <2>2. PICK t : t = tx'[c]
    OBVIOUS
  <2>3. /\ t.op # "undelete"
        /\ t.op = "insert" => t.id = None
        /\ t.op = "new_version" => t.other = None /\ t.id \in Present
        /\ t.op \in {"delete", "cascade"} =>
              t.stamp # 0 /\ t.id \in Present /\ t.other = PriorVersion(t.id) /\ rows[t.id].is_current
    BY <2>1, <2>2 DEF Reads, ReadMerge, ReadInsert, ReadVersion, ReadInPlace, ReadSupersede,
       ReadDelete, ReadUndelete, LiveRows, Visible
  <2>4. t.op = "delete" => t.other = rows[t.id].supersedes
    <3>1. t.id \in Present => rows[t.id].type \in VERSIONED_TYPES
      BY DEF IInv, TypeOK, Present, Row
    <3> QED BY <2>3, <3>1 DEF PriorVersion
  <2>5. t.id \in Present => rows[t.id].created <= today
    BY DEF LiveInv, VersionRow
  <2>6. LiveCall(c)'
    BY <1>0, <2>1, <2>2, <2>3, <2>4, <2>5 DEF LiveCall
  <2>7. ASSUME NEW i \in Present'
        PROVE  VersionRow(i)' /\ (Live(i)' => rows'[i].is_current \/ HasSuccessor(i)')
    <3>1. VersionRow(i) /\ (Live(i) => rows[i].is_current \/ HasSuccessor(i))
      BY <2>1, <2>7 DEF LiveInv
    <3> QED BY <2>1, <3>1 DEF VersionRow, Live, Deleted, HasSuccessor
  <2> QED BY <1>0, <2>1, <2>6, <2>7 DEF LiveInv
<1>5. ASSUME NEW c \in Clients, CommitStep(c) PROVE LiveInv'
  <2>1. tx'[c] = Idle /\ (\A d \in Clients : d = c) /\ today' = today
    <3>1. today' = today
      BY <1>5 DEF CommitStep, MergeCommit, InsertCommit, NewVersionCommit, InPlaceCommit, SupersedeCommit,
         DeleteCommit, CascadeCommit, UndeleteCommit, Rollback
    <3> QED BY <1>5, <3>1, CommitEnds
  <2>2. LiveCall(c)'
    BY <1>0, <2>1 DEF LiveCall, Idle
  <2>3. LiveCall(c)
    BY DEF LiveInv
  <2>4. Present' = Present \/ (Grows(c) /\ (InsertCommit(c) \/ NewVersionCommit(c)))
    BY <1>5, CommitDomain
  <2>5. \A i \in Present : /\ rows'[i].created = rows[i].created /\ rows'[i].parent_id = rows[i].parent_id
                           /\ i \in Present' /\ rows'[i].supersedes = rows[i].supersedes
    BY <1>0, <1>5, <2>4, CommitFrame DEF Grows
  <2>6. ASSUME NEW i \in Present
        PROVE  VersionRow(i)' /\ (Live(i)' => rows'[i].is_current \/ HasSuccessor(i)')
    <3>1. VersionRow(i)
      BY DEF LiveInv
    <3>2. rows[i].supersedes # None => rows[i].supersedes \in Present
      BY DEF IInv, LinksIntact
    <3>3. VersionRow(i)'
      BY <2>1, <2>5, <3>1, <3>2 DEF VersionRow
    <3> QED BY <1>5, <3>3, LiveCommit
  <2>7. ASSUME NEW i \in Present', i \notin Present
        PROVE  VersionRow(i)' /\ rows'[i].is_current
    <3>1. i = nextId /\ rows'[i] = NewRow(c) /\ (InsertCommit(c) \/ NewVersionCommit(c))
      BY <2>4, <2>7 DEF Grows
    <3>2. /\ rows'[i].created = tx[c].day /\ rows'[i].supersedes = tx[c].id
          /\ rows'[i].parent_id = tx[c].other /\ (rows'[i].is_current = TRUE)
      BY <3>1 DEF NewRow
    <3>3. tx[c].id # None => tx[c].op = "new_version" /\ tx[c].id \in Present
      BY <2>3, <3>1 DEF LiveCall, InsertCommit, NewVersionCommit, ForeignKeysHold
    <3> QED BY <2>1, <2>3, <2>5, <3>2, <3>3 DEF VersionRow, LiveCall
  <2> QED BY <1>0, <2>1, <2>2, <2>6, <2>7 DEF LiveInv
<1> QED BY <1>2, <1>3, <1>4, <1>5 DEF Next, ClientStep, BeginStep, CommitStep, ExpireTransient

LEMMA LiveInit == Init => LiveInv
<1> SUFFICES ASSUME Init PROVE LiveInv
  OBVIOUS
<1>1. Present = {}
  BY DEF Init, Present
<1>2. \A c \in Clients : tx[c].op = "idle" /\ tx[c].day = 0 /\ today = 1
  BY DEF Init, Idle
<1> QED BY <1>1, <1>2 DEF LiveInv, LinkInv, LiveCall

\* The newest live version of a chain is current, as it has no successor.
LEMMA NewestIsCurrent == IInv /\ LiveInv => LiveChainHasCurrent
<1> SUFFICES ASSUME IInv, LiveInv, NEW i \in Present, Live(i)
             PROVE  \E j \in Present : Current(j) /\ Origin(j) = Origin(i)
  BY DEF LiveChainHasCurrent
<1> DEFINE S == {k \in Present : Live(k) /\ Origin(k) = Origin(i)}
<1>0. MaxId \in Nat /\ Present \subseteq Ids
  BY StoreAssumption DEF IInv, TypeOK, Present
<1>1. S \in SUBSET Nat /\ S # {} /\ \A k \in S : k <= MaxId
  <2>1. i \in S
    OBVIOUS
  <2>2. \A k \in Present : k \in Nat /\ k <= MaxId
    BY <1>0 DEF Ids
  <2> QED BY <2>1, <2>2
<1>2. PICK m \in S : \A k \in S : k <= m
  <2> HIDE DEF S
  <2> QED BY <1>0, <1>1, Largest
<1>3. rows[m].is_current
  <2> SUFFICES ASSUME ~rows[m].is_current PROVE FALSE
    OBVIOUS
  <2>1. PICK k \in Present : Live(k) /\ rows[k].supersedes = m
    BY <1>2 DEF LiveInv, HasSuccessor
  <2>2. m < k /\ m # None /\ k \in Nat /\ m \in Nat
    BY <1>0, <1>2, <2>1 DEF LiveInv, LinkInv, Ids, None
  <2>3. Linked(rows, Present) /\ \A j \in Present : Origin(j) = ToOrigin(rows, j)[MaxId]
    BY ChainLinked DEF LiveInv, LinkInv
  <2>4. PICK R : R = rows
    OBVIOUS
  <2>5. PICK D : D = Present
    OBVIOUS
  <2>6. Linked(R, D) /\ k \in D /\ R[k].supersedes # None
    BY <2>1, <2>2, <2>3, <2>4, <2>5
  <2>7. ToOrigin(R, k)[MaxId] = ToOrigin(R, R[k].supersedes)[MaxId]
    BY <2>6, OriginOfNext
  <2>8. Origin(k) = Origin(m)
    BY <1>2, <2>1, <2>3, <2>4, <2>7
  <2>9. k \in S
    BY <1>2, <2>1, <2>8
  <2> QED BY <1>2, <2>2, <2>9
<1> QED BY <1>2, <1>3 DEF Current

\* FR-10.6.4: with calls one after the other that delete current versions only, all of
\* a versioned type, and neither memory_supersede, memory_undelete nor lifetimes, a
\* chain with a live version has a current one: a deletion promotes the version before,
\* and the retention job takes the versions of a chain in order.
THEOREM LiveChainStaysVisible ==
    ASSUME \A c \in Clients, d \in Clients : c = d,
           Types \subseteq VERSIONED_TYPES, "delete" \in OnlyCurrent,
           Ops \cap {"supersede", "undelete", "expire"} = {}
    PROVE  Spec => []LiveChainHasCurrent
<1>1. Init => IInv /\ LiveInv
  BY InitInv, LiveInit
<1>2. IInv /\ LiveInv /\ [Next]_vars => IInv' /\ LiveInv'
  BY NextInv, LiveStep
<1>3. IInv /\ LiveInv => LiveChainHasCurrent
  BY NewestIsCurrent
<1> QED BY <1>1, <1>2, <1>3, PTL DEF Spec
=============================================================================
