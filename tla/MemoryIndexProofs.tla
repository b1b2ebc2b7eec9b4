------------------------- MODULE MemoryIndexProofs -------------------------
(* Proofs about MemoryIndex for every value of its constants: type          *)
(* correctness, and passages that match the text they are shown for.        *)
EXTENDS MemoryIndex, TLAPS

\* A chunk set of several chunks is recorded under the hash of the text it was cut from.
\* (A single chunk is recorded under the row's present hash, see BuildReuse.)
HashedAsCut ==
    \A i \in Rows : memory[i].chunk \in Long /\ memory[i].chunk # NoText
                    => memory[i].source_hash = Hash[memory[i].chunk]

IInv == TypeOK /\ HashedAsCut

----------------------------------------------------------------------------
(* Records.                                                                 *)

LEMMA AnyInSets == AnyContent \in Contents /\ AnyRow \in Rows
BY IndexAssumption DEF AnyContent, AnyRow

LEMMA AbsentType == Absent \in Memory
<1>1. 0 \in Nat /\ NoText \in TextOrNone
  BY DEF TextOrNone
<1> QED BY <1>1, AnyInSets, Zenon DEF Absent, Memory

LEMMA NoCallType == NoCall \in Call
BY AnyInSets, Zenon DEF NoCall, Call

\* The fields a step may set in a row.
LEMMA MemoryFields ==
    ASSUME NEW m \in Memory
    PROVE  /\ m.content \in Contents /\ m.embedding \in TextOrNone /\ m.attempts \in Nat
           /\ \A b \in BOOLEAN : /\ [m EXCEPT !.live = b] \in Memory
                                 /\ [m EXCEPT !.current = b] \in Memory
                                 /\ [m EXCEPT !.waiting = b] \in Memory
           /\ \A x \in Contents, v \in TextOrNone :
                 [m EXCEPT !.content = x, !.embedding = v] \in Memory
           /\ \A v \in TextOrNone : [m EXCEPT !.embedding = v, !.status = "ok"] \in Memory
           /\ [m EXCEPT !.status = "validation"] \in Memory
<1>1. m.content \in Contents /\ m.embedding \in TextOrNone /\ m.attempts \in Nat
  BY DEF Memory
<1>2. \A b \in BOOLEAN : /\ [m EXCEPT !.live = b] \in Memory
                         /\ [m EXCEPT !.current = b] \in Memory
                         /\ [m EXCEPT !.waiting = b] \in Memory
  BY Zenon DEF Memory
<1>3. \A x \in Contents, v \in TextOrNone : [m EXCEPT !.content = x, !.embedding = v] \in Memory
  BY Zenon DEF Memory
<1>4. \A v \in TextOrNone : [m EXCEPT !.embedding = v, !.status = "ok"] \in Memory
  BY Zenon DEF Memory
<1>5. [m EXCEPT !.status = "validation"] \in Memory
  BY Zenon DEF Memory
<1> QED BY <1>1, <1>2, <1>3, <1>4, <1>5

LEMMA BuiltType ==
    ASSUME NEW m \in Memory, NEW text \in Contents, NEW hash \in Contents
    PROVE  /\ Built(m, text, hash) \in Memory
           /\ Built(m, text, hash).chunk = text /\ Built(m, text, hash).source_hash = hash
<1>1. 0 \in Nat /\ text \in TextOrNone /\ hash \in TextOrNone
  BY DEF TextOrNone
<1>2. Built(m, text, hash) \in Memory
  BY <1>1, Zenon DEF Built, Memory
<1>3. Built(m, text, hash).chunk = text /\ Built(m, text, hash).source_hash = hash
  BY Zenon DEF Built, Memory
<1> QED BY <1>2, <1>3

LEMMA FailureType ==
    ASSUME NEW m \in Memory, NEW permanent \in BOOLEAN
    PROVE  /\ record_failure(m, permanent) \in Memory
           /\ record_failure(m, permanent).chunk = m.chunk
           /\ record_failure(m, permanent).source_hash = m.source_hash
<1> DEFINE n == m.attempts + 1
           gone == permanent \/ m.attempts + 1 >= MaxAttempts
<1>1. n \in Nat
  <2>1. m.attempts \in Nat
    BY Zenon DEF Memory
  <2> QED BY <2>1
<1>5. gone \in BOOLEAN /\ TRUE \in BOOLEAN
  BY Zenon
<1>2. record_failure(m, permanent) = [m EXCEPT !.attempts = n, !.waiting = TRUE, !.terminal = gone]
  BY Zenon DEF record_failure
<1> HIDE DEF n, gone
<1>3. record_failure(m, permanent) \in Memory
  BY <1>1, <1>2, <1>5, Zenon DEF Memory
<1>4. /\ record_failure(m, permanent).chunk = m.chunk
      /\ record_failure(m, permanent).source_hash = m.source_hash
  BY <1>2, Zenon DEF Memory
<1> QED BY <1>3, <1>4

LEMMA WrittenType ==
    ASSUME NEW x \in Contents, NEW ix \in BOOLEAN, NEW r \in embed_or_skip(x, ix)
    PROVE  LET m == [Absent EXCEPT !.present = TRUE, !.live = TRUE, !.current = TRUE,
                                   !.indexable = ix, !.content = x, !.embedding = r[1], !.status = r[2]]
           IN  m \in Memory /\ m.chunk = NoText
<1>1. r[1] \in TextOrNone /\ r[2] \in {"ok", "oversize", "opt_out", "retryable"}
  BY DEF embed_or_skip, TextOrNone
<1>2. TRUE \in BOOLEAN
  OBVIOUS
<1>3. [Absent EXCEPT !.present = TRUE, !.live = TRUE, !.current = TRUE,
                     !.indexable = ix, !.content = x, !.embedding = r[1], !.status = r[2]] \in Memory
  <2>1. r[2] \in {"ok", "oversize", "opt_out", "retryable", "validation"}
    BY <1>1
  <2> QED BY <1>1, <1>2, <2>1, AbsentType, Zenon DEF Memory
<1>4. [Absent EXCEPT !.present = TRUE, !.live = TRUE, !.current = TRUE,
                     !.indexable = ix, !.content = x, !.embedding = r[1], !.status = r[2]].chunk = NoText
  BY DEF Absent
<1> QED BY <1>3, <1>4

\* What a job reads is a candidate.
LEMMA ReadType == ASSUME TypeOK, NEW i \in Rows PROVE ReadRow(i) \in Candidate
<1>1. memory[i].content \in Contents
  BY MemoryFields DEF TypeOK
<1>2. (memory[i].embedding # NoText) \in BOOLEAN
  OBVIOUS
<1> QED BY <1>1, <1>2, Zenon DEF ReadRow, Candidate

----------------------------------------------------------------------------
(* Steps.                                                                   *)

LEMMA InitInv == Init => IInv
<1> SUFFICES ASSUME Init PROVE IInv
  OBVIOUS
<1>1. TypeOK
  BY AbsentType, NoCallType DEF Init, TypeOK
<1>2. \A i \in Rows : memory[i].chunk = NoText
  BY DEF Init, Absent
<1> QED BY <1>1, <1>2 DEF IInv, HashedAsCut

\* A step that gives one row a new value with the chunks it had, or with none, keeps
\* the invariant; so does one that cuts new chunks under their hash.
LEMMA RowStep ==
    ASSUME IInv, NEW i \in Rows, NEW m \in Memory, memory' = [memory EXCEPT ![i] = m],
           \/ m.chunk = memory[i].chunk /\ m.source_hash = memory[i].source_hash
           \/ m.chunk = NoText \/ m.chunk \notin Long \/ m.source_hash = Hash[m.chunk]
    PROVE  memory' \in [Rows -> Memory] /\ HashedAsCut'
<1>1. memory \in [Rows -> Memory]
  BY DEF IInv, TypeOK
<1>2. memory' \in [Rows -> Memory] /\ memory'[i] = m /\ \A j \in Rows : j # i => memory'[j] = memory[j]
  BY <1>1
<1> QED BY <1>2 DEF IInv, HashedAsCut

LEMMA NextInv == IInv /\ [Next]_vars => IInv'
<1> SUFFICES ASSUME IInv, [Next]_vars PROVE IInv'
  OBVIOUS
<1> USE IndexAssumption
<1>0. /\ memory \in [Rows -> Memory] /\ calls \in [Clients -> Call]
      /\ backfill \subseteq Candidate /\ build \subseteq Candidate /\ updates \in Nat
      /\ \A i \in Rows : memory[i] \in Memory
  BY DEF IInv, TypeOK
<1>1. ASSUME memory' \in [Rows -> Memory] /\ HashedAsCut', UNCHANGED <<calls, updates>>,
             backfill' \subseteq backfill, build' \subseteq build
      PROVE  IInv'
  BY <1>0, <1>1 DEF IInv, TypeOK
<1>2. CASE Write
  <2>1. PICK i \in Rows, x \in Contents, ix \in BOOLEAN :
           /\ ~memory[i].present /\ \A j \in Rows : j < i => memory[j].present
           /\ \E r \in embed_or_skip(x, ix) :
                 memory' = [memory EXCEPT ![i] =
                              [Absent EXCEPT !.present = TRUE, !.live = TRUE, !.current = TRUE,
                                             !.indexable = ix, !.content = x, !.embedding = r[1],
                                             !.status = r[2]]]
    BY <1>2, Zenon DEF Write
  <2>4. PICK r \in embed_or_skip(x, ix) :
           memory' = [memory EXCEPT ![i] =
                        [Absent EXCEPT !.present = TRUE, !.live = TRUE, !.current = TRUE,
                                       !.indexable = ix, !.content = x, !.embedding = r[1], !.status = r[2]]]
    BY <2>1, Zenon
  <2> DEFINE m == [Absent EXCEPT !.present = TRUE, !.live = TRUE, !.current = TRUE,
                                 !.indexable = ix, !.content = x, !.embedding = r[1], !.status = r[2]]
  <2>2. m \in Memory /\ m.chunk = NoText
    BY WrittenType
  <2>3. memory' = [memory EXCEPT ![i] = m]
    BY <2>4, Zenon
  <2> HIDE DEF m
  <2> QED BY <1>1, <1>2, <2>2, <2>3, RowStep DEF Write
<1>3. ASSUME NEW c \in Clients, UpdateBegin(c) PROVE IInv'
  <2>1. PICK i \in Rows, x \in Contents : calls' = [calls EXCEPT ![c] = [busy |-> TRUE, id |-> i, content |-> x]]
    BY <1>3 DEF UpdateBegin
  <2>2. [busy |-> TRUE, id |-> i, content |-> x] \in Call
    BY Zenon DEF Call
  <2>3. calls' \in [Clients -> Call] /\ updates' \in Nat /\ UNCHANGED <<memory, backfill, build>>
    <3>1. calls' \in [Clients -> Call]
      BY <1>0, <2>1, <2>2
    <3> QED BY <1>0, <1>3, <3>1 DEF UpdateBegin
  <2> QED BY <1>0, <2>3 DEF IInv, TypeOK, HashedAsCut
<1>4. ASSUME NEW c \in Clients, UpdateCommit(c) PROVE IInv'
  <2> DEFINE i == calls[c].id
             x == calls[c].content
             v == IF x \in Oversize THEN NoText ELSE x
             m == [memory[i] EXCEPT !.content = x, !.embedding = v]
  <2>1. i \in Rows /\ x \in Contents /\ v \in TextOrNone
    BY <1>0 DEF Call, TextOrNone
  <2>2. m \in Memory
    BY <1>0, <2>1, MemoryFields
  <2>3. m.chunk = memory[i].chunk /\ m.source_hash = memory[i].source_hash
    BY <1>0, <2>1, Zenon DEF Memory
  <2>4. memory' = [memory EXCEPT ![i] = m]
    BY <1>0, <1>4, <2>1 DEF UpdateCommit
  <2>5. memory' \in [Rows -> Memory] /\ HashedAsCut'
    <3> HIDE DEF m, i
    <3> QED BY <2>1, <2>2, <2>3, <2>4, RowStep
  <2>6. calls' \in [Clients -> Call] /\ UNCHANGED <<backfill, build, updates>>
    BY <1>0, <1>4, NoCallType DEF UpdateCommit
  <2> QED BY <1>0, <2>5, <2>6 DEF IInv, TypeOK
<1>5. ASSUME NEW i \in Rows, NEW m \in Memory, memory' = [memory EXCEPT ![i] = m],
             m.chunk = memory[i].chunk /\ m.source_hash = memory[i].source_hash,
             UNCHANGED <<calls, updates>>, backfill' \subseteq backfill, build' \subseteq build
      PROVE  IInv'
  BY <1>1, <1>5, RowStep
<1>6. ASSUME NEW i \in Rows, Delete(i) \/ Undelete(i) \/ Supersede(i) \/ BackoffElapses(i) PROVE IInv'
  <2>1. PICK b \in BOOLEAN : \/ memory' = [memory EXCEPT ![i] = [memory[i] EXCEPT !.live = b]]
                             \/ memory' = [memory EXCEPT ![i] = [memory[i] EXCEPT !.current = b]]
                             \/ memory' = [memory EXCEPT ![i] = [memory[i] EXCEPT !.waiting = b]]
    BY <1>6 DEF Delete, Undelete, Supersede, BackoffElapses
  <2>2. PICK m \in Memory : /\ memory' = [memory EXCEPT ![i] = m]
                            /\ m.chunk = memory[i].chunk /\ m.source_hash = memory[i].source_hash
    <3>0. memory[i] \in Memory
      BY <1>0
    <3>1. \A m \in {[memory[i] EXCEPT !.live = b], [memory[i] EXCEPT !.current = b],
                    [memory[i] EXCEPT !.waiting = b]} :
             m.chunk = memory[i].chunk /\ m.source_hash = memory[i].source_hash
      BY <3>0 DEF Memory
    <3>2. \A m \in {[memory[i] EXCEPT !.live = b], [memory[i] EXCEPT !.current = b],
                    [memory[i] EXCEPT !.waiting = b]} : m \in Memory
      BY <3>0, MemoryFields, Zenon
    <3> QED BY <2>1, <3>1, <3>2, Zenon
  <2> QED BY <1>5, <1>6, <2>2 DEF Delete, Undelete, Supersede, BackoffElapses
<1>7. CASE BackfillFetch
  <2>1. backfill' \subseteq Candidate /\ UNCHANGED <<memory, calls, build, updates>>
    BY <1>7, ReadType DEF BackfillFetch, IInv
  <2> QED BY <1>0, <2>1 DEF IInv, TypeOK, HashedAsCut
<1>8. CASE ChunkFetch
  <2>1. build' \subseteq Candidate /\ UNCHANGED <<memory, calls, backfill, updates>>
    BY <1>8, ReadType DEF ChunkFetch, IInv
  <2> QED BY <1>0, <2>1 DEF IInv, TypeOK, HashedAsCut
<1>9. ASSUME NEW b \in backfill, BackfillSuccess(b) \/ BackfillInvalid(b) \/ BackfillTransient(b)
      PROVE  IInv'
  <2>0. b.id \in Rows /\ b.content \in Contents /\ b.content \in TextOrNone
        /\ backfill' \subseteq backfill /\ UNCHANGED <<calls, build, updates>>
    BY <1>0, <1>9 DEF Candidate, TextOrNone, BackfillSuccess, BackfillInvalid, BackfillTransient, BackfillEnd
  <2>1. CASE UNCHANGED memory
    BY <1>0, <2>0, <2>1 DEF IInv, TypeOK, HashedAsCut
  <2>2. CASE BackfillSuccess(b)
    <3> DEFINE m == [memory[b.id] EXCEPT !.embedding = b.content, !.status = "ok"]
    <3>1. m \in Memory
      BY <1>0, <2>0, MemoryFields
    <3>2. m.chunk = memory[b.id].chunk /\ m.source_hash = memory[b.id].source_hash
      BY <1>0, <2>0, Zenon DEF Memory
    <3>3. memory' = [memory EXCEPT ![b.id] = m]
      BY <1>0, <2>0, <2>2 DEF BackfillSuccess
    <3> HIDE DEF m
    <3> QED BY <1>5, <2>0, <3>1, <3>2, <3>3
  <2>3. CASE BackfillInvalid(b)
    <3> DEFINE m == [memory[b.id] EXCEPT !.status = "validation"]
    <3>1. m \in Memory
      BY <1>0, <2>0, MemoryFields
    <3>2. m.chunk = memory[b.id].chunk /\ m.source_hash = memory[b.id].source_hash
      BY <1>0, <2>0, Zenon DEF Memory
    <3>3. memory' = [memory EXCEPT ![b.id] = m]
      BY <1>0, <2>0, <2>3 DEF BackfillInvalid
    <3> HIDE DEF m
    <3> QED BY <1>5, <2>0, <3>1, <3>2, <3>3
  <2> QED BY <1>9, <2>1, <2>2, <2>3 DEF BackfillTransient
<1>10. ASSUME NEW b \in build, BuildSkipped(b) \/ BuildReuse(b) \/ BuildEmbed(b) \/ BuildFails(b)
       PROVE  IInv'
  <2>0. b.id \in Rows /\ b.content \in Contents /\ Hash[b.content] \in Contents
        /\ Hash[memory[b.id].content] \in Contents
        /\ build' \subseteq build /\ UNCHANGED <<calls, backfill, updates>>
    <3>1. b.id \in Rows /\ b.content \in Contents
      BY <1>0 DEF Candidate
    <3>2. memory[b.id].content \in Contents
      BY <1>0, <3>1, MemoryFields
    <3> QED BY <1>10, <3>1, <3>2 DEF BuildSkipped, BuildReuse, BuildEmbed, BuildFails, BuildEnd
  <2>1. CASE BuildSkipped(b)
    BY <1>0, <2>0, <2>1 DEF BuildSkipped, IInv, TypeOK, HashedAsCut
  <2>2. CASE BuildReuse(b)
    <3> DEFINE m == Built(memory[b.id], b.content, Hash[memory[b.id].content])
    <3>1. m \in Memory /\ m.chunk = b.content
      <4>1. PICK old : old = memory[b.id]
        OBVIOUS
      <4>2. PICK hash : hash = Hash[memory[b.id].content]
        OBVIOUS
      <4>3. PICK text : text = b.content
        OBVIOUS
      <4>4. old \in Memory /\ text \in Contents /\ hash \in Contents
        BY <1>0, <2>0, <4>1, <4>2, <4>3
      <4>5. Built(old, text, hash) \in Memory /\ Built(old, text, hash).chunk = text
        BY <4>4, BuiltType
      <4> QED BY <4>1, <4>2, <4>3, <4>5
    <3>2. memory' = [memory EXCEPT ![b.id] = m]
      BY <2>2 DEF BuildReuse
    <3>3. b.content \notin Long
      BY <2>2 DEF BuildReuse, SingleReuse
    <3> HIDE DEF m
    <3> QED BY <1>1, <2>0, <3>1, <3>2, <3>3, RowStep
  <2>3. CASE BuildEmbed(b)
    <3> DEFINE m == Built(memory[b.id], b.content, Hash[b.content])
    <3>1. m \in Memory /\ m.chunk = b.content /\ m.source_hash = Hash[b.content]
      <4>1. memory[b.id] \in Memory /\ Hash[b.content] \in Contents
        BY <1>0, <2>0
      <4>2. \A h \in Contents : /\ Built(memory[b.id], b.content, h) \in Memory
                                /\ Built(memory[b.id], b.content, h).chunk = b.content
                                /\ Built(memory[b.id], b.content, h).source_hash = h
        BY <2>0, <4>1, BuiltType
      <4> QED BY <4>1, <4>2
    <3>2. memory' = [memory EXCEPT ![b.id] = m]
      BY <2>3 DEF BuildEmbed
    <3> HIDE DEF m
    <3> QED BY <1>1, <2>0, <3>1, <3>2, RowStep
  <2>4. CASE BuildFails(b)
    <3>1. PICK permanent \in BOOLEAN :
             memory' = [memory EXCEPT ![b.id] = record_failure(memory[b.id], permanent)]
      BY <2>4 DEF BuildFails
    <3> DEFINE m == record_failure(memory[b.id], permanent)
    <3>2. m \in Memory /\ m.chunk = memory[b.id].chunk /\ m.source_hash = memory[b.id].source_hash
      BY <1>0, <2>0, FailureType
    <3>3. memory' = [memory EXCEPT ![b.id] = m]
      BY <3>1
    <3> HIDE DEF m
    <3> QED BY <1>5, <2>0, <3>2, <3>3
  <2> QED BY <1>10, <2>1, <2>2, <2>3, <2>4
<1>11. CASE UNCHANGED vars
  BY <1>0, <1>11 DEF vars, IInv, TypeOK, HashedAsCut
<1> QED
  BY <1>2, <1>3, <1>4, <1>6, <1>7, <1>8, <1>9, <1>10, <1>11 DEF Next, BackfillRow, BuildRow

LEMMA Invariant == Spec => []IInv
BY InitInv, NextInv, PTL DEF Spec

\* Rows, calls and the candidates of both jobs stay well-formed, whatever the tools, the
\* backfill and chunk_build write in between one another.
THEOREM TypeCorrect == Spec => []TypeOK
<1>1. IInv => TypeOK
  BY DEF IInv
<1> QED BY <1>1, Invariant, PTL

\* memory_search_chunks shows no passage of a text of several chunks that the row does
\* not have any more, unless chunk_build picks the row: _build_one embeds what it read,
\* and records it under the hash of what it read and not of what the row has become.
THEOREM ChunksMatch == Spec => []ChunksMatchContent
<1>1. IInv => ChunksMatchContent
  <2> SUFFICES ASSUME IInv, NEW i \in memory_search_chunks, memory[i].chunk \in Long,
                      Hash[memory[i].chunk] # Hash[memory[i].content]
               PROVE  NeedsChunks(i)
    BY DEF ChunksMatchContent
  <2>1. i \in Rows /\ Searchable(i) /\ memory[i].chunk # NoText
    BY DEF memory_search_chunks, chunk_hits
  <2>2. memory[i].source_hash = Hash[memory[i].chunk]
    BY <2>1 DEF IInv, HashedAsCut
  <2> QED BY <2>1, <2>2 DEF NeedsChunks, Searchable
<1> QED BY <1>1, Invariant, PTL
=============================================================================
