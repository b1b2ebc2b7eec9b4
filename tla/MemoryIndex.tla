---------------------------- MODULE MemoryIndex ----------------------------
(* The search index over memories: the embedding of each row, the chunk set *)
(* built from it, and the three writers that share them without locks:      *)
(* memory_write and memory_update, the hourly embedding_backfill and the    *)
(* chunk_build job.  A job reads its candidates in one statement and writes *)
(* each result in a later one; calls commit in between.                     *)
(*                                                                          *)
(* A vector is named by the text it was computed from, a chunk set by the   *)
(* text it was cut from.  Rows are of types that are updated in place.      *)
(* throttled, unavailable and unknown errors are one: retryable.            *)
EXTENDS Integers, FiniteSets

CONSTANTS
    Rows,         \* memory ids: numbers, in the order of created_at
    Clients,      \* concurrent callers of memory_update
    Contents,     \* texts
    NoText,       \* NULL
    Hash,         \* content_hash: texts that normalise alike share it
    Blank,        \* texts of white space: split_into_chunks returns []
    Long,         \* texts of more than one chunk
    Oversize,     \* texts above EMBED_MAX_INPUT_CHARS
    Invalid,      \* texts the embedder rejects as invalid_input
    BatchSize,    \* BATCH_SIZE of both jobs
    MaxAttempts,  \* MAX_ATTEMPTS
    MaxUpdates    \* bound: content updates

ASSUME IndexAssumption ==
    /\ Rows \subseteq Nat /\ Rows # {}
    /\ BatchSize \in Nat /\ MaxAttempts \in Nat /\ MaxUpdates \in Nat
    /\ Hash \in [Contents -> Contents]
    /\ Contents # {} /\ NoText \notin Contents
    /\ Oversize \subseteq Long

TextOrNone == Contents \cup {NoText}

VARIABLES
    memory,     \* memories with their memory_chunks and chunk_build_state
    calls,      \* memory_update calls between their read and their UPDATE
    backfill,   \* rows the backfill pass has read and not written yet
    build,      \* rows the chunk-build pass has read and not finished yet
    updates     \* number of content updates so far

vars == <<memory, calls, backfill, build, updates>>

\* live: not deleted and not expired.  chunk is the text memory_chunks
\* were cut from (their vectors are left out), source_hash their source_content_hash; attempts, terminal and
\* waiting (next_attempt_at is ahead) are chunk_build_state.
Memory == [present : BOOLEAN, live : BOOLEAN, current : BOOLEAN, indexable : BOOLEAN,
           content : Contents, embedding : TextOrNone, status : {"ok", "oversize", "opt_out", "retryable", "validation"},
           chunk : TextOrNone, source_hash : TextOrNone,
           attempts : Nat, terminal : BOOLEAN, waiting : BOOLEAN]

Candidate == [id : Rows, content : Contents, has_embedding : BOOLEAN]

Call == [busy : BOOLEAN, id : Rows, content : Contents]

AnyContent == CHOOSE x \in Contents : TRUE
AnyRow == CHOOSE i \in Rows : TRUE
Absent == [present |-> FALSE, live |-> FALSE, current |-> FALSE, indexable |-> FALSE, content |-> AnyContent,
           embedding |-> NoText, status |-> "retryable", chunk |-> NoText,
           source_hash |-> NoText, attempts |-> 0, terminal |-> FALSE, waiting |-> FALSE]
NoCall == [busy |-> FALSE, id |-> AnyRow, content |-> AnyContent]

Init ==
    /\ memory = [i \in Rows |-> Absent]
    /\ calls = [c \in Clients |-> NoCall]
    /\ backfill = {}
    /\ build = {}
    /\ updates = 0

\* The embedder may succeed on x (it may also be down).
Embeddable(x) == x \notin Invalid

\* The oldest rows of S, at most BatchSize of them: ORDER BY created_at LIMIT.
Oldest(S, B) ==
    /\ B \subseteq S
    /\ Cardinality(B) <= BatchSize
    /\ \A i \in S \ B : Cardinality(B) = BatchSize /\ \A b \in B : b < i

----------------------------------------------------------------------------
(* Tools *)

\* embed_or_skip: the possible pairs of vector and status for a text written
\* with the indexable flag; invalid_input is raised and the write is refused.
embed_or_skip(x, indexable) ==
    CASE ~indexable    -> {<<NoText, "opt_out">>}
      [] x \in Oversize -> {<<NoText, "oversize">>}
      [] OTHER         -> {<<NoText, "retryable">>} \cup
                          IF Embeddable(x) THEN {<<x, "ok">>} ELSE {}

\* memory_write inserts the next row.
Write ==
    /\ \E i \in Rows, x \in Contents, ix \in BOOLEAN :
          /\ ~memory[i].present /\ \A j \in Rows : j < i => memory[j].present
          /\ \E r \in embed_or_skip(x, ix) :
                memory' = [memory EXCEPT ![i] =
                             [Absent EXCEPT !.present = TRUE, !.live = TRUE, !.current = TRUE,
                                            !.indexable = ix, !.content = x, !.embedding = r[1], !.status = r[2]]]
    /\ UNCHANGED <<calls, backfill, build, updates>>

\* memory_update with a new content: the read and the call of the embedder, on
\* whose failure the update is refused.
UpdateBegin(c) ==
    /\ ~calls[c].busy
    /\ updates < MaxUpdates
    /\ \E i \in Rows, x \in Contents :
          /\ memory[i].live /\ memory[i].content # x
          /\ x \in Oversize \/ Embeddable(x)
          /\ calls' = [calls EXCEPT ![c] = [busy |-> TRUE, id |-> i, content |-> x]]
    /\ updates' = updates + 1
    /\ UNCHANGED <<memory, backfill, build>>

\* The UPDATE: content, content_hash and embedding; embedding_status and
\* chunk_build_state are left alone.
UpdateCommit(c) ==
    /\ calls[c].busy
    /\ LET x == calls[c].content
       IN  memory' = [memory EXCEPT ![calls[c].id].content = x,
                                    ![calls[c].id].embedding = IF x \in Oversize THEN NoText ELSE x]
    /\ calls' = [calls EXCEPT ![c] = NoCall]
    /\ UNCHANGED <<backfill, build, updates>>

\* memory_delete and expire_transient; memory_undelete.
Delete(i) ==
    /\ memory[i].live
    /\ memory' = [memory EXCEPT ![i].live = FALSE]
    /\ UNCHANGED <<calls, backfill, build, updates>>

Undelete(i) ==
    /\ memory[i].present /\ ~memory[i].live
    /\ memory' = [memory EXCEPT ![i].live = TRUE]
    /\ UNCHANGED <<calls, backfill, build, updates>>

\* memory_supersede: the backfill goes on with the row, chunk_build does not.
Supersede(i) ==
    /\ memory[i].live /\ memory[i].current
    /\ memory' = [memory EXCEPT ![i].current = FALSE]
    /\ UNCHANGED <<calls, backfill, build, updates>>

----------------------------------------------------------------------------
(* embedding_backfill *)

Retryable(i) ==
    /\ memory[i].live
    /\ memory[i].embedding = NoText
    /\ memory[i].status = "retryable"
    /\ memory[i].content \notin Oversize

ReadRow(i) == [id |-> i, content |-> memory[i].content,
               has_embedding |-> memory[i].embedding # NoText]

BackfillFetch ==
    /\ backfill = {}
    /\ \E B \in SUBSET Rows :
          /\ B # {}
          /\ Oldest({i \in Rows : Retryable(i)}, B)
          /\ backfill' = {ReadRow(i) : i \in B}
    /\ UNCHANGED <<memory, calls, build, updates>>

BackfillEnd(b) == /\ backfill' = backfill \ {b}
                  /\ UNCHANGED <<calls, build, updates>>

\* update_row_success: WHERE id only.
BackfillSuccess(b) ==
    /\ Embeddable(b.content)
    /\ memory' = [memory EXCEPT ![b.id].embedding = b.content, ![b.id].status = "ok"]
    /\ BackfillEnd(b)

\* Mutation: invalid input is left for the next pass.
BackfillInvalid_Retry(b) ==
    /\ b.content \in Invalid
    /\ UNCHANGED memory
    /\ BackfillEnd(b)

BackfillInvalid(b) ==
    /\ b.content \in Invalid
    /\ memory' = [memory EXCEPT ![b.id].status = "validation"]
    /\ BackfillEnd(b)

\* Left as it is for the next pass.
BackfillTransient(b) ==
    /\ UNCHANGED memory
    /\ BackfillEnd(b)

----------------------------------------------------------------------------
(* chunk_build *)

\* The rows _CANDIDATES_SQL can return.
NeedsChunks(i) ==
    /\ memory[i].live /\ memory[i].current /\ memory[i].indexable
    /\ memory[i].source_hash # Hash[memory[i].content]

ChunkFetch ==
    /\ build = {}
    /\ \E B \in SUBSET Rows :
          /\ B # {}
          /\ Oldest({i \in Rows : NeedsChunks(i) /\ ~memory[i].terminal /\ ~memory[i].waiting}, B)
          /\ build' = {ReadRow(i) : i \in B}
    /\ UNCHANGED <<memory, calls, backfill, updates>>

BuildEnd(b) == /\ build' = build \ {b}
               /\ UNCHANGED <<calls, backfill, updates>>

SingleReuse(b) == b.content \notin Long /\ b.has_embedding

\* No chunks: nothing is written and nothing recorded.
BuildSkipped(b) ==
    /\ b.content \in Blank
    /\ UNCHANGED memory
    /\ BuildEnd(b)

\* The new chunk set replaces the old one and _CLEAR_STATE_SQL runs.
Built(m, text, hash) ==
    [m EXCEPT !.chunk = text, !.source_hash = hash,
              !.attempts = 0, !.terminal = FALSE, !.waiting = FALSE]

\* The single chunk is the text that was read, under the row's present content_hash.
BuildReuse(b) ==
    /\ b.content \notin Blank /\ SingleReuse(b)
    /\ memory' = [memory EXCEPT ![b.id] =
                    Built(@, b.content, Hash[memory[b.id].content])]
    /\ BuildEnd(b)

\* Mutation: the chunks are recorded under the row's present hash.
BuildEmbed_PresentHash(b) ==
    /\ b.content \notin Blank /\ ~SingleReuse(b)
    /\ Embeddable(b.content)
    /\ memory' = [memory EXCEPT ![b.id] =
                    Built(@, b.content, Hash[memory[b.id].content])]
    /\ BuildEnd(b)

BuildEmbed(b) ==
    /\ b.content \notin Blank /\ ~SingleReuse(b)
    /\ Embeddable(b.content)
    /\ memory' = [memory EXCEPT ![b.id] = Built(@, b.content, Hash[b.content])]
    /\ BuildEnd(b)

record_failure(m, permanent) ==
    [m EXCEPT !.attempts = @ + 1, !.waiting = TRUE,
              !.terminal = permanent \/ m.attempts + 1 >= MaxAttempts]

\* invalid_input is permanent; any other error counts towards MAX_ATTEMPTS.
BuildFails(b) ==
    /\ b.content \notin Blank
    /\ \E permanent \in BOOLEAN :
          /\ permanent => b.content \in Invalid /\ ~SingleReuse(b)
          /\ memory' = [memory EXCEPT ![b.id] = record_failure(@, permanent)]
    /\ BuildEnd(b)

\* next_attempt_at passes.
BackoffElapses(i) ==
    /\ memory[i].waiting
    /\ memory' = [memory EXCEPT ![i].waiting = FALSE]
    /\ UNCHANGED <<calls, backfill, build, updates>>

----------------------------------------------------------------------------
(* Search, over the committed tables *)

\* What every search requires of a row.
Searchable(i) == memory[i].live /\ memory[i].current /\ memory[i].indexable

\* The legs of _HYBRID_SQL, neither of which reaches its limit of 50 rows: rows
\* with a vector, and rows that have a word of the query's.
semantic == {i \in Rows : Searchable(i) /\ memory[i].embedding # NoText}
keyword(query) == {i \in Rows : Searchable(i) /\ memory[i].content \in query}

hybrid_search(query) == semantic \cup keyword(query)

\* memory_search: query is the set of texts that have one of its words.  A call
\* whose query cannot be embedded returns an error and is left out.
memory_search(query) == hybrid_search(query)

\* The rows _CHUNK_SEARCH_SQL finds passages of, and the tool that shows them as
\* long as neither the candidate pool nor the limits are reached.
chunk_hits == {i \in Rows : Searchable(i) /\ memory[i].chunk # NoText}

memory_search_chunks == chunk_hits

----------------------------------------------------------------------------
BackfillRow(i) ==
    \E b \in backfill : b.id = i /\ (BackfillSuccess(b) \/ BackfillInvalid(b) \/ BackfillTransient(b))
BackfillSucceeds(i) == \E b \in backfill : b.id = i /\ (BackfillSuccess(b) \/ BackfillInvalid(b))
BuildRow(i) ==
    \E b \in build : b.id = i /\ (BuildSkipped(b) \/ BuildReuse(b) \/ BuildEmbed(b) \/ BuildFails(b))

Next ==
    \/ Write
    \/ \E c \in Clients : UpdateBegin(c) \/ UpdateCommit(c)
    \/ \E i \in Rows : Delete(i) \/ Undelete(i) \/ Supersede(i)
                      \/ BackfillRow(i) \/ BuildRow(i) \/ BackoffElapses(i)
    \/ BackfillFetch \/ ChunkFetch

Spec == Init /\ [][Next]_vars

\* The timers start both jobs again and again, a started pass comes to its end,
\* back-off deadlines pass, and an outage of the embedder ends: a row read by
\* the backfill again and again gets an answer at last.
FairSpec ==
    /\ Spec
    /\ WF_vars(BackfillFetch) /\ WF_vars(ChunkFetch)
    /\ \A i \in Rows : /\ WF_vars(BackfillRow(i)) /\ SF_vars(BackfillSucceeds(i))
                       /\ WF_vars(BuildRow(i)) /\ WF_vars(BackoffElapses(i))

----------------------------------------------------------------------------
(* Properties *)

\* Type invariant: rows, calls and the jobs' candidates are well-formed.
TypeOK ==
    /\ memory \in [Rows -> Memory]
    /\ calls \in [Clients -> Call]
    /\ backfill \subseteq Candidate /\ build \subseteq Candidate
    /\ updates \in Nat

\* The passages memory_search_chunks shows of a text too long for one chunk are of
\* the row's present text, or the row is picked for rebuilding (0036: "content
\* updates mark chunks stale for rebuild"), whatever update came between the job's
\* read and its write.
ChunksMatchContent ==
    \A i \in memory_search_chunks :
       memory[i].chunk \in Long =>
          Hash[memory[i].chunk] = Hash[memory[i].content] \/ NeedsChunks(i)

\* embedding_backfill: a row that could not be embedded when it was written is
\* found by memory_search at last, also by a query none of whose words it has,
\* unless its text is too long or found to be invalid, or it is deleted, expired
\* or superseded.
Unfound(i) == /\ Searchable(i) /\ memory[i].content \notin Oversize
              /\ i \notin memory_search({})

WrittenIsFound == \A i \in Rows : Unfound(i) ~> (~Unfound(i) \/ memory[i].status = "validation")

----------------------------------------------------------------------------
(* Claims of the repository that the code does not keep (README, Deviations) *)

\* "can never wedge the oldest-first candidate queue" (chunk_build.py:209): a row in
\* need of chunks gets them or is given up for good, however many older rows keep
\* failing.  A blank row is recorded nowhere and stays at the head of the queue.
NoWedge ==
    \A i \in Rows : NeedsChunks(i) ~> (~NeedsChunks(i) \/ memory[i].terminal)

\* FR-9.3.5.3 "Re-embed if content changed": the vector of a row is that of its
\* content.
EmbeddingMatches ==
    \A i \in Rows : memory[i].embedding # NoText => memory[i].embedding = memory[i].content

\* "drops out of the candidate set for good (until its content changes)"
\* (chunk_build.py:36): a row given up is a candidate again once an update has
\* changed its content.
ChunkedAgain ==
    [][\A i \in Rows : Hash[memory'[i].content] # Hash[memory[i].content] => ~memory'[i].terminal]_vars

\* A row written with indexable=false is not embedded.
OptOutNotEmbedded ==
    \A i \in Rows : memory[i].present /\ ~memory[i].indexable => memory[i].embedding = NoText
=============================================================================
