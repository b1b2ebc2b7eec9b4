---------------------------- MODULE AsyncRequest ----------------------------
(* What memory_write_async promises of each accepted request: it is carried *)
(* out by at most one attempt and at most once, only an executed request is *)
(* reported as succeeded, and a reported outcome is final.  The queue table *)
(* and its drain (AsyncWriteQueue) implement this.                          *)

CONSTANT Requests

VARIABLES
    status,     \* the state column of each request
    runs        \* how often the request's memory_write has committed

avars == <<status, runs>>

AInit ==
    /\ status = [r \in Requests |-> "absent"]
    /\ runs = [r \in Requests |-> 0]

Accept(r) ==
    /\ status[r] = "absent"
    /\ status' = [status EXCEPT ![r] = "queued"]
    /\ UNCHANGED runs

\* A batch of queued requests is taken; it may be empty.
Take(S) ==
    /\ \A r \in S : status[r] = "queued"
    /\ status' = [r \in Requests |-> IF r \in S THEN "in_flight" ELSE status[r]]
    /\ UNCHANGED runs

Execute(r) ==
    /\ status[r] = "in_flight"
    /\ runs[r] = 0
    /\ runs' = [runs EXCEPT ![r] = 1]
    /\ UNCHANGED status

Succeed(r) ==
    /\ status[r] = "in_flight"
    /\ runs[r] = 1
    /\ status' = [status EXCEPT ![r] = "succeeded"]
    /\ UNCHANGED runs

Fail(r) ==
    /\ status[r] = "in_flight"
    /\ status' = [status EXCEPT ![r] = "failed"]
    /\ UNCHANGED runs

ANext ==
    \/ \E r \in Requests : Accept(r) \/ Execute(r) \/ Succeed(r) \/ Fail(r)
    \/ \E S \in SUBSET Requests : Take(S)

ASpec == AInit /\ [][ANext]_avars
=============================================================================
