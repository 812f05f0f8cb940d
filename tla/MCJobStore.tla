----------------------------- MODULE MCJobStore -----------------------------
(* Small instances of JobStore for TLC. *)
EXTENDS JobStoreLifecycle, TLC

CONSTANTS j1, j2, q1, k1, p1

Times == 0..2
OneList == {<<q1>>}
OneLease == {1}
Delays == {0, 1}

BaseRequest ==
    [queue |-> q1, idempotency_key |-> None, priority |-> 0, max_attempts |-> 2,
     scheduled_at |-> None, payload |-> None, dedup_window_ms |-> 1,
     max_queue_depth |-> None]

\* A job with a payload, a deduplicated job with one attempt, a scheduled job.
MixedRequests ==
    {[BaseRequest EXCEPT !.payload = p1, !.priority = 1],
     [BaseRequest EXCEPT !.idempotency_key = k1, !.max_attempts = 1],
     [BaseRequest EXCEPT !.scheduled_at = 1]}

JobSymmetry == Permutations(Job)
=============================================================================
