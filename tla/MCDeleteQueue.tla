--------------------------- MODULE MCDeleteQueue ---------------------------
(* Small instances of DeleteQueue for TLC. *)
EXTENDS DeleteQueue, TLC

CONSTANTS j1, j2, q1, q2, k1, p1

Times == 0..1
BothQueues == {<<q1, q2>>}
OneLease == {1}

BaseRequest ==
    [queue |-> q1, idempotency_key |-> None, priority |-> 0, max_attempts |-> 1,
     scheduled_at |-> None, payload |-> None, dedup_window_ms |-> 1,
     max_queue_depth |-> None]

\* A deduplicated, scheduled job of a queue capped at one, and a job of another
\* queue.
TwoQueues ==
    {[BaseRequest EXCEPT !.idempotency_key = k1, !.max_queue_depth = 1,
                         !.scheduled_at = 1],
     [BaseRequest EXCEPT !.queue = q2]}

JobSymmetry == Permutations(Job)
=============================================================================
