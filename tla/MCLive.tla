------------------------------- MODULE MCLive -------------------------------
(* A small instance of JobStoreLive for TLC. *)
EXTENDS JobStoreLive

CONSTANTS j1, j2, q1, k1, p1

LiveTime == 0..2
OneQueueList == {<<q1>>}
One == {1}

LiveRequests ==
    {[queue |-> q1, idempotency_key |-> k1, priority |-> 0, max_attempts |-> 2,
      scheduled_at |-> None, payload |-> None, dedup_window_ms |-> 1,
      max_queue_depth |-> None],
     [queue |-> q1, idempotency_key |-> None, priority |-> 0, max_attempts |-> 1,
      scheduled_at |-> 1, payload |-> None, dedup_window_ms |-> 1,
      max_queue_depth |-> None]}
=============================================================================
