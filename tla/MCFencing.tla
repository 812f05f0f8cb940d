----------------------------- MODULE MCFencing -----------------------------
(* Small instances of Fencing for TLC. *)
EXTENDS Fencing

CONSTANTS j1, q1, k1, p1

FencingTime == 0..1
OneQueueList == {<<q1>>}
OneLease == {1}
SomeDelays == {0, 1}

\* Two deliveries before the job is dead-lettered.
FencingRequests ==
    {[queue |-> q1, idempotency_key |-> None, priority |-> 0, max_attempts |-> 2,
      scheduled_at |-> None, payload |-> None, dedup_window_ms |-> 1,
      max_queue_depth |-> None]}
=============================================================================
