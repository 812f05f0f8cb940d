---------------------------- MODULE MCCommitter ----------------------------
(* A small instance of Committer for TLC. *)
EXTENDS Committer, TLC

CONSTANTS j1, q1, k1, p1, c1, c2, c3

CommitTimes == 0..1
OneList == {<<q1>>}
OneLease == {1}
NoDelay == {0}

\* Deduplicated jobs of two attempts: the second enqueue of a batch hits the
\* row of the first.
CommitRequests ==
    {[queue |-> q1, idempotency_key |-> k1, priority |-> 0, max_attempts |-> 2,
      scheduled_at |-> None, payload |-> p1, dedup_window_ms |-> 1,
      max_queue_depth |-> None]}

CommitSymmetry == Permutations(Call)
=============================================================================
