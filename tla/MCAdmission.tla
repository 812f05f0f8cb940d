--------------------------- MODULE MCAdmission ---------------------------
(* A small instance of Admission, and of QueuePolicy in it, for TLC: u64 has
   four bits. *)
EXTENDS Admission, TLC

CONSTANTS q1, q2

Unset == [max_lease |-> None, retry_delay |-> None, retry_backoff |-> None,
          retry_delay_max |-> None, horizon |-> None, max_payload |-> None,
          default_attempts |-> None, attempts_ceiling |-> None,
          dedup_window |-> None, max_depth |-> None]

Plain == [max_lease |-> 4, retry_delay |-> 0, retry_backoff |-> "none",
          retry_delay_max |-> 12, horizon |-> 15, max_payload |-> 2,
          default_attempts |-> 2, attempts_ceiling |-> 3,
          dedup_window |-> 1, max_depth |-> None]

Only(q, overrides) == [x \in {q} |-> overrides]

NoQueues == [x \in {} |-> Unset]

\* No policy; a policy of one queue only; global policies that reach their
\* cap, the horizon or the end of the number range; a lower lease ceiling.
Registries ==
    {[defaults |-> Plain, declared |-> NoQueues],
     [defaults |-> Plain,
      declared |-> Only(q1, [Unset EXCEPT !.retry_delay = 3,
                                          !.retry_backoff = "exponential",
                                          !.max_lease = 2, !.max_payload = 1,
                                          !.attempts_ceiling = 2])],
     [defaults |-> [Plain EXCEPT !.retry_delay = 2,
                                 !.retry_backoff = "exponential",
                                 !.retry_delay_max = 15],
      declared |-> Only(q2, [Unset EXCEPT !.horizon = 5, !.max_lease = 9,
                                          !.max_depth = 1])],
     [defaults |-> [Plain EXCEPT !.retry_delay = 1, !.horizon = 1],
      declared |-> Only(q1, [Unset EXCEPT !.retry_delay = 0])]}

Settings ==
    {[strict_queues |-> FALSE, max_name_bytes |-> 2, max_enqueue_batch |-> 3],
     [strict_queues |-> TRUE, max_name_bytes |-> 1, max_enqueue_batch |-> 2]}

Plainly(q) == [queue |-> q, valid |-> TRUE, name_bytes |-> 1, max_attempts |-> None,
               measure |-> [max_payload |-> 1, horizon |-> 0]]

\* Jobs that always pass, that pass under some registries or settings, and that
\* never do.
SomeJobs ==
    {Plainly(q1),
     [Plainly(q2) EXCEPT !.max_attempts = 9, !.measure.horizon = 6],
     [Plainly(q1) EXCEPT !.measure.max_payload = 2],
     [Plainly(q2) EXCEPT !.valid = FALSE, !.name_bytes = 2]}

Batches ==
    {<<a, b>> : a, b \in SomeJobs}
    \cup {<<[Plainly(q1) EXCEPT !.valid = FALSE], Plainly(q1), b>> : b \in SomeJobs}
=============================================================================
