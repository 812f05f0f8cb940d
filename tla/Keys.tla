--------------------------------- MODULE Keys ---------------------------------
(***************************************************************************)
(* The encoded keys of keys.rs.  A key is a sequence of digits compared as  *)
(* BTreeMap compares byte strings.  A byte is a digit; so is a fixed-width  *)
(* big-endian field, whose bytes compare as its value does (timestamps are  *)
(* not negative).  Queue names and job ids are sequences of digits.         *)
(***************************************************************************)
EXTENDS Integers, Sequences

\* Byte-string order: b goes on after a, or is larger where they first differ.
Before(a, b) ==
    \E i \in 1..Len(b) :
        /\ i <= Len(a) + 1
        /\ \A k \in 1..(i - 1) : a[k] = b[k]
        /\ IF i > Len(a) THEN TRUE ELSE a[i] < b[i]

StartsWith(key, prefix) ==
    Len(prefix) <= Len(key) /\ SubSeq(key, 1, Len(prefix)) = prefix

Tail_(key, n) == SubSeq(key, n + 1, Len(key))

queue_prefix(queue) == <<Len(queue)>> \o queue

read_queue(key) == SubSeq(key, 2, 1 + key[1])

deadline_of(key) == key[1]

\* A variant that sorts low priorities first.
PlainPriority(queue, priority, enqueued_at, id) ==
    queue_prefix(queue) \o <<priority, enqueued_at>> \o id

\* The priority is inverted and capped, so that the smallest key is served first.
ReadyKey(queue, priority, enqueued_at, id) ==
    queue_prefix(queue) \o <<9 - (IF priority < 9 THEN priority ELSE 9), enqueued_at>> \o id

ready_job_id(key) == Tail_(key, Len(read_queue(key)) + 3)

TimerKey(deadline, id) == <<deadline>> \o id

timer_job_id(key) == Tail_(key, 1)

DeadLetterKey(failed_at, queue, id) == <<failed_at>> \o queue_prefix(queue) \o id

dead_letter_queue(key) == read_queue(Tail_(key, 1))

dead_letter_job_id(key) == Tail_(key, Len(dead_letter_queue(key)) + 2)
===============================================================================
