---------------------------- MODULE JobLifecycle ----------------------------
(***************************************************************************)
(* What the queue promises about the life of a job, whatever keyspaces,    *)
(* timers and indexes implement it: the states a job passes through, the   *)
(* delivery attempt it is on, and the moves between them.  One step may    *)
(* move any number of jobs, as a batch or a sweep does.                    *)
(*                                                                         *)
(* This is the life the code gives a job.  The life-cycle page of the      *)
(* documentation draws it without the moves of the operators: there, dead  *)
(* letters are terminal, and only a delivered job becomes one.             *)
(***************************************************************************)
EXTENDS Naturals

CONSTANT Job

VARIABLE life   \* for each job its state, its attempt and its attempt limit

States == {"absent", "scheduled", "ready", "inflight", "dead", "gone"}

Absent == [state |-> "absent", attempt |-> 0, limit |-> 0]

Gone == [state |-> "gone", attempt |-> 0, limit |-> 0]

At(s, attempt, limit) == [state |-> s, attempt |-> attempt, limit |-> limit]

Waits == {"scheduled", "ready"}

Init == life = [j \in Job |-> Absent]

\* The producer's job waits for delivery 1.
Create(x, y) ==
    /\ x = Absent
    /\ y.limit >= 1
    /\ \E s \in Waits : y = At(s, 1, y.limit)

\* A due job becomes ready.
Promote(x, y) == x.state = "scheduled" /\ y = At("ready", x.attempt, x.limit)

Deliver(x, y) == x.state = "ready" /\ y = At("inflight", x.attempt, x.limit)

\* A failed delivery: the job waits for the next attempt, if it has one left.
Retry(x, y) ==
    /\ x.state = "inflight" /\ x.attempt < x.limit
    /\ \E s \in Waits : y = At(s, x.attempt + 1, x.limit)

\* The job leaves the queue for the dead letters: its last delivery failed or
\* was rejected, or an operator took it out where it waited (dead_letter_jobs).
Bury(x, y) ==
    /\ x.state \in {"scheduled", "ready", "inflight"}
    /\ y = At("dead", x.attempt, x.limit)

\* An operator puts a dead job back: it starts over (requeue_dead_letters).
Revive(x, y) == x.state = "dead" /\ y = At("ready", 1, x.limit)

\* Acked, purged, drained, expired, or failed with no dead-letter queue.
Finish(x, y) ==
    x.state \in {"scheduled", "ready", "inflight", "dead"} /\ y = Gone

Move(x, y) ==
    \/ Create(x, y) \/ Promote(x, y) \/ Deliver(x, y) \/ Retry(x, y)
    \/ Bury(x, y) \/ Revive(x, y) \/ Finish(x, y)

Next ==
    /\ \A j \in Job : life'[j] = life[j] \/ Move(life[j], life'[j])
    /\ life' = [j \in Job |-> life'[j]]

Spec == Init /\ [][Next]_life
=============================================================================
