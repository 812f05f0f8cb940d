---------------------------- MODULE DeleteQueue ----------------------------
(***************************************************************************)
(* The admin handler that deletes a queue (admin/routes.rs:308-401) beside *)
(* the traffic of the queue.  The handler tombstones the queue, looks at   *)
(* its depths, purges it chunk by chunk, refreshing the tombstone between  *)
(* chunks, and lifts the tombstone; every step is a command of its own, so *)
(* producers, workers, other operators and sweeps run in between.          *)
(* config_write_lock admits one handler at a time.                         *)
(*                                                                         *)
(* The removal of the queue from the config file that follows is a write   *)
(* of ConfigReload.                                                        *)
(***************************************************************************)
EXTENDS JobStore

CONSTANT Doomed   \* bound: the queues that are ever deleted

ASSUME DoomedAssumption == Doomed \subseteq Queue

\* A tombstone outlives the millisecond it is written in (CLOSE_GRACE_MS is
\* 30 s): without this the queue would never be closed.
ASSUME GraceAssumption == CloseGraceMs > 0

VARIABLES
    del,        \* the handler: where it is, its queue, its purge parameter;
                \* whether its tombstone lapsed under it and whether the
                \* depths it went by were rolled back (history)
    abandoned   \* queues a handler left without lifting the tombstone (history)

dvars == <<vars, del, abandoned>>

Running(step, q, purge) ==
    [at |-> step, queue |-> q, purge |-> purge, lapsed |-> FALSE, undone |-> FALSE]

DInit ==
    /\ Init
    /\ \E q \in Doomed : del = Running("idle", q, FALSE)
    /\ abandoned = {}

At(step) == del.at = step

GoTo(step) ==
    del' = [del EXCEPT !.at = step, !.lapsed = @ /\ step # "idle",
                       !.undone = @ /\ step # "idle"]

BeginUnclosed(q, purge) ==
    /\ At("idle")
    /\ del' = Running("check", q, purge)
    /\ UNCHANGED <<vars, abandoned>>

\* The lock is taken and the etag matches; close_queue comes first.  The new
\* handler takes over a tombstone that a dead one left.
Begin(q, purge) ==
    /\ At("idle")
    /\ CloseQueue(q)
    /\ del' = Running("check", q, purge)
    /\ abandoned' = abandoned \ {q}

\* queue_depths against the two conflicts, inflight and not_empty.
Deletable(q) ==
    /\ Owned(ix.leases, q) = {}
    /\ del.purge \/ /\ Owned(ix.ready, q) = {}
                    /\ Owned(ix.scheduled, q) = {}
                    /\ Owned(ix.dead_letter, q) = {}

ReturnConflict ==
    /\ At("check")
    /\ GoTo(IF Deletable(del.queue) THEN "purge" ELSE "idle")
    /\ UNCHANGED <<vars, abandoned>>

Check ==
    /\ At("check")
    /\ GoTo(IF Deletable(del.queue) THEN "purge" ELSE "open")
    /\ UNCHANGED <<vars, abandoned>>

\* queue_depths is answered while its batch is being applied, from indexes that
\* the commands ahead of it have already changed.  When a later command or the
\* commit fails the batch is rolled back, and the handler, unlike the callers
\* whose replies wait for the commit, keeps its answer.  Commands ahead of it
\* can have taken everything that counts out of the queue (an ack, a
\* dead_letter_jobs, a drain), so it may be told that the queue is deletable
\* when it is not.  That such a batch says not deletable is CallFails.
CheckUndone ==
    /\ At("check")
    /\ ~Deletable(del.queue)
    /\ del' = [del EXCEPT !.at = "purge", !.undone = TRUE]
    /\ UNCHANGED <<vars, abandoned>>

RemainingJobs(i, q) ==
    \/ Owned(i.ready, q) # {} \/ Owned(i.scheduled, q) # {}
    \/ Owned(i.dead_letter, q) # {}

\* The `remaining' of a purge chunk that left the indexes i.
Remaining(i, q) ==
    \/ Owned(i.ready, q) # {} \/ Owned(i.scheduled, q) # {}
    \/ Owned(i.dead_letter, q) # {} \/ Owned(i.dedup_timers, q) # {}

\* One chunk; a queue with nothing left answers purged 0.
Chunk(q) ==
    \/ PurgeQueueChunk(q, PurgeChunk)
    \/ /\ Owned(ix.leases, q) = {} /\ ~Remaining(ix, q)
       /\ UNCHANGED vars

PurgeStep ==
    /\ At("purge")
    /\ Chunk(del.queue)
    /\ GoTo(IF Remaining(ix', del.queue) THEN "refresh" ELSE "open")
    /\ UNCHANGED abandoned

\* A worker reserved a job since the depths were read.
PurgeRefused ==
    /\ At("purge")
    /\ Owned(ix.leases, del.queue) # {}
    /\ GoTo("open")
    /\ UNCHANGED <<vars, abandoned>>

Refresh ==
    /\ At("refresh")
    /\ CloseQueue(del.queue)
    /\ GoTo("purge")
    /\ UNCHANGED abandoned

\* open_queue, which finds no tombstone when the sweep has dropped it.
Reopen ==
    /\ At("open")
    /\ \/ OpenQueue(del.queue)
       \/ ix.closing[del.queue] = None /\ UNCHANGED vars
    /\ GoTo("idle")
    /\ UNCHANGED abandoned

\* A command of the handler is answered Internal and has changed nothing.  The
\* result of open_queue is ignored.
CallFails ==
    /\ At("check") \/ At("purge") \/ At("refresh")
    /\ GoTo("open")
    /\ UNCHANGED <<vars, abandoned>>

ReopenFails ==
    /\ At("open")
    /\ GoTo("idle")
    /\ abandoned' = abandoned \cup {del.queue}
    /\ UNCHANGED vars

\* The client hangs up and the handler is dropped where it waits.
Die ==
    /\ ~At("idle")
    /\ GoTo("idle")
    /\ abandoned' = abandoned \cup {del.queue}
    /\ UNCHANGED vars

\* The other operators of the dead-letter queue.
DeadLetterOperators ==
    \/ Requeues
    \/ \E want \in Queue \cup {None}, max \in 1..MaxDrain :
          DrainDeadLetters(want, max)
    \/ \E q \in Queue :
          \/ \E R \in SUBSET Owned(db.ready, q) :
                R # {} /\ DeadLetterJobs(q, R, {})
          \/ \E S \in SUBSET db.scheduled :
                S # {} /\ DeadLetterJobs(q, {}, S)
          \/ \E K \in SUBSET Owned(ix.dead_letter, q) :
                K # {} /\ DeleteDeadLetters(q, K)

Lapsed(q, t) == ix.closing[q] = None \/ ix.closing[q] <= t

\* The tombstone lapses when the handler waits longer than CLOSE_GRACE_MS
\* for one of its commands.
DTick ==
    /\ Tick
    /\ del' = [del EXCEPT !.lapsed =
                  @ \/ (~At("idle") /\ Lapsed(del.queue, now'))]

Traffic ==
    /\ \/ UNCHANGED del /\ (Producers \/ Workers \/ DeadLetterOperators \/ Sweep)
       \/ DTick
    /\ UNCHANGED abandoned

DNext ==
    \/ \E q \in Doomed, purge \in BOOLEAN : Begin(q, purge)
    \/ Check \/ CheckUndone \/ PurgeStep \/ PurgeRefused \/ Refresh \/ Reopen
    \/ CallFails \/ ReopenFails \/ Die
    \/ Traffic

DSpec == DInit /\ [][DNext]_dvars

-----------------------------------------------------------------------------
\* A delete without purge=true removes no job and no dead letter: none can
\* slip in between the emptiness check and the purge (routes.rs:378-380), as
\* long as the tombstone does not lapse under the handler and the depths it
\* checked were not rolled back.
NoSilentPurge ==
    [][PurgeStep /\ ~del.purge /\ ~del.lapsed /\ ~del.undone =>
          db'.jobs = db.jobs /\ db'.dead_letter = db.dead_letter]_dvars

\* When the purge reports nothing remaining the queue has left no row behind:
\* no job, no dead letter and no idempotency key that would answer for a job
\* of the deleted queue.
DeletedIsEmpty ==
    [][PurgeStep /\ del'.at = "open" =>
          /\ \A j \in Job : db'.jobs[j] # None => db'.jobs[j].queue # del.queue
          /\ \A e \in db'.dead_letter : e.queue # del.queue
          /\ \A k \in Key : db'.dedup[<<del.queue, k>>] = None]_dvars

\* Every exit of the handler lifts the tombstone, the error exits too: a queue
\* stays closed only under a running handler or after one that died or could
\* not reopen it (routes.rs:380-381).
TombstoneLifted ==
    \A q \in Queue : db.closing[q] # None =>
        (~At("idle") /\ q = del.queue) \/ q \in abandoned
=============================================================================
