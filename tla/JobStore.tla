------------------------------ MODULE JobStore ------------------------------
(***************************************************************************)
(* The durable state of sepp (src/src/storage.rs) and the operations the   *)
(* committer thread applies to it.  One step of this module is one call of *)
(* apply_op: it updates the keyspaces of the database (db) and, by hand,   *)
(* the in-memory indexes that mirror them (ix).                            *)
(*                                                                         *)
(* Abstractions.  A row is a record of the fields the operations read; a   *)
(* keyspace whose key is a tuple of fields is the set of its entries.  A   *)
(* per-queue counter of an index (by_queue) is the number of index entries *)
(* owned by the queue.  Job ids are random UUIDs (op.rs:169): ids are      *)
(* never reused, and where the code breaks a tie by job id the model picks *)
(* any of the tied entries.  Corrupt rows and saturation of i64 times are  *)
(* left out.                                                               *)
(***************************************************************************)
EXTENDS Integers, FiniteSets, Sequences

CONSTANTS
    Job,            \* job ids that Uuid::new_v4 may mint
    Queue,          \* queue names
    Key,            \* idempotency keys
    Payload,        \* job payloads
    None,           \* an absent row or an unset optional field
    Request,        \* the enqueue requests (with resolved JobLimits) producers send
    MaxBatch,       \* the longest enqueue batch producers send
    ReserveQueues,  \* the queue lists workers reserve from
    MaxReserve,     \* the largest max_jobs of a reserve
    LeaseMs,        \* the lease durations reserve and extend resolve to
    RetryDelayMs,   \* the retry delays a nack resolves to
    RetentionMs,    \* dead_letter_retention_ms; 0 disables the dead-letter queue
    SweepLimit,     \* sweep_limit: the budget of each sweep phase
    ScanCap,        \* drain_scan_cap
    MaxDrain,       \* the largest max of a drain
    PurgeChunk,     \* the max of a purge chunk
    CloseGraceMs,   \* CLOSE_GRACE_MS
    Time            \* the values of the wall clock

\* What config validation (config.rs:86-121, 207-330) and the request checks
\* (queue_server.rs:160-275) guarantee about the constants.
JobRequest ==
    [queue : Queue, idempotency_key : Key \cup {None}, priority : 0..9,
     max_attempts : Nat \ {0}, scheduled_at : Int \cup {None},
     payload : Payload \cup {None}, dedup_window_ms : Nat \ {0},
     max_queue_depth : Nat \cup {None}]

JobRow ==
    [queue : Queue, priority : 0..9, max_attempts : Nat \ {0},
     enqueued_at : Int]

InflightRow ==
    [attempt : Nat \ {0}, lease_expires_at : Int, enqueued_at : Int,
     priority : 0..9, max_attempts : Nat \ {0}, queue : Queue]

DedupRow == [job : Job, deadline : Int]

ReadyEntry ==
    [queue : Queue, priority : 0..9, enqueued_at : Int, job : Job,
     attempt : Nat \ {0}]

Cause == {"rejected", "attempts_exhausted", "lease_expired", "admin"}

DeadLetterEntry ==
    [failed_at : Int, queue : Queue, job : Job, attempt : Nat \ {0},
     cause : Cause, priority : 0..9, max_attempts : Nat \ {0},
     payload : Payload \cup {None}]

ASSUME RequestAssumption == Request \subseteq JobRequest

ASSUME BoundsAssumption ==
    /\ MaxBatch \in Nat /\ MaxReserve \in Nat /\ MaxDrain \in Nat
    /\ SweepLimit \in Nat \ {0} /\ ScanCap \in Nat /\ PurgeChunk \in Nat
    /\ RetentionMs \in Nat /\ CloseGraceMs \in Nat

ASSUME TimeAssumption ==
    /\ Time \subseteq Int /\ Time # {}
    /\ LeaseMs \subseteq Nat /\ RetryDelayMs \subseteq Nat

ASSUME ReserveAssumption == ReserveQueues \subseteq Seq(Queue)

ASSUME NoneAssumption ==
    /\ None \notin JobRow /\ None \notin InflightRow /\ None \notin DedupRow
    /\ None \notin Int /\ None \notin JobRequest
    /\ None \notin Key /\ None \notin Payload

VARIABLES
    db,      \* the keyspaces of struct Store, as the open transaction sees them
    ix,      \* struct Indexes
    now,     \* what now_ms() returns
    minted   \* the request each job id was minted for (history)

vars == <<db, ix, now, minted>>

-----------------------------------------------------------------------------
(* The keyspaces and the indexes. *)

Init ==
    /\ db = [jobs         |-> [j \in Job |-> None],
             payloads     |-> [j \in Job |-> None],
             inflight     |-> [j \in Job |-> None],
             ready        |-> {},
             scheduled    |-> {},
             leases       |-> {},
             dead_letter  |-> {},
             dedup        |-> [k \in Queue \X Key |-> None],
             dedup_timers |-> {},
             closing      |-> [q \in Queue |-> None]]
    /\ ix = [ready |-> {}, scheduled |-> {}, leases |-> {},
             dead_letter |-> {}, dedup_timers |-> {},
             closing |-> [q \in Queue |-> None]]
    /\ now \in Time
    /\ minted = [j \in Job |-> None]

\* The owner rebuild_indexes gives a timer; "" when its row is gone.
OwnerOf(row) == IF row = None THEN "" ELSE row.queue

TimerEntry(deadline, j, q) == [deadline |-> deadline, job |-> j, queue |-> q]

DeadLetterKey(e) ==
    [failed_at |-> e.failed_at, queue |-> e.queue, job |-> e.job]

\* rebuild_indexes: what a restart or a resync derives from the keyspaces.
RebuildIndexes(d) ==
    [ready        |-> d.ready,
     scheduled    |-> {TimerEntry(t.deadline, t.job, OwnerOf(d.jobs[t.job])) :
                          t \in d.scheduled},
     leases       |-> {TimerEntry(t.deadline, t.job, OwnerOf(d.inflight[t.job])) :
                          t \in d.leases},
     dead_letter  |-> {DeadLetterKey(e) : e \in d.dead_letter},
     dedup_timers |-> d.dedup_timers,
     closing      |-> d.closing]

OwnedByAnyone(S, q) == {e \in S : q = q}

Owned(S, q) == {e \in S : e.queue = q}

\* Indexes::live_depth
LiveDepth(q) ==
    Cardinality(Owned(ix.ready, q)) + Cardinality(Owned(ix.scheduled, q))
        + Cardinality(Owned(ix.leases, q))

\* The possible first n entries of S in the order Before: every one of them
\* when S is smaller, and among entries of equal rank any.
FirstOf(S, n, Before(_, _)) ==
    {P \in SUBSET S :
        /\ Cardinality(P) <= n
        /\ Cardinality(P) = n \/ P = S
        /\ \A e \in P, f \in S \ P : ~Before(f, e)}

\* ReadyKey sorts by descending priority, then by enqueued_at.
ReadyBefore(e, f) ==
    \/ e.priority > f.priority
    \/ e.priority = f.priority /\ e.enqueued_at < f.enqueued_at

TimerBefore(t, u) == t.deadline < u.deadline

FailedBefore(d, e) == d.failed_at < e.failed_at

Drop(f, S) == [k \in DOMAIN f |-> IF k \in S THEN None ELSE f[k]]

TimerKey(t) == [deadline |-> t.deadline, job |-> t.job]

\* Removal of the timers with the given keys.
Without(S, keys) == {t \in S : TimerKey(t) \notin keys}

KeepJobRows(d, J) == [d EXCEPT !.payloads = Drop(@, J)]

KeepPayloadRows(d, J) == [d EXCEPT !.jobs = Drop(@, J)]

\* tx.remove of the job and payload rows.
RemoveRows(d, J) ==
    [d EXCEPT !.jobs = Drop(@, J), !.payloads = Drop(@, J)]

\* The attempt of a fresh or requeued job.
FirstAttempt == 1

SameAttempt(row) == row.attempt

OneAttemptMore(row) == row.attempt > row.max_attempts

\* The attempt after a failed delivery, and whether there is one.
NextAttempt(row) == row.attempt + 1

LastAttempt(row) == row.attempt >= row.max_attempts

BackOfQueue(j, row, attempt) ==
    [queue |-> row.queue, priority |-> row.priority,
     enqueued_at |-> now, job |-> j, attempt |-> attempt]

\* The ready entry under which job j waits for delivery `attempt'.
ReadyKey(j, row, attempt) ==
    [queue |-> row.queue, priority |-> row.priority,
     enqueued_at |-> row.enqueued_at, job |-> j, attempt |-> attempt]

-----------------------------------------------------------------------------
(* Enqueue.  A batch is a sequence of fresh ids and the request of each.   *)

Closing(q) == ix.closing[q] # None /\ ix.closing[q] > now

DedupKey(r) == <<r.queue, r.idempotency_key>>

ShortWindow(req, earlier, r) ==
    /\ r.idempotency_key # None
    /\ db.dedup[DedupKey(r)] # None
    /\ now < db.dedup[DedupKey(r)].deadline - 1

\* check_dedup for request r after the jobs `earlier' of the batch went in.
\* A row written in this batch has not expired: the window is at least 1 ms.
DedupHit(req, earlier, r) ==
    /\ r.idempotency_key # None
    /\ \/ /\ db.dedup[DedupKey(r)] # None
          /\ now < db.dedup[DedupKey(r)].deadline
       \/ \E i \in earlier : DedupKey(req[i]) = DedupKey(r)

FullPastCap(req, earlier, r) ==
    /\ r.max_queue_depth # None
    /\ LiveDepth(r.queue)
         + Cardinality({i \in earlier : req[i].queue = r.queue})
       > r.max_queue_depth

Full(req, earlier, r) ==
    /\ r.max_queue_depth # None
    /\ LiveDepth(r.queue)
         + Cardinality({i \in earlier : req[i].queue = r.queue})
       >= r.max_queue_depth

\* The timers of the rows check_dedup found expired under the given keys.
StaleTimers(keys) ==
    {[deadline |-> db.dedup[k].deadline, queue |-> k[1], key |-> k[2]] :
        k \in {k \in keys : db.dedup[k] # None}}

\* insert_job for every job of A.
InsertJobs(A, req) ==
    LET row(j) == [queue |-> req[j].queue, priority |-> req[j].priority,
                   max_attempts |-> req[j].max_attempts, enqueued_at |-> now]
        later   == {j \in A : req[j].scheduled_at # None
                              /\ req[j].scheduled_at > now}
        readied == {ReadyKey(j, row(j), FirstAttempt) : j \in A \ later}
        keyed   == {j \in A : req[j].idempotency_key # None}
        owner(k) == CHOOSE j \in keyed : DedupKey(req[j]) = k
        keys    == {DedupKey(req[j]) : j \in keyed}
        expires(j) == now + req[j].dedup_window_ms
        stale   == StaleTimers(keys)
        fresh   == {[deadline |-> expires(j), queue |-> req[j].queue,
                     key |-> req[j].idempotency_key] : j \in keyed}
    IN  /\ db' = [db EXCEPT
              !.jobs = [j \in Job |-> IF j \in A THEN row(j) ELSE db.jobs[j]],
              !.payloads = [j \in Job |->
                  IF j \in A THEN req[j].payload ELSE db.payloads[j]],
              !.ready = @ \cup readied,
              !.scheduled = @ \cup
                  {[deadline |-> req[j].scheduled_at, job |-> j, attempt |-> FirstAttempt] :
                      j \in later},
              !.dedup = [k \in Queue \X Key |->
                  IF k \in keys
                  THEN [job |-> owner(k), deadline |-> expires(owner(k))]
                  ELSE db.dedup[k]],
              !.dedup_timers = (@ \ stale) \cup fresh]
        /\ ix' = [ix EXCEPT
              !.ready = @ \cup readied,
              !.scheduled = @ \cup
                  {TimerEntry(req[j].scheduled_at, j, req[j].queue) : j \in later},
              !.dedup_timers = (@ \ stale) \cup fresh]
        /\ minted' = [j \in Job |-> IF j \in A THEN req[j] ELSE minted[j]]
        /\ UNCHANGED now

\* The jobs of the batch before position i that are in A.
Earlier(batch, A, i) == {batch[h] : h \in 1..(i - 1)} \cap A

\* Best effort: each job, in order, is refused when its queue is closing,
\* answered from the dedup row, refused when the queue is full, or inserted.
Enqueue(batch, req) ==
    \E A \in SUBSET DOMAIN req :
        /\ A # {}
        /\ \A i \in DOMAIN batch :
              LET r == req[batch[i]] IN
              batch[i] \in A <=> /\ ~Closing(r.queue)
                                 /\ ~DedupHit(req, Earlier(batch, A, i), r)
                                 /\ ~Full(req, Earlier(batch, A, i), r)
        /\ InsertJobs(A, req)

\* The cap check of an atomic batch: every job counts, dedup hits included, and
\* the first job of a queue speaks for its cap.
AtomicFits(batch, req) ==
    \A i \in DOMAIN batch :
        LET r == req[batch[i]]
            same == {j \in DOMAIN req : req[j].queue = r.queue}
            first == \A h \in 1..(i - 1) : batch[h] \notin same
        IN  first /\ r.max_queue_depth # None =>
                LiveDepth(r.queue) + Cardinality(same) <= r.max_queue_depth

EnqueueAtomic(batch, req) ==
    /\ \A j \in DOMAIN req : ~Closing(req[j].queue)
    /\ AtomicFits(batch, req)
    /\ \E A \in SUBSET DOMAIN req :
          /\ A # {}
          /\ \A i \in DOMAIN batch :
                batch[i] \in A <=>
                    ~DedupHit(req, Earlier(batch, A, i), req[batch[i]])
          /\ InsertJobs(A, req)

-----------------------------------------------------------------------------
(* The operations of workers. *)

\* The queues of a reserve are emptied in the order given.
PopBefore(queues, e, f) ==
    IF e.queue = f.queue
    THEN ReadyBefore(e, f)
    ELSE \E i \in DOMAIN queues :
            /\ queues[i] = e.queue
            /\ \A h \in 1..i : queues[h] # f.queue

LeasedButLast(P) == {e \in P : db.jobs[e.job] # None
                              /\ e.attempt < db.jobs[e.job].max_attempts}

Leased(P) == {e \in P : db.jobs[e.job] # None}

\* P are the entries popped: those whose job row is gone are dropped, the
\* others are leased until `expires'.
LeaseJobs(P, expires) ==
    LET leased == Leased(P)
        J == {e.job : e \in leased}
        attempt(j) == (CHOOSE e \in leased : e.job = j).attempt
    IN  /\ db' = [db EXCEPT
              !.ready = @ \ P,
              !.inflight = [j \in Job |->
                  IF j \in J
                  THEN [attempt |-> attempt(j), lease_expires_at |-> expires,
                        enqueued_at |-> db.jobs[j].enqueued_at,
                        priority |-> db.jobs[j].priority,
                        max_attempts |-> db.jobs[j].max_attempts,
                        queue |-> db.jobs[j].queue]
                  ELSE db.inflight[j]],
              !.leases = @ \cup {[deadline |-> expires, job |-> j] : j \in J}]
        /\ ix' = [ix EXCEPT
              !.ready = @ \ P,
              !.leases = @ \cup
                  {TimerEntry(expires, j, db.jobs[j].queue) : j \in J}]
        /\ UNCHANGED <<now, minted>>

\* Entries are popped until max_jobs jobs are leased or the queues are empty.
Reserve(queues, lease_ms, max_jobs) ==
    LET avail == {e \in ix.ready : \E i \in DOMAIN queues : queues[i] = e.queue}
    IN  \E P \in SUBSET avail :
            /\ P # {}
            /\ \A e \in P, f \in avail \ P : ~PopBefore(queues, f, e)
            /\ Cardinality(Leased(P)) <= max_jobs
            /\ Cardinality(Leased(P)) = max_jobs \/ P = avail
            /\ LeaseJobs(P, now + lease_ms)

\* The fence of ack, nack and extend: the job is in flight on this attempt.
\* Whether the lease has expired is not asked.
Holds(j, attempt) ==
    db.inflight[j] # None /\ db.inflight[j].attempt = attempt

LeaseTimer(j) == [deadline |-> db.inflight[j].lease_expires_at, job |-> j]

Ack(j, attempt) ==
    /\ Holds(j, attempt)
    /\ db' = [RemoveRows(db, {j}) EXCEPT
          !.inflight = Drop(@, {j}),
          !.leases = @ \ {LeaseTimer(j)}]
    /\ ix' = [ix EXCEPT !.leases = Without(@, {LeaseTimer(j)})]
    /\ UNCHANGED <<now, minted>>

WithoutPayload(j, attempt, cause) ==
    IF RetentionMs = 0 \/ db.jobs[j] = None THEN {}
    ELSE {[failed_at |-> now, queue |-> db.jobs[j].queue, job |-> j,
           attempt |-> attempt, cause |-> cause,
           priority |-> db.jobs[j].priority,
           max_attempts |-> db.jobs[j].max_attempts,
           payload |-> None]}

\* maybe_store_dead_letter: the record embeds the job and its payload.
DeadLettered(j, attempt, cause) ==
    IF RetentionMs = 0 \/ db.jobs[j] = None THEN {}
    ELSE {[failed_at |-> now, queue |-> db.jobs[j].queue, job |-> j,
           attempt |-> attempt, cause |-> cause,
           priority |-> db.jobs[j].priority,
           max_attempts |-> db.jobs[j].max_attempts,
           payload |-> db.payloads[j]]}

Unindexed(records) == {}

KeysOf(records) == {DeadLetterKey(e) : e \in records}

\* A nack that ends the job: the worker rejects it or the attempts are used up.
NackDead(j, attempt, reject) ==
    LET cause  == IF reject THEN "rejected" ELSE "attempts_exhausted"
        record == DeadLettered(j, attempt, cause)
    IN  /\ Holds(j, attempt)
        /\ reject \/ LastAttempt(db.inflight[j])
        /\ db' = [RemoveRows(db, {j}) EXCEPT
              !.inflight = Drop(@, {j}),
              !.leases = @ \ {LeaseTimer(j)},
              !.dead_letter = @ \cup record]
        /\ ix' = [ix EXCEPT
              !.leases = Without(@, {LeaseTimer(j)}),
              !.dead_letter = @ \cup KeysOf(record)]
        /\ UNCHANGED <<now, minted>>

\* A nack that retries the job, at once or after the delay resolved for it.
NackRetry(j, attempt, delay_ms) ==
    LET row == db.inflight[j]
        again   == IF delay_ms > 0 THEN {} ELSE {ReadyKey(j, row, NextAttempt(row))}
        delayed == IF delay_ms > 0 THEN {now + delay_ms} ELSE {}
    IN  /\ Holds(j, attempt)
        /\ ~LastAttempt(row)
        /\ db' = [db EXCEPT
              !.inflight = Drop(@, {j}),
              !.leases = @ \ {LeaseTimer(j)},
              !.ready = @ \cup again,
              !.scheduled = @ \cup
                  {[deadline |-> t, job |-> j, attempt |-> NextAttempt(row)] : t \in delayed}]
        /\ ix' = [ix EXCEPT
              !.leases = Without(@, {LeaseTimer(j)}),
              !.ready = @ \cup again,
              !.scheduled = @ \cup {TimerEntry(t, j, row.queue) : t \in delayed}]
        /\ UNCHANGED <<now, minted>>

ExtendKeepingTimer(j, attempt, lease_ms) ==
    /\ Holds(j, attempt)
    /\ db' = [db EXCEPT
          !.inflight[j].lease_expires_at = now + lease_ms,
          !.leases = @ \cup {[deadline |-> now + lease_ms, job |-> j]}]
    /\ ix' = [ix EXCEPT
          !.leases = @ \cup {TimerEntry(now + lease_ms, j, db.inflight[j].queue)}]
    /\ UNCHANGED <<now, minted>>

Extend(j, attempt, lease_ms) ==
    LET expires == now + (IF lease_ms = 0 THEN 1 ELSE lease_ms)
    IN  /\ Holds(j, attempt)
        /\ db' = [db EXCEPT
              !.inflight[j].lease_expires_at = expires,
              !.leases = (@ \ {LeaseTimer(j)})
                            \cup {[deadline |-> expires, job |-> j]}]
        /\ ix' = [ix EXCEPT
              !.leases = Without(@, {LeaseTimer(j)})
                            \cup {TimerEntry(expires, j, db.inflight[j].queue)}]
        /\ UNCHANGED <<now, minted>>

-----------------------------------------------------------------------------
(* The timer sweep. *)

DueLate(S, time) == {t \in S : t.deadline < time}

Due(S, time) == {t \in S : t.deadline <= time}

Outdated == {e \in ix.dead_letter : RetentionMs > 0 /\ e.failed_at <= now - RetentionMs}

LapsedLate == {q \in Queue : ix.closing[q] # None /\ ix.closing[q] < now}

LapsedClosings == {q \in Queue : ix.closing[q] # None /\ ix.closing[q] <= now}

\* next_deadline(...) <= now
SweepDue ==
    \/ Due(ix.scheduled \cup ix.leases, now) # {}
    \/ Due(ix.dedup_timers, now) # {}
    \/ Outdated # {}
    \/ LapsedClosings # {}

\* The sweep of one popped set per phase: scheduled timers S, leases L, dedup
\* timers T and dead-letter records D.
SweepOf(S, L, T, D) ==
    LET skeys     == {TimerKey(t) : t \in S}
        promoted  == {t \in db.scheduled :
                         TimerKey(t) \in skeys /\ db.jobs[t.job] # None}
        expired   == {j \in {t.job : t \in L} : db.inflight[j] # None}
        exhausted == {j \in expired : LastAttempt(db.inflight[j])}
        readied   == {ReadyKey(t.job, db.jobs[t.job], t.attempt) : t \in promoted}
                     \cup {ReadyKey(j, db.inflight[j], NextAttempt(db.inflight[j])) :
                              j \in expired \ exhausted}
        records   == UNION {DeadLettered(j, db.inflight[j].attempt, "lease_expired") :
                              j \in exhausted}
        forgotten == {k \in {<<t.queue, t.key>> : t \in T} :
                         db.dedup[k] # None /\ db.dedup[k].deadline <= now}
    IN  /\ db' = [RemoveRows(db, exhausted) EXCEPT
              !.closing = Drop(@, LapsedClosings),
              !.inflight = Drop(@, expired),
              !.ready = @ \cup readied,
              !.scheduled = Without(@, skeys),
              !.leases = Without(@, {TimerKey(t) : t \in L}),
              !.dedup = Drop(@, forgotten),
              !.dedup_timers = @ \ T,
              !.dead_letter = {e \in @ \cup records : DeadLetterKey(e) \notin D}]
        /\ ix' = [ix EXCEPT
              !.closing = Drop(@, LapsedClosings),
              !.ready = @ \cup readied,
              !.scheduled = @ \ S,
              !.leases = @ \ L,
              !.dedup_timers = @ \ T,
              !.dead_letter = (@ \cup KeysOf(records)) \ D]

Sweep ==
    /\ SweepDue
    /\ \E S \in FirstOf(Due(ix.scheduled, now), SweepLimit, TimerBefore),
          L \in FirstOf(Due(ix.leases, now), SweepLimit, TimerBefore),
          T \in FirstOf(Due(ix.dedup_timers, now), SweepLimit, TimerBefore),
          D \in FirstOf(Outdated, SweepLimit, FailedBefore) : SweepOf(S, L, T, D)
    /\ UNCHANGED <<now, minted>>

-----------------------------------------------------------------------------
(* The operations of operators: dead letters and the deletion of queues.   *)
(* A key that is no longer there counts as missing and changes nothing.    *)

DropDeadLetters(K) ==
    /\ db' = [db EXCEPT !.dead_letter = {e \in @ : DeadLetterKey(e) \notin K}]
    /\ ix' = [ix EXCEPT !.dead_letter = @ \ K]
    /\ UNCHANGED <<now, minted>>

\* The oldest records are examined, at most scan_cap of them, until max are
\* chosen; `want' is the queue filter.
DrainDeadLetters(want, max) ==
    \E X \in SUBSET ix.dead_letter :
        LET chosen == {e \in X : want = None \/ e.queue = want}
        IN  /\ chosen # {}
            /\ Cardinality(X) <= ScanCap /\ Cardinality(chosen) <= max
            /\ \/ X = ix.dead_letter
               \/ Cardinality(X) = ScanCap
               \/ Cardinality(chosen) = max
            /\ \A e \in X, f \in ix.dead_letter \ X : ~FailedBefore(f, e)
            /\ DropDeadLetters(chosen)

\* The attempt restarts at 1 and the job keeps its id.  Neither the closing
\* tombstone nor the depth cap is consulted.
RequeueDeadLetters(q, R) ==
    LET J == {e.job : e \in R}
        rec(j) == CHOOSE e \in R : e.job = j
        row(j) == [queue |-> rec(j).queue, priority |-> rec(j).priority,
                   max_attempts |-> rec(j).max_attempts, enqueued_at |-> now]
        readied == {ReadyKey(j, row(j), FirstAttempt) : j \in J}
    IN  /\ R \subseteq Owned(db.dead_letter, q)
        /\ db' = [db EXCEPT
              !.jobs = [j \in Job |-> IF j \in J THEN row(j) ELSE db.jobs[j]],
              !.payloads = [j \in Job |->
                  IF j \in J /\ rec(j).payload # None
                  THEN rec(j).payload ELSE db.payloads[j]],
              !.ready = @ \cup readied,
              !.dead_letter = @ \ R]
        /\ ix' = [ix EXCEPT
              !.ready = @ \cup readied,
              !.dead_letter = @ \ KeysOf(R)]
        /\ UNCHANGED <<now, minted>>

\* The ready entries R and scheduled entries S (a request names one kind) whose
\* job row is in the queue.
DeadLetterJobs(q, R, S) ==
    LET J == {e.job : e \in R \cup S}
        records == UNION {DeadLettered(e.job, e.attempt, "admin") : e \in R \cup S}
    IN  /\ R \subseteq db.ready /\ S \subseteq db.scheduled
        /\ \A j \in J : db.jobs[j] # None /\ db.jobs[j].queue = q
        /\ db' = [RemoveRows(db, J) EXCEPT
              !.ready = @ \ R, !.scheduled = @ \ S,
              !.dead_letter = @ \cup records]
        /\ ix' = [ix EXCEPT
              !.ready = @ \ R,
              !.scheduled = Without(@, {TimerKey(t) : t \in S}),
              !.dead_letter = @ \cup KeysOf(records)]
        /\ UNCHANGED <<now, minted>>

DeleteDeadLetters(q, K) == K \subseteq Owned(ix.dead_letter, q) /\ DropDeadLetters(K)

CloseQueue(q) ==
    /\ db' = [db EXCEPT !.closing[q] = now + CloseGraceMs]
    /\ ix' = [ix EXCEPT !.closing[q] = now + CloseGraceMs]
    /\ UNCHANGED <<now, minted>>

OpenQueue(q) ==
    /\ ix.closing[q] # None
    /\ db' = [db EXCEPT !.closing[q] = None]
    /\ ix' = [ix EXCEPT !.closing[q] = None]
    /\ UNCHANGED <<now, minted>>

PurgeOf(R, S, D, T) ==
    LET J == {e.job : e \in R \cup S}
    IN  /\ db' = [RemoveRows(db, J) EXCEPT
              !.ready = @ \ R,
              !.scheduled = Without(@, {TimerKey(t) : t \in S}),
              !.dead_letter = {e \in @ : DeadLetterKey(e) \notin D},
              !.dedup = Drop(@, {<<t.queue, t.key>> : t \in T}),
              !.dedup_timers = @ \ T]
        /\ ix' = [ix EXCEPT
              !.ready = @ \ R, !.scheduled = @ \ S,
              !.dead_letter = @ \ D, !.dedup_timers = @ \ T]
        /\ UNCHANGED <<now, minted>>

\* Up to `max' entries: ready jobs first, then scheduled jobs, dead letters and
\* dedup rows.  Refused while the queue has jobs in flight.
PurgeQueueChunk(q, max) ==
    /\ Owned(ix.leases, q) = {}
    /\ \E R \in FirstOf(Owned(ix.ready, q), max, ReadyBefore) :
       \E S \in FirstOf(Owned(ix.scheduled, q), max - Cardinality(R), TimerBefore) :
       \E D \in FirstOf(Owned(ix.dead_letter, q),
                        max - Cardinality(R) - Cardinality(S), FailedBefore) :
       \E T \in FirstOf(Owned(ix.dedup_timers, q),
                        max - Cardinality(R) - Cardinality(S) - Cardinality(D),
                        TimerBefore) :
          R \cup S \cup D \cup T # {} /\ PurgeOf(R, S, D, T)

-----------------------------------------------------------------------------
(* The wall clock may jump to any time, backwards included. *)
Tick == \E t \in Time \ {now} : now' = t /\ UNCHANGED <<db, ix, minted>>

\* The batches of up to MaxBatch distinct fresh ids.
Batches ==
    LET fresh == {j \in Job : minted[j] = None} IN
    UNION {{b \in [1..n -> fresh] : \A h, i \in 1..n : b[h] = b[i] => h = i} :
              n \in 1..MaxBatch}

\* prepare_jobs resolves a batch under one registry snapshot, so the jobs of a
\* queue carry one cap.
Requests(batch) ==
    {req \in [{batch[i] : i \in DOMAIN batch} -> Request] :
        \A i, j \in DOMAIN req : req[i].queue = req[j].queue =>
            req[i].max_queue_depth = req[j].max_queue_depth}

Producers ==
    \E batch \in Batches : \E req \in Requests(batch) :
        Enqueue(batch, req) \/ EnqueueAtomic(batch, req)

InFlight == {j \in Job : db.inflight[j] # None}

\* A call that names another attempt, or a job not in flight, is refused and
\* changes nothing.
Workers ==
    \/ \E queues \in ReserveQueues, lease_ms \in LeaseMs, n \in 1..MaxReserve :
          Reserve(queues, lease_ms, n)
    \/ \E j \in InFlight :
          LET attempt == db.inflight[j].attempt IN
          \/ Ack(j, attempt)
          \/ \E reject \in BOOLEAN : NackDead(j, attempt, reject)
          \/ \E delay_ms \in RetryDelayMs : NackRetry(j, attempt, delay_ms)
          \/ \E lease_ms \in LeaseMs : Extend(j, attempt, lease_ms)

Requeues ==
    \E q \in Queue : \E R \in SUBSET Owned(db.dead_letter, q) :
        R # {} /\ RequeueDeadLetters(q, R)

Purges == \E q \in Queue : PurgeQueueChunk(q, PurgeChunk)

Operators ==
    \/ \E want \in Queue \cup {None}, max \in 1..MaxDrain :
          DrainDeadLetters(want, max)
    \/ \E q \in Queue :
          \/ \E R \in SUBSET Owned(db.ready, q) :
                R # {} /\ DeadLetterJobs(q, R, {})
          \/ \E S \in SUBSET db.scheduled :
                S # {} /\ DeadLetterJobs(q, {}, S)
          \/ \E K \in SUBSET Owned(ix.dead_letter, q) :
                K # {} /\ DeleteDeadLetters(q, K)
          \/ CloseQueue(q)
          \/ OpenQueue(q)

Next ==
    Producers \/ Workers \/ Requeues \/ Purges \/ Operators \/ Sweep \/ Tick

Spec == Init /\ [][Next]_vars

-----------------------------------------------------------------------------
(* Invariants. *)

TimerKeys == [deadline : Int, job : Job]

ScheduledEntry == [deadline : Int, job : Job, attempt : Nat \ {0}]

DedupTimer == [deadline : Int, queue : Queue, key : Key]

OwnedTimer == [deadline : Int, job : Job, queue : Queue]

\* The keyspaces and indexes hold rows of their types, and every timer of an
\* index has an owner.
TypeOK ==
    /\ db \in [jobs         : [Job -> JobRow \cup {None}],
               payloads     : [Job -> Payload \cup {None}],
               inflight     : [Job -> InflightRow \cup {None}],
               ready        : SUBSET ReadyEntry,
               scheduled    : SUBSET ScheduledEntry,
               leases       : SUBSET TimerKeys,
               dead_letter  : SUBSET DeadLetterEntry,
               dedup        : [Queue \X Key -> DedupRow \cup {None}],
               dedup_timers : SUBSET DedupTimer,
               closing      : [Queue -> Int \cup {None}]]
    /\ ix \in [ready        : SUBSET ReadyEntry,
               scheduled    : SUBSET OwnedTimer,
               leases       : SUBSET OwnedTimer,
               dead_letter  : SUBSET [failed_at : Int, queue : Queue, job : Job],
               dedup_timers : SUBSET DedupTimer,
               closing      : [Queue -> Int \cup {None}]]
    /\ now \in Time
    /\ minted \in [Job -> Request \cup {None}]

\* A job that has a row waits in the ready queue, waits for a timer, or is in
\* flight: no sequence of operations strands it (storage.rs moves a job
\* between keyspaces with separate removes and inserts).
NoJobStranded ==
    \A j \in Job : db.jobs[j] # None =>
        \/ \E e \in db.ready : e.job = j
        \/ \E t \in db.scheduled : t.job = j
        \/ db.inflight[j] # None

\* A job is in at most one of those places, once, and none of them, nor a
\* payload, outlives the job's row: nobody can be handed a job twice at the
\* same time, and no row leaks.
NoJobDuplicated ==
    /\ \A e \in db.ready :
          /\ db.jobs[e.job] # None
          /\ db.inflight[e.job] = None
          /\ \A f \in db.ready : f.job = e.job => f = e
          /\ \A t \in db.scheduled : t.job # e.job
    /\ \A t \in db.scheduled :
          /\ db.jobs[t.job] # None
          /\ db.inflight[t.job] = None
          /\ \A u \in db.scheduled : u.job = t.job => u = t
    /\ \A j \in Job :
          db.jobs[j] = None => db.inflight[j] = None /\ db.payloads[j] = None

\* The copies of a job's queue, priority and enqueue time in its ready key and
\* its in-flight row agree with the job row, so a redelivered job keeps its
\* place in the queue.
CopiesAgree ==
    /\ \A e \in db.ready : e = ReadyKey(e.job, db.jobs[e.job], e.attempt)
    /\ \A j \in InFlight :
          db.jobs[j] = [queue |-> db.inflight[j].queue,
                        priority |-> db.inflight[j].priority,
                        max_attempts |-> db.inflight[j].max_attempts,
                        enqueued_at |-> db.inflight[j].enqueued_at]

\* Every job in flight has exactly one lease timer, the one its row names:
\* a lease cannot outlive its timer (the job would never be redelivered) and
\* an old timer cannot expire a newer lease (extend, storage.rs:2254-2307).
LeaseTimersExact == db.leases = {LeaseTimer(j) : j \in InFlight}

\* Every dedup row has exactly one expiry timer, and no timer is left behind
\* when a key is enqueued again (insert_job, storage.rs:1328).
DedupTimersExact ==
    db.dedup_timers =
        {[deadline |-> db.dedup[k].deadline, queue |-> k[1], key |-> k[2]] :
            k \in {k \in Queue \X Key : db.dedup[k] # None}}

\* So a deadline that is due is the deadline of something that exists, and
\* everything that has a deadline meets it.
TimersExact == LeaseTimersExact /\ DedupTimersExact

\* A job is dead-lettered at most once at a time and is not also live.
DeadOrLive ==
    \A e \in db.dead_letter :
        /\ db.jobs[e.job] = None
        /\ \A f \in db.dead_letter : f.job = e.job => f = e

\* The indexes the operations update by hand are what rebuild_indexes would
\* read back from the keyspaces: a restart changes nothing.
IndexesMirror == ix = RebuildIndexes(db)

\* A job keeps the queue, priority, attempts and payload of the request that
\* was accepted, through retries, dead-lettering and requeueing.
RequestKept ==
    /\ \A j \in Job : db.jobs[j] # None =>
          /\ minted[j] # None
          /\ db.jobs[j].queue = minted[j].queue
          /\ db.jobs[j].priority = minted[j].priority
          /\ db.jobs[j].max_attempts = minted[j].max_attempts
          /\ db.payloads[j] = minted[j].payload
    /\ \A e \in db.dead_letter :
          /\ minted[e.job] # None
          /\ e.queue = minted[e.job].queue
          /\ e.priority = minted[e.job].priority
          /\ e.max_attempts = minted[e.job].max_attempts
          /\ e.payload = minted[e.job].payload

-----------------------------------------------------------------------------
(* Action properties. *)

\* Inside its window a dedup row is fixed: the key keeps answering with the
\* first job and the window does not slide, unless the queue is purged.
DedupWindowFixed ==
    [][\A k \in Queue \X Key :
          db.dedup[k] # None /\ now < db.dedup[k].deadline =>
              db'.dedup[k] = db.dedup[k] \/ Purges]_vars

\* Neither form of enqueue takes a queue past the max_queue_depth its jobs
\* carry, however many jobs of the batch go to the queue.
CapKept ==
    [][\A j \in Job, q \in Queue :
          /\ minted[j] # minted'[j]
          /\ minted'[j].queue = q
          /\ minted'[j].max_queue_depth # None
          => LiveDepth(q)' <= minted'[j].max_queue_depth]_vars

Elsewhere(S, q) == {e \in S : e.queue # q}

\* A purge goes ahead only if no job of its queue is in flight, which it reads
\* off the lease index and this property off the keyspace, and it removes no
\* row of another queue: no job, payload, ready or scheduled entry, dead letter
\* or idempotency key (purge_queue_chunk).
PurgeStaysInQueue ==
    [][\A q \in Queue : PurgeQueueChunk(q, PurgeChunk) =>
          /\ \A j \in InFlight : db.inflight[j].queue # q
          /\ \A j \in Job : db.jobs[j] # None /\ db.jobs[j].queue # q =>
                db'.jobs[j] = db.jobs[j] /\ db'.payloads[j] = db.payloads[j]
          /\ Elsewhere(db.ready, q) \subseteq db'.ready
          /\ \A t \in db.scheduled : db.jobs[t.job].queue # q => t \in db'.scheduled
          /\ Elsewhere(db.dead_letter, q) \subseteq db'.dead_letter
          /\ \A k \in Queue \X Key : k[1] # q => db'.dedup[k] = db.dedup[k]]_vars
=============================================================================
