--------------------------- MODULE JobStoreProofs ---------------------------
(***************************************************************************)
(* Every job of the store is well-formed and has exactly one place, for    *)
(* every set of jobs, queues, keys and payloads, every request, every bound*)
(* and every behaviour of the clock.                                       *)
(***************************************************************************)
EXTENDS JobStore, TLAPS

USE DEF ScheduledEntry, DedupTimer, OwnedTimer, TimerKeys

-----------------------------------------------------------------------------
(* Type correctness, one lemma per operation. *)

LEMMA InitType == Init => TypeOK
  BY TimeAssumption DEF Init, TypeOK

LEMMA InsertType ==
  ASSUME TypeOK, NEW B \in SUBSET Job, NEW req \in [B -> Request], NEW A \in SUBSET B,
         InsertJobs(A, req)
  PROVE  TypeOK'
PROOF
  <1> DEFINE row(j) == [queue |-> req[j].queue, priority |-> req[j].priority,
                        max_attempts |-> req[j].max_attempts, enqueued_at |-> now]
             later == {j \in A : req[j].scheduled_at # None /\ req[j].scheduled_at > now}
             readied == {ReadyKey(j, row(j), FirstAttempt) : j \in A \ later}
             keyed == {j \in A : req[j].idempotency_key # None}
             owner(k) == CHOOSE j \in keyed : DedupKey(req[j]) = k
             keys == {DedupKey(req[j]) : j \in keyed}
             expires(j) == now + req[j].dedup_window_ms
             stale == StaleTimers(keys)
             fresh == {[deadline |-> expires(j), queue |-> req[j].queue,
                        key |-> req[j].idempotency_key] : j \in keyed}
             jobs == [j \in Job |-> IF j \in A THEN row(j) ELSE db.jobs[j]]
             payloads == [j \in Job |-> IF j \in A THEN req[j].payload ELSE db.payloads[j]]
             timers == {[deadline |-> req[j].scheduled_at, job |-> j,
                         attempt |-> FirstAttempt] : j \in later}
             owned == {TimerEntry(req[j].scheduled_at, j, req[j].queue) : j \in later}
             dedup == [k \in Queue \X Key |->
                          IF k \in keys
                          THEN [job |-> owner(k), deadline |-> expires(owner(k))]
                          ELSE db.dedup[k]]
  <1>1. \A j \in A : req[j] \in JobRequest
    BY RequestAssumption, Zenon
  <1>2. now \in Int
    BY TimeAssumption, Zenon DEF TypeOK
  <1>3. jobs \in [Job -> JobRow \cup {None}]
    BY <1>1, <1>2, Zenon DEF JobRequest, JobRow, TypeOK
  <1>4. payloads \in [Job -> Payload \cup {None}]
    BY <1>1, Zenon DEF JobRequest, TypeOK
  <1>5. readied \in SUBSET ReadyEntry
    BY <1>1, <1>2 DEF JobRequest, ReadyEntry, ReadyKey, FirstAttempt
  <1>6. timers \in SUBSET ScheduledEntry /\ owned \in SUBSET OwnedTimer
    BY <1>1 DEF JobRequest, FirstAttempt, TimerEntry
  <1>7. dedup \in [Queue \X Key -> DedupRow \cup {None}]
    <2>1. \A k \in keys : owner(k) \in keyed
      OBVIOUS
    <2>2. \A k \in keys : [job |-> owner(k), deadline |-> expires(owner(k))] \in DedupRow
      BY <1>1, <1>2, <2>1 DEF JobRequest, DedupRow
    <2> QED
      BY <2>2, ZenonT(30) DEF TypeOK
  <1>8. fresh \in SUBSET DedupTimer
    BY <1>1, <1>2 DEF JobRequest
  <1>9. minted' \in [Job -> Request \cup {None}] /\ now' \in Time
    BY Zenon DEF InsertJobs, TypeOK
  <1>10. /\ db' = [db EXCEPT !.jobs = jobs, !.payloads = payloads,
                     !.ready = db.ready \cup readied,
                     !.scheduled = db.scheduled \cup timers, !.dedup = dedup,
                     !.dedup_timers = (db.dedup_timers \ stale) \cup fresh]
         /\ ix' = [ix EXCEPT !.ready = ix.ready \cup readied,
                     !.scheduled = ix.scheduled \cup owned,
                     !.dedup_timers = (ix.dedup_timers \ stale) \cup fresh]
    BY Zenon DEF InsertJobs
  <1> HIDE DEF jobs, payloads, readied, timers, owned, dedup, fresh, stale
  <1> QED
    BY <1>3, <1>4, <1>5, <1>6, <1>7, <1>8, <1>9, <1>10, ZenonT(60) DEF TypeOK

LEMMA DropType ==
  ASSUME NEW D, NEW R, NEW f \in [D -> R \cup {None}], NEW S
  PROVE  Drop(f, S) \in [D -> R \cup {None}]
  BY Zenon DEF Drop

LEMMA WithoutSubset ==
  ASSUME NEW S, NEW keys
  PROVE  Without(S, keys) \subseteq S
  BY Zenon DEF Without

\* The dead-letter record of a job has its type.
LEMMA DeadLetteredType ==
  ASSUME TypeOK, NEW j \in Job, NEW attempt \in Nat \ {0}, NEW cause \in Cause
  PROVE  /\ DeadLettered(j, attempt, cause) \in SUBSET DeadLetterEntry
         /\ KeysOf(DeadLettered(j, attempt, cause))
               \in SUBSET [failed_at : Int, queue : Queue, job : Job]
PROOF
  <1>1. DeadLettered(j, attempt, cause) \in SUBSET DeadLetterEntry
    BY TimeAssumption DEF TypeOK, DeadLettered, DeadLetterEntry, JobRow
  <1> QED
    BY <1>1 DEF KeysOf, DeadLetterKey, DeadLetterEntry

LEMMA LeaseType ==
  ASSUME TypeOK, NEW P \in SUBSET ix.ready, NEW expires \in Int, LeaseJobs(P, expires)
  PROVE  TypeOK'
PROOF
  <1> DEFINE leased == Leased(P)
             J == {e.job : e \in leased}
             attempt(j) == (CHOOSE e \in leased : e.job = j).attempt
             inflight == [j \in Job |->
                 IF j \in J
                 THEN [attempt |-> attempt(j), lease_expires_at |-> expires,
                       enqueued_at |-> db.jobs[j].enqueued_at,
                       priority |-> db.jobs[j].priority,
                       max_attempts |-> db.jobs[j].max_attempts,
                       queue |-> db.jobs[j].queue]
                 ELSE db.inflight[j]]
             timers == {[deadline |-> expires, job |-> j] : j \in J}
             owned == {TimerEntry(expires, j, db.jobs[j].queue) : j \in J}
  <1>1. leased \in SUBSET ReadyEntry /\ \A e \in leased : db.jobs[e.job] # None
    BY Zenon DEF TypeOK, Leased
  <1>2. \A j \in J : j \in Job /\ db.jobs[j] \in JobRow
    BY <1>1 DEF TypeOK, ReadyEntry
  <1>3. \A j \in J : attempt(j) \in Nat \ {0}
    BY <1>1, Zenon DEF ReadyEntry
  <1>4. inflight \in [Job -> InflightRow \cup {None}]
    BY <1>2, <1>3, ZenonT(30) DEF InflightRow, JobRow, TypeOK
  <1>5. timers \in SUBSET TimerKeys /\ owned \in SUBSET OwnedTimer
    BY <1>2 DEF JobRow, TimerEntry
  <1>6. /\ db' = [db EXCEPT !.ready = db.ready \ P, !.inflight = inflight,
                    !.leases = db.leases \cup timers]
        /\ ix' = [ix EXCEPT !.ready = ix.ready \ P, !.leases = ix.leases \cup owned]
        /\ now' = now /\ minted' = minted
    BY Zenon DEF LeaseJobs
  <1> HIDE DEF inflight, timers, owned
  <1> QED
    BY <1>4, <1>5, <1>6, ZenonT(60) DEF TypeOK

LEMMA ReserveType ==
  ASSUME TypeOK, NEW queues, NEW lease_ms \in LeaseMs, NEW max_jobs,
         Reserve(queues, lease_ms, max_jobs)
  PROVE  TypeOK'
PROOF
  <1>1. now + lease_ms \in Int
    BY TimeAssumption DEF TypeOK
  <1>2. PICK P \in SUBSET ix.ready : LeaseJobs(P, now + lease_ms)
    BY Zenon DEF Reserve
  <1> QED
    BY <1>1, <1>2, LeaseType, Zenon

LEMMA AckType ==
  ASSUME TypeOK, NEW j \in Job, NEW attempt, Ack(j, attempt)
  PROVE  TypeOK'
  BY DropType, WithoutSubset, ZenonT(60) DEF TypeOK, Ack, RemoveRows

LEMMA NackDeadType ==
  ASSUME TypeOK, NEW j \in Job, NEW attempt, NEW reject, NackDead(j, attempt, reject)
  PROVE  TypeOK'
PROOF
  <1> DEFINE cause == IF reject THEN "rejected" ELSE "attempts_exhausted"
             record == DeadLettered(j, attempt, cause)
  <1>1. attempt \in Nat \ {0}
    BY Zenon DEF TypeOK, NackDead, Holds, InflightRow
  <1>2. cause \in Cause
    BY Zenon DEF Cause
  <1>3. /\ record \in SUBSET DeadLetterEntry
        /\ KeysOf(record) \in SUBSET [failed_at : Int, queue : Queue, job : Job]
    BY <1>1, <1>2, DeadLetteredType, Zenon
  <1>4. /\ db' = [RemoveRows(db, {j}) EXCEPT !.inflight = Drop(@, {j}),
                    !.leases = @ \ {LeaseTimer(j)}, !.dead_letter = @ \cup record]
        /\ ix' = [ix EXCEPT !.leases = Without(@, {LeaseTimer(j)}),
                    !.dead_letter = @ \cup KeysOf(record)]
        /\ now' = now /\ minted' = minted
    BY Zenon DEF NackDead
  <1> HIDE DEF record
  <1> QED
    BY <1>3, <1>4, DropType, WithoutSubset, ZenonT(60) DEF TypeOK, RemoveRows

LEMMA NackRetryType ==
  ASSUME TypeOK, NEW j \in Job, NEW attempt, NEW delay_ms \in RetryDelayMs,
         NackRetry(j, attempt, delay_ms)
  PROVE  TypeOK'
PROOF
  <1> DEFINE row == db.inflight[j]
             again == IF delay_ms > 0 THEN {} ELSE {ReadyKey(j, row, NextAttempt(row))}
             delayed == IF delay_ms > 0 THEN {now + delay_ms} ELSE {}
             timers == {[deadline |-> t, job |-> j, attempt |-> NextAttempt(row)] :
                           t \in delayed}
             owned == {TimerEntry(t, j, row.queue) : t \in delayed}
  <1>1. row \in InflightRow
    BY Zenon DEF TypeOK, NackRetry, Holds
  <1>2. again \in SUBSET ReadyEntry
    BY <1>1 DEF InflightRow, ReadyEntry, ReadyKey, NextAttempt
  <1>3. delayed \in SUBSET Int
    BY TimeAssumption DEF TypeOK
  <1>4. timers \in SUBSET ScheduledEntry /\ owned \in SUBSET OwnedTimer
    BY <1>1, <1>3 DEF InflightRow, NextAttempt, TimerEntry
  <1>5. /\ db' = [db EXCEPT !.inflight = Drop(@, {j}), !.leases = @ \ {LeaseTimer(j)},
                    !.ready = @ \cup again, !.scheduled = @ \cup timers]
        /\ ix' = [ix EXCEPT !.leases = Without(@, {LeaseTimer(j)}),
                    !.ready = @ \cup again, !.scheduled = @ \cup owned]
        /\ now' = now /\ minted' = minted
    BY Zenon DEF NackRetry
  <1> HIDE DEF again, timers, owned
  <1> QED
    BY <1>2, <1>4, <1>5, DropType, WithoutSubset, ZenonT(60) DEF TypeOK

LEMMA ExtendType ==
  ASSUME TypeOK, NEW j \in Job, NEW attempt, NEW lease_ms \in LeaseMs,
         Extend(j, attempt, lease_ms)
  PROVE  TypeOK'
PROOF
  <1> DEFINE expires == now + (IF lease_ms = 0 THEN 1 ELSE lease_ms)
             timer == [deadline |-> expires, job |-> j]
             owned == TimerEntry(expires, j, db.inflight[j].queue)
             inflight == [db.inflight EXCEPT ![j].lease_expires_at = expires]
  <1>1. expires \in Int
    BY TimeAssumption DEF TypeOK
  <1>2. db.inflight[j] \in InflightRow
    BY Zenon DEF TypeOK, Extend, Holds
  <1>3. inflight \in [Job -> InflightRow \cup {None}]
    BY <1>1, <1>2, ZenonT(30) DEF TypeOK, InflightRow
  <1>4. timer \in TimerKeys /\ owned \in OwnedTimer
    BY <1>1, <1>2, Zenon DEF InflightRow, TimerEntry
  <1>5. /\ db' = [db EXCEPT !.inflight = inflight,
                    !.leases = (@ \ {LeaseTimer(j)}) \cup {timer}]
        /\ ix' = [ix EXCEPT !.leases = Without(@, {LeaseTimer(j)}) \cup {owned}]
        /\ now' = now /\ minted' = minted
    BY Zenon DEF Extend, TypeOK
  <1> HIDE DEF inflight, timer, owned
  <1> QED
    BY <1>3, <1>4, <1>5, WithoutSubset, ZenonT(60) DEF TypeOK

LEMMA SweepType ==
  ASSUME TypeOK, NEW S \in SUBSET ix.scheduled, NEW L \in SUBSET ix.leases,
         NEW T \in SUBSET ix.dedup_timers, NEW D \in SUBSET ix.dead_letter,
         SweepOf(S, L, T, D), UNCHANGED <<now, minted>>
  PROVE  TypeOK'
PROOF
  <1> DEFINE skeys == {TimerKey(t) : t \in S}
             promoted == {t \in db.scheduled :
                             TimerKey(t) \in skeys /\ db.jobs[t.job] # None}
             expired == {j \in {t.job : t \in L} : db.inflight[j] # None}
             exhausted == {j \in expired : LastAttempt(db.inflight[j])}
             readied1 == {ReadyKey(t.job, db.jobs[t.job], t.attempt) : t \in promoted}
             readied2 == {ReadyKey(j, db.inflight[j], NextAttempt(db.inflight[j])) :
                             j \in expired \ exhausted}
             records == UNION {DeadLettered(j, db.inflight[j].attempt, "lease_expired") :
                                  j \in exhausted}
             forgotten == {k \in {<<t.queue, t.key>> : t \in T} :
                              db.dedup[k] # None /\ db.dedup[k].deadline <= now}
             letters == {e \in db.dead_letter \cup records : DeadLetterKey(e) \notin D}
             keys == (ix.dead_letter \cup KeysOf(records)) \ D
  <1>1. \A j \in expired : j \in Job /\ db.inflight[j] \in InflightRow
    BY DEF TypeOK
  <1>2. readied1 \in SUBSET ReadyEntry
    BY DEF TypeOK, ReadyEntry, ReadyKey, JobRow
  <1>3. readied2 \in SUBSET ReadyEntry
    BY <1>1 DEF ReadyEntry, ReadyKey, InflightRow, NextAttempt
  <1>4. /\ records \in SUBSET DeadLetterEntry
        /\ KeysOf(records) \in SUBSET [failed_at : Int, queue : Queue, job : Job]
    <2>1. \A j \in exhausted :
             DeadLettered(j, db.inflight[j].attempt, "lease_expired") \in SUBSET DeadLetterEntry
      BY <1>1, DeadLetteredType, Zenon DEF InflightRow, Cause
    <2>2. records \in SUBSET DeadLetterEntry
      BY <2>1, Zenon
    <2> HIDE DEF records
    <2> QED
      BY <2>2 DEF KeysOf, DeadLetterKey, DeadLetterEntry
  <1>5. /\ letters \in SUBSET DeadLetterEntry
        /\ keys \in SUBSET [failed_at : Int, queue : Queue, job : Job]
    BY <1>4, Zenon DEF TypeOK
  <1>6. /\ db' = [db EXCEPT
                    !.jobs = Drop(db.jobs, exhausted), !.payloads = Drop(db.payloads, exhausted),
                    !.closing = Drop(db.closing, LapsedClosings),
                    !.inflight = Drop(db.inflight, expired),
                    !.ready = db.ready \cup (readied1 \cup readied2),
                    !.scheduled = Without(db.scheduled, skeys),
                    !.leases = Without(db.leases, {TimerKey(t) : t \in L}),
                    !.dedup = Drop(db.dedup, forgotten), !.dedup_timers = db.dedup_timers \ T,
                    !.dead_letter = letters]
        /\ ix' = [ix EXCEPT
                    !.closing = Drop(ix.closing, LapsedClosings),
                    !.ready = ix.ready \cup (readied1 \cup readied2),
                    !.scheduled = ix.scheduled \ S, !.leases = ix.leases \ L,
                    !.dedup_timers = ix.dedup_timers \ T, !.dead_letter = keys]
        /\ now' = now /\ minted' = minted
    BY Zenon DEF SweepOf, RemoveRows, TypeOK
  <1> HIDE DEF promoted, readied1, readied2, records, forgotten, expired, exhausted, skeys,
               letters, keys
  <1> QED
    BY <1>2, <1>3, <1>5, <1>6, DropType, WithoutSubset, ZenonT(60) DEF TypeOK

LEMMA RequeueType ==
  ASSUME TypeOK, NEW q \in Queue, NEW R, RequeueDeadLetters(q, R)
  PROVE  TypeOK'
PROOF
  <1> DEFINE J == {e.job : e \in R}
             rec(j) == CHOOSE e \in R : e.job = j
             row(j) == [queue |-> rec(j).queue, priority |-> rec(j).priority,
                        max_attempts |-> rec(j).max_attempts, enqueued_at |-> now]
             readied == {ReadyKey(j, row(j), FirstAttempt) : j \in J}
             jobs == [j \in Job |-> IF j \in J THEN row(j) ELSE db.jobs[j]]
             payloads == [j \in Job |->
                             IF j \in J /\ rec(j).payload # None
                             THEN rec(j).payload ELSE db.payloads[j]]
  <1>1. R \in SUBSET DeadLetterEntry
    BY Zenon DEF RequeueDeadLetters, Owned, TypeOK
  <1>2. \A j \in J : j \in Job /\ rec(j) \in DeadLetterEntry
    BY <1>1, Zenon DEF DeadLetterEntry
  <1>3. now \in Int
    BY TimeAssumption, Zenon DEF TypeOK
  <1>4. jobs \in [Job -> JobRow \cup {None}]
    BY <1>2, <1>3 DEF TypeOK, JobRow, DeadLetterEntry
  <1>5. payloads \in [Job -> Payload \cup {None}]
    BY <1>2 DEF TypeOK, DeadLetterEntry
  <1>6. readied \in SUBSET ReadyEntry
    BY <1>2, <1>3 DEF ReadyEntry, ReadyKey, DeadLetterEntry, FirstAttempt
  <1>7. /\ db' = [db EXCEPT !.jobs = jobs, !.payloads = payloads,
                    !.ready = @ \cup readied, !.dead_letter = @ \ R]
        /\ ix' = [ix EXCEPT !.ready = @ \cup readied, !.dead_letter = @ \ KeysOf(R)]
        /\ now' = now /\ minted' = minted
    BY Zenon DEF RequeueDeadLetters
  <1> HIDE DEF jobs, payloads, readied
  <1> QED
    BY <1>4, <1>5, <1>6, <1>7, ZenonT(30) DEF TypeOK

\* The jobs of a batch are job ids.
LEMMA BatchType ==
  ASSUME NEW batch \in Batches, NEW req \in Requests(batch)
  PROVE  \E B \in SUBSET Job : req \in [B -> Request] /\ DOMAIN req = B
PROOF
  <1>1. PICK n \in 1..MaxBatch : batch \in [1..n -> {j \in Job : minted[j] = None}]
    BY Zenon DEF Batches
  <1>2. {batch[i] : i \in DOMAIN batch} \in SUBSET Job
    BY <1>1, Zenon
  <1> QED
    BY <1>2, ZenonT(30) DEF Requests

LEMMA ProducersType == ASSUME TypeOK, Producers PROVE TypeOK'
PROOF
  <1>1. PICK batch \in Batches : \E req \in Requests(batch) :
           Enqueue(batch, req) \/ EnqueueAtomic(batch, req)
    BY Zenon DEF Producers
  <1>2. PICK req \in Requests(batch) : Enqueue(batch, req) \/ EnqueueAtomic(batch, req)
    BY <1>1, Zenon
  <1>3. PICK B \in SUBSET Job : req \in [B -> Request] /\ DOMAIN req = B
    BY BatchType, Zenon
  <1>4. PICK A \in SUBSET B : InsertJobs(A, req)
    BY <1>2, <1>3, Zenon DEF Enqueue, EnqueueAtomic
  <1> QED
    BY <1>3, <1>4, InsertType, Zenon

LEMMA WorkersType == ASSUME TypeOK, Workers PROVE TypeOK'
  BY BoundsAssumption, ReserveType, AckType, NackDeadType, NackRetryType, ExtendType, Zenon
  DEF Workers, InFlight

LEMMA SweepStepType == ASSUME TypeOK, Sweep PROVE TypeOK'
PROOF
  <1>1. PICK S \in SUBSET ix.scheduled, L \in SUBSET ix.leases,
             T \in SUBSET ix.dedup_timers, D \in SUBSET ix.dead_letter :
             SweepOf(S, L, T, D)
    BY Zenon DEF Sweep, FirstOf, Due, Outdated
  <1> QED
    BY <1>1, SweepType, Zenon DEF Sweep

LEMMA DeadLetterJobsType ==
  ASSUME TypeOK, NEW q \in Queue, NEW R, NEW S, DeadLetterJobs(q, R, S)
  PROVE  TypeOK'
PROOF
  <1> DEFINE J == {e.job : e \in R \cup S}
             records == UNION {DeadLettered(e.job, e.attempt, "admin") : e \in R \cup S}
  <1>1. \A e \in R \cup S : e.job \in Job /\ e.attempt \in Nat \ {0}
    BY DEF DeadLetterJobs, TypeOK, ReadyEntry
  <1>2. /\ records \in SUBSET DeadLetterEntry
        /\ KeysOf(records) \in SUBSET [failed_at : Int, queue : Queue, job : Job]
    <2>1. \A e \in R \cup S :
             DeadLettered(e.job, e.attempt, "admin") \in SUBSET DeadLetterEntry
      BY <1>1, DeadLetteredType, Zenon DEF Cause
    <2>2. records \in SUBSET DeadLetterEntry
      BY <2>1, Zenon
    <2> HIDE DEF records
    <2> QED
      BY <2>2 DEF KeysOf, DeadLetterKey, DeadLetterEntry
  <1>3. /\ db' = [db EXCEPT
                    !.jobs = Drop(db.jobs, J), !.payloads = Drop(db.payloads, J),
                    !.ready = db.ready \ R, !.scheduled = db.scheduled \ S,
                    !.dead_letter = db.dead_letter \cup records]
        /\ ix' = [ix EXCEPT
                    !.ready = ix.ready \ R,
                    !.scheduled = Without(ix.scheduled, {TimerKey(t) : t \in S}),
                    !.dead_letter = ix.dead_letter \cup KeysOf(records)]
        /\ now' = now /\ minted' = minted
    BY Zenon DEF DeadLetterJobs, RemoveRows, TypeOK
  <1> HIDE DEF J, records
  <1> QED
    BY <1>2, <1>3, DropType, WithoutSubset, ZenonT(60) DEF TypeOK

LEMMA DropDeadLettersType ==
  ASSUME TypeOK, NEW K, DropDeadLetters(K)
  PROVE  TypeOK'
  BY ZenonT(30) DEF TypeOK, DropDeadLetters

LEMMA ClosingType ==
  ASSUME TypeOK, NEW q \in Queue, CloseQueue(q) \/ OpenQueue(q)
  PROVE  TypeOK'
PROOF
  <1>1. now + CloseGraceMs \in Int
    BY TimeAssumption, BoundsAssumption DEF TypeOK
  <1> QED
    BY <1>1 DEF TypeOK, CloseQueue, OpenQueue

LEMMA OperatorsType == ASSUME TypeOK, Operators PROVE TypeOK'
  BY DeadLetterJobsType, DropDeadLettersType, ClosingType, ZenonT(30)
  DEF Operators, DrainDeadLetters, DeleteDeadLetters

LEMMA PurgeType ==
  ASSUME TypeOK, NEW R, NEW S, NEW D, NEW T, PurgeOf(R, S, D, T)
  PROVE  TypeOK'
PROOF
  <1> DEFINE J == {e.job : e \in R \cup S}
             keys == {TimerKey(t) : t \in S}
             forgotten == {<<t.queue, t.key>> : t \in T}
             letters == {e \in db.dead_letter : DeadLetterKey(e) \notin D}
  <1>1. letters \in SUBSET DeadLetterEntry
    BY Zenon DEF TypeOK
  <1>2. /\ db' = [db EXCEPT
                    !.jobs = Drop(db.jobs, J), !.payloads = Drop(db.payloads, J),
                    !.ready = db.ready \ R, !.scheduled = Without(db.scheduled, keys),
                    !.dead_letter = letters, !.dedup = Drop(db.dedup, forgotten),
                    !.dedup_timers = db.dedup_timers \ T]
        /\ ix' = [ix EXCEPT
                    !.ready = ix.ready \ R, !.scheduled = ix.scheduled \ S,
                    !.dead_letter = ix.dead_letter \ D, !.dedup_timers = ix.dedup_timers \ T]
        /\ now' = now /\ minted' = minted
    BY Zenon DEF PurgeOf, RemoveRows, TypeOK
  <1> HIDE DEF J, keys, forgotten, letters
  <1> QED
    BY <1>1, <1>2, DropType, WithoutSubset, ZenonT(60) DEF TypeOK

LEMMA PurgesType == ASSUME TypeOK, Purges PROVE TypeOK'
  BY PurgeType DEF Purges, PurgeQueueChunk

LEMMA NextType == ASSUME TypeOK, [Next]_vars PROVE TypeOK'
PROOF
  <1>1. CASE Producers   BY <1>1, ProducersType, Zenon
  <1>2. CASE Workers     BY <1>2, WorkersType, Zenon
  <1>3. CASE Requeues    BY <1>3, RequeueType, Zenon DEF Requeues
  <1>4. CASE Purges      BY <1>4, PurgesType, Zenon
  <1>5. CASE Operators   BY <1>5, OperatorsType, Zenon
  <1>6. CASE Sweep       BY <1>6, SweepStepType, Zenon
  <1>7. CASE Tick        BY <1>7 DEF Tick, TypeOK
  <1>8. CASE UNCHANGED vars  BY <1>8, Zenon DEF vars, TypeOK
  <1> QED
    BY <1>1, <1>2, <1>3, <1>4, <1>5, <1>6, <1>7, <1>8, Zenon DEF Next

\* Whatever the clients, the operators and the clock do, the keyspaces and the
\* indexes of the committer hold rows of their types: attempts start at 1 and
\* every index timer names the queue that owns it.
THEOREM TypeCorrect == Spec => []TypeOK
PROOF
  <1>1. Init => TypeOK
    BY InitType, Zenon
  <1>2. TypeOK /\ [Next]_vars => TypeOK'
    BY NextType, Zenon
  <1> QED
    BY <1>1, <1>2, PTL DEF Spec

-----------------------------------------------------------------------------
(* Every job has exactly one place: the operations of workers and operators. *)

\* An id that is in the store was minted for an accepted request.
Known ==
    /\ \A j \in Job : db.jobs[j] # None => minted[j] # None
    /\ \A e \in db.dead_letter : minted[e.job] # None

\* The ready index is the ready keyspace; a timer of the scheduled index stands
\* for a scheduled row and names the queue of its job.
PlacesIndexed ==
    /\ ix.ready = db.ready
    /\ \A t \in ix.scheduled :
          /\ t.queue = db.jobs[t.job].queue
          /\ \E u \in db.scheduled : TimerKey(u) = TimerKey(t)

Placement ==
    /\ TypeOK /\ NoJobStranded /\ NoJobDuplicated /\ DeadOrLive /\ CopiesAgree
    /\ Known /\ PlacesIndexed

-----------------------------------------------------------------------------
LEMMA PlacementInit == ASSUME Init PROVE Placement
  BY InitType, Zenon
  DEF Init, Placement, NoJobStranded, NoJobDuplicated, DeadOrLive, CopiesAgree, InFlight,
      Known, PlacesIndexed

LEMMA Fields ==
  ASSUME TypeOK
  PROVE  /\ db.jobs \in [Job -> JobRow \cup {None}]
         /\ db.payloads \in [Job -> Payload \cup {None}]
         /\ db.inflight \in [Job -> InflightRow \cup {None}]
         /\ \A e \in db.ready : e.job \in Job
         /\ \A t \in db.scheduled : t.job \in Job
         /\ \A e \in db.dead_letter : e.job \in Job
         /\ \A t \in ix.scheduled : t.job \in Job
         /\ minted \in [Job -> Request \cup {None}]
  BY DEF TypeOK, ReadyEntry, DeadLetterEntry

LEMMA IndexedTimers ==
  ASSUME Placement
  PROVE  \A t \in ix.scheduled : \E u \in db.scheduled : u.job = t.job
  BY ZenonT(30) DEF Placement, PlacesIndexed, TimerKey

LEMMA FlightCopies ==
  ASSUME TypeOK, CopiesAgree, NEW j \in Job, db.inflight[j] # None
  PROVE  /\ db.jobs[j].queue = db.inflight[j].queue
         /\ db.jobs[j].priority = db.inflight[j].priority
         /\ db.jobs[j].max_attempts = db.inflight[j].max_attempts
         /\ \A n : ReadyKey(j, db.inflight[j], n) = ReadyKey(j, db.jobs[j], n)
PROOF
  <1>1. db.jobs[j] = [queue |-> db.inflight[j].queue,
                      priority |-> db.inflight[j].priority,
                      max_attempts |-> db.inflight[j].max_attempts,
                      enqueued_at |-> db.inflight[j].enqueued_at]
    BY Zenon DEF CopiesAgree, InFlight
  <1> QED
    BY <1>1 DEF ReadyKey

\* What ack and a nack without retry have in common: a job in flight loses its
\* rows; at most one record of it goes to the dead letters.
LEMMA EndPlacement ==
  ASSUME Placement, TypeOK', NEW j \in Job, db.inflight[j] # None, NEW record,
         \A e \in record : e.job = j, \A e, f \in record : e = f,
         db'.jobs = Drop(db.jobs, {j}), db'.payloads = Drop(db.payloads, {j}),
         db'.inflight = Drop(db.inflight, {j}), db'.ready = db.ready,
         db'.scheduled = db.scheduled, db'.dead_letter = db.dead_letter \cup record,
         ix'.ready = ix.ready, ix'.scheduled = ix.scheduled, minted' = minted
  PROVE  Placement'
PROOF
  <1>1. /\ \A e \in db.ready : e.job # j
        /\ \A t \in db.scheduled : t.job # j
        /\ db.jobs[j] # None
    BY DEF Placement, NoJobDuplicated
  <1>2. NoJobStranded' /\ NoJobDuplicated'
    BY <1>1, Fields DEF Placement, NoJobStranded, NoJobDuplicated, Drop
  <1>3. DeadOrLive' /\ Known'
    BY <1>1, Fields DEF Placement, DeadOrLive, Known, Drop
  <1>4. CopiesAgree'
    BY <1>1, Fields DEF Placement, CopiesAgree, InFlight, Drop, ReadyKey
  <1>5. \A t \in ix.scheduled : db'.jobs[t.job] = db.jobs[t.job]
    BY <1>1, IndexedTimers, Fields DEF Placement, Drop
  <1>6. PlacesIndexed'
    BY <1>5, ZenonT(30) DEF Placement, PlacesIndexed
  <1> QED
    BY <1>2, <1>3, <1>4, <1>6, Zenon DEF Placement

LEMMA AckPlacement ==
  ASSUME Placement, NEW j \in Job, NEW attempt, Ack(j, attempt)
  PROVE  Placement'
PROOF
  <1> DEFINE record == {}
  <1>1. TypeOK'
    BY AckType, Zenon DEF Placement
  <1>2. /\ db'.jobs = Drop(db.jobs, {j}) /\ db'.payloads = Drop(db.payloads, {j})
        /\ db'.inflight = Drop(db.inflight, {j}) /\ db'.ready = db.ready
        /\ db'.scheduled = db.scheduled /\ db'.dead_letter = db.dead_letter \cup record
        /\ ix'.ready = ix.ready /\ ix'.scheduled = ix.scheduled /\ minted' = minted
        /\ db.inflight[j] # None
    BY Zenon DEF Placement, TypeOK, Ack, RemoveRows, Holds
  <1>3. \A e, f \in record : e.job = j /\ e = f
    OBVIOUS
  <1> HIDE DEF record
  <1> QED
    BY <1>1, <1>2, <1>3, EndPlacement

\* A record names the job it was made of, and there is at most one.
LEMMA DeadLetteredOne ==
  ASSUME NEW j, NEW attempt, NEW cause
  PROVE  \A e, f \in DeadLettered(j, attempt, cause) :
            e.job = j /\ e = f /\ db.jobs[j] # None
  BY DEF DeadLettered

LEMMA NackDeadPlacement ==
  ASSUME Placement, NEW j \in Job, NEW attempt, NEW reject, NackDead(j, attempt, reject)
  PROVE  Placement'
PROOF
  <1> DEFINE record ==
         DeadLettered(j, attempt, IF reject THEN "rejected" ELSE "attempts_exhausted")
  <1>1. TypeOK'
    BY NackDeadType, Zenon DEF Placement
  <1>2. \A e, f \in record : e.job = j /\ e = f
    BY DeadLetteredOne
  <1>3. /\ db'.jobs = Drop(db.jobs, {j}) /\ db'.payloads = Drop(db.payloads, {j})
        /\ db'.inflight = Drop(db.inflight, {j}) /\ db'.ready = db.ready
        /\ db'.scheduled = db.scheduled /\ db'.dead_letter = db.dead_letter \cup record
        /\ ix'.ready = ix.ready /\ ix'.scheduled = ix.scheduled /\ minted' = minted
        /\ db.inflight[j] # None
    BY Zenon DEF Placement, TypeOK, NackDead, RemoveRows, Holds
  <1> HIDE DEF record
  <1> QED
    BY <1>1, <1>2, <1>3, EndPlacement

LEMMA NackRetryPlacement ==
  ASSUME Placement, NEW j \in Job, NEW attempt, NEW delay_ms \in RetryDelayMs,
         NackRetry(j, attempt, delay_ms)
  PROVE  Placement'
PROOF
  <1> DEFINE row == db.inflight[j]
             again == IF delay_ms > 0 THEN {} ELSE {ReadyKey(j, row, NextAttempt(row))}
             delayed == IF delay_ms > 0 THEN {now + delay_ms} ELSE {}
             timers == {[deadline |-> t, job |-> j, attempt |-> NextAttempt(row)] :
                           t \in delayed}
             owned == {TimerEntry(t, j, row.queue) : t \in delayed}
  <1>1. TypeOK'
    BY NackRetryType, Zenon DEF Placement
  <1>2. /\ db'.jobs = db.jobs /\ db'.payloads = db.payloads
        /\ db'.inflight = Drop(db.inflight, {j}) /\ db'.ready = db.ready \cup again
        /\ db'.scheduled = db.scheduled \cup timers /\ db'.dead_letter = db.dead_letter
        /\ ix'.ready = ix.ready \cup again /\ ix'.scheduled = ix.scheduled \cup owned
        /\ minted' = minted /\ row # None
    BY Zenon DEF Placement, TypeOK, NackRetry, Holds
  <1>3. \A e, f \in again : e.job = j /\ e = ReadyKey(j, row, e.attempt) /\ e = f
    BY DEF ReadyKey
  <1>4. \A t, u \in timers : t.job = j /\ t = u
    OBVIOUS
  <1>5. (again = {} /\ timers # {}) \/ (again # {} /\ timers = {})
    BY ZenonT(30) DEF ReadyKey
  <1>6. \A o \in owned : /\ o.queue = row.queue /\ o.job = j
                         /\ \E u \in timers : TimerKey(u) = TimerKey(o)
    <2> SUFFICES ASSUME NEW t \in delayed
                 PROVE  LET o == TimerEntry(t, j, row.queue)
                            u == [deadline |-> t, job |-> j, attempt |-> NextAttempt(row)]
                        IN  o.queue = row.queue /\ o.job = j /\ TimerKey(u) = TimerKey(o)
      BY ZenonT(30)
    <2> QED
      BY Zenon DEF TimerEntry, TimerKey
  <1>7. /\ \A e \in db.ready : e.job # j
        /\ \A t \in db.scheduled : t.job # j
        /\ db.jobs[j] # None
    BY <1>2 DEF Placement, NoJobDuplicated
  <1>a. /\ db.jobs[j].queue = row.queue
        /\ \A n : ReadyKey(j, row, n) = ReadyKey(j, db.jobs[j], n)
    BY <1>2, FlightCopies, ZenonT(30) DEF Placement
  <1> HIDE DEF row, again, timers, owned

  <1>8. NoJobStranded'
    <2>1. NoJobStranded /\ db.inflight \in [Job -> InflightRow \cup {None}]
      BY Fields, Zenon DEF Placement
    <2> QED
      BY <1>2, <1>3, <1>4, <1>5, <2>1 DEF NoJobStranded, Drop
  <1>9. NoJobDuplicated'
    BY <1>2, <1>3, <1>4, <1>5, <1>7, Fields DEF Placement, NoJobDuplicated, Drop
  <1>10. DeadOrLive' /\ Known'
    BY <1>2, Zenon DEF Placement, DeadOrLive, Known
  <1>11. CopiesAgree'
    <2>1. \A e \in db'.ready : e = ReadyKey(e.job, db'.jobs[e.job], e.attempt)
      BY <1>2, <1>3, <1>a DEF Placement, CopiesAgree
    <2>2. \A i \in InFlight' : i \in InFlight /\ db'.inflight[i] = db.inflight[i]
      BY <1>2, Fields, Zenon DEF Placement, InFlight, Drop
    <2> QED
      BY <1>2, <2>1, <2>2, ZenonT(30) DEF Placement, CopiesAgree
  <1>12. PlacesIndexed'
    BY <1>2, <1>6, <1>a, Zenon DEF Placement, PlacesIndexed
  <1> QED
    BY <1>1, <1>8, <1>9, <1>10, <1>11, <1>12, Zenon DEF Placement

LEMMA LeasePlacement ==
  ASSUME Placement, NEW P \in SUBSET ix.ready, NEW expires \in Int, LeaseJobs(P, expires)
  PROVE  Placement'
PROOF
  <1> DEFINE J == {e.job : e \in P}
             attempt(j) == (CHOOSE e \in P : e.job = j).attempt
             lease(j) == [attempt |-> attempt(j), lease_expires_at |-> expires,
                          enqueued_at |-> db.jobs[j].enqueued_at,
                          priority |-> db.jobs[j].priority,
                          max_attempts |-> db.jobs[j].max_attempts,
                          queue |-> db.jobs[j].queue]
             inflight == [j \in Job |-> IF j \in J THEN lease(j) ELSE db.inflight[j]]
  <1>1. TypeOK'
    BY LeaseType, Zenon DEF Placement
  <1>2. Leased(P) = P /\ P \subseteq db.ready
    BY Zenon DEF Placement, NoJobDuplicated, PlacesIndexed, Leased
  <1>3. /\ db'.jobs = db.jobs /\ db'.payloads = db.payloads
        /\ db'.inflight = inflight /\ db'.ready = db.ready \ P
        /\ db'.scheduled = db.scheduled /\ db'.dead_letter = db.dead_letter
        /\ ix'.ready = ix.ready \ P /\ ix'.scheduled = ix.scheduled
        /\ minted' = minted
    BY <1>2 DEF Placement, TypeOK, LeaseJobs
  <1>4. \A j \in J : /\ j \in Job /\ db.jobs[j] # None
                     /\ \A e \in db.ready \ P : e.job # j
                     /\ \A t \in db.scheduled : t.job # j
    <2>1. TypeOK /\ NoJobDuplicated
      BY Zenon DEF Placement
    <2> QED
      BY <1>2, <2>1, Fields DEF NoJobDuplicated
  <1>a. \A j \in J : db'.inflight[j] = lease(j) /\ db.jobs[j] \in JobRow
    <2>1. \A j \in J : db.jobs[j] \in JobRow
      BY <1>4, Fields, Zenon DEF Placement
    <2> HIDE DEF J, attempt
    <2> QED
      BY <1>3, <1>4, <2>1, Zenon
  <1>5. \A j \in Job : /\ j \in J => db'.inflight[j] # None
                       /\ j \notin J => db'.inflight[j] = db.inflight[j]
    <2>1. \A j \in J : lease(j) # None
      <3>1. \A j \in J : lease(j) \in InflightRow
        <4>1. SUFFICES ASSUME NEW j \in J PROVE lease(j) \in InflightRow
          OBVIOUS
        <4>2. attempt(j) \in Nat \ {0}
          BY <1>2 DEF Placement, TypeOK, ReadyEntry
        <4>3. db.jobs[j] \in JobRow
          BY <1>a, Zenon
        <4> HIDE DEF attempt
        <4> QED
          BY <4>2, <4>3, Zenon DEF JobRow, InflightRow
      <3> QED
        BY <3>1, NoneAssumption, ZenonT(30)
    <2> HIDE DEF lease
    <2> QED
      BY <1>3, <2>1, Zenon
  <1>6. CopiesAgree'
    <2>1. \A e \in db'.ready : e = ReadyKey(e.job, db'.jobs[e.job], e.attempt)
      BY <1>3, Zenon DEF Placement, CopiesAgree
    <2>2. ASSUME NEW j \in InFlight'
          PROVE  db'.jobs[j] = [queue |-> db'.inflight[j].queue,
                                priority |-> db'.inflight[j].priority,
                                max_attempts |-> db'.inflight[j].max_attempts,
                                enqueued_at |-> db'.inflight[j].enqueued_at]
      <3>1. CASE j \in J
        <4>1. db'.inflight[j] = lease(j) /\ db.jobs[j] \in JobRow
          BY <1>a, <3>1, Zenon
        <4>2. db.jobs[j] = [queue |-> db.jobs[j].queue, priority |-> db.jobs[j].priority,
                            max_attempts |-> db.jobs[j].max_attempts,
                            enqueued_at |-> db.jobs[j].enqueued_at]
          BY <4>1, Zenon DEF JobRow
        <4> HIDE DEF attempt
        <4>3. /\ db'.inflight[j].queue = db.jobs[j].queue
              /\ db'.inflight[j].priority = db.jobs[j].priority
              /\ db'.inflight[j].max_attempts = db.jobs[j].max_attempts
              /\ db'.inflight[j].enqueued_at = db.jobs[j].enqueued_at
          BY <4>1
        <4> HIDE DEF lease, inflight
        <4> QED
          BY <1>3, <4>2, <4>3, ZenonT(30)
      <3>2. CASE j \notin J
        <4>1. CopiesAgree
          BY Zenon DEF Placement
        <4> HIDE DEF J, inflight
        <4>2. j \in InFlight /\ db'.inflight[j] = db.inflight[j] /\ db'.jobs = db.jobs
          BY <1>3, <1>5, <3>2, Zenon DEF InFlight
        <4> QED
          BY <4>1, <4>2, Zenon DEF CopiesAgree
      <3> QED
        BY <3>1, <3>2, Zenon
    <2> QED
      BY <2>1, <2>2, ZenonT(30) DEF CopiesAgree
  <1> HIDE DEF inflight
  <1>7. NoJobStranded'
    BY <1>3, <1>5, Fields DEF Placement, NoJobStranded
  <1> HIDE DEF J
  <1>8. NoJobDuplicated'
    BY <1>3, <1>4, <1>5, Fields DEF Placement, NoJobDuplicated
  <1>9. DeadOrLive' /\ Known' /\ PlacesIndexed'
    BY <1>3 DEF Placement, DeadOrLive, Known, PlacesIndexed
  <1> QED
    BY <1>1, <1>6, <1>7, <1>8, <1>9, Zenon DEF Placement

LEMMA ReservePlacement ==
  ASSUME Placement, NEW queues, NEW lease_ms \in LeaseMs, NEW max_jobs,
         Reserve(queues, lease_ms, max_jobs)
  PROVE  Placement'
PROOF
  <1>1. PICK P \in SUBSET ix.ready : LeaseJobs(P, now + lease_ms)
    BY Zenon DEF Reserve
  <1>2. now + lease_ms \in Int
    BY TimeAssumption DEF Placement, TypeOK
  <1> QED
    BY <1>1, <1>2, LeasePlacement, Zenon

LEMMA ExtendPlacement ==
  ASSUME Placement, NEW j \in Job, NEW attempt, NEW lease_ms \in LeaseMs,
         Extend(j, attempt, lease_ms)
  PROVE  Placement'
PROOF
  <1> DEFINE expires == now + (IF lease_ms = 0 THEN 1 ELSE lease_ms)
             row == db.inflight[j]
  <1>1. TypeOK'
    BY ExtendType, Zenon DEF Placement
  <1>2. /\ db'.jobs = db.jobs /\ db'.payloads = db.payloads
        /\ db'.inflight = [db.inflight EXCEPT ![j].lease_expires_at = expires]
        /\ db'.ready = db.ready /\ db'.scheduled = db.scheduled
        /\ db'.dead_letter = db.dead_letter
        /\ ix'.ready = ix.ready /\ ix'.scheduled = ix.scheduled
        /\ minted' = minted /\ row # None
    BY Zenon DEF Placement, TypeOK, Extend, Holds
  <1>3. db.inflight[j] \in InflightRow
    BY <1>2, Fields, Zenon DEF Placement
  <1>4. /\ db'.inflight[j] = [row EXCEPT !.lease_expires_at = expires]
        /\ \A i \in Job \ {j} : db'.inflight[i] = db.inflight[i]
    BY <1>2, Fields, Zenon DEF Placement
  <1>5. /\ db'.inflight[j].queue = row.queue
        /\ db'.inflight[j].priority = row.priority
        /\ db'.inflight[j].max_attempts = row.max_attempts
        /\ db'.inflight[j].enqueued_at = row.enqueued_at
    BY <1>3, <1>4, Zenon DEF InflightRow
  <1>6. db'.inflight[j] # None
    <2>1. expires \in Int
      BY TimeAssumption DEF Placement, TypeOK
    <2>2. db'.inflight[j] \in InflightRow
      BY <1>3, <1>4, <2>1, Zenon DEF InflightRow
    <2> QED
      BY <2>2, NoneAssumption, Zenon
  <1> HIDE DEF row, expires
  <1>7. NoJobStranded' /\ NoJobDuplicated'
    BY <1>2, <1>4, <1>6, Fields DEF Placement, NoJobStranded, NoJobDuplicated, row
  <1>8. DeadOrLive' /\ Known' /\ PlacesIndexed'
    BY <1>2 DEF Placement, DeadOrLive, Known, PlacesIndexed
  <1>9. CopiesAgree'
    BY <1>2, <1>4, <1>5 DEF Placement, CopiesAgree, InFlight, row
  <1> QED
    BY <1>1, <1>7, <1>8, <1>9, Zenon DEF Placement

\* Steps that leave the jobs and their places alone; dead letters may go.
LEMMA FramePlacement ==
  ASSUME Placement, TypeOK',
         db'.jobs = db.jobs, db'.payloads = db.payloads, db'.inflight = db.inflight,
         db'.ready = db.ready, db'.scheduled = db.scheduled,
         db'.dead_letter \subseteq db.dead_letter,
         ix'.ready = ix.ready, ix'.scheduled = ix.scheduled, minted' = minted
  PROVE  Placement'
PROOF
  <1>1. NoJobStranded' /\ NoJobDuplicated'
    BY DEF Placement, NoJobStranded, NoJobDuplicated
  <1>2. DeadOrLive' /\ Known' /\ PlacesIndexed'
    BY Zenon DEF Placement, DeadOrLive, Known, PlacesIndexed
  <1>3. CopiesAgree'
    BY Zenon DEF Placement, CopiesAgree, InFlight
  <1> QED
    BY <1>1, <1>2, <1>3, Zenon DEF Placement

LEMMA DropDeadLettersPlacement ==
  ASSUME Placement, NEW K, DropDeadLetters(K)
  PROVE  Placement'
PROOF
  <1>1. TypeOK'
    BY DropDeadLettersType, Zenon DEF Placement
  <1> QED
    BY <1>1, FramePlacement, ZenonT(30) DEF Placement, TypeOK, DropDeadLetters

LEMMA ClosingPlacement ==
  ASSUME Placement, NEW q \in Queue, CloseQueue(q) \/ OpenQueue(q)
  PROVE  Placement'
PROOF
  <1>1. TypeOK'
    BY ClosingType, Zenon DEF Placement
  <1>2. /\ db'.jobs = db.jobs /\ db'.payloads = db.payloads /\ db'.inflight = db.inflight
        /\ db'.ready = db.ready /\ db'.scheduled = db.scheduled
        /\ db'.dead_letter = db.dead_letter
        /\ ix'.ready = ix.ready /\ ix'.scheduled = ix.scheduled /\ minted' = minted
    BY DEF Placement, TypeOK, CloseQueue, OpenQueue
  <1> QED
    BY <1>1, <1>2, FramePlacement, Zenon

LEMMA IdlePlacement ==
  ASSUME Placement, Tick \/ UNCHANGED vars
  PROVE  Placement'
PROOF
  <1>1. db' = db /\ ix' = ix /\ minted' = minted
    BY Zenon DEF Tick, vars
  <1>2. TypeOK'
    BY DEF Placement, TypeOK, Tick, vars
  <1> QED
    BY <1>1, <1>2, FramePlacement, Zenon

-----------------------------------------------------------------------------
(* The sweep and the operations that create, requeue or remove jobs. *)

\* What the sweep makes ready: the promoted jobs and the expired ones that have
\* attempts left.
LEMMA SweepPlacement ==
  ASSUME Placement, NEW S \in SUBSET ix.scheduled, NEW L \in SUBSET ix.leases,
         NEW T \in SUBSET ix.dedup_timers, NEW D \in SUBSET ix.dead_letter,
         SweepOf(S, L, T, D), UNCHANGED <<now, minted>>
  PROVE  Placement'
PROOF
  <1> DEFINE skeys == {TimerKey(t) : t \in S}
             promoted == {t \in db.scheduled :
                             TimerKey(t) \in skeys /\ db.jobs[t.job] # None}
             expired == {j \in {t.job : t \in L} : db.inflight[j] # None}
             exhausted == {j \in expired : LastAttempt(db.inflight[j])}
             readied1 == {ReadyKey(t.job, db.jobs[t.job], t.attempt) : t \in promoted}
             readied2 == {ReadyKey(j, db.inflight[j], NextAttempt(db.inflight[j])) :
                             j \in expired \ exhausted}
             readied == readied1 \cup readied2
             records == UNION {DeadLettered(j, db.inflight[j].attempt, "lease_expired") :
                                  j \in exhausted}
             letters == {e \in db.dead_letter \cup records : DeadLetterKey(e) \notin D}
             woken == {t.job : t \in promoted}
  <1>1. TypeOK'
    BY SweepType, Zenon DEF Placement
  <1>2. /\ db'.jobs = Drop(db.jobs, exhausted) /\ db'.payloads = Drop(db.payloads, exhausted)
        /\ db'.inflight = Drop(db.inflight, expired) /\ db'.ready = db.ready \cup readied
        /\ db'.scheduled = Without(db.scheduled, skeys) /\ db'.dead_letter = letters
        /\ ix'.ready = ix.ready \cup readied /\ ix'.scheduled = ix.scheduled \ S
        /\ minted' = minted
    BY ZenonT(30) DEF Placement, TypeOK, SweepOf, RemoveRows
  <1>a. /\ TypeOK /\ NoJobStranded /\ NoJobDuplicated /\ DeadOrLive /\ Known
        /\ db.jobs \in [Job -> JobRow \cup {None}]
        /\ db.payloads \in [Job -> Payload \cup {None}]
        /\ db.inflight \in [Job -> InflightRow \cup {None}]
    BY Fields, Zenon DEF Placement
  <1>3. \A j \in expired : /\ j \in Job /\ db.jobs[j] # None /\ db.inflight[j] # None
                           /\ \A e \in db.ready : e.job # j
                           /\ \A t \in db.scheduled : t.job # j
    BY Fields DEF Placement, TypeOK, NoJobDuplicated
  <1>4. \A t \in db.scheduled :
           /\ t.job \in woken \/ TimerKey(t) \notin skeys
           /\ t.job \in woken => t \in promoted
           /\ t.job \in Job /\ db.jobs[t.job] # None /\ db.inflight[t.job] = None
           /\ \A e \in db.ready : e.job # t.job
    BY Fields, Zenon DEF Placement, NoJobDuplicated
  <1>5. \A j \in woken : \E t \in db.scheduled : t.job = j /\ TimerKey(t) \in skeys
    OBVIOUS
  <1>6. exhausted \subseteq expired
    OBVIOUS
  <1>7. \A e \in readied1 : /\ e.job \in woken
                            /\ e = ReadyKey(e.job, db.jobs[e.job], e.attempt)
                            /\ \A f \in readied1 : f.job = e.job => f = e
    <2>1. ASSUME NEW t \in promoted
          PROVE  LET e == ReadyKey(t.job, db.jobs[t.job], t.attempt)
                 IN  e.job = t.job /\ e.attempt = t.attempt
      BY Zenon DEF ReadyKey
    <2>2. \A t, u \in promoted : t.job = u.job => t = u
      BY Zenon DEF Placement, NoJobDuplicated
    <2> QED
      BY <2>1, <2>2
  <1>8. \A e \in readied2 : /\ e.job \in expired \ exhausted
                            /\ e = ReadyKey(e.job, db.jobs[e.job], e.attempt)
                            /\ \A f \in readied2 : f.job = e.job => f = e
    <2>1. ASSUME NEW j \in expired \ exhausted, NEW n
          PROVE  /\ ReadyKey(j, db.inflight[j], n).job = j
                 /\ ReadyKey(j, db.inflight[j], n).attempt = n
                 /\ ReadyKey(j, db.inflight[j], n) = ReadyKey(j, db.jobs[j], n)
      BY <1>3, FlightCopies DEF Placement, ReadyKey
    <2> HIDE DEF expired, exhausted
    <2> QED
      BY <2>1
  <1>9. /\ \A j \in woken : \E e \in readied : e.job = j
        /\ \A j \in expired \ exhausted : \E e \in readied : e.job = j
    <2>1. \A t \in promoted : /\ ReadyKey(t.job, db.jobs[t.job], t.attempt) \in readied1
                              /\ ReadyKey(t.job, db.jobs[t.job], t.attempt).job = t.job
      BY ZenonT(30) DEF ReadyKey
    <2>2. \A j \in expired \ exhausted :
             /\ ReadyKey(j, db.inflight[j], NextAttempt(db.inflight[j])) \in readied2
             /\ ReadyKey(j, db.inflight[j], NextAttempt(db.inflight[j])).job = j
      BY Zenon DEF ReadyKey
    <2> HIDE DEF promoted, expired, exhausted, readied1, readied2
    <2> QED
      BY <2>1, <2>2
  <1>10. \A e \in records : /\ e.job \in exhausted
                            /\ \A f \in records : f.job = e.job => f = e
    BY DeadLetteredOne
  <1>11. letters \subseteq db.dead_letter \cup records
    OBVIOUS
  <1> HIDE DEF promoted, expired, exhausted, readied1, readied2, records, letters, woken
  <1>12. NoJobStranded'
    BY <1>a, <1>2, <1>3, <1>4, <1>6, <1>9 DEF NoJobStranded, Drop, Without
  <1>13. NoJobDuplicated'
    <2>1. \A e \in db'.ready : db'.jobs[e.job] # None /\ db'.inflight[e.job] = None
      BY <1>a, <1>2, <1>3, <1>4, <1>5, <1>6, <1>7, <1>8, Fields DEF NoJobDuplicated, Drop
    <2>5. \A e \in db'.ready : \A t \in db'.scheduled : t.job # e.job
      BY <1>a, <1>2, <1>3, <1>4, <1>5, <1>7, <1>8 DEF NoJobDuplicated, Without
    <2>2. \A e, f \in db'.ready : f.job = e.job => f = e
      BY <1>a, <1>2, <1>3, <1>4, <1>5, <1>7, <1>8 DEF NoJobDuplicated
    <2>3. \A t \in db'.scheduled :
             /\ db'.jobs[t.job] # None /\ db'.inflight[t.job] = None
             /\ \A u \in db'.scheduled : u.job = t.job => u = t
      BY <1>a, <1>2, <1>3, <1>6, Fields DEF NoJobDuplicated, Drop, Without
    <2>4. \A j \in Job :
             db'.jobs[j] = None => db'.inflight[j] = None /\ db'.payloads[j] = None
      BY <1>a, <1>2, <1>6 DEF NoJobDuplicated, Drop
    <2> QED
      BY <2>1, <2>2, <2>3, <2>4, <2>5, ZenonT(30) DEF NoJobDuplicated
  <1>14. DeadOrLive' /\ Known'
    BY <1>a, <1>2, <1>3, <1>6, <1>10, <1>11, Fields DEF DeadOrLive, Known, Drop
  <1>15. CopiesAgree'
    <2>1. \A e \in db'.ready : db'.jobs[e.job] = db.jobs[e.job]
      BY <1>a, <1>2, <1>3, <1>4, <1>5, <1>6, <1>7, <1>8, Fields DEF Drop
    <2>2. \A e \in db'.ready : e = ReadyKey(e.job, db'.jobs[e.job], e.attempt)
      BY <1>2, <1>7, <1>8, <2>1, ZenonT(30) DEF Placement, CopiesAgree
    <2>3. \A j \in InFlight' : /\ j \in InFlight /\ db'.inflight[j] = db.inflight[j]
                               /\ db'.jobs[j] = db.jobs[j]
      BY <1>a, <1>2, <1>6 DEF InFlight, Drop
    <2> QED
      BY <2>2, <2>3, ZenonT(30) DEF Placement, CopiesAgree
  <1>16. PlacesIndexed'
    <2>1. \A t \in ix.scheduled : db'.jobs[t.job] = db.jobs[t.job]
      BY <1>2, <1>3, <1>6, IndexedTimers, Fields DEF Placement, Drop
    <2>2. ASSUME NEW t \in ix.scheduled \ S PROVE TimerKey(t) \notin skeys
      <3>1. SUFFICES ASSUME NEW s \in S, TimerKey(s) = TimerKey(t) PROVE s = t
        OBVIOUS
      <3>2. s.job = t.job /\ s.deadline = t.deadline
        BY <3>1, Zenon DEF TimerKey
      <3>3. s.queue = t.queue
        BY <3>2, Zenon DEF Placement, PlacesIndexed
      <3> QED
        BY <3>2, <3>3 DEF Placement, TypeOK
    <2> QED
      BY <1>2, <2>1, <2>2, ZenonT(30) DEF Placement, PlacesIndexed, Without
  <1> QED
    BY <1>1, <1>12, <1>13, <1>14, <1>15, <1>16, Zenon DEF Placement

LEMMA InsertPlacement ==
  ASSUME Placement, NEW B \in SUBSET Job, NEW req \in [B -> Request], NEW A \in SUBSET B,
         \A j \in A : minted[j] = None, InsertJobs(A, req)
  PROVE  Placement'
PROOF
  <1> DEFINE row(j) == [queue |-> req[j].queue, priority |-> req[j].priority,
                        max_attempts |-> req[j].max_attempts, enqueued_at |-> now]
             later == {j \in A : req[j].scheduled_at # None /\ req[j].scheduled_at > now}
             readied == {ReadyKey(j, row(j), FirstAttempt) : j \in A \ later}
             timers == {[deadline |-> req[j].scheduled_at, job |-> j,
                         attempt |-> FirstAttempt] : j \in later}
             owned == {TimerEntry(req[j].scheduled_at, j, req[j].queue) : j \in later}
  <1>1. TypeOK'
    BY InsertType, Zenon DEF Placement
  <1>2. /\ db'.jobs = [j \in Job |-> IF j \in A THEN row(j) ELSE db.jobs[j]]
        /\ db'.payloads = [j \in Job |-> IF j \in A THEN req[j].payload ELSE db.payloads[j]]
        /\ db'.inflight = db.inflight /\ db'.ready = db.ready \cup readied
        /\ db'.scheduled = db.scheduled \cup timers /\ db'.dead_letter = db.dead_letter
        /\ ix'.ready = ix.ready \cup readied /\ ix'.scheduled = ix.scheduled \cup owned
        /\ minted' = [j \in Job |-> IF j \in A THEN req[j] ELSE minted[j]]
    BY Zenon DEF Placement, TypeOK, InsertJobs
  <1>3. \A j \in A : /\ j \in Job /\ db.jobs[j] = None /\ db.inflight[j] = None
                     /\ \A e \in db.ready : e.job # j
                     /\ \A t \in db.scheduled : t.job # j
                     /\ \A e \in db.dead_letter : e.job # j
    BY DEF Placement, Known, NoJobDuplicated
  <1>4. \A j \in A : req[j] # None /\ row(j) # None
    <2>1. \A j \in A : req[j] \in JobRequest
      BY RequestAssumption, ZenonT(30)
    <2>2. \A j \in A : row(j) \in JobRow
      BY <2>1, TimeAssumption, ZenonT(30) DEF Placement, TypeOK, JobRequest, JobRow
    <2> HIDE DEF row
    <2> QED
      BY <2>1, <2>2, NoneAssumption, Zenon
  <1>5. \A e \in readied : /\ e.job \in A \ later
                           /\ e = ReadyKey(e.job, row(e.job), e.attempt)
                           /\ \A f \in readied : f.job = e.job => f = e
    BY DEF ReadyKey
  <1>6. \A t \in timers : /\ t.job \in later
                          /\ \A u \in timers : u.job = t.job => u = t
    OBVIOUS
  <1>7. \A j \in A \ later : ReadyKey(j, row(j), FirstAttempt) \in readied
                             /\ ReadyKey(j, row(j), FirstAttempt).job = j
    BY Zenon DEF ReadyKey
  <1> DEFINE timer(j) == [deadline |-> req[j].scheduled_at, job |-> j,
                         attempt |-> FirstAttempt]
  <1>8. \A j \in later : timer(j) \in timers /\ timer(j).job = j
    BY ZenonT(30)
  <1>9. ASSUME NEW o \in owned
        PROVE  /\ o.job \in later /\ o.queue = row(o.job).queue
               /\ \E u \in timers : TimerKey(u) = TimerKey(o)
    <2>1. PICK j \in later : o = TimerEntry(req[j].scheduled_at, j, req[j].queue)
      OBVIOUS
    <2>2. o.job = j /\ o.queue = row(o.job).queue /\ TimerKey(timer(j)) = TimerKey(o)
      BY <2>1, Zenon DEF TimerEntry, TimerKey
    <2> HIDE DEF timer, timers, row
    <2> QED
      BY <1>8, <2>2
  <1>10. later \subseteq A
    BY ZenonT(30)
  <1> HIDE DEF row, later, readied, timers, timer, owned
  <1>11. /\ \A e \in db.ready : e.job \in Job \ A /\ db'.jobs[e.job] = db.jobs[e.job]
         /\ \A t \in db.scheduled : t.job \in Job \ A /\ db'.jobs[t.job] = db.jobs[t.job]
    <2>1. /\ \A e \in db.ready : e.job \in Job \ A
          /\ \A t \in db.scheduled : t.job \in Job \ A
      BY <1>3, Fields, Zenon DEF Placement
    <2>2. \A j \in Job \ A : db'.jobs[j] = db.jobs[j]
      BY <1>2, Zenon
    <2> QED
      BY <2>1, <2>2, Zenon
  <1>12. NoJobStranded'
    <2>1. NoJobStranded
      BY Zenon DEF Placement
    <2>2. \A j \in Job \ A : db'.jobs[j] = db.jobs[j]
      BY <1>2, Zenon
    <2> QED
      BY <1>2, <1>7, <1>8, <2>1, <2>2 DEF NoJobStranded
  <1>13. NoJobDuplicated'
    <2>1. NoJobDuplicated
      BY Zenon DEF Placement
    <2>2. ASSUME NEW e \in db'.ready
          PROVE  /\ db'.jobs[e.job] # None /\ db'.inflight[e.job] = None
                 /\ \A f \in db'.ready : f.job = e.job => f = e
                 /\ \A t \in db'.scheduled : t.job # e.job
      <3>1. CASE e \in db.ready
        <4>1. \A f \in db'.ready : f.job = e.job => f = e
          BY <1>2, <1>5, <1>11, <2>1, <3>1, ZenonT(30) DEF NoJobDuplicated
        <4>2. \A t \in db'.scheduled : t.job # e.job
          BY <1>2, <1>6, <1>10, <1>11, <2>1, <3>1, ZenonT(30) DEF NoJobDuplicated
        <4> QED
          BY <1>2, <1>11, <2>1, <3>1, <4>1, <4>2, ZenonT(30) DEF NoJobDuplicated
      <3>2. CASE e \in readied
        <4>1. e.job \in A \ later
          BY <1>5, <3>2, ZenonT(30)
        <4>2. db'.jobs[e.job] # None /\ db'.inflight[e.job] = None
          BY <1>2, <1>3, <1>4, <4>1, ZenonT(30)
        <4>3. \A f \in db'.ready : f.job = e.job => f = e
          BY <1>2, <1>5, <1>11, <3>2, <4>1, ZenonT(30)
        <4>4. \A t \in db'.scheduled : t.job # e.job
          BY <1>2, <1>6, <1>11, <4>1, ZenonT(30)
        <4> QED
          BY <4>2, <4>3, <4>4, Zenon
      <3> QED
        BY <1>2, <3>1, <3>2, Zenon
    <2>3. ASSUME NEW t \in db'.scheduled
          PROVE  /\ db'.jobs[t.job] # None /\ db'.inflight[t.job] = None
                 /\ \A u \in db'.scheduled : u.job = t.job => u = t
      <3>1. CASE t \in db.scheduled
        BY <1>2, <1>6, <1>10, <1>11, <2>1, <3>1, ZenonT(30) DEF NoJobDuplicated
      <3>2. CASE t \in timers
        <4>1. t.job \in A
          BY <1>6, <1>10, <3>2, ZenonT(30)
        <4>2. db'.jobs[t.job] # None /\ db'.inflight[t.job] = None
          BY <1>2, <1>3, <1>4, <4>1, ZenonT(30)
        <4>3. \A u \in db'.scheduled : u.job = t.job => u = t
          BY <1>2, <1>6, <1>11, <3>2, <4>1, ZenonT(30)
        <4> QED
          BY <4>2, <4>3, Zenon
      <3> QED
        BY <1>2, <3>1, <3>2, Zenon
    <2>4. \A j \in Job :
             db'.jobs[j] = None => db'.inflight[j] = None /\ db'.payloads[j] = None
      BY <1>2, <1>4, <2>1 DEF NoJobDuplicated
    <2> QED
      BY <2>2, <2>3, <2>4, ZenonT(30) DEF NoJobDuplicated
  <1>14. DeadOrLive' /\ Known'
    BY <1>2, <1>3, <1>4, Fields DEF Placement, DeadOrLive, Known
  <1>15. CopiesAgree'
    <2>1. \A e \in db'.ready : e = ReadyKey(e.job, db'.jobs[e.job], e.attempt)
      <3>1. CopiesAgree
        BY Zenon DEF Placement
      <3>2. \A e \in db.ready : e = ReadyKey(e.job, db'.jobs[e.job], e.attempt)
        BY <1>11, <3>1, ZenonT(30) DEF CopiesAgree
      <3>3. \A e \in readied : db'.jobs[e.job] = row(e.job)
        BY <1>2, <1>3, <1>5, ZenonT(30)
      <3> QED
        BY <1>2, <1>5, <3>2, <3>3, ZenonT(30)
    <2>2. \A j \in InFlight' : j \in InFlight /\ db'.jobs[j] = db.jobs[j]
      BY <1>2, <1>3 DEF InFlight
    <2> QED
      BY <1>2, <2>1, <2>2, ZenonT(30) DEF Placement, CopiesAgree
  <1>16. PlacesIndexed'
    <2>1. ASSUME NEW t \in ix.scheduled PROVE db'.jobs[t.job] = db.jobs[t.job]
      <3>1. PICK u \in db.scheduled : u.job = t.job
        BY IndexedTimers, Zenon
      <3> QED
        BY <1>11, <3>1
    <2>2. \A o \in owned : db'.jobs[o.job] = row(o.job)
      BY <1>2, <1>3, <1>9, <1>10, Zenon
    <2> QED
      BY <1>2, <1>9, <2>1, <2>2, ZenonT(30) DEF Placement, PlacesIndexed
  <1> QED
    BY <1>1, <1>12, <1>13, <1>14, <1>15, <1>16, Zenon DEF Placement

LEMMA ProducersPlacement == ASSUME Placement, Producers PROVE Placement'
PROOF
  <1>1. PICK batch \in Batches : \E req \in Requests(batch) :
           Enqueue(batch, req) \/ EnqueueAtomic(batch, req)
    BY Zenon DEF Producers
  <1>2. PICK req \in Requests(batch) : Enqueue(batch, req) \/ EnqueueAtomic(batch, req)
    BY <1>1, Zenon
  <1>3. PICK B \in SUBSET Job : req \in [B -> Request] /\ DOMAIN req = B
    BY BatchType, Zenon
  <1>4. \A j \in DOMAIN req : minted[j] = None
    <2>1. \A i \in DOMAIN batch : minted[batch[i]] = None
      BY Zenon DEF Batches
    <2>2. DOMAIN req = {batch[i] : i \in DOMAIN batch}
      BY Zenon DEF Requests
    <2> QED
      BY <2>1, <2>2, Zenon
  <1>5. PICK A \in SUBSET B : InsertJobs(A, req)
    BY <1>2, <1>3, Zenon DEF Enqueue, EnqueueAtomic
  <1> QED
    BY <1>3, <1>4, <1>5, InsertPlacement, Zenon

LEMMA RequeuePlacement ==
  ASSUME Placement, NEW q \in Queue, NEW R, RequeueDeadLetters(q, R)
  PROVE  Placement'
PROOF
  <1> DEFINE J == {e.job : e \in R}
             rec(j) == CHOOSE e \in R : e.job = j
             row(j) == [queue |-> rec(j).queue, priority |-> rec(j).priority,
                        max_attempts |-> rec(j).max_attempts, enqueued_at |-> now]
             readied == {ReadyKey(j, row(j), FirstAttempt) : j \in J}
             payloads == [j \in Job |->
                             IF j \in J /\ rec(j).payload # None
                             THEN rec(j).payload ELSE db.payloads[j]]
  <1>1. TypeOK'
    BY RequeueType, Zenon DEF Placement
  <1>2. /\ db'.jobs = [j \in Job |-> IF j \in J THEN row(j) ELSE db.jobs[j]]
        /\ db'.payloads = payloads
        /\ db'.inflight = db.inflight /\ db'.ready = db.ready \cup readied
        /\ db'.scheduled = db.scheduled /\ db'.dead_letter = db.dead_letter \ R
        /\ ix'.ready = ix.ready \cup readied /\ ix'.scheduled = ix.scheduled
        /\ minted' = minted
    BY Zenon DEF Placement, TypeOK, RequeueDeadLetters
  <1>3. R \subseteq db.dead_letter
    BY ZenonT(30) DEF RequeueDeadLetters, Owned
  <1>4. \A j \in J : /\ j \in Job /\ db.jobs[j] = None /\ db.inflight[j] = None
                     /\ minted[j] # None
                     /\ \A e \in db.ready : e.job # j
                     /\ \A t \in db.scheduled : t.job # j
                     /\ \A e \in db.dead_letter \ R : e.job # j
    BY <1>3, Fields DEF Placement, Known, DeadOrLive, NoJobDuplicated
  <1>5. \A j \in J : row(j) # None
    <2>1. \A j \in J : row(j) \in JobRow
      <3>1. \A j \in J : rec(j) \in DeadLetterEntry
        BY <1>3, Zenon DEF Placement, TypeOK
      <3>2. now \in Int
        BY TimeAssumption, Zenon DEF Placement, TypeOK
      <3> HIDE DEF rec
      <3> QED
        BY <3>1, <3>2, ZenonT(30) DEF DeadLetterEntry, JobRow
    <2> HIDE DEF row
    <2> QED
      BY <2>1, NoneAssumption, Zenon
  <1>6. \A j \in Job \ J : db'.payloads[j] = db.payloads[j]
    BY <1>2, ZenonT(30)
  <1> HIDE DEF row, payloads
  <1>7. \A e \in readied : /\ e.job \in J
                           /\ e = ReadyKey(e.job, row(e.job), e.attempt)
                           /\ \A f \in readied : f.job = e.job => f = e
    BY DEF ReadyKey
  <1>8. \A j \in J : ReadyKey(j, row(j), FirstAttempt) \in readied
                     /\ ReadyKey(j, row(j), FirstAttempt).job = j
    BY ZenonT(30) DEF ReadyKey
  <1> HIDE DEF J, readied
  <1>9. /\ \A e \in db.ready : e.job \in Job \ J /\ db'.jobs[e.job] = db.jobs[e.job]
        /\ \A t \in db.scheduled : t.job \in Job \ J /\ db'.jobs[t.job] = db.jobs[t.job]
    <2>1. /\ \A e \in db.ready : e.job \in Job \ J
          /\ \A t \in db.scheduled : t.job \in Job \ J
      BY <1>4, Fields, Zenon DEF Placement
    <2>2. \A j \in Job \ J : db'.jobs[j] = db.jobs[j]
      BY <1>2, Zenon
    <2> QED
      BY <2>1, <2>2, Zenon
  <1>10. NoJobStranded'
    <2>1. NoJobStranded
      BY Zenon DEF Placement
    <2>2. \A j \in Job \ J : db'.jobs[j] = db.jobs[j]
      BY <1>2, Zenon
    <2> QED
      BY <1>2, <1>8, <2>1, <2>2 DEF NoJobStranded
  <1>11. NoJobDuplicated'
    <2>1. NoJobDuplicated
      BY Zenon DEF Placement
    <2>2. ASSUME NEW e \in db'.ready
          PROVE  /\ db'.jobs[e.job] # None /\ db'.inflight[e.job] = None
                 /\ \A f \in db'.ready : f.job = e.job => f = e
                 /\ \A t \in db'.scheduled : t.job # e.job
      <3>1. CASE e \in db.ready
        BY <1>2, <1>7, <1>9, <2>1, <3>1 DEF NoJobDuplicated
      <3>2. CASE e \in readied
        <4>1. e.job \in J
          BY <1>7, <3>2, Zenon
        <4>2. db'.jobs[e.job] # None /\ db'.inflight[e.job] = None
          BY <1>2, <1>4, <1>5, <4>1
        <4>3. \A f \in db'.ready : f.job = e.job => f = e
          BY <1>2, <1>7, <1>9, <3>2, <4>1, ZenonT(30)
        <4>4. \A t \in db'.scheduled : t.job # e.job
          BY <1>2, <1>9, <4>1, ZenonT(30)
        <4> QED
          BY <4>2, <4>3, <4>4, Zenon
      <3> QED
        BY <1>2, <3>1, <3>2, Zenon
    <2>3. \A t \in db'.scheduled :
             /\ db'.jobs[t.job] # None /\ db'.inflight[t.job] = None
             /\ \A u \in db'.scheduled : u.job = t.job => u = t
      BY <1>2, <1>9, <2>1 DEF NoJobDuplicated
    <2>4. \A j \in Job :
             db'.jobs[j] = None => db'.inflight[j] = None /\ db'.payloads[j] = None
      BY <1>2, <1>5, <1>6, <2>1 DEF NoJobDuplicated
    <2> QED
      BY <2>2, <2>3, <2>4, ZenonT(30) DEF NoJobDuplicated
  <1>12. DeadOrLive' /\ Known'
    <2>1. TypeOK /\ DeadOrLive /\ Known
      BY Zenon DEF Placement
    <2> QED
      BY <1>2, <1>4, <2>1, Fields DEF DeadOrLive, Known
  <1>13. CopiesAgree'
    <2>1. \A e \in db'.ready : e = ReadyKey(e.job, db'.jobs[e.job], e.attempt)
      <3>1. CopiesAgree
        BY Zenon DEF Placement
      <3>2. \A e \in db.ready : e = ReadyKey(e.job, db'.jobs[e.job], e.attempt)
        BY <1>9, <3>1, ZenonT(30) DEF CopiesAgree
      <3>3. \A e \in readied : db'.jobs[e.job] = row(e.job)
        BY <1>2, <1>4, <1>7, ZenonT(30)
      <3> QED
        BY <1>2, <1>7, <3>2, <3>3, ZenonT(30)
    <2>2. \A j \in InFlight' : j \in InFlight /\ db'.jobs[j] = db.jobs[j]
      BY <1>2, <1>4 DEF InFlight
    <2> QED
      BY <1>2, <2>1, <2>2, Zenon DEF Placement, CopiesAgree
  <1>14. PlacesIndexed'
    <2>1. ASSUME NEW t \in ix.scheduled PROVE db'.jobs[t.job] = db.jobs[t.job]
      <3>1. PICK u \in db.scheduled : u.job = t.job
        BY IndexedTimers, Zenon
      <3> QED
        BY <1>9, <3>1
    <2> QED
      BY <1>2, <2>1, ZenonT(30) DEF Placement, PlacesIndexed
  <1> QED
    BY <1>1, <1>10, <1>11, <1>12, <1>13, <1>14, Zenon DEF Placement

\* What dead-lettering by an operator and a purge have in common: the waiting
\* jobs J lose their rows and their places R and S.
Removal(R, S, J, records) ==
    /\ R \in SUBSET db.ready /\ S \in SUBSET db.scheduled
    /\ J = {e.job : e \in R \cup S}
    /\ \A e \in records : e.job \in J /\ \A f \in records : f.job = e.job => f = e
    /\ db'.jobs = Drop(db.jobs, J) /\ db'.payloads = Drop(db.payloads, J)
    /\ db'.inflight = db.inflight /\ db'.ready = db.ready \ R
    /\ db'.scheduled = db.scheduled \ S
    /\ db'.dead_letter \subseteq db.dead_letter \cup records
    /\ ix'.ready = ix.ready \ R
    /\ \A t \in ix'.scheduled : t \in ix.scheduled /\ \A s \in S : TimerKey(s) # TimerKey(t)
    /\ minted' = minted

LEMMA RemovalPlacement ==
  ASSUME Placement, TypeOK', NEW R, NEW S, NEW J, NEW records, Removal(R, S, J, records)
  PROVE  Placement'
PROOF
  <1> USE DEF Removal
  <1>1. \A j \in J : /\ j \in Job /\ db.jobs[j] # None /\ db.inflight[j] = None
                     /\ \A e \in db.ready \ R : e.job # j
                     /\ \A t \in db.scheduled \ S : t.job # j
    <2>1. TypeOK /\ NoJobDuplicated
      BY Zenon DEF Placement
    <2>2. \A j \in J : (\E e \in R : e.job = j) \/ (\E t \in S : t.job = j)
      OBVIOUS
    <2>3. R \subseteq db.ready /\ S \subseteq db.scheduled
      OBVIOUS
    <2> HIDE DEF Removal
    <2>5. \A j \in J : j \in Job /\ db.jobs[j] # None /\ db.inflight[j] = None
      BY <2>1, <2>2, <2>3, Fields DEF NoJobDuplicated
    <2>6. \A j \in J : \A e \in db.ready \ R : e.job # j
      BY <2>1, <2>2, <2>3 DEF NoJobDuplicated
    <2>7. \A j \in J : \A t \in db.scheduled \ S : t.job # j
      BY <2>1, <2>2, <2>3 DEF NoJobDuplicated
    <2> QED
      BY <2>5, <2>6, <2>7, Zenon
  <1>2. /\ \A j \in J : db'.jobs[j] = None /\ db'.payloads[j] = None
        /\ \A j \in Job \ J : db'.jobs[j] = db.jobs[j] /\ db'.payloads[j] = db.payloads[j]
    <2>1. /\ db.jobs \in [Job -> JobRow \cup {None}]
          /\ db.payloads \in [Job -> Payload \cup {None}]
      BY Fields, Zenon DEF Placement
    <2>2. db'.jobs = Drop(db.jobs, J) /\ db'.payloads = Drop(db.payloads, J)
      BY Zenon
    <2> QED
      BY <1>1, <2>1, <2>2 DEF Drop
  <1>8. /\ \A e \in db'.ready : e \in db.ready /\ e.job \in Job \ J
        /\ \A t \in db'.scheduled : t \in db.scheduled /\ t.job \in Job \ J
        /\ db'.inflight = db.inflight
    <2>1. /\ db'.ready = db.ready \ R /\ db'.scheduled = db.scheduled \ S
          /\ db'.inflight = db.inflight
      BY Zenon
    <2> QED
      BY <1>1, <2>1, Fields, Zenon DEF Placement
  <1>3. NoJobStranded'
    <2>1. \A j \in Job \ J : /\ \A e \in db.ready : e.job = j => e \in db'.ready
                              /\ \A t \in db.scheduled : t.job = j => t \in db'.scheduled
      BY ZenonT(30)
    <2> QED
      <3> SUFFICES ASSUME NEW j \in Job, db'.jobs[j] # None
                   PROVE  \/ \E e \in db'.ready : e.job = j
                          \/ \E t \in db'.scheduled : t.job = j
                          \/ db'.inflight[j] # None
        BY Zenon DEF NoJobStranded
      <3>1. j \in Job \ J /\ db.jobs[j] # None
        BY <1>2, ZenonT(30)
      <3>2. \/ \E e \in db.ready : e.job = j
            \/ \E t \in db.scheduled : t.job = j
            \/ db.inflight[j] # None
        BY <3>1, ZenonT(30) DEF Placement, NoJobStranded
      <3> QED
        BY <2>1, <3>1, <3>2, ZenonT(30)
  <1>4. NoJobDuplicated'
    <2> USE <1>2, <1>8
    <2> HIDE DEF Removal
    <2>1. NoJobDuplicated
      BY Zenon DEF Placement
    <2>2. \A j \in Job :
             db'.jobs[j] = None => db'.inflight[j] = None /\ db'.payloads[j] = None
      BY <1>1, <2>1 DEF NoJobDuplicated
    <2>3. \A e \in db'.ready :
             /\ db'.jobs[e.job] # None /\ db'.inflight[e.job] = None
             /\ \A f \in db'.ready : f.job = e.job => f = e
             /\ \A t \in db'.scheduled : t.job # e.job
      BY <2>1 DEF NoJobDuplicated
    <2>4. \A t \in db'.scheduled :
             /\ db'.jobs[t.job] # None /\ db'.inflight[t.job] = None
             /\ \A u \in db'.scheduled : u.job = t.job => u = t
      BY <2>1 DEF NoJobDuplicated
    <2> QED
      BY <2>2, <2>3, <2>4, Zenon DEF NoJobDuplicated
  <1>5. DeadOrLive' /\ Known'
    <2>1. TypeOK /\ DeadOrLive /\ Known
      BY Zenon DEF Placement
    <2>2. /\ \A e \in records : e.job \in J /\ \A f \in records : f.job = e.job => f = e
          /\ db'.dead_letter \subseteq db.dead_letter \cup records
          /\ minted' = minted
      BY Zenon
    <2> HIDE DEF Removal
    <2>3. \A e \in db.dead_letter : e.job \in Job \ J
      BY <1>1, <2>1, Fields, Zenon DEF DeadOrLive
    <2>4. DeadOrLive'
      <3>1. \A e \in db'.dead_letter : db'.jobs[e.job] = None
        BY <1>2, <2>1, <2>2, <2>3, Zenon DEF DeadOrLive
      <3>2. \A e, f \in db'.dead_letter : f.job = e.job => f = e
        BY <2>1, <2>2, <2>3, Zenon DEF DeadOrLive
      <3> QED
        BY <3>1, <3>2, Zenon DEF DeadOrLive
    <2>5. Known'
      <3>1. \A j \in Job : db'.jobs[j] # None => minted'[j] # None
        BY <1>2, <2>1, <2>2, Zenon DEF Known
      <3>2. \A e \in db'.dead_letter : minted'[e.job] # None
        BY <1>1, <2>1, <2>2, Zenon DEF Known
      <3> QED
        BY <3>1, <3>2, Zenon DEF Known
    <2> QED
      BY <2>4, <2>5
  <1>6. CopiesAgree'
    <2> HIDE DEF Removal
    <2>1. CopiesAgree
      BY Zenon DEF Placement
    <2>2. \A e \in db'.ready : e = ReadyKey(e.job, db'.jobs[e.job], e.attempt)
      BY <1>2, <1>8, <2>1, Zenon DEF CopiesAgree
    <2>3. \A j \in InFlight' : j \in InFlight /\ db'.jobs[j] = db.jobs[j]
      BY <1>1, <1>2, <1>8, Zenon DEF InFlight
    <2> QED
      BY <1>8, <2>1, <2>2, <2>3, Zenon DEF CopiesAgree
  <1>7. PlacesIndexed'
    <2>1. ASSUME NEW t \in ix'.scheduled
          PROVE  /\ t.queue = db'.jobs[t.job].queue
                 /\ \E u \in db'.scheduled : TimerKey(u) = TimerKey(t)
      <3>1. PICK u \in db.scheduled : TimerKey(u) = TimerKey(t)
        BY ZenonT(30) DEF Placement, PlacesIndexed
      <3>2. u \in db.scheduled \ S /\ u.job = t.job
        BY <3>1, ZenonT(30) DEF TimerKey
      <3>3. db'.jobs[t.job] = db.jobs[t.job]
        BY <1>1, <1>2, <3>2, Fields, ZenonT(30) DEF Placement
      <3> QED
        BY <3>1, <3>2, <3>3, Zenon DEF Placement, PlacesIndexed
    <2> QED
      BY <2>1, ZenonT(30) DEF Placement, PlacesIndexed
  <1> QED
    BY <1>3, <1>4, <1>5, <1>6, <1>7, ZenonT(30) DEF Placement

\* The records an operator's dead-lettering makes of ready and scheduled entries.
AdminRecords(W) == UNION {DeadLettered(e.job, e.attempt, "admin") : e \in W}

LEMMA DeadLetterJobsRemoves ==
  ASSUME Placement, NEW q \in Queue, NEW R, NEW S, DeadLetterJobs(q, R, S)
  PROVE  Removal(R, S, {e.job : e \in R \cup S}, AdminRecords(R \cup S))
PROOF
  <1> DEFINE J == {e.job : e \in R \cup S}
             records == AdminRecords(R \cup S)
  <1>2. R \in SUBSET db.ready /\ S \in SUBSET db.scheduled
    BY Zenon DEF DeadLetterJobs
  <1>3. /\ db'.jobs = Drop(db.jobs, J) /\ db'.payloads = Drop(db.payloads, J)
        /\ db'.inflight = db.inflight /\ db'.ready = db.ready \ R
        /\ db'.scheduled = db.scheduled \ S
        /\ db'.dead_letter = db.dead_letter \cup records
        /\ ix'.ready = ix.ready \ R
        /\ ix'.scheduled = Without(ix.scheduled, {TimerKey(t) : t \in S})
        /\ minted' = minted
    BY Zenon DEF Placement, TypeOK, DeadLetterJobs, RemoveRows, AdminRecords
  <1>4. \A e \in records : e.job \in J /\ \A f \in records : f.job = e.job => f = e
    <2>1. \A x, y \in R \cup S : x.job = y.job => x = y
      BY <1>2 DEF Placement, NoJobDuplicated
    <2> QED
      BY <2>1, DeadLetteredOne DEF AdminRecords
  <1>5. \A t \in ix'.scheduled : t \in ix.scheduled /\ \A s \in S : TimerKey(s) # TimerKey(t)
    BY <1>3, Zenon DEF Without
  <1>6. J = {e.job : e \in R \cup S}
    BY ZenonT(30)
  <1>7. db'.dead_letter \subseteq db.dead_letter \cup records
    BY <1>3, Zenon
  <1> HIDE DEF J, records
  <1>8. Removal(R, S, J, records)
    BY <1>2, <1>3, <1>4, <1>5, <1>6, <1>7, ZenonT(30) DEF Removal
  <1> QED
    BY <1>8, Zenon DEF J, records

LEMMA DeadLetterJobsPlacement ==
  ASSUME Placement, NEW q \in Queue, NEW R, NEW S, DeadLetterJobs(q, R, S)
  PROVE  Placement'
PROOF
  <1>1. TypeOK'
    BY DeadLetterJobsType, Zenon DEF Placement
  <1> QED
    BY <1>1, DeadLetterJobsRemoves, RemovalPlacement, Zenon

LEMMA PurgeRemoves ==
  ASSUME Placement, NEW R \in SUBSET ix.ready, NEW S \in SUBSET ix.scheduled, NEW D, NEW T,
         PurgeOf(R, S, D, T)
  PROVE  \E rows, J : Removal(R, rows, J, {})
PROOF
  <1> DEFINE J == {e.job : e \in R \cup S}
             keys == {TimerKey(t) : t \in S}
             rows == {t \in db.scheduled : TimerKey(t) \in keys}
             letters == {e \in db.dead_letter : DeadLetterKey(e) \notin D}
             records == {}
  <1>2. /\ db'.jobs = Drop(db.jobs, J) /\ db'.payloads = Drop(db.payloads, J)
        /\ db'.inflight = db.inflight /\ db'.ready = db.ready \ R
        /\ db'.scheduled = Without(db.scheduled, keys) /\ db'.dead_letter = letters
        /\ ix'.ready = ix.ready \ R /\ ix'.scheduled = ix.scheduled \ S
        /\ minted' = minted
    BY Zenon DEF Placement, TypeOK, PurgeOf, RemoveRows
  <1>3. /\ R \in SUBSET db.ready /\ rows \in SUBSET db.scheduled
        /\ db'.scheduled = db.scheduled \ rows
        /\ db'.dead_letter \subseteq db.dead_letter \cup records
    BY <1>2, Zenon DEF Placement, PlacesIndexed, Without
  <1>4. J = {e.job : e \in R \cup rows}
    <2>1. \A s \in S : \E t \in rows : t.job = s.job
      <3>1. SUFFICES ASSUME NEW s \in S PROVE \E t \in rows : t.job = s.job
        OBVIOUS
      <3>2. PICK t \in db.scheduled : TimerKey(t) = TimerKey(s)
        BY Zenon DEF Placement, PlacesIndexed
      <3> QED
        BY <3>2, Zenon DEF TimerKey
    <2>2. \A t \in rows : \E s \in S : t.job = s.job
      BY ZenonT(30) DEF TimerKey
    <2> HIDE DEF rows
    <2> QED
      BY <2>1, <2>2
  <1>5. ASSUME NEW t \in ix.scheduled \ S, NEW r \in rows
        PROVE  TimerKey(r) # TimerKey(t)
    <2>1. SUFFICES ASSUME NEW s \in S, TimerKey(s) = TimerKey(t) PROVE s = t
      OBVIOUS
    <2>2. s.job = t.job /\ s.deadline = t.deadline
      BY <2>1, Zenon DEF TimerKey
    <2>3. s.queue = t.queue
      BY <2>2, Zenon DEF Placement, PlacesIndexed
    <2> QED
      BY <2>2, <2>3 DEF Placement, TypeOK
  <1>6. \A t \in ix'.scheduled :
           t \in ix.scheduled /\ \A r \in rows : TimerKey(r) # TimerKey(t)
    BY <1>2, <1>5, Zenon
  <1>7. \A e \in records : e.job \in J /\ \A f \in records : f.job = e.job => f = e
    OBVIOUS
  <1> HIDE DEF J, rows, letters, records
  <1>8. Removal(R, rows, J, records)
    BY <1>2, <1>3, <1>4, <1>6, <1>7, ZenonT(30) DEF Removal
  <1> QED
    BY <1>8, Zenon DEF records

LEMMA PurgePlacement ==
  ASSUME Placement, NEW R \in SUBSET ix.ready, NEW S \in SUBSET ix.scheduled, NEW D, NEW T,
         PurgeOf(R, S, D, T)
  PROVE  Placement'
PROOF
  <1>1. TypeOK'
    BY PurgeType, Zenon DEF Placement
  <1> QED
    BY <1>1, PurgeRemoves, RemovalPlacement, Zenon

-----------------------------------------------------------------------------
LEMMA NextPlacement == ASSUME Placement, [Next]_vars PROVE Placement'
PROOF
  <1>1. CASE Producers
    BY <1>1, ProducersPlacement, Zenon
  <1>2. CASE Workers
    BY <1>2, BoundsAssumption, ReservePlacement, AckPlacement, NackDeadPlacement,
       NackRetryPlacement, ExtendPlacement, ZenonT(30)
    DEF Workers, InFlight
  <1>3. CASE Requeues
    BY <1>3, RequeuePlacement, Zenon DEF Requeues
  <1>4. CASE Purges
    <2>1. PICK R \in SUBSET ix.ready, S \in SUBSET ix.scheduled :
             \E D, T : PurgeOf(R, S, D, T)
      <3>1. PICK q \in Queue : PurgeQueueChunk(q, PurgeChunk)
        BY <1>4, Zenon DEF Purges
      <3>2. PICK R \in FirstOf(Owned(ix.ready, q), PurgeChunk, ReadyBefore) :
            \E S \in FirstOf(Owned(ix.scheduled, q), PurgeChunk - Cardinality(R), TimerBefore) :
            \E D, T : PurgeOf(R, S, D, T)
        BY <3>1, Zenon DEF PurgeQueueChunk
      <3> QED
        BY <3>2, Zenon DEF FirstOf, Owned
    <2> QED
      BY <2>1, PurgePlacement, ZenonT(30)
  <1>5. CASE Operators
    BY <1>5, DeadLetterJobsPlacement, DropDeadLettersPlacement, ClosingPlacement, ZenonT(30)
    DEF Operators, DrainDeadLetters, DeleteDeadLetters
  <1>6. CASE Sweep
    <2>1. PICK S \in SUBSET ix.scheduled, L \in SUBSET ix.leases,
               T \in SUBSET ix.dedup_timers, D \in SUBSET ix.dead_letter :
             SweepOf(S, L, T, D)
      BY <1>6, Zenon DEF Sweep, FirstOf, Due, Outdated
    <2> QED
      BY <1>6, <2>1, SweepPlacement, Zenon DEF Sweep
  <1>7. CASE Tick \/ UNCHANGED vars
    BY <1>7, IdlePlacement, Zenon
  <1> QED
    BY <1>1, <1>2, <1>3, <1>4, <1>5, <1>6, <1>7, ZenonT(30) DEF Next

LEMMA PlacementHolds == Spec => []Placement
  BY PlacementInit, NextPlacement, PTL DEF Spec

\* Whatever operations the committer applies, in whatever order and under
\* whatever clock, a job that has a row is ready, scheduled or in flight: no
\* job is ever stranded where neither a worker nor a timer finds it.
THEOREM NeverStranded == Spec => []NoJobStranded
PROOF
  <1>1. Placement => NoJobStranded
    BY Zenon DEF Placement
  <1> QED
    BY <1>1, PlacementHolds, PTL

\* No job is in two places, or twice in one, and no place or payload outlives
\* its job row: two workers never hold the same job.
THEOREM NeverDuplicated == Spec => []NoJobDuplicated
PROOF
  <1>1. Placement => NoJobDuplicated
    BY Zenon DEF Placement
  <1> QED
    BY <1>1, PlacementHolds, PTL

\* A dead-lettered job is not live and has one record: a requeue, an expiry and
\* an operator's action never leave both a record and a delivery of one job.
THEOREM DeadNotLive == Spec => []DeadOrLive
PROOF
  <1>1. Placement => DeadOrLive
    BY Zenon DEF Placement
  <1> QED
    BY <1>1, PlacementHolds, PTL

\* The copies of a job's queue, priority and enqueue time never drift from its
\* row: a retried or expired job returns to the place it had in its queue.
THEOREM CopiesNeverDrift == Spec => []CopiesAgree
PROOF
  <1>1. Placement => CopiesAgree
    BY Zenon DEF Placement
  <1> QED
    BY <1>1, PlacementHolds, PTL

-----------------------------------------------------------------------------
(* Jobs that were accepted. *)

LEMMA MintedFixed == ASSUME [Next]_vars, ~Producers PROVE minted' = minted
PROOF
  <1>1. CASE Workers
    BY <1>1, ZenonT(30) DEF Workers, Reserve, LeaseJobs, Ack, NackDead, NackRetry, Extend
  <1>2. CASE Requeues \/ Purges
    <2>1. ASSUME NEW q, NEW R, RequeueDeadLetters(q, R) PROVE minted' = minted
      BY <2>1, Zenon DEF RequeueDeadLetters
    <2>2. ASSUME NEW R, NEW S, NEW D, NEW T, PurgeOf(R, S, D, T) PROVE minted' = minted
      BY <2>2, Zenon DEF PurgeOf
    <2> QED
      BY <1>2, <2>1, <2>2, ZenonT(30) DEF Requeues, Purges, PurgeQueueChunk
  <1>3. CASE Operators
    BY <1>3, ZenonT(30)
    DEF Operators, DrainDeadLetters, DeleteDeadLetters, DropDeadLetters, DeadLetterJobs,
        CloseQueue, OpenQueue
  <1>4. CASE Sweep \/ Tick \/ UNCHANGED vars
    BY <1>4, Zenon DEF Sweep, Tick, vars
  <1> QED
    BY <1>1, <1>2, <1>3, <1>4, Zenon DEF Next

\* A job id is minted once, and never for a queue that is being deleted.
LEMMA MintedKept ==
  ASSUME Placement, [Next]_vars
  PROVE  \A j \in Job : \/ minted'[j] = minted[j]
                        \/ minted[j] = None /\ minted'[j] # None
                             /\ ~Closing(minted'[j].queue)
PROOF
  <1>1. CASE Producers
    <2>1. PICK batch \in Batches : \E req \in Requests(batch) :
             Enqueue(batch, req) \/ EnqueueAtomic(batch, req)
      BY <1>1, Zenon DEF Producers
    <2>2. PICK req \in Requests(batch) : Enqueue(batch, req) \/ EnqueueAtomic(batch, req)
      BY <2>1, Zenon
    <2>3. PICK B \in SUBSET Job : req \in [B -> Request] /\ DOMAIN req = B
      BY BatchType, Zenon
    <2>4. B = {batch[i] : i \in DOMAIN batch}
      BY <2>3, Zenon DEF Requests
    <2>5. \A j \in B : minted[j] = None
      BY <2>4 DEF Batches
    <2>6. PICK A \in SUBSET B : InsertJobs(A, req) /\ \A j \in A : ~Closing(req[j].queue)
      BY <2>2, <2>3, <2>4 DEF Enqueue, EnqueueAtomic
    <2>7. minted' = [j \in Job |-> IF j \in A THEN req[j] ELSE minted[j]]
      BY <2>6, Zenon DEF InsertJobs
    <2>8. \A j \in A : req[j] # None
      BY <2>3, RequestAssumption, NoneAssumption, Zenon
    <2> QED
      BY <2>5, <2>6, <2>7, <2>8, Zenon
  <1>2. CASE ~Producers
    BY <1>2, MintedFixed, Zenon
  <1> QED
    BY <1>1, <1>2, Zenon
=============================================================================
