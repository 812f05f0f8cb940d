-------------------------- MODULE LifecycleProofs ---------------------------
(***************************************************************************)
(* The store implements the life cycle of jobs, for every set of jobs,     *)
(* queues and keys and every bound: each operation moves a job along the   *)
(* life cycle or leaves it where it is.  So a job that is over stays over, *)
(* and a lease of an earlier delivery is fenced.                           *)
(***************************************************************************)
EXTENDS JobStoreProofs, JobStoreLifecycle, Fencing

USE DEF ScheduledEntry, DedupTimer, OwnedTimer, TimerKeys

\* The place of a job is its state.
Located ==
    /\ \A j \in Job : db.inflight[j] # None =>
          LifeOf(j) = Life("inflight", db.inflight[j].attempt, db.inflight[j].max_attempts)
    /\ \A e \in db.ready :
          LifeOf(e.job) = Life("ready", e.attempt, db.jobs[e.job].max_attempts)
    /\ \A t \in db.scheduled :
          LifeOf(t.job) = Life("scheduled", t.attempt, db.jobs[t.job].max_attempts)
    /\ \A e \in db.dead_letter :
          LifeOf(e.job) = Life("dead", e.attempt, e.max_attempts)
    /\ \A j \in Job :
          db.jobs[j] = None /\ (\A e \in db.dead_letter : e.job # j) =>
              LifeOf(j) = IF minted[j] = None THEN Life("absent", 0, 0) ELSE Life("gone", 0, 0)

LEMMA PlacementLocates == Placement => Located
PROOF
  <1> SUFFICES ASSUME Placement PROVE Located
    OBVIOUS
  <1>1. \A j \in Job : db.inflight[j] # None =>
          LifeOf(j) = Life("inflight", db.inflight[j].attempt, db.inflight[j].max_attempts)
    BY Zenon DEF LifeOf
  <1>2. ASSUME NEW e \in db.ready
        PROVE  LifeOf(e.job) = Life("ready", e.attempt, db.jobs[e.job].max_attempts)
    <2>1. db.inflight[e.job] = None /\ InReady(e.job) = {e}
      BY Zenon DEF Placement, NoJobDuplicated, InReady
    <2> QED
      BY <2>1, Zenon DEF LifeOf, AttemptIn
  <1>3. ASSUME NEW t \in db.scheduled
        PROVE  LifeOf(t.job) = Life("scheduled", t.attempt, db.jobs[t.job].max_attempts)
    <2>1. db.inflight[t.job] = None /\ InReady(t.job) = {} /\ InScheduled(t.job) = {t}
      BY Zenon DEF Placement, NoJobDuplicated, InReady, InScheduled
    <2> QED
      BY <2>1, Zenon DEF LifeOf, AttemptIn
  <1>4. ASSUME NEW j \in Job, db.jobs[j] = None
        PROVE  db.inflight[j] = None /\ InReady(j) = {} /\ InScheduled(j) = {}
    BY <1>4, Zenon DEF Placement, NoJobDuplicated, InReady, InScheduled
  <1>5. ASSUME NEW e \in db.dead_letter
        PROVE  LifeOf(e.job) = Life("dead", e.attempt, e.max_attempts)
    <2>1. e.job \in Job /\ db.jobs[e.job] = None /\ InDeadLetter(e.job) = {e}
      BY Fields, Zenon DEF Placement, DeadOrLive, InDeadLetter
    <2> QED
      BY <1>4, <2>1, Zenon DEF LifeOf, AttemptIn
  <1>6. ASSUME NEW j \in Job, db.jobs[j] = None, \A e \in db.dead_letter : e.job # j
        PROVE  LifeOf(j) = IF minted[j] = None THEN Life("absent", 0, 0) ELSE Life("gone", 0, 0)
    <2>1. InDeadLetter(j) = {}
      BY <1>6, Zenon DEF InDeadLetter
    <2> QED
      BY <1>4, <1>6, <2>1, Zenon DEF LifeOf
  <1> QED
    BY <1>1, <1>2, <1>3, <1>5, <1>6, Zenon DEF Located

LEMMA PlacementLocatesNext == Placement' => Located'
  BY PlacementLocates, PTL

\* A job none of whose rows changes stays where it is.
LEMMA Stays ==
  ASSUME NEW j \in Job,
         (db'.inflight[j] = None) <=> (db.inflight[j] = None),
         db.inflight[j] # None => /\ db'.inflight[j].attempt = db.inflight[j].attempt
                                  /\ db'.inflight[j].max_attempts = db.inflight[j].max_attempts,
         InReady(j)' = InReady(j), InScheduled(j)' = InScheduled(j),
         InDeadLetter(j)' = InDeadLetter(j), db'.jobs[j] = db.jobs[j],
         minted'[j] = minted[j]
  PROVE  LifeOf(j)' = LifeOf(j)
  BY DEF LifeOf, AttemptIn

\* The moves other than a delivery and a revival.
Quiet(x, y) ==
    \/ x = y
    \/ Lifecycle!Create(x, y) \/ Lifecycle!Promote(x, y) \/ Lifecycle!Retry(x, y)
    \/ Lifecycle!Bury(x, y) \/ Lifecycle!Finish(x, y)

Quietly == \A j \in Job : Quiet(LifeOf(j), LifeOf(j)')

\* The moves of the life cycle, between lives written out.
LEMMA LifeMoves ==
  ASSUME NEW n, NEW m
  PROVE  /\ Lifecycle!Promote(Life("scheduled", n, m), Life("ready", n, m))
         /\ Lifecycle!Deliver(Life("ready", n, m), Life("inflight", n, m))
         /\ Lifecycle!Revive(Life("dead", n, m), Life("ready", FirstAttempt, m))
  BY Zenon DEF Lifecycle!Promote, Lifecycle!Deliver, Lifecycle!Revive, Lifecycle!At, Life, FirstAttempt

LEMMA LifeEnds ==
  ASSUME NEW n, NEW m
  PROVE  /\ Lifecycle!Bury(Life("scheduled", n, m), Life("dead", n, m))
         /\ Lifecycle!Bury(Life("ready", n, m), Life("dead", n, m))
         /\ Lifecycle!Bury(Life("inflight", n, m), Life("dead", n, m))
         /\ Lifecycle!Finish(Life("scheduled", n, m), Life("gone", 0, 0))
         /\ Lifecycle!Finish(Life("ready", n, m), Life("gone", 0, 0))
         /\ Lifecycle!Finish(Life("inflight", n, m), Life("gone", 0, 0))
         /\ Lifecycle!Finish(Life("dead", n, m), Life("gone", 0, 0))
  BY Zenon DEF Lifecycle!Bury, Lifecycle!Finish, Lifecycle!Gone, Lifecycle!At, Life

LEMMA LifeRetries ==
  ASSUME NEW n \in Nat, NEW m \in Nat, n < m, NEW s \in {"scheduled", "ready"}
  PROVE  Lifecycle!Retry(Life("inflight", n, m), Life(s, n + 1, m))
  BY Zenon DEF Lifecycle!Retry, Lifecycle!Waits, Lifecycle!At, Life

\* What ack and a nack without retry have in common.
LEMMA EndLife ==
  ASSUME Placement, Placement', NEW j \in Job, db.inflight[j] # None, NEW record,
         \A e \in record : /\ e.job = j /\ e.attempt = db.inflight[j].attempt
                           /\ e.max_attempts = db.inflight[j].max_attempts,
         db'.jobs = Drop(db.jobs, {j}), db'.inflight = Drop(db.inflight, {j}),
         db'.ready = db.ready, db'.scheduled = db.scheduled,
         db'.dead_letter = db.dead_letter \cup record, minted' = minted
  PROVE  Quietly
PROOF
  <1>1. Located /\ Located'
    BY PlacementLocates, PlacementLocatesNext, Zenon
  <1>2. ASSUME NEW i \in Job \ {j} PROVE LifeOf(i)' = LifeOf(i)
    <2>1. /\ InReady(i)' = InReady(i) /\ InScheduled(i)' = InScheduled(i)
          /\ InDeadLetter(i)' = InDeadLetter(i)
      BY Zenon DEF InReady, InScheduled, InDeadLetter
    <2>2. db'.inflight[i] = db.inflight[i] /\ db'.jobs[i] = db.jobs[i]
      BY Fields, Zenon DEF Placement, Drop
    <2> QED
      BY <2>1, <2>2, Stays, Zenon
  <1>3. LifeOf(j) = Life("inflight", db.inflight[j].attempt, db.inflight[j].max_attempts)
    BY <1>1, Zenon DEF Located
  <1>4. CASE record = {}
    <2>1. /\ \A e \in db'.dead_letter : e.job # j
          /\ db'.jobs[j] = None /\ minted'[j] # None
      BY <1>4, Fields DEF Placement, NoJobDuplicated, DeadOrLive, Known, Drop
    <2>2. LifeOf(j)' = Life("gone", 0, 0)
      BY <1>1, <2>1, Zenon DEF Located
    <2>3. Lifecycle!Finish(LifeOf(j), LifeOf(j)')
      BY <1>3, <2>2, LifeEnds
    <2> QED
      BY <1>2, <2>3, Zenon DEF Quiet, Quietly
  <1>5. CASE record # {}
    <2>1. LifeOf(j)' = Life("dead", db.inflight[j].attempt, db.inflight[j].max_attempts)
      BY <1>1, <1>5 DEF Located
    <2>2. Lifecycle!Bury(LifeOf(j), LifeOf(j)')
      BY <1>3, <2>1, LifeEnds
    <2> QED
      BY <1>2, <2>2, Zenon DEF Quiet, Quietly
  <1> QED
    BY <1>4, <1>5, Zenon

LEMMA AckLife ==
  ASSUME Placement, NEW j \in Job, NEW attempt, Ack(j, attempt)
  PROVE  Quietly
PROOF
  <1> DEFINE record == {}
  <1>1. Placement'
    BY AckPlacement, Zenon
  <1>2. /\ db'.jobs = Drop(db.jobs, {j}) /\ db'.inflight = Drop(db.inflight, {j})
        /\ db'.ready = db.ready /\ db'.scheduled = db.scheduled
        /\ db'.dead_letter = db.dead_letter \cup record
        /\ minted' = minted /\ db.inflight[j] # None
    BY Zenon DEF Placement, TypeOK, Ack, RemoveRows, Holds
  <1>3. \A e \in record : /\ e.job = j /\ e.attempt = db.inflight[j].attempt
                          /\ e.max_attempts = db.inflight[j].max_attempts
    OBVIOUS
  <1> HIDE DEF record
  <1> QED
    BY <1>1, <1>2, <1>3, EndLife, Zenon

LEMMA NackDeadLife ==
  ASSUME Placement, NEW j \in Job, NEW attempt, NEW reject, NackDead(j, attempt, reject)
  PROVE  Quietly
PROOF
  <1> DEFINE cause == IF reject THEN "rejected" ELSE "attempts_exhausted"
             record == DeadLettered(j, attempt, cause)
  <1>1. Placement'
    BY NackDeadPlacement, Zenon
  <1>2. /\ db'.jobs = Drop(db.jobs, {j}) /\ db'.inflight = Drop(db.inflight, {j})
        /\ db'.ready = db.ready /\ db'.scheduled = db.scheduled
        /\ db'.dead_letter = db.dead_letter \cup record
        /\ minted' = minted /\ db.inflight[j] # None /\ db.inflight[j].attempt = attempt
    BY Zenon DEF Placement, TypeOK, NackDead, RemoveRows, Holds
  <1>3. \A e \in record : /\ e.job = j /\ e.attempt = db.inflight[j].attempt
                          /\ e.max_attempts = db.inflight[j].max_attempts
    <2>1. db.jobs[j].max_attempts = db.inflight[j].max_attempts
      BY <1>2, FlightCopies, Zenon DEF Placement
    <2> HIDE DEF cause
    <2> QED
      BY <1>2, <2>1 DEF DeadLettered
  <1> HIDE DEF record
  <1> QED
    BY <1>1, <1>2, <1>3, EndLife, Zenon

LEMMA NackRetryLife ==
  ASSUME Placement, NEW j \in Job, NEW attempt, NEW delay_ms \in RetryDelayMs,
         NackRetry(j, attempt, delay_ms)
  PROVE  Quietly
PROOF
  <1> DEFINE row == db.inflight[j]
             next == NextAttempt(row)
             again == IF delay_ms > 0 THEN {} ELSE {ReadyKey(j, row, next)}
             delayed == IF delay_ms > 0 THEN {now + delay_ms} ELSE {}
             timers == {[deadline |-> t, job |-> j, attempt |-> next] : t \in delayed}
  <1>1. Placement'
    BY NackRetryPlacement, Zenon
  <1>2. Located /\ Located'
    BY <1>1, PlacementLocates, PlacementLocatesNext, Zenon
  <1>3. /\ db'.jobs = db.jobs /\ db'.inflight = Drop(db.inflight, {j})
        /\ db'.ready = db.ready \cup again /\ db'.scheduled = db.scheduled \cup timers
        /\ db'.dead_letter = db.dead_letter /\ minted' = minted
        /\ row # None /\ ~LastAttempt(row)
    BY Zenon DEF Placement, TypeOK, NackRetry, Holds
  <1>4. \A e \in again : e.job = j /\ e.attempt = next
    BY DEF ReadyKey
  <1>5. \A t \in timers : t.job = j /\ t.attempt = next
    OBVIOUS
  <1>6. again # {} \/ timers # {}
    BY ZenonT(30)
  <1>7. next = row.attempt + 1 /\ row.attempt < row.max_attempts
    <2>1. row \in InflightRow
      BY <1>3, Fields, Zenon DEF Placement
    <2> QED
      BY <1>3, <2>1 DEF NextAttempt, LastAttempt, InflightRow
  <1>8. LifeOf(j) = Life("inflight", row.attempt, row.max_attempts)
    BY <1>2, <1>3, Zenon DEF Located
  <1>9. db.jobs[j].max_attempts = row.max_attempts
    BY <1>3, FlightCopies, Zenon DEF Placement
  <1> HIDE DEF row, next, again, timers
  <1>10. ASSUME NEW i \in Job \ {j} PROVE LifeOf(i)' = LifeOf(i)
    <2>1. /\ InReady(i)' = InReady(i) /\ InScheduled(i)' = InScheduled(i)
          /\ InDeadLetter(i)' = InDeadLetter(i)
      BY <1>3, <1>4, <1>5, Zenon DEF InReady, InScheduled, InDeadLetter
    <2>2. db'.inflight[i] = db.inflight[i]
      BY <1>3, Fields, Zenon DEF Placement, Drop
    <2> QED
      BY <1>3, <2>1, <2>2, Stays, Zenon
  <1>11. \/ LifeOf(j)' = Life("ready", next, row.max_attempts)
         \/ LifeOf(j)' = Life("scheduled", next, row.max_attempts)
    BY <1>2, <1>3, <1>4, <1>5, <1>6, <1>9 DEF Located
  <1>12. Lifecycle!Retry(LifeOf(j), LifeOf(j)')
    BY <1>7, <1>8, <1>11 DEF Lifecycle!Retry, Lifecycle!At, Lifecycle!Waits, Life
  <1> QED
    BY <1>10, <1>12, Zenon DEF Quiet, Quietly

\* A reserve delivers the jobs it hands out and leaves the others alone.
LEMMA LeaseLife ==
  ASSUME Placement, NEW P \in SUBSET ix.ready, NEW expires \in Int, LeaseJobs(P, expires)
  PROVE  \A j \in Job :
            \/ LifeOf(j)' = LifeOf(j) /\ (db'.inflight[j] = None <=> db.inflight[j] = None)
            \/ Lifecycle!Deliver(LifeOf(j), LifeOf(j)')
PROOF
  <1> DEFINE J == {e.job : e \in P}
             attempt(j) == (CHOOSE e \in P : e.job = j).attempt
             lease(j) == [attempt |-> attempt(j), lease_expires_at |-> expires,
                          enqueued_at |-> db.jobs[j].enqueued_at,
                          priority |-> db.jobs[j].priority,
                          max_attempts |-> db.jobs[j].max_attempts,
                          queue |-> db.jobs[j].queue]
             inflight == [j \in Job |-> IF j \in J THEN lease(j) ELSE db.inflight[j]]
  <1>1. Placement'
    BY LeasePlacement, Zenon
  <1>2. Located /\ Located'
    BY <1>1, PlacementLocates, PlacementLocatesNext, Zenon
  <1>3. Leased(P) = P /\ P \subseteq db.ready
    BY Zenon DEF Placement, NoJobDuplicated, PlacesIndexed, Leased
  <1>4. /\ db'.jobs = db.jobs /\ db'.inflight = inflight /\ db'.ready = db.ready \ P
        /\ db'.scheduled = db.scheduled /\ db'.dead_letter = db.dead_letter
        /\ minted' = minted
    BY <1>3 DEF Placement, TypeOK, LeaseJobs
  <1>5. ASSUME NEW j \in Job \ J
        PROVE  LifeOf(j)' = LifeOf(j) /\ (db'.inflight[j] = None <=> db.inflight[j] = None)
    <2>1. /\ InReady(j)' = InReady(j) /\ InScheduled(j)' = InScheduled(j)
          /\ InDeadLetter(j)' = InDeadLetter(j)
      BY <1>4, Zenon DEF InReady, InScheduled, InDeadLetter
    <2>2. db'.inflight[j] = db.inflight[j]
      BY <1>4, Zenon
    <2> QED
      BY <1>4, <2>1, <2>2, Stays, Zenon
  <1>6. ASSUME NEW e \in P PROVE Lifecycle!Deliver(LifeOf(e.job), LifeOf(e.job)')
    <2>1. e.job \in Job /\ \A f \in P : f.job = e.job => f = e
      BY <1>3, Fields, Zenon DEF Placement, NoJobDuplicated
    <2>2. attempt(e.job) = e.attempt
      BY <2>1, Zenon
    <2>3. db'.inflight[e.job] = lease(e.job)
      BY <1>4, <2>1
    <2> HIDE DEF attempt
    <2>4. /\ db'.inflight[e.job].attempt = e.attempt
          /\ db'.inflight[e.job].max_attempts = db.jobs[e.job].max_attempts
      BY <2>2, <2>3
    <2>5. db'.inflight[e.job] # None
      <3>1. e.job \notin {f.job : f \in db'.ready} /\ db'.jobs[e.job] # None
        BY <1>3, <1>4, <2>1 DEF Placement, NoJobDuplicated
      <3>2. \A t \in db'.scheduled : t.job # e.job
        BY <1>3, <1>4 DEF Placement, NoJobDuplicated
      <3> QED
        BY <1>1, <2>1, <3>1, <3>2, Zenon DEF Placement, NoJobStranded
    <2> HIDE DEF lease, inflight
    <2>6. LifeOf(e.job) = Life("ready", e.attempt, db.jobs[e.job].max_attempts)
      BY <1>2, <1>3, Zenon DEF Located
    <2>7. LifeOf(e.job)' = Life("inflight", e.attempt, db.jobs[e.job].max_attempts)
      BY <1>2, <2>1, <2>4, <2>5, Zenon DEF Located
    <2> QED
      BY <2>6, <2>7, LifeMoves, Zenon
  <1> QED
    BY <1>5, <1>6, Zenon

LEMMA ExtendLife ==
  ASSUME Placement, NEW j \in Job, NEW attempt, NEW lease_ms \in LeaseMs,
         Extend(j, attempt, lease_ms)
  PROVE  Quietly
PROOF
  <1> DEFINE expires == now + (IF lease_ms = 0 THEN 1 ELSE lease_ms)
  <1>1. Placement'
    BY ExtendPlacement, Zenon
  <1>2. /\ db'.jobs = db.jobs /\ db'.ready = db.ready /\ db'.scheduled = db.scheduled
        /\ db'.dead_letter = db.dead_letter /\ minted' = minted
        /\ db'.inflight = [db.inflight EXCEPT ![j].lease_expires_at = expires]
        /\ db.inflight[j] # None
    BY Zenon DEF Placement, TypeOK, Extend, Holds
  <1>3. db'.inflight[j] # None
    BY <1>1, <1>2 DEF Placement, NoJobStranded, NoJobDuplicated
  <1>4. ASSUME NEW i \in Job PROVE LifeOf(i)' = LifeOf(i)
    <2>1. /\ InReady(i)' = InReady(i) /\ InScheduled(i)' = InScheduled(i)
          /\ InDeadLetter(i)' = InDeadLetter(i)
      BY <1>2, Zenon DEF InReady, InScheduled, InDeadLetter
    <2>2. db.inflight[j] \in InflightRow
      BY <1>2, Fields, Zenon DEF Placement
    <2>3. /\ db'.inflight[i] = None <=> db.inflight[i] = None
          /\ db.inflight[i] # None =>
                /\ db'.inflight[i].attempt = db.inflight[i].attempt
                /\ db'.inflight[i].max_attempts = db.inflight[i].max_attempts
      BY <1>2, <1>3, <2>2, Fields DEF Placement, InflightRow
    <2> QED
      BY <1>2, <2>1, <2>3, Stays, Zenon
  <1> QED
    BY <1>4, Zenon DEF Quiet, Quietly

\* A job whose rows stay, and which may lose its dead-letter record.
LEMMA LosesRecord ==
  ASSUME Placement, Placement', NEW j \in Job,
         db'.jobs[j] = db.jobs[j], db'.inflight[j] = db.inflight[j],
         InReady(j)' = InReady(j), InScheduled(j)' = InScheduled(j),
         InDeadLetter(j)' \subseteq InDeadLetter(j), minted'[j] = minted[j]
  PROVE  Quiet(LifeOf(j), LifeOf(j)')
PROOF
  <1>1. CASE InDeadLetter(j)' = InDeadLetter(j)
    BY <1>1, Stays, Zenon DEF Quiet
  <1>2. ASSUME NEW e \in InDeadLetter(j), e \notin InDeadLetter(j)'
        PROVE  Lifecycle!Finish(LifeOf(j), LifeOf(j)')
    <2>1. /\ e \in db.dead_letter /\ e.job = j /\ db.jobs[j] = None /\ minted[j] # None
          /\ \A f \in db'.dead_letter : f.job # j
      BY <1>2, ZenonT(30) DEF Placement, DeadOrLive, Known, InDeadLetter
    <2>2. LifeOf(j) = Life("dead", e.attempt, e.max_attempts)
      BY <2>1, PlacementLocates, Zenon DEF Located
    <2>3. LifeOf(j)' = Life("gone", 0, 0)
      BY <2>1, PlacementLocatesNext, Zenon DEF Located
    <2> QED
      BY <2>2, <2>3, LifeEnds, Zenon
  <1> QED
    BY <1>1, <1>2, ZenonT(30) DEF Quiet

\* Steps that leave the jobs and their places alone; dead letters may go.
LEMMA FrameLife ==
  ASSUME Placement, Placement', db'.jobs = db.jobs, db'.inflight = db.inflight,
         db'.ready = db.ready, db'.scheduled = db.scheduled,
         db'.dead_letter \subseteq db.dead_letter, minted' = minted
  PROVE  Quietly
  BY LosesRecord, Zenon DEF Quietly, InReady, InScheduled, InDeadLetter

LEMMA DropDeadLettersLife == ASSUME Placement, NEW K, DropDeadLetters(K) PROVE Quietly
PROOF
  <1>1. Placement'
    BY DropDeadLettersPlacement, Zenon
  <1> QED
    BY <1>1, FrameLife, ZenonT(30) DEF Placement, TypeOK, DropDeadLetters

LEMMA ClosingLife ==
  ASSUME Placement, NEW q \in Queue, CloseQueue(q) \/ OpenQueue(q)
  PROVE  Quietly
PROOF
  <1>1. Placement'
    BY ClosingPlacement, Zenon
  <1>2. /\ db'.jobs = db.jobs /\ db'.inflight = db.inflight
        /\ db'.ready = db.ready /\ db'.scheduled = db.scheduled
        /\ db'.dead_letter = db.dead_letter /\ minted' = minted
    BY DEF Placement, TypeOK, CloseQueue, OpenQueue
  <1> QED
    BY <1>1, <1>2, FrameLife, Zenon

LEMMA IdleLife == ASSUME Placement, Tick \/ UNCHANGED vars PROVE Quietly
PROOF
  <1>1. db' = db /\ minted' = minted
    BY ZenonT(30) DEF Tick, vars
  <1> QED
    BY <1>1, IdlePlacement, FrameLife, Zenon

\* What dead-lettering by an operator and a purge have in common.
LEMMA RemovalLife ==
  ASSUME Placement, Placement', NEW R, NEW S, NEW J, NEW records, Removal(R, S, J, records),
         \A r \in records, e \in R \cup S : r.job = e.job =>
             r.attempt = e.attempt /\ r.max_attempts = db.jobs[e.job].max_attempts
  PROVE  Quietly
PROOF
  <1> USE DEF Removal
  <1>1. Located /\ Located'
    BY PlacementLocates, PlacementLocatesNext, ZenonT(30)
  <1>2. ASSUME NEW j \in Job \ J PROVE Quiet(LifeOf(j), LifeOf(j)')
    <2>1. /\ InReady(j)' = InReady(j) /\ InScheduled(j)' = InScheduled(j)
          /\ InDeadLetter(j)' \subseteq InDeadLetter(j)
      BY DEF InReady, InScheduled, InDeadLetter
    <2>2. db'.jobs[j] = db.jobs[j] /\ db'.inflight[j] = db.inflight[j]
      BY Fields, ZenonT(30) DEF Placement, Drop
    <2> QED
      BY <2>1, <2>2, LosesRecord, ZenonT(30)
  <1>3. ASSUME NEW e \in R \cup S PROVE Quiet(LifeOf(e.job), LifeOf(e.job)')
    <2> DEFINE limit == db.jobs[e.job].max_attempts
    <2>1. \/ LifeOf(e.job) = Life("ready", e.attempt, limit)
          \/ LifeOf(e.job) = Life("scheduled", e.attempt, limit)
      BY <1>1, ZenonT(30) DEF Located
    <2>2. /\ e.job \in Job /\ db.jobs[e.job] # None /\ db'.jobs[e.job] = None
          /\ minted'[e.job] # None
      BY Fields DEF Placement, NoJobDuplicated, Known, Drop
    <2>3. CASE \A r \in db'.dead_letter : r.job # e.job
      <3>1. LifeOf(e.job)' = Life("gone", 0, 0)
        BY <1>1, <2>2, <2>3, ZenonT(30) DEF Located
      <3>2. Lifecycle!Finish(LifeOf(e.job), LifeOf(e.job)')
        BY <2>1, <3>1, LifeEnds
      <3> QED
        BY <3>2, Zenon DEF Quiet
    <2>4. ASSUME NEW r \in db'.dead_letter, r.job = e.job
          PROVE  Quiet(LifeOf(e.job), LifeOf(e.job)')
      <3>1. r \in records
        BY <2>2, <2>4, ZenonT(30) DEF Placement, DeadOrLive
      <3>2. LifeOf(e.job)' = Life("dead", e.attempt, limit)
        <4>1. LifeOf(r.job)' = Life("dead", r.attempt, r.max_attempts)
          BY <1>1, <2>4, ZenonT(30) DEF Located
        <4>2. r.attempt = e.attempt /\ r.max_attempts = limit
          BY <2>4, <3>1, Zenon
        <4> QED
          BY <2>4, <4>1, <4>2, ZenonT(30)
      <3>3. Lifecycle!Bury(LifeOf(e.job), LifeOf(e.job)')
        BY <2>1, <3>2, LifeEnds
      <3> QED
        BY <3>3, Zenon DEF Quiet
    <2> QED
      BY <2>3, <2>4, ZenonT(30)
  <1> QED
    BY <1>2, <1>3, Zenon DEF Quietly

LEMMA DeadLetterJobsLife ==
  ASSUME Placement, NEW q \in Queue, NEW R, NEW S, DeadLetterJobs(q, R, S)
  PROVE  Quietly
PROOF
  <1>1. Placement'
    BY DeadLetterJobsPlacement, Zenon
  <1>2. Removal(R, S, {e.job : e \in R \cup S}, AdminRecords(R \cup S))
    BY DeadLetterJobsRemoves, Zenon
  <1>3. ASSUME NEW r \in AdminRecords(R \cup S), NEW e \in R \cup S, r.job = e.job
        PROVE  r.attempt = e.attempt /\ r.max_attempts = db.jobs[e.job].max_attempts
    <2>1. PICK f \in R \cup S : r \in DeadLettered(f.job, f.attempt, "admin")
      BY Zenon DEF AdminRecords
    <2>2. /\ r.job = f.job /\ r.attempt = f.attempt
          /\ r.max_attempts = db.jobs[f.job].max_attempts
      BY <2>1 DEF DeadLettered
    <2>3. f = e
      BY <1>2, <1>3, <2>2, ZenonT(30) DEF Placement, NoJobDuplicated, Removal
    <2> QED
      BY <2>2, <2>3, Zenon
  <1> QED
    BY <1>1, <1>2, <1>3, RemovalLife

LEMMA PurgeLife ==
  ASSUME Placement, NEW R \in SUBSET ix.ready, NEW S \in SUBSET ix.scheduled, NEW D, NEW T,
         PurgeOf(R, S, D, T)
  PROVE  Quietly
PROOF
  <1>1. Placement'
    BY PurgePlacement, Zenon
  <1>2. PICK rows, J : Removal(R, rows, J, {})
    BY PurgeRemoves, Zenon
  <1> QED
    BY <1>1, <1>2, RemovalLife

\* A requeue revives the jobs of its records and leaves the others alone.
LEMMA RequeueLife ==
  ASSUME Placement, NEW q \in Queue, NEW R, RequeueDeadLetters(q, R)
  PROVE  \A j \in Job :
            \/ LifeOf(j)' = LifeOf(j)
            \/ j \in {e.job : e \in R} /\ Lifecycle!Revive(LifeOf(j), LifeOf(j)')
PROOF
  <1> DEFINE J == {e.job : e \in R}
             rec(j) == CHOOSE e \in R : e.job = j
             row(j) == [queue |-> rec(j).queue, priority |-> rec(j).priority,
                        max_attempts |-> rec(j).max_attempts, enqueued_at |-> now]
             readied == {ReadyKey(j, row(j), FirstAttempt) : j \in J}
  <1>1. Placement'
    BY RequeuePlacement, Zenon
  <1>2. Located /\ Located'
    BY <1>1, PlacementLocates, PlacementLocatesNext, Zenon
  <1>3. /\ db'.jobs = [j \in Job |-> IF j \in J THEN row(j) ELSE db.jobs[j]]
        /\ db'.inflight = db.inflight /\ db'.ready = db.ready \cup readied
        /\ db'.scheduled = db.scheduled /\ db'.dead_letter = db.dead_letter \ R
        /\ minted' = minted
    BY Zenon DEF Placement, TypeOK, RequeueDeadLetters
  <1>4. R \subseteq db.dead_letter
    BY Zenon DEF RequeueDeadLetters, Owned
  <1>5. \A e \in readied : e.job \in J
    BY DEF ReadyKey
  <1>6. ASSUME NEW j \in Job \ J PROVE LifeOf(j)' = LifeOf(j)
    <2>1. /\ InReady(j)' = InReady(j) /\ InScheduled(j)' = InScheduled(j)
          /\ InDeadLetter(j)' = InDeadLetter(j)
      <3> HIDE DEF readied
      <3> QED
        BY <1>3, <1>5 DEF InReady, InScheduled, InDeadLetter
    <2>2. db'.jobs[j] = db.jobs[j]
      BY <1>3, Zenon
    <2> QED
      BY <1>3, <2>1, <2>2, Stays, ZenonT(30)
  <1>7. ASSUME NEW e \in R PROVE Lifecycle!Revive(LifeOf(e.job), LifeOf(e.job)')
    <2>1. rec(e.job) = e /\ e.job \in Job
      BY <1>4, Fields, Zenon DEF Placement, DeadOrLive
    <2>2. db'.jobs[e.job] = row(e.job)
      BY <1>3, <2>1, ZenonT(30)
    <2> HIDE DEF rec
    <2>3. db'.jobs[e.job].max_attempts = e.max_attempts
      BY <2>1, <2>2
    <2>4. LifeOf(e.job) = Life("dead", e.attempt, e.max_attempts)
      BY <1>2, <1>4, Zenon DEF Located
    <2>5. ReadyKey(e.job, row(e.job), FirstAttempt) \in db'.ready
      BY <1>3, Zenon
    <2> HIDE DEF row
    <2>6. LifeOf(e.job)' = Life("ready", FirstAttempt, e.max_attempts)
      BY <1>2, <2>3, <2>5 DEF Located, ReadyKey
    <2> QED
      BY <2>4, <2>6, LifeMoves, Zenon
  <1> QED
    BY <1>6, <1>7, Zenon

\* An accepted job waits, ready or scheduled, for its first delivery.
LEMMA InsertLife ==
  ASSUME Placement, Placement', NEW B \in SUBSET Job, NEW req \in [B -> Request],
         NEW A \in SUBSET B, \A j \in A : minted[j] = None, InsertJobs(A, req)
  PROVE  Quietly
PROOF
  <1> DEFINE row(j) == [queue |-> req[j].queue, priority |-> req[j].priority,
                        max_attempts |-> req[j].max_attempts, enqueued_at |-> now]
             later == {j \in A : req[j].scheduled_at # None /\ req[j].scheduled_at > now}
             readied == {ReadyKey(j, row(j), FirstAttempt) : j \in A \ later}
             timers == {[deadline |-> req[j].scheduled_at, job |-> j,
                         attempt |-> FirstAttempt] : j \in later}
  <1>1. Located /\ Located'
    BY PlacementLocates, PlacementLocatesNext, Zenon
  <1>2. /\ db'.jobs = [j \in Job |-> IF j \in A THEN row(j) ELSE db.jobs[j]]
        /\ db'.inflight = db.inflight /\ db'.ready = db.ready \cup readied
        /\ db'.scheduled = db.scheduled \cup timers /\ db'.dead_letter = db.dead_letter
        /\ minted' = [j \in Job |-> IF j \in A THEN req[j] ELSE minted[j]]
    BY ZenonT(30) DEF Placement, TypeOK, InsertJobs
  <1>3. \A e \in readied : e.job \in A
    BY DEF ReadyKey
  <1>4. \A t \in timers : t.job \in A
    OBVIOUS
  <1>5. ASSUME NEW j \in Job \ A PROVE LifeOf(j)' = LifeOf(j)
    <2>1. db'.jobs[j] = db.jobs[j] /\ minted'[j] = minted[j]
      BY <1>2, Zenon
    <2>2. /\ InReady(j)' = InReady(j) /\ InScheduled(j)' = InScheduled(j)
          /\ InDeadLetter(j)' = InDeadLetter(j)
      <3> HIDE DEF readied, timers
      <3> QED
        BY <1>2, <1>3, <1>4 DEF InReady, InScheduled, InDeadLetter
    <2> QED
      BY <1>2, <2>1, <2>2, Stays, Zenon
  <1>6. ASSUME NEW j \in A PROVE Lifecycle!Create(LifeOf(j), LifeOf(j)')
    <2> DEFINE limit == req[j].max_attempts
    <2>1. LifeOf(j) = Life("absent", 0, 0)
      <3>1. db.jobs[j] = None /\ \A e \in db.dead_letter : e.job # j
        BY Zenon DEF Placement, Known
      <3> QED
        BY <1>1, <3>1, ZenonT(30) DEF Located
    <2>2. limit \in Nat \ {0}
      BY RequestAssumption DEF JobRequest
    <2>3. db'.jobs[j].max_attempts = limit
      BY <1>2
    <2>4. LifeOf(j)' \in {Life("ready", 1, limit), Life("scheduled", 1, limit)}
      <3>1. CASE j \in later
        <4>1. [deadline |-> req[j].scheduled_at, job |-> j, attempt |-> FirstAttempt]
                 \in db'.scheduled
          BY <1>2, <3>1, ZenonT(30)
        <4> QED
          BY <1>1, <2>3, <4>1, ZenonT(30) DEF Located, FirstAttempt
      <3>2. CASE j \notin later
        <4>1. ReadyKey(j, row(j), FirstAttempt) \in db'.ready
          BY <1>2, <3>2
        <4> HIDE DEF row
        <4> QED
          BY <1>1, <2>3, <4>1, ZenonT(30) DEF Located, FirstAttempt, ReadyKey
      <3> QED
        BY <3>1, <3>2, ZenonT(30)
    <2> QED
      BY <2>1, <2>2, <2>4
      DEF Lifecycle!Create, Lifecycle!Absent, Lifecycle!At, Lifecycle!Waits, Life
  <1> QED
    BY <1>5, <1>6, Zenon DEF Quiet, Quietly

LEMMA SweepLife ==
  ASSUME Placement, NEW S \in SUBSET ix.scheduled, NEW L \in SUBSET ix.leases,
         NEW T \in SUBSET ix.dedup_timers, NEW D \in SUBSET ix.dead_letter,
         SweepOf(S, L, T, D), UNCHANGED <<now, minted>>
  PROVE  Quietly
PROOF
  <1> DEFINE skeys == {TimerKey(t) : t \in S}
             promoted == {t \in db.scheduled :
                             TimerKey(t) \in skeys /\ db.jobs[t.job] # None}
             expired == {j \in {t.job : t \in L} : db.inflight[j] # None}
             exhausted == {j \in expired : LastAttempt(db.inflight[j])}
             promotion(t) == ReadyKey(t.job, db.jobs[t.job], t.attempt)
             retry(j) == ReadyKey(j, db.inflight[j], NextAttempt(db.inflight[j]))
             readied == {promotion(t) : t \in promoted}
                        \cup {retry(j) : j \in expired \ exhausted}
             records == UNION {DeadLettered(j, db.inflight[j].attempt, "lease_expired") :
                                  j \in exhausted}
             letters == {e \in db.dead_letter \cup records : DeadLetterKey(e) \notin D}
             woken == {t.job : t \in promoted}
  <1>1. Placement'
    BY SweepPlacement, Zenon
  <1>2. Located /\ Located'
    BY <1>1, PlacementLocates, PlacementLocatesNext, ZenonT(30)
  <1>3. /\ db'.jobs = Drop(db.jobs, exhausted) /\ db'.inflight = Drop(db.inflight, expired)
        /\ db'.ready = db.ready \cup readied
        /\ db'.scheduled = Without(db.scheduled, skeys) /\ db'.dead_letter = letters
        /\ minted' = minted
    BY ZenonT(30) DEF Placement, TypeOK, SweepOf, RemoveRows
  <1>4. \A j \in expired : /\ j \in Job /\ db.jobs[j] # None /\ db.inflight[j] # None
                           /\ j \notin woken /\ minted[j] # None
    BY Fields DEF Placement, TypeOK, NoJobDuplicated, Known
  <1>5. \A t \in promoted : /\ t \in db.scheduled /\ t.job \in woken /\ t.job \in Job
                            /\ promotion(t) \in db'.ready /\ promotion(t).job = t.job
                            /\ promotion(t).attempt = t.attempt
    BY <1>3, Fields, Zenon DEF Placement, ReadyKey
  <1>6. \A j \in expired \ exhausted :
           /\ retry(j) \in db'.ready /\ retry(j).job = j
           /\ retry(j).attempt = NextAttempt(db.inflight[j])
    BY <1>3, ZenonT(30) DEF ReadyKey
  <1>7. \A e \in readied : e.job \in woken \cup expired
    BY DEF ReadyKey
  <1>8. \A r \in records : /\ r.job \in exhausted /\ r.attempt = db.inflight[r.job].attempt
                           /\ r.max_attempts = db.jobs[r.job].max_attempts
    BY DEF DeadLettered
  <1>9. /\ \A t \in db.scheduled : TimerKey(t) \in skeys => t.job \in woken
        /\ exhausted \subseteq expired /\ letters \subseteq db.dead_letter \cup records
        /\ \A j \in expired : j \in exhausted <=> LastAttempt(db.inflight[j])
        /\ \A j \in woken : \E t \in promoted : t.job = j
    BY ZenonT(30) DEF Placement, NoJobDuplicated
  <1> HIDE DEF skeys, promoted, expired, exhausted, promotion, retry, readied, records,
               letters, woken
  <1>10. ASSUME NEW j \in Job, j \notin woken, j \notin expired
         PROVE  Quiet(LifeOf(j), LifeOf(j)')
    <2>1. /\ InReady(j)' = InReady(j) /\ InScheduled(j)' = InScheduled(j)
          /\ InDeadLetter(j)' \subseteq InDeadLetter(j)
      <3>1. InReady(j)' = InReady(j)
        BY <1>3, <1>7, <1>10, ZenonT(30) DEF InReady
      <3>2. InScheduled(j)' = InScheduled(j)
        BY <1>3, <1>9, <1>10 DEF InScheduled, Without
      <3>3. InDeadLetter(j)' \subseteq InDeadLetter(j)
        BY <1>3, <1>8, <1>9, <1>10, ZenonT(30) DEF InDeadLetter
      <3> QED
        BY <3>1, <3>2, <3>3, Zenon
    <2>2. db'.jobs[j] = db.jobs[j] /\ db'.inflight[j] = db.inflight[j]
      BY <1>3, <1>9, <1>10, Fields, ZenonT(30) DEF Placement, Drop
    <2> QED
      BY <1>1, <1>3, <2>1, <2>2, LosesRecord, ZenonT(30)
  <1>11. ASSUME NEW t \in promoted PROVE Lifecycle!Promote(LifeOf(t.job), LifeOf(t.job)')
    <2>1. db'.jobs[t.job] = db.jobs[t.job]
      <3>1. t.job \in Job /\ t.job \notin exhausted
        BY <1>4, <1>5, <1>9, ZenonT(30)
      <3>2. db.jobs \in [Job -> JobRow \cup {None}]
        BY Fields, Zenon DEF Placement
      <3> QED
        BY <1>3, <3>1, <3>2, ZenonT(30) DEF Drop
    <2>2. LifeOf(t.job) = Life("scheduled", t.attempt, db.jobs[t.job].max_attempts)
      BY <1>2, <1>5, ZenonT(30) DEF Located
    <2>3. LifeOf(t.job)' = Life("ready", t.attempt, db.jobs[t.job].max_attempts)
      <3>1. PICK e \in db'.ready : e.job = t.job /\ e.attempt = t.attempt
        BY <1>5, ZenonT(30)
      <3>2. LifeOf(e.job)' = Life("ready", e.attempt, db'.jobs[e.job].max_attempts)
        BY <1>2, <3>1, ZenonT(30) DEF Located
      <3> QED
        BY <2>1, <3>1, <3>2, ZenonT(30)
    <2> QED
      BY <2>2, <2>3, LifeMoves, Zenon
  <1>12. ASSUME NEW j \in expired PROVE Quiet(LifeOf(j), LifeOf(j)')
    <2> DEFINE attempt == db.inflight[j].attempt
               limit == db.inflight[j].max_attempts
    <2>1. LifeOf(j) = Life("inflight", attempt, limit) /\ db.jobs[j].max_attempts = limit
      BY <1>2, <1>4, FlightCopies, ZenonT(30) DEF Located, Placement
    <2>2. CASE j \notin exhausted
      <3>1. db'.jobs[j] = db.jobs[j]
        BY <1>3, <1>4, <2>2, Fields, ZenonT(30) DEF Placement, Drop
      <3>2. LifeOf(j)' = Life("ready", NextAttempt(db.inflight[j]), limit)
        <4>1. PICK e \in db'.ready : e.job = j /\ e.attempt = NextAttempt(db.inflight[j])
          BY <1>6, <2>2, ZenonT(30)
        <4>2. LifeOf(e.job)' = Life("ready", e.attempt, db'.jobs[e.job].max_attempts)
          BY <1>2, <4>1, ZenonT(30) DEF Located
        <4> QED
          BY <2>1, <3>1, <4>1, <4>2, ZenonT(30)
      <3>3. /\ NextAttempt(db.inflight[j]) = attempt + 1 /\ attempt < limit
            /\ attempt \in Nat /\ limit \in Nat
        <4>1. db.inflight[j] \in InflightRow
          BY <1>4, Fields, ZenonT(30) DEF Placement
        <4>2. ~LastAttempt(db.inflight[j])
          BY <1>9, <2>2, ZenonT(30)
        <4> QED
          BY <4>1, <4>2 DEF NextAttempt, LastAttempt, InflightRow
      <3>4. Lifecycle!Retry(LifeOf(j), LifeOf(j)')
        <4> HIDE DEF attempt, limit
        <4> QED
          BY <2>1, <3>2, <3>3, LifeRetries, ZenonT(30)
      <3> QED
        BY <3>4, ZenonT(30) DEF Quiet
    <2>3. CASE j \in exhausted /\ \A e \in db'.dead_letter : e.job # j
      <3>1. db'.jobs[j] = None /\ minted'[j] # None
        BY <1>3, <1>4, <2>3, Fields, ZenonT(30) DEF Placement, Drop
      <3>2. LifeOf(j)' = Life("gone", 0, 0)
        BY <1>2, <1>4, <2>3, <3>1, ZenonT(30) DEF Located
      <3>3. Lifecycle!Finish(LifeOf(j), LifeOf(j)')
        BY <2>1, <3>2, LifeEnds, Zenon
      <3> QED
        BY <3>3, ZenonT(30) DEF Quiet
    <2>4. ASSUME j \in exhausted, NEW e \in db'.dead_letter, e.job = j
          PROVE  Quiet(LifeOf(j), LifeOf(j)')
      <3>1. e \in records
        BY <1>3, <1>4, <1>9, <2>4, ZenonT(30) DEF Placement, DeadOrLive
      <3>2. LifeOf(j)' = Life("dead", attempt, limit)
        <4>1. LifeOf(e.job)' = Life("dead", e.attempt, e.max_attempts)
          BY <1>2, <2>4, ZenonT(30) DEF Located
        <4>2. e.attempt = attempt /\ e.max_attempts = limit
          BY <1>8, <2>1, <2>4, <3>1, Zenon
        <4> QED
          BY <2>4, <4>1, <4>2, ZenonT(30)
      <3>3. Lifecycle!Bury(LifeOf(j), LifeOf(j)')
        BY <2>1, <3>2, LifeEnds, Zenon
      <3> QED
        BY <3>3, ZenonT(30) DEF Quiet
    <2> QED
      BY <2>2, <2>3, <2>4, ZenonT(30)
  <1> QED
    BY <1>9, <1>10, <1>11, <1>12, ZenonT(30) DEF Quiet, Quietly

LEMMA ProducersLife == ASSUME Placement, Producers PROVE Quietly
PROOF
  <1>1. PICK batch \in Batches : \E req \in Requests(batch) :
           Enqueue(batch, req) \/ EnqueueAtomic(batch, req)
    BY Zenon DEF Producers
  <1>2. PICK req \in Requests(batch) : Enqueue(batch, req) \/ EnqueueAtomic(batch, req)
    BY <1>1, Zenon
  <1>3. PICK B \in SUBSET Job : req \in [B -> Request] /\ DOMAIN req = B
    BY BatchType, Zenon
  <1>4. \A j \in DOMAIN req : minted[j] = None
    <2>1. DOMAIN req = {batch[i] : i \in DOMAIN batch}
      BY Zenon DEF Requests
    <2> QED
      BY <2>1 DEF Batches
  <1>5. PICK A \in SUBSET B : InsertJobs(A, req)
    BY <1>2, <1>3, Zenon DEF Enqueue, EnqueueAtomic
  <1> QED
    BY <1>3, <1>4, <1>5, InsertLife, ProducersPlacement, Zenon

\* What neither hands a job out nor requeues one.
LEMMA OthersLife ==
  ASSUME Placement, Producers \/ Purges \/ Operators \/ Sweep \/ Tick \/ UNCHANGED vars
  PROVE  Quietly
PROOF
  <1>1. CASE Producers
    BY <1>1, ProducersLife, Zenon
  <1>2. CASE Purges
    <2>1. PICK R \in SUBSET ix.ready, S \in SUBSET ix.scheduled :
             \E D, T : PurgeOf(R, S, D, T)
      <3>1. PICK q \in Queue : PurgeQueueChunk(q, PurgeChunk)
        BY <1>2, Zenon DEF Purges
      <3> QED
        BY <3>1, ZenonT(30) DEF PurgeQueueChunk, FirstOf, Owned
    <2> QED
      BY <2>1, PurgeLife, Zenon
  <1>3. CASE Operators
    BY <1>3, DeadLetterJobsLife, DropDeadLettersLife, ClosingLife, ZenonT(30)
    DEF Operators, DrainDeadLetters, DeleteDeadLetters
  <1>4. CASE Sweep
    <2>1. PICK S \in SUBSET ix.scheduled, L \in SUBSET ix.leases,
               T \in SUBSET ix.dedup_timers, D \in SUBSET ix.dead_letter :
             SweepOf(S, L, T, D)
      BY <1>4, Zenon DEF Sweep, FirstOf, Due, Outdated
    <2> QED
      BY <1>4, <2>1, SweepLife, ZenonT(30) DEF Sweep
  <1>5. CASE Tick \/ UNCHANGED vars
    BY <1>5, IdleLife, ZenonT(30)
  <1> QED
    BY <1>1, <1>2, <1>3, <1>4, <1>5, Zenon

LEMMA ReserveLife ==
  ASSUME Placement, NEW queues, NEW lease_ms \in LeaseMs, NEW max_jobs,
         Reserve(queues, lease_ms, max_jobs)
  PROVE  \A j \in Job :
            \/ LifeOf(j)' = LifeOf(j) /\ (db'.inflight[j] = None <=> db.inflight[j] = None)
            \/ Lifecycle!Deliver(LifeOf(j), LifeOf(j)')
PROOF
  <1>1. PICK P \in SUBSET ix.ready : LeaseJobs(P, now + lease_ms)
    BY Zenon DEF Reserve
  <1>2. now + lease_ms \in Int
    BY TimeAssumption DEF Placement, TypeOK
  <1> QED
    BY <1>1, <1>2, LeaseLife, Zenon

LEMMA NextLife ==
  ASSUME Placement, [Next]_vars
  PROVE  \A j \in Job : LifeOf(j)' = LifeOf(j) \/ Lifecycle!Move(LifeOf(j), LifeOf(j)')
PROOF
  <1>1. Quietly => \A j \in Job : \/ LifeOf(j)' = LifeOf(j)
                                  \/ Lifecycle!Move(LifeOf(j), LifeOf(j)')
    BY Zenon DEF Quietly, Quiet, Lifecycle!Move
  <1>2. CASE Workers
    <2>1. CASE \E queues \in ReserveQueues, lease_ms \in LeaseMs, n \in 1..MaxReserve :
                  Reserve(queues, lease_ms, n)
      BY <2>1, ReserveLife, Zenon DEF Lifecycle!Move
    <2>2. CASE ~ \E queues \in ReserveQueues, lease_ms \in LeaseMs, n \in 1..MaxReserve :
                  Reserve(queues, lease_ms, n)
      BY <1>1, <1>2, <2>2, AckLife, NackDeadLife, NackRetryLife, ExtendLife, ZenonT(30)
      DEF Workers, InFlight
    <2> QED
      BY <2>1, <2>2, ZenonT(30)
  <1>3. CASE Requeues
    BY <1>3, RequeueLife DEF Requeues, Lifecycle!Move
  <1>4. CASE ~Workers /\ ~Requeues
    BY <1>1, <1>4, OthersLife, Zenon DEF Next
  <1> QED
    BY <1>2, <1>3, <1>4, Zenon

\* The store implements the life cycle, whatever its jobs, queues, keys and
\* bounds: every operation of the committer, batches and sweeps included, moves
\* each job along the life cycle or leaves it alone.
THEOREM StoreImplementsLifecycle == Spec => ImplementsLifecycle
PROOF
  <1> DEFINE life == [j \in Job |-> LifeOf(j)]
  <1>1. Init => Lifecycle!Init
    <2> SUFFICES ASSUME Init PROVE \A j \in Job : LifeOf(j) = Life("absent", 0, 0)
      BY Zenon DEF Lifecycle!Init, Lifecycle!Absent, Life
    <2> QED
      BY PlacementInit, PlacementLocates, Zenon DEF Init, Located
  <1>2. Placement /\ [Next]_vars => [Lifecycle!Next]_life
    BY NextLife, Zenon DEF Lifecycle!Next
  <1> QED
    BY <1>1, <1>2, PlacementHolds, PTL DEF Spec, ImplementsLifecycle, Lifecycle!Spec

-----------------------------------------------------------------------------
(* Jobs that are over. *)

\* The job was accepted and is over.
Over(j) ==
    minted[j] # None /\ db.jobs[j] = None /\ \A e \in db.dead_letter : e.job # j

GoneIsOver == \A j \in Job : LifeOf(j).state = "gone" => Over(j)

LEMMA PlacementGone == Placement => GoneIsOver
PROOF
  <1> SUFFICES ASSUME Placement, NEW j \in Job, LifeOf(j).state = "gone" PROVE Over(j)
    BY Zenon DEF GoneIsOver
  <1>1. /\ db.inflight[j] = None
        /\ InReady(j) = {} /\ InScheduled(j) = {} /\ InDeadLetter(j) = {}
        /\ minted[j] # None
    BY Zenon DEF LifeOf, Life
  <1>2. db.jobs[j] = None
    BY <1>1, Zenon DEF Placement, NoJobStranded, InReady, InScheduled
  <1> QED
    BY <1>1, <1>2, Zenon DEF Over, InDeadLetter

LEMMA PlacementGoneNext == Placement' => GoneIsOver'
  BY PlacementGone, PTL

\* Nothing brings back a job that is over.
LEMMA OverKept ==
  ASSUME Placement, [Next]_vars, NEW j \in Job, Over(j)
  PROVE  Over(j)'
PROOF
  <1>1. LifeOf(j) = Life("gone", 0, 0)
    BY PlacementLocates, Zenon DEF Located, Over
  <1>2. LifeOf(j)' = LifeOf(j)
    <2>1. ~Lifecycle!Move(LifeOf(j), LifeOf(j)')
      BY <1>1 DEF Life, Lifecycle!Move, Lifecycle!Create, Lifecycle!Promote,
                  Lifecycle!Deliver, Lifecycle!Retry, Lifecycle!Bury, Lifecycle!Revive,
                  Lifecycle!Finish, Lifecycle!Absent
    <2> QED
      BY <2>1, NextLife, ZenonT(30)
  <1>3. LifeOf(j)'.state = "gone"
    BY <1>1, <1>2 DEF Life
  <1>4. GoneIsOver'
    BY NextPlacement, PlacementGoneNext, Zenon
  <1> QED
    BY <1>3, <1>4, ZenonT(30) DEF GoneIsOver

-----------------------------------------------------------------------------
(* The fence.  Since the last requeue of a job its attempt numbers only grew, *)
(* and no two deliveries had the same one; so a lease of that time whose     *)
(* attempt is the one in flight is the latest.                               *)

Leases == [job : Job, attempt : Nat, delivery : Nat, requeue : Nat]

FType ==
    /\ deliveries \in [Job -> Nat] /\ requeues \in [Job -> Nat]
    /\ held \subseteq Leases
    /\ caller \in Leases \cup {None}

Ahead(x) == x.state \in {"scheduled", "ready"}

\* A lease handed out since the last requeue of its job is of an earlier attempt
\* than the one the job waits for, and of an earlier attempt than the one in
\* flight unless it is the latest delivery itself.
Outrun(h, x, n) ==
    /\ x.state # "absent"
    /\ Ahead(x) => h.attempt < x.attempt
    /\ x.state = "inflight" => /\ h.attempt <= x.attempt
                               /\ h.attempt = x.attempt => h.delivery = n

LeasesOutrun ==
    \A h \in held :
        /\ h.requeue <= requeues[h.job]
        /\ h.requeue = requeues[h.job] => Outrun(h, LifeOf(h.job), deliveries[h.job])
        /\ h.requeue < requeues[h.job] => LifeOf(h.job).state # "absent"

Fenced == Placement /\ FType /\ LeasesOutrun /\ FencedBetweenRequeues

-----------------------------------------------------------------------------
\* The attempts of lives are numbers.
LivesTyped ==
    \A j \in Job :
        LifeOf(j) \in [state : {"absent", "scheduled", "ready", "inflight", "dead", "gone"},
                       attempt : Nat, limit : Nat]

LEMMA PlacementTypes == Placement => LivesTyped
PROOF
  <1> SUFFICES ASSUME Placement, NEW j \in Job
               PROVE  LifeOf(j) \in
                         [state : {"absent", "scheduled", "ready", "inflight", "dead", "gone"},
                          attempt : Nat, limit : Nat]
    BY Zenon DEF LivesTyped
  <1>1. Located
    BY PlacementLocates, ZenonT(30)
  <1>2. CASE db.inflight[j] # None
    <2>1. db.inflight[j] \in InflightRow
      BY <1>2, Fields, Zenon DEF Placement
    <2> QED
      BY <1>1, <1>2, <2>1 DEF Located, Life, InflightRow
  <1>3. CASE db.jobs[j] # None /\ db.inflight[j] = None
    <2>1. db.jobs[j] \in JobRow
      BY <1>3, Fields, Zenon DEF Placement
    <2>2. CASE \E e \in db.ready : e.job = j
      <3>1. PICK e \in db.ready : e.job = j
        BY <2>2, Zenon
      <3>2. e.attempt \in Nat
        BY ZenonT(30) DEF Placement, TypeOK, ReadyEntry
      <3>3. LifeOf(j) = Life("ready", e.attempt, db.jobs[j].max_attempts)
        BY <1>1, <3>1, Zenon DEF Located
      <3> QED
        BY <2>1, <3>2, <3>3 DEF Life, JobRow
    <2>3. CASE \E t \in db.scheduled : t.job = j
      <3>1. PICK t \in db.scheduled : t.job = j
        BY <2>3, Zenon
      <3>2. t.attempt \in Nat
        BY ZenonT(30) DEF Placement, TypeOK, ScheduledEntry
      <3>3. LifeOf(j) = Life("scheduled", t.attempt, db.jobs[j].max_attempts)
        BY <1>1, <3>1, ZenonT(30) DEF Located
      <3> QED
        BY <2>1, <3>2, <3>3 DEF Life, JobRow
    <2> QED
      BY <1>3, <2>2, <2>3, Zenon DEF Placement, NoJobStranded
  <1>4. CASE \E e \in db.dead_letter : e.job = j
    <2>1. PICK e \in db.dead_letter : e.job = j
      BY <1>4, Zenon
    <2>2. e \in DeadLetterEntry
      BY ZenonT(30) DEF Placement, TypeOK
    <2>3. LifeOf(j) = Life("dead", e.attempt, e.max_attempts)
      BY <1>1, <2>1, ZenonT(30) DEF Located
    <2> QED
      BY <2>2, <2>3 DEF Life, DeadLetterEntry
  <1>5. CASE db.jobs[j] = None /\ \A e \in db.dead_letter : e.job # j
    BY <1>1, <1>5 DEF Located, Life
  <1> QED
    BY <1>2, <1>3, <1>4, <1>5, Zenon

\* A move other than a delivery and a revival keeps the leases outrun.
LEMMA QuietOutrun ==
  ASSUME NEW h \in Leases, NEW x, NEW y, NEW n, Outrun(h, x, n), Quiet(x, y),
         x.attempt \in Nat
  PROVE  Outrun(h, y, n)
PROOF
  <1>1. CASE x = y
    BY <1>1, Zenon
  <1>2. ~Lifecycle!Create(x, y)
    BY DEF Outrun, Lifecycle!Create, Lifecycle!Absent
  <1>3. CASE Lifecycle!Promote(x, y)
    BY <1>3, Zenon DEF Outrun, Ahead, Lifecycle!Promote, Lifecycle!At
  <1>4. CASE Lifecycle!Retry(x, y)
    <2>1. PICK s \in {"scheduled", "ready"} : y = Lifecycle!At(s, x.attempt + 1, x.limit)
      BY <1>4, Zenon DEF Lifecycle!Retry, Lifecycle!Waits
    <2>2. y.state = s /\ y.attempt = x.attempt + 1
      BY <2>1, Zenon DEF Lifecycle!At
    <2>3. h.attempt <= x.attempt
      BY <1>4, ZenonT(30) DEF Outrun, Lifecycle!Retry
    <2> QED
      BY <2>2, <2>3 DEF Outrun, Ahead, Leases
  <1>5. CASE Lifecycle!Bury(x, y) \/ Lifecycle!Finish(x, y)
    BY <1>5
    DEF Outrun, Ahead, Lifecycle!Bury, Lifecycle!Finish, Lifecycle!At, Lifecycle!Gone
  <1> QED
    BY <1>1, <1>2, <1>3, <1>4, <1>5, Zenon DEF Quiet

\* Nothing makes a job that existed absent again.
LEMMA QuietExists ==
  ASSUME NEW x, NEW y, x.state # "absent", Quiet(x, y)
  PROVE  y.state # "absent"
  BY DEF Quiet, Lifecycle!Create, Lifecycle!Promote, Lifecycle!Retry, Lifecycle!Bury,
         Lifecycle!Finish, Lifecycle!At, Lifecycle!Gone, Lifecycle!Absent, Lifecycle!Waits

LEMMA QuietFenced ==
  ASSUME Placement, FType, LeasesOutrun, Quietly, deliveries' = deliveries,
         requeues' = requeues, held' = held
  PROVE  LeasesOutrun'
PROOF
  <1> SUFFICES ASSUME NEW h \in held
               PROVE  /\ h.requeue <= requeues[h.job]
                      /\ h.requeue = requeues[h.job] =>
                            Outrun(h, LifeOf(h.job)', deliveries[h.job])
                      /\ h.requeue < requeues[h.job] => LifeOf(h.job)'.state # "absent"
    BY Zenon DEF LeasesOutrun, Outrun, Ahead
  <1>1. h \in Leases /\ h.job \in Job
    BY Zenon DEF FType, Leases
  <1>2. Quiet(LifeOf(h.job), LifeOf(h.job)') /\ LifeOf(h.job).attempt \in Nat
    BY <1>1, PlacementTypes, Zenon DEF Quietly, LivesTyped
  <1> QED
    BY <1>1, <1>2, QuietOutrun, QuietExists, ZenonT(30) DEF LeasesOutrun

LEMMA ReserveFenced == ASSUME Fenced, FReserve PROVE Fenced'
PROOF
  <1>1. PICK queues \in ReserveQueues, lease_ms \in LeaseMs, n \in 1..MaxReserve :
           Reserve(queues, lease_ms, n)
    BY Zenon DEF FReserve
  <1>2. Placement /\ Placement'
    BY <1>1, ReservePlacement, ZenonT(30) DEF Fenced
  <1>3. \A j \in Job :
            \/ LifeOf(j)' = LifeOf(j) /\ (db'.inflight[j] = None <=> db.inflight[j] = None)
            \/ Lifecycle!Deliver(LifeOf(j), LifeOf(j)')
    BY <1>1, <1>2, ReserveLife, ZenonT(30)
  <1>4. /\ deliveries' = [j \in Job |->
                             IF j \in HandedOut THEN deliveries[j] + 1 ELSE deliveries[j]]
        /\ held' = held \cup
              {Lease(j, db'.inflight[j].attempt, deliveries'[j], requeues[j]) : j \in HandedOut}
        /\ caller' = None /\ requeues' = requeues
    BY ZenonT(30) DEF FReserve
  <1>5. ASSUME NEW j \in HandedOut
        PROVE  /\ j \in Job /\ db'.inflight[j].attempt \in Nat
               /\ LifeOf(j)' = Life("inflight", db'.inflight[j].attempt,
                                    db'.inflight[j].max_attempts)
    <2>1. j \in Job /\ db'.inflight[j] # None
      BY ZenonT(30) DEF HandedOut
    <2>2. db'.inflight[j] \in InflightRow
      BY <1>2, <2>1, ZenonT(30) DEF Placement, TypeOK
    <2> QED
      BY <1>2, <2>1, <2>2, PlacementLocatesNext, ZenonT(30) DEF Located, InflightRow
  <1>6. FType'
    <2>1. deliveries' \in [Job -> Nat] /\ requeues' \in [Job -> Nat]
      BY <1>4 DEF Fenced, FType
    <2>2. \A j \in HandedOut :
             Lease(j, db'.inflight[j].attempt, deliveries'[j], requeues[j]) \in Leases
      BY <1>4, <1>5, <2>1, ZenonT(30) DEF Lease, Leases
    <2>3. held' \subseteq Leases
      BY <1>4, <2>2, Zenon DEF Fenced, FType
    <2> QED
      BY <1>4, <2>1, <2>3, Zenon DEF FType
  <1>7. ASSUME NEW h \in held
        PROVE  /\ h.requeue <= requeues[h.job]
               /\ h.requeue = requeues[h.job] =>
                     Outrun(h, LifeOf(h.job)', deliveries'[h.job])
               /\ h.requeue < requeues[h.job] => LifeOf(h.job)'.state # "absent"
    <2>1. h \in Leases /\ h.job \in Job
      BY ZenonT(30) DEF Fenced, FType, Leases
    <2>2. CASE LifeOf(h.job)' = LifeOf(h.job)
               /\ (db'.inflight[h.job] = None <=> db.inflight[h.job] = None)
      <3>1. deliveries'[h.job] = deliveries[h.job]
        BY <1>4, <2>1, <2>2, ZenonT(30) DEF HandedOut
      <3> QED
        BY <2>2, <3>1, ZenonT(30) DEF Fenced, LeasesOutrun
    <2>3. CASE Lifecycle!Deliver(LifeOf(h.job), LifeOf(h.job)')
      <3>1. /\ LifeOf(h.job).state = "ready" /\ LifeOf(h.job)'.state = "inflight"
            /\ LifeOf(h.job)'.attempt = LifeOf(h.job).attempt
        BY <2>3 DEF Lifecycle!Deliver, Lifecycle!At
      <3>2. LifeOf(h.job).attempt \in Nat
        BY <1>2, <2>1, PlacementTypes, ZenonT(30) DEF LivesTyped
      <3> QED
        BY <2>1, <3>1, <3>2 DEF Fenced, LeasesOutrun, Outrun, Ahead, Leases
    <2> QED
      BY <1>3, <2>1, <2>2, <2>3, ZenonT(30)
  <1>8. ASSUME NEW j \in HandedOut,
               NEW h, h = Lease(j, db'.inflight[j].attempt, deliveries'[j], requeues[j])
        PROVE  /\ h.requeue <= requeues[h.job]
               /\ h.requeue = requeues[h.job] =>
                     Outrun(h, LifeOf(h.job)', deliveries'[h.job])
               /\ h.requeue < requeues[h.job] => LifeOf(h.job)'.state # "absent"
    <2>1. requeues[j] \in Nat
      BY <1>5, ZenonT(30) DEF Fenced, FType
    <2>2. /\ h.job = j /\ h.attempt = db'.inflight[j].attempt
          /\ h.delivery = deliveries'[j] /\ h.requeue = requeues[j]
      BY <1>8, Zenon DEF Lease
    <2> QED
      BY <1>5, <2>1, <2>2 DEF Outrun, Ahead, Life
  <1>9. LeasesOutrun'
    BY <1>4, <1>7, <1>8, ZenonT(30) DEF LeasesOutrun, Outrun, Ahead
  <1>10. FencedBetweenRequeues'
    BY <1>4, Zenon DEF FencedBetweenRequeues
  <1> QED
    BY <1>2, <1>6, <1>9, <1>10, ZenonT(30) DEF Fenced

LEMMA CallFenced == ASSUME Fenced, FCall PROVE Fenced'
PROOF
  <1>1. PICK h \in held :
           /\ \/ Ack(h.job, h.attempt)
              \/ \E reject \in BOOLEAN : NackDead(h.job, h.attempt, reject)
              \/ \E delay_ms \in RetryDelayMs : NackRetry(h.job, h.attempt, delay_ms)
              \/ \E lease_ms \in LeaseMs : Extend(h.job, h.attempt, lease_ms)
           /\ caller' = h
           /\ UNCHANGED <<deliveries, requeues, held>>
    BY Zenon DEF FCall
  <1>2. h \in Leases /\ h.job \in Job
    BY Zenon DEF Fenced, FType, Leases
  <1>3. Placement' /\ Quietly
    BY <1>1, <1>2, AckPlacement, NackDeadPlacement, NackRetryPlacement, ExtendPlacement,
       AckLife, NackDeadLife, NackRetryLife, ExtendLife, ZenonT(30) DEF Fenced
  <1>4. Holds(h.job, h.attempt)
    BY <1>1, ZenonT(30) DEF Ack, NackDead, NackRetry, Extend
  <1>5. FType'
    BY <1>1, <1>2, Zenon DEF Fenced, FType
  <1>6. LeasesOutrun'
    BY <1>1, <1>3, QuietFenced, ZenonT(30) DEF Fenced
  <1>7. FencedBetweenRequeues'
    <2>1. LifeOf(h.job) = Life("inflight", h.attempt, db.inflight[h.job].max_attempts)
      BY <1>2, <1>4, PlacementLocates, ZenonT(30) DEF Fenced, Located, Holds
    <2>2. h.requeue = requeues[h.job] => h.delivery = deliveries[h.job]
      BY <2>1 DEF Fenced, LeasesOutrun, Outrun, Life
    <2> QED
      BY <1>1, <2>2, Zenon DEF FencedBetweenRequeues
  <1> QED
    BY <1>3, <1>5, <1>6, <1>7, Zenon DEF Fenced

LEMMA RequeueFenced == ASSUME Fenced, FRequeue PROVE Fenced'
PROOF
  <1>1. PICK q \in Queue : \E e \in Owned(db.dead_letter, q) :
           RequeueDeadLetters(q, {e}) /\ requeues' = [requeues EXCEPT ![e.job] = @ + 1]
    BY Zenon DEF FRequeue
  <1>2. PICK e \in Owned(db.dead_letter, q) :
           RequeueDeadLetters(q, {e}) /\ requeues' = [requeues EXCEPT ![e.job] = @ + 1]
    BY <1>1, Zenon
  <1>3. caller' = None /\ deliveries' = deliveries /\ held' = held
    BY Zenon DEF FRequeue
  <1>4. Placement'
    BY <1>2, RequeuePlacement, Zenon DEF Fenced
  <1>5. e \in db.dead_letter /\ e.job \in Job
    BY Fields, Zenon DEF Owned, Fenced, Placement
  <1>6. FType'
    BY <1>2, <1>3, <1>5 DEF Fenced, FType
  <1>7. \A j \in Job : \/ LifeOf(j)' = LifeOf(j)
                       \/ j = e.job /\ Lifecycle!Revive(LifeOf(j), LifeOf(j)')
    BY <1>2, RequeueLife DEF Fenced
  <1>8. LifeOf(e.job)'.state # "absent"
    <2>1. LifeOf(e.job) = Life("dead", e.attempt, e.max_attempts)
      BY <1>5, PlacementLocates, Zenon DEF Fenced, Located
    <2>2. LifeOf(e.job).state = "dead"
      BY <2>1 DEF Life
    <2> QED
      BY <1>5, <1>7, <2>2 DEF Lifecycle!Revive, Lifecycle!At
  <1>9. ASSUME NEW h \in held
        PROVE  /\ h.requeue <= requeues'[h.job]
               /\ h.requeue = requeues'[h.job] =>
                     Outrun(h, LifeOf(h.job)', deliveries[h.job])
               /\ h.requeue < requeues'[h.job] => LifeOf(h.job)'.state # "absent"
    <2>1. h \in Leases /\ h.job \in Job /\ requeues \in [Job -> Nat]
      BY Zenon DEF Fenced, FType, Leases
    <2>2. CASE h.job = e.job
      <3>1. h.requeue <= requeues[h.job] /\ requeues'[h.job] = requeues[h.job] + 1
        BY <1>2, <2>1, <2>2, ZenonT(30) DEF Fenced, LeasesOutrun
      <3> QED
        BY <1>8, <2>1, <2>2, <3>1 DEF Leases
    <2>3. CASE h.job # e.job
      <3>1. LifeOf(h.job)' = LifeOf(h.job) /\ requeues'[h.job] = requeues[h.job]
        BY <1>2, <1>7, <2>1, <2>3, Zenon
      <3> QED
        BY <3>1, Zenon DEF Fenced, LeasesOutrun
    <2> QED
      BY <2>2, <2>3, ZenonT(30)
  <1>10. LeasesOutrun'
    BY <1>3, <1>9, ZenonT(30) DEF LeasesOutrun, Outrun, Ahead
  <1>11. FencedBetweenRequeues'
    BY <1>3, Zenon DEF FencedBetweenRequeues
  <1> QED
    BY <1>4, <1>6, <1>10, <1>11, Zenon DEF Fenced

LEMMA OtherFenced == ASSUME Fenced, FOther PROVE Fenced'
PROOF
  <1>1. Placement' /\ Quietly
    BY NextPlacement, OthersLife, Zenon DEF Fenced, FOther, Next
  <1>2. /\ caller' = None /\ deliveries' = deliveries /\ requeues' = requeues
        /\ held' = held
    BY Zenon DEF FOther
  <1>3. FType' /\ FencedBetweenRequeues'
    BY <1>2, Zenon DEF Fenced, FType, FencedBetweenRequeues
  <1>4. LeasesOutrun'
    BY <1>1, <1>2, QuietFenced, Zenon DEF Fenced
  <1> QED
    BY <1>1, <1>3, <1>4, Zenon DEF Fenced

LEMMA IdleFenced == ASSUME Fenced, UNCHANGED fvars PROVE Fenced'
PROOF
  <1>1. Placement' /\ Quietly
    BY IdlePlacement, IdleLife, Zenon DEF Fenced, fvars
  <1>2. LeasesOutrun'
    BY <1>1, QuietFenced, Zenon DEF Fenced, fvars
  <1> QED
    BY <1>1, <1>2, Zenon DEF Fenced, FType, FencedBetweenRequeues, fvars

\* Between two requeues of a job a worker whose lease was superseded can never
\* ack, nack or extend it, however late or often it calls: the attempt number
\* alone fences it off (apply_ack, apply_nack, apply_extend).
THEOREM StaleLeasesFenced == FSpec => []FencedBetweenRequeues
PROOF
  <1>1. FInit => Fenced
    <2> SUFFICES ASSUME FInit PROVE Fenced
      OBVIOUS
    <2>1. Placement
      BY PlacementInit, Zenon DEF FInit
    <2>2. FType /\ LeasesOutrun /\ FencedBetweenRequeues
      BY Zenon DEF FInit, FType, LeasesOutrun, FencedBetweenRequeues
    <2> QED
      BY <2>1, <2>2, Zenon DEF Fenced
  <1>2. Fenced /\ [FNext]_fvars => Fenced'
    BY ReserveFenced, CallFenced, RequeueFenced, OtherFenced, IdleFenced, Zenon DEF FNext
  <1>3. Fenced => FencedBetweenRequeues
    BY Zenon DEF Fenced
  <1> QED
    BY <1>1, <1>2, <1>3, PTL DEF FSpec
=============================================================================
