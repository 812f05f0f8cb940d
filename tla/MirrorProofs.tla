---------------------------- MODULE MirrorProofs ----------------------------
(***************************************************************************)
(* The timers and the indexes of the store are exact, jobs keep their      *)
(* requests and dedup windows their ends, for every set of jobs, queues    *)
(* and keys, every bound and every behaviour of the clock.                 *)
(***************************************************************************)
EXTENDS JobStoreProofs

USE DEF ScheduledEntry, DedupTimer, OwnedTimer, TimerKeys

\* The entry of the lease index for a job in flight.
LeaseEntry(j) == TimerEntry(db.inflight[j].lease_expires_at, j, db.inflight[j].queue)

LeasesMirror ==
    /\ db.leases = {LeaseTimer(j) : j \in InFlight}
    /\ ix.leases = {LeaseEntry(j) : j \in InFlight}

DedupTimerOf(k) == [deadline |-> db.dedup[k].deadline, queue |-> k[1], key |-> k[2]]

\* The rows of the dedup keyspace.
Deduped == {k \in Queue \X Key : db.dedup[k] # None}

DedupMirror ==
    /\ db.dedup_timers = {DedupTimerOf(k) : k \in Deduped}
    /\ ix.dedup_timers = db.dedup_timers

LettersMirror == ix.dead_letter = KeysOf(db.dead_letter)

\* Together with PlacesIndexed: the scheduled index has no other timers.
ScheduledMirror ==
    \A u \in db.scheduled : \E t \in ix.scheduled : TimerKey(t) = TimerKey(u)

ClosingMirror == ix.closing = db.closing

\* The inductive invariant.
Mirror ==
    /\ Placement /\ RequestKept
    /\ LeasesMirror /\ DedupMirror /\ LettersMirror /\ ScheduledMirror /\ ClosingMirror

-----------------------------------------------------------------------------
(* Leases. *)

LEMMA LeaseSets ==
  ASSUME Placement, LeasesMirror
  PROVE  /\ InFlight \subseteq Job
         /\ \A j \in InFlight : /\ LeaseTimer(j).job = j /\ LeaseEntry(j).job = j
                                /\ TimerKey(LeaseEntry(j)) = LeaseTimer(j)
                                /\ LeaseEntry(j).queue = db.inflight[j].queue
         /\ \A i, j \in InFlight : TimerKey(LeaseEntry(i)) = LeaseTimer(j) => i = j
  BY Zenon DEF InFlight, LeaseTimer, LeaseEntry, TimerEntry, TimerKey

\* The jobs G leave flight, with their timers.
LEMMA DropLeases ==
  ASSUME Placement, LeasesMirror, NEW G \in SUBSET InFlight,
         db'.inflight = Drop(db.inflight, G),
         db'.leases = Without(db.leases, {LeaseTimer(j) : j \in G}),
         ix'.leases = Without(ix.leases, {LeaseTimer(j) : j \in G})
  PROVE  LeasesMirror'
PROOF
  <1>1. /\ InFlight' = InFlight \ G
        /\ \A j \in InFlight' : db'.inflight[j] = db.inflight[j]
    BY Fields DEF Placement, InFlight, Drop
  <1>2. \A j \in InFlight' : LeaseTimer(j)' = LeaseTimer(j) /\ LeaseEntry(j)' = LeaseEntry(j)
    BY <1>1, Zenon DEF LeaseTimer, LeaseEntry
  <1>3. \A j \in InFlight : TimerKey(LeaseTimer(j)) = LeaseTimer(j)
    BY Zenon DEF LeaseTimer, TimerKey
  <1>4. db'.leases = {LeaseTimer(j) : j \in InFlight \ G}
    BY <1>3, LeaseSets DEF LeasesMirror, Without
  <1>5. ix'.leases = {LeaseEntry(j) : j \in InFlight \ G}
    BY LeaseSets DEF LeasesMirror, Without
  <1> QED
    BY <1>1, <1>2, <1>4, <1>5, ZenonT(30) DEF LeasesMirror

\* The jobs J, and no others, get the lease that ends at `expires'; J may be in
\* flight already, and then their old timers go.
LEMMA NewLeases ==
  ASSUME Placement, LeasesMirror, NEW J \in SUBSET Job, NEW expires,
         InFlight' = InFlight \cup J,
         \A j \in InFlight \ J : db'.inflight[j] = db.inflight[j],
         \A j \in J : db'.inflight[j].lease_expires_at = expires,
         db'.leases = Without(db.leases, {LeaseTimer(j) : j \in J \cap InFlight})
                         \cup {[deadline |-> expires, job |-> j] : j \in J},
         ix'.leases = Without(ix.leases, {LeaseTimer(j) : j \in J \cap InFlight})
                         \cup {TimerEntry(expires, j, db'.inflight[j].queue) : j \in J}
  PROVE  LeasesMirror'
PROOF
  <1>1. /\ \A j \in InFlight \ J : LeaseTimer(j)' = LeaseTimer(j)
                                    /\ LeaseEntry(j)' = LeaseEntry(j)
        /\ \A j \in J : /\ LeaseTimer(j)' = [deadline |-> expires, job |-> j]
                        /\ LeaseEntry(j)' = TimerEntry(expires, j, db'.inflight[j].queue)
    BY Zenon DEF LeaseTimer, LeaseEntry
  <1>2. \A j \in InFlight : TimerKey(LeaseTimer(j)) = LeaseTimer(j)
    BY Zenon DEF LeaseTimer, TimerKey
  <1>3. Without(db.leases, {LeaseTimer(j) : j \in J \cap InFlight})
           = {LeaseTimer(j) : j \in InFlight \ J}
    BY <1>2, LeaseSets DEF LeasesMirror, Without
  <1>4. Without(ix.leases, {LeaseTimer(j) : j \in J \cap InFlight})
           = {LeaseEntry(j) : j \in InFlight \ J}
    BY LeaseSets DEF LeasesMirror, Without
  <1>5. db'.leases = {LeaseTimer(j)' : j \in InFlight'}
    BY <1>1, <1>3
  <1>6. ix'.leases = {LeaseEntry(j)' : j \in InFlight'}
    BY <1>1, <1>4
  <1> QED
    BY <1>5, <1>6, Zenon DEF LeasesMirror

-----------------------------------------------------------------------------
(* Dedup rows. *)

LEMMA DedupSets ==
  ASSUME Placement, DedupMirror
  PROVE  /\ db.dedup \in [Queue \X Key -> DedupRow \cup {None}]
         /\ \A k \in Queue \X Key : /\ k = <<k[1], k[2]>>
                                    /\ DedupTimerOf(k).queue = k[1]
                                    /\ DedupTimerOf(k).key = k[2]
         /\ \A k, l \in Deduped : DedupTimerOf(k) = DedupTimerOf(l) => k = l
  BY DEF Placement, TypeOK, Deduped, DedupTimerOf

\* The rows of the timers T go, with their timers.
LEMMA DropDedup ==
  ASSUME Placement, DedupMirror, NEW T \in SUBSET ix.dedup_timers,
         db'.dedup = Drop(db.dedup, {<<t.queue, t.key>> : t \in T}),
         db'.dedup_timers = db.dedup_timers \ T, ix'.dedup_timers = ix.dedup_timers \ T
  PROVE  DedupMirror'
PROOF
  <1> DEFINE gone == {<<t.queue, t.key>> : t \in T}
  <1>1. \A k \in Deduped : k \in gone <=> DedupTimerOf(k) \in T
    BY DedupSets DEF DedupMirror, Deduped
  <1>2. /\ Deduped' = Deduped \ gone
        /\ \A k \in Deduped' : db'.dedup[k] = db.dedup[k]
    BY DedupSets DEF Deduped, Drop
  <1> HIDE DEF gone
  <1>3. \A k \in Deduped' : DedupTimerOf(k)' = DedupTimerOf(k)
    BY <1>2, Zenon DEF DedupTimerOf
  <1>4. db'.dedup_timers = {DedupTimerOf(k) : k \in Deduped \ gone}
    BY <1>1 DEF DedupMirror
  <1> QED
    BY <1>2, <1>3, <1>4 DEF DedupMirror

-----------------------------------------------------------------------------
(* Dead letters. *)

LEMMA KeysOfUnion ==
  ASSUME NEW X, NEW Y
  PROVE  KeysOf(X \cup Y) = KeysOf(X) \cup KeysOf(Y)
  BY Zenon DEF KeysOf

LEMMA KeysOfRest ==
  ASSUME NEW X, NEW D
  PROVE  KeysOf({e \in X : DeadLetterKey(e) \notin D}) = KeysOf(X) \ D
  BY Zenon DEF KeysOf

-----------------------------------------------------------------------------
(* Requests. *)

\* The record r embeds a job of the store and its payload.
Embeds(r) ==
    /\ r.job \in Job /\ db.jobs[r.job] # None
    /\ r.queue = db.jobs[r.job].queue /\ r.priority = db.jobs[r.job].priority
    /\ r.max_attempts = db.jobs[r.job].max_attempts
    /\ r.payload = db.payloads[r.job]

LEMMA DeadLetteredEmbeds ==
  ASSUME NEW j \in Job, NEW attempt, NEW cause
  PROVE  \A r \in DeadLettered(j, attempt, cause) : Embeds(r)
  BY DEF DeadLettered, Embeds

\* Jobs lose their rows, and dead letters come from them or go.
LEMMA DropRequests ==
  ASSUME Placement, RequestKept, NEW G, NEW records, \A r \in records : Embeds(r),
         db'.jobs = Drop(db.jobs, G), db'.payloads = Drop(db.payloads, G),
         db'.dead_letter \subseteq db.dead_letter \cup records, minted' = minted
  PROVE  RequestKept'
PROOF
  <1>1. \A j \in Job : db'.jobs[j] # None =>
           db'.jobs[j] = db.jobs[j] /\ db'.payloads[j] = db.payloads[j]
    BY Fields, Zenon DEF Placement, Drop
  <1>2. \A j \in Job : db'.jobs[j] # None =>
           /\ minted'[j] # None
           /\ db'.jobs[j].queue = minted'[j].queue
           /\ db'.jobs[j].priority = minted'[j].priority
           /\ db'.jobs[j].max_attempts = minted'[j].max_attempts
           /\ db'.payloads[j] = minted'[j].payload
    BY <1>1 DEF RequestKept
  <1>3. \A e \in db'.dead_letter :
           /\ minted'[e.job] # None
           /\ e.queue = minted'[e.job].queue
           /\ e.priority = minted'[e.job].priority
           /\ e.max_attempts = minted'[e.job].max_attempts
           /\ e.payload = minted'[e.job].payload
    BY DEF RequestKept, Embeds
  <1> QED
    BY <1>2, <1>3, Zenon DEF RequestKept

\* The jobs keep their rows, and dead letters may go.
LEMMA SameRequests ==
  ASSUME RequestKept, db'.jobs = db.jobs, db'.payloads = db.payloads,
         db'.dead_letter \subseteq db.dead_letter, minted' = minted
  PROVE  RequestKept'
  BY DEF RequestKept

-----------------------------------------------------------------------------
(* What a step leaves alone stays exact. *)

LEMMA SameLeases ==
  ASSUME LeasesMirror, db'.inflight = db.inflight, db'.leases = db.leases,
         ix'.leases = ix.leases
  PROVE  LeasesMirror'
  BY DEF LeasesMirror, InFlight, LeaseTimer, LeaseEntry

LEMMA SameDedup ==
  ASSUME DedupMirror, db'.dedup = db.dedup, db'.dedup_timers = db.dedup_timers,
         ix'.dedup_timers = ix.dedup_timers
  PROVE  DedupMirror'
  BY DEF DedupMirror, Deduped, DedupTimerOf

LEMMA SameLetters ==
  ASSUME LettersMirror, db'.dead_letter = db.dead_letter, ix'.dead_letter = ix.dead_letter
  PROVE  LettersMirror'
  BY Zenon DEF LettersMirror

LEMMA SameScheduled ==
  ASSUME ScheduledMirror, db'.scheduled = db.scheduled, ix'.scheduled = ix.scheduled
  PROVE  ScheduledMirror'
  BY Zenon DEF ScheduledMirror

\* A lease row is its own key.
LEMMA LeaseRows ==
  ASSUME Placement, LeasesMirror
  PROVE  \A t \in db.leases : TimerKey(t) = t
  BY DEF LeasesMirror, LeaseTimer, TimerKey

LEMMA OneLeaseGoes ==
  ASSUME Placement, LeasesMirror, NEW j \in InFlight,
         db'.inflight = Drop(db.inflight, {j}), db'.leases = db.leases \ {LeaseTimer(j)},
         ix'.leases = Without(ix.leases, {LeaseTimer(j)})
  PROVE  LeasesMirror'
PROOF
  <1>1. {LeaseTimer(i) : i \in {j}} = {LeaseTimer(j)}
    OBVIOUS
  <1>2. db'.leases = Without(db.leases, {LeaseTimer(j)})
    BY LeaseRows, Zenon DEF Without
  <1> QED
    BY <1>1, <1>2, DropLeases

-----------------------------------------------------------------------------
(* The operations of workers. *)

LEMMA AckMirror ==
  ASSUME Mirror, NEW j \in Job, NEW attempt, Ack(j, attempt)
  PROVE  Mirror'
PROOF
  <1>1. Placement'
    BY AckPlacement, Zenon DEF Mirror
  <1>2. /\ db'.jobs = Drop(db.jobs, {j}) /\ db'.payloads = Drop(db.payloads, {j})
        /\ db'.inflight = Drop(db.inflight, {j}) /\ db'.leases = db.leases \ {LeaseTimer(j)}
        /\ db'.scheduled = db.scheduled /\ db'.dead_letter = db.dead_letter
        /\ db'.dedup = db.dedup /\ db'.dedup_timers = db.dedup_timers
        /\ db'.closing = db.closing
        /\ ix'.leases = Without(ix.leases, {LeaseTimer(j)})
        /\ ix'.scheduled = ix.scheduled /\ ix'.dead_letter = ix.dead_letter
        /\ ix'.dedup_timers = ix.dedup_timers /\ ix'.closing = ix.closing
        /\ minted' = minted /\ j \in InFlight
    BY DEF Mirror, Placement, TypeOK, Ack, RemoveRows, Holds, InFlight
  <1>3. LeasesMirror'
    BY <1>2, OneLeaseGoes, Zenon DEF Mirror
  <1>4. RequestKept'
    <2> DEFINE record == {}
    <2>1. (\A r \in record : Embeds(r)) /\ db'.dead_letter \subseteq db.dead_letter \cup record
      BY <1>2, Zenon
    <2> HIDE DEF record
    <2> QED
      BY <1>2, <2>1, DropRequests, Zenon DEF Mirror
  <1> QED
    BY <1>1, <1>2, <1>3, <1>4, SameDedup, SameLetters, SameScheduled, Zenon
    DEF Mirror, ClosingMirror

LEMMA NackDeadMirror ==
  ASSUME Mirror, NEW j \in Job, NEW attempt, NEW reject, NackDead(j, attempt, reject)
  PROVE  Mirror'
PROOF
  <1> DEFINE record ==
         DeadLettered(j, attempt, IF reject THEN "rejected" ELSE "attempts_exhausted")
  <1>1. Placement'
    BY NackDeadPlacement, Zenon DEF Mirror
  <1>2. /\ db'.jobs = Drop(db.jobs, {j}) /\ db'.payloads = Drop(db.payloads, {j})
        /\ db'.inflight = Drop(db.inflight, {j}) /\ db'.leases = db.leases \ {LeaseTimer(j)}
        /\ db'.scheduled = db.scheduled /\ db'.dead_letter = db.dead_letter \cup record
        /\ db'.dedup = db.dedup /\ db'.dedup_timers = db.dedup_timers
        /\ db'.closing = db.closing
        /\ ix'.leases = Without(ix.leases, {LeaseTimer(j)})
        /\ ix'.scheduled = ix.scheduled
        /\ ix'.dead_letter = ix.dead_letter \cup KeysOf(record)
        /\ ix'.dedup_timers = ix.dedup_timers /\ ix'.closing = ix.closing
        /\ minted' = minted /\ j \in InFlight
    BY DEF Mirror, Placement, TypeOK, NackDead, RemoveRows, Holds, InFlight
  <1>3. LeasesMirror'
    BY <1>2, OneLeaseGoes, Zenon DEF Mirror
  <1>4. \A r \in record : Embeds(r)
    BY DeadLetteredEmbeds, Zenon
  <1> HIDE DEF record
  <1>5. RequestKept'
    BY <1>2, <1>4, DropRequests, Zenon DEF Mirror
  <1>6. LettersMirror'
    BY <1>2, KeysOfUnion DEF Mirror, LettersMirror
  <1> QED
    BY <1>1, <1>2, <1>3, <1>5, <1>6, SameDedup, SameScheduled, Zenon DEF Mirror, ClosingMirror

LEMMA NackRetryMirror ==
  ASSUME Mirror, NEW j \in Job, NEW attempt, NEW delay_ms \in RetryDelayMs,
         NackRetry(j, attempt, delay_ms)
  PROVE  Mirror'
PROOF
  <1> DEFINE row == db.inflight[j]
             delayed == IF delay_ms > 0 THEN {now + delay_ms} ELSE {}
             timer(t) == [deadline |-> t, job |-> j, attempt |-> NextAttempt(row)]
             timers == {timer(t) : t \in delayed}
             owned == {TimerEntry(t, j, row.queue) : t \in delayed}
  <1>1. Placement'
    BY NackRetryPlacement, Zenon DEF Mirror
  <1>2. /\ db'.jobs = db.jobs /\ db'.payloads = db.payloads
        /\ db'.inflight = Drop(db.inflight, {j}) /\ db'.leases = db.leases \ {LeaseTimer(j)}
        /\ db'.scheduled = db.scheduled \cup timers /\ db'.dead_letter = db.dead_letter
        /\ db'.dedup = db.dedup /\ db'.dedup_timers = db.dedup_timers
        /\ db'.closing = db.closing
        /\ ix'.leases = Without(ix.leases, {LeaseTimer(j)})
        /\ ix'.scheduled = ix.scheduled \cup owned /\ ix'.dead_letter = ix.dead_letter
        /\ ix'.dedup_timers = ix.dedup_timers /\ ix'.closing = ix.closing
        /\ minted' = minted /\ j \in InFlight
    BY DEF Mirror, Placement, TypeOK, NackRetry, Holds, InFlight
  <1>3. LeasesMirror'
    BY <1>2, OneLeaseGoes, Zenon DEF Mirror
  <1>4. RequestKept'
    BY <1>2, SameRequests, Zenon DEF Mirror
  <1>5. \A t \in delayed : TimerKey(TimerEntry(t, j, row.queue)) = TimerKey(timer(t))
    BY Zenon DEF TimerKey, TimerEntry
  <1> HIDE DEF row, delayed, timer
  <1>6. ScheduledMirror'
    BY <1>2, <1>5 DEF Mirror, ScheduledMirror
  <1> QED
    BY <1>1, <1>2, <1>3, <1>4, <1>6, SameDedup, SameLetters, Zenon DEF Mirror, ClosingMirror

LEMMA ExtendMirror ==
  ASSUME Mirror, NEW j \in Job, NEW attempt, NEW lease_ms \in LeaseMs,
         Extend(j, attempt, lease_ms)
  PROVE  Mirror'
PROOF
  <1> DEFINE expires == now + (IF lease_ms = 0 THEN 1 ELSE lease_ms)
  <1>1. Placement'
    BY ExtendPlacement, Zenon DEF Mirror
  <1>2. /\ db'.jobs = db.jobs /\ db'.payloads = db.payloads
        /\ db'.inflight = [db.inflight EXCEPT ![j].lease_expires_at = expires]
        /\ db'.leases = (db.leases \ {LeaseTimer(j)})
                           \cup {[deadline |-> expires, job |-> j]}
        /\ db'.scheduled = db.scheduled /\ db'.dead_letter = db.dead_letter
        /\ db'.dedup = db.dedup /\ db'.dedup_timers = db.dedup_timers
        /\ db'.closing = db.closing
        /\ ix'.leases = Without(ix.leases, {LeaseTimer(j)})
                           \cup {TimerEntry(expires, j, db.inflight[j].queue)}
        /\ ix'.scheduled = ix.scheduled /\ ix'.dead_letter = ix.dead_letter
        /\ ix'.dedup_timers = ix.dedup_timers /\ ix'.closing = ix.closing
        /\ minted' = minted /\ db.inflight[j] # None
    BY DEF Mirror, Placement, TypeOK, Extend, Holds
  <1>3. /\ db'.inflight[j].lease_expires_at = expires
        /\ db'.inflight[j].queue = db.inflight[j].queue
        /\ \A i \in Job \ {j} : db'.inflight[i] = db.inflight[i]
    <2>1. db.inflight[j] \in InflightRow
      BY <1>2, Fields DEF Mirror, Placement
    <2>2. /\ db'.inflight[j] = [db.inflight[j] EXCEPT !.lease_expires_at = expires]
          /\ \A i \in Job \ {j} : db'.inflight[i] = db.inflight[i]
      BY <1>2, Fields DEF Mirror, Placement
    <2> HIDE DEF expires
    <2> QED
      BY <2>1, <2>2, Zenon DEF InflightRow
  <1>4. db'.inflight[j] # None
    <2>1. db'.jobs[j] = db.jobs[j] /\ db.jobs[j] # None
      BY <1>2, Zenon DEF Mirror, Placement, NoJobDuplicated
    <2>2. /\ \A e \in db.ready : e.job # j
          /\ \A t \in db.scheduled : t.job # j
      BY <1>2 DEF Mirror, Placement, NoJobDuplicated
    <2>3. db'.ready = db.ready
      BY DEF Mirror, Placement, TypeOK, Extend
    <2> QED
      BY <1>1, <1>2, <2>1, <2>2, <2>3 DEF Placement, NoJobStranded
  <1> HIDE DEF expires
  <1>5. InFlight' = InFlight \cup {j} /\ {j} \cap InFlight = {j}
    BY <1>2, <1>3, <1>4 DEF InFlight
  <1>6. LeasesMirror'
    <2>1. db'.leases = Without(db.leases, {LeaseTimer(i) : i \in {j} \cap InFlight})
                          \cup {[deadline |-> expires, job |-> i] : i \in {j}}
      BY <1>2, <1>5, LeaseRows DEF Mirror, Without
    <2>2. ix'.leases = Without(ix.leases, {LeaseTimer(i) : i \in {j} \cap InFlight})
                          \cup {TimerEntry(expires, i, db'.inflight[i].queue) : i \in {j}}
      <3>1. {LeaseTimer(i) : i \in {j} \cap InFlight} = {LeaseTimer(j)}
        BY <1>5, Zenon
      <3>2. {TimerEntry(expires, i, db'.inflight[i].queue) : i \in {j}}
               = {TimerEntry(expires, j, db.inflight[j].queue)}
        BY <1>3, Zenon
      <3> QED
        BY <1>2, <3>1, <3>2, Zenon
    <2>3. /\ \A i \in InFlight \ {j} : db'.inflight[i] = db.inflight[i]
          /\ \A i \in {j} : db'.inflight[i].lease_expires_at = expires
          /\ {j} \in SUBSET Job
      BY <1>3, Zenon DEF InFlight
    <2> QED
      BY <1>5, <2>1, <2>2, <2>3, NewLeases, Zenon DEF Mirror
  <1>7. RequestKept'
    BY <1>2, SameRequests, Zenon DEF Mirror
  <1> QED
    BY <1>1, <1>2, <1>6, <1>7, SameDedup, SameLetters, SameScheduled, Zenon
    DEF Mirror, ClosingMirror

LEMMA LeaseMirror ==
  ASSUME Mirror, NEW P \in SUBSET ix.ready, NEW expires \in Int, LeaseJobs(P, expires)
  PROVE  Mirror'
PROOF
  <1> DEFINE J == {e.job : e \in P}
             attempt(j) == (CHOOSE e \in P : e.job = j).attempt
             lease(j) == [attempt |-> attempt(j), lease_expires_at |-> expires,
                          enqueued_at |-> db.jobs[j].enqueued_at,
                          priority |-> db.jobs[j].priority,
                          max_attempts |-> db.jobs[j].max_attempts,
                          queue |-> db.jobs[j].queue]
             inflight == [j \in Job |-> IF j \in J THEN lease(j) ELSE db.inflight[j]]
  <1>1. Placement'
    BY LeasePlacement, Zenon DEF Mirror
  <1>2. Leased(P) = P /\ P \subseteq db.ready
    BY Zenon DEF Mirror, Placement, NoJobDuplicated, PlacesIndexed, Leased
  <1>3. /\ db'.jobs = db.jobs /\ db'.payloads = db.payloads
        /\ db'.inflight = inflight
        /\ db'.leases = db.leases \cup {[deadline |-> expires, job |-> j] : j \in J}
        /\ db'.scheduled = db.scheduled /\ db'.dead_letter = db.dead_letter
        /\ db'.dedup = db.dedup /\ db'.dedup_timers = db.dedup_timers
        /\ db'.closing = db.closing
        /\ ix'.leases = ix.leases \cup {TimerEntry(expires, j, db.jobs[j].queue) : j \in J}
        /\ ix'.scheduled = ix.scheduled /\ ix'.dead_letter = ix.dead_letter
        /\ ix'.dedup_timers = ix.dedup_timers /\ ix'.closing = ix.closing
        /\ db'.ready = db.ready \ P /\ minted' = minted
    BY <1>2 DEF Mirror, Placement, TypeOK, LeaseJobs
  <1>4. J \in SUBSET Job /\ J \cap InFlight = {}
    BY <1>2, Fields DEF Mirror, Placement, NoJobDuplicated, InFlight
  <1>5. \A j \in J : db'.inflight[j] = lease(j)
    BY <1>3, <1>4, Zenon
  <1>6. \A j \in J : /\ db'.inflight[j].lease_expires_at = expires
                     /\ db'.inflight[j].queue = db.jobs[j].queue
    <2>1. \A j : lease(j).lease_expires_at = expires /\ lease(j).queue = db.jobs[j].queue
      <3> HIDE DEF attempt
      <3> QED
        BY ZenonT(30)
    <2> HIDE DEF J, lease, inflight
    <2> QED
      BY <1>5, <2>1, Zenon
  <1>7. \A j \in Job \ J : db'.inflight[j] = db.inflight[j]
    BY <1>3, ZenonT(30)
  <1>8. \A j \in J : db'.inflight[j] # None
    <2>1. \A j \in J : /\ db.jobs[j] # None /\ j \in Job
                       /\ \A e \in db.ready \ P : e.job # j
                       /\ \A t \in db.scheduled : t.job # j
      BY <1>2, Fields DEF Mirror, Placement, NoJobDuplicated
    <2> HIDE DEF J, inflight
    <2> QED
      BY <1>1, <1>3, <2>1, ZenonT(30) DEF Placement, NoJobStranded
  <1> HIDE DEF J, inflight
  <1>9. InFlight' = InFlight \cup J
    BY <1>4, <1>7, <1>8, Zenon DEF InFlight
  <1>10. LeasesMirror'
    <2>1. {LeaseTimer(j) : j \in J \cap InFlight} = {}
      BY <1>4, Zenon
    <2>2. {TimerEntry(expires, j, db'.inflight[j].queue) : j \in J}
             = {TimerEntry(expires, j, db.jobs[j].queue) : j \in J}
      BY <1>6, Zenon
    <2>3. /\ Without(db.leases, {}) = db.leases /\ Without(ix.leases, {}) = ix.leases
          /\ \A j \in InFlight \ J : db'.inflight[j] = db.inflight[j]
      BY <1>7, Zenon DEF Without, InFlight
    <2>4. db'.leases = Without(db.leases, {LeaseTimer(j) : j \in J \cap InFlight})
                          \cup {[deadline |-> expires, job |-> j] : j \in J}
      BY <1>3, <2>1, <2>3, Zenon
    <2>5. ix'.leases = Without(ix.leases, {LeaseTimer(j) : j \in J \cap InFlight})
                          \cup {TimerEntry(expires, j, db'.inflight[j].queue) : j \in J}
      BY <1>3, <2>1, <2>2, <2>3, Zenon
    <2> HIDE DEF lease
    <2> QED
      BY <1>4, <1>6, <1>9, <2>3, <2>4, <2>5, NewLeases, ZenonT(30) DEF Mirror
  <1>11. RequestKept'
    BY <1>3, SameRequests, Zenon DEF Mirror
  <1> QED
    BY <1>1, <1>3, <1>10, <1>11, SameDedup, SameLetters, SameScheduled, Zenon
    DEF Mirror, ClosingMirror

LEMMA ReserveMirror ==
  ASSUME Mirror, NEW queues, NEW lease_ms \in LeaseMs, NEW max_jobs,
         Reserve(queues, lease_ms, max_jobs)
  PROVE  Mirror'
PROOF
  <1>1. PICK P \in SUBSET ix.ready : LeaseJobs(P, now + lease_ms)
    BY Zenon DEF Reserve
  <1>2. now + lease_ms \in Int
    BY TimeAssumption DEF Mirror, Placement, TypeOK
  <1> QED
    BY <1>1, <1>2, LeaseMirror, Zenon

-----------------------------------------------------------------------------
(* The operations of operators. *)

LEMMA DropDeadLettersMirror ==
  ASSUME Mirror, NEW K, DropDeadLetters(K)
  PROVE  Mirror'
PROOF
  <1> DEFINE letters == {e \in db.dead_letter : DeadLetterKey(e) \notin K}
  <1>1. Placement'
    BY DropDeadLettersPlacement, Zenon DEF Mirror
  <1>2. /\ db'.jobs = db.jobs /\ db'.payloads = db.payloads
        /\ db'.inflight = db.inflight /\ db'.leases = db.leases
        /\ db'.scheduled = db.scheduled /\ db'.dead_letter = letters
        /\ db'.dedup = db.dedup /\ db'.dedup_timers = db.dedup_timers
        /\ db'.closing = db.closing
        /\ ix'.leases = ix.leases /\ ix'.scheduled = ix.scheduled
        /\ ix'.dead_letter = ix.dead_letter \ K
        /\ ix'.dedup_timers = ix.dedup_timers /\ ix'.closing = ix.closing
        /\ minted' = minted
    BY DEF Mirror, Placement, TypeOK, DropDeadLetters
  <1>3. KeysOf(letters) = KeysOf(db.dead_letter) \ K /\ letters \subseteq db.dead_letter
    BY KeysOfRest, Zenon
  <1> HIDE DEF letters
  <1>4. LettersMirror' /\ RequestKept'
    BY <1>2, <1>3, SameRequests, Zenon DEF Mirror, LettersMirror
  <1> QED
    BY <1>1, <1>2, <1>4, SameLeases, SameDedup, SameScheduled, Zenon DEF Mirror, ClosingMirror

LEMMA ClosingMirrored ==
  ASSUME Mirror, NEW q \in Queue, CloseQueue(q) \/ OpenQueue(q)
  PROVE  Mirror'
PROOF
  <1>1. Placement'
    BY ClosingPlacement, Zenon DEF Mirror
  <1>2. /\ db'.jobs = db.jobs /\ db'.payloads = db.payloads
        /\ db'.inflight = db.inflight /\ db'.leases = db.leases
        /\ db'.scheduled = db.scheduled /\ db'.dead_letter = db.dead_letter
        /\ db'.dedup = db.dedup /\ db'.dedup_timers = db.dedup_timers
        /\ ix'.leases = ix.leases /\ ix'.scheduled = ix.scheduled
        /\ ix'.dead_letter = ix.dead_letter /\ ix'.dedup_timers = ix.dedup_timers
        /\ minted' = minted
    BY DEF Mirror, Placement, TypeOK, CloseQueue, OpenQueue
  <1>3. ClosingMirror'
    BY DEF Mirror, ClosingMirror, Placement, TypeOK, CloseQueue, OpenQueue
  <1>4. RequestKept'
    BY <1>2, SameRequests, Zenon DEF Mirror
  <1> QED
    BY <1>1, <1>2, <1>3, <1>4, SameLeases, SameDedup, SameLetters, SameScheduled, Zenon DEF Mirror

LEMMA IdleMirror ==
  ASSUME Mirror, Tick \/ UNCHANGED vars
  PROVE  Mirror'
PROOF
  <1>1. Placement'
    BY IdlePlacement, Zenon DEF Mirror
  <1>2. db' = db /\ ix' = ix /\ minted' = minted
    BY Zenon DEF Tick, vars
  <1>3. RequestKept'
    BY <1>2, SameRequests, Zenon DEF Mirror
  <1> QED
    BY <1>1, <1>2, <1>3, SameLeases, SameDedup, SameLetters, SameScheduled, Zenon
    DEF Mirror, ClosingMirror

LEMMA RequeueMirror ==
  ASSUME Mirror, NEW q \in Queue, NEW R, RequeueDeadLetters(q, R)
  PROVE  Mirror'
PROOF
  <1> DEFINE J == {e.job : e \in R}
             rec(j) == CHOOSE e \in R : e.job = j
             row(j) == [queue |-> rec(j).queue, priority |-> rec(j).priority,
                        max_attempts |-> rec(j).max_attempts, enqueued_at |-> now]
             payload(j) == IF j \in J /\ rec(j).payload # None
                           THEN rec(j).payload ELSE db.payloads[j]
  <1>1. Placement'
    BY RequeuePlacement, Zenon DEF Mirror
  <1>2. /\ db'.jobs = [j \in Job |-> IF j \in J THEN row(j) ELSE db.jobs[j]]
        /\ db'.payloads = [j \in Job |-> payload(j)]
        /\ db'.inflight = db.inflight /\ db'.leases = db.leases
        /\ db'.scheduled = db.scheduled /\ db'.dead_letter = db.dead_letter \ R
        /\ db'.dedup = db.dedup /\ db'.dedup_timers = db.dedup_timers
        /\ db'.closing = db.closing
        /\ ix'.leases = ix.leases /\ ix'.scheduled = ix.scheduled
        /\ ix'.dead_letter = ix.dead_letter \ KeysOf(R)
        /\ ix'.dedup_timers = ix.dedup_timers /\ ix'.closing = ix.closing
        /\ minted' = minted
    BY DEF Mirror, Placement, TypeOK, RequeueDeadLetters
  <1>3. R \subseteq db.dead_letter
    BY Zenon DEF RequeueDeadLetters, Owned
  <1>4. LettersMirror'
    <2>1. \A e, f \in db.dead_letter : DeadLetterKey(e) = DeadLetterKey(f) => e = f
      BY Zenon DEF Mirror, Placement, DeadOrLive, DeadLetterKey
    <2>2. KeysOf(db.dead_letter \ R) = KeysOf(db.dead_letter) \ KeysOf(R)
      BY <1>3, <2>1 DEF KeysOf
    <2> QED
      BY <1>2, <2>2, Zenon DEF Mirror, LettersMirror
  <1>5. \A j \in J : /\ j \in Job /\ rec(j) \in db.dead_letter /\ rec(j).job = j
                     /\ db.payloads[j] = None
    BY <1>3, Fields DEF Mirror, Placement, DeadOrLive, NoJobDuplicated
  <1>6. \A j \in J : /\ minted[j] # None
                     /\ rec(j).queue = minted[j].queue
                     /\ rec(j).priority = minted[j].priority
                     /\ rec(j).max_attempts = minted[j].max_attempts
                     /\ payload(j) = minted[j].payload
    <2> HIDE DEF rec, J
    <2> QED
      BY <1>5 DEF Mirror, RequestKept
  <1>7. \A j \in J : /\ row(j).queue = rec(j).queue /\ row(j).priority = rec(j).priority
                     /\ row(j).max_attempts = rec(j).max_attempts
    <2> HIDE DEF rec, J
    <2> QED
      OBVIOUS
  <1>8. \A j \in Job \ J : payload(j) = db.payloads[j]
    BY ZenonT(30)
  <1> HIDE DEF J, rec, row, payload
  <1>9. \A j \in Job : db'.jobs[j] # None =>
           /\ minted'[j] # None
           /\ db'.jobs[j].queue = minted'[j].queue
           /\ db'.jobs[j].priority = minted'[j].priority
           /\ db'.jobs[j].max_attempts = minted'[j].max_attempts
           /\ db'.payloads[j] = minted'[j].payload
    BY <1>2, <1>6, <1>7, <1>8 DEF Mirror, RequestKept
  <1>10. \A e \in db'.dead_letter :
            /\ minted'[e.job] # None
            /\ e.queue = minted'[e.job].queue
            /\ e.priority = minted'[e.job].priority
            /\ e.max_attempts = minted'[e.job].max_attempts
            /\ e.payload = minted'[e.job].payload
    <2>1. db'.dead_letter \subseteq db.dead_letter /\ minted' = minted
      BY <1>2, Zenon
    <2> QED
      BY <2>1, ZenonT(30) DEF Mirror, RequestKept
  <1>11. RequestKept'
    BY <1>9, <1>10, Zenon DEF RequestKept
  <1> QED
    BY <1>1, <1>2, <1>4, <1>11, SameLeases, SameDedup, SameScheduled, ZenonT(30)
    DEF Mirror, ClosingMirror

LEMMA DeadLetterJobsMirror ==
  ASSUME Mirror, NEW q \in Queue, NEW R, NEW S, DeadLetterJobs(q, R, S)
  PROVE  Mirror'
PROOF
  <1> DEFINE J == {e.job : e \in R \cup S}
             records == AdminRecords(R \cup S)
             keys == {TimerKey(t) : t \in S}
  <1>1. Placement'
    BY DeadLetterJobsPlacement, Zenon DEF Mirror
  <1>2. R \subseteq db.ready /\ S \subseteq db.scheduled
    BY Zenon DEF DeadLetterJobs
  <1>3. /\ db'.jobs = Drop(db.jobs, J) /\ db'.payloads = Drop(db.payloads, J)
        /\ db'.inflight = db.inflight /\ db'.leases = db.leases
        /\ db'.scheduled = db.scheduled \ S
        /\ db'.dead_letter = db.dead_letter \cup records
        /\ db'.dedup = db.dedup /\ db'.dedup_timers = db.dedup_timers
        /\ db'.closing = db.closing
        /\ ix'.leases = ix.leases /\ ix'.scheduled = Without(ix.scheduled, keys)
        /\ ix'.dead_letter = ix.dead_letter \cup KeysOf(records)
        /\ ix'.dedup_timers = ix.dedup_timers /\ ix'.closing = ix.closing
        /\ minted' = minted
    BY DEF Mirror, Placement, TypeOK, DeadLetterJobs, RemoveRows, AdminRecords
  <1>4. \A r \in records : Embeds(r)
    <2>1. \A e \in R \cup S : e.job \in Job
      BY <1>2, Fields, Zenon DEF Mirror, Placement
    <2> QED
      BY <2>1, DeadLetteredEmbeds DEF AdminRecords
  <1>5. ScheduledMirror'
    <2>1. \A u \in db.scheduled \ S : TimerKey(u) \notin keys
      BY <1>2, Zenon DEF Mirror, Placement, NoJobDuplicated, TimerKey
    <2> HIDE DEF keys
    <2> QED
      BY <1>3, <2>1, Zenon DEF Mirror, ScheduledMirror, Without
  <1> HIDE DEF J, records, keys
  <1>6. LettersMirror' /\ RequestKept'
    BY <1>3, <1>4, KeysOfUnion, DropRequests DEF Mirror, LettersMirror
  <1> QED
    BY <1>1, <1>3, <1>5, <1>6, SameLeases, SameDedup, Zenon DEF Mirror, ClosingMirror

LEMMA PurgeMirror ==
  ASSUME Mirror, NEW R \in SUBSET ix.ready, NEW S \in SUBSET ix.scheduled, NEW D,
         NEW T \in SUBSET ix.dedup_timers, PurgeOf(R, S, D, T)
  PROVE  Mirror'
PROOF
  <1> DEFINE J == {e.job : e \in R \cup S}
             keys == {TimerKey(t) : t \in S}
             letters == {e \in db.dead_letter : DeadLetterKey(e) \notin D}
             forgotten == {<<t.queue, t.key>> : t \in T}
             record == {}
  <1>1. Placement'
    BY PurgePlacement, Zenon DEF Mirror
  <1>2. /\ db'.jobs = Drop(db.jobs, J) /\ db'.payloads = Drop(db.payloads, J)
        /\ db'.inflight = db.inflight /\ db'.leases = db.leases
        /\ db'.scheduled = Without(db.scheduled, keys)
        /\ db'.dead_letter = letters
        /\ db'.dedup = Drop(db.dedup, forgotten)
        /\ db'.dedup_timers = db.dedup_timers \ T
        /\ db'.closing = db.closing
        /\ ix'.leases = ix.leases /\ ix'.scheduled = ix.scheduled \ S
        /\ ix'.dead_letter = ix.dead_letter \ D
        /\ ix'.dedup_timers = ix.dedup_timers \ T /\ ix'.closing = ix.closing
        /\ minted' = minted
    BY DEF Mirror, Placement, TypeOK, PurgeOf, RemoveRows
  <1>3. DedupMirror'
    BY <1>2, DropDedup, Zenon DEF Mirror
  <1>4. ScheduledMirror'
    <2>1. \A t \in S : TimerKey(t) \in keys
      OBVIOUS
    <2> HIDE DEF keys
    <2> QED
      BY <1>2, <2>1, Zenon DEF Mirror, ScheduledMirror, Without
  <1>5. KeysOf(letters) = KeysOf(db.dead_letter) \ D /\ letters \subseteq db.dead_letter
    BY KeysOfRest, Zenon
  <1>6. \A r \in record : Embeds(r)
    OBVIOUS
  <1> HIDE DEF J, keys, letters, forgotten, record
  <1>7. LettersMirror' /\ RequestKept'
    BY <1>2, <1>5, <1>6, DropRequests, Zenon DEF Mirror, LettersMirror
  <1> QED
    BY <1>1, <1>2, <1>3, <1>4, <1>7, SameLeases, Zenon DEF Mirror, ClosingMirror

-----------------------------------------------------------------------------
(* The sweep. *)

LEMMA SweepMirror ==
  ASSUME Mirror, NEW S \in SUBSET ix.scheduled, NEW L \in SUBSET ix.leases,
         NEW T \in SUBSET Due(ix.dedup_timers, now), NEW D \in SUBSET ix.dead_letter,
         SweepOf(S, L, T, D), UNCHANGED <<now, minted>>
  PROVE  Mirror'
PROOF
  <1> DEFINE skeys == {TimerKey(t) : t \in S}
             lkeys == {TimerKey(t) : t \in L}
             expired == {j \in {t.job : t \in L} : db.inflight[j] # None}
             exhausted == {j \in expired : LastAttempt(db.inflight[j])}
             records == UNION {DeadLettered(j, db.inflight[j].attempt, "lease_expired") :
                                  j \in exhausted}
             letters == {e \in db.dead_letter \cup records : DeadLetterKey(e) \notin D}
             popped == {<<t.queue, t.key>> : t \in T}
             forgotten == {k \in popped : db.dedup[k] # None /\ db.dedup[k].deadline <= now}
  <1>1. T \in SUBSET ix.dedup_timers
    BY Zenon DEF Due
  <1>2. Placement'
    BY <1>1, SweepPlacement, ZenonT(30) DEF Mirror
  <1>3. /\ db'.jobs = Drop(db.jobs, exhausted) /\ db'.payloads = Drop(db.payloads, exhausted)
        /\ db'.inflight = Drop(db.inflight, expired)
        /\ db'.leases = Without(db.leases, lkeys)
        /\ db'.scheduled = Without(db.scheduled, skeys) /\ db'.dead_letter = letters
        /\ db'.dedup = Drop(db.dedup, forgotten)
        /\ db'.dedup_timers = db.dedup_timers \ T
        /\ db'.closing = Drop(db.closing, LapsedClosings)
        /\ ix'.leases = ix.leases \ L /\ ix'.scheduled = ix.scheduled \ S
        /\ ix'.dead_letter = (ix.dead_letter \cup KeysOf(records)) \ D
        /\ ix'.dedup_timers = ix.dedup_timers \ T
        /\ ix'.closing = Drop(ix.closing, LapsedClosings)
        /\ minted' = minted
    BY ZenonT(30) DEF Mirror, Placement, TypeOK, SweepOf, RemoveRows
  <1>4. LeasesMirror'
    <2>1. \A t \in ix.leases : /\ t.job \in InFlight /\ t = LeaseEntry(t.job)
                               /\ TimerKey(t) = LeaseTimer(t.job)
      BY LeaseSets DEF Mirror, LeasesMirror
    <2>2. expired \in SUBSET InFlight /\ expired = {t.job : t \in L}
      BY <2>1, Zenon DEF InFlight
    <2>3. lkeys = {LeaseTimer(j) : j \in expired}
      BY <2>1, <2>2
    <2>4. ix.leases \ L = Without(ix.leases, lkeys)
      <3>1. \A t \in ix.leases : TimerKey(t) \in lkeys => t \in L
        <4>1. SUFFICES ASSUME NEW t \in ix.leases, NEW u \in L, TimerKey(t) = TimerKey(u)
                       PROVE  t = u
          OBVIOUS
        <4>2. t.job = u.job
          BY <4>1, ZenonT(30) DEF TimerKey
        <4> QED
          BY <2>1, <4>2, Zenon
      <3> QED
        BY <3>1, Zenon DEF Without
    <2> HIDE DEF expired, lkeys
    <2> QED
      BY <1>3, <2>2, <2>3, <2>4, DropLeases, Zenon DEF Mirror
  <1>5. DedupMirror'
    <2>1. \A t \in T : \E k \in Deduped : /\ t = DedupTimerOf(k) /\ <<t.queue, t.key>> = k
                                          /\ t.deadline = db.dedup[k].deadline
      <3>1. \A k \in Deduped : DedupTimerOf(k).deadline = db.dedup[k].deadline
        BY Zenon DEF DedupTimerOf
      <3>2. \A t \in T : \E k \in Deduped : t = DedupTimerOf(k)
        BY <1>1, Zenon DEF Mirror, DedupMirror
      <3> QED
        BY <3>1, <3>2, DedupSets DEF Mirror, Deduped
    <2>2. forgotten = popped
      <3>1. SUFFICES ASSUME NEW t \in T PROVE <<t.queue, t.key>> \in forgotten
        OBVIOUS
      <3>2. PICK k \in Deduped : <<t.queue, t.key>> = k /\ t.deadline = db.dedup[k].deadline
        BY <2>1, Zenon
      <3>3. db.dedup[k] # None /\ db.dedup[k].deadline <= now
        BY <3>2, Zenon DEF Deduped, Due
      <3> QED
        BY <3>2, <3>3, Zenon
    <2>3. db'.dedup = Drop(db.dedup, popped)
      BY <1>3, <2>2, ZenonT(30)
    <2> HIDE DEF forgotten
    <2> QED
      BY <1>1, <1>3, <2>3, DropDedup, ZenonT(30) DEF Mirror
  <1>6. ScheduledMirror'
    <2>1. \A t \in S : TimerKey(t) \in skeys
      OBVIOUS
    <2> HIDE DEF skeys
    <2> QED
      BY <1>3, <2>1, Zenon DEF Mirror, ScheduledMirror, Without
  <1>7. \A r \in records : Embeds(r)
    <2>1. exhausted \subseteq Job
      BY DEF Mirror, Placement, TypeOK
    <2> HIDE DEF exhausted
    <2> QED
      BY <2>1, DeadLetteredEmbeds, Zenon
  <1>8. KeysOf(letters) = KeysOf(db.dead_letter \cup records) \ D
    BY KeysOfRest, Zenon
  <1>9. letters \subseteq db.dead_letter \cup records
    BY ZenonT(30)
  <1> HIDE DEF exhausted, records, letters
  <1>10. LettersMirror'
    BY <1>3, <1>8, KeysOfUnion DEF Mirror, LettersMirror
  <1>11. RequestKept'
    BY <1>3, <1>7, <1>9, DropRequests, ZenonT(30) DEF Mirror
  <1>12. ClosingMirror'
    BY <1>3, Zenon DEF Mirror, ClosingMirror
  <1> QED
    BY <1>2, <1>4, <1>5, <1>6, <1>10, <1>11, <1>12, Zenon DEF Mirror

-----------------------------------------------------------------------------
(* Enqueues. *)

\* The jobs of A that carry a key carry different ones.
KeysDiffer(A, req) ==
    \A i, j \in A :
        req[i].idempotency_key # None /\ DedupKey(req[i]) = DedupKey(req[j]) => i = j

LEMMA InsertDedup ==
  ASSUME Mirror, NEW B \in SUBSET Job, NEW req \in [B -> Request], NEW A \in SUBSET B,
         KeysDiffer(A, req), InsertJobs(A, req)
  PROVE  DedupMirror'
PROOF
  <1> DEFINE keyed == {j \in A : req[j].idempotency_key # None}
             owner(k) == CHOOSE j \in keyed : DedupKey(req[j]) = k
             keys == {DedupKey(req[j]) : j \in keyed}
             expires(j) == now + req[j].dedup_window_ms
             stale == StaleTimers(keys)
             timer(j) == [deadline |-> expires(j), queue |-> req[j].queue,
                          key |-> req[j].idempotency_key]
             fresh == {timer(j) : j \in keyed}
             entry(k) == [job |-> owner(k), deadline |-> expires(owner(k))]
  <1>1. /\ db'.dedup = [k \in Queue \X Key |-> IF k \in keys THEN entry(k) ELSE db.dedup[k]]
        /\ db'.dedup_timers = (db.dedup_timers \ stale) \cup fresh
        /\ ix'.dedup_timers = (ix.dedup_timers \ stale) \cup fresh
    BY Zenon DEF Mirror, Placement, TypeOK, InsertJobs
  <1>2. \A j \in keyed : /\ j \in Job /\ expires(j) \in Int
                         /\ DedupKey(req[j]) \in Queue \X Key
                         /\ DedupKey(req[j])[1] = req[j].queue
                         /\ DedupKey(req[j])[2] = req[j].idempotency_key
    <2>1. \A j \in keyed : req[j] \in JobRequest
      BY RequestAssumption, Zenon
    <2>2. now \in Int
      BY TimeAssumption, Zenon DEF Mirror, Placement, TypeOK
    <2> QED
      BY <2>1, <2>2 DEF DedupKey, JobRequest
  <1>3. \A j \in keyed : owner(DedupKey(req[j])) = j
    BY Zenon DEF KeysDiffer
  <1>4. \A k \in keys : \E j \in keyed : k = DedupKey(req[j])
    OBVIOUS
  <1> HIDE DEF expires, owner
  <1>5. \A k \in keys : /\ k \in Queue \X Key /\ entry(k) # None
                        /\ entry(k).deadline = expires(owner(k))
    <2>1. \A k \in keys : entry(k) \in DedupRow /\ k \in Queue \X Key
      BY <1>2, <1>3 DEF DedupRow
    <2>2. \A k \in keys : entry(k).deadline = expires(owner(k))
      OBVIOUS
    <2> HIDE DEF entry, keys
    <2> QED
      BY <2>1, <2>2, NoneAssumption, ZenonT(30)
  <1>6. stale = {DedupTimerOf(k) : k \in keys \cap Deduped}
    <2>1. {k \in keys : db.dedup[k] # None} = keys \cap Deduped
      BY <1>5, ZenonT(30) DEF Deduped
    <2> HIDE DEF keys
    <2> QED
      BY <2>1, ZenonT(30) DEF StaleTimers, DedupTimerOf
  <1>7. \A j \in keyed : DedupTimerOf(DedupKey(req[j]))' = timer(j)
    <2>1. SUFFICES ASSUME NEW j \in keyed PROVE DedupTimerOf(DedupKey(req[j]))' = timer(j)
      OBVIOUS
    <2> DEFINE k == DedupKey(req[j])
    <2>2. k \in keys /\ owner(k) = j
      BY <1>3, ZenonT(30)
    <2>3. db'.dedup[k] = entry(k) /\ entry(k).deadline = expires(j)
      BY <1>1, <1>2, <1>5, <2>2, ZenonT(30)
    <2>4. k[1] = req[j].queue /\ k[2] = req[j].idempotency_key
      BY <1>2, Zenon
    <2> HIDE DEF entry, keys, keyed
    <2> QED
      BY <2>3, <2>4, Zenon DEF DedupTimerOf
  <1>8. fresh = {DedupTimerOf(k)' : k \in keys}
    <2>1. \A k \in keys : \E j \in keyed : DedupTimerOf(k)' = timer(j)
      BY <1>4, <1>7, Zenon
    <2>2. \A j \in keyed : \E k \in keys : DedupTimerOf(k)' = timer(j)
      BY <1>7, ZenonT(30)
    <2> HIDE DEF timer, keys, keyed
    <2> QED
      BY <2>1, <2>2, Zenon
  <1> HIDE DEF entry, keys, keyed, stale, fresh
  <1>9. /\ Deduped' = (Deduped \ keys) \cup keys
        /\ \A k \in Deduped \ keys : db'.dedup[k] = db.dedup[k]
    BY <1>1, <1>5, Zenon DEF Deduped
  <1>10. \A k \in Deduped \ keys : DedupTimerOf(k)' = DedupTimerOf(k)
    BY <1>9, ZenonT(30) DEF DedupTimerOf
  <1>11. db.dedup_timers \ stale = {DedupTimerOf(k) : k \in Deduped \ keys}
    BY <1>6, DedupSets DEF Mirror, DedupMirror
  <1>12. db'.dedup_timers = {DedupTimerOf(k)' : k \in Deduped'}
    BY <1>1, <1>8, <1>9, <1>10, <1>11
  <1> QED
    BY <1>1, <1>12, ZenonT(30) DEF Mirror, DedupMirror

LEMMA InsertMirror ==
  ASSUME Mirror, NEW B \in SUBSET Job, NEW req \in [B -> Request], NEW A \in SUBSET B,
         \A j \in A : minted[j] = None, KeysDiffer(A, req), InsertJobs(A, req)
  PROVE  Mirror'
PROOF
  <1> DEFINE row(j) == [queue |-> req[j].queue, priority |-> req[j].priority,
                        max_attempts |-> req[j].max_attempts, enqueued_at |-> now]
             later == {j \in A : req[j].scheduled_at # None /\ req[j].scheduled_at > now}
             timer(j) == [deadline |-> req[j].scheduled_at, job |-> j,
                          attempt |-> FirstAttempt]
             owned(j) == TimerEntry(req[j].scheduled_at, j, req[j].queue)
  <1>1. Placement'
    BY InsertPlacement, ZenonT(30) DEF Mirror
  <1>2. /\ db'.jobs = [j \in Job |-> IF j \in A THEN row(j) ELSE db.jobs[j]]
        /\ db'.payloads = [j \in Job |-> IF j \in A THEN req[j].payload ELSE db.payloads[j]]
        /\ db'.inflight = db.inflight /\ db'.leases = db.leases
        /\ db'.scheduled = db.scheduled \cup {timer(j) : j \in later}
        /\ db'.dead_letter = db.dead_letter /\ db'.closing = db.closing
        /\ ix'.leases = ix.leases
        /\ ix'.scheduled = ix.scheduled \cup {owned(j) : j \in later}
        /\ ix'.dead_letter = ix.dead_letter /\ ix'.closing = ix.closing
        /\ minted' = [j \in Job |-> IF j \in A THEN req[j] ELSE minted[j]]
    <2>1. TypeOK
      BY Zenon DEF Mirror, Placement
    <2> QED
      BY <2>1, ZenonT(30) DEF TypeOK, InsertJobs
  <1>3. DedupMirror'
    BY InsertDedup, ZenonT(30)
  <1>4. \A j \in later : TimerKey(owned(j)) = TimerKey(timer(j))
    BY Zenon DEF TimerEntry, TimerKey
  <1>5. \A j \in A : /\ row(j).queue = req[j].queue /\ row(j).priority = req[j].priority
                     /\ row(j).max_attempts = req[j].max_attempts
    OBVIOUS
  <1>6. \A j \in A : j \in Job /\ req[j] # None
    BY RequestAssumption, NoneAssumption, ZenonT(30)
  <1> HIDE DEF row, later, timer, owned
  <1>7. ScheduledMirror'
    BY <1>2, <1>4 DEF Mirror, ScheduledMirror
  <1>8. \A j \in Job : db'.jobs[j] # None =>
           /\ minted'[j] # None
           /\ db'.jobs[j].queue = minted'[j].queue
           /\ db'.jobs[j].priority = minted'[j].priority
           /\ db'.jobs[j].max_attempts = minted'[j].max_attempts
           /\ db'.payloads[j] = minted'[j].payload
    BY <1>2, <1>5, <1>6 DEF Mirror, RequestKept
  <1>9. \A e \in db.dead_letter : minted'[e.job] = minted[e.job]
    BY <1>2, Fields, ZenonT(30) DEF Mirror, Placement, Known
  <1>10. \A e \in db'.dead_letter :
            /\ minted'[e.job] # None
            /\ e.queue = minted'[e.job].queue
            /\ e.priority = minted'[e.job].priority
            /\ e.max_attempts = minted'[e.job].max_attempts
            /\ e.payload = minted'[e.job].payload
    <2>1. db'.dead_letter = db.dead_letter
      BY <1>2, Zenon
    <2> QED
      BY <1>9, <2>1, ZenonT(30) DEF Mirror, RequestKept
  <1>11. RequestKept'
    BY <1>8, <1>10, Zenon DEF RequestKept
  <1> QED
    BY <1>1, <1>2, <1>3, <1>7, <1>11, SameLeases, SameLetters, ZenonT(30) DEF Mirror, ClosingMirror

\* What both forms of enqueue insert: fresh ids whose keys differ and have no
\* dedup row inside its window.
Admitted(req, A) ==
    /\ InsertJobs(A, req) /\ KeysDiffer(A, req)
    /\ \A j \in A : minted[j] = None /\ ~DedupHit(req, {}, req[j])

LEMMA ProducersAdmit ==
  ASSUME Placement, Producers
  PROVE  \E B \in SUBSET Job : \E req \in [B -> Request] : \E A \in SUBSET B :
            Admitted(req, A)
PROOF
  <1>1. PICK batch \in Batches : \E req \in Requests(batch) :
           Enqueue(batch, req) \/ EnqueueAtomic(batch, req)
    BY Zenon DEF Producers
  <1>2. PICK req \in Requests(batch) : Enqueue(batch, req) \/ EnqueueAtomic(batch, req)
    BY <1>1, Zenon
  <1>3. PICK B \in SUBSET Job : req \in [B -> Request] /\ DOMAIN req = B
    BY BatchType, Zenon
  <1>4. PICK A \in SUBSET B :
           /\ InsertJobs(A, req)
           /\ \A i \in DOMAIN batch :
                 batch[i] \in A => ~DedupHit(req, Earlier(batch, A, i), req[batch[i]])
    BY <1>2, <1>3, Zenon DEF Enqueue, EnqueueAtomic
  <1>5. PICK n \in 1..MaxBatch : batch \in [1..n -> {j \in Job : minted[j] = None}]
    BY Zenon DEF Batches
  <1>6. B = {batch[i] : i \in 1..n} /\ n \in Nat
    BY <1>3, <1>5, BoundsAssumption DEF Requests
  <1>7. KeysDiffer(A, req)
    <2>1. SUFFICES ASSUME NEW i \in 1..n, NEW h \in 1..n, batch[h] \in A, batch[i] \in A,
                          req[batch[i]].idempotency_key # None,
                          DedupKey(req[batch[h]]) = DedupKey(req[batch[i]]), h < i
                   PROVE  FALSE
      <3>1. SUFFICES ASSUME NEW x \in A, NEW y \in A, req[x].idempotency_key # None,
                            DedupKey(req[x]) = DedupKey(req[y]), x # y
                     PROVE  FALSE
        BY Zenon DEF KeysDiffer
      <3>2. PICK i \in 1..n, h \in 1..n : x = batch[i] /\ y = batch[h]
        BY <1>6, Zenon
      <3>3. req[y].idempotency_key # None
        BY <3>1, Zenon DEF DedupKey
      <3>4. h < i \/ i < h
        BY <3>1, <3>2, <1>6
      <3> QED
        BY <2>1, <3>1, <3>2, <3>3, <3>4, Zenon
    <2>2. batch[h] \in Earlier(batch, A, i)
      <3>1. h \in 1..(i - 1)
        BY <2>1, <1>6
      <3> QED
        BY <2>1, <3>1, Zenon DEF Earlier
    <2> QED
      BY <1>4, <1>5, <2>1, <2>2, ZenonT(30) DEF DedupHit
  <1>8. \A j \in A : minted[j] = None /\ ~DedupHit(req, {}, req[j])
    <2>1. SUFFICES ASSUME NEW i \in 1..n, batch[i] \in A
                   PROVE  minted[batch[i]] = None /\ ~DedupHit(req, {}, req[batch[i]])
      BY <1>6, Zenon
    <2> QED
      BY <1>4, <1>5, <2>1, Zenon DEF DedupHit
  <1> QED
    BY <1>3, <1>4, <1>7, <1>8, Zenon DEF Admitted

LEMMA ProducersMirror == ASSUME Mirror, Producers PROVE Mirror'
  BY ProducersAdmit, InsertMirror, Zenon DEF Admitted, Mirror

-----------------------------------------------------------------------------
(* The invariant. *)

LEMMA MirrorInit == ASSUME Init PROVE Mirror
PROOF
  <1>1. Placement
    BY PlacementInit, ZenonT(30)
  <1>2. LeasesMirror
    BY ZenonT(30) DEF Init, LeasesMirror, InFlight
  <1>3. DedupMirror
    BY ZenonT(30) DEF Init, DedupMirror, Deduped
  <1>4. LettersMirror /\ ScheduledMirror /\ ClosingMirror /\ RequestKept
    BY Zenon DEF Init, LettersMirror, KeysOf, ScheduledMirror, ClosingMirror, RequestKept
  <1> QED
    BY <1>1, <1>2, <1>3, <1>4, Zenon DEF Mirror

LEMMA NextMirror == ASSUME Mirror, [Next]_vars PROVE Mirror'
PROOF
  <1>1. CASE Producers
    BY <1>1, ProducersMirror, Zenon
  <1>2. CASE Workers
    BY <1>2, BoundsAssumption, ReserveMirror, AckMirror, NackDeadMirror, NackRetryMirror,
       ExtendMirror, Zenon
    DEF Workers, InFlight
  <1>3. CASE Requeues
    BY <1>3, RequeueMirror, Zenon DEF Requeues
  <1>4. CASE Purges
    <2>1. PICK q \in Queue : PurgeQueueChunk(q, PurgeChunk)
      BY <1>4, Zenon DEF Purges
    <2>2. PICK R \in SUBSET Owned(ix.ready, q), S \in SUBSET Owned(ix.scheduled, q),
               D \in SUBSET Owned(ix.dead_letter, q),
               T \in SUBSET Owned(ix.dedup_timers, q) : PurgeOf(R, S, D, T)
      BY <2>1, ZenonT(30) DEF PurgeQueueChunk, FirstOf
    <2>3. /\ R \in SUBSET ix.ready /\ S \in SUBSET ix.scheduled
          /\ T \in SUBSET ix.dedup_timers
      BY Zenon DEF Owned
    <2> QED
      BY <2>2, <2>3, PurgeMirror, Zenon
  <1>5. CASE Operators
    BY <1>5, DeadLetterJobsMirror, DropDeadLettersMirror, ClosingMirrored, ZenonT(30)
    DEF Operators, DrainDeadLetters, DeleteDeadLetters
  <1>6. CASE Sweep
    <2>1. PICK S \in SUBSET ix.scheduled, L \in SUBSET ix.leases,
               T \in SUBSET Due(ix.dedup_timers, now), D \in SUBSET ix.dead_letter :
             SweepOf(S, L, T, D)
      <3>1. /\ Due(ix.scheduled, now) \subseteq ix.scheduled
            /\ Due(ix.leases, now) \subseteq ix.leases
            /\ Outdated \subseteq ix.dead_letter
        BY Zenon DEF Due, Outdated
      <3> QED
        BY <1>6, <3>1, Zenon DEF Sweep, FirstOf
    <2> QED
      BY <1>6, <2>1, SweepMirror, Zenon DEF Sweep
  <1>7. CASE Tick \/ UNCHANGED vars
    BY <1>7, IdleMirror, Zenon
  <1> QED
    BY <1>1, <1>2, <1>3, <1>4, <1>5, <1>6, <1>7, Zenon DEF Next

LEMMA MirrorHolds == Spec => []Mirror
  BY MirrorInit, NextMirror, PTL DEF Spec

-----------------------------------------------------------------------------
(* What the invariant says. *)

LEMMA MirrorTimers == ASSUME Mirror PROVE TimersExact
PROOF
  <1>1. LeaseTimersExact
    BY Zenon DEF Mirror, LeasesMirror, LeaseTimersExact
  <1>2. DedupTimersExact
    BY Zenon DEF Mirror, DedupMirror, DedupTimersExact, DedupTimerOf, Deduped
  <1> QED
    BY <1>1, <1>2, Zenon DEF TimersExact

LEMMA MirrorIndexes == ASSUME Mirror PROVE IndexesMirror
PROOF
  <1>1. ix.ready = db.ready /\ ix.dedup_timers = db.dedup_timers /\ ix.closing = db.closing
    BY Zenon DEF Mirror, Placement, PlacesIndexed, DedupMirror, ClosingMirror
  <1>2. ix.dead_letter = {DeadLetterKey(e) : e \in db.dead_letter}
    BY Zenon DEF Mirror, LettersMirror, KeysOf
  <1>3. ix.leases = {TimerEntry(t.deadline, t.job, OwnerOf(db.inflight[t.job])) :
                        t \in db.leases}
    <2>1. \A j \in InFlight :
             LeaseEntry(j) = TimerEntry(LeaseTimer(j).deadline, LeaseTimer(j).job,
                                        OwnerOf(db.inflight[LeaseTimer(j).job]))
      BY ZenonT(30) DEF InFlight, LeaseEntry, LeaseTimer, OwnerOf
    <2> QED
      BY <2>1 DEF Mirror, LeasesMirror
  <1>4. ix.scheduled = {TimerEntry(t.deadline, t.job, OwnerOf(db.jobs[t.job])) :
                           t \in db.scheduled}
    <2> DEFINE entry(t) == TimerEntry(t.deadline, t.job, OwnerOf(db.jobs[t.job]))
    <2>1. ASSUME NEW t \in ix.scheduled, NEW u \in db.scheduled, TimerKey(t) = TimerKey(u)
          PROVE  t = entry(u)
      <3>1. t.deadline = u.deadline /\ t.job = u.job
        BY <2>1, Zenon DEF TimerKey
      <3>2. t.queue = OwnerOf(db.jobs[u.job])
        BY <3>1, ZenonT(30) DEF Mirror, Placement, PlacesIndexed, NoJobDuplicated, OwnerOf
      <3>3. t \in [deadline : Int, job : Job, queue : Queue]
        BY ZenonT(30) DEF Mirror, Placement, TypeOK
      <3> QED
        BY <3>1, <3>2, <3>3, Zenon DEF TimerEntry
    <2>2. \A t \in ix.scheduled : \E u \in db.scheduled : TimerKey(t) = TimerKey(u)
      BY Zenon DEF Mirror, Placement, PlacesIndexed
    <2>3. \A u \in db.scheduled : \E t \in ix.scheduled : TimerKey(t) = TimerKey(u)
      BY Zenon DEF Mirror, ScheduledMirror
    <2> HIDE DEF entry
    <2>4. ix.scheduled = {entry(t) : t \in db.scheduled}
      BY <2>1, <2>2, <2>3
    <2> QED
      BY <2>4, ZenonT(30) DEF entry
  <1>5. ix \in [ready : SUBSET ReadyEntry, scheduled : SUBSET OwnedTimer,
                leases : SUBSET OwnedTimer,
                dead_letter : SUBSET [failed_at : Int, queue : Queue, job : Job],
                dedup_timers : SUBSET DedupTimer, closing : [Queue -> Int \cup {None}]]
    BY Zenon DEF Mirror, Placement, TypeOK
  <1>6. ix = [ready |-> ix.ready, scheduled |-> ix.scheduled, leases |-> ix.leases,
              dead_letter |-> ix.dead_letter, dedup_timers |-> ix.dedup_timers,
              closing |-> ix.closing]
    BY <1>5, Zenon
  <1> QED
    BY <1>1, <1>2, <1>3, <1>4, <1>6, Zenon DEF IndexesMirror, RebuildIndexes

\* Every job in flight has the one lease timer its row names and every dedup
\* row the one expiry timer, whatever is leased, extended, expired, enqueued
\* again or purged: no lease outlives its timer and no timer its row.
THEOREM TimersAlwaysExact == Spec => []TimersExact
PROOF
  <1>1. Mirror => TimersExact
    BY MirrorTimers, Zenon
  <1> QED
    BY <1>1, MirrorHolds, PTL

\* The indexes every operation updates by hand never drift from the keyspaces:
\* after any sequence of operations they are what rebuild_indexes reads back.
THEOREM IndexesNeverDrift == Spec => []IndexesMirror
PROOF
  <1>1. Mirror => IndexesMirror
    BY MirrorIndexes, Zenon
  <1> QED
    BY <1>1, MirrorHolds, PTL

\* A job and its dead letter carry the queue, priority, attempts and payload of
\* the request that was accepted, however often the job is retried, expired,
\* dead-lettered and requeued.
THEOREM RequestsAlwaysKept == Spec => []RequestKept
PROOF
  <1>1. Mirror => RequestKept
    BY Zenon DEF Mirror
  <1> QED
    BY <1>1, MirrorHolds, PTL

-----------------------------------------------------------------------------
(* Dedup windows. *)

LEMMA WindowKept ==
  ASSUME Placement, [Next]_vars, NEW k \in Queue \X Key,
         db.dedup[k] # None, now < db.dedup[k].deadline
  PROVE  db'.dedup[k] = db.dedup[k] \/ Purges
PROOF
  <1>1. CASE Producers
    <2>1. PICK B \in SUBSET Job : \E req \in [B -> Request] : \E A \in SUBSET B :
             Admitted(req, A)
      BY <1>1, ProducersAdmit, Zenon
    <2>2. PICK req \in [B -> Request] : \E A \in SUBSET B : Admitted(req, A)
      BY <2>1, Zenon
    <2>3. PICK A \in SUBSET B : Admitted(req, A)
      BY <2>2, ZenonT(30)
    <2> DEFINE keyed == {j \in A : req[j].idempotency_key # None}
               keys == {DedupKey(req[j]) : j \in keyed}
    <2>4. k \notin keys
      BY <2>3, ZenonT(30) DEF Admitted, DedupHit
    <2>5. k \notin keys => db'.dedup[k] = db.dedup[k]
      BY <2>3, Zenon DEF Admitted, InsertJobs, Placement, TypeOK
    <2> QED
      BY <2>4, <2>5, Zenon
  <1>2. CASE Workers
    <2>1. ASSUME NEW P, NEW expires, LeaseJobs(P, expires) PROVE db'.dedup = db.dedup
      BY <2>1, Zenon DEF LeaseJobs, Placement, TypeOK
    <2>2. ASSUME NEW j, NEW attempt, Ack(j, attempt) PROVE db'.dedup = db.dedup
      BY <2>2, Zenon DEF Ack, RemoveRows, Placement, TypeOK
    <2>3. ASSUME NEW j, NEW attempt, NEW reject, NackDead(j, attempt, reject)
          PROVE  db'.dedup = db.dedup
      BY <2>3, Zenon DEF NackDead, RemoveRows, Placement, TypeOK
    <2>4. ASSUME NEW j, NEW attempt, NEW ms, NackRetry(j, attempt, ms) \/ Extend(j, attempt, ms)
          PROVE  db'.dedup = db.dedup
      BY <2>4, Zenon DEF NackRetry, Extend, Placement, TypeOK
    <2> QED
      BY <1>2, <2>1, <2>2, <2>3, <2>4, ZenonT(30) DEF Workers, Reserve
  <1>3. CASE Requeues
    BY <1>3 DEF Requeues, RequeueDeadLetters, Placement, TypeOK
  <1>4. CASE Operators
    BY <1>4, ZenonT(30) DEF Operators, DrainDeadLetters, DeleteDeadLetters, DropDeadLetters,
                DeadLetterJobs, RemoveRows, CloseQueue, OpenQueue, Placement, TypeOK
  <1>5. CASE Sweep
    <2>1. PICK S, L, T, D : SweepOf(S, L, T, D)
      BY <1>5, Zenon DEF Sweep
    <2> DEFINE forgotten == {l \in {<<t.queue, t.key>> : t \in T} :
                                db.dedup[l] # None /\ db.dedup[l].deadline <= now}
    <2>2. db'.dedup = Drop(db.dedup, forgotten)
      BY <2>1, ZenonT(30) DEF SweepOf, RemoveRows, Placement, TypeOK
    <2>3. db.dedup \in [Queue \X Key -> DedupRow \cup {None}] /\ now \in Int
      BY TimeAssumption, Zenon DEF Placement, TypeOK
    <2>4. db.dedup[k].deadline \in Int
      BY <2>3, Zenon DEF DedupRow
    <2>5. k \notin forgotten
      BY <2>3, <2>4
    <2> HIDE DEF forgotten
    <2> QED
      BY <2>2, <2>3, <2>5, Zenon DEF Drop
  <1>6. CASE Tick \/ UNCHANGED vars
    BY <1>6, Zenon DEF Tick, vars
  <1> QED
    BY <1>1, <1>2, <1>3, <1>4, <1>5, <1>6, Zenon DEF Next

\* Inside its window a key keeps answering with the job it was first enqueued
\* for, and the window does not slide, whatever else the committer applies
\* (insert_job and the sweep); only a purge of the queue ends it early.
THEOREM DedupWindowsFixed == Spec => DedupWindowFixed
PROOF
  <1>1. ASSUME Placement, [Next]_vars
        PROVE  [\A k \in Queue \X Key :
                   db.dedup[k] # None /\ now < db.dedup[k].deadline =>
                       db'.dedup[k] = db.dedup[k] \/ Purges]_vars
    BY <1>1, WindowKept, Zenon
  <1> QED
    BY <1>1, PlacementHolds, PTL DEF Spec, DedupWindowFixed
=============================================================================
