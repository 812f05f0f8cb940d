-------------------------- MODULE CommitterProofs ---------------------------
(***************************************************************************)
(* What callers may rely on, for every number of calls, jobs, queues and   *)
(* keys and every bound: the replies of the committer are true through     *)
(* every rollback and crash, and what a crash leaves needs no repair.      *)
(***************************************************************************)
EXTENDS Committer, MirrorProofs, LifecycleProofs

USE DEF ScheduledEntry, DedupTimer, OwnedTimer, TimerKeys

\* A store with exact indexes, as its parts.
Sound ==
    /\ TypeOK /\ NoJobStranded /\ NoJobDuplicated /\ DeadOrLive /\ CopiesAgree
    /\ TimersExact /\ RequestKept /\ IndexesMirror

\* The store a restart would make of the disk; its indexes are exact by
\* construction.
DiskSound ==
    /\ Disk!TypeOK /\ Disk!NoJobStranded /\ Disk!NoJobDuplicated /\ Disk!DeadOrLive
    /\ Disk!CopiesAgree /\ Disk!TimersExact /\ Disk!RequestKept

\* A dedup row answers with a job that was accepted.
DedupKnown == \A k \in Queue \X Key : db.dedup[k] # None => minted[db.dedup[k].job] # None

DiskDedupKnown ==
    \A k \in Queue \X Key : disk.dedup[k] # None => opened[disk.dedup[k].job] # None

DiskOver(j) ==
    opened[j] # None /\ disk.jobs[j] = None /\ \A e \in disk.dead_letter : e.job # j

\* Every reply, sent or still pending, is true of the open transaction.
ClaimsTrue ==
    /\ claims \in [Call -> [exists : SUBSET Job, done : SUBSET Job]]
    /\ \A c \in Call : \A j \in claims[c].exists : minted[j] # None
    /\ \A c \in Call : \A j \in claims[c].done : Over(j)

RepliesTrue ==
    /\ promised \subseteq Job /\ finished \subseteq Job
    /\ \A j \in promised : minted[j] # None /\ opened[j] # None
    /\ \A j \in finished : Over(j) /\ DiskOver(j)

InSync == db = disk /\ minted = opened

IdleInSync == phase = "idle" => InSync

\* The inductive invariant.
Durable ==
    /\ Mirror /\ DedupKnown /\ DiskSound /\ DiskDedupKnown
    /\ IdleInSync /\ ClaimsTrue /\ RepliesTrue

-----------------------------------------------------------------------------
(* The invariant of the store, and its parts. *)

LEMMA MirrorSound == ASSUME Mirror PROVE Sound
PROOF
  <1>1. TimersExact /\ IndexesMirror
    BY MirrorTimers, MirrorIndexes
  <1> QED
    BY <1>1 DEF Mirror, Placement, Sound

LEMMA MirrorSoundNext == Mirror' => Sound'
PROOF
  <1>1. Mirror => Sound
    BY MirrorSound
  <1> QED
    BY <1>1, PTL

LEMMA SoundMirror == ASSUME Sound PROVE Mirror
PROOF
  <1>1. /\ ix.ready = db.ready /\ ix.dedup_timers = db.dedup_timers
        /\ ix.closing = db.closing /\ ix.dead_letter = KeysOf(db.dead_letter)
    BY DEF Sound, IndexesMirror, RebuildIndexes, KeysOf
  <1>2. ix.scheduled = {TimerEntry(t.deadline, t.job, OwnerOf(db.jobs[t.job])) :
                           t \in db.scheduled}
    BY DEF Sound, IndexesMirror, RebuildIndexes
  <1>3. ix.leases = {TimerEntry(t.deadline, t.job, OwnerOf(db.inflight[t.job])) :
                        t \in db.leases}
    BY DEF Sound, IndexesMirror, RebuildIndexes
  <1>4. Known
    BY DEF Sound, RequestKept, Known
  <1>5. PlacesIndexed /\ ScheduledMirror
    <2>1. \A t \in db.scheduled : OwnerOf(db.jobs[t.job]) = db.jobs[t.job].queue
      BY Zenon DEF Sound, NoJobDuplicated, OwnerOf
    <2>2. \A t \in db.scheduled :
             TimerKey(TimerEntry(t.deadline, t.job, OwnerOf(db.jobs[t.job]))) = TimerKey(t)
      BY DEF TimerKey, TimerEntry
    <2>3. ScheduledMirror
      BY <1>2, <2>2, ZenonT(30) DEF ScheduledMirror
    <2>4. \A t \in ix.scheduled :
             /\ t.queue = db.jobs[t.job].queue
             /\ \E u \in db.scheduled : TimerKey(u) = TimerKey(t)
      BY <1>2, <2>1, <2>2 DEF TimerEntry
    <2> QED
      BY <1>1, <2>3, <2>4, ZenonT(30) DEF PlacesIndexed
  <1>6. LeasesMirror
    <2>1. \A j \in InFlight :
             LeaseEntry(j) = TimerEntry(LeaseTimer(j).deadline, LeaseTimer(j).job,
                                        OwnerOf(db.inflight[LeaseTimer(j).job]))
      BY Zenon DEF InFlight, LeaseEntry, LeaseTimer, OwnerOf
    <2>2. db.leases = {LeaseTimer(j) : j \in InFlight}
      BY DEF Sound, TimersExact, LeaseTimersExact
    <2> QED
      BY <1>3, <2>1, <2>2 DEF LeasesMirror
  <1>7. DedupMirror
    BY <1>1 DEF Sound, TimersExact, DedupTimersExact, DedupMirror, DedupTimerOf, Deduped
  <1>8. LettersMirror /\ ClosingMirror
    BY <1>1 DEF LettersMirror, ClosingMirror
  <1> QED
    BY <1>4, <1>5, <1>6, <1>7, <1>8, ZenonT(30) DEF Sound, Placement, Mirror

LEMMA SoundMirrorNext == Sound' => Mirror'
PROOF
  <1>1. Sound => Mirror
    BY SoundMirror
  <1> QED
    BY <1>1, PTL

-----------------------------------------------------------------------------
(* The store and the disk. *)

\* A store that was just written is sound on disk, and one that was just read
\* back is sound in memory.
LEMMA Synced ==
  InSync => (Sound => DiskSound) /\ (DiskSound /\ IndexesMirror => Sound)
PROOF
  <1> SUFFICES ASSUME db = disk, minted = opened
               PROVE  (Sound => DiskSound) /\ (DiskSound /\ IndexesMirror => Sound)
    BY DEF InSync
  <1>1. IndexesMirror => (TypeOK <=> Disk!TypeOK)
    BY DEF IndexesMirror, TypeOK, Disk!TypeOK, Disk!ReadyEntry, Disk!DeadLetterEntry,
           Disk!JobRow, Disk!InflightRow, Disk!DedupRow, Disk!Cause, ReadyEntry,
           DeadLetterEntry, JobRow, InflightRow, DedupRow, Cause, Disk!ScheduledEntry,
           Disk!DedupTimer, Disk!OwnedTimer, Disk!TimerKeys
  <1>2. NoJobStranded <=> Disk!NoJobStranded
    BY DEF NoJobStranded, Disk!NoJobStranded
  <1>3. NoJobDuplicated <=> Disk!NoJobDuplicated
    BY DEF NoJobDuplicated, Disk!NoJobDuplicated
  <1>4. DeadOrLive <=> Disk!DeadOrLive
    BY DEF DeadOrLive, Disk!DeadOrLive
  <1>5. CopiesAgree <=> Disk!CopiesAgree
    BY DEF CopiesAgree, Disk!CopiesAgree, InFlight, Disk!InFlight, ReadyKey, Disk!ReadyKey
  <1>6. TimersExact <=> Disk!TimersExact
    BY DEF TimersExact, Disk!TimersExact, LeaseTimersExact, Disk!LeaseTimersExact,
           DedupTimersExact, Disk!DedupTimersExact, InFlight, Disk!InFlight, LeaseTimer,
           Disk!LeaseTimer
  <1>7. RequestKept <=> Disk!RequestKept
    BY DEF RequestKept, Disk!RequestKept
  <1> QED
    BY <1>1, <1>2, <1>3, <1>4, <1>5, <1>6, <1>7, ZenonT(30) DEF Sound, DiskSound

LEMMA SyncedNext ==
  InSync' => (Sound' => DiskSound') /\ (DiskSound' /\ IndexesMirror' => Sound')
  BY Synced, PTL

\* The disk does not change under its own feet.
LEMMA DiskKept ==
  ASSUME DiskSound, UNCHANGED <<disk, opened, now>>
  PROVE  DiskSound'
PROOF
  <1>1. Disk!TypeOK'
    BY DEF DiskSound, Disk!TypeOK, RebuildIndexes
  <1>2. Disk!NoJobStranded' /\ Disk!NoJobDuplicated' /\ Disk!DeadOrLive'
    BY DEF DiskSound, Disk!NoJobStranded, Disk!NoJobDuplicated, Disk!DeadOrLive
  <1>3. Disk!CopiesAgree'
    BY DEF DiskSound, Disk!CopiesAgree, Disk!InFlight
  <1>4. Disk!TimersExact'
    BY DEF DiskSound, Disk!TimersExact, Disk!LeaseTimersExact, Disk!DedupTimersExact,
           Disk!InFlight, Disk!LeaseTimer
  <1>5. Disk!RequestKept'
    BY DEF DiskSound, Disk!RequestKept
  <1> QED
    BY <1>1, <1>2, <1>3, <1>4, <1>5, ZenonT(30) DEF DiskSound

-----------------------------------------------------------------------------
(* What an operation does to jobs that were accepted and jobs that are over. *)

LEMMA AcceptedKept ==
  ASSUME Mirror, DedupKnown, [Next]_vars
  PROVE  /\ \A j \in Job : minted[j] # None => minted'[j] # None
         /\ DedupKnown'
PROOF
  <1>1. CASE Producers
    <2>1. PICK B \in SUBSET Job : \E req \in [B -> Request] : \E A \in SUBSET B :
             Admitted(req, A)
      BY <1>1, ProducersAdmit, ZenonT(30) DEF Mirror
    <2>2. PICK req \in [B -> Request] : \E A \in SUBSET B : Admitted(req, A)
      BY <2>1
    <2>3. PICK A \in SUBSET B : Admitted(req, A)
      BY <2>2, ZenonT(30)
    <2> DEFINE keyed == {j \in A : req[j].idempotency_key # None}
               keys == {DedupKey(req[j]) : j \in keyed}
               owner(k) == CHOOSE j \in keyed : DedupKey(req[j]) = k
    <2>4. /\ minted' = [j \in Job |-> IF j \in A THEN req[j] ELSE minted[j]]
          /\ \A j \in A : req[j] # None
      BY <2>3, RequestAssumption, NoneAssumption, ZenonT(30) DEF Admitted, InsertJobs
    <2>5. \A k \in Queue \X Key :
             \/ k \in keys /\ db'.dedup[k].job = owner(k)
             \/ db'.dedup[k] = db.dedup[k]
      BY <2>3, ZenonT(30) DEF Admitted, InsertJobs, Mirror, Placement, TypeOK
    <2>6. \A k \in keys : owner(k) \in A
      OBVIOUS
    <2>7. \A j \in Job : minted[j] # None => minted'[j] # None
      BY <2>4, ZenonT(30)
    <2>8. \A k \in Queue \X Key : db.dedup[k] # None => db.dedup[k].job \in Job
      BY ZenonT(30) DEF Mirror, Placement, TypeOK, DedupRow
    <2> HIDE DEF owner, keys
    <2>9. DedupKnown'
      BY <2>4, <2>5, <2>6, <2>7, <2>8, ZenonT(30) DEF DedupKnown
    <2> QED
      BY <2>7, <2>9
  <1>2. CASE ~Producers
    <2>1. minted' = minted
      BY <1>2, MintedFixed, ZenonT(30)
    <2>2. \A k \in Queue \X Key : db'.dedup[k] = db.dedup[k] \/ db'.dedup[k] = None
      <3> USE DEF Mirror, Placement, TypeOK
      <3>1. CASE Workers
        <4>1. ASSUME NEW P, NEW expires, LeaseJobs(P, expires) PROVE db'.dedup = db.dedup
          BY <4>1, ZenonT(30) DEF LeaseJobs
        <4>2. ASSUME NEW j, NEW attempt, Ack(j, attempt) PROVE db'.dedup = db.dedup
          BY <4>2, ZenonT(30) DEF Ack, RemoveRows
        <4>3. ASSUME NEW j, NEW attempt, NEW reject, NackDead(j, attempt, reject)
              PROVE  db'.dedup = db.dedup
          BY <4>3, ZenonT(30) DEF NackDead, RemoveRows
        <4>4. ASSUME NEW j, NEW attempt, NEW ms,
                     NackRetry(j, attempt, ms) \/ Extend(j, attempt, ms)
              PROVE  db'.dedup = db.dedup
          BY <4>4, ZenonT(30) DEF NackRetry, Extend
        <4> QED
          BY <3>1, <4>1, <4>2, <4>3, <4>4, ZenonT(30) DEF Workers, Reserve
      <3>2. CASE Requeues
        BY <3>2, ZenonT(30) DEF Requeues, RequeueDeadLetters
      <3>3. CASE Purges
        <4>1. PICK R, S, D, T : PurgeOf(R, S, D, T)
          BY <3>3, ZenonT(30) DEF Purges, PurgeQueueChunk
        <4>2. db'.dedup = Drop(db.dedup, {<<t.queue, t.key>> : t \in T})
          BY <4>1, ZenonT(30) DEF PurgeOf, RemoveRows
        <4> QED
          BY <4>2, ZenonT(30) DEF Drop
      <3>4. CASE Operators
        BY <3>4, ZenonT(30) DEF Operators, DrainDeadLetters, DeleteDeadLetters, DropDeadLetters,
                    DeadLetterJobs, RemoveRows, CloseQueue, OpenQueue
      <3>5. CASE Sweep
        <4>1. PICK S, L, T, D : SweepOf(S, L, T, D)
          BY <3>5, ZenonT(30) DEF Sweep
        <4>2. PICK F : db'.dedup = Drop(db.dedup, F)
          BY <4>1, ZenonT(30) DEF SweepOf, RemoveRows
        <4> QED
          BY <4>2, ZenonT(30) DEF Drop
      <3>6. CASE Tick \/ UNCHANGED vars
        BY <3>6, ZenonT(30) DEF Tick, vars
      <3> QED
        BY <1>2, <3>1, <3>2, <3>3, <3>4, <3>5, <3>6, ZenonT(30) DEF Next
    <2> QED
      BY <2>1, <2>2, ZenonT(30) DEF DedupKnown
  <1> QED
    BY <1>1, <1>2, ZenonT(30)

-----------------------------------------------------------------------------
(* The invariant. *)

\* A step of the store that leaves the disk and the replies sent alone.
LEMMA StoreStep ==
  ASSUME Durable, [Next]_vars, now' = now, UNCHANGED <<disk, opened, promised, finished>>
  PROVE  /\ Mirror' /\ DedupKnown' /\ DiskSound' /\ DiskDedupKnown' /\ RepliesTrue'
         /\ \A j \in Job : minted[j] # None => minted'[j] # None
         /\ \A j \in Job : Over(j) => Over(j)'
PROOF
  <1>1. Mirror' /\ DiskSound'
    BY NextMirror, DiskKept, ZenonT(30) DEF Durable
  <1>2. DedupKnown' /\ \A j \in Job : minted[j] # None => minted'[j] # None
    BY AcceptedKept DEF Durable
  <1>3. \A j \in Job : Over(j) => Over(j)'
    BY OverKept, ZenonT(30) DEF Durable, Mirror
  <1>4. DiskDedupKnown'
    BY DEF Durable, DiskDedupKnown
  <1>5. RepliesTrue'
    BY <1>2, <1>3, ZenonT(30) DEF Durable, RepliesTrue, DiskOver
  <1> QED
    BY <1>1, <1>2, <1>3, <1>4, <1>5, ZenonT(30)

LEMMA DeferDurable ==
  ASSUME Durable, [Next]_vars, now' = now, NEW c \in Call,
         NEW exists \in SUBSET Job, NEW done \in SUBSET Job, Defer(c, exists, done),
         \A j \in exists : minted'[j] # None, \A j \in done : Over(j)'
  PROVE  Durable'
PROOF
  <1>1. UNCHANGED <<disk, opened, promised, finished>> /\ phase' = "rpc"
    BY DEF Defer, ledger
  <1>2. /\ claims' = [claims EXCEPT ![c] = [exists |-> exists, done |-> done]]
        /\ claims \in [Call -> [exists : SUBSET Job, done : SUBSET Job]]
    BY DEF Defer, Durable, ClaimsTrue
  <1>3. /\ claims' \in [Call -> [exists : SUBSET Job, done : SUBSET Job]]
        /\ claims'[c].exists = exists /\ claims'[c].done = done
        /\ \A d \in Call \ {c} : claims'[d] = claims[d]
    BY <1>2, ZenonT(30)
  <1>4. /\ \A j \in Job : minted[j] # None => minted'[j] # None
        /\ \A j \in Job : Over(j) => Over(j)'
    BY <1>1, StoreStep, ZenonT(30)
  <1>5. \A d \in Call : \A j \in claims'[d].exists : minted'[j] # None
    BY <1>2, <1>3, <1>4, ZenonT(30) DEF Durable, ClaimsTrue
  <1>6. \A d \in Call : \A j \in claims'[d].done : Over(j)'
    BY <1>2, <1>3, <1>4, ZenonT(30) DEF Durable, ClaimsTrue
  <1>7. ClaimsTrue'
    BY <1>3, <1>5, <1>6, ZenonT(30) DEF ClaimsTrue
  <1>8. IdleInSync'
    BY <1>1, ZenonT(30) DEF IdleInSync
  <1> QED
    BY <1>1, <1>7, <1>8, StoreStep, ZenonT(30) DEF Durable

\* A step of the store with the replies left as they are.
LEMMA SilentDurable ==
  ASSUME Durable, [Next]_vars, UNCHANGED <<disk, opened, promised, finished, claims>>,
         IdleInSync', now' = now
  PROVE  Durable'
PROOF
  <1>1. ClaimsTrue'
    <2>1. /\ \A j \in Job : minted[j] # None => minted'[j] # None
          /\ \A j \in Job : Over(j) => Over(j)'
      BY StoreStep
    <2>2. claims' = claims /\ ClaimsTrue
      BY DEF Durable
    <2>3. \A c \in Call : claims[c].exists \subseteq Job /\ claims[c].done \subseteq Job
      BY <2>2, ZenonT(30) DEF ClaimsTrue
    <2>4. \A c \in Call : \A j \in claims'[c].done : Over(j)'
      BY <2>1, <2>2, <2>3, ZenonT(30) DEF ClaimsTrue
    <2> QED
      BY <2>1, <2>2, <2>3, <2>4, ZenonT(30) DEF ClaimsTrue
  <1> QED
    BY <1>1, StoreStep, ZenonT(30) DEF Durable

\* The replies of the batch are gone, and the store is read back from the disk.
LEMMA ReloadDurable ==
  ASSUME DiskSound', DiskDedupKnown', Reload, EndBatch, IdleInSync', UNCHANGED ledger,
         \A j \in promised : opened'[j] # None,
         \A j \in finished : DiskOver(j)',
         promised \subseteq Job, finished \subseteq Job
  PROVE  Durable'
PROOF
  <1>1. InSync' /\ IndexesMirror'
    BY DEF Reload, InSync, IndexesMirror
  <1>2. Sound'
    BY <1>1, SyncedNext, ZenonT(30)
  <1>3. Mirror'
    BY <1>2, SoundMirrorNext, ZenonT(30)
  <1>4. DedupKnown'
    BY <1>1, ZenonT(30) DEF InSync, DedupKnown, DiskDedupKnown
  <1>5. ClaimsTrue'
    BY DEF EndBatch, NoClaim, ClaimsTrue
  <1>6. RepliesTrue'
    <2>1. promised' = promised /\ finished' = finished
      BY DEF ledger
    <2>2. \A j : DiskOver(j)' => Over(j)'
      BY <1>1, ZenonT(30) DEF InSync, DiskOver, Over
    <2> QED
      BY <1>1, <2>1, <2>2, ZenonT(30) DEF RepliesTrue, InSync
  <1> QED
    BY <1>3, <1>4, <1>5, <1>6, ZenonT(30) DEF Durable

LEMMA ApplyDurable ==
  ASSUME Durable, NEW c \in Call,
         ApplyEnqueue(c) \/ ApplyDedupHit(c) \/ ApplyAck(c) \/ ApplyOther(c)
  PROVE  Durable'
PROOF
  <1>1. CASE ApplyEnqueue(c)
    <2>1. [Next]_vars /\ Defer(c, Minting, {})
      BY <1>1 DEF ApplyEnqueue, Next
    <2>2. now' = now
      <3>1. ASSUME NEW A, NEW req, InsertJobs(A, req) PROVE now' = now
        BY <3>1, ZenonT(30) DEF InsertJobs
      <3> QED
        BY <1>1, <3>1, ZenonT(30) DEF ApplyEnqueue, Producers, Enqueue, EnqueueAtomic
    <2>3. \A j \in Job : minted[j] # None => minted'[j] # None
      BY <2>1, AcceptedKept, ZenonT(30) DEF Durable
    <2>4. Minting \in SUBSET Job /\ \A j \in Minting : minted'[j] # None
      BY <2>3, ZenonT(30) DEF Minting
    <2> QED
      BY <2>1, <2>2, <2>4, DeferDurable
  <1>2. CASE ApplyDedupHit(c)
    <2>1. PICK k \in Queue \X Key :
             /\ db.dedup[k] # None
             /\ Defer(c, {db.dedup[k].job}, {})
             /\ UNCHANGED vars
      BY <1>2, ZenonT(30) DEF ApplyDedupHit
    <2>2. db.dedup[k].job \in Job /\ minted[db.dedup[k].job] # None
      BY <2>1, ZenonT(30) DEF Durable, Mirror, Placement, TypeOK, DedupRow, DedupKnown
    <2>3. [Next]_vars /\ now' = now /\ minted' = minted
      BY <2>1, ZenonT(30) DEF vars
    <2> QED
      BY <2>1, <2>2, <2>3, DeferDurable
  <1>3. CASE ApplyAck(c)
    <2>1. PICK j \in InFlight : Ack(j, db.inflight[j].attempt) /\ Defer(c, {}, {j})
      BY <1>3, ZenonT(30) DEF ApplyAck
    <2>2. [Next]_vars /\ now' = now /\ j \in Job
      BY <2>1, Zenon DEF Next, Workers, InFlight, Ack
    <2>3. Over(j)'
      <3>1. db'.jobs = Drop(db.jobs, {j}) /\ db'.dead_letter = db.dead_letter
        BY <2>1, ZenonT(30) DEF Ack, RemoveRows, Durable, Mirror, Placement, TypeOK
      <3>2. db'.jobs[j] = None
        BY <2>2, <3>1, ZenonT(30) DEF Drop, Durable, Mirror, Placement, TypeOK
      <3>3. db.jobs[j] # None
        BY <2>1, <2>2, ZenonT(30) DEF InFlight, Durable, Mirror, Placement, NoJobDuplicated
      <3>4. \A e \in db'.dead_letter : e.job # j
        BY <3>1, <3>3, ZenonT(30) DEF Durable, Mirror, Placement, DeadOrLive
      <3>5. minted'[j] # None
        BY <2>1, <2>2, <3>3, ZenonT(30) DEF Ack, Durable, Mirror, Placement, Known
      <3> QED
        BY <3>2, <3>4, <3>5, ZenonT(30) DEF Over
    <2> QED
      BY <2>1, <2>2, <2>3, DeferDurable
  <1>4. CASE ApplyOther(c)
    <2>1. Defer(c, {}, {})
      BY <1>4 DEF ApplyOther
    <2>2. Workers \/ Requeues \/ Purges \/ Operators
      BY <1>4, ZenonT(30) DEF ApplyOther, Workers
    <2>3. now' = now
      <3>1. CASE Workers
        BY <3>1, ZenonT(30) DEF Workers, Reserve, LeaseJobs, Ack, NackDead, NackRetry, Extend
      <3>2. CASE Requeues \/ Purges
        <4>1. ASSUME NEW q, NEW R, RequeueDeadLetters(q, R) PROVE now' = now
          BY <4>1 DEF RequeueDeadLetters
        <4>2. ASSUME NEW R, NEW S, NEW D, NEW T, PurgeOf(R, S, D, T) PROVE now' = now
          BY <4>2, ZenonT(30) DEF PurgeOf
        <4> QED
          BY <3>2, <4>1, <4>2, ZenonT(30) DEF Requeues, Purges, PurgeQueueChunk
      <3>3. CASE Operators
        BY <3>3, ZenonT(30)
        DEF Operators, DrainDeadLetters, DeleteDeadLetters, DropDeadLetters, DeadLetterJobs,
            CloseQueue, OpenQueue
      <3> QED
        BY <2>2, <3>1, <3>2, <3>3, ZenonT(30)
    <2>4. [Next]_vars
      BY <2>2 DEF Next
    <2> QED
      BY <2>1, <2>3, <2>4, DeferDurable
  <1> QED
    BY <1>1, <1>2, <1>3, <1>4, ZenonT(30)

LEMMA PersistDurable == ASSUME Durable, Persist PROVE Durable'
PROOF
  <1>1. UNCHANGED vars /\ InSync'
    BY DEF Persist, InSync, vars
  <1>2. Mirror' /\ Sound'
    <2>1. Mirror'
      BY <1>1, NextMirror, ZenonT(30) DEF Durable
    <2> QED
      BY <2>1, MirrorSoundNext, ZenonT(30)
  <1>3. DiskSound'
    BY <1>1, <1>2, SyncedNext, ZenonT(30)
  <1>4. DedupKnown' /\ DiskDedupKnown'
    BY <1>1, ZenonT(30) DEF Persist, vars, Durable, DedupKnown, DiskDedupKnown
  <1>5. ClaimsTrue'
    BY ZenonT(30) DEF Persist, EndBatch, NoClaim, ClaimsTrue
  <1>6. RepliesTrue'
    <2>1. /\ promised' = promised \cup UNION {claims[c].exists : c \in Call}
          /\ finished' = finished \cup UNION {claims[c].done : c \in Call}
          /\ opened' = minted /\ minted' = minted /\ disk' = db /\ db' = db
      BY <1>1, ZenonT(30) DEF Persist, vars
    <2>2. \A j : Over(j) => Over(j)' /\ DiskOver(j)'
      BY <2>1, ZenonT(30) DEF Over, DiskOver
    <2>3. /\ \A c \in Call : claims[c].exists \subseteq Job /\ claims[c].done \subseteq Job
          /\ promised \subseteq Job /\ finished \subseteq Job
      BY ZenonT(30) DEF Durable, ClaimsTrue, RepliesTrue
    <2>4. /\ \A j \in promised' : j \in Job /\ minted[j] # None
          /\ \A j \in finished' : j \in Job /\ Over(j)
      BY <2>1, <2>3, ZenonT(30) DEF Durable, ClaimsTrue, RepliesTrue
    <2> QED
      BY <2>1, <2>2, <2>4, ZenonT(30) DEF RepliesTrue
  <1> QED
    BY <1>1, <1>2, <1>3, <1>4, <1>5, <1>6, ZenonT(30) DEF Durable, IdleInSync

LEMMA CrashDurable == ASSUME Durable, Abort \/ Crash PROVE Durable'
PROOF
  <1>1. /\ Reload /\ EndBatch /\ UNCHANGED <<now, ledger>>
        /\ \/ UNCHANGED <<disk, opened>>
           \/ disk' = db /\ opened' = minted
    BY DEF Abort, Crash
  <1>2. InSync' /\ IdleInSync'
    BY <1>1, ZenonT(30) DEF Reload, InSync, IdleInSync
  <1>3. /\ promised \subseteq Job /\ finished \subseteq Job
        /\ \A j \in promised : opened'[j] # None
        /\ \A j \in finished : DiskOver(j)'
    BY <1>1, ZenonT(30) DEF Durable, RepliesTrue, Over, DiskOver
  <1>4. DiskDedupKnown'
    BY <1>1, ZenonT(30) DEF Durable, DedupKnown, DiskDedupKnown
  <1>5. DiskSound'
    <2>1. CASE UNCHANGED <<disk, opened>>
      BY <1>1, <2>1, DiskKept, ZenonT(30) DEF Durable
    <2>2. CASE disk' = db /\ opened' = minted
      <3>1. db' = db /\ minted' = minted /\ now' = now /\ ix' = ix
        BY <1>1, <2>2, MirrorIndexes, ZenonT(30) DEF Reload, Durable, IndexesMirror
      <3>2. Mirror'
        BY <3>1, NextMirror, ZenonT(30) DEF Durable, vars
      <3> QED
        BY <1>2, <3>2, MirrorSoundNext, SyncedNext, ZenonT(30)
    <2> QED
      BY <1>1, <2>1, <2>2, ZenonT(30)
  <1> QED
    BY <1>1, <1>2, <1>3, <1>4, <1>5, ReloadDurable, ZenonT(30)

LEMMA DurableInit == ASSUME CInit PROVE Durable
PROOF
  <1>1. Mirror /\ InSync
    BY MirrorInit DEF CInit, InSync
  <1>2. Sound
    BY <1>1, MirrorSound, ZenonT(30)
  <1>3. DiskSound
    BY <1>1, <1>2, Synced, ZenonT(30)
  <1>4. DedupKnown /\ DiskDedupKnown
    BY <1>1, ZenonT(30) DEF CInit, Init, InSync, DedupKnown, DiskDedupKnown
  <1>5. ClaimsTrue
    BY DEF CInit, NoClaim, ClaimsTrue
  <1>6. RepliesTrue
    BY DEF CInit, RepliesTrue
  <1> QED
    BY <1>1, <1>3, <1>4, <1>5, <1>6, ZenonT(30) DEF Durable, IdleInSync

LEMMA CNextDurable == ASSUME Durable, [CNext]_cvars PROVE Durable'
PROOF
  <1>1. CASE \E c \in Call :
                ApplyEnqueue(c) \/ ApplyDedupHit(c) \/ ApplyAck(c) \/ ApplyOther(c)
    BY <1>1, ApplyDurable, ZenonT(30)
  <1>2. CASE (\E c \in Call : Refuse(c)) \/ Receive \/ Commit \/ UNCHANGED cvars
    <2>1. UNCHANGED <<vars, disk, opened, claims, ledger>>
      BY <1>2, ZenonT(30) DEF Refuse, Receive, Commit, cvars
    <2>2. phase' # "idle" \/ phase' = phase
      BY <1>2 DEF Refuse, Receive, Commit, cvars
    <2>3. IdleInSync'
      BY <2>1, <2>2, ZenonT(30) DEF Durable, IdleInSync, InSync, vars
    <2> QED
      BY <2>1, <2>3, SilentDurable, ZenonT(30) DEF vars, ledger
  <1>3. CASE SweepCycle
    <2>1. /\ Sweep /\ now' = now /\ phase' = "sweep"
          /\ UNCHANGED <<disk, opened, claims, ledger>>
      BY <1>3 DEF SweepCycle, Sweep
    <2> QED
      BY <2>1, SilentDurable, ZenonT(30) DEF IdleInSync, Next, ledger
  <1>4. CASE Persist
    BY <1>4, PersistDurable, ZenonT(30)
  <1>5. CASE Abort \/ Crash
    BY <1>5, CrashDurable, ZenonT(30)
  <1>6. CASE CTick
    <2>1. /\ Tick /\ UNCHANGED <<db, ix, minted, phase, disk, opened, claims, ledger>>
          /\ phase = "idle"
      BY <1>6 DEF CTick, Tick
    <2>2. Mirror'
      BY <2>1, NextMirror, ZenonT(30) DEF Durable, Next
    <2>3. InSync'
      BY <2>1 DEF Durable, IdleInSync, InSync
    <2>4. DiskSound'
      BY <2>2, <2>3, MirrorSoundNext, SyncedNext, ZenonT(30)
    <2>5. /\ DedupKnown' /\ DiskDedupKnown' /\ IdleInSync'
      BY <2>1, <2>3, ZenonT(30) DEF Durable, DedupKnown, DiskDedupKnown, IdleInSync
    <2>6. ClaimsTrue' /\ RepliesTrue'
      BY <2>1, ZenonT(30) DEF Durable, ClaimsTrue, RepliesTrue, Over, DiskOver, ledger
    <2> QED
      BY <2>2, <2>4, <2>5, <2>6, ZenonT(30) DEF Durable
  <1> QED
    BY <1>1, <1>2, <1>3, <1>4, <1>5, <1>6, ZenonT(30) DEF CNext

LEMMA DurableHolds == CSpec => []Durable
  BY DurableInit, CNextDurable, PTL DEF CSpec

\* Whatever the committer was doing when the process died, in the middle of a
\* batch or between commit and persist, the next start finds a store in which
\* every job has its one place, its dead letter or nothing, and every lease and
\* dedup row its timer.
THEOREM DiskAlwaysConsistent == CSpec => []DiskConsistent
PROOF
  <1>1. Durable => DiskConsistent
    BY ZenonT(30) DEF Durable, DiskSound, DiskConsistent, Disk!TimersExact
  <1> QED
    BY <1>1, DurableHolds, PTL

\* A reply is sent only when what it says is on disk, so no rollback of a batch
\* and no crash takes it back: a job a producer was told exists was accepted
\* for good, a job a worker was told is done never comes back.
THEOREM RepliesAlwaysDurable == CSpec => []RepliesDurable
PROOF
  <1>1. Durable => RepliesDurable
    BY ZenonT(30) DEF Durable, RepliesTrue, DiskOver, RepliesDurable
  <1> QED
    BY <1>1, DurableHolds, PTL

\* Between two cycles the open transaction and the indexes are those of the
\* disk, also after a batch was rolled back half way.
THEOREM IdleAlwaysInSync == CSpec => []IdleMeansInSync
PROOF
  <1>1. Durable => IdleMeansInSync
    BY MirrorIndexes DEF Durable, IdleInSync, InSync, IndexesMirror, IdleMeansInSync
  <1> QED
    BY <1>1, DurableHolds, PTL
=============================================================================
