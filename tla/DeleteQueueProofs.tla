------------------------- MODULE DeleteQueueProofs --------------------------
(***************************************************************************)
(* What operators may rely on when they delete a queue beside its traffic, *)
(* for every number of jobs, queues and keys and every bound.              *)
(***************************************************************************)
EXTENDS DeleteQueue, MirrorProofs, LifecycleProofs

USE DEF ScheduledEntry, DedupTimer, OwnedTimer, TimerKeys

Steps == {"idle", "check", "purge", "refresh", "open"}

DType ==
    /\ del \in [at : Steps, queue : Doomed, purge : BOOLEAN, lapsed : BOOLEAN,
               undone : BOOLEAN]
    /\ abandoned \subseteq Queue

\* The handler's tombstone is in force unless it lapsed under it.
InForce == ~At("idle") /\ ~del.lapsed => Closing(del.queue)

\* Every job accepted for the queue is over.
Emptied(q) == \A j \in Job : minted[j] # None /\ minted[j].queue = q => Over(j)

\* Past a check that was not rolled back a delete without purge=true has an
\* empty queue.
StaysEmpty ==
    At("purge") \/ At("refresh") =>
        del.purge \/ del.lapsed \/ del.undone \/ Emptied(del.queue)

\* The inductive invariant, next to the store's own.
Deleting == DType /\ InForce /\ StaysEmpty /\ TombstoneLifted

-----------------------------------------------------------------------------
(* The handler's commands are operations of the store. *)

LEMMA DStepStore ==
  ASSUME DType, [DNext]_dvars
  PROVE  [Next]_vars
PROOF
  <1>1. del.queue \in Queue
    BY DoomedAssumption DEF DType
  <1>2. ASSUME NEW q \in Queue, CloseQueue(q) \/ OpenQueue(q) PROVE Next
    BY <1>2 DEF Next, Operators
  <1>3. CASE \E q \in Doomed, purge \in BOOLEAN : Begin(q, purge)
    BY <1>2, <1>3, DoomedAssumption DEF Begin
  <1>4. CASE PurgeStep
    BY <1>1, <1>4 DEF PurgeStep, Chunk, Next, Purges
  <1>5. CASE Refresh \/ Reopen
    BY <1>1, <1>2, <1>5 DEF Refresh, Reopen
  <1>6. \/ Check \/ CheckUndone \/ PurgeRefused \/ CallFails \/ ReopenFails \/ Die
        \/ UNCHANGED dvars
        => [Next]_vars
    BY DEF Check, CheckUndone, PurgeRefused, CallFails, ReopenFails, Die, dvars
  <1>7. CASE Traffic
    <2>1. CASE DeadLetterOperators
      BY <2>1 DEF DeadLetterOperators, Next, Operators
    <2> QED
      BY <1>7, <2>1 DEF Traffic, DTick, Next
  <1> QED
    BY <1>3, <1>4, <1>5, <1>6, <1>7 DEF DNext

LEMMA DTypeInit == ASSUME DInit PROVE DType
  BY DEF DInit, Running, DType, Steps

LEMMA DTypeNext == ASSUME DType, [DNext]_dvars PROVE DType'
PROOF
  <1> USE DEF DType, Steps
  <1>1. del.queue \in Queue
    BY DoomedAssumption
  <1>2. ASSUME NEW step \in Steps, GoTo(step)
        PROVE  del' \in [at : Steps, queue : Doomed, purge : BOOLEAN, lapsed : BOOLEAN,
                         undone : BOOLEAN]
    BY <1>2, Zenon DEF GoTo
  <1>3. CASE \E q \in Doomed, purge \in BOOLEAN : Begin(q, purge)
    BY <1>3 DEF Begin, Running
  <1>4. CASE Check \/ PurgeStep \/ PurgeRefused \/ Refresh
    BY <1>2, <1>4 DEF Check, PurgeStep, PurgeRefused, Refresh
  <1>5. CASE Reopen \/ CallFails
    BY <1>2, <1>5 DEF Reopen, CallFails
  <1>6. CASE ReopenFails \/ Die
    BY <1>1, <1>2, <1>6 DEF ReopenFails, Die
  <1>7. CASE Traffic
    <2>1. CASE DTick
      BY <1>7, <2>1, Zenon DEF Traffic, DTick
    <2> QED
      BY <1>7, <2>1 DEF Traffic
  <1>8. CASE UNCHANGED dvars
    BY <1>8 DEF dvars
  <1>9. CASE CheckUndone
    BY <1>9, Zenon DEF CheckUndone
  <1> QED
    BY <1>3, <1>4, <1>5, <1>6, <1>7, <1>8, <1>9 DEF DNext

\* Deleting a queue does to the store what the store's operations do.
THEOREM DeletionRunsTheStore == DSpec => Spec
PROOF
  <1>1. DInit => Init /\ DType
    BY DTypeInit, ZenonT(30) DEF DInit
  <1>2. DType /\ [DNext]_dvars => DType' /\ [Next]_vars
    BY DTypeNext, DStepStore
  <1> QED
    BY <1>1, <1>2, PTL DEF DSpec, Spec

-----------------------------------------------------------------------------
(* An empty queue. *)

\* What queue_depths counts.
NotCounted(q) ==
    /\ Owned(ix.ready, q) = {} /\ Owned(ix.scheduled, q) = {}
    /\ Owned(ix.leases, q) = {} /\ Owned(ix.dead_letter, q) = {}

NoRows(q) ==
    /\ \A j \in Job : db.jobs[j] # None => db.jobs[j].queue # q
    /\ \A e \in db.dead_letter : e.queue # q

LEMMA NotCountedEmpty == ASSUME Mirror, NEW q, NotCounted(q) PROVE NoRows(q)
PROOF
  <1>1. ASSUME NEW j \in Job, db.jobs[j] # None, db.jobs[j].queue = q PROVE FALSE
    <2>1. CASE \E e \in db.ready : e.job = j
      <3>1. PICK e \in db.ready : e.job = j
        BY <2>1
      <3>2. e.queue = q
        BY <1>1, <3>1 DEF Mirror, Placement, CopiesAgree, ReadyKey
      <3> QED
        BY <3>1, <3>2 DEF NotCounted, Owned, Mirror, Placement, PlacesIndexed
    <2>2. CASE \E t \in db.scheduled : t.job = j
      <3>1. PICK t \in ix.scheduled : t.job = j
        BY <2>2, ZenonT(30) DEF Mirror, ScheduledMirror, TimerKey
      <3>2. t.queue = q
        BY <1>1, <3>1 DEF Mirror, Placement, PlacesIndexed
      <3> QED
        BY <3>1, <3>2 DEF NotCounted, Owned
    <2>3. CASE db.inflight[j] # None
      <3>1. db.inflight[j].queue = q
        BY <1>1, <2>3, FlightCopies DEF Mirror, Placement
      <3>2. LeaseEntry(j) \in ix.leases /\ LeaseEntry(j).queue = q
        BY <2>3, <3>1 DEF Mirror, LeasesMirror, InFlight, LeaseEntry, TimerEntry
      <3> QED
        BY <3>2 DEF NotCounted, Owned
    <2> QED
      BY <1>1, <2>1, <2>2, <2>3 DEF Mirror, Placement, NoJobStranded
  <1>2. ASSUME NEW e \in db.dead_letter PROVE e.queue # q
    <2>1. DeadLetterKey(e) \in ix.dead_letter
      BY DEF Mirror, LettersMirror, KeysOf
    <2>2. DeadLetterKey(e).queue = e.queue
      BY DEF DeadLetterKey
    <2> QED
      BY <2>1, <2>2 DEF NotCounted, Owned
  <1> QED
    BY <1>1, <1>2 DEF NoRows

LEMMA NoRowsEmptied == ASSUME Mirror, NEW q, NoRows(q) PROVE Emptied(q)
  BY DEF Mirror, RequestKept, NoRows, Emptied, Over

LEMMA EmptiedNoRows == ASSUME Mirror, NEW q, Emptied(q) PROVE NoRows(q)
PROOF
  <1>1. \A e \in db.dead_letter : e.job \in Job
    BY Fields DEF Mirror, Placement
  <1> QED
    BY <1>1 DEF Mirror, RequestKept, NoRows, Emptied, Over

\* Nothing enters an empty queue while its tombstone is in force.
LEMMA EmptiedKept ==
  ASSUME Placement, [Next]_vars, NEW q, Closing(q), Emptied(q)
  PROVE  Emptied(q)'
PROOF
  <1> SUFFICES ASSUME NEW j \in Job, minted'[j] # None, minted'[j].queue = q
               PROVE  Over(j)'
    BY DEF Emptied
  <1>1. minted'[j] = minted[j]
    BY MintedKept
  <1>2. Over(j)
    BY <1>1 DEF Emptied
  <1> QED
    BY <1>2, OverKept

-----------------------------------------------------------------------------
(* The tombstones. *)

\* Only the handler writes a tombstone; a sweep drops those that lapsed.
LEMMA ClosingKept ==
  ASSUME Placement, Producers \/ Workers \/ DeadLetterOperators \/ Sweep \/ Tick
                      \/ Purges \/ UNCHANGED vars
  PROVE  \A q \in Queue : \/ db'.closing[q] = db.closing[q]
                          \/ q \in LapsedClosings /\ db'.closing[q] = None
PROOF
  <1> USE DEF Placement, TypeOK
  <1>1. CASE Producers
    <2>1. ASSUME NEW A, NEW req, InsertJobs(A, req) PROVE db'.closing = db.closing
      BY <2>1, ZenonT(30) DEF InsertJobs
    <2>2. db'.closing = db.closing
      BY <1>1, <2>1, ZenonT(30) DEF Producers, Enqueue, EnqueueAtomic
    <2> QED
      BY <2>2, ZenonT(30)
  <1>2. CASE Workers
    <2>1. ASSUME NEW P, NEW expires, LeaseJobs(P, expires) PROVE db'.closing = db.closing
      BY <2>1, ZenonT(30) DEF LeaseJobs
    <2>2. ASSUME NEW j, NEW attempt, Ack(j, attempt) PROVE db'.closing = db.closing
      BY <2>2, ZenonT(30) DEF Ack, RemoveRows
    <2>3. ASSUME NEW j, NEW attempt, NEW reject, NackDead(j, attempt, reject)
          PROVE  db'.closing = db.closing
      BY <2>3, ZenonT(30) DEF NackDead, RemoveRows
    <2>4. ASSUME NEW j, NEW attempt, NEW ms, NackRetry(j, attempt, ms) \/ Extend(j, attempt, ms)
          PROVE  db'.closing = db.closing
      BY <2>4, ZenonT(30) DEF NackRetry, Extend
    <2>5. db'.closing = db.closing
      BY <1>2, <2>1, <2>2, <2>3, <2>4, ZenonT(30) DEF Workers, Reserve
    <2> QED
      BY <2>5
  <1>3. CASE DeadLetterOperators
    <2>1. ASSUME NEW q, NEW R, RequeueDeadLetters(q, R) PROVE db'.closing = db.closing
      BY <2>1 DEF RequeueDeadLetters
    <2>2. ASSUME NEW K, DropDeadLetters(K) PROVE db'.closing = db.closing
      BY <2>2, ZenonT(30) DEF DropDeadLetters
    <2>3. ASSUME NEW q, NEW R, NEW S, DeadLetterJobs(q, R, S) PROVE db'.closing = db.closing
      BY <2>3, ZenonT(30) DEF DeadLetterJobs, RemoveRows
    <2>4. db'.closing = db.closing
      BY <1>3, <2>1, <2>2, <2>3, ZenonT(30)
      DEF DeadLetterOperators, Requeues, DrainDeadLetters, DeleteDeadLetters
    <2> QED
      BY <2>4
  <1>4. CASE Sweep
    <2>1. PICK S, L, T, D : SweepOf(S, L, T, D)
      BY <1>4, ZenonT(30) DEF Sweep
    <2>2. db'.closing = Drop(db.closing, LapsedClosings)
      BY <2>1, ZenonT(30) DEF SweepOf, RemoveRows
    <2> QED
      BY <2>2, ZenonT(30) DEF Drop
  <1>5. CASE Purges
    <2>1. PICK R, S, D, T : PurgeOf(R, S, D, T)
      BY <1>5, ZenonT(30) DEF Purges, PurgeQueueChunk
    <2> QED
      BY <2>1, ZenonT(30) DEF PurgeOf, RemoveRows
  <1>6. CASE Tick \/ UNCHANGED vars
    BY <1>6 DEF Tick, vars
  <1> QED
    BY <1>1, <1>2, <1>3, <1>4, <1>5, <1>6, ZenonT(30)

-----------------------------------------------------------------------------
(* The invariant. *)

LEMMA DeletingInit == ASSUME DInit PROVE Deleting
PROOF
  <1>1. InForce /\ StaysEmpty
    BY DEF DInit, Running, At, InForce, StaysEmpty
  <1>2. TombstoneLifted
    BY DEF DInit, Init, TombstoneLifted
  <1> QED
    BY <1>1, <1>2, DTypeInit DEF Deleting

LEMMA GoTos ==
  ASSUME DType, NEW step \in Steps, GoTo(step)
  PROVE  /\ del'.at = step /\ del'.queue = del.queue /\ del'.purge = del.purge
         /\ step # "idle" => del'.lapsed = del.lapsed /\ del'.undone = del.undone
  BY DEF DType, GoTo

LEMMA Misled ==
  ASSUME DType, CheckUndone
  PROVE  /\ ~At("idle") /\ del'.at = "purge" /\ del'.queue = del.queue
         /\ del'.lapsed = del.lapsed /\ del'.undone
         /\ UNCHANGED <<vars, abandoned>>
  BY DEF DType, CheckUndone, At

LEMMA Closed ==
  ASSUME Placement, NEW q \in Queue, CloseQueue(q)
  PROVE  /\ Closing(q)'
         /\ \A p \in Queue : p # q => db'.closing[p] = db.closing[p]
PROOF
  <1>1. /\ ix'.closing = [ix.closing EXCEPT ![q] = now + CloseGraceMs]
        /\ db'.closing = [db.closing EXCEPT ![q] = now + CloseGraceMs]
        /\ now' = now
    BY DEF CloseQueue, Placement, TypeOK
  <1>2. now \in Int /\ CloseGraceMs \in Nat /\ CloseGraceMs > 0
    BY TimeAssumption, BoundsAssumption, GraceAssumption, ZenonT(30) DEF Placement, TypeOK
  <1>3. ix'.closing[q] = now + CloseGraceMs /\ now + CloseGraceMs \in Int
    BY <1>1, <1>2 DEF Placement, TypeOK
  <1>4. ix'.closing[q] # None
    BY <1>3, NoneAssumption
  <1>5. Closing(q)'
    BY <1>1, <1>2, <1>3, <1>4 DEF Closing
  <1> QED
    BY <1>1, <1>5, ZenonT(30) DEF Placement, TypeOK

\* A tombstone in force survives everything but the clock and the handler.
LEMMA StillClosing ==
  ASSUME Mirror, Mirror', NEW q \in Queue, Closing(q), now' = now,
         db'.closing[q] = db.closing[q] \/ q \in LapsedClosings
  PROVE  Closing(q)'
PROOF
  <1>1. ix.closing[q] \in Int /\ now \in Int /\ ix.closing[q] > now
    BY TimeAssumption, ZenonT(30) DEF Closing, Mirror, Placement, TypeOK
  <1>2. q \notin LapsedClosings
    BY <1>1 DEF LapsedClosings
  <1>3. ix'.closing = db'.closing /\ ix.closing = db.closing
    BY DEF Mirror, ClosingMirror
  <1> QED
    BY <1>2, <1>3, ZenonT(30) DEF Closing

\* The traffic of the queue leaves the clock alone.
LEMMA TrafficTime ==
  ASSUME Producers \/ Workers \/ DeadLetterOperators \/ Sweep \/ Purges
  PROVE  now' = now
PROOF
  <1>1. CASE Producers
    <2>1. ASSUME NEW A, NEW req, InsertJobs(A, req) PROVE now' = now
      BY <2>1 DEF InsertJobs
    <2> QED
      BY <1>1, <2>1, ZenonT(30) DEF Producers, Enqueue, EnqueueAtomic
  <1>2. CASE Workers
    BY <1>2, ZenonT(30) DEF Workers, Reserve, LeaseJobs, Ack, NackDead, NackRetry, Extend
  <1>3. CASE DeadLetterOperators
    <2>1. ASSUME NEW q, NEW R, RequeueDeadLetters(q, R) PROVE now' = now
      BY <2>1, ZenonT(30) DEF RequeueDeadLetters
    <2> QED
      BY <1>3, <2>1, ZenonT(30)
      DEF DeadLetterOperators, Requeues, DrainDeadLetters, DeleteDeadLetters,
          DropDeadLetters, DeadLetterJobs
  <1>4. CASE Sweep
    BY <1>4 DEF Sweep
  <1>5. CASE Purges
    <2>1. PICK R, S, D, T : PurgeOf(R, S, D, T)
      BY <1>5 DEF Purges, PurgeQueueChunk
    <2> QED
      BY <2>1 DEF PurgeOf
  <1> QED
    BY <1>1, <1>2, <1>3, <1>4, <1>5, ZenonT(30)

LEMMA InForceNext ==
  ASSUME Mirror, Mirror', DType, InForce, [DNext]_dvars
  PROVE  InForce'
PROOF
  <1>0. PICK q \in Queue : q = del.queue
    BY DoomedAssumption DEF DType
  <1>1. q \in Queue /\ Placement
    BY DEF Mirror
  <1>2. ASSUME now' = now, del'.queue = q, del'.lapsed = del.lapsed, ~At("idle"),
               db'.closing[q] = db.closing[q] \/ q \in LapsedClosings
        PROVE  InForce'
    <2>1. CASE del.lapsed
      BY <1>2, <2>1, ZenonT(30) DEF InForce
    <2>2. CASE ~del.lapsed
      BY <1>0, <1>1, <1>2, <2>2, StillClosing, ZenonT(30) DEF InForce
    <2> QED
      BY <2>1, <2>2
  <1>3. ASSUME del'.at = "idle" PROVE InForce'
    BY <1>3 DEF InForce, At
  <1>4. CASE \E r \in Doomed, purge \in BOOLEAN : Begin(r, purge)
    <2>1. PICK r \in Doomed : CloseQueue(r) /\ del'.queue = r
      BY <1>4 DEF Begin, Running
    <2> QED
      BY <1>1, <2>1, Closed, DoomedAssumption, ZenonT(30) DEF InForce
  <1>5. CASE Check \/ PurgeRefused \/ CallFails
    <2>1. UNCHANGED vars /\ ~At("idle")
      BY <1>5 DEF Check, PurgeRefused, CallFails, At
    <2>2. PICK step \in Steps \ {"idle"} : GoTo(step)
      BY <1>5 DEF Check, PurgeRefused, CallFails, Steps
    <2>3. del'.queue = q /\ del'.lapsed = del.lapsed
      BY <1>0, <2>2, GoTos
    <2> QED
      BY <1>2, <2>1, <2>3 DEF vars
  <1>6. CASE PurgeStep
    <2>1. Chunk(q) /\ ~At("idle")
      BY <1>0, <1>6 DEF PurgeStep, At
    <2>2. PICK step \in Steps \ {"idle"} : GoTo(step)
      BY <1>6, ZenonT(30) DEF PurgeStep, Steps
    <2>3. del'.queue = q /\ del'.lapsed = del.lapsed
      BY <1>0, <2>2, GoTos
    <2>4. Purges \/ UNCHANGED vars
      BY <1>1, <2>1 DEF Chunk, Purges
    <2>5. now' = now
      BY <2>4, TrafficTime DEF vars
    <2> QED
      BY <1>1, <1>2, <2>1, <2>3, <2>4, <2>5, ClosingKept, ZenonT(30)
  <1>7. CASE Refresh
    <2>1. CloseQueue(q) /\ GoTo("purge")
      BY <1>0, <1>7, ZenonT(30) DEF Refresh
    <2>2. del'.queue = q
      BY <1>0, <2>1, GoTos, ZenonT(30) DEF Steps
    <2>3. Closing(q)'
      BY <1>1, <2>1, Closed, ZenonT(30)
    <2> QED
      BY <2>2, <2>3 DEF InForce
  <1>8. CASE Reopen \/ ReopenFails \/ Die
    BY <1>3, <1>8, GoTos, ZenonT(30) DEF Reopen, ReopenFails, Die, Steps
  <1>9. CASE Traffic
    <2>1. CASE DTick
      <3>1. /\ Tick /\ del' = [del EXCEPT !.lapsed = @ \/ (~At("idle") /\ Lapsed(q, now'))]
        BY <1>0, <2>1 DEF DTick
      <3>2. /\ del'.at = del.at /\ del'.queue = q
            /\ del'.lapsed = (del.lapsed \/ (~At("idle") /\ Lapsed(q, now')))
        BY <1>0, <3>1 DEF DType
      <3>3. ix' = ix /\ now' \in Int
        BY <3>1, TimeAssumption, ZenonT(30) DEF Tick
      <3>4. ix.closing[q] \in Int \cup {None}
        BY <1>1, ZenonT(30) DEF Placement, TypeOK
      <3>5. ~Lapsed(q, now') => Closing(q)'
        BY <3>3, <3>4 DEF Lapsed, Closing
      <3> QED
        BY <3>2, <3>5, ZenonT(30) DEF InForce, At
    <2>2. CASE UNCHANGED del /\ (Producers \/ Workers \/ DeadLetterOperators \/ Sweep)
      <3>1. now' = now
        BY <2>2, TrafficTime
      <3>2. db'.closing[q] = db.closing[q] \/ q \in LapsedClosings
        BY <1>1, <2>2, ClosingKept, ZenonT(30)
      <3> QED
        BY <1>0, <1>2, <1>3, <2>2, <3>1, <3>2, ZenonT(30) DEF At
    <2> QED
      BY <1>9, <2>1, <2>2, ZenonT(30) DEF Traffic
  <1>10. CASE UNCHANGED dvars
    BY <1>10 DEF dvars, vars, InForce, Closing, At
  <1>11. CASE CheckUndone
    BY <1>0, <1>2, <1>11, Misled, ZenonT(30) DEF vars
  <1> QED
    BY <1>4, <1>5, <1>6, <1>7, <1>8, <1>9, <1>10, <1>11, ZenonT(30) DEF DNext

LEMMA StaysEmptyNext ==
  ASSUME Mirror, DType, InForce, StaysEmpty, [DNext]_dvars
  PROVE  StaysEmpty'
PROOF
  <1>1. PICK q \in Queue : q = del.queue
    BY DoomedAssumption DEF DType
  <1>2. [Next]_vars /\ Placement
    BY DStepStore DEF Mirror
  <1>3. ASSUME At("purge") \/ At("refresh"), del'.queue = q, del'.purge = del.purge,
               ~del'.lapsed => ~del.lapsed, del'.undone = del.undone
        PROVE  StaysEmpty'
    <2>1. CASE del.purge \/ del'.lapsed \/ del.undone
      BY <1>3, <2>1 DEF StaysEmpty
    <2>2. CASE ~del.purge /\ ~del'.lapsed /\ ~del.undone
      <3>1. Closing(q) /\ Emptied(q)
        BY <1>1, <1>3, <2>2 DEF InForce, StaysEmpty, At
      <3>2. Emptied(q)'
        BY <1>2, <3>1, EmptiedKept
      <3> QED
        BY <1>3, <3>2 DEF StaysEmpty
    <2> QED
      BY <2>1, <2>2
  <1>4. ASSUME del'.at \notin {"purge", "refresh"} PROVE StaysEmpty'
    BY <1>4 DEF StaysEmpty, At
  <1>5. CASE \E r \in Doomed, purge \in BOOLEAN : Begin(r, purge)
    BY <1>4, <1>5 DEF Begin, Running
  <1>6. CASE Check
    <2>1. CASE ~Deletable(q)
      BY <1>1, <1>4, <1>6, <2>1, GoTos, ZenonT(30) DEF Check, Steps
    <2>2. CASE Deletable(q)
      <3>1. /\ GoTo("purge") /\ UNCHANGED vars /\ del'.queue = q
            /\ del'.purge = del.purge
        BY <1>1, <1>6, <2>2, GoTos, ZenonT(30) DEF Check, Steps
      <3>2. CASE del.purge
        BY <3>1, <3>2 DEF StaysEmpty
      <3>3. CASE ~del.purge
        <4>1. Emptied(q)
          BY <2>2, <3>3, NotCountedEmpty, NoRowsEmptied, ZenonT(30) DEF Deletable, NotCounted
        <4>2. Emptied(q)'
          BY <3>1, <4>1, ZenonT(30) DEF Emptied, Over, vars
        <4> QED
          BY <3>1, <4>2, ZenonT(30) DEF StaysEmpty
      <3> QED
        BY <3>2, <3>3
    <2> QED
      BY <2>1, <2>2, ZenonT(30)
  <1>7. CASE PurgeStep \/ Refresh
    <2>1. At("purge") \/ At("refresh")
      BY <1>7 DEF PurgeStep, Refresh
    <2>2. PICK step \in Steps \ {"idle"} : GoTo(step)
      BY <1>7 DEF PurgeStep, Refresh, Steps
    <2> QED
      BY <1>1, <1>3, <2>1, <2>2, GoTos, ZenonT(30)
  <1>8. CASE PurgeRefused \/ CallFails \/ Reopen \/ ReopenFails \/ Die
    <2>1. GoTo("open") \/ GoTo("idle")
      BY <1>8 DEF PurgeRefused, CallFails, Reopen, ReopenFails, Die
    <2> QED
      BY <1>4, <2>1, GoTos, ZenonT(30) DEF Steps
  <1>9. CASE Traffic \/ UNCHANGED dvars
    <2>1. /\ del'.at = del.at /\ del'.queue = q /\ del'.purge = del.purge
          /\ ~del'.lapsed => ~del.lapsed
          /\ del'.undone = del.undone
      BY <1>1, <1>9 DEF Traffic, DTick, dvars, DType
    <2> QED
      BY <1>3, <1>4, <2>1 DEF At
  <1>10. CASE CheckUndone
    BY <1>10, Misled, ZenonT(30) DEF StaysEmpty
  <1> QED
    BY <1>5, <1>6, <1>7, <1>8, <1>9, <1>10, ZenonT(30) DEF DNext

LEMMA TombstoneNext ==
  ASSUME Mirror, DType, TombstoneLifted, [DNext]_dvars
  PROVE  TombstoneLifted'
PROOF
  <1>1. PICK q \in Queue : q = del.queue
    BY DoomedAssumption DEF DType
  <1>2. Placement /\ ix.closing = db.closing
    BY DEF Mirror, ClosingMirror
  <1>3. ASSUME \A p \in Queue : db'.closing[p] = db.closing[p] \/ db'.closing[p] = None,
               del'.queue = q, abandoned' = abandoned, At("idle") \/ ~At("idle")'
        PROVE  TombstoneLifted'
    BY <1>1, <1>3 DEF TombstoneLifted
  <1>4. CASE \E r \in Doomed, purge \in BOOLEAN : Begin(r, purge)
    <2>1. PICK r \in Queue : /\ At("idle") /\ CloseQueue(r) /\ abandoned' = abandoned \ {r}
                             /\ del'.at = "check" /\ del'.queue = r
      BY <1>4, DoomedAssumption DEF Begin, Running
    <2>2. \A p \in Queue : p # r => db'.closing[p] = db.closing[p]
      BY <1>2, <2>1, Closed, ZenonT(30)
    <2> QED
      BY <2>1, <2>2 DEF TombstoneLifted, At
  <1>5. CASE Check \/ PurgeRefused \/ CallFails
    <2>1. UNCHANGED <<vars, abandoned>> /\ ~At("idle")
      BY <1>5 DEF Check, PurgeRefused, CallFails, At
    <2>2. PICK step \in Steps \ {"idle"} : GoTo(step)
      BY <1>5 DEF Check, PurgeRefused, CallFails, Steps
    <2> QED
      BY <1>1, <1>3, <2>1, <2>2, GoTos, ZenonT(30) DEF vars, At
  <1>6. CASE PurgeStep
    <2>1. Chunk(q) /\ abandoned' = abandoned
      BY <1>1, <1>6 DEF PurgeStep
    <2>2. PICK step \in Steps \ {"idle"} : GoTo(step)
      BY <1>6 DEF PurgeStep, Steps
    <2>3. Purges \/ UNCHANGED vars
      BY <1>1, <2>1 DEF Chunk, Purges
    <2>4. \A p \in Queue : db'.closing[p] = db.closing[p] \/ db'.closing[p] = None
      BY <1>2, <2>3, ClosingKept
    <2>5. del'.queue = q /\ ~At("idle")'
      BY <1>1, <2>2, GoTos DEF At
    <2> QED
      BY <1>3, <2>1, <2>4, <2>5
  <1>7. CASE Refresh
    <2>1. CloseQueue(q) /\ GoTo("purge") /\ abandoned' = abandoned
      BY <1>1, <1>7 DEF Refresh
    <2>2. \A p \in Queue : p # q => db'.closing[p] = db.closing[p]
      BY <1>2, <2>1, Closed
    <2>3. del'.queue = q /\ del'.at = "purge"
      BY <1>1, <2>1, GoTos DEF Steps
    <2> QED
      BY <1>1, <2>1, <2>2, <2>3, ZenonT(30) DEF TombstoneLifted, At
  <1>8. CASE Reopen
    <2>1. /\ OpenQueue(q) \/ (ix.closing[q] = None /\ UNCHANGED vars)
          /\ abandoned' = abandoned
      BY <1>1, <1>8 DEF Reopen
    <2>2. db'.closing[q] = None /\ \A p \in Queue : p # q => db'.closing[p] = db.closing[p]
      <3>1. CASE OpenQueue(q)
        BY <1>2, <3>1, ZenonT(30) DEF OpenQueue, Placement, TypeOK
      <3>2. CASE ix.closing[q] = None /\ UNCHANGED vars
        BY <1>2, <3>2, Zenon DEF vars
      <3> QED
        BY <2>1, <3>1, <3>2, Zenon
    <2> QED
      BY <1>1, <2>1, <2>2 DEF TombstoneLifted
  <1>9. CASE ReopenFails \/ Die
    <2>1. UNCHANGED vars /\ abandoned' = abandoned \cup {q}
      BY <1>1, <1>9 DEF ReopenFails, Die
    <2> QED
      BY <1>1, <2>1 DEF TombstoneLifted, vars
  <1>10. CASE Traffic \/ UNCHANGED dvars
    <2>1. del'.at = del.at /\ del'.queue = q /\ abandoned' = abandoned
      BY <1>1, <1>10 DEF Traffic, DTick, dvars, DType
    <2>2. Producers \/ Workers \/ DeadLetterOperators \/ Sweep \/ Tick \/ UNCHANGED vars
      BY <1>10 DEF Traffic, DTick, dvars
    <2>3. \A p \in Queue : db'.closing[p] = db.closing[p] \/ db'.closing[p] = None
      BY <1>2, <2>2, ClosingKept
    <2> QED
      BY <1>1, <2>1, <2>3 DEF TombstoneLifted, At
  <1>11. CASE CheckUndone
    BY <1>1, <1>3, <1>11, Misled, ZenonT(30) DEF vars, At
  <1> QED
    BY <1>4, <1>5, <1>6, <1>7, <1>8, <1>9, <1>10, <1>11, ZenonT(30) DEF DNext

LEMMA DeletingHolds == DSpec => [](Mirror /\ Deleting)
PROOF
  <1>1. DInit => Mirror /\ Deleting
    BY MirrorInit, DeletingInit, ZenonT(30) DEF DInit
  <1>2. ASSUME Mirror, Deleting, [DNext]_dvars PROVE Mirror' /\ Deleting'
    <2>1. Mirror'
      BY <1>2, DStepStore, NextMirror DEF Deleting
    <2> QED
      BY <1>2, <2>1, DTypeNext, InForceNext, StaysEmptyNext, TombstoneNext, ZenonT(30) DEF Deleting
  <1> QED
    BY <1>1, <1>2, PTL DEF DSpec

-----------------------------------------------------------------------------
(* Purges. *)

\* What a purge chunk of queue q takes out of the indexes.
LEMMA Purged ==
  ASSUME NEW q, NEW n, PurgeQueueChunk(q, n)
  PROVE  \E R \in SUBSET Owned(ix.ready, q), S \in SUBSET Owned(ix.scheduled, q),
            D \in SUBSET Owned(ix.dead_letter, q),
            T \in SUBSET Owned(ix.dedup_timers, q) : PurgeOf(R, S, D, T)
  BY ZenonT(30) DEF PurgeQueueChunk, FirstOf

\* The jobs a queue's index entries stand for are waiting jobs of the queue.
LEMMA OwnedJobs ==
  ASSUME Mirror, NEW q
  PROVE  /\ \A e \in Owned(ix.ready, q) :
               e.job \in Job /\ db.jobs[e.job] # None /\ db.jobs[e.job].queue = q
                  /\ db.inflight[e.job] = None
         /\ \A t \in Owned(ix.scheduled, q) :
               t.job \in Job /\ db.jobs[t.job] # None /\ db.jobs[t.job].queue = q
                  /\ db.inflight[t.job] = None
PROOF
  <1>1. ASSUME NEW e \in Owned(ix.ready, q)
        PROVE  e.job \in Job /\ db.jobs[e.job] # None /\ db.jobs[e.job].queue = q
                  /\ db.inflight[e.job] = None
    <2>1. e \in db.ready /\ e.queue = q
      BY DEF Owned, Mirror, Placement, PlacesIndexed
    <2>2. e = ReadyKey(e.job, db.jobs[e.job], e.attempt)
      BY <2>1 DEF Mirror, Placement, CopiesAgree
    <2>3. e.queue = db.jobs[e.job].queue
      BY <2>2 DEF ReadyKey
    <2> QED
      BY <2>1, <2>3, Fields, ZenonT(30) DEF Mirror, Placement, NoJobDuplicated
  <1>2. ASSUME NEW t \in Owned(ix.scheduled, q)
        PROVE  t.job \in Job /\ db.jobs[t.job] # None /\ db.jobs[t.job].queue = q
                  /\ db.inflight[t.job] = None
    <2>1. t \in ix.scheduled /\ t.queue = q /\ t.queue = db.jobs[t.job].queue
      BY DEF Owned, Mirror, Placement, PlacesIndexed
    <2>2. PICK u \in db.scheduled : u.job = t.job
      BY <2>1, IndexedTimers, ZenonT(30) DEF Mirror
    <2> QED
      BY <2>1, <2>2, Fields, ZenonT(30) DEF Mirror, Placement, NoJobDuplicated
  <1> QED
    BY <1>1, <1>2

LEMMA PurgeNothing ==
  ASSUME Mirror, NEW q, NoRows(q), NEW n, PurgeQueueChunk(q, n)
  PROVE  db'.jobs = db.jobs /\ db'.dead_letter = db.dead_letter
PROOF
  <1>1. PICK R \in SUBSET Owned(ix.ready, q) : \E S \in SUBSET Owned(ix.scheduled, q),
            D \in SUBSET Owned(ix.dead_letter, q),
            T \in SUBSET Owned(ix.dedup_timers, q) : PurgeOf(R, S, D, T)
    BY Purged
  <1>2. PICK S \in SUBSET Owned(ix.scheduled, q),
             D \in SUBSET Owned(ix.dead_letter, q),
             T \in SUBSET Owned(ix.dedup_timers, q) : PurgeOf(R, S, D, T)
    BY <1>1, ZenonT(30)
  <1>3. R = {} /\ S = {}
    BY OwnedJobs DEF NoRows
  <1>4. D = {}
    <2>1. \A k \in ix.dead_letter : \E e \in db.dead_letter : k.queue = e.queue
      BY DEF Mirror, LettersMirror, KeysOf, DeadLetterKey
    <2> QED
      BY <2>1 DEF NoRows, Owned
  <1>5. /\ db'.jobs = Drop(db.jobs, {e.job : e \in R \cup S})
        /\ db'.dead_letter = {e \in db.dead_letter : DeadLetterKey(e) \notin D}
    BY <1>2, ZenonT(30) DEF PurgeOf, RemoveRows, Mirror, Placement, TypeOK
  <1>6. db'.jobs = Drop(db.jobs, {})
    BY <1>3, <1>5, ZenonT(30)
  <1>7. db.jobs \in [Job -> JobRow \cup {None}]
    BY Zenon DEF Mirror, Placement, TypeOK
  <1> QED
    BY <1>4, <1>5, <1>6, <1>7 DEF Drop

\* What a purge chunk leaves of the rows that are not its queue's.
OthersKept(q) ==
    /\ \A j \in Job : db.jobs[j] # None /\ db.jobs[j].queue # q =>
          db'.jobs[j] = db.jobs[j] /\ db'.payloads[j] = db.payloads[j]
    /\ Elsewhere(db.ready, q) \subseteq db'.ready
    /\ \A t \in db.scheduled : db.jobs[t.job].queue # q => t \in db'.scheduled
    /\ Elsewhere(db.dead_letter, q) \subseteq db'.dead_letter
    /\ \A k \in Queue \X Key : k[1] # q => db'.dedup[k] = db.dedup[k]

LEMMA PurgeSpares ==
  ASSUME Mirror, NEW q \in Queue, NEW n, PurgeQueueChunk(q, n)
  PROVE  OthersKept(q)
PROOF
  <1>1. PICK R \in SUBSET Owned(ix.ready, q) : \E S \in SUBSET Owned(ix.scheduled, q),
            D \in SUBSET Owned(ix.dead_letter, q),
            T \in SUBSET Owned(ix.dedup_timers, q) : PurgeOf(R, S, D, T)
    BY Purged, ZenonT(30)
  <1>2. PICK S \in SUBSET Owned(ix.scheduled, q),
             D \in SUBSET Owned(ix.dead_letter, q),
             T \in SUBSET Owned(ix.dedup_timers, q) : PurgeOf(R, S, D, T)
    BY <1>1, ZenonT(30)
  <1> DEFINE J == {e.job : e \in R \cup S}
             K == {<<t.queue, t.key>> : t \in T}
  <1>3. /\ db'.jobs = Drop(db.jobs, J) /\ db'.payloads = Drop(db.payloads, J)
        /\ db'.ready = db.ready \ R
        /\ db'.scheduled = Without(db.scheduled, {TimerKey(t) : t \in S})
        /\ db'.dead_letter = {e \in db.dead_letter : DeadLetterKey(e) \notin D}
        /\ db'.dedup = Drop(db.dedup, K)
    BY <1>2, ZenonT(30) DEF PurgeOf, RemoveRows, Mirror, Placement, TypeOK
  <1>4. \A j \in J : db.jobs[j].queue = q
    BY OwnedJobs
  <1>5. \A k \in K : k[1] = q
    BY DEF Owned
  <1>6. \A t \in db.scheduled : TimerKey(t) \in {TimerKey(u) : u \in S} => t.job \in J
    <2>1. \A t, u : TimerKey(t) = TimerKey(u) => t.job = u.job
      BY DEF TimerKey
    <2> QED
      BY <2>1, Zenon
  <1>7. \A e \in db.dead_letter : DeadLetterKey(e) \in D => e.queue = q
    BY DEF DeadLetterKey, Owned
  <1>8. \A e \in R : e.queue = q
    BY DEF Owned
  <1> HIDE DEF J, K
  <1>9. \A j \in Job : db.jobs[j] # None /\ db.jobs[j].queue # q =>
           db'.jobs[j] = db.jobs[j] /\ db'.payloads[j] = db.payloads[j]
    <2>1. DOMAIN db.jobs = Job /\ DOMAIN db.payloads = Job
      BY ZenonT(30) DEF Mirror, Placement, TypeOK
    <2> QED
      BY <1>3, <1>4, <2>1, ZenonT(30) DEF Drop
  <1>10. \A k \in Queue \X Key : k[1] # q => db'.dedup[k] = db.dedup[k]
    <2>1. DOMAIN db.dedup = Queue \X Key
      BY ZenonT(30) DEF Mirror, Placement, TypeOK
    <2> QED
      BY <1>3, <1>5, <2>1, ZenonT(30) DEF Drop
  <1>11. \A t \in db.scheduled : db.jobs[t.job].queue # q => t \in db'.scheduled
    BY <1>3, <1>4, <1>6, ZenonT(30) DEF Without
  <1>12. /\ Elsewhere(db.ready, q) \subseteq db'.ready
         /\ Elsewhere(db.dead_letter, q) \subseteq db'.dead_letter
    BY <1>3, <1>7, <1>8, ZenonT(30) DEF Elsewhere
  <1> QED
    BY <1>9, <1>10, <1>11, <1>12, Zenon DEF OthersKept

\* The lease index the purge consults has an entry for every job in flight.
LEMMA PurgeWhenIdle ==
  ASSUME Mirror, NEW q \in Queue, NEW n, PurgeQueueChunk(q, n)
  PROVE  \A j \in InFlight : db.inflight[j].queue # q
PROOF
  <1>1. Owned(ix.leases, q) = {}
    BY Zenon DEF PurgeQueueChunk
  <1>2. \A j \in InFlight : LeaseEntry(j) \in ix.leases
    BY Zenon DEF Mirror, LeasesMirror
  <1>3. \A j \in InFlight : LeaseEntry(j).queue = db.inflight[j].queue
    BY DEF LeaseEntry, TimerEntry
  <1> QED
    BY <1>1, <1>2, <1>3, ZenonT(30) DEF Owned

\* Nothing of the queue is left once the indexes have nothing of it.
NothingLeft ==
    \A q \in Queue : Owned(ix.leases, q) = {} /\ ~Remaining(ix, q) =>
        NoRows(q) /\ \A k \in Key : db.dedup[<<q, k>>] = None

LEMMA MirrorLeft == Mirror => NothingLeft
PROOF
  <1> SUFFICES ASSUME Mirror, NEW q \in Queue, Owned(ix.leases, q) = {}, ~Remaining(ix, q)
               PROVE  NoRows(q) /\ \A k \in Key : db.dedup[<<q, k>>] = None
    BY DEF NothingLeft
  <1>1. NoRows(q)
    BY NotCountedEmpty DEF Remaining, NotCounted
  <1>2. ASSUME NEW k \in Key, db.dedup[<<q, k>>] # None PROVE FALSE
    <2>1. <<q, k>> \in Deduped
      BY <1>2 DEF Deduped
    <2>2. DedupTimerOf(<<q, k>>) \in ix.dedup_timers
      BY <2>1 DEF Mirror, DedupMirror
    <2>3. DedupTimerOf(<<q, k>>).queue = q
      BY DEF DedupTimerOf
    <2> QED
      BY <2>2, <2>3 DEF Remaining, Owned
  <1> QED
    BY <1>1, <1>2

LEMMA MirrorLeftNext == Mirror' => NothingLeft'
  BY MirrorLeft, PTL

\* Whatever runs between the emptiness check and the purge, a delete without
\* purge=true removes no job and no dead letter while its tombstone is in force,
\* if the batch its depths were read in was committed (admin/routes.rs,
\* delete_queue; storage.rs, run_rpc_cycle).
THEOREM DeletesNeverPurgeSilently == DSpec => NoSilentPurge
PROOF
  <1>1. ASSUME Mirror, Deleting, PurgeStep,
               ~del.purge, ~del.lapsed, ~del.undone
        PROVE  db'.jobs = db.jobs /\ db'.dead_letter = db.dead_letter
    <2>1. NoRows(del.queue)
      BY <1>1, EmptiedNoRows, ZenonT(30) DEF Deleting, StaysEmpty, PurgeStep
    <2>2. CASE PurgeQueueChunk(del.queue, PurgeChunk)
      BY <1>1, <2>1, <2>2, PurgeNothing, ZenonT(30)
    <2>3. CASE UNCHANGED vars
      BY <2>3 DEF vars
    <2> QED
      BY <1>1, <2>2, <2>3, ZenonT(30) DEF PurgeStep, Chunk
  <1>2. Mirror /\ Deleting =>
           [PurgeStep /\ ~del.purge /\ ~del.lapsed /\ ~del.undone =>
               db'.jobs = db.jobs /\ db'.dead_letter = db.dead_letter]_dvars
    BY <1>1
  <1> QED
    BY <1>2, DeletingHolds, PTL DEF NoSilentPurge

\* When the last chunk reports nothing remaining, the queue has left no job, no
\* dead letter and no idempotency key behind, whatever ran between the chunks.
THEOREM DeletedAlwaysEmpty == DSpec => DeletedIsEmpty
PROOF
  <1>1. ASSUME Mirror, Mirror', Deleting, PurgeStep, del'.at = "open"
        PROVE  /\ \A j \in Job : db'.jobs[j] # None => db'.jobs[j].queue # del.queue
               /\ \A e \in db'.dead_letter : e.queue # del.queue
               /\ \A k \in Key : db'.dedup[<<del.queue, k>>] = None
    <2>1. PICK q \in Queue : q = del.queue
      BY <1>1, DoomedAssumption, ZenonT(30) DEF Deleting, DType
    <2>2. ~Remaining(ix', q)
      BY <1>1, <2>1, GoTos, ZenonT(30) DEF PurgeStep, Deleting, Steps
    <2>3. Owned(ix'.leases, q) = {}
      <3>1. Owned(ix.leases, q) = {}
        BY <1>1, <2>1, ZenonT(30) DEF PurgeStep, Chunk, PurgeQueueChunk
      <3>2. ix'.leases = ix.leases
        <4>1. CASE PurgeQueueChunk(q, PurgeChunk)
          <5>1. PICK R, S, D, T : PurgeOf(R, S, D, T)
            BY <4>1 DEF PurgeQueueChunk
          <5> QED
            BY <1>1, <5>1, ZenonT(30) DEF PurgeOf, Mirror, Placement, TypeOK
        <4> QED
          BY <1>1, <2>1, <4>1, ZenonT(30) DEF PurgeStep, Chunk, vars
      <3> QED
        BY <3>1, <3>2, ZenonT(30)
    <2>4. NothingLeft'
      BY <1>1, MirrorLeftNext, ZenonT(30)
    <2>5. NoRows(q)' /\ \A k \in Key : db'.dedup[<<q, k>>] = None
      BY <2>2, <2>3, <2>4, ZenonT(30) DEF NothingLeft
    <2> QED
      BY <2>1, <2>5 DEF NoRows
  <1>2. Mirror /\ Mirror' /\ Deleting =>
           [PurgeStep /\ del'.at = "open" =>
               /\ \A j \in Job : db'.jobs[j] # None => db'.jobs[j].queue # del.queue
               /\ \A e \in db'.dead_letter : e.queue # del.queue
               /\ \A k \in Key : db'.dedup[<<del.queue, k>>] = None]_dvars
    BY <1>1
  <1> QED
    BY <1>2, DeletingHolds, PTL DEF DeletedIsEmpty

\* Every exit of the handler lifts its tombstone: a queue stays closed only
\* under a running handler, or after one that died or could not reopen it.
THEOREM TombstonesAlwaysLifted == DSpec => []TombstoneLifted
PROOF
  <1>1. Deleting => TombstoneLifted
    BY DEF Deleting
  <1> QED
    BY <1>1, DeletingHolds, PTL

\* Whatever ran before it, a purge goes ahead only without a job of its queue in
\* flight and keeps every row of the other queues (purge_queue_chunk).
THEOREM PurgesStayInQueue == Spec => PurgeStaysInQueue
PROOF
  <1>1. Mirror => [\A q \in Queue : PurgeQueueChunk(q, PurgeChunk) =>
             /\ \A j \in InFlight : db.inflight[j].queue # q
             /\ \A j \in Job : db.jobs[j] # None /\ db.jobs[j].queue # q =>
                   db'.jobs[j] = db.jobs[j] /\ db'.payloads[j] = db.payloads[j]
             /\ Elsewhere(db.ready, q) \subseteq db'.ready
             /\ \A t \in db.scheduled : db.jobs[t.job].queue # q => t \in db'.scheduled
             /\ Elsewhere(db.dead_letter, q) \subseteq db'.dead_letter
             /\ \A k \in Queue \X Key : k[1] # q => db'.dedup[k] = db.dedup[k]]_vars
    BY PurgeSpares, PurgeWhenIdle, Zenon DEF OthersKept
  <1> QED
    BY <1>1, MirrorHolds, PTL DEF PurgeStaysInQueue
=============================================================================
