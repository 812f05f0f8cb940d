---------------------------- MODULE DepthProofs -----------------------------
(***************************************************************************)
(* The depths of the store are the numbers of live jobs, so that the caps  *)
(* of queues hold, for every set of jobs, queues and keys and every bound. *)
(***************************************************************************)
EXTENDS MirrorProofs, FiniteSetTheorems

USE DEF ScheduledEntry, DedupTimer, OwnedTimer, TimerKeys

-----------------------------------------------------------------------------
(* Depths and caps. *)

\* At any time finitely many jobs were accepted.
Accepted == {j \in Job : minted[j] # None}

\* The jobs of a queue that are not over or dead.
LiveJobs(q) == {j \in Job : db.jobs[j] # None /\ db.jobs[j].queue = q}

\* The depth the indexes report is the number of live jobs.
DepthExact ==
    \A q \in Queue : IsFiniteSet(LiveJobs(q)) /\ LiveDepth(q) = Cardinality(LiveJobs(q))

\* Entries that stand for different jobs of a finite set are as many as their
\* jobs.
LEMMA ByJob ==
  ASSUME NEW E, NEW F, IsFiniteSet(F), \A e \in E : e.job \in F,
         \A e, f \in E : e.job = f.job => e = f
  PROVE  /\ IsFiniteSet(E) /\ IsFiniteSet({e.job : e \in E})
         /\ Cardinality(E) = Cardinality({e.job : e \in E})
PROOF
  <1> DEFINE G == {e.job : e \in E}
             f == [e \in E |-> e.job]
  <1>1. f \in Injection(E, F)
    BY DEF Injection, IsInjective
  <1>2. IsFiniteSet(E)
    BY <1>1, FS_Injection
  <1>3. f \in Bijection(E, G)
    <2>1. f \in [E -> G] /\ \A e, g \in E : f[e] = f[g] => e = g
      OBVIOUS
    <2>2. \A x \in G : \E e \in E : f[e] = x
      OBVIOUS
    <2> QED
      BY <2>1, <2>2 DEF Bijection, Injection, Surjection, IsInjective
  <1>4. ExistsBijection(E, G)
    BY <1>3 DEF ExistsBijection
  <1> QED
    BY <1>2, <1>4, FS_Bijection

LEMMA DisjointUnion ==
  ASSUME NEW S, NEW T, IsFiniteSet(S), IsFiniteSet(T), S \cap T = {}
  PROVE  /\ IsFiniteSet(S \cup T)
         /\ Cardinality(S \cup T) = Cardinality(S) + Cardinality(T)
PROOF
  <1>1. Cardinality(S \cap T) = 0
    BY FS_EmptySet
  <1>2. Cardinality(S) \in Nat /\ Cardinality(T) \in Nat
    BY FS_CardinalityType
  <1>3. /\ IsFiniteSet(S \cup T)
        /\ Cardinality(S \cup T) = Cardinality(S) + Cardinality(T) - Cardinality(S \cap T)
    BY FS_Union
  <1> QED
    BY <1>1, <1>2, <1>3

LEMMA ReadyJobs ==
  ASSUME Mirror, NEW q
  PROVE  /\ \A e \in Owned(ix.ready, q) : e.job \in LiveJobs(q)
         /\ \A e, f \in Owned(ix.ready, q) : e.job = f.job => e = f
PROOF
  <1>1. ix.ready = db.ready
    BY DEF Mirror, Placement, PlacesIndexed
  <1>2. ASSUME NEW e \in Owned(ix.ready, q) PROVE e.job \in LiveJobs(q)
    <2>1. e \in db.ready /\ e.queue = q
      BY <1>1, Zenon DEF Owned
    <2>2. e = ReadyKey(e.job, db.jobs[e.job], e.attempt)
      BY <2>1 DEF Mirror, Placement, CopiesAgree
    <2>3. e.queue = db.jobs[e.job].queue
      BY <2>2 DEF ReadyKey
    <2> QED
      BY <2>1, <2>3, Fields DEF Mirror, Placement, NoJobDuplicated, LiveJobs
  <1> QED
    BY <1>1, <1>2 DEF Owned, Mirror, Placement, NoJobDuplicated

LEMMA ScheduledJobs ==
  ASSUME Mirror, NEW q
  PROVE  /\ \A t \in Owned(ix.scheduled, q) : t.job \in LiveJobs(q)
         /\ \A t, u \in Owned(ix.scheduled, q) : t.job = u.job => t = u
PROOF
  <1>1. ASSUME NEW t \in ix.scheduled
        PROVE  \E u \in db.scheduled : u.job = t.job /\ u.deadline = t.deadline
    <2>1. PICK u \in db.scheduled : TimerKey(u) = TimerKey(t)
      BY DEF Mirror, Placement, PlacesIndexed
    <2> QED
      BY <2>1 DEF TimerKey
  <1>2. \A t \in ix.scheduled : t.queue = db.jobs[t.job].queue
    BY DEF Mirror, Placement, PlacesIndexed
  <1>3. \A t \in Owned(ix.scheduled, q) : t.job \in LiveJobs(q)
    BY <1>1, <1>2, Fields DEF Owned, Mirror, Placement, NoJobDuplicated, LiveJobs
  <1>4. ASSUME NEW t \in ix.scheduled, NEW u \in ix.scheduled, t.job = u.job PROVE t = u
    <2>1. t.deadline = u.deadline
      BY <1>1, <1>4 DEF Mirror, Placement, NoJobDuplicated
    <2>2. t \in [deadline : Int, job : Job, queue : Queue]
            /\ u \in [deadline : Int, job : Job, queue : Queue]
      BY DEF Mirror, Placement, TypeOK
    <2>3. t.queue = u.queue
      BY <1>2, <1>4
    <2> QED
      BY <1>4, <2>1, <2>2, <2>3
  <1> QED
    BY <1>3, <1>4 DEF Owned

LEMMA LeasedJobs ==
  ASSUME Mirror, NEW q
  PROVE  /\ \A t \in Owned(ix.leases, q) : t.job \in LiveJobs(q)
         /\ \A t, u \in Owned(ix.leases, q) : t.job = u.job => t = u
PROOF
  <1>1. \A t \in ix.leases : t.job \in InFlight /\ t = LeaseEntry(t.job)
    BY DEF Mirror, LeasesMirror, LeaseEntry, TimerEntry
  <1>2. ASSUME NEW t \in Owned(ix.leases, q) PROVE t.job \in LiveJobs(q)
    <2>1. t.job \in Job /\ db.inflight[t.job] # None /\ t.queue = q /\ t = LeaseEntry(t.job)
      BY <1>1 DEF Owned, InFlight
    <2>2. t.queue = db.inflight[t.job].queue
      BY <2>1 DEF LeaseEntry, TimerEntry
    <2>3. db.jobs[t.job] # None /\ db.jobs[t.job].queue = db.inflight[t.job].queue
      BY <2>1, FlightCopies, ZenonT(30) DEF Mirror, Placement, NoJobDuplicated
    <2> QED
      BY <2>1, <2>2, <2>3 DEF LiveJobs
  <1> QED
    BY <1>1, <1>2 DEF Owned

LEMMA DepthCounts ==
  ASSUME Mirror, IsFiniteSet(Accepted), NEW q \in Queue
  PROVE  IsFiniteSet(LiveJobs(q)) /\ LiveDepth(q) = Cardinality(LiveJobs(q))
PROOF
  <1> DEFINE R == {e.job : e \in Owned(ix.ready, q)}
             S == {e.job : e \in Owned(ix.scheduled, q)}
             L == {e.job : e \in Owned(ix.leases, q)}
  <1>1. LiveJobs(q) \subseteq Accepted
    BY DEF LiveJobs, Accepted, Mirror, Placement, Known
  <1>2. IsFiniteSet(LiveJobs(q))
    BY <1>1, FS_Subset
  <1>3. IsFiniteSet(R) /\ Cardinality(Owned(ix.ready, q)) = Cardinality(R)
    BY <1>2, ReadyJobs, ByJob, ZenonT(30)
  <1>4. IsFiniteSet(S) /\ Cardinality(Owned(ix.scheduled, q)) = Cardinality(S)
    BY <1>2, ScheduledJobs, ByJob
  <1>5. IsFiniteSet(L) /\ Cardinality(Owned(ix.leases, q)) = Cardinality(L)
    BY <1>2, LeasedJobs, ByJob, ZenonT(30)
  <1>6. LiveJobs(q) = R \cup S \cup L
    <2>1. R \cup S \cup L \subseteq LiveJobs(q)
      BY ReadyJobs, ScheduledJobs, LeasedJobs
    <2>2. ASSUME NEW j \in LiveJobs(q) PROVE j \in R \cup S \cup L
      <3>1. j \in Job /\ db.jobs[j] # None /\ db.jobs[j].queue = q
        BY DEF LiveJobs
      <3>2. CASE \E e \in db.ready : e.job = j
        <4>1. PICK e \in db.ready : e.job = j
          BY <3>2
        <4>2. e.queue = q
          BY <3>1, <4>1 DEF Mirror, Placement, CopiesAgree, ReadyKey
        <4> QED
          BY <4>1, <4>2 DEF Owned, Mirror, Placement, PlacesIndexed
      <3>3. CASE \E t \in db.scheduled : t.job = j
        <4>1. PICK t \in ix.scheduled : t.job = j
          BY <3>3, ZenonT(30) DEF Mirror, ScheduledMirror, TimerKey
        <4>2. t.queue = q
          BY <3>1, <4>1 DEF Mirror, Placement, PlacesIndexed
        <4> QED
          BY <4>1, <4>2 DEF Owned
      <3>4. CASE db.inflight[j] # None
        <4>1. db.inflight[j].queue = q
          BY <3>1, <3>4, FlightCopies, ZenonT(30) DEF Mirror, Placement
        <4>2. /\ LeaseEntry(j) \in ix.leases /\ LeaseEntry(j).queue = q
              /\ LeaseEntry(j).job = j
          BY <3>1, <3>4, <4>1, ZenonT(30) DEF Mirror, LeasesMirror, InFlight, LeaseEntry, TimerEntry
        <4> QED
          BY <4>2 DEF Owned
      <3> QED
        BY <3>1, <3>2, <3>3, <3>4, ZenonT(30) DEF Mirror, Placement, NoJobStranded
    <2> QED
      BY <2>1, <2>2
  <1>7. R \cap S = {} /\ (R \cup S) \cap L = {}
    <2>1. \A j \in R : \E e \in db.ready : e.job = j
      BY DEF Owned, Mirror, Placement, PlacesIndexed
    <2>2. \A j \in S : \E t \in db.scheduled : t.job = j
      BY IndexedTimers DEF Owned, Mirror
    <2>3. \A j \in L : db.inflight[j] # None
      BY DEF Owned, Mirror, LeasesMirror, LeaseEntry, TimerEntry, InFlight
    <2> HIDE DEF R, S, L
    <2> QED
      BY <2>1, <2>2, <2>3 DEF Mirror, Placement, NoJobDuplicated
  <1> HIDE DEF R, S, L
  <1>8. IsFiniteSet(R \cup S) /\ Cardinality(R \cup S) = Cardinality(R) + Cardinality(S)
    BY <1>3, <1>4, <1>7, DisjointUnion, ZenonT(30)
  <1>9. Cardinality((R \cup S) \cup L) = Cardinality(R \cup S) + Cardinality(L)
    BY <1>5, <1>7, <1>8, DisjointUnion
  <1> QED
    BY <1>2, <1>3, <1>4, <1>5, <1>6, <1>8, <1>9, ZenonT(30) DEF LiveDepth

\* Every non-empty set of naturals has a least element.
LEMMA LeastNat ==
  ASSUME NEW S \in SUBSET Nat, S # {}
  PROVE  \E n \in S : \A m \in S : n <= m
PROOF
  <1>1. PICK n \in S : \A m \in S : <<m, n>> \notin OpToRel(<, Nat)
    BY NatLessThanWellFounded, WFMin, Zenon
  <1>2. \A m \in S : ~(m < n)
    BY <1>1, Zenon DEF OpToRel
  <1> QED
    BY <1>2

LEMMA FirstIn ==
  ASSUME NEW n \in Nat, NEW I \in SUBSET (1..n), I # {}
  PROVE  /\ \E i \in I : \A h \in I : i <= h
         /\ \E i \in I : \A h \in I : h <= i
PROOF
  <1>1. \E i \in I : \A h \in I : i <= h
    BY LeastNat
  <1>2. \E i \in I : \A h \in I : h <= i
    <2> DEFINE M == {n - i : i \in I}
    <2>1. M \in SUBSET Nat /\ M # {}
      <3>1. \A i \in I : n - i \in Nat
        OBVIOUS
      <3> QED
        BY <3>1
    <2>2. PICK m \in M : \A k \in M : m <= k
      BY <2>1, LeastNat, Zenon
    <2>3. PICK i \in I : m = n - i
      OBVIOUS
    <2>4. \A h \in I : n - i <= n - h
      BY <2>2, <2>3, ZenonT(30)
    <2> QED
      BY <2>3, <2>4
  <1> QED
    BY <1>1, <1>2, Zenon

\* The batch of a producer's call: n distinct fresh ids.
LEMMA BatchShape ==
  ASSUME NEW batch \in Batches, NEW req \in Requests(batch)
  PROVE  \E n \in Nat : \E B \in SUBSET Job :
            /\ DOMAIN batch = 1..n /\ batch \in [1..n -> B] /\ B = {batch[i] : i \in 1..n}
            /\ \A h, i \in 1..n : batch[h] = batch[i] => h = i
            /\ \A j \in B : minted[j] = None
            /\ req \in [B -> Request] /\ DOMAIN req = B /\ IsFiniteSet(B)
            /\ \A i, j \in B : req[i].queue = req[j].queue =>
                  req[i].max_queue_depth = req[j].max_queue_depth
PROOF
  <1>1. PICK n \in 1..MaxBatch : /\ batch \in [1..n -> {j \in Job : minted[j] = None}]
                                 /\ \A h, i \in 1..n : batch[h] = batch[i] => h = i
    BY DEF Batches
  <1>2. n \in Nat /\ DOMAIN batch = 1..n
    BY <1>1
  <1> DEFINE B == {batch[i] : i \in 1..n}
  <1>3. /\ B \in SUBSET Job /\ batch \in [1..n -> B]
        /\ \A j \in B : minted[j] = None
    BY <1>1
  <1>4. IsFiniteSet(B)
    <2>1. batch \in Surjection(1..n, B)
      BY <1>3, Zenon DEF Surjection
    <2>2. IsFiniteSet(1..n)
      BY <1>2, FS_Interval
    <2> QED
      BY <2>1, <2>2, FS_Surjection
  <1>5. req \in [B -> Request] /\ DOMAIN req = B
    BY <1>2, ZenonT(30) DEF Requests
  <1>6. \A i, j \in B : req[i].queue = req[j].queue =>
           req[i].max_queue_depth = req[j].max_queue_depth
    BY <1>5, ZenonT(30) DEF Requests
  <1> QED
    BY <1>1, <1>2, <1>3, <1>4, <1>5, <1>6

\* An accepted job of the batch adds one to the depth of its queue.
LEMMA InsertDepth ==
  ASSUME Placement, DepthExact, DepthExact', NEW B \in SUBSET Job, NEW req \in [B -> Request],
         NEW A \in SUBSET B, IsFiniteSet(B), \A j \in A : minted[j] = None,
         InsertJobs(A, req), NEW q \in Queue
  PROVE  /\ IsFiniteSet({j \in A : req[j].queue = q})
         /\ LiveDepth(q) \in Nat
         /\ LiveDepth(q)' = LiveDepth(q) + Cardinality({j \in A : req[j].queue = q})
PROOF
  <1> DEFINE row(j) == [queue |-> req[j].queue, priority |-> req[j].priority,
                        max_attempts |-> req[j].max_attempts, enqueued_at |-> now]
             N == {j \in A : req[j].queue = q}
  <1>1. \A j \in A : row(j) \in JobRow /\ row(j).queue = req[j].queue
    BY RequestAssumption, TimeAssumption DEF JobRow, JobRequest, Placement, TypeOK
  <1>2. \A j \in A : row(j) # None
    BY <1>1, NoneAssumption, ZenonT(30)
  <1>3. db'.jobs = [j \in Job |-> IF j \in A THEN row(j) ELSE db.jobs[j]]
    <2>1. TypeOK
      BY Zenon DEF Placement
    <2> QED
      BY <2>1, ZenonT(30) DEF InsertJobs, TypeOK
  <1> HIDE DEF row
  <1>4. LiveJobs(q)' = LiveJobs(q) \cup N
    <2>1. \A j \in A : db.jobs[j] = None
      BY DEF Placement, Known
    <2> QED
      BY <1>1, <1>2, <1>3, <2>1 DEF LiveJobs
  <1>5. LiveJobs(q) \cap N = {}
    BY DEF LiveJobs, Placement, Known
  <1>6. IsFiniteSet(N)
    BY FS_Subset
  <1>7. /\ IsFiniteSet(LiveJobs(q)) /\ LiveDepth(q) = Cardinality(LiveJobs(q))
        /\ LiveDepth(q)' = Cardinality(LiveJobs(q)')
    BY DEF DepthExact
  <1>8. Cardinality(LiveJobs(q) \cup N) = Cardinality(LiveJobs(q)) + Cardinality(N)
    BY <1>5, <1>6, <1>7, DisjointUnion
  <1>9. Cardinality(LiveJobs(q)) \in Nat
    BY <1>7, FS_CardinalityType
  <1> QED
    BY <1>4, <1>6, <1>7, <1>8, <1>9, ZenonT(30)

LEMMA CapOfRequest ==
  ASSUME NEW r \in Request, r.max_queue_depth # None
  PROVE  r.max_queue_depth \in Nat
  BY RequestAssumption DEF JobRequest

\* The last accepted job of a queue was not refused as one too many.
LEMMA BestEffortFits ==
  ASSUME NEW n \in Nat, NEW B \in SUBSET Job, NEW batch \in [1..n -> B],
         B = {batch[i] : i \in 1..n}, \A h, i \in 1..n : batch[h] = batch[i] => h = i,
         NEW req \in [B -> Request], IsFiniteSet(B), NEW A \in SUBSET B, NEW x \in A,
         \A i \in B : req[i].queue = req[x].queue =>
             req[i].max_queue_depth = req[x].max_queue_depth,
         req[x].max_queue_depth # None, LiveDepth(req[x].queue) \in Nat,
         \A i \in 1..n : batch[i] \in A =>
             ~Full(req, Earlier(batch, A, i), req[batch[i]])
  PROVE  LiveDepth(req[x].queue) + Cardinality({j \in A : req[j].queue = req[x].queue})
           <= req[x].max_queue_depth
PROOF
  <1> DEFINE q == req[x].queue
             N == {j \in A : req[j].queue = q}
             I == {i \in 1..n : batch[i] \in N}
  <1>1. I # {} /\ I \in SUBSET (1..n)
    BY DEF I
  <1> HIDE DEF I
  <1>2. PICK m \in I : \A h \in I : h <= m
    BY <1>1, FirstIn
  <1> USE DEF I
  <1> DEFINE E == {i \in Earlier(batch, A, m) : req[i].queue = q}
  <1>3. m \in 1..n /\ batch[m] \in A /\ req[batch[m]].queue = q
    BY <1>2
  <1>4. N = E \cup {batch[m]}
    <2>1. E \cup {batch[m]} \subseteq N
      BY <1>3 DEF Earlier
    <2>2. ASSUME NEW j \in N, j # batch[m] PROVE j \in E
      <3>1. PICK h \in 1..n : batch[h] = j
        BY DEF N
      <3>2. h \in I
        BY <3>1
      <3>3. h # m
        BY <2>2, <3>1
      <3>4. h \in 1..(m - 1)
        BY <1>2, <1>3, <3>1, <3>2, <3>3
      <3> QED
        BY <2>2, <3>1, <3>4, ZenonT(30) DEF Earlier
    <2> QED
      BY <2>1, <2>2
  <1>5. batch[m] \notin E
    <2>1. SUFFICES ASSUME NEW h \in 1..(m - 1), batch[h] = batch[m] PROVE FALSE
      BY DEF Earlier
    <2>2. h \in 1..n /\ h # m
      BY <1>3
    <2> QED
      BY <1>3, <2>1, <2>2
  <1>6. IsFiniteSet(E)
    <2>1. E \in SUBSET B
      BY DEF Earlier
    <2> QED
      BY <2>1, FS_Subset
  <1>7. Cardinality(N) = Cardinality(E) + 1 /\ Cardinality(E) \in Nat
    BY <1>4, <1>5, <1>6, FS_AddElement, FS_CardinalityType, Zenon
  <1>8. req[batch[m]].max_queue_depth = req[x].max_queue_depth
    BY <1>3
  <1>9. ~(LiveDepth(q) + Cardinality(E) >= req[x].max_queue_depth)
    BY <1>3, <1>8 DEF Full
  <1>10. req[x].max_queue_depth \in Nat
    BY CapOfRequest
  <1> HIDE DEF N, E
  <1>11. LiveDepth(q) + Cardinality(N) <= req[x].max_queue_depth
    BY <1>7, <1>9, <1>10
  <1> QED
    BY <1>11, Zenon DEF N

\* The first job of a queue speaks for all of them, accepted or not.
LEMMA AtomicFitsCap ==
  ASSUME NEW n \in Nat, NEW B \in SUBSET Job, NEW batch \in [1..n -> B],
         B = {batch[i] : i \in 1..n}, NEW req \in [B -> Request], IsFiniteSet(B),
         NEW A \in SUBSET B, NEW x \in A,
         \A i \in B : req[i].queue = req[x].queue =>
             req[i].max_queue_depth = req[x].max_queue_depth,
         req[x].max_queue_depth # None, LiveDepth(req[x].queue) \in Nat,
         AtomicFits(batch, req)
  PROVE  LiveDepth(req[x].queue) + Cardinality({j \in A : req[j].queue = req[x].queue})
           <= req[x].max_queue_depth
PROOF
  <1> DEFINE q == req[x].queue
             same == {j \in B : req[j].queue = q}
             N == {j \in A : req[j].queue = q}
             I == {i \in 1..n : batch[i] \in same}
  <1>1. I # {} /\ I \in SUBSET (1..n)
    BY DEF I
  <1>2. PICK m \in I : \A h \in I : m <= h
    BY <1>1, FirstIn, ZenonT(30)
  <1>3. m \in 1..n /\ batch[m] \in B /\ req[batch[m]].queue = q
    BY <1>2
  <1>4. \A h \in 1..(m - 1) : batch[h] \notin same
    BY <1>2, <1>3
  <1>5. req[batch[m]].max_queue_depth = req[x].max_queue_depth
    BY <1>3
  <1>6. DOMAIN batch = 1..n /\ DOMAIN req = B
    OBVIOUS
  <1>7. LiveDepth(q) + Cardinality(same) <= req[x].max_queue_depth
    BY <1>3, <1>4, <1>5, <1>6, ZenonT(30) DEF AtomicFits
  <1>8. IsFiniteSet(same) /\ N \in SUBSET same
    BY FS_Subset
  <1>9. /\ Cardinality(N) <= Cardinality(same)
        /\ Cardinality(N) \in Nat /\ Cardinality(same) \in Nat
    BY <1>8, FS_Subset, FS_CardinalityType, ZenonT(30)
  <1>10. req[x].max_queue_depth \in Nat
    BY CapOfRequest
  <1> HIDE DEF N, same
  <1>11. LiveDepth(q) + Cardinality(N) <= req[x].max_queue_depth
    BY <1>7, <1>9, <1>10
  <1> QED
    BY <1>11 DEF N

\* The invariant behind the caps.
Counted == Mirror /\ IsFiniteSet(Accepted)

LEMMA CountedDepths == Counted => DepthExact
  BY DepthCounts DEF Counted, DepthExact

LEMMA CountedDepthsNext == Counted' => DepthExact'
  BY CountedDepths, PTL

LEMMA CountedInit == ASSUME Init PROVE Counted
PROOF
  <1>1. Accepted = {}
    BY DEF Init, Accepted
  <1> QED
    BY <1>1, MirrorInit, FS_EmptySet, ZenonT(30) DEF Counted

LEMMA CountedNext == ASSUME Counted, [Next]_vars PROVE Counted'
PROOF
  <1>1. Mirror'
    BY NextMirror, Zenon DEF Counted
  <1>2. CASE Producers
    <2>1. PICK batch \in Batches : \E req \in Requests(batch) :
             Enqueue(batch, req) \/ EnqueueAtomic(batch, req)
      BY <1>2 DEF Producers
    <2>2. PICK req \in Requests(batch) : Enqueue(batch, req) \/ EnqueueAtomic(batch, req)
      BY <2>1, Zenon
    <2>3. PICK B \in SUBSET Job : IsFiniteSet(B) /\ DOMAIN req = B
      BY BatchShape
    <2>4. PICK A \in SUBSET B : InsertJobs(A, req)
      BY <2>2, <2>3, ZenonT(30) DEF Enqueue, EnqueueAtomic
    <2>5. minted' = [j \in Job |-> IF j \in A THEN req[j] ELSE minted[j]]
      BY <2>4, ZenonT(30) DEF InsertJobs
    <2>6. Accepted' \in SUBSET (Accepted \cup B)
      BY <2>5 DEF Accepted
    <2>7. IsFiniteSet(Accepted \cup B)
      BY <2>3, FS_Union, ZenonT(30) DEF Counted
    <2>8. IsFiniteSet(Accepted')
      BY <2>6, <2>7, FS_Subset
    <2> QED
      BY <1>1, <2>8, Zenon DEF Counted
  <1>3. CASE ~Producers
    BY <1>1, <1>3, MintedFixed DEF Counted, Accepted
  <1> QED
    BY <1>2, <1>3, ZenonT(30)

LEMMA CountedHolds == Spec => []Counted
  BY CountedInit, CountedNext, PTL DEF Spec

LEMMA CapStep ==
  ASSUME Counted, Counted', [Next]_vars, NEW j \in Job, NEW q \in Queue,
         minted[j] # minted'[j], minted'[j].queue = q, minted'[j].max_queue_depth # None
  PROVE  LiveDepth(q)' <= minted'[j].max_queue_depth
PROOF
  <1>1. Producers
    BY MintedFixed
  <1>2. PICK batch \in Batches : \E req \in Requests(batch) :
           Enqueue(batch, req) \/ EnqueueAtomic(batch, req)
    BY <1>1 DEF Producers
  <1>3. PICK req \in Requests(batch) : Enqueue(batch, req) \/ EnqueueAtomic(batch, req)
    BY <1>2
  <1>4. PICK n \in Nat : \E B \in SUBSET Job :
           /\ DOMAIN batch = 1..n /\ batch \in [1..n -> B] /\ B = {batch[i] : i \in 1..n}
           /\ \A h, i \in 1..n : batch[h] = batch[i] => h = i
           /\ \A k \in B : minted[k] = None
           /\ req \in [B -> Request] /\ DOMAIN req = B /\ IsFiniteSet(B)
           /\ \A i, k \in B : req[i].queue = req[k].queue =>
                 req[i].max_queue_depth = req[k].max_queue_depth
    BY BatchShape, ZenonT(30)
  <1>5. PICK B \in SUBSET Job :
           /\ DOMAIN batch = 1..n /\ batch \in [1..n -> B] /\ B = {batch[i] : i \in 1..n}
           /\ \A h, i \in 1..n : batch[h] = batch[i] => h = i
           /\ \A k \in B : minted[k] = None
           /\ req \in [B -> Request] /\ DOMAIN req = B /\ IsFiniteSet(B)
           /\ \A i, k \in B : req[i].queue = req[k].queue =>
                 req[i].max_queue_depth = req[k].max_queue_depth
    BY <1>4
  <1>6. PICK A \in SUBSET B :
           /\ InsertJobs(A, req)
           /\ \/ AtomicFits(batch, req)
              \/ \A i \in 1..n : batch[i] \in A =>
                    ~Full(req, Earlier(batch, A, i), req[batch[i]])
    BY <1>3, <1>5, ZenonT(30) DEF Enqueue, EnqueueAtomic
  <1>7. minted' = [k \in Job |-> IF k \in A THEN req[k] ELSE minted[k]]
    BY <1>6, ZenonT(30) DEF InsertJobs
  <1>8. j \in A /\ minted'[j] = req[j]
    BY <1>7, ZenonT(30)
  <1>9. q = req[j].queue
    BY <1>8, ZenonT(30)
  <1>10. DepthExact /\ DepthExact' /\ Placement
    BY CountedDepths, CountedDepthsNext, ZenonT(30) DEF Counted, Mirror
  <1>11. /\ LiveDepth(q) \in Nat
         /\ LiveDepth(q)' = LiveDepth(q) + Cardinality({k \in A : req[k].queue = q})
    <2>1. /\ req \in [B -> Request] /\ IsFiniteSet(B) /\ InsertJobs(A, req)
          /\ \A k \in A : minted[k] = None
      BY <1>5, <1>6, Zenon
    <2> QED
      BY <1>10, <2>1, InsertDepth, ZenonT(30)
  <1>12. /\ \A i \in B : req[i].queue = req[j].queue =>
               req[i].max_queue_depth = req[j].max_queue_depth
         /\ req[j].max_queue_depth # None /\ LiveDepth(req[j].queue) \in Nat
    BY <1>5, <1>8, <1>9, <1>11, ZenonT(30)
  <1>13. LiveDepth(req[j].queue) + Cardinality({k \in A : req[k].queue = req[j].queue})
           <= req[j].max_queue_depth
    <2>1. CASE AtomicFits(batch, req)
      <3>1. j \in A
        BY <1>8
      <3> QED
        BY <1>5, <1>12, <2>1, <3>1, AtomicFitsCap, ZenonT(30)
    <2>2. CASE \A i \in 1..n : batch[i] \in A =>
                  ~Full(req, Earlier(batch, A, i), req[batch[i]])
      <3>1. j \in A
        BY <1>8, Zenon
      <3> QED
        BY <1>5, <1>12, <2>2, <3>1, BestEffortFits, ZenonT(30)
    <2> QED
      BY <1>6, <2>1, <2>2, ZenonT(30)
  <1> QED
    BY <1>8, <1>9, <1>11, <1>13, ZenonT(30)

\* Neither form of enqueue takes a queue past the cap its jobs carry, whatever
\* the batch: best effort counts the jobs accepted before, an atomic batch every
\* job of the queue (apply_enqueue and apply_enqueue_atomic).
THEOREM CapsAlwaysKept == Spec => CapKept
PROOF
  <1>1. Counted /\ Counted' /\ [Next]_vars =>
           [\A j \in Job, q \in Queue :
               /\ minted[j] # minted'[j]
               /\ minted'[j].queue = q
               /\ minted'[j].max_queue_depth # None
               => LiveDepth(q)' <= minted'[j].max_queue_depth]_vars
    BY CapStep
  <1> QED
    BY <1>1, CountedHolds, PTL DEF Spec, CapKept
=============================================================================
