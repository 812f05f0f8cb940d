-------------------------------- MODULE Listing --------------------------------
(***************************************************************************)
(* Listing a queue's jobs in one state (GET queues/{name}/jobs), page after *)
(* page.  The keys of a page come from the committer's in-memory index, in  *)
(* the middle of a batch that may yet fail; the rows are then read from a   *)
(* snapshot of the committed keyspace; the next page starts at the cursor   *)
(* of the last.  Jobs come and go all the while.  The operations that move  *)
(* them are those of JobStore; here a job enters the listed keyspace, leaves *)
(* it, or has its lease extended.                                           *)
(***************************************************************************)
EXTENDS Keys, FiniteSets, SequencesExt

CONSTANTS
    Job,       \* the jobs: records [id, queue, priority]
    Time,      \* enqueued_at, deadlines and failed_at
    State,     \* the listed states (PeekState)
    Limit,     \* the limits asked for
    LimitMax,  \* PEEK_LIMIT_MAX
    ExamineCap,\* PEEK_EXAMINE_CAP
    MaxMoves,  \* bound on the moves
    None       \* not there

Queue == {j.queue : j \in Job}

ASSUME ListingAssumption ==
    /\ Time \subseteq Nat
    /\ \A j \in Job : j.id \in Seq(Nat) /\ j.queue \in Seq(Nat) /\ j.priority \in Nat
    /\ \A j, k \in Job : j.id = k.id => j = k
    /\ \A j, k \in Job : Len(j.id) = Len(k.id)
    /\ State \subseteq {"ready", "scheduled", "inflight", "dead_letter"}
    /\ Limit \subseteq Nat /\ LimitMax \in Nat \ {0} /\ ExamineCap \in Nat \ {0}
    /\ None \notin Time

VARIABLES
    state,  \* the listed state
    mem,    \* the index: the time in the key of each job that has one
    disk,   \* the same of the committed keyspace
    moves,  \* how many moves there were
    walk    \* the listing under way

vars == <<state, mem, disk, moves, walk>>

Key(j, at) ==
    CASE state = "ready" -> ReadyKey(j.queue, j.priority, at, j.id)
      [] state = "dead_letter" -> DeadLetterKey(at, j.queue, j.id)
      [] OTHER -> TimerKey(at, j.id)

\* The job a key names.
JobOf(key) ==
    LET id == CASE state = "ready" -> ready_job_id(key)
                [] state = "dead_letter" -> dead_letter_job_id(key)
                [] OTHER -> timer_job_id(key)
    IN  CHOOSE j \in Job : j.id = id

Idle == [pc |-> "idle", queue |-> None, limit |-> 0, cursor |-> None,
         keys |-> <<>>, next |-> None, shown |-> <<>>, settled |-> {}]

Init ==
    /\ state \in State
    /\ mem \in [Job -> Time \cup {None}]
    /\ disk = mem
    /\ moves = 0
    /\ walk = Idle

-------------------------------------------------------------------------------
(* The committer.                                                            *)

\* An operation of the open batch moves a job.  Only an extension replaces a
\* key of a job by another.
Move(j, at) ==
    /\ moves < MaxMoves
    /\ mem[j] # at
    /\ mem[j] = None \/ at = None \/ state = "inflight"
    /\ mem' = [mem EXCEPT ![j] = at]
    /\ moves' = moves + 1
    /\ walk' = [walk EXCEPT !.settled = @ \ {j}]
    /\ UNCHANGED <<state, disk>>

Commit ==
    /\ disk' = mem
    /\ UNCHANGED <<state, mem, moves, walk>>

\* The batch fails, and the index is rebuilt from disk.  A peek that comes after
\* the failing operation is answered with its error.
Abort ==
    /\ mem' = disk
    /\ walk' \in {walk} \cup (IF walk.pc = "asked" THEN {Idle} ELSE {})
    /\ UNCHANGED <<state, disk, moves>>

-------------------------------------------------------------------------------
(* The listing.                                                              *)

AtMost(n, s) == SubSeq(s, 1, IF n < Len(s) THEN n ELSE Len(s))

\* The keys of the index after the cursor, in order.
After(cursor) ==
    LET keys == {Key(j, mem[j]) : j \in {i \in Job : mem[i] # None}}
    IN  SetToSortSeq({k \in keys : cursor = None \/ Before(cursor, k)}, Before)

\* A ready key starts with its queue, so a prefix range finds the queue's keys.
\* There is a cursor only when another key follows the page.
PeekReady(queue, cursor, limit) ==
    LET range == SelectSeq(After(cursor), LAMBDA k : StartsWith(k, queue_prefix(queue)))
        keys == AtMost(limit, range)
    IN  [keys |-> keys, next |-> IF Len(range) > limit THEN Last(keys) ELSE None]

\* A variant that ends the listing where the examined keys end.
StopAtCap(queue, cursor, limit) ==
    LET range == After(cursor)
        mine == SelectSeq(AtMost(ExamineCap, range), LAMBDA k : JobOf(k).queue = queue)
    IN  IF Len(mine) >= limit
        THEN [keys |-> AtMost(limit, mine), next |-> mine[limit]]
        ELSE [keys |-> mine, next |-> None]

\* The other keys start with a time: the keys of all queues are examined, up to
\* a cap, and those of the queue are kept.
PeekTimer(queue, cursor, limit) ==
    LET range == After(cursor)
        examined == AtMost(ExamineCap, range)
        mine == SelectSeq(examined, LAMBDA k : JobOf(k).queue = queue)
    IN  IF Len(mine) >= limit
        THEN [keys |-> AtMost(limit, mine), next |-> mine[limit]]
        ELSE [keys |-> mine,
              next |-> IF Len(range) > ExamineCap THEN Last(examined) ELSE None]

\* limit.clamp(1, PEEK_LIMIT_MAX)
Clamp(limit) ==
    IF limit < 1 THEN 1 ELSE IF limit > LimitMax THEN LimitMax ELSE limit

peek_keys(queue, cursor, limit) ==
    IF state = "ready" THEN PeekReady(queue, cursor, Clamp(limit))
    ELSE PeekTimer(queue, cursor, Clamp(limit))

\* An operator opens the list.  settled: the jobs listed there, on disk too,
\* and not moved since.
Open(queue, limit) ==
    /\ walk.pc = "idle"
    /\ walk' = [Idle EXCEPT
        !.pc = "asked", !.queue = queue, !.limit = limit,
        !.settled = {j \in Job : j.queue = queue /\ mem[j] # None /\ disk[j] = mem[j]}]
    /\ UNCHANGED <<state, mem, disk, moves>>

Peek ==
    /\ walk.pc = "asked"
    /\ LET page == peek_keys(walk.queue, walk.cursor, walk.limit)
       IN  walk' = [walk EXCEPT !.pc = "peeked", !.keys = page.keys, !.next = page.next]
    /\ UNCHANGED <<state, mem, disk, moves>>

\* A variant that takes any lease of the job for the peeked one.
AnyLease(key) ==
    IF state = "inflight" THEN disk[JobOf(key)] # None
    ELSE LET at == disk[JobOf(key)] IN at # None /\ Key(JobOf(key), at) = key

\* Whether the snapshot has a row for the key.  An in-flight row is found by the
\* job, and counts if its lease is the peeked one.
Resolves(key) ==
    LET at == disk[JobOf(key)]
    IN  at # None /\ (IF state = "inflight" THEN at = deadline_of(key)
                      ELSE Key(JobOf(key), at) = key)

Resolve ==
    /\ walk.pc = "peeked"
    /\ walk' = [walk EXCEPT
        !.pc = IF walk.next = None THEN "done" ELSE "asked",
        !.shown = @ \o SelectSeq(walk.keys, Resolves),
        !.cursor = walk.next, !.keys = <<>>, !.next = None]
    /\ UNCHANGED <<state, mem, disk, moves>>

Close ==
    /\ walk.pc = "done"
    /\ walk' = Idle
    /\ UNCHANGED <<state, mem, disk, moves>>

Next ==
    \/ \E j \in Job, at \in Time \cup {None} : Move(j, at)
    \/ Commit \/ Abort
    \/ \E q \in Queue, l \in Limit : Open(q, l)
    \/ Peek \/ Resolve \/ Close

Spec == Init /\ [][Next]_vars

-------------------------------------------------------------------------------
(* Properties.                                                               *)

\* A job that stays where it is while its queue is listed to the end is shown,
\* and no key is shown twice: neither the cursor of a key that is gone, nor a
\* page cut short by the limit or the examine cap, nor a batch that fails
\* between two pages loses or repeats it (peek_keys, list_jobs).
SettledShownOnce ==
    walk.pc = "done" =>
        /\ \A j \in walk.settled : Contains(walk.shown, Key(j, mem[j]))
        /\ IsInjective(walk.shown)

\* A row is shown only if it is committed, in that queue and under that very key,
\* when it is read, whatever the unfinished batch the page came from had done
\* (resolve_ready, resolve_scheduled, resolve_inflight, resolve_dead_letters).
ShownIsCommitted ==
    [][\A i \in (Len(walk.shown) + 1)..Len(walk'.shown) :
        \E j \in Job : /\ j.queue = walk.queue /\ disk[j] # None
                       /\ walk'.shown[i] = Key(j, disk[j])]_vars

\* Ready jobs are listed in the order in which reserve serves them, a higher
\* priority first and then the older; the others by their time, soonest first.
\* The order is that of the encoded keys (ReadyKey, TimerKey, DeadLetterKey).
ListedInOrder ==
    \A i, k \in 1..Len(walk.shown) : i < k =>
        LET a == walk.shown[i]
            b == walk.shown[k]
            pa == JobOf(a).priority
            pb == JobOf(b).priority
            n == Len(walk.queue)
        IN  IF state # "ready" THEN a[1] <= b[1]
            ELSE pa > pb \/ (pa = pb /\ a[n + 3] <= b[n + 3])
===============================================================================
