------------------------- MODULE JobStoreLifecycle -------------------------
(***************************************************************************)
(* The store implements JobLifecycle: the keyspace that holds a job is its *)
(* state in the life cycle.                                                *)
(***************************************************************************)
EXTENDS JobStore

InReady(j) == {e \in db.ready : e.job = j}
InScheduled(j) == {t \in db.scheduled : t.job = j}
InDeadLetter(j) == {e \in db.dead_letter : e.job = j}

AttemptIn(S) == (CHOOSE e \in S : TRUE).attempt

Life(s, attempt, limit) == [state |-> s, attempt |-> attempt, limit |-> limit]

LifeOf(j) ==
    IF db.inflight[j] # None
    THEN Life("inflight", db.inflight[j].attempt, db.inflight[j].max_attempts)
    ELSE IF InReady(j) # {}
    THEN Life("ready", AttemptIn(InReady(j)), db.jobs[j].max_attempts)
    ELSE IF InScheduled(j) # {}
    THEN Life("scheduled", AttemptIn(InScheduled(j)), db.jobs[j].max_attempts)
    ELSE IF InDeadLetter(j) # {}
    THEN Life("dead", AttemptIn(InDeadLetter(j)),
              (CHOOSE e \in InDeadLetter(j) : TRUE).max_attempts)
    ELSE Life(IF minted[j] # None THEN "gone" ELSE "absent", 0, 0)

Lifecycle == INSTANCE JobLifecycle WITH life <- [j \in Job |-> LifeOf(j)]

\* Every operation of the store moves each job along the life cycle or leaves
\* it where it is: an attempt is delivered before the next one exists, no job
\* is delivered past its attempt limit, a dead job comes back only to its first
\* attempt, and a finished job never.
ImplementsLifecycle == Lifecycle!Spec
=============================================================================
