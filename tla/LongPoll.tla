------------------------------ MODULE LongPoll ------------------------------
(***************************************************************************)
(* The long poll of a reserve (queue_server.rs:604-789) against the        *)
(* committer that makes jobs ready (storage.rs:721-791, 2597-2666).  A     *)
(* handler takes a notifier per queue, arms them, asks the committer for   *)
(* jobs, and parks until a notifier fires, the wait times out or the       *)
(* server shuts down.  The committer wakes a queue after the commit that   *)
(* made a job of it ready.                                                 *)
(*                                                                         *)
(* Jobs are counted, not named.  A client may go away at any moment: its   *)
(* handler is dropped, and a command it had sent takes its jobs all the    *)
(* same (Remove).  A handler asks for one job at a time.                   *)
(***************************************************************************)
EXTENDS Naturals, FiniteSets, Sequences

CONSTANTS
    Worker,          \* the reserve handlers
    Queue,           \* queue names
    Notify,          \* identities of tokio's Notify objects
    None,            \* no notifier
    QueuesOf,        \* the queue list of each handler's request
    PruneThreshold,  \* NOTIFIER_PRUNE_THRESHOLD
    MaxReady         \* bound: ready jobs per queue

ASSUME QueuesAssumption == QueuesOf \in [Worker -> Seq(Queue)]

ASSUME NotifyAssumption == None \notin Notify

ASSUME LongPollBounds == PruneThreshold \in Nat /\ MaxReady \in Nat

VARIABLES
    pc,         \* where each handler is
    held,       \* the notifier each handler holds for each queue
    signalled,  \* the handlers whose armed notifiers have fired
    seen,       \* the shutdown flag each handler's receiver started from
    answer,     \* the committer's answer to the command of each handler
    map,        \* QueueNotifiers
    ready,      \* ready jobs per queue, as the open transaction sees them
    committed,  \* ready jobs per queue, as committed
    phase,      \* the committer: idle, apply or wake
    wakes,      \* Cycle::new_ready, less what has been woken
    shutdown    \* the shutdown watch

handler == <<pc, held, signalled, seen, answer>>
committer == <<ready, committed, phase, wakes>>
vars == <<handler, committer, map, shutdown>>

Init ==
    /\ pc = [w \in Worker |-> "out"]
    /\ held = [w \in Worker |-> [q \in Queue |-> None]]
    /\ signalled = {}
    /\ seen = [w \in Worker |-> FALSE]
    /\ answer = [w \in Worker |-> "none"]
    /\ map = [q \in Queue |-> None]
    /\ ready = [q \in Queue |-> 0]
    /\ committed = [q \in Queue |-> 0]
    /\ phase = "idle"
    /\ wakes = {}
    /\ shutdown = FALSE

QueueSet(w) == {QueuesOf[w][i] : i \in DOMAIN QueuesOf[w]}

-----------------------------------------------------------------------------
(* The notifiers. *)

\* Somebody besides the map holds the notifier of q: Arc::strong_count > 1.
Shared(q) == \E w \in Worker : held[w][q] # None /\ held[w][q] = map[q]

Crowded == Cardinality({q \in Queue : map[q] # None}) >= PruneThreshold

PrunedAll == [q \in Queue |-> IF Crowded THEN None ELSE map[q]]

\* QueueNotifiers::get drops the notifiers nobody holds when there are many.
Pruned == [q \in Queue |-> IF Crowded /\ ~Shared(q) THEN None ELSE map[q]]

InUse(n) == \E q \in Queue : Pruned[q] = n \/ \E w \in Worker : held[w][q] = n

\* job_waiter takes the notifiers of the list one after the other.
GetNotifier(w) ==
    /\ pc[w] = "get"
    /\ \E i \in DOMAIN QueuesOf[w] : \E n \in Notify :
          LET q == QueuesOf[w][i] IN
          /\ held[w][q] = None
          /\ \A h \in 1..(i - 1) : held[w][QueuesOf[w][h]] # None
          /\ IF Pruned[q] # None THEN n = Pruned[q] ELSE ~InUse(n)
          /\ map' = [Pruned EXCEPT ![q] = n]
          /\ held' = [held EXCEPT ![w] = [@ EXCEPT ![q] = n]]
    /\ UNCHANGED <<pc, signalled, seen, answer, committer, shutdown>>

-----------------------------------------------------------------------------
(* The handler. *)

Start(w) ==
    /\ pc[w] = "out"
    /\ pc' = [pc EXCEPT ![w] = "get"]
    /\ seen' = [seen EXCEPT ![w] = shutdown]
    /\ UNCHANGED <<held, signalled, answer, committer, map, shutdown>>

\* waiter.arm(), and then the reserve command goes to the committer.
ArmAndSend(w) ==
    /\ \/ pc[w] = "get" /\ \A q \in QueueSet(w) : held[w][q] # None
       \/ pc[w] = "woken"
    /\ pc' = [pc EXCEPT ![w] = "sent"]
    /\ signalled' = signalled \ {w}
    /\ UNCHANGED <<held, seen, answer, committer, map, shutdown>>

\* The handler returns, or is dropped: its notifiers go.
Leave(w) ==
    /\ pc' = [pc EXCEPT ![w] = "out"]
    /\ held' = [held EXCEPT ![w] = [q \in Queue |-> None]]
    /\ signalled' = signalled \ {w}
    /\ answer' = [answer EXCEPT ![w] = "none"]
    /\ UNCHANGED <<seen, committer, map, shutdown>>

\* It has jobs, or an error, or has waited long enough, or is told to stop.
Return(w) ==
    /\ pc[w] = "replied" /\ (answer[w] # "empty" \/ shutdown)
    /\ Leave(w)

ParkBlindly(w) ==
    /\ pc[w] = "replied" /\ answer[w] = "empty"
    /\ pc' = [pc EXCEPT ![w] = "parked"]
    /\ answer' = [answer EXCEPT ![w] = "none"]
    /\ UNCHANGED <<held, signalled, seen, committer, map, shutdown>>

\* The select: nothing has come, and the shutdown flag is down.
Park(w) ==
    /\ pc[w] = "replied" /\ answer[w] = "empty" /\ ~shutdown
    /\ pc' = [pc EXCEPT ![w] = "parked"]
    /\ answer' = [answer EXCEPT ![w] = "none"]
    /\ UNCHANGED <<held, signalled, seen, committer, map, shutdown>>

Woken(w) ==
    /\ pc[w] = "parked" /\ w \in signalled
    /\ pc' = [pc EXCEPT ![w] = "woken"]
    /\ UNCHANGED <<held, signalled, seen, answer, committer, map, shutdown>>

\* shutdown.changed() fires when the flag differs from the one first seen.
ShutdownSeen(w) == pc[w] = "parked" /\ shutdown # seen[w] /\ Leave(w)

\* The deadline passes, before or while the handler is parked.
TimeOut(w) ==
    /\ \/ pc[w] = "parked"
       \/ pc[w] = "replied" /\ answer[w] = "empty"
    /\ Leave(w)

\* The client goes away.
HangUp(w) == pc[w] # "out" /\ Leave(w)

Shutdown ==
    /\ ~shutdown
    /\ shutdown' = TRUE
    /\ UNCHANGED <<handler, committer, map>>

-----------------------------------------------------------------------------
(* The committer. *)

Applying == phase \in {"idle", "apply"}

\* An enqueue, a nack, a requeue or a sweep makes a job ready.
MakeReady(q) ==
    /\ Applying /\ ready[q] < MaxReady
    /\ ready' = [ready EXCEPT ![q] = @ + 1]
    /\ wakes' = wakes \cup {q}
    /\ phase' = "apply"
    /\ UNCHANGED <<handler, committed, map, shutdown>>

\* Any other operation takes a ready job: a reserve nobody waits for any more,
\* a purge, a move to the dead letters.
Remove(q) ==
    /\ Applying /\ ready[q] > 0
    /\ ready' = [ready EXCEPT ![q] = @ - 1]
    /\ phase' = "apply"
    /\ UNCHANGED <<handler, committed, wakes, map, shutdown>>

\* The reserve of handler w pops the first job of the first queue that has one.
ApplyReserve(w) ==
    /\ Applying /\ pc[w] = "sent" /\ answer[w] = "none"
    /\ phase' = "apply"
    /\ \/ /\ \A q \in QueueSet(w) : ready[q] = 0
          /\ answer' = [answer EXCEPT ![w] = "empty"]
          /\ UNCHANGED ready
       \/ \E i \in DOMAIN QueuesOf[w] :
             /\ ready[QueuesOf[w][i]] > 0
             /\ \A h \in 1..(i - 1) : ready[QueuesOf[w][h]] = 0
             /\ ready' = [ready EXCEPT ![QueuesOf[w][i]] = @ - 1]
             /\ answer' = [answer EXCEPT ![w] = "jobs"]
    /\ UNCHANGED <<pc, held, signalled, seen, committed, wakes, map, shutdown>>

\* Handler w still waits for an answer, and the batch has one.
Answered(w) == pc[w] = "sent" /\ answer[w] # "none"

\* The batch is durable: the replies go out, then the wakes.
Commit ==
    /\ phase = "apply"
    /\ phase' = "wake"
    /\ committed' = ready
    /\ pc' = [w \in Worker |-> IF Answered(w) THEN "replied" ELSE pc[w]]
    /\ UNCHANGED <<held, signalled, seen, answer, ready, wakes, map, shutdown>>

\* The batch fails: its reserves, applied or not, are answered with an error
\* and nobody is woken.
Fail ==
    /\ phase = "apply"
    /\ phase' = "idle"
    /\ ready' = committed
    /\ wakes' = {}
    /\ \E F \in SUBSET {w \in Worker : pc[w] = "sent" /\ answer[w] = "none"} :
          LET failed == F \cup {w \in Worker : Answered(w)} IN
          /\ pc' = [w \in Worker |-> IF w \in failed THEN "replied" ELSE pc[w]]
          /\ answer' = [w \in Worker |-> IF w \in failed THEN "error" ELSE answer[w]]
    /\ UNCHANGED <<held, signalled, seen, committed, map, shutdown>>

ArmedWhenParked(q) ==
    {w \in Worker : pc[w] = "parked" /\ held[w][q] # None /\ held[w][q] = map[q]}

\* The handlers with an armed future on the notifier the map has for q.
Armed(q) ==
    {w \in Worker : /\ pc[w] \in {"sent", "replied", "parked"}
                    /\ held[w][q] # None /\ held[w][q] = map[q]}

\* notify_waiters on one queue of new_ready.
Wake(q) ==
    /\ phase = "wake" /\ q \in wakes
    /\ wakes' = wakes \ {q}
    /\ signalled' = signalled \cup Armed(q)
    /\ UNCHANGED <<pc, held, seen, answer, ready, committed, phase, map, shutdown>>

EndCycle ==
    /\ phase = "wake" /\ wakes = {}
    /\ phase' = "idle"
    /\ UNCHANGED <<handler, ready, committed, wakes, map, shutdown>>

-----------------------------------------------------------------------------
Handle(w) ==
    \/ GetNotifier(w) \/ ArmAndSend(w) \/ Return(w) \/ Park(w) \/ Woken(w)
    \/ ShutdownSeen(w)

Cycle == Commit \/ Fail \/ EndCycle \/ \E q \in Queue : Wake(q)

Next ==
    \/ \E w \in Worker :
          Start(w) \/ Handle(w) \/ TimeOut(w) \/ HangUp(w) \/ ApplyReserve(w)
    \/ \E q \in Queue : MakeReady(q) \/ Remove(q)
    \/ Cycle \/ Shutdown

Spec == Init /\ [][Next]_vars

\* The runtime polls a task that can proceed; the committer finishes the cycle
\* it is in; the channel is first in, first out, so a command is not overtaken
\* for ever.  Timeouts and hang-ups may never come.
Fairness ==
    /\ \A w \in Worker : WF_vars(Handle(w)) /\ SF_vars(ApplyReserve(w))
    /\ WF_vars(Cycle)

FairSpec == Spec /\ Fairness

-----------------------------------------------------------------------------
\* The handlers, the notifier map and the committer hold values of their types;
\* no count of ready jobs drops below zero.
TypeOK ==
    /\ pc \in [Worker -> {"out", "get", "sent", "replied", "parked", "woken"}]
    /\ held \in [Worker -> [Queue -> Notify \cup {None}]]
    /\ signalled \in SUBSET Worker
    /\ seen \in [Worker -> BOOLEAN]
    /\ answer \in [Worker -> {"none", "empty", "jobs", "error"}]
    /\ map \in [Queue -> Notify \cup {None}]
    /\ ready \in [Queue -> Nat] /\ committed \in [Queue -> Nat]
    /\ phase \in {"idle", "apply", "wake"}
    /\ wakes \in SUBSET Queue
    /\ shutdown \in BOOLEAN

\* A handler's notifier is the one the committer will wake: pruning the map
\* never replaces a notifier somebody holds (QueueNotifiers::get).
HeldIsMapped ==
    \A w \in Worker, q \in Queue : held[w][q] # None => held[w][q] = map[q]

\* No handler is parked, unsignalled, while a queue of its request has a
\* committed ready job, except for the moment between commit and wake.
NoLostWakeup ==
    \A w \in Worker : pc[w] = "parked" /\ w \notin signalled =>
        \A q \in QueueSet(w) : committed[q] > 0 => phase = "wake" /\ q \in wakes

\* A ready job does not wait beside a parked handler of its queue.
ParkedAreServed ==
    \A w \in Worker :
        (pc[w] = "parked" /\ \E q \in QueueSet(w) : committed[q] > 0)
            ~> (pc[w] # "parked" \/ \A q \in QueueSet(w) : committed[q] = 0)

\* Once the server shuts down every reserve returns without waiting out its
\* timeout, also one that started after the flag was raised.
ShutdownDrains ==
    \A w \in Worker : (shutdown /\ pc[w] # "out") ~> pc[w] = "out"
=============================================================================
