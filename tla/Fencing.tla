------------------------------- MODULE Fencing -------------------------------
(***************************************************************************)
(* Workers and the leases they were handed.  A worker keeps the job id and *)
(* the attempt number of every delivery it received and may present them   *)
(* at any later time, any number of times: a call can be slow, repeated or *)
(* made long after the lease expired.  The store accepts the call when the *)
(* pair matches the in-flight row (Holds); this module asks whether the    *)
(* caller then really is the worker that owns the job.                     *)
(***************************************************************************)
EXTENDS JobStore

CONSTANT MaxRequeues   \* bound: requeues of one job

ASSUME MaxRequeuesAssumption == MaxRequeues \in Nat

VARIABLES
    deliveries,  \* how often each job was handed out (history)
    requeues,    \* how often each job was requeued from the dead letters (history)
    held,        \* the deliveries workers received
    caller       \* the delivery the last accepted call was made for, or None

fvars == <<vars, deliveries, requeues, held, caller>>

Lease(j, attempt, n, r) ==
    [job |-> j, attempt |-> attempt, delivery |-> n, requeue |-> r]

FInit ==
    /\ Init
    /\ deliveries = [j \in Job |-> 0]
    /\ requeues = [j \in Job |-> 0]
    /\ held = {}
    /\ caller = None

\* The jobs a reserve step hands out.
HandedOut == {j \in Job : db.inflight[j] = None /\ db'.inflight[j] # None}

FReserve ==
    /\ \E queues \in ReserveQueues, lease_ms \in LeaseMs, n \in 1..MaxReserve :
          Reserve(queues, lease_ms, n)
    /\ deliveries' = [j \in Job |->
                         IF j \in HandedOut THEN deliveries[j] + 1 ELSE deliveries[j]]
    /\ held' = held \cup
          {Lease(j, db'.inflight[j].attempt, deliveries'[j], requeues[j]) : j \in HandedOut}
    /\ caller' = None
    /\ UNCHANGED requeues

\* An accepted ack, nack or extend for the delivery h.
FCall ==
    \E h \in held :
        /\ \/ Ack(h.job, h.attempt)
           \/ \E reject \in BOOLEAN : NackDead(h.job, h.attempt, reject)
           \/ \E delay_ms \in RetryDelayMs : NackRetry(h.job, h.attempt, delay_ms)
           \/ \E lease_ms \in LeaseMs : Extend(h.job, h.attempt, lease_ms)
        /\ caller' = h
        /\ UNCHANGED <<deliveries, requeues, held>>

FRequeue ==
    /\ \E q \in Queue : \E e \in Owned(db.dead_letter, q) :
          /\ requeues[e.job] < MaxRequeues
          /\ RequeueDeadLetters(q, {e})
          /\ requeues' = [requeues EXCEPT ![e.job] = @ + 1]
    /\ caller' = None
    /\ UNCHANGED <<deliveries, held>>

FOther ==
    /\ Producers \/ Purges \/ Operators \/ Sweep \/ Tick
    /\ caller' = None
    /\ UNCHANGED <<deliveries, requeues, held>>

FNext == FReserve \/ FCall \/ FRequeue \/ FOther

FSpec == FInit /\ [][FNext]_fvars

-----------------------------------------------------------------------------
\* Between two requeues of a job only its latest delivery can ack, nack or
\* extend it: a worker whose lease expired and whose job was redelivered is
\* refused (apply_ack, apply_nack and apply_extend compare attempts).
FencedBetweenRequeues ==
    (caller # None /\ caller.requeue = requeues[caller.job]) =>
        caller.delivery = deliveries[caller.job]

\* The server refuses every call made for a delivery that is not the job's
\* latest, as the life-cycle page says of stale acks, nacks and extends.
StaleCallRefused ==
    caller # None => caller.delivery = deliveries[caller.job]
=============================================================================
