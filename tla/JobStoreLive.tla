---------------------------- MODULE JobStoreLive ----------------------------
(***************************************************************************)
(* Progress of the timers.  Clients and operators call as they like until  *)
(* LastCall and then fall silent; the clock runs forward; the committer    *)
(* sweeps.                                                                 *)
(*                                                                         *)
(* Fairness.  run_committer compares next_deadline with the clock on every *)
(* turn of its loop, before it takes a batch of commands, and waits no     *)
(* longer than to the next deadline: a sweep that stays due is taken.  The *)
(* clock is the operating system's.  Nothing is assumed of clients.        *)
(***************************************************************************)
EXTENDS JobStore

CONSTANTS
    LastCall,   \* bound: the time after which nobody calls
    Horizon     \* bound: the last time of the clock

ASSUME HorizonAssumption == LastCall \in Time /\ Horizon \in Time

Calls ==
    /\ now <= LastCall
    /\ Producers \/ Workers \/ Requeues \/ Purges \/ Operators

Advance ==
    /\ now < Horizon
    /\ now' = now + 1
    /\ UNCHANGED <<db, ix, minted>>

LiveNext == Calls \/ Sweep \/ Advance

LiveInit == Init /\ now = 0

LiveSpec ==
    /\ LiveInit
    /\ [][LiveNext]_vars
    /\ WF_vars(Sweep) /\ WF_vars(Advance)

-----------------------------------------------------------------------------
Scheduled(j) == \E t \in db.scheduled : t.job = j

\* No job waits on a timer for ever, though each sweep handles only SweepLimit
\* of them.  A lease ends even if its worker died: the job goes back to the
\* queue or to the dead letters.  A scheduled or delayed job becomes ready, or
\* leaves the store.
JobsMoveOn ==
    \A j \in Job :
        /\ j \in InFlight ~> j \notin InFlight
        /\ Scheduled(j) ~> ~Scheduled(j)

OldRecord(j) ==
    \E e \in db.dead_letter : e.job = j /\ e.failed_at + RetentionMs <= Horizon

\* The rows that only the sweep removes do not stay: the tombstone of a queue
\* whose delete handler died is lifted, so the queue accepts jobs again; a dedup
\* row is forgotten once its window is over; a dead-letter record does not
\* outlive its retention.
RowsExpire ==
    /\ \A q \in Queue : db.closing[q] # None ~> db.closing[q] = None
    /\ \A k \in Queue \X Key : db.dedup[k] # None ~> db.dedup[k] = None
    /\ \A j \in Job : OldRecord(j) ~> ~OldRecord(j)
=============================================================================
