------------------------------ MODULE AdminStats ------------------------------
(***************************************************************************)
(* The figures of the admin dashboard.  The committer thread keeps, beside  *)
(* its indexes, one QueueTotals per queue that was active lately: every     *)
(* committed cycle is folded into them, a purge that empties a queue drops  *)
(* its entry, and a sweep evicts the entries of idle empty queues.  At the  *)
(* end of a loop turn it may publish a snapshot.  Once a second the stats   *)
(* hub compares the snapshot with the one of its previous tick, keeps the   *)
(* rates in a ring per queue, and stores and sends a numbered frame.        *)
(*                                                                         *)
(* Jobs are reduced to how many entries of each queue the ready, scheduled, *)
(* lease and dead-letter indexes hold (live).  The ledger is history: what  *)
(* was really committed, against which the figures are judged.              *)
(***************************************************************************)
EXTENDS Integers, Sequences, FiniteSets

CONSTANTS
    QueueName,         \* the queue names
    Declared,      \* the queues the registry declares
    Counter,       \* the fields of QueueTotals that are counted
    IdleEvict,     \* ADMIN_IDLE_EVICT_MS
    HistoryCap,    \* the values admin.stats_history_ms takes, in samples
    MaxBatch,      \* bound on the recorder calls of one cycle
    Workload       \* bounds on the clock, the committed recorder calls, the hub's ticks

ASSUME StatsAssumption ==
    /\ Declared \subseteq QueueName
    /\ IdleEvict \in Nat \ {0}
    /\ HistoryCap \subseteq Nat \ {0}
    /\ MaxBatch \in Nat
    /\ \A w \in Workload : w.now \in Nat /\ w.calls \in Nat /\ w.ticks \in Nat

VARIABLES
    load,         \* the workload the behaviour is bounded by
    now,          \* the wall clock
    stats,        \* the committer's maps: live, totals, last_active
    cycle,        \* the open cycle: its kind, index changes and CycleMetrics
    snapshot,     \* the published AdminSnapshot
    hub,          \* the hub task: pc, prev and the rates of this tick
    history,      \* the rings: per queue the frames whose rates it holds
    latest_frame, \* the number of the last frame stored
    ledger        \* history: the committed events

statsVars == <<load, now, stats, cycle, snapshot, hub, history, latest_frame, ledger>>

Zero == [c \in Counter |-> 0]
NoCounts == [q \in QueueName |-> Zero]
Empty == [q \in {} |-> 0]

\* An entry of a map, or the default it is created with.
Entry(map, q) == IF q \in DOMAIN map THEN map[q] ELSE Zero
Only(map, qs) == [q \in DOMAIN map \cap qs |-> map[q]]

-------------------------------------------------------------------------------
(* The totals.                                                               *)

Active(counts) == {q \in QueueName : counts[q] # Zero}

fold_admin_totals(s, counts) ==
    [s EXCEPT !.totals = [q \in DOMAIN s.totals \cup Active(counts) |->
                             [c \in Counter |-> Entry(s.totals, q)[c] + counts[q][c]]],
              !.last_active = [q \in DOMAIN s.last_active \cup Active(counts) |->
                             IF q \in Active(counts) THEN now ELSE s.last_active[q]]]

evict_idle_admin_totals(s) ==
    LET kept == {q \in DOMAIN s.totals :
                    \/ q \in DOMAIN s.last_active /\ now - s.last_active[q] < IdleEvict
                    \/ s.live[q] > 0}
    IN  [s EXCEPT !.totals = Only(@, kept), !.last_active = Only(@, kept)]

DropPurged(s, purged) ==
    [s EXCEPT !.totals = Only(@, QueueName \ purged), !.last_active = Only(@, QueueName \ purged)]

\* A variant that drops the totals of the purged queues after the fold.
FoldThenDrop(s, m) == DropPurged(fold_admin_totals(s, m.counts), m.purged)

\* The totals of purged queues go before the fold, so that what was enqueued
\* behind the purge in the same batch still counts.
DropThenFold(s, m) == fold_admin_totals(DropPurged(s, m.purged), m.counts)

-------------------------------------------------------------------------------
(* The committer's cycles.                                                   *)

NoCycle == [kind |-> "none", live |-> [q \in QueueName |-> 0], counts |-> NoCounts,
            purged |-> {}, calls |-> 0, after |-> NoCounts]

IdleHub == [pc |-> "tick", prev |-> Empty, was |-> NoCounts, ever |-> NoCounts,
            rates |-> Empty]

StatsInit ==
    /\ load \in Workload
    /\ now = 0
    /\ stats = [live |-> [q \in QueueName |-> 0], totals |-> Empty, last_active |-> Empty]
    /\ cycle = NoCycle
    /\ snapshot = [totals |-> Empty, live |-> [q \in QueueName |-> 0], ever |-> NoCounts]
    /\ hub = IdleHub
    /\ history = Empty
    /\ latest_frame = 0
    /\ ledger = [ever |-> NoCounts, after |-> NoCounts, seen |-> [q \in QueueName |-> 0],
                 calls |-> 0]

\* The wall clock moves either way.
StatsClock ==
    /\ now' \in (0..load.now) \ {now}
    /\ UNCHANGED <<load, stats, cycle, snapshot, hub, history, latest_frame, ledger>>

\* run_sweep_cycle or run_rpc_cycle begins: an empty Cycle.
BeginCycle(kind) ==
    /\ cycle.kind = "none"
    /\ cycle' = [NoCycle EXCEPT !.kind = kind, !.live = stats.live, !.after = ledger.after]
    /\ UNCHANGED <<load, now, stats, snapshot, hub, history, latest_frame, ledger>>

\* What a command that bumps the counter c may do to its queue's index entries:
\* an ack removes the job, a dead letter is kept or not.
LiveChange(c) ==
    CASE c = "enqueued" -> {1}
      [] c = "acked" -> {-1}
      [] c = "dead_lettered" -> {0, -1}
      [] OTHER -> {0}

\* A command of the cycle calls a recorder.  A sweep calls only dead_lettered
\* of those the totals fold.
Recorder(q, c) ==
    /\ cycle.kind = "rpc" \/ (cycle.kind = "sweep" /\ c = "dead_lettered")
    /\ cycle.calls < MaxBatch /\ ledger.calls + cycle.calls < load.calls
    /\ \E d \in LiveChange(c) :
        /\ cycle.live[q] + d >= 0
        /\ cycle' = [cycle EXCEPT !.live[q] = @ + d, !.counts[q][c] = @ + 1,
                                  !.calls = @ + 1, !.after[q][c] = @ + 1]
    /\ UNCHANGED <<load, now, stats, snapshot, hub, history, latest_frame, ledger>>

\* apply_purge_queue_chunk: the chunk leaves `left` entries, and records the
\* queue as purged when neither those nor dedup rows remain.
PurgeChunk(q) ==
    /\ cycle.kind = "rpc"
    /\ cycle.calls < MaxBatch /\ ledger.calls + cycle.calls < load.calls
    /\ \E left \in 0..cycle.live[q], remaining \in BOOLEAN :
        /\ left > 0 => remaining
        /\ cycle' = [cycle EXCEPT !.live[q] = left, !.calls = @ + 1,
                                  !.purged = IF remaining THEN @ ELSE @ \cup {q},
                                  !.after[q] = IF remaining THEN @ ELSE Zero]
    /\ UNCHANGED <<load, now, stats, snapshot, hub, history, latest_frame, ledger>>

\* What the commit of the cycle adds to the ledger.
Booked ==
    [ever |-> [q \in QueueName |-> [c \in Counter |-> ledger.ever[q][c] + cycle.counts[q][c]]],
     after |-> cycle.after,
     seen |-> [q \in QueueName |-> IF q \in Active(cycle.counts) THEN now ELSE ledger.seen[q]],
     calls |-> ledger.calls + cycle.calls]

\* An empty queue without events for IdleEvict starts afresh.
Forget(l, live) ==
    [l EXCEPT !.after = [q \in QueueName |->
        IF live[q] = 0 /\ now - l.seen[q] >= IdleEvict THEN Zero ELSE @[q]]]

\* The batch commits and its metrics are folded.
CommitRpc ==
    /\ cycle.kind = "rpc"
    /\ stats' = DropThenFold([stats EXCEPT !.live = cycle.live], cycle)
    /\ ledger' = Booked
    /\ cycle' = NoCycle
    /\ UNCHANGED <<load, now, snapshot, hub, history, latest_frame>>

\* The batch aborts: no metrics, and the indexes are rebuilt from disk.
AbortRpc ==
    /\ cycle.kind = "rpc"
    /\ cycle' = NoCycle
    /\ UNCHANGED <<load, now, stats, snapshot, hub, history, latest_frame, ledger>>

\* A sweep folds its metrics when it commits, and evicts in either case.
EndSweep(ok) ==
    /\ cycle.kind = "sweep"
    /\ LET s == IF ok THEN fold_admin_totals([stats EXCEPT !.live = cycle.live], cycle.counts)
                      ELSE stats
       IN  /\ stats' = evict_idle_admin_totals(s)
           /\ ledger' = Forget(IF ok THEN Booked ELSE ledger, s.live)
    /\ cycle' = NoCycle
    /\ UNCHANGED <<load, now, snapshot, hub, history, latest_frame>>

\* The end of a loop turn, when ADMIN_PUBLISH_INTERVAL has passed.
PublishSnapshot ==
    /\ cycle.kind = "none"
    /\ snapshot' = [totals |-> stats.totals, live |-> stats.live, ever |-> ledger.ever]
    /\ UNCHANGED <<load, now, stats, cycle, hub, history, latest_frame, ledger>>

-------------------------------------------------------------------------------
(* The stats hub.                                                            *)

queue_names(snap) == DOMAIN snap.totals \cup {q \in QueueName : snap.live[q] > 0} \cup Declared

\* A variant that takes the distance of the two totals, whichever is larger.
RateByDistance(cur, prev, q) ==
    [c \in Counter |->
        IF q \notin DOMAIN prev THEN 0
        ELSE IF Entry(cur, q)[c] >= prev[q][c] THEN Entry(cur, q)[c] - prev[q][c]
        ELSE prev[q][c] - Entry(cur, q)[c]]

\* The rate over one tick: nothing without a previous value, and saturating.
Rate(cur, prev, q) ==
    [c \in Counter |->
        IF q \in DOMAIN prev /\ Entry(cur, q)[c] >= prev[q][c]
        THEN Entry(cur, q)[c] - prev[q][c] ELSE 0]

\* The newest `cap` samples of a ring.
Trim(ring, cap) == IF Len(ring) > cap THEN SubSeq(ring, Len(ring) - cap + 1, Len(ring)) ELSE ring

NewRings(names, cap, n) ==
    [q \in names |-> Trim(Append(IF q \in DOMAIN history THEN history[q] ELSE <<>>, n), cap)]

\* A tick: load the snapshot, compute the rates, extend the rings under the lock.
HubSample ==
    /\ hub.pc = "tick"
    /\ latest_frame < load.ticks
    /\ hub' = [pc |-> "store", prev |-> snapshot.totals, was |-> hub.ever,
               ever |-> snapshot.ever,
               rates |-> [q \in queue_names(snapshot) |-> Rate(snapshot.totals, hub.prev, q)]]
    /\ \E cap \in HistoryCap :
        history' = NewRings(queue_names(snapshot), cap, latest_frame + 1)
    /\ UNCHANGED <<load, now, stats, cycle, snapshot, latest_frame, ledger>>

\* Number the frame, of these totals and rates, and store it for /overview and
\* the SSE hello.
HubStore ==
    /\ hub.pc = "store"
    /\ latest_frame' = latest_frame + 1
    /\ hub' = [hub EXCEPT !.pc = "send"]
    /\ UNCHANGED <<load, now, stats, cycle, snapshot, history, ledger>>

\* hub.send(Stats): what the subscribers get is the business of AdminFeed.
HubSend ==
    /\ hub.pc = "send"
    /\ hub' = [hub EXCEPT !.pc = "tick", !.was = hub.ever, !.rates = Empty]
    /\ UNCHANGED <<load, now, stats, cycle, snapshot, history, latest_frame, ledger>>

\* The process restarts, perhaps between the commit of a cycle and its fold: the
\* jobs are still there, every figure starts again.
StatsRestart ==
    /\ \E landed \in {FALSE, cycle.kind # "none"} :
        /\ stats' = [live |-> IF landed THEN cycle.live ELSE stats.live,
                     totals |-> Empty, last_active |-> Empty]
        /\ ledger' = [ever |-> NoCounts, after |-> NoCounts, seen |-> [q \in QueueName |-> 0],
                      calls |-> ledger.calls + IF landed THEN cycle.calls ELSE 0]
    /\ cycle' = NoCycle
    /\ snapshot' = [totals |-> Empty, live |-> [q \in QueueName |-> 0], ever |-> NoCounts]
    /\ hub' = IdleHub
    /\ history' = Empty
    /\ latest_frame' = 0
    /\ UNCHANGED <<load, now>>

StatsCommitter ==
    \/ \E kind \in {"rpc", "sweep"} : BeginCycle(kind)
    \/ \E q \in QueueName, c \in Counter : Recorder(q, c)
    \/ \E q \in QueueName : PurgeChunk(q)
    \/ CommitRpc
    \/ AbortRpc
    \/ \E ok \in BOOLEAN : EndSweep(ok)
    \/ PublishSnapshot

StatsNext == StatsClock \/ StatsCommitter \/ HubSample \/ HubStore \/ HubSend \/ StatsRestart

StatsSpec == StatsInit /\ [][StatsNext]_statsVars

-------------------------------------------------------------------------------
(* Properties.                                                               *)

\* The totals count exactly what was committed (fold_admin_totals): nothing of
\* an aborted batch, nothing twice, and nothing missing that was committed
\* behind the last purge that emptied the queue, even in the batch of that
\* purge.  Only an empty queue, idle for ADMIN_IDLE_EVICT_MS, starts again at 0.
TotalsExact ==
    \A q \in QueueName, c \in Counter :
        /\ ledger.after[q][c] <= Entry(stats.totals, q)[c]
        /\ Entry(stats.totals, q)[c] <= ledger.ever[q][c]

\* A rate the hub publishes (run_hub) never shows more work than was committed
\* between the two snapshots it compares, also when a purge or an eviction made
\* the totals fall in between.
RateHonest ==
    \A q \in DOMAIN hub.rates, c \in Counter :
        hub.rates[q][c] <= hub.ever[q][c] - hub.was[q][c]

\* A ring holds the rates of consecutive frames up to the newest: a queue that
\* vanished and came back starts a new ring instead of joining the old samples
\* to the new ones across the gap.
RingUnbroken ==
    \A q \in DOMAIN history :
        LET last == IF hub.pc = "store" THEN latest_frame + 1 ELSE latest_frame
        IN  \A i \in 1..Len(history[q]) : history[q][i] = last - Len(history[q]) + i

\* The charts of the dashboard show work that was done, in the frames in which
\* it was done.
ChartsHonest == RateHonest /\ RingUnbroken
===============================================================================
