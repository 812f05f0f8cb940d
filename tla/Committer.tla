------------------------------ MODULE Committer ------------------------------
(***************************************************************************)
(* The committer thread (storage.rs:632-831, 979-1056): it alone owns the  *)
(* database and the indexes.  It takes every command waiting in the        *)
(* channel as one batch, applies the batch to one transaction under one    *)
(* clock reading, commits, persists, and only then answers.  A storage     *)
(* error drops the transaction, rebuilds the indexes and fails the batch;  *)
(* an error while persisting aborts the process.  Timer sweeps are cycles  *)
(* of their own.                                                           *)
(*                                                                         *)
(* db, ix and minted of JobStore are the open transaction's view; disk and *)
(* opened are what a restart would find.  A rebuild of the indexes that    *)
(* itself fails is left out.                                               *)
(***************************************************************************)
EXTENDS JobStore

CONSTANT Call   \* the client calls that can share a batch

VARIABLES
    phase,      \* where the committer is: idle, rpc, sweep or written
    disk,       \* the keyspaces that survive a crash
    opened,     \* minted, as of disk (history)
    status,     \* of each call: none (not taken yet), batch (taken), applied
    claims,     \* what the pending reply of each call will tell its client
    promised,   \* jobs a producer was told exist (history)
    finished    \* jobs a worker was told are done (history)

ledger == <<promised, finished>>

cvars == <<vars, phase, disk, opened, status, claims, ledger>>

NoClaim == [exists |-> {}, done |-> {}]

CInit ==
    /\ Init
    /\ phase = "idle"
    /\ disk = db
    /\ opened = minted
    /\ status = [c \in Call |-> "none"]
    /\ claims = [c \in Call |-> NoClaim]
    /\ promised = {}
    /\ finished = {}

With(s) == {c \in Call : status[c] = s}

\* The calls that are waiting in the channel are taken as one batch.
Receive ==
    /\ phase = "idle"
    /\ phase' = "rpc"
    /\ \E batch \in (SUBSET Call) \ {{}} :
          status' = [c \in Call |-> IF c \in batch THEN "batch" ELSE "none"]
    /\ UNCHANGED <<vars, disk, opened, claims, ledger>>

\* apply_command for call c: the reply is kept until the batch is durable.
Defer(c, exists, done) ==
    /\ phase = "rpc" /\ status[c] = "batch"
    /\ status' = [status EXCEPT ![c] = "applied"]
    /\ claims' = [claims EXCEPT ![c] = [exists |-> exists, done |-> done]]
    /\ UNCHANGED <<phase, disk, opened, ledger>>

Minting == {j \in Job : minted[j] # minted'[j]}

ApplyEnqueue(c) == Producers /\ Defer(c, Minting, {})

\* An enqueue answered from a dedup row, which may itself be uncommitted.
ApplyDedupHit(c) ==
    \E k \in Queue \X Key :
        /\ db.dedup[k] # None /\ now < db.dedup[k].deadline
        /\ Defer(c, {db.dedup[k].job}, {})
        /\ UNCHANGED vars

ApplyAck(c) ==
    \E j \in InFlight : Ack(j, db.inflight[j].attempt) /\ Defer(c, {}, {j})

ApplyOther(c) ==
    /\ \/ \E queues \in ReserveQueues, lease_ms \in LeaseMs, n \in 1..MaxReserve :
             Reserve(queues, lease_ms, n)
       \/ \E j \in InFlight :
             LET attempt == db.inflight[j].attempt IN
             \/ \E reject \in BOOLEAN : NackDead(j, attempt, reject)
             \/ \E delay_ms \in RetryDelayMs : NackRetry(j, attempt, delay_ms)
             \/ \E lease_ms \in LeaseMs : Extend(j, attempt, lease_ms)
       \/ Requeues \/ Purges \/ Operators
    /\ Defer(c, {}, {})

\* A business rejection is answered at once; it has changed nothing.
Refuse(c) ==
    /\ phase = "rpc" /\ status[c] = "batch"
    /\ status' = [status EXCEPT ![c] = "none"]
    /\ UNCHANGED <<vars, phase, disk, opened, claims, ledger>>

SweepCycle ==
    /\ phase = "idle"
    /\ Sweep
    /\ phase' = "sweep"
    /\ UNCHANGED <<disk, opened, status, claims, ledger>>

ReplyAtCommit ==
    /\ phase \in {"rpc", "sweep"} /\ With("batch") = {}
    /\ phase' = "written"
    /\ promised' = promised \cup UNION {claims[c].exists : c \in Call}
    /\ finished' = finished \cup UNION {claims[c].done : c \in Call}
    /\ UNCHANGED <<vars, disk, opened, status, claims>>

\* tx.commit(): visible to readers, not yet on disk.
Commit ==
    /\ phase \in {"rpc", "sweep"} /\ With("batch") = {}
    /\ phase' = "written"
    /\ UNCHANGED <<vars, disk, opened, status, claims, ledger>>

\* The calls of the batch are over, whatever their clients were told.
EndBatch ==
    /\ status' = [c \in Call |-> "none"]
    /\ claims' = [c \in Call |-> NoClaim]

\* db.persist() succeeded: every pending reply goes out.
Persist ==
    /\ phase = "written"
    /\ phase' = "idle"
    /\ disk' = db
    /\ opened' = minted
    /\ promised' = promised \cup UNION {claims[c].exists : c \in Call}
    /\ finished' = finished \cup UNION {claims[c].done : c \in Call}
    /\ EndBatch
    /\ UNCHANGED vars

ReloadStale ==
    /\ db' = disk'
    /\ ix' = ix
    /\ minted' = opened'

\* What rebuild_indexes and a fresh transaction make of the store.
Reload ==
    /\ db' = disk'
    /\ ix' = RebuildIndexes(disk')
    /\ minted' = opened'

\* A storage error while a command is applied, or a failed commit: the
\* transaction is dropped and every call of the batch is answered Internal.
Abort ==
    /\ phase \in {"rpc", "sweep"}
    /\ phase' = "idle"
    /\ UNCHANGED <<disk, opened, now, ledger>>
    /\ Reload
    /\ EndBatch

\* The process dies, in particular when persist fails, and is restarted.  A
\* transaction that was written may or may not have reached the disk.
Crash ==
    /\ \/ UNCHANGED <<disk, opened>>
       \/ phase = "written" /\ disk' = db /\ opened' = minted
    /\ phase' = "idle"
    /\ Reload
    /\ EndBatch
    /\ UNCHANGED <<now, ledger>>

\* One clock reading serves a whole cycle.
CTick ==
    /\ phase = "idle"
    /\ Tick
    /\ UNCHANGED <<phase, disk, opened, status, claims, ledger>>

CNext ==
    \/ \E c \in Call :
          \/ ApplyEnqueue(c) \/ ApplyDedupHit(c) \/ ApplyAck(c)
          \/ ApplyOther(c) \/ Refuse(c)
    \/ Receive \/ SweepCycle \/ Commit \/ Persist \/ Abort \/ Crash \/ CTick

CSpec == CInit /\ [][CNext]_cvars

-----------------------------------------------------------------------------
Disk == INSTANCE JobStore
            WITH db <- disk, ix <- RebuildIndexes(disk), minted <- opened

\* A crash at any moment, in the middle of a batch or between commit and
\* persist, leaves a store in which every job has its one place and its
\* timers: nothing needs repair at the next start.
DiskConsistent ==
    /\ Disk!NoJobStranded /\ Disk!NoJobDuplicated /\ Disk!CopiesAgree
    /\ Disk!LeaseTimersExact /\ Disk!DedupTimersExact /\ Disk!DeadOrLive

\* What a caller was told survives every rollback and crash.  A producer that
\* was told its job exists, also by a dedup hit on a job of the same batch,
\* never loses it; a worker that was told its ack was taken never sees the job
\* again.
RepliesDurable ==
    /\ \A j \in promised : opened[j] # None
    /\ \A j \in finished :
          disk.jobs[j] = None /\ \A e \in disk.dead_letter : e.job # j

\* Between cycles the indexes are those of the disk, also after a batch failed
\* half way: no later operation acts on a rolled-back change.
IdleMeansInSync ==
    phase = "idle" => db = disk /\ ix = RebuildIndexes(disk)
=============================================================================
