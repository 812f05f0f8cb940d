------------------------------- MODULE Admission -------------------------------
(***************************************************************************)
(* The way of an enqueue from the request to the answer: each job of the    *)
(* batch is classified (queue_server.rs), those that pass are given the     *)
(* limits of their queue and sent in one command (storage.rs, op.rs), and   *)
(* the results are put back into the slots of the jobs.  The configuration  *)
(* and the registry are loaded separately, the registry twice, and reloads  *)
(* replace them in between.                                                 *)
(*                                                                          *)
(* A job is its queue, whether it is well formed (validate.rs), the length  *)
(* of its names, what it measures in the limits of its queue, and the       *)
(* attempts it asks for.  The store's verdict on a job is any.              *)
(***************************************************************************)
EXTENDS QueuePolicy, Sequences

CONSTANTS
    Setting,   \* strict_queues, max_name_bytes and max_enqueue_batch of valid configs
    Measured,  \* the limits a job is measured against
    Jobs       \* the batches that are enqueued

ASSUME AdmissionAssumption ==
    /\ Setting \subseteq [strict_queues : BOOLEAN, max_name_bytes : Nat,
                    max_enqueue_batch : Nat]
    /\ Measured \subseteq {"max_payload", "horizon"}
    /\ None \notin [outcome : {"success", "refused", "rejected"}, job : Nat]

\* A well-formed job asks for at least one attempt (validate.rs).
ASSUME JobsAssumption ==
    \A jobs \in Jobs :
        /\ jobs \in Seq([queue : Queue, valid : BOOLEAN, name_bytes : Nat,
                         max_attempts : Nat \cup {None}, measure : [Measured -> Nat]])
        /\ \A i \in 1..Len(jobs) : jobs[i].valid => jobs[i].max_attempts # 0

VARIABLES
    config,    \* the settings in force
    boot,      \* boot_registry: restart-only limits come from it
    settings   \* the settings in force since the call began (history)

avars == <<registry, call, seen, config, boot, settings>>

AInit ==
    /\ PInit
    /\ boot = registry
    /\ config \in Setting
    /\ settings = {config}

\* The reload stores the config after it published the registry.
StoreConfig ==
    /\ config' \in Setting
    /\ settings' = (IF call.op = "enqueue" THEN settings ELSE {}) \cup {config'}
    /\ UNCHANGED <<registry, call, seen, boot>>

\* classify_enqueue: well formed, declared where that is required, and within
\* the limits of the server and of the queue.  The server's limits are one, on
\* the name of the queue; the queue's are those of Measured.  The lists of
\* allowed job types and encodings are left out.
classify_enqueue(job, r, c) ==
    /\ job.valid
    /\ c.strict_queues => job.queue \in DOMAIN r.declared
    /\ job.name_bytes <= c.max_name_bytes
    /\ \A f \in Measured : job.measure[f] <= Effective(r, job.queue)[f]

\* JobLimits::resolve; the dedup window is that of the boot.
Resolve(job, live) ==
    LET eff == Effective(live, job.queue)
    IN  [max_attempts |-> SmallerOf(Override(job.max_attempts, eff.default_attempts),
                                    eff.attempts_ceiling),
         dedup_window |-> Effective(boot, job.queue).dedup_window,
         max_depth |-> eff.max_depth]

\* The config is loaded for the strict mode and the limits of the server.  An
\* empty batch or one that is too large is refused.
StartEnqueue(atomic, jobs) ==
    /\ Len(jobs) \in 1..config.max_enqueue_batch
    /\ Start([op |-> "enqueue", at |-> "loaded", atomic |-> atomic, jobs |-> jobs,
              config |-> config, valid |-> <<>>, limits |-> <<>>, answer |-> <<>>])
    /\ settings' = {config}
    /\ UNCHANGED <<config, boot>>

At(step) == call.op = "enqueue" /\ call.at = step

Rejected(i) == [outcome |-> "rejected", job |-> i]

\* The k-th of the slots in S, in the order of the batch.
Kth(S, k) == CHOOSE i \in S : Cardinality({j \in S : j <= i}) = k

\* The registry is loaded and the jobs are classified.  An atomic batch with a
\* rejection is answered with its rejections alone.
Classify ==
    /\ At("loaded")
    /\ LET ok(i) == classify_enqueue(call.jobs[i], registry, call.config)
           passed == {i \in 1..Len(call.jobs) : ok(i)}
           valid == [k \in 1..Cardinality(passed) |-> Kth(passed, k)]
           over == call.atomic /\ passed # 1..Len(call.jobs)
       IN  call' = [call EXCEPT
               !.at = IF over THEN "done" ELSE "classified",
               !.valid = IF over THEN <<>> ELSE valid,
               !.answer = [i \in 1..Len(call.jobs) |->
                              IF ok(i) THEN None ELSE Rejected(i)]]
    /\ UNCHANGED <<registry, seen, config, boot, settings>>

\* A variant that loads the registry for each job.
PrepareEach ==
    /\ At("classified")
    /\ \E live \in [1..Len(call.valid) -> seen] :
        call' = [call EXCEPT !.at = "sent", !.limits =
            [k \in 1..Len(call.valid) |-> Resolve(call.jobs[call.valid[k]], live[k])]]
    /\ UNCHANGED <<registry, seen, config, boot, settings>>

\* prepare_jobs: the registry is loaded again, once for the whole command.
Prepare ==
    /\ At("classified")
    /\ call' = [call EXCEPT !.at = "sent", !.limits =
        [k \in 1..Len(call.valid) |-> Resolve(call.jobs[call.valid[k]], registry)]]
    /\ UNCHANGED <<registry, seen, config, boot, settings>>

\* Which result belongs to slot i: one for each open slot so far.
ResultOf(i) == Cardinality({k \in 1..i : call.answer[k] = None})

\* The command is answered: per job, or all or nothing, and the results fill
\* the open slots.  A storage error ends the call without an answer (Finish).
Answer ==
    /\ At("sent")
    /\ \E verdict \in [1..Len(call.valid) -> {"success", "refused"}] :
        LET result(k) == [outcome |-> verdict[k], job |-> call.valid[k]]
            failed == call.atomic /\ \E k \in DOMAIN verdict : verdict[k] = "refused"
            slot(i) == IF failed /\ verdict[ResultOf(i)] = "success" THEN None
                       ELSE result(ResultOf(i))
        IN  call' = [call EXCEPT !.at = "done", !.answer =
                [i \in 1..Len(call.jobs) |->
                    IF call.answer[i] # None THEN call.answer[i] ELSE slot(i)]]
    /\ UNCHANGED <<registry, seen, config, boot, settings>>

ANext ==
    \/ /\ PNext
       /\ settings' = IF call.op = "enqueue" /\ call' # NoCall THEN settings ELSE {config}
       /\ UNCHANGED <<config, boot>>
    \/ StoreConfig \/ Classify \/ Prepare \/ Answer
    \/ \E atomic \in BOOLEAN, jobs \in Jobs : StartEnqueue(atomic, jobs)

ASpec == AInit /\ [][ANext]_avars

-------------------------------------------------------------------------------
\* Every answer is the answer of its own job: a success stands for a job that
\* some registry and config in force during the call admit, a rejection for one
\* that some do not or that the store refused, and an atomic batch is stored
\* whole or not at all (enqueue_batch, enqueue_atomic).  Whatever reloads fall
\* in between, the jobs of a command carry attempts within the ceiling and the
\* cap of one registry, which apply_enqueue_atomic relies on.
AnswersMatchJobs ==
    /\ At("done") => \A i \in 1..Len(call.jobs) :
        LET a == call.answer[i]
        IN  /\ a # None => a.job = i
            /\ a # None /\ a.outcome = "success" =>
                \E r \in seen, c \in settings : classify_enqueue(call.jobs[i], r, c)
            /\ a # None /\ a.outcome = "rejected" =>
                \E r \in seen, c \in settings : ~classify_enqueue(call.jobs[i], r, c)
            /\ call.atomic /\ a # None /\ a.outcome = "success" =>
                \A k \in 1..Len(call.jobs) :
                    call.answer[k] # None /\ call.answer[k].outcome = "success"
    /\ At("sent") => \E r \in seen : \A k \in 1..Len(call.valid) :
        LET job == call.jobs[call.valid[k]]
            eff == Effective(r, job.queue)
        IN  /\ call.limits[k].max_attempts \in 1..eff.attempts_ceiling
            /\ job.max_attempts # None => call.limits[k].max_attempts <= job.max_attempts
            /\ call.limits[k].max_depth = eff.max_depth
===============================================================================
