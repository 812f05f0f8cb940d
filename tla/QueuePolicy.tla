---------------------------- MODULE QueuePolicy ----------------------------
(***************************************************************************)
(* The limits of a queue at work: how reserve, nack and extend turn what a *)
(* worker asks for into the lease and the retry delay of the command they  *)
(* send (queue_server.rs:640-700, storage.rs:2118-2145, 3232-3323), while  *)
(* hot reloads publish other registries (queues.rs).                       *)
(*                                                                         *)
(* A registry is the global limits and the overrides of the declared       *)
(* queues.  u64 is 0..UMax.  The jitter hash may be any number.            *)
(***************************************************************************)
EXTENDS Integers, FiniteSetsExt

CONSTANTS
    Queue,      \* queue names
    None,       \* an unset optional field
    UMax,       \* u64::MAX
    Registry,   \* the registries that valid configs build
    Attempt,    \* the attempt numbers workers name
    Duration    \* the durations, in milliseconds, workers name

Limits ==
    [max_lease : 1..UMax, retry_delay : 0..UMax,
     retry_backoff : {"none", "exponential"}, retry_delay_max : 1..UMax,
     horizon : 1..UMax, max_payload : 1..UMax, default_attempts : 1..UMax,
     attempts_ceiling : 1..UMax, dedup_window : 1..UMax, max_depth : (0..UMax) \cup {None}]

\* EffectiveLimits::validate
Valid(limits) ==
    /\ limits \in Limits
    /\ limits.retry_delay <= limits.retry_delay_max
    /\ limits.default_attempts <= limits.attempts_ceiling

Override(value, default) == IF value = None THEN default ELSE value

\* EffectiveLimits::merged_with
Merged(defaults, q) ==
    [f \in DOMAIN defaults |-> Override(q[f], defaults[f])]

\* QueueRegistry::effective; retry_policy resolves its fields the same way.
Effective(r, q) ==
    IF q \in DOMAIN r.declared THEN Merged(r.defaults, r.declared[q])
    ELSE r.defaults

\* Config::validate: the globals and every declared queue.
ASSUME RegistryAssumption ==
    \A r \in Registry :
        /\ DOMAIN r.declared \subseteq Queue
        /\ Valid(r.defaults)
        /\ \A q \in Queue : Valid(Effective(r, q))

ASSUME DurationAssumption ==
    Duration \subseteq 0..UMax /\ Attempt \subseteq Nat /\ UMax \in Nat

\* QueueRegistry::any_retry_policy and min_max_lease_ms, the two fast paths.
AnyRetryPolicy(r) ==
    \/ r.defaults.retry_delay > 0
    \/ \E q \in DOMAIN r.declared :
          r.declared[q].retry_delay # None /\ r.declared[q].retry_delay > 0

DefaultMaxLease(r) == r.defaults.max_lease

MinMaxLease(r) ==
    Min({r.defaults.max_lease}
        \cup {Override(r.declared[q].max_lease, r.defaults.max_lease) :
                 q \in DOMAIN r.declared})

SmallerOf(a, b) == IF a < b THEN a ELSE b

LargerOf(a, b) == IF a > b THEN a ELSE b

WrappingGrown(p, attempt) ==
    IF p.retry_backoff = "none" THEN p.retry_delay
    ELSE (p.retry_delay * 2 ^ LargerOf(attempt - 1, 0)) % (UMax + 1)

\* The backoff, with saturating arithmetic throughout.
Grown(p, attempt) ==
    IF p.retry_backoff = "none" \/ attempt <= 1 THEN p.retry_delay
    ELSE SmallerOf(p.retry_delay * SmallerOf(2 ^ (attempt - 1), UMax), UMax)

Capped(p, attempt) ==
    SmallerOf(Grown(p, attempt), SmallerOf(p.retry_delay_max, p.horizon))

\* policy_retry_delay_ms, for every value of the hash.
PolicyDelays(p, attempt) ==
    IF p.retry_delay = 0 THEN {0}
    ELSE {Capped(p, attempt) - (hash % (Capped(p, attempt) \div 4 + 1)) :
             hash \in 0..UMax}

-----------------------------------------------------------------------------
VARIABLES
    registry,   \* the published registry
    call,       \* the worker's call
    seen        \* the registries in force since the call began (history)

pvars == <<registry, call, seen>>

NoCall == [op |-> "none", at |-> "idle"]

PInit == registry \in Registry /\ call = NoCall /\ seen = {registry}

\* A hot reload.
HotReload ==
    /\ registry' \in Registry
    /\ seen' = seen \cup {registry'}
    /\ UNCHANGED call

Start(c) ==
    /\ call.at = "idle"
    /\ call' = c
    /\ seen' = {registry}
    /\ UNCHANGED registry

Done(result) ==
    /\ call' = [call EXCEPT !.at = "done", !.result = result]
    /\ UNCHANGED <<registry, seen>>

\* The lease of a reserve is clamped once, before the long poll, to the least
\* ceiling of its queues, and is at least 1 ms.
StartReserve(Q, asked) ==
    Start([op |-> "reserve", at |-> "done", queues |-> Q, asked |-> asked,
           result |-> LargerOf(1, SmallerOf(asked,
               Min({Effective(registry, q).max_lease : q \in Q})))])

\* A nack for a job of queue q.  With a delay named, or a policy somewhere, the
\* queue must be looked up.
StartNack(q, attempt, explicit) ==
    LET fast == explicit = None /\ ~AnyRetryPolicy(registry)
    IN  Start([op |-> "nack", at |-> IF fast THEN "done" ELSE "lookup",
               queues |-> {q}, attempt |-> attempt, asked |-> explicit,
               result |-> IF fast THEN 0 ELSE None])

\* The lookup found the job in flight; the registry is loaded again.
ResolveNack ==
    /\ call.op = "nack" /\ call.at = "lookup"
    /\ \E q \in call.queues :
          LET p == Effective(registry, q) IN
          IF call.asked # None THEN Done(SmallerOf(call.asked, p.horizon))
          ELSE \E delay \in PolicyDelays(p, call.attempt) : Done(delay)

\* An extend keeps the registry it loaded first across the lookup.
StartExtend(q, asked) ==
    LET requested == LargerOf(asked, 1)
        fast == requested <= MinMaxLease(registry)
    IN  Start([op |-> "extend", at |-> IF fast THEN "done" ELSE "lookup",
               queues |-> {q}, asked |-> asked, loaded |-> registry,
               result |-> IF fast THEN requested ELSE None])

ResolveExtend ==
    /\ call.op = "extend" /\ call.at = "lookup"
    /\ \E q \in call.queues :
          Done(SmallerOf(LargerOf(call.asked, 1),
                         Effective(call.loaded, q).max_lease))

\* The command is sent, or the lookup found no job in flight: the nack will be
\* fenced off and the extend is refused.
Finish ==
    /\ call.at # "idle"
    /\ call' = NoCall
    /\ seen' = {registry}
    /\ UNCHANGED registry

PNext ==
    \/ HotReload \/ ResolveNack \/ ResolveExtend \/ Finish
    \/ \E asked \in Duration : \E Q \in (SUBSET Queue) \ {{}} : StartReserve(Q, asked)
    \/ \E q \in Queue :
          \/ \E attempt \in Attempt, explicit \in Duration \cup {None} :
                StartNack(q, attempt, explicit)
          \/ \E asked \in Duration : StartExtend(q, asked)

PSpec == PInit /\ [][PNext]_pvars

-----------------------------------------------------------------------------
Finished(op) == call.op = op /\ call.at = "done"

\* A lease is what the worker asked for, at least 1 ms, and within the ceiling
\* of every queue of the call, all under one registry that was in force during
\* the call: the extend fast path and a reload in the middle change nothing.
LeaseWithinCeiling ==
    (Finished("reserve") \/ Finished("extend")) =>
        \E r \in seen :
            /\ \A q \in call.queues : call.result \in 1..Effective(r, q).max_lease
            /\ \/ call.result = LargerOf(call.asked, 1)
               \/ \E q \in call.queues : call.result = Effective(r, q).max_lease

\* A retry without a directive waits between three quarters of and the whole
\* delay of its policy, base * 2^(attempt - 1) capped, computed here without
\* overflow, and never 0 when there is a policy: no storm of immediate retries
\* at high attempts (policy_retry_delay_ms) or by the any_retry_policy path.
RetryDelayOfPolicy ==
    (Finished("nack") /\ call.asked = None) =>
        \E r \in seen, q \in call.queues :
            LET p     == Effective(r, q)
                ideal == p.retry_delay
                         * (IF p.retry_backoff = "none" \/ call.attempt <= 1 THEN 1
                            ELSE 2 ^ (call.attempt - 1))
                full  == Min({ideal, p.retry_delay_max, p.horizon})
            IN  /\ call.result <= full
                /\ 4 * call.result >= 3 * full
                /\ p.retry_delay > 0 => call.result > 0
=============================================================================
