---------------------------- MODULE ConfigProofs ----------------------------
(***************************************************************************)
(* What the configuration promises while it changes under the server, for  *)
(* every number of handlers, saves and crashes, and every registry that    *)
(* valid configs build.                                                    *)
(***************************************************************************)
EXTENDS ConfigReload, Admission, FiniteSetTheorems, TLAPS

-----------------------------------------------------------------------------
(* The reload. *)

FileContent == Nat \cup {Broken, Missing}

LiveContent == Nat \cup {Builtin}

Handling ==
    [at : {"idle", "checked", "removed", "waiting", "parked"}, etag : FileContent,
     candidate : Nat, inForce : BOOLEAN, bumped : BOOLEAN]

RType ==
    /\ file \in FileContent
    /\ watcher \in [at : {"boot", "idle", "debounce", "load", "publish", "set_keys",
                          "store", "bump", "recheck"}, loaded : Nat]
    /\ live \in [registry : LiveContent, keys : LiveContent, config : LiveContent]
    /\ lock \in Handler \cup {Nobody}
    /\ req \in [Handler -> Handling]
    /\ byHand \in BOOLEAN
    /\ saves \in Nat

\* A handler that is past its check holds config_write_lock.
LockHeld == \A h \in Handler : req[h].at # "idle" => lock = h

\* While it has the lock, the file is what it last saw or left there, unless
\* somebody saved it by hand.
FileKept ==
    \A h \in Handler :
        /\ req[h].at = "checked" => file = req[h].etag \/ byHand
        /\ req[h].at = "removed" => file = Missing \/ byHand

\* The watcher puts a content in force part by part, the config last.
ConfigLast ==
    /\ watcher.at = "set_keys" => live.registry = watcher.loaded
    /\ watcher.at = "store" => live.registry = watcher.loaded /\ live.keys = watcher.loaded

\* Once the config of a handler's edit is in force that was not when it was
\* written, everything in force or about to be was saved since.
EditInForce ==
    \A h \in Handler : req[h].at \in {"waiting", "parked"} =>
        /\ file \in since /\ req[h].candidate \in since
        /\ ~req[h].inForce /\ live.config = req[h].candidate =>
              /\ live.registry \in since /\ live.keys \in since
              /\ watcher.at \in {"publish", "set_keys", "store"} => watcher.loaded \in since

\* The inductive invariant.
Reloading == RType /\ LockHeld /\ FileKept /\ ConfigLast /\ EditInForce

LEMMA ReloadingInit == RInit => Reloading
PROOF
  <1> SUFFICES ASSUME RInit PROVE Reloading
    OBVIOUS
  <1>1. RType
    BY Zenon DEF RInit, RType, Handling, Running, Fresh, FileContent, LiveContent
  <1>2. LockHeld /\ FileKept /\ ConfigLast /\ EditInForce
    BY Zenon DEF RInit, LockHeld, FileKept, ConfigLast, EditInForce, Fresh
  <1> QED
    BY <1>1, <1>2, Zenon DEF Reloading

LEMMA WatcherReloading ==
  ASSUME Reloading, WatcherStep \/ StartWatcher
  PROVE  Reloading'
PROOF
  <1> USE DEF Reloading, RType, LockHeld, FileKept, ConfigLast, EditInForce, Handling,
             Watch, counters
  <1>1. CASE Receive
    BY <1>1 DEF Receive
  <1>2. CASE Drain
    BY <1>2, Zenon DEF Drain
  <1>3. CASE Load
    BY <1>3, Zenon DEF Load, FileContent
  <1>4. CASE Publish
    BY <1>4, Zenon DEF Publish, LiveContent
  <1>5. CASE SetKeys
    BY <1>5, Zenon DEF SetKeys, LiveContent
  <1>6. CASE Store
    BY <1>6 DEF Store, LiveContent
  <1>7. CASE Bump
    <2>1. ASSUME NEW h \in Handler
          PROVE  /\ req'[h] \in Handling
                 /\ req'[h].at = req[h].at /\ req'[h].etag = req[h].etag
                 /\ req'[h].candidate = req[h].candidate /\ req'[h].inForce = req[h].inForce
      BY <1>7, ZenonT(30) DEF Bump
    <2>2. req' = [h \in Handler |-> req'[h]]
      BY <1>7, Zenon DEF Bump
    <2> QED
      BY <1>7, <2>1, <2>2 DEF Bump
  <1>8. CASE Recheck
    BY <1>8, Zenon DEF Recheck
  <1>9. CASE StartWatcher
    BY <1>9, Zenon DEF StartWatcher
  <1> QED
    BY <1>1, <1>2, <1>3, <1>4, <1>5, <1>6, <1>7, <1>8, <1>9, Zenon DEF WatcherStep

LEMMA HandlingRemoved ==
  ASSUME NEW r \in Handling, NEW c \in Nat
  PROVE  [r EXCEPT !.at = "removed", !.candidate = c, !.bumped = FALSE] \in Handling
PROOF
  <1>1. [r EXCEPT !.at = "removed", !.candidate = c] \in Handling
    BY Zenon DEF Handling
  <1>2. ASSUME NEW x \in Handling PROVE [x EXCEPT !.bumped = FALSE] \in Handling
    BY Zenon DEF Handling
  <1>3. [r EXCEPT !.at = "removed", !.candidate = c, !.bumped = FALSE]
            = [[r EXCEPT !.at = "removed", !.candidate = c] EXCEPT !.bumped = FALSE]
    OBVIOUS
  <1> QED
    BY <1>1, <1>2, <1>3, Zenon

LEMMA HandlingRenamed ==
  ASSUME NEW r \in Handling, NEW b \in BOOLEAN
  PROVE  [r EXCEPT !.at = "waiting", !.inForce = b] \in Handling
  BY ZenonT(30) DEF Handling

LEMMA HandlerReloading ==
  ASSUME Reloading, NEW h \in Handler, HandlerStep(h)
  PROVE  Reloading'
PROOF
  <1> USE ConfigAssumption
      DEF Reloading, RType, LockHeld, FileKept, ConfigLast, EditInForce, Handling,
          Move, counters
  <1>1. CASE GetConfig(h)
    BY <1>1 DEF GetConfig
  <1>2. CASE Check(h)
    BY <1>2 DEF Check
  <1>3. CASE RemoveFile(h)
    <2> PICK c \in NextContents :
          req' = [req EXCEPT ![h].at = "removed", ![h].candidate = c, ![h].bumped = FALSE]
      BY <1>3, Zenon DEF RemoveFile
    <2>1. /\ file' = Missing /\ byHand' = FALSE /\ saves' = saves + 1
          /\ UNCHANGED <<watcher, live, lock, since>> /\ req[h].at = "checked"
      BY <1>3, Zenon DEF RemoveFile
    <2>2. req'[h] = [req[h] EXCEPT !.at = "removed", !.candidate = c, !.bumped = FALSE]
      OBVIOUS
    <2>3. \A g \in Handler \ {h} : req'[g] = req[g] /\ req[g].at = "idle"
      BY <2>1, Zenon
    <2>4. c \in Nat
      BY DEF NextContents
    <2>5. req'[h] \in Handling
      <3> HIDE DEF Handling
      <3> QED
        BY <2>2, <2>4, HandlingRemoved, Zenon
    <2>6. req' \in [Handler -> Handling]
      BY <2>3, <2>5, Zenon
    <2>8. byHand' \in BOOLEAN
      BY <2>1, Zenon
    <2>7. RType'
      BY <2>1, <2>6, <2>8 DEF FileContent
    <2> QED
      BY <2>1, <2>2, <2>3, <2>7
  <1>4. CASE RenameFile(h)
    <2>1. /\ req[h].at = "removed" /\ file' = req[h].candidate /\ byHand' = FALSE
          /\ since' = {req[h].candidate} /\ UNCHANGED <<watcher, live, lock, saves>>
      BY <1>4, Zenon DEF RenameFile
    <2> PICK b \in BOOLEAN : b = (live.config = req[h].candidate)
      BY Zenon
    <2>2. req'[h] = [req[h] EXCEPT !.at = "waiting", !.inForce = b]
      BY <1>4, Zenon DEF RenameFile
    <2>3. \A g \in Handler \ {h} : req'[g] = req[g] /\ req[g].at = "idle"
      BY <1>4, <2>1, Zenon DEF RenameFile
    <2>4. req'[h] \in Handling
      BY <2>2, HandlingRenamed, ZenonT(30)
    <2>6. req' \in [Handler -> Handling]
      BY <1>4, <2>3, <2>4, Zenon DEF RenameFile
    <2>7. byHand' \in BOOLEAN
      BY <2>1, Zenon
    <2>8. file' \in FileContent
      BY <2>1, Zenon DEF FileContent
    <2>5. RType'
      <3> HIDE DEF Handling
      <3> QED
        BY <2>1, <2>6, <2>7, <2>8, Zenon
    <2>9. /\ req'[h].at = "waiting" /\ req'[h].candidate = req[h].candidate
          /\ ~req'[h].inForce => live.config # req[h].candidate
      BY <2>2, ZenonT(30)
    <2>10. LockHeld' /\ FileKept' /\ ConfigLast'
      BY <2>1, <2>3, <2>9
    <2>11. EditInForce'
      BY <2>1, <2>3, <2>9
    <2> QED
      BY <2>5, <2>10, <2>11, Zenon
  <1>5. CASE ParkOnSeq(h)
    BY <1>5 DEF ParkOnSeq
  <1>6. CASE SeqChanged(h)
    BY <1>6 DEF SeqChanged
  <1>7. ASSUME NEW from \in {"checked", "removed", "waiting", "parked"}, Return(h, from)
        PROVE  Reloading'
    BY <1>7, ZenonT(30) DEF Return, Fresh
  <1> QED
    BY <1>1, <1>2, <1>3, <1>4, <1>5, <1>6, <1>7, Zenon
    DEF HandlerStep, AnswerApplied, GiveUp, Abandon, RenameFails

LEMMA WorldReloading ==
  ASSUME Reloading, HandSave \/ Restart
  PROVE  Reloading'
PROOF
  <1> USE ConfigAssumption
      DEF Reloading, RType, LockHeld, FileKept, ConfigLast, EditInForce, Handling,
          counters
  <1>1. CASE HandSave
    BY <1>1 DEF HandSave, NextContents, FileContent
  <1>2. CASE Restart
    BY <1>2, ZenonT(30) DEF Restart, Running, Fresh, LiveContent, FileContent
  <1> QED
    BY <1>1, <1>2, Zenon

LEMMA ReloadingNext == Reloading /\ [RNext]_rvars => Reloading'
PROOF
  <1>1. ASSUME Reloading, UNCHANGED rvars PROVE Reloading'
    BY <1>1, Zenon
    DEF rvars, counters, Reloading, RType, LockHeld, FileKept, ConfigLast, EditInForce
  <1> QED
    BY <1>1, WatcherReloading, HandlerReloading, WorldReloading, Zenon DEF RNext

LEMMA ReloadingHolds == RSpec => []Reloading
  BY ReloadingInit, ReloadingNext, PTL DEF RSpec

\* No admin write is lost to a stale edit (check_etag under config_write_lock),
\* for every number of admins and saves.
THEOREM SavesNeverClobbered == RSpec => SavesNotClobbered
PROOF
  <1>1. ASSUME Reloading, NEW h \in Handler
        PROVE  /\ RemoveFile(h) => file = req[h].etag \/ byHand
               /\ RenameFile(h) => file = Missing \/ byHand
    BY <1>1, Zenon DEF RemoveFile, RenameFile, Reloading, FileKept
  <1>2. Reloading => \A h \in Handler :
            /\ RemoveFile(h) => file = req[h].etag \/ byHand
            /\ RenameFile(h) => file = Missing \/ byHand
    BY <1>1, Zenon
  <1> QED
    BY <1>2, ReloadingHolds, PTL DEF SavesNotClobbered

\* A handler that answers applied is right about the registry and the keys too
\* (validate_and_write), for every interleaving with the watcher and hand edits.
THEOREM AppliedAlwaysInForce == RSpec => AppliedInForce
PROOF
  <1>1. ASSUME Reloading, NEW h \in Handler, AnswerApplied(h), ~req[h].inForce
        PROVE  live.registry \in since /\ live.keys \in since
    BY <1>1, Zenon DEF AnswerApplied, Return, Applied, Reloading, EditInForce
  <1>2. Reloading => \A h \in Handler : AnswerApplied(h) /\ ~req[h].inForce =>
            live.registry \in since /\ live.keys \in since
    BY <1>1, Zenon
  <1> QED
    BY <1>2, ReloadingHolds, PTL DEF AppliedInForce

-----------------------------------------------------------------------------
(* The limits of a queue. *)

LEMMA LeastIsMember ==
  ASSUME NEW S \in SUBSET Nat, S # {}
  PROVE  Min(S) \in S /\ \A x \in S : Min(S) <= x
PROOF
  <1>1. PICK n \in S : \A m \in S : <<m, n>> \notin OpToRel(<, Nat)
    BY NatLessThanWellFounded, WFMin, Zenon
  <1>2. \A m \in S : ~(m < n)
    BY <1>1, Zenon DEF OpToRel
  <1>3. \E x \in S : \A y \in S : x =< y
    BY <1>2
  <1> QED
    BY <1>3, Zenon DEF Min

LEMMA LeastOfThree ==
  ASSUME NEW a \in Nat, NEW b \in Nat, NEW c \in Nat
  PROVE  Min({a, b, c}) = SmallerOf(a, SmallerOf(b, c))
PROOF
  <1>1. /\ Min({a, b, c}) \in {a, b, c}
        /\ Min({a, b, c}) <= a /\ Min({a, b, c}) <= b /\ Min({a, b, c}) <= c
    BY LeastIsMember, Zenon
  <1> QED
    BY <1>1 DEF SmallerOf

LEMMA EffectiveTyped ==
  ASSUME NEW r \in Registry, NEW q \in Queue
  PROVE  /\ Effective(r, q).max_lease \in 1..UMax
         /\ Effective(r, q).retry_delay \in 0..UMax
         /\ Effective(r, q).retry_delay_max \in 1..UMax
         /\ Effective(r, q).horizon \in 1..UMax
         /\ Effective(r, q).default_attempts \in 1..UMax
         /\ Effective(r, q).attempts_ceiling \in 1..UMax
  BY RegistryAssumption, Zenon DEF Valid, Limits

\* How the limits of a queue come about, field by field.
LEMMA EffectiveField ==
  ASSUME NEW r \in Registry, NEW q \in DOMAIN r.declared
  PROVE  /\ q \in Queue
         /\ Effective(r, q).max_lease = Override(r.declared[q].max_lease, r.defaults.max_lease)
         /\ Effective(r, q).retry_delay
                = Override(r.declared[q].retry_delay, r.defaults.retry_delay)
PROOF
  <1>1. q \in Queue /\ r.defaults \in Limits
    BY RegistryAssumption, Zenon DEF Valid
  <1>2. "max_lease" \in DOMAIN r.defaults /\ "retry_delay" \in DOMAIN r.defaults
    BY <1>1, Zenon DEF Limits
  <1> QED
    BY <1>1, <1>2, Zenon DEF Effective, Merged

LEMMA DefaultsTyped ==
  ASSUME NEW r \in Registry
  PROVE  r.defaults.max_lease \in 1..UMax /\ r.defaults.retry_delay \in 0..UMax
  BY RegistryAssumption, Zenon DEF Valid, Limits

\* The fast path of extend: the least ceiling is below that of every queue.
LEMMA LeastCeiling ==
  ASSUME NEW r \in Registry, NEW q \in Queue
  PROVE  MinMaxLease(r) \in Nat /\ MinMaxLease(r) <= Effective(r, q).max_lease
PROOF
  <1> DEFINE S == {r.defaults.max_lease}
                  \cup {Override(r.declared[p].max_lease, r.defaults.max_lease) :
                           p \in DOMAIN r.declared}
  <1>1. S \in SUBSET Nat /\ S # {}
    BY EffectiveField, EffectiveTyped, DefaultsTyped, DurationAssumption
  <1>2. Effective(r, q).max_lease \in S
    BY EffectiveField, Zenon DEF Effective
  <1> HIDE DEF S
  <1>3. Min(S) \in Nat /\ Min(S) <= Effective(r, q).max_lease
    BY <1>1, <1>2, LeastIsMember, Zenon
  <1> QED
    BY <1>3, Zenon DEF MinMaxLease, S

\* The fast path of nack: without a policy anywhere, no queue has a delay.
LEMMA NoPolicyNoDelay ==
  ASSUME NEW r \in Registry, NEW q \in Queue, ~AnyRetryPolicy(r)
  PROVE  Effective(r, q).retry_delay = 0
PROOF
  <1>1. r.defaults.retry_delay = 0
    BY DefaultsTyped, DurationAssumption DEF AnyRetryPolicy
  <1>2. Effective(r, q).retry_delay \in Nat
    BY EffectiveTyped, DurationAssumption
  <1>3. CASE q \in DOMAIN r.declared
    BY <1>1, <1>2, <1>3, EffectiveField DEF AnyRetryPolicy, Override
  <1>4. CASE q \notin DOMAIN r.declared
    BY <1>1, <1>4, Zenon DEF Effective
  <1> QED
    BY <1>3, <1>4, Zenon

-----------------------------------------------------------------------------
(* The delay of a retry. *)

LEMMA PowerPositive ==
  ASSUME NEW n \in Nat
  PROVE  2 ^ n \in Nat /\ 2 ^ n >= 1
PROOF
  <1>1. IsFiniteSet(1..n) /\ Cardinality(1..n) = n
    BY FS_Interval
  <1>2. IsFiniteSet(SUBSET (1..n)) /\ Cardinality(SUBSET (1..n)) = 2 ^ n
    BY <1>1, FS_SUBSET, Zenon
  <1>3. {} \in SUBSET (1..n)
    OBVIOUS
  <1>4. Cardinality(SUBSET (1..n)) \in Nat /\ Cardinality(SUBSET (1..n)) # 0
    BY <1>2, <1>3, FS_CardinalityType, FS_EmptySet, Zenon
  <1> QED
    BY <1>2, <1>4

\* The factor by which the backoff grows, without overflow.
Factor(p, attempt) ==
    IF p.retry_backoff = "none" \/ attempt <= 1 THEN 1 ELSE 2 ^ (attempt - 1)

FullDelay(p, attempt) ==
    Min({p.retry_delay * Factor(p, attempt), p.retry_delay_max, p.horizon})

\* Saturating arithmetic: what is capped anyway may saturate first.
LEMMA Saturates ==
  ASSUME NEW d \in Nat, NEW e \in Nat, NEW u \in Nat, NEW m \in 1..u, d >= 1, e >= 1
  PROVE  /\ d * e \in Nat /\ d * SmallerOf(e, u) \in Nat
         /\ SmallerOf(SmallerOf(d * SmallerOf(e, u), u), m) = SmallerOf(d * e, m)
PROOF
  <1>1. d * e \in Nat /\ d * u \in Nat
    OBVIOUS
  <1>2. CASE e <= u
    BY <1>1, <1>2 DEF SmallerOf
  <1>3. CASE e > u
    <2>1. (d - 1) * u >= 0 /\ (d - 1) * e >= 0
      OBVIOUS
    <2>2. d * u >= u /\ d * e >= e
      BY <2>1
    <2> QED
      BY <1>1, <1>3, <2>2 DEF SmallerOf
  <1> QED
    BY <1>2, <1>3

LEMMA CappedIsFull ==
  ASSUME NEW r \in Registry, NEW q \in Queue, NEW attempt \in Nat,
         Effective(r, q).retry_delay > 0
  PROVE  /\ Capped(Effective(r, q), attempt) = FullDelay(Effective(r, q), attempt)
         /\ Capped(Effective(r, q), attempt) \in Nat \ {0}
PROOF
  <1> DEFINE p == Effective(r, q)
             d == p.retry_delay
             m == SmallerOf(p.retry_delay_max, p.horizon)
             e == Factor(p, attempt)
  <1>1. /\ UMax \in Nat /\ d \in 1..UMax /\ p.retry_delay_max \in 1..UMax
        /\ p.horizon \in 1..UMax
    BY EffectiveTyped, DurationAssumption
  <1>2. e \in Nat /\ e >= 1
    BY PowerPositive DEF Factor
  <1>3. m \in 1..UMax
    BY <1>1, Zenon DEF SmallerOf
  <1>4. /\ d * e \in Nat
        /\ SmallerOf(SmallerOf(d * SmallerOf(e, UMax), UMax), m) = SmallerOf(d * e, m)
    <2> HIDE DEF d, e, m
    <2> QED
      BY <1>1, <1>2, <1>3, Saturates
  <1>5. Capped(p, attempt) = SmallerOf(d * e, m)
    <2>1. CASE p.retry_backoff = "none" \/ attempt <= 1
      <3>1. e = 1
        BY <2>1, Zenon DEF Factor
      <3>2. Grown(p, attempt) = d
        BY <2>1, Zenon DEF Grown
      <3> HIDE DEF e
      <3> QED
        BY <1>1, <3>1, <3>2 DEF Capped
    <2>2. CASE ~(p.retry_backoff = "none" \/ attempt <= 1)
      <3>1. e = 2 ^ (attempt - 1)
        BY <2>2, Zenon DEF Factor
      <3>2. Grown(p, attempt) = SmallerOf(d * SmallerOf(e, UMax), UMax)
        BY <2>2, <3>1, Zenon DEF Grown
      <3> HIDE DEF e
      <3> QED
        BY <1>4, <3>2, Zenon DEF Capped
    <2> QED
      BY <2>1, <2>2, Zenon
  <1>6. FullDelay(p, attempt) = SmallerOf(d * e, m)
    BY <1>1, <1>4, LeastOfThree DEF FullDelay
  <1>7. d * e >= 1
    <2> HIDE DEF d, e
    <2>1. (d - 1) * e >= 0
      BY <1>1, <1>2
    <2> QED
      BY <1>1, <1>2, <2>1
  <1>8. SmallerOf(d * e, m) \in Nat \ {0}
    BY <1>3, <1>4, <1>7 DEF SmallerOf
  <1> QED
    BY <1>5, <1>6, <1>8, Zenon

LEMMA JitterBounded ==
  ASSUME NEW c \in Nat \ {0}, NEW hash \in Nat, NEW x,
         x = c - (hash % (c \div 4 + 1))
  PROVE  x <= c /\ 4 * x >= 3 * c /\ x > 0
PROOF
  <1> DEFINE k == c \div 4
             m == hash % (k + 1)
  <1>1. k \in Nat /\ 4 * k <= c
    OBVIOUS
  <1>2. m \in 0..k
    <2> HIDE DEF k
    <2> QED
      BY <1>1
  <1>3. x = c - m
    OBVIOUS
  <1> HIDE DEF m, k
  <1> QED
    BY <1>1, <1>2, <1>3

\* What RetryDelayOfPolicy says of a delay x.
DelayOf(p, attempt, x) ==
    /\ x <= FullDelay(p, attempt)
    /\ 4 * x >= 3 * FullDelay(p, attempt)
    /\ p.retry_delay > 0 => x > 0

LEMMA NoDelay ==
  ASSUME NEW r \in Registry, NEW q \in Queue, NEW attempt \in Nat,
         Effective(r, q).retry_delay = 0
  PROVE  DelayOf(Effective(r, q), attempt, 0)
PROOF
  <1> DEFINE p == Effective(r, q)
  <1>1. p.retry_delay_max \in Nat /\ p.horizon \in Nat
    BY EffectiveTyped, DurationAssumption
  <1>2. Factor(p, attempt) \in Nat
    BY PowerPositive DEF Factor
  <1>3. p.retry_delay * Factor(p, attempt) = 0
    BY <1>2
  <1>4. FullDelay(p, attempt) = 0
    <2>1. FullDelay(p, attempt) = SmallerOf(0, SmallerOf(p.retry_delay_max, p.horizon))
      BY <1>1, <1>3, LeastOfThree DEF FullDelay
    <2> QED
      BY <1>1, <2>1 DEF SmallerOf
  <1> QED
    BY <1>4 DEF DelayOf

LEMMA PolicyDelaysWithin ==
  ASSUME NEW r \in Registry, NEW q \in Queue, NEW attempt \in Nat,
         NEW x \in PolicyDelays(Effective(r, q), attempt)
  PROVE  DelayOf(Effective(r, q), attempt, x)
PROOF
  <1> DEFINE p == Effective(r, q)
  <1>1. CASE p.retry_delay = 0
    BY <1>1, NoDelay, Zenon DEF PolicyDelays
  <1>2. CASE p.retry_delay # 0
    <2>1. p.retry_delay > 0
      BY <1>2, EffectiveTyped, DurationAssumption
    <2> DEFINE c == Capped(p, attempt)
    <2>2. PICK hash \in 0..UMax : x = c - (hash % (c \div 4 + 1))
      BY <1>2, Zenon DEF PolicyDelays
    <2>3. c = FullDelay(p, attempt) /\ c \in Nat \ {0}
      BY <2>1, CappedIsFull, Zenon
    <2> HIDE DEF c
    <2>4. x <= c /\ 4 * x >= 3 * c /\ x > 0
      <3>1. hash \in Nat
        BY DurationAssumption
      <3> QED
        BY <2>2, <2>3, <3>1, JitterBounded, Zenon
    <2> QED
      BY <2>3, <2>4, Zenon DEF DelayOf
  <1> QED
    BY <1>1, <1>2, Zenon

-----------------------------------------------------------------------------
(* Leases and retries of a call that spans reloads. *)

\* A nack or an extend that waits for its lookup.
NackPending ==
    call.op = "nack" /\ call.at = "lookup" =>
        \E q \in Queue, attempt \in Attempt, asked \in Duration \cup {None} :
            call = [op |-> "nack", at |-> "lookup", queues |-> {q}, attempt |-> attempt,
                    asked |-> asked, result |-> None]

ExtendPending ==
    call.op = "extend" /\ call.at = "lookup" =>
        \E q \in Queue, asked \in Duration, loaded \in seen :
            call = [op |-> "extend", at |-> "lookup", queues |-> {q}, asked |-> asked,
                    loaded |-> loaded, result |-> None]

RegistrySeen == registry \in Registry /\ seen \subseteq Registry /\ registry \in seen

\* The inductive invariant.
Limited ==
    /\ RegistrySeen /\ NackPending /\ ExtendPending
    /\ LeaseWithinCeiling /\ RetryDelayOfPolicy

\* A call whose queues, wish and result are these keeps within the ceilings.
LeaseUnder(r, Q, asked, result) ==
    /\ \A q \in Q : result \in 1..Effective(r, q).max_lease
    /\ result = LargerOf(asked, 1) \/ \E q \in Q : result = Effective(r, q).max_lease

LEMMA LimitedInit == PInit => Limited
  BY DEF PInit, Limited, RegistrySeen, NackPending, ExtendPending, LeaseWithinCeiling,
         RetryDelayOfPolicy, Finished, NoCall

\* Nothing is said of a call that is not a reserve, an extend or a nack.
LEMMA LimitedOther ==
  ASSUME RegistrySeen', call'.op \notin {"reserve", "extend", "nack"}
  PROVE  Limited'
  BY Zenon DEF Limited, NackPending, ExtendPending, LeaseWithinCeiling, RetryDelayOfPolicy, Finished

\* A call that goes on is not disturbed by another registry.
LEMMA LimitedReload ==
  ASSUME Limited, RegistrySeen', call' = call, seen \subseteq seen'
  PROVE  Limited'
PROOF
  <1>1. NackPending' /\ ExtendPending'
    BY Zenon DEF Limited, NackPending, ExtendPending
  <1>2. LeaseWithinCeiling'
    BY Zenon DEF Limited, LeaseWithinCeiling, Finished
  <1>3. RetryDelayOfPolicy'
    BY Zenon DEF Limited, RetryDelayOfPolicy, Finished
  <1> QED
    BY <1>1, <1>2, <1>3, Zenon DEF Limited

\* How a lease or a delay of the right size makes the properties true.
LEMMA LeaseDone ==
  ASSUME RegistrySeen', call'.op \in {"reserve", "extend"}, call'.at = "done",
         NEW r \in seen', LeaseUnder(r, call'.queues, call'.asked, call'.result)
  PROVE  Limited'
PROOF
  <1>1. LeaseWithinCeiling'
    BY Zenon DEF LeaseWithinCeiling, LeaseUnder
  <1> QED
    BY <1>1, Zenon DEF Limited, NackPending, ExtendPending, RetryDelayOfPolicy, Finished

LEMMA NackDone ==
  ASSUME RegistrySeen', call'.op = "nack", call'.at = "done",
         \/ call'.asked # None
         \/ \E r \in seen', q \in call'.queues :
               DelayOf(Effective(r, q), call'.attempt, call'.result)
  PROVE  Limited'
PROOF
  <1>1. RetryDelayOfPolicy'
    BY Zenon DEF RetryDelayOfPolicy, DelayOf, FullDelay, Factor
  <1> QED
    BY <1>1, Zenon DEF Limited, NackPending, ExtendPending, LeaseWithinCeiling, Finished

LEMMA LeaseClamped ==
  ASSUME NEW r \in Registry, NEW q \in Queue, NEW asked \in Duration
  PROVE  LeaseUnder(r, {q}, asked,
                    SmallerOf(LargerOf(asked, 1), Effective(r, q).max_lease))
PROOF
  <1>1. Effective(r, q).max_lease \in Nat /\ Effective(r, q).max_lease >= 1 /\ asked \in Nat
    BY EffectiveTyped, DurationAssumption
  <1> QED
    BY <1>1 DEF LeaseUnder, SmallerOf, LargerOf

LEMMA ReserveLimited ==
  ASSUME Limited, NEW Q \in SUBSET Queue, Q # {}, NEW asked \in Duration,
         StartReserve(Q, asked)
  PROVE  Limited'
PROOF
  <1> DEFINE S == {Effective(registry, q).max_lease : q \in Q}
             lease == LargerOf(1, SmallerOf(asked, Min(S)))
  <1>1. RegistrySeen' /\ registry \in seen' /\ registry \in Registry
    BY Zenon DEF StartReserve, Start, Limited, RegistrySeen
  <1>2. /\ call'.op = "reserve" /\ call'.at = "done" /\ call'.queues = Q
        /\ call'.asked = asked /\ call'.result = lease
    BY Zenon DEF StartReserve, Start
  <1>3. \A q \in Q : Effective(registry, q).max_lease \in Nat \ {0}
    BY <1>1, EffectiveTyped, DurationAssumption
  <1>4. S \in SUBSET Nat /\ S # {}
    BY <1>3, Zenon
  <1> HIDE DEF S
  <1>5. Min(S) \in S /\ \A x \in S : Min(S) <= x
    BY <1>4, LeastIsMember, Zenon
  <1>6. PICK q \in Q : Min(S) = Effective(registry, q).max_lease
    BY <1>5, Zenon DEF S
  <1>7. \A p \in Q : Min(S) <= Effective(registry, p).max_lease
    BY <1>5, Zenon DEF S
  <1>8. Min(S) \in Nat \ {0} /\ asked \in Nat
    BY <1>3, <1>6, DurationAssumption
  <1>9. lease \in 1..Min(S) /\ (lease = LargerOf(asked, 1) \/ lease = Min(S))
    BY <1>8 DEF LargerOf, SmallerOf
  <1> HIDE DEF lease
  <1>10. LeaseUnder(registry, Q, asked, lease)
    BY <1>3, <1>6, <1>7, <1>8, <1>9 DEF LeaseUnder
  <1> QED
    BY <1>1, <1>2, <1>10, LeaseDone, Zenon

LEMMA ExtendLimited ==
  ASSUME Limited, NEW q \in Queue, NEW asked \in Duration, StartExtend(q, asked)
  PROVE  Limited'
PROOF
  <1> DEFINE requested == LargerOf(asked, 1)
  <1>1. RegistrySeen' /\ registry \in seen' /\ registry \in Registry
    BY Zenon DEF StartExtend, Start, Limited, RegistrySeen
  <1>2. CASE requested <= MinMaxLease(registry)
    <2>1. /\ call'.op = "extend" /\ call'.at = "done" /\ call'.queues = {q}
          /\ call'.asked = asked /\ call'.result = requested
      BY <1>2, Zenon DEF StartExtend, Start
    <2>2. /\ Effective(registry, q).max_lease \in Nat /\ MinMaxLease(registry) \in Nat
          /\ MinMaxLease(registry) <= Effective(registry, q).max_lease /\ asked \in Nat
      BY <1>1, LeastCeiling, EffectiveTyped, DurationAssumption
    <2>3. requested \in Nat /\ requested >= 1
      BY <2>2 DEF LargerOf
    <2>4. requested <= Effective(registry, q).max_lease
      <3> HIDE DEF requested
      <3> QED
        BY <1>2, <2>2, <2>3
    <2>5. LeaseUnder(registry, {q}, asked, requested)
      BY <2>2, <2>3, <2>4 DEF LeaseUnder
    <2> QED
      BY <1>1, <2>1, <2>5, LeaseDone, Zenon
  <1>3. CASE ~(requested <= MinMaxLease(registry))
    <2>1. call' = [op |-> "extend", at |-> "lookup", queues |-> {q}, asked |-> asked,
                   loaded |-> registry, result |-> None]
      BY <1>3, Zenon DEF StartExtend, Start
    <2> QED
      BY <1>1, <2>1, Zenon
      DEF Limited, NackPending, ExtendPending, LeaseWithinCeiling, RetryDelayOfPolicy, Finished
  <1> QED
    BY <1>2, <1>3, Zenon

LEMMA NackLimited ==
  ASSUME Limited, NEW q \in Queue, NEW attempt \in Attempt,
         NEW explicit \in Duration \cup {None}, StartNack(q, attempt, explicit)
  PROVE  Limited'
PROOF
  <1>1. RegistrySeen' /\ registry \in seen' /\ registry \in Registry /\ attempt \in Nat
    BY DurationAssumption, Zenon DEF StartNack, Start, Limited, RegistrySeen
  <1>2. CASE explicit = None /\ ~AnyRetryPolicy(registry)
    <2>1. /\ call'.op = "nack" /\ call'.at = "done" /\ call'.queues = {q}
          /\ call'.attempt = attempt /\ call'.result = 0
      BY <1>2, Zenon DEF StartNack, Start
    <2>2. DelayOf(Effective(registry, q), attempt, 0)
      BY <1>1, <1>2, NoPolicyNoDelay, NoDelay, Zenon
    <2> QED
      BY <1>1, <2>1, <2>2, NackDone, Zenon
  <1>3. CASE ~(explicit = None /\ ~AnyRetryPolicy(registry))
    <2>1. call' = [op |-> "nack", at |-> "lookup", queues |-> {q}, attempt |-> attempt,
                   asked |-> explicit, result |-> None]
      BY <1>3, Zenon DEF StartNack, Start
    <2> QED
      BY <1>1, <2>1, ZenonT(30)
      DEF Limited, NackPending, ExtendPending, LeaseWithinCeiling, RetryDelayOfPolicy, Finished
  <1> QED
    BY <1>2, <1>3, Zenon

LEMMA ResolveLimited ==
  ASSUME Limited, ResolveNack \/ ResolveExtend
  PROVE  Limited'
PROOF
  <1>1. RegistrySeen' /\ seen' = seen /\ registry \in seen /\ registry \in Registry
    BY Zenon DEF ResolveNack, ResolveExtend, Done, Limited, RegistrySeen
  <1>2. CASE ResolveNack
    <2>1. PICK q \in Queue, attempt \in Attempt, asked \in Duration \cup {None} :
            call = [op |-> "nack", at |-> "lookup", queues |-> {q}, attempt |-> attempt,
                    asked |-> asked, result |-> None]
      BY <1>2, Zenon DEF ResolveNack, Limited, NackPending
    <2>2. PICK x : /\ call' = [call EXCEPT !.at = "done", !.result = x]
                   /\ asked = None => x \in PolicyDelays(Effective(registry, q), attempt)
      BY <1>2, <2>1, Zenon DEF ResolveNack, Done
    <2>3. /\ call'.op = "nack" /\ call'.at = "done" /\ call'.queues = {q}
          /\ call'.attempt = attempt /\ call'.asked = asked /\ call'.result = x
      BY <2>1, <2>2, Zenon
    <2>4. CASE asked = None
      <3>1. DelayOf(Effective(registry, q), attempt, x)
        BY <1>1, <2>2, <2>4, PolicyDelaysWithin, DurationAssumption, Zenon
      <3> QED
        BY <1>1, <2>3, <3>1, NackDone, Zenon
    <2> QED
      BY <1>1, <2>3, <2>4, NackDone, Zenon
  <1>3. CASE ResolveExtend
    <2>1. PICK q \in Queue, asked \in Duration, loaded \in seen :
            call = [op |-> "extend", at |-> "lookup", queues |-> {q}, asked |-> asked,
                    loaded |-> loaded, result |-> None]
      BY <1>3, Zenon DEF ResolveExtend, Limited, ExtendPending
    <2> DEFINE lease == SmallerOf(LargerOf(asked, 1), Effective(loaded, q).max_lease)
    <2>2. call' = [call EXCEPT !.at = "done", !.result = lease]
      BY <1>3, <2>1, Zenon DEF ResolveExtend, Done
    <2>3. /\ call'.op = "extend" /\ call'.at = "done" /\ call'.queues = {q}
          /\ call'.asked = asked /\ call'.result = lease
      BY <2>1, <2>2, Zenon
    <2>4. LeaseUnder(loaded, {q}, asked, lease)
      BY LeaseClamped, Zenon DEF Limited, RegistrySeen
    <2> QED
      BY <1>1, <2>3, <2>4, LeaseDone, Zenon
  <1> QED
    BY <1>2, <1>3, Zenon

LEMMA PNextLimited ==
  ASSUME Limited, PNext
  PROVE  Limited'
PROOF
  <1>1. CASE HotReload
    <2>1. RegistrySeen' /\ call' = call /\ seen \subseteq seen'
      BY <1>1, Zenon DEF HotReload, Limited, RegistrySeen
    <2> QED
      BY <2>1, LimitedReload, Zenon
  <1>2. CASE Finish
    <2>1. RegistrySeen' /\ call'.op = "none"
      BY <1>2, Zenon DEF Finish, NoCall, Limited, RegistrySeen
    <2> QED
      BY <2>1, LimitedOther, Zenon
  <1>3. ASSUME NEW asked \in Duration, NEW Q \in (SUBSET Queue) \ {{}}, StartReserve(Q, asked)
        PROVE  Limited'
    <2>1. Q \in SUBSET Queue /\ Q # {}
      OBVIOUS
    <2> QED
      BY <1>3, <2>1, ReserveLimited, Zenon
  <1>4. CASE \E q \in Queue, attempt \in Attempt, explicit \in Duration \cup {None} :
                StartNack(q, attempt, explicit)
    BY <1>4, NackLimited, Zenon
  <1>5. CASE \E q \in Queue, asked \in Duration : StartExtend(q, asked)
    BY <1>5, ExtendLimited, Zenon
  <1> QED
    BY <1>1, <1>2, <1>3, <1>4, <1>5, ResolveLimited, Zenon DEF PNext

-----------------------------------------------------------------------------
(* The answers of an enqueue. *)

Upto(S, i) == {j \in S : j <= i}

LEMMA RanksFinite ==
  ASSUME NEW n \in Nat, NEW S \in SUBSET (1..n)
  PROVE  /\ IsFiniteSet(S) /\ Cardinality(S) \in Nat
         /\ \A i \in S : /\ IsFiniteSet(Upto(S, i))
                         /\ Cardinality(Upto(S, i)) \in 1..Cardinality(S)
PROOF
  <1>1. IsFiniteSet(S) /\ Cardinality(S) \in Nat
    <2>1. IsFiniteSet(1..n)
      BY FS_Interval
    <2>2. IsFiniteSet(S)
      BY <2>1, FS_Subset, Zenon
    <2> QED
      BY <2>2, FS_CardinalityType, Zenon
  <1>2. ASSUME NEW i \in S
        PROVE  IsFiniteSet(Upto(S, i)) /\ Cardinality(Upto(S, i)) \in 1..Cardinality(S)
    <2>1. Upto(S, i) \subseteq S /\ i \in Upto(S, i)
      BY DEF Upto
    <2>2. IsFiniteSet(Upto(S, i)) /\ Cardinality(Upto(S, i)) <= Cardinality(S)
      BY <1>1, <2>1, FS_Subset, Zenon
    <2>3. Cardinality(Upto(S, i)) \in Nat /\ Cardinality(Upto(S, i)) # 0
      BY <2>1, <2>2, FS_CardinalityType, FS_EmptySet, Zenon
    <2> QED
      BY <1>1, <2>2, <2>3
  <1> QED
    BY <1>1, <1>2, Zenon

LEMMA UptoGrows ==
  ASSUME NEW n \in Nat, NEW S \in SUBSET (1..n), NEW a \in S, NEW b \in S, a < b
  PROVE  Upto(S, a) \subseteq Upto(S, b) /\ b \in Upto(S, b) /\ b \notin Upto(S, a)
PROOF
  <1>1. \A x \in S : x \in Int
    OBVIOUS
  <1>2. ASSUME NEW x \in S, x <= a PROVE x <= b
    BY <1>1, <1>2
  <1>3. b <= b /\ ~(b <= a)
    BY <1>1
  <1> QED
    BY <1>2, <1>3, Zenon DEF Upto

LEMMA RanksDiffer ==
  ASSUME NEW n \in Nat, NEW S \in SUBSET (1..n), NEW i \in S, NEW j \in S,
         Cardinality(Upto(S, i)) = Cardinality(Upto(S, j))
  PROVE  i = j
PROOF
  <1>1. ASSUME NEW a \in S, NEW b \in S, a < b,
               Cardinality(Upto(S, a)) = Cardinality(Upto(S, b))
        PROVE  FALSE
    <2>1. Upto(S, a) \subseteq Upto(S, b) /\ b \in Upto(S, b) /\ b \notin Upto(S, a)
      BY <1>1, UptoGrows, Zenon
    <2>2. IsFiniteSet(Upto(S, b))
      BY RanksFinite, Zenon
    <2>3. Upto(S, a) = Upto(S, b)
      BY <1>1, <2>1, <2>2, FS_Subset, Zenon
    <2> QED
      BY <2>1, <2>3, Zenon
  <1>2. i < j \/ j < i \/ i = j
    OBVIOUS
  <1> QED
    BY <1>1, <1>2, Zenon

\* The slot of the k-th job that passed, and back.
LEMMA KthOfRank ==
  ASSUME NEW n \in Nat, NEW S \in SUBSET (1..n), NEW i \in S
  PROVE  Kth(S, Cardinality(Upto(S, i))) = i
PROOF
  <1>1. \A j \in S : Cardinality(Upto(S, j)) = Cardinality(Upto(S, i)) => j = i
    BY RanksDiffer, Zenon
  <1> QED
    BY <1>1, Zenon DEF Kth, Upto

LEMMA KthMember ==
  ASSUME NEW n \in Nat, NEW S \in SUBSET (1..n), NEW k \in 1..Cardinality(S)
  PROVE  Kth(S, k) \in S
PROOF
  <1> DEFINE c == Cardinality(S)
             f == [i \in S |-> Cardinality(Upto(S, i))]
  <1>1. c \in Nat /\ IsFiniteSet(S) /\ \A i \in S : Cardinality(Upto(S, i)) \in 1..c
    BY RanksFinite, Zenon
  <1>2. f \in Injection(S, 1..c)
    <2>1. f \in [S -> 1..c]
      BY <1>1, Zenon
    <2>2. \A i, j \in S : f[i] = f[j] => i = j
      BY RanksDiffer, Zenon
    <2> QED
      BY <2>1, <2>2, Zenon DEF Injection, IsInjective
  <1>3. IsFiniteSet(1..c) /\ Cardinality(1..c) = c
    BY <1>1, FS_Interval
  <1>4. f \in Surjection(S, 1..c)
    <2> HIDE DEF f
    <2> QED
      BY <1>2, <1>3, FS_Injection, Zenon
  <1>5. \E i \in S : f[i] = k
    BY <1>4, Zenon DEF Surjection
  <1>6. \E i \in S : Cardinality(Upto(S, i)) = k
    BY <1>5, Zenon
  <1> QED
    BY <1>6, Zenon DEF Kth, Upto

LEMMA LengthOf ==
  ASSUME NEW m \in Nat, NEW s, DOMAIN s = 1..m, s = [k \in 1..m |-> s[k]]
  PROVE  Len(s) = m
  OBVIOUS

-----------------------------------------------------------------------------
EnqueueShape ==
    call.op = "enqueue" =>
        /\ call = [op |-> "enqueue", at |-> call.at, atomic |-> call.atomic,
                   jobs |-> call.jobs, config |-> call.config, valid |-> call.valid,
                   limits |-> call.limits, answer |-> call.answer]
        /\ call.at \in {"loaded", "classified", "sent", "done"}
        /\ call.jobs \in Jobs /\ call.config \in settings

\* The slots the store's results will fill.
Open == {i \in 1..Len(call.jobs) : call.answer[i] = None}

Admitted(i) == \E r \in seen, c \in settings : classify_enqueue(call.jobs[i], r, c)

Refusable(i) == \E r \in seen, c \in settings : ~classify_enqueue(call.jobs[i], r, c)

\* From the classification to the answer of the store.
Classified ==
    At("classified") \/ At("sent") =>
        /\ \A i \in 1..Len(call.jobs) :
              IF call.answer[i] = None THEN Admitted(i)
              ELSE call.answer[i] = Rejected(i) /\ Refusable(i)
        /\ call.valid = [k \in 1..Cardinality(Open) |-> Kth(Open, k)]
        /\ call.atomic => Open = 1..Len(call.jobs)

\* The two halves of AnswersMatchJobs.
AnswersRight ==
    At("done") => \A i \in 1..Len(call.jobs) :
        /\ call.answer[i] # None => call.answer[i].job = i
        /\ call.answer[i] # None /\ call.answer[i].outcome = "success" => Admitted(i)
        /\ call.answer[i] # None /\ call.answer[i].outcome = "rejected" => Refusable(i)
        /\ call.atomic /\ call.answer[i] # None /\ call.answer[i].outcome = "success" =>
              \A k \in 1..Len(call.jobs) :
                  call.answer[k] # None /\ call.answer[k].outcome = "success"

LimitsOf(r, k) ==
    LET job == call.jobs[call.valid[k]]
        eff == Effective(r, job.queue)
    IN  /\ call.limits[k].max_attempts \in 1..eff.attempts_ceiling
        /\ job.max_attempts # None => call.limits[k].max_attempts <= job.max_attempts
        /\ call.limits[k].max_depth = eff.max_depth

LimitsRight == At("sent") => \E r \in seen : \A k \in 1..Len(call.valid) : LimitsOf(r, k)

\* The inductive invariant.
Answering ==
    /\ Limited /\ config \in settings
    /\ EnqueueShape /\ Classified /\ AnswersRight /\ LimitsRight

LEMMA AnsweringRight == Answering => AnswersMatchJobs
PROOF
  <1> SUFFICES ASSUME Answering PROVE AnswersMatchJobs
    OBVIOUS
  <1>1. AnswersRight /\ LimitsRight
    BY Zenon DEF Answering
  <1> QED
    BY <1>1, Zenon
    DEF AnswersMatchJobs, AnswersRight, LimitsRight, LimitsOf, Admitted, Refusable

LEMMA AnsweringInit == AInit => Answering
PROOF
  <1> SUFFICES ASSUME AInit PROVE Answering
    OBVIOUS
  <1>1. Limited /\ config \in settings /\ call.op = "none"
    BY LimitedInit, Zenon DEF AInit, PInit, NoCall
  <1> QED
    BY <1>1, Zenon DEF Answering, EnqueueShape, Classified, AnswersRight, LimitsRight, At

\* Nothing is said of a call that is not an enqueue.
LEMMA AnsweringOther ==
  ASSUME Limited', config' \in settings', call'.op # "enqueue"
  PROVE  Answering'
  BY Zenon DEF Answering, EnqueueShape, Classified, AnswersRight, LimitsRight, At

\* A reload in the middle of a call only adds to what was in force.
LEMMA AnsweringKept ==
  ASSUME Answering, Limited', config' \in settings', call' = call, seen \subseteq seen',
         settings \subseteq settings'
  PROVE  Answering'
PROOF
  <1>1. EnqueueShape'
    BY Zenon DEF Answering, EnqueueShape
  <1>2. \A i : (Admitted(i) => Admitted(i)') /\ (Refusable(i) => Refusable(i)')
    BY Zenon DEF Admitted, Refusable
  <1>3. Open' = Open /\ At("classified")' = At("classified") /\ At("sent")' = At("sent")
        /\ At("done")' = At("done")
    BY Zenon DEF Open, At
  <1>4. Classified'
    BY <1>2, <1>3, Zenon DEF Answering, Classified, Rejected
  <1>5. AnswersRight'
    BY <1>2, <1>3, Zenon DEF Answering, AnswersRight
  <1>6. LimitsRight'
    BY <1>3, Zenon DEF Answering, LimitsRight, LimitsOf
  <1> QED
    BY <1>1, <1>4, <1>5, <1>6, Zenon DEF Answering

LEMMA PolicyAnswering ==
  ASSUME Answering, PNext, UNCHANGED <<config, boot>>,
         settings' = IF call.op = "enqueue" /\ call' # NoCall THEN settings ELSE {config}
  PROVE  Answering'
PROOF
  <1>1. Limited' /\ config' \in settings'
    BY PNextLimited, Zenon DEF Answering
  <1>2. CASE HotReload
    <2>1. call' = call /\ seen \subseteq seen'
      BY <1>2, Zenon DEF HotReload
    <2>2. CASE call.op = "enqueue"
      <3>1. call' # NoCall
        BY <2>1, <2>2 DEF NoCall
      <3>2. settings' = settings
        BY <2>2, <3>1, Zenon
      <3> QED
        BY <1>1, <2>1, <3>2, AnsweringKept, Zenon
    <2>3. CASE call.op # "enqueue"
      BY <1>1, <2>1, <2>3, AnsweringOther, Zenon
    <2> QED
      BY <2>2, <2>3, Zenon
  <1>3. CASE Finish
    <2>1. call'.op = "none"
      BY <1>3, Zenon DEF Finish, NoCall
    <2> QED
      BY <1>1, <2>1, AnsweringOther, Zenon
  <1>4. CASE ResolveNack \/ ResolveExtend
    <2>1. call'.op # "enqueue"
      BY <1>4, ZenonT(30)
      DEF ResolveNack, ResolveExtend, Done, Answering, Limited, NackPending, ExtendPending
    <2> QED
      BY <1>1, <2>1, AnsweringOther, Zenon
  <1>5. ASSUME NEW Q, NEW asked, StartReserve(Q, asked) PROVE call'.op # "enqueue"
    BY <1>5, Zenon DEF StartReserve, Start
  <1>6. ASSUME NEW q, NEW attempt, NEW explicit, StartNack(q, attempt, explicit)
        PROVE  call'.op # "enqueue"
    BY <1>6, Zenon DEF StartNack, Start
  <1>7. ASSUME NEW q, NEW asked, StartExtend(q, asked) PROVE call'.op # "enqueue"
    BY <1>7, Zenon DEF StartExtend, Start
  <1>8. call'.op # "enqueue" => Answering'
    BY <1>1, AnsweringOther, Zenon
  <1> QED
    BY <1>2, <1>3, <1>4, <1>5, <1>6, <1>7, <1>8, ZenonT(30) DEF PNext

LEMMA StartAnswering ==
  ASSUME Answering, NEW atomic \in BOOLEAN, NEW jobs \in Jobs, StartEnqueue(atomic, jobs)
  PROVE  Answering'
PROOF
  <1>1. call' = [op |-> "enqueue", at |-> "loaded", atomic |-> atomic, jobs |-> jobs,
                 config |-> config, valid |-> <<>>, limits |-> <<>>, answer |-> <<>>]
    BY Zenon DEF StartEnqueue, Start
  <1>2. RegistrySeen' /\ settings' = {config} /\ config' = config
    BY Zenon DEF StartEnqueue, Start, Answering, Limited, RegistrySeen
  <1>3. Limited'
    BY <1>1, <1>2, LimitedOther, Zenon
  <1>4. EnqueueShape'
    BY <1>1, <1>2, Zenon DEF EnqueueShape
  <1> QED
    BY <1>1, <1>2, <1>3, <1>4, ZenonT(30) DEF Answering, Classified, AnswersRight, LimitsRight, At

\* What the three steps of the handler have in common.
LEMMA EnqueueGoesOn ==
  ASSUME Answering, call.op = "enqueue", UNCHANGED <<registry, seen, config, boot, settings>>,
         NEW at \in {"classified", "sent", "done"}, NEW valid, NEW limits, NEW answer,
         call' = [op |-> "enqueue", at |-> at, atomic |-> call.atomic, jobs |-> call.jobs,
                  config |-> call.config, valid |-> valid, limits |-> limits,
                  answer |-> answer]
  PROVE  /\ Limited' /\ config' \in settings' /\ EnqueueShape'
         /\ \A s : At(s)' <=> at = s
         /\ Len(call.jobs) \in Nat
         /\ \A i \in 1..Len(call.jobs) :
               /\ call.jobs[i].queue \in Queue
               /\ call.jobs[i].max_attempts \in Nat \cup {None}
               /\ call.jobs[i].valid => call.jobs[i].max_attempts # 0
         /\ \A i : Admitted(i)' = Admitted(i) /\ Refusable(i)' = Refusable(i)
PROOF
  <1>1. RegistrySeen' /\ config' \in settings'
    BY Zenon DEF Answering, Limited, RegistrySeen
  <1>2. Limited'
    BY <1>1, LimitedOther, Zenon
  <1>3. call.jobs \in Jobs /\ call.config \in settings
    BY Zenon DEF Answering, EnqueueShape
  <1>4. EnqueueShape'
    BY <1>3, Zenon DEF EnqueueShape
  <1>5. \A s : At(s)' <=> at = s
    BY Zenon DEF At
  <1>6. \A i : Admitted(i)' = Admitted(i) /\ Refusable(i)' = Refusable(i)
    BY Zenon DEF Admitted, Refusable
  <1> DEFINE R == [queue : Queue, valid : BOOLEAN, name_bytes : Nat,
                   max_attempts : Nat \cup {None}, measure : [Measured -> Nat]]
  <1>7. call.jobs \in Seq(R)
    BY <1>3, JobsAssumption, ZenonT(30)
  <1>8. /\ Len(call.jobs) \in Nat
        /\ \A i \in 1..Len(call.jobs) :
               /\ call.jobs[i].queue \in Queue
               /\ call.jobs[i].max_attempts \in Nat \cup {None}
    <2> HIDE DEF R
    <2>1. Len(call.jobs) \in Nat /\ \A i \in 1..Len(call.jobs) : call.jobs[i] \in R
      BY <1>7
    <2>2. \A x \in R : x.queue \in Queue /\ x.max_attempts \in Nat \cup {None}
      BY Zenon DEF R
    <2> QED
      BY <2>1, <2>2, Zenon
  <1>9. \A i \in 1..Len(call.jobs) : call.jobs[i].valid => call.jobs[i].max_attempts # 0
    BY <1>3, JobsAssumption, Zenon
  <1> QED
    BY <1>1, <1>2, <1>4, <1>5, <1>6, <1>8, <1>9

LEMMA ClassifyAnswering ==
  ASSUME Answering, Classify
  PROVE  Answering'
PROOF
  <1> DEFINE n == Len(call.jobs)
             ok(i) == classify_enqueue(call.jobs[i], registry, call.config)
             passed == {i \in 1..n : ok(i)}
             listed == [k \in 1..Cardinality(passed) |-> Kth(passed, k)]
             over == call.atomic /\ passed # 1..n
             slots == [i \in 1..n |-> IF ok(i) THEN None ELSE Rejected(i)]
  <1>1. /\ call.op = "enqueue" /\ UNCHANGED <<registry, seen, config, boot, settings>>
        /\ registry \in seen /\ call.config \in settings
    BY Zenon DEF Classify, At, Answering, Limited, RegistrySeen, EnqueueShape
  <1>2. call' = [op |-> "enqueue", at |-> IF over THEN "done" ELSE "classified",
                 atomic |-> call.atomic, jobs |-> call.jobs, config |-> call.config,
                 valid |-> IF over THEN <<>> ELSE listed, limits |-> call.limits,
                 answer |-> slots]
    <2>1. call' = [call EXCEPT !.at = IF over THEN "done" ELSE "classified",
                               !.valid = IF over THEN <<>> ELSE listed, !.answer = slots]
      BY Zenon DEF Classify
    <2> HIDE DEF over, listed, slots
    <2> QED
      BY <1>1, <2>1, Zenon DEF Answering, EnqueueShape
  <1>3. n \in Nat /\ \A i \in 1..n : Rejected(i) # None
    <2>1. n \in Nat
      <3> HIDE DEF over, listed, slots
      <3>1. (IF over THEN "done" ELSE "classified") \in {"classified", "sent", "done"}
        OBVIOUS
      <3> QED
        BY <1>1, <1>2, <3>1, EnqueueGoesOn
    <2> QED
      BY <2>1, AdmissionAssumption DEF Rejected
  <1>4. \A i \in 1..n : IF slots[i] = None THEN ok(i) ELSE slots[i] = Rejected(i) /\ ~ok(i)
    BY <1>3, Zenon
  <1>5. \A i \in 1..n : (ok(i) => Admitted(i)) /\ (~ok(i) => Refusable(i))
    BY <1>1, Zenon DEF Admitted, Refusable
  <1>6. CASE over
    <2>1. call' = [op |-> "enqueue", at |-> "done", atomic |-> call.atomic,
                   jobs |-> call.jobs, config |-> call.config, valid |-> <<>>,
                   limits |-> call.limits, answer |-> slots]
      BY <1>2, <1>6
    <2> HIDE DEF slots, over, ok, listed, passed
    <2>2. /\ Limited' /\ config' \in settings' /\ EnqueueShape' /\ \A s : At(s)' <=> s = "done"
          /\ \A i : Admitted(i)' = Admitted(i) /\ Refusable(i)' = Refusable(i)
      BY <1>1, <2>1, EnqueueGoesOn, Zenon
    <2>3. AnswersRight'
      <3>1. call'.jobs = call.jobs /\ call'.answer = slots
        BY <2>1, Zenon
      <3>2. ASSUME NEW i \in 1..n, slots[i] # None
            PROVE  /\ slots[i].job = i /\ slots[i].outcome = "rejected" /\ Refusable(i)'
        <4>1. slots[i] = Rejected(i) /\ ~ok(i)
          BY <1>4, <3>2, Zenon
        <4>2. Refusable(i)
          BY <1>5, <4>1, Zenon
        <4>3. Refusable(i)'
          BY <2>2, <4>2, Zenon
        <4> QED
          BY <4>1, <4>3 DEF Rejected
      <3> QED
        BY <3>1, <3>2, Zenon DEF AnswersRight
    <2> QED
      BY <2>2, <2>3 DEF Answering, Classified, LimitsRight
  <1>7. CASE ~over
    <2>1. call' = [op |-> "enqueue", at |-> "classified", atomic |-> call.atomic,
                   jobs |-> call.jobs, config |-> call.config, valid |-> listed,
                   limits |-> call.limits, answer |-> slots]
      BY <1>2, <1>7, Zenon
    <2>2. call.atomic => passed = 1..n
      BY <1>7, Zenon
    <2> HIDE DEF over, listed, slots
    <2>3. /\ Limited' /\ config' \in settings' /\ EnqueueShape'
          /\ \A s : At(s)' <=> s = "classified"
          /\ \A i : Admitted(i)' = Admitted(i) /\ Refusable(i)' = Refusable(i)
      BY <1>1, <2>1, EnqueueGoesOn, ZenonT(30)
    <2>4. /\ call'.jobs = call.jobs /\ call'.answer = slots /\ call'.valid = listed
          /\ call'.atomic = call.atomic
      BY <2>1, Zenon
    <2>5. Open' = passed
      BY <1>3, <1>4, <2>4, ZenonT(30) DEF Open
    <2>6. \A i \in 1..n : IF slots[i] = None THEN Admitted(i)'
                          ELSE slots[i] = Rejected(i) /\ Refusable(i)'
      BY <1>4, <1>5, <2>3, Zenon
    <2>7. Classified'
      <3> HIDE DEF passed, ok
      <3>1. listed = [k \in 1..Cardinality(passed) |-> Kth(passed, k)]
        BY Zenon DEF listed
      <3> QED
        BY <2>2, <2>4, <2>5, <2>6, <3>1, Zenon DEF Classified, Rejected
    <2> QED
      BY <2>3, <2>7 DEF Answering, AnswersRight, LimitsRight
  <1> QED
    BY <1>6, <1>7, Zenon

\* The jobs of the command are those that passed, in their order.
LEMMA ValidSlots ==
  ASSUME Answering, At("classified") \/ At("sent"), Len(call.jobs) \in Nat
  PROVE  /\ Len(call.valid) = Cardinality(Open)
         /\ \A k \in 1..Len(call.valid) : call.valid[k] \in Open
         /\ \A i \in Open : /\ ResultOf(i) \in 1..Len(call.valid)
                            /\ call.valid[ResultOf(i)] = i
PROOF
  <1>1. Open \in SUBSET (1..Len(call.jobs))
    BY Zenon DEF Open
  <1>2. call.valid = [k \in 1..Cardinality(Open) |-> Kth(Open, k)]
    BY Zenon DEF Answering, Classified
  <1>3. /\ Cardinality(Open) \in Nat
        /\ \A i \in Open : Cardinality(Upto(Open, i)) \in 1..Cardinality(Open)
    BY <1>1, RanksFinite, Zenon
  <1>4. Len(call.valid) = Cardinality(Open)
    BY <1>2, <1>3, LengthOf, Zenon
  <1>5. \A k \in 1..Cardinality(Open) : Kth(Open, k) \in Open
    BY <1>1, KthMember, Zenon
  <1>6. ASSUME NEW i \in Open PROVE ResultOf(i) = Cardinality(Upto(Open, i))
    <2>1. {k \in 1..i : call.answer[k] = None} = Upto(Open, i)
      BY <1>1 DEF Open, Upto
    <2> QED
      BY <2>1, Zenon DEF ResultOf
  <1>7. \A i \in Open : Kth(Open, Cardinality(Upto(Open, i))) = i
    BY <1>1, KthOfRank, Zenon
  <1> QED
    BY <1>2, <1>3, <1>4, <1>5, <1>6, <1>7, Zenon

LEMMA ResolvedLimits ==
  ASSUME NEW r \in Registry, NEW job, job.queue \in Queue,
         job.max_attempts \in Nat \cup {None}, job.max_attempts # 0
  PROVE  LET eff == Effective(r, job.queue)
             limits == Resolve(job, r)
         IN  /\ limits.max_attempts \in 1..eff.attempts_ceiling
             /\ job.max_attempts # None => limits.max_attempts <= job.max_attempts
             /\ limits.max_depth = eff.max_depth
PROOF
  <1> DEFINE eff == Effective(r, job.queue)
             asked == Override(job.max_attempts, eff.default_attempts)
  <1>1. /\ eff.default_attempts \in Nat \ {0} /\ eff.attempts_ceiling \in Nat \ {0}
    BY EffectiveTyped, DurationAssumption
  <1>2. asked \in Nat \ {0} /\ (job.max_attempts # None => asked = job.max_attempts)
    BY <1>1, Zenon DEF Override
  <1>3. /\ Resolve(job, r).max_attempts = SmallerOf(asked, eff.attempts_ceiling)
        /\ Resolve(job, r).max_depth = eff.max_depth
    BY Zenon DEF Resolve
  <1> HIDE DEF asked, eff
  <1>4. /\ SmallerOf(asked, eff.attempts_ceiling) \in 1..eff.attempts_ceiling
        /\ SmallerOf(asked, eff.attempts_ceiling) <= asked
    BY <1>1, <1>2 DEF SmallerOf
  <1> QED
    BY <1>2, <1>3, <1>4, Zenon DEF eff

LEMMA PrepareAnswering ==
  ASSUME Answering, Prepare
  PROVE  Answering'
PROOF
  <1> DEFINE made == [k \in 1..Len(call.valid) |-> Resolve(call.jobs[call.valid[k]], registry)]
  <1>1. /\ call.op = "enqueue" /\ At("classified")
        /\ UNCHANGED <<registry, seen, config, boot, settings>>
        /\ registry \in seen /\ registry \in Registry
    BY Zenon DEF Prepare, At, Answering, Limited, RegistrySeen
  <1>2. call' = [op |-> "enqueue", at |-> "sent", atomic |-> call.atomic,
                 jobs |-> call.jobs, config |-> call.config, valid |-> call.valid,
                 limits |-> made, answer |-> call.answer]
    <2>1. call' = [call EXCEPT !.at = "sent", !.limits = made]
      BY Zenon DEF Prepare
    <2> HIDE DEF made
    <2> QED
      BY <1>1, <2>1, Zenon DEF Answering, EnqueueShape
  <1> HIDE DEF made
  <1>3. /\ Limited' /\ config' \in settings' /\ EnqueueShape' /\ \A s : At(s)' <=> s = "sent"
        /\ Len(call.jobs) \in Nat
        /\ \A i \in 1..Len(call.jobs) :
              /\ call.jobs[i].queue \in Queue
              /\ call.jobs[i].max_attempts \in Nat \cup {None}
              /\ call.jobs[i].valid => call.jobs[i].max_attempts # 0
        /\ \A i : Admitted(i)' = Admitted(i) /\ Refusable(i)' = Refusable(i)
    BY <1>1, <1>2, EnqueueGoesOn, ZenonT(30)
  <1>4. /\ call'.jobs = call.jobs /\ call'.answer = call.answer /\ call'.valid = call.valid
        /\ call'.atomic = call.atomic /\ call'.limits = made
    BY <1>2, Zenon
  <1>5. Open' = Open
    BY <1>4, Zenon DEF Open
  <1>6. /\ \A i \in 1..Len(call.jobs) : IF call.answer[i] = None THEN Admitted(i)
                                        ELSE call.answer[i] = Rejected(i) /\ Refusable(i)
        /\ call.valid = [k \in 1..Cardinality(Open) |-> Kth(Open, k)]
        /\ call.atomic => Open = 1..Len(call.jobs)
    BY <1>1, Zenon DEF Answering, Classified
  <1>7. \A i \in 1..Len(call.jobs) : IF call.answer[i] = None THEN Admitted(i)'
                                     ELSE call.answer[i] = Rejected(i) /\ Refusable(i)'
    BY <1>3, <1>6, Zenon
  <1>8. Classified'
    BY <1>4, <1>5, <1>6, <1>7 DEF Classified, Rejected
  <1>9. ASSUME NEW k \in 1..Len(call.valid) PROVE LimitsOf(registry, k)'
    <2> DEFINE job == call.jobs[call.valid[k]]
    <2>1. call.valid[k] \in Open
      BY <1>1, <1>3, ValidSlots, Zenon
    <2>2. call.valid[k] \in 1..Len(call.jobs) /\ Admitted(call.valid[k])
      BY <1>6, <2>1, ZenonT(30) DEF Open
    <2>3. job.valid
      BY <2>2, Zenon DEF Admitted, classify_enqueue
    <2>4. /\ job.queue \in Queue /\ job.max_attempts \in Nat \cup {None}
          /\ job.max_attempts # 0
      BY <1>3, <2>2, <2>3
    <2>5. made[k] = Resolve(job, registry)
      BY Zenon DEF made
    <2>6. registry' = registry
      BY <1>1, Zenon
    <2> HIDE DEF job
    <2>7. LET eff == Effective(registry, job.queue)
          IN  /\ made[k].max_attempts \in 1..eff.attempts_ceiling
              /\ job.max_attempts # None => made[k].max_attempts <= job.max_attempts
              /\ made[k].max_depth = eff.max_depth
      BY <1>1, <2>4, <2>5, ResolvedLimits, Zenon
    <2> QED
      BY <1>4, <2>6, <2>7, ZenonT(30) DEF LimitsOf, job
  <1>10. LimitsRight'
    BY <1>1, <1>4, <1>9, Zenon DEF LimitsRight
  <1> QED
    BY <1>3, <1>8, <1>10 DEF Answering, AnswersRight

LEMMA AnswerAnswering ==
  ASSUME Answering, Answer
  PROVE  Answering'
PROOF
  <1> DEFINE n == Len(call.jobs)
             m == Len(call.valid)
  <1>1. /\ call.op = "enqueue" /\ At("sent")
        /\ UNCHANGED <<registry, seen, config, boot, settings>>
    BY Zenon DEF Answer, At
  <1>2. PICK verdict \in [1..m -> {"success", "refused"}] :
          LET result(k) == [outcome |-> verdict[k], job |-> call.valid[k]]
              failed == call.atomic /\ \E k \in DOMAIN verdict : verdict[k] = "refused"
              slot(i) == IF failed /\ verdict[ResultOf(i)] = "success" THEN None
                         ELSE result(ResultOf(i))
          IN  call' = [call EXCEPT !.at = "done", !.answer =
                  [i \in 1..n |-> IF call.answer[i] # None THEN call.answer[i] ELSE slot(i)]]
    BY Zenon DEF Answer
  <1> DEFINE failed == call.atomic /\ \E k \in 1..m : verdict[k] = "refused"
             slot(i) == IF failed /\ verdict[ResultOf(i)] = "success" THEN None
                        ELSE [outcome |-> verdict[ResultOf(i)], job |-> call.valid[ResultOf(i)]]
             given == [i \in 1..n |-> IF call.answer[i] # None THEN call.answer[i] ELSE slot(i)]
  <1>3. call' = [op |-> "enqueue", at |-> "done", atomic |-> call.atomic,
                 jobs |-> call.jobs, config |-> call.config, valid |-> call.valid,
                 limits |-> call.limits, answer |-> given]
    <2>1. DOMAIN verdict = 1..m
      OBVIOUS
    <2>2. call' = [call EXCEPT !.at = "done", !.answer = given]
      BY <1>2, <2>1, Zenon
    <2> HIDE DEF given
    <2> QED
      BY <1>1, <2>2, Zenon DEF Answering, EnqueueShape
  <1>4. /\ Limited' /\ config' \in settings' /\ EnqueueShape' /\ \A s : At(s)' <=> s = "done"
        /\ n \in Nat
        /\ \A i : Admitted(i)' = Admitted(i) /\ Refusable(i)' = Refusable(i)
    <2> HIDE DEF given
    <2> QED
      BY <1>1, <1>3, EnqueueGoesOn, ZenonT(30)
  <1>5. /\ call'.jobs = call.jobs /\ call'.answer = given /\ call'.atomic = call.atomic
    BY <1>3, Zenon
  <1>6. /\ \A i \in 1..n : IF call.answer[i] = None THEN Admitted(i)
                           ELSE call.answer[i] = Rejected(i) /\ Refusable(i)
        /\ call.atomic => Open = 1..n
    BY <1>1, Zenon DEF Answering, Classified
  <1>7. \A i \in Open : ResultOf(i) \in 1..m /\ call.valid[ResultOf(i)] = i
    BY <1>1, <1>4, ValidSlots, Zenon
  <1>8. ASSUME NEW i \in Open
        PROVE  /\ given[i] # None => given[i].job = i /\ given[i].outcome \in {"success", "refused"}
               /\ given[i] # None /\ given[i].outcome = "success" => Admitted(i) /\ ~failed
               /\ ~failed => given[i] # None /\ given[i].outcome = verdict[ResultOf(i)]
    <2>1. i \in 1..n /\ call.answer[i] = None /\ i \in Nat
      BY <1>4 DEF Open
    <2>2. given[i] = slot(i)
      BY <2>1, Zenon
    <2>3. verdict[ResultOf(i)] \in {"success", "refused"}
      BY <1>7, Zenon
    <2>4. ASSUME NEW o \in {"success", "refused"} PROVE [outcome |-> o, job |-> i] # None
      BY <2>1, AdmissionAssumption
    <2>5. slot(i) = IF failed /\ verdict[ResultOf(i)] = "success" THEN None
                    ELSE [outcome |-> verdict[ResultOf(i)], job |-> i]
      BY <1>7, Zenon
    <2>6. Admitted(i)
      BY <1>6, <2>1, Zenon
    <2> HIDE DEF failed, slot, given
    <2> QED
      BY <2>2, <2>3, <2>4, <2>5, <2>6
  <1>9. ASSUME NEW i \in 1..n, i \notin Open
        PROVE  given[i] = Rejected(i) /\ Refusable(i) /\ ~call.atomic
    <2>1. call.answer[i] # None
      BY <1>9, Zenon DEF Open
    <2> QED
      BY <1>6, <1>9, <2>1, Zenon
  <1>10. ASSUME NEW i \in 1..n
         PROVE  /\ given[i] # None => given[i].job = i
                /\ given[i] # None /\ given[i].outcome = "success" => Admitted(i)
                /\ given[i] # None /\ given[i].outcome = "rejected" => Refusable(i)
                /\ call.atomic /\ given[i] # None /\ given[i].outcome = "success" => ~failed
    <2> HIDE DEF failed, given
    <2>1. CASE i \in Open
      BY <1>8, <2>1, Zenon
    <2>2. CASE i \notin Open
      <3>1. given[i] = Rejected(i) /\ Refusable(i) /\ ~call.atomic
        BY <1>9, <2>2, Zenon
      <3>2. Rejected(i).job = i /\ Rejected(i).outcome = "rejected"
        BY Zenon DEF Rejected
      <3> QED
        BY <3>1, <3>2, Zenon
    <2> QED
      BY <2>1, <2>2, Zenon
  <1>11. ASSUME call.atomic, ~failed, NEW k \in 1..n
         PROVE  given[k] # None /\ given[k].outcome = "success"
    <2>1. k \in Open
      BY <1>6, <1>11, Zenon
    <2>2. verdict[ResultOf(k)] = "success"
      BY <1>7, <1>11, <2>1, Zenon
    <2> HIDE DEF failed, given
    <2> QED
      BY <1>8, <1>11, <2>1, <2>2, Zenon
  <1>12. AnswersRight'
    <2> HIDE DEF failed, given
    <2>1. \A i : (Admitted(i) => Admitted(i)') /\ (Refusable(i) => Refusable(i)')
      BY <1>4, Zenon
    <2> QED
      BY <1>5, <1>10, <1>11, <2>1, Zenon DEF AnswersRight
  <1>13. ~At("classified")' /\ ~At("sent")' /\ At("done")'
    BY <1>4
  <1> HIDE DEF failed, given
  <1>14. Classified' /\ LimitsRight'
    BY <1>13, Zenon DEF Classified, LimitsRight
  <1> QED
    BY <1>4, <1>12, <1>14, Zenon DEF Answering

LEMMA AnsweringNext == Answering /\ [ANext]_avars => Answering'
PROOF
  <1>1. ASSUME Answering, UNCHANGED <<registry, call, seen>>, config' \in settings',
               call.op = "enqueue" => settings \subseteq settings'
        PROVE  Answering'
    <2>1. Limited'
      BY <1>1, LimitedReload, Zenon DEF Answering, Limited, RegistrySeen
    <2>2. CASE call.op = "enqueue"
      BY <1>1, <2>1, <2>2, AnsweringKept, Zenon
    <2>3. CASE call.op # "enqueue"
      BY <1>1, <2>1, <2>3, AnsweringOther, Zenon
    <2> QED
      BY <2>2, <2>3, Zenon
  <1>2. ASSUME Answering, UNCHANGED avars PROVE Answering'
    BY <1>1, <1>2, Zenon DEF avars, Answering
  <1>3. ASSUME Answering, StoreConfig PROVE Answering'
    BY <1>1, <1>3, Zenon DEF StoreConfig
  <1> QED
    BY <1>2, <1>3, PolicyAnswering, StartAnswering, ClassifyAnswering, PrepareAnswering,
       AnswerAnswering, Zenon
    DEF ANext

LEMMA AnsweringHolds == ASpec => []Answering
  BY AnsweringInit, AnsweringNext, PTL DEF ASpec

\* The lease of a reserve or an extend is within the ceilings of one registry
\* in force during the call, for every set of registries that valid configs
\* build: the fast path of extend_lease, min_max_lease_ms, is no way around them.
THEOREM LeasesAlwaysWithinCeiling == ASpec => []LeaseWithinCeiling
PROOF
  <1>1. Answering => LeaseWithinCeiling
    BY Zenon DEF Answering, Limited
  <1> QED
    BY <1>1, AnsweringHolds, PTL

\* A retry without a directive waits as its policy says, for every policy,
\* every attempt and every width of the number range: the saturating arithmetic
\* of policy_retry_delay_ms never shortens a delay.
THEOREM RetriesAlwaysOfPolicy == ASpec => []RetryDelayOfPolicy
PROOF
  <1>1. Answering => RetryDelayOfPolicy
    BY Zenon DEF Answering, Limited
  <1> QED
    BY <1>1, AnsweringHolds, PTL

\* Every answer of enqueue_batch and enqueue_atomic is that of its own job, for
\* batches of every length and whatever reloads fall in between.
THEOREM AnswersAlwaysMatch == ASpec => []AnswersMatchJobs
  BY AnsweringHolds, AnsweringRight, PTL
=============================================================================
