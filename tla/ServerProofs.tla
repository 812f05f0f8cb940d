----------------------------- MODULE ServerProofs ---------------------------
(***************************************************************************)
(* The tasks of the server around the store: long polls and the sessions   *)
(* of the admin plane, for every number of handlers, queues, keys, tokens, *)
(* requests and published configurations, and every behaviour of the clock.*)
(***************************************************************************)
EXTENDS LongPoll, AdminSessions, FiniteSetTheorems, TLAPS

-----------------------------------------------------------------------------
(* Long polls: no wake-up is lost. *)

\* A handler that has armed holds a notifier for every queue of its request.
Equipped ==
    \A w \in Worker : pc[w] \in {"sent", "replied", "parked", "woken"} =>
        \A q \in QueueSet(w) : held[w][q] # None

\* An answer belongs to a command that is out or has just been answered.
AnswersFresh ==
    \A w \in Worker : pc[w] \notin {"sent", "replied"} => answer[w] = "none"

\* Outside a batch the committer sees what is committed, and between cycles
\* there is nobody left to wake.
Synced ==
    /\ phase # "apply" => ready = committed
    /\ phase = "idle" => wakes = {}

\* The batch will wake every queue it made longer.
GrowthWakes ==
    phase = "apply" => \A q \in Queue : ready[q] > committed[q] => q \in wakes

\* A queue that was empty for a reserve of the batch and is not any more will
\* be woken.
EmptyAnswersCovered ==
    \A w \in Worker : pc[w] = "sent" /\ answer[w] = "empty" =>
        /\ phase = "apply"
        /\ \A q \in QueueSet(w) : ready[q] > 0 => q \in wakes

\* The handler was told there is nothing and has not been signalled since.
Quiet(w) ==
    /\ pc[w] = "parked" \/ (pc[w] = "replied" /\ answer[w] = "empty")
    /\ w \notin signalled

QuietCovered ==
    \A w \in Worker : Quiet(w) =>
        \A q \in QueueSet(w) : committed[q] > 0 => phase = "wake" /\ q \in wakes

Inv ==
    /\ TypeOK /\ HeldIsMapped /\ Equipped /\ AnswersFresh /\ Synced
    /\ GrowthWakes /\ EmptyAnswersCovered /\ QuietCovered

-----------------------------------------------------------------------------
LEMMA QueueSetType == \A w \in Worker : QueueSet(w) \subseteq Queue
  BY QueuesAssumption DEF QueueSet

LEMMA InitInv == ASSUME Init PROVE Inv
PROOF
  <1>1. TypeOK /\ HeldIsMapped
    BY ZenonT(30) DEF Init, TypeOK, HeldIsMapped
  <1>2. Equipped /\ AnswersFresh /\ Synced /\ GrowthWakes
    BY Zenon DEF Init, Equipped, AnswersFresh, Synced, GrowthWakes
  <1>3. EmptyAnswersCovered /\ QuietCovered
    BY Zenon DEF Init, EmptyAnswersCovered, QuietCovered, Quiet
  <1> QED
    BY <1>1, <1>2, <1>3, Zenon DEF Inv

LEMMA GetInv == ASSUME Inv, NEW w \in Worker, GetNotifier(w) PROVE Inv'
PROOF
  <1>1. PICK q \in Queue, n \in Notify :
           /\ IF Pruned[q] # None THEN n = Pruned[q] ELSE ~InUse(n)
           /\ map' = [Pruned EXCEPT ![q] = n]
           /\ held' = [held EXCEPT ![w] = [@ EXCEPT ![q] = n]]
    <2>1. PICK i \in DOMAIN QueuesOf[w] : \E n \in Notify :
             LET q == QueuesOf[w][i] IN
             /\ IF Pruned[q] # None THEN n = Pruned[q] ELSE ~InUse(n)
             /\ map' = [Pruned EXCEPT ![q] = n]
             /\ held' = [held EXCEPT ![w] = [@ EXCEPT ![q] = n]]
      BY ZenonT(30) DEF GetNotifier
    <2>2. QueuesOf[w][i] \in Queue
      BY QueueSetType, Zenon DEF QueueSet
    <2> QED
      BY <2>1, <2>2, ZenonT(30)
  <1>2. UNCHANGED <<pc, signalled, seen, answer, committer, shutdown>>
    BY Zenon DEF GetNotifier
  <1>3. Pruned \in [Queue -> Notify \cup {None}]
    BY Zenon DEF Pruned, Inv, TypeOK
  <1>4. TypeOK'
    BY <1>1, <1>2, <1>3, Zenon DEF Inv, TypeOK, committer
  <1>5. \A v \in Worker, p \in Queue : held[v][p] # None => Pruned[p] = held[v][p]
    BY DEF Inv, HeldIsMapped, Pruned, Shared
  <1>6. HeldIsMapped'
    BY <1>1, <1>3, <1>5 DEF Inv, TypeOK, HeldIsMapped
  <1>7. \A v \in Worker, p \in Queue : held[v][p] # None => held'[v][p] # None
    BY <1>1, NotifyAssumption, Zenon DEF Inv, TypeOK
  <1>8. Equipped'
    BY <1>2, <1>7, QueueSetType, Zenon DEF Inv, Equipped, QueueSet
  <1> QED
    BY <1>2, <1>4, <1>6, <1>8, Zenon
    DEF Inv, AnswersFresh, Synced, GrowthWakes, EmptyAnswersCovered, QuietCovered, Quiet,
        committer, QueueSet

LEMMA LeaveInv == ASSUME Inv, NEW w \in Worker, Leave(w) PROVE Inv'
PROOF
  <1>1. TypeOK'
    BY Zenon DEF Inv, TypeOK, Leave, committer
  <1>2. HeldIsMapped' /\ Equipped' /\ AnswersFresh'
    BY QueueSetType DEF Inv, TypeOK, Leave, HeldIsMapped, Equipped, AnswersFresh, QueueSet
  <1>3. Synced' /\ GrowthWakes'
    BY Zenon DEF Inv, Leave, committer, Synced, GrowthWakes
  <1>4. EmptyAnswersCovered' /\ QuietCovered'
    BY DEF Inv, TypeOK, Leave, committer, EmptyAnswersCovered, QuietCovered, Quiet, QueueSet
  <1> QED
    BY <1>1, <1>2, <1>3, <1>4, Zenon DEF Inv

LEMMA ArmInv == ASSUME Inv, NEW w \in Worker, ArmAndSend(w) PROVE Inv'
PROOF
  <1>1. TypeOK'
    BY Zenon DEF Inv, TypeOK, ArmAndSend, committer
  <1>2. HeldIsMapped' /\ Equipped' /\ AnswersFresh'
    BY DEF Inv, TypeOK, ArmAndSend, HeldIsMapped, Equipped, AnswersFresh, QueueSet
  <1>3. Synced' /\ GrowthWakes'
    BY Zenon DEF Inv, ArmAndSend, committer, Synced, GrowthWakes
  <1>4. EmptyAnswersCovered' /\ QuietCovered'
    BY Zenon DEF Inv, TypeOK, ArmAndSend, committer, AnswersFresh, EmptyAnswersCovered,
           QuietCovered, Quiet, QueueSet
  <1> QED
    BY <1>1, <1>2, <1>3, <1>4, Zenon DEF Inv

\* The steps of a handler that change no more than its place in the code.
LEMMA MoveInv ==
  ASSUME Inv, NEW w \in Worker, Start(w) \/ Park(w) \/ Woken(w)
  PROVE  Inv'
PROOF
  <1>1. TypeOK'
    BY ZenonT(30) DEF Inv, TypeOK, Start, Park, Woken, committer
  <1>2. HeldIsMapped' /\ Equipped'
    <2>1. HeldIsMapped'
      BY DEF Inv, Start, Park, Woken, HeldIsMapped
    <2>2. \A v \in Worker : pc'[v] \in {"sent", "replied", "parked", "woken"} =>
                               pc[v] \in {"sent", "replied", "parked", "woken"}
      BY DEF Inv, TypeOK, Start, Park, Woken
    <2>3. Equipped'
      BY <2>2, Zenon DEF Inv, Start, Park, Woken, Equipped, QueueSet
    <2> QED
      BY <2>1, <2>3, Zenon
  <1>3. AnswersFresh'
    BY DEF Inv, TypeOK, Start, Park, Woken, AnswersFresh
  <1>4. Synced' /\ GrowthWakes'
    BY Zenon DEF Inv, Start, Park, Woken, committer, Synced, GrowthWakes
  <1>5. EmptyAnswersCovered' /\ QuietCovered'
    BY ZenonT(30) DEF Inv, TypeOK, Start, Park, Woken, committer, EmptyAnswersCovered,
           QuietCovered, Quiet, QueueSet
  <1> QED
    BY <1>1, <1>2, <1>3, <1>4, <1>5, Zenon DEF Inv

LEMMA MakeReadyInv == ASSUME Inv, NEW q \in Queue, MakeReady(q) PROVE Inv'
PROOF
  <1>1. TypeOK'
    BY DEF Inv, TypeOK, MakeReady, handler
  <1>2. HeldIsMapped' /\ Equipped' /\ AnswersFresh'
    BY Zenon DEF Inv, MakeReady, handler, HeldIsMapped, Equipped, AnswersFresh, QueueSet
  <1>3. Synced' /\ GrowthWakes'
    BY DEF Inv, TypeOK, MakeReady, Applying, Synced, GrowthWakes
  <1>4. EmptyAnswersCovered' /\ QuietCovered'
    BY QueueSetType, Zenon
    DEF Inv, TypeOK, MakeReady, Applying, handler, EmptyAnswersCovered, QuietCovered, Quiet,
        QueueSet
  <1> QED
    BY <1>1, <1>2, <1>3, <1>4, Zenon DEF Inv

LEMMA RemoveInv == ASSUME Inv, NEW q \in Queue, Remove(q) PROVE Inv'
PROOF
  <1>1. TypeOK'
    BY DEF Inv, TypeOK, Remove, handler
  <1>2. HeldIsMapped' /\ Equipped' /\ AnswersFresh'
    BY Zenon DEF Inv, Remove, handler, HeldIsMapped, Equipped, AnswersFresh, QueueSet
  <1>3. Synced' /\ GrowthWakes'
    BY DEF Inv, TypeOK, Remove, Applying, Synced, GrowthWakes
  <1>4. EmptyAnswersCovered' /\ QuietCovered'
    BY QueueSetType, Zenon
    DEF Inv, TypeOK, Remove, Applying, handler, EmptyAnswersCovered, QuietCovered, Quiet,
        QueueSet
  <1> QED
    BY <1>1, <1>2, <1>3, <1>4, Zenon DEF Inv

LEMMA ReserveInv == ASSUME Inv, NEW w \in Worker, ApplyReserve(w) PROVE Inv'
PROOF
  <1>1. CASE /\ \A q \in QueueSet(w) : ready[q] = 0
             /\ answer' = [answer EXCEPT ![w] = "empty"]
             /\ UNCHANGED ready
    <2>1. TypeOK' /\ HeldIsMapped' /\ Equipped'
      BY <1>1 DEF Inv, TypeOK, ApplyReserve, HeldIsMapped, Equipped, QueueSet
    <2>2. AnswersFresh' /\ Synced' /\ GrowthWakes'
      BY <1>1 DEF Inv, TypeOK, ApplyReserve, Applying, AnswersFresh, Synced, GrowthWakes
    <2>3. ASSUME NEW v \in Worker, pc'[v] = "sent", answer'[v] = "empty"
          PROVE  /\ phase' = "apply"
                 /\ \A q \in QueueSet(v) : ready'[q] > 0 => q \in wakes'
      <3>1. phase' = "apply" /\ pc' = pc /\ wakes' = wakes /\ ready' = ready
        BY <1>1, Zenon DEF ApplyReserve
      <3>2. CASE v = w
        BY <1>1, <3>1, <3>2
      <3>3. CASE v # w
        <4>1. answer[v] = "empty"
          BY <1>1, <2>3, <3>3, Zenon DEF Inv, TypeOK
        <4> QED
          BY <2>3, <3>1, <4>1, Zenon DEF Inv, EmptyAnswersCovered
      <3> QED
        BY <3>2, <3>3, Zenon
    <2>4. QuietCovered'
      BY <1>1 DEF Inv, TypeOK, ApplyReserve, Applying, QuietCovered, Quiet
    <2> QED
      BY <2>1, <2>2, <2>3, <2>4, Zenon DEF Inv, EmptyAnswersCovered, QueueSet
  <1>2. CASE \E i \in DOMAIN QueuesOf[w] :
                /\ ready[QueuesOf[w][i]] > 0
                /\ ready' = [ready EXCEPT ![QueuesOf[w][i]] = @ - 1]
                /\ answer' = [answer EXCEPT ![w] = "jobs"]
    <2>1. PICK q \in Queue : /\ ready[q] > 0
                             /\ ready' = [ready EXCEPT ![q] = @ - 1]
                             /\ answer' = [answer EXCEPT ![w] = "jobs"]
      BY <1>2, QueueSetType, ZenonT(30) DEF QueueSet
    <2>2. TypeOK' /\ HeldIsMapped' /\ Equipped'
      BY <2>1 DEF Inv, TypeOK, ApplyReserve, HeldIsMapped, Equipped, QueueSet
    <2>3. AnswersFresh' /\ Synced' /\ GrowthWakes'
      BY <2>1 DEF Inv, TypeOK, ApplyReserve, Applying, AnswersFresh, Synced, GrowthWakes
    <2>4. EmptyAnswersCovered' /\ QuietCovered'
      BY <2>1, QueueSetType
      DEF Inv, TypeOK, ApplyReserve, Applying, EmptyAnswersCovered, QuietCovered, Quiet,
          QueueSet
    <2> QED
      BY <2>2, <2>3, <2>4, Zenon DEF Inv
  <1> QED
    BY <1>1, <1>2, Zenon DEF ApplyReserve

LEMMA CommitInv == ASSUME Inv, Commit PROVE Inv'
PROOF
  <1>1. TypeOK'
    BY Zenon DEF Inv, TypeOK, Commit
  <1>2. HeldIsMapped' /\ Equipped' /\ AnswersFresh'
    BY DEF Inv, TypeOK, Commit, Answered, HeldIsMapped, Equipped, AnswersFresh, QueueSet
  <1>3. Synced' /\ GrowthWakes'
    BY Zenon DEF Commit, Synced, GrowthWakes
  <1>4. EmptyAnswersCovered'
    BY Zenon DEF Inv, TypeOK, Commit, Answered, EmptyAnswersCovered
  <1>5. QuietCovered'
    <2>1. SUFFICES ASSUME NEW w \in Worker, Quiet(w)', NEW q \in QueueSet(w), ready[q] > 0
                   PROVE  q \in wakes
      BY Zenon DEF Commit, QuietCovered, QueueSet
    <2>2. CASE Answered(w)
      BY <2>1, <2>2, Zenon DEF Inv, TypeOK, Commit, Answered, EmptyAnswersCovered, Quiet
    <2>3. CASE ~Answered(w)
      <3>1. Quiet(w)
        BY <2>1, <2>3, Zenon DEF Inv, TypeOK, Commit, Quiet
      <3>2. ~(committed[q] > 0) /\ q \in Queue
        BY <3>1, QueueSetType, Zenon DEF Inv, Commit, QuietCovered
      <3>3. ready[q] > committed[q]
        BY <2>1, <3>2 DEF Inv, TypeOK
      <3> QED
        BY <3>2, <3>3, Zenon DEF Inv, Commit, GrowthWakes
    <2> QED
      BY <2>2, <2>3, Zenon
  <1> QED
    BY <1>1, <1>2, <1>3, <1>4, <1>5, Zenon DEF Inv

LEMMA FailInv == ASSUME Inv, Fail PROVE Inv'
PROOF
  <1>1. PICK failed \in SUBSET {w \in Worker : pc[w] = "sent"} :
           /\ \A w \in Worker : Answered(w) => w \in failed
           /\ pc' = [w \in Worker |-> IF w \in failed THEN "replied" ELSE pc[w]]
           /\ answer' = [w \in Worker |-> IF w \in failed THEN "error" ELSE answer[w]]
    BY ZenonT(30) DEF Fail, Answered
  <1>2. TypeOK'
    BY <1>1, Zenon DEF Inv, TypeOK, Fail
  <1>3. HeldIsMapped' /\ Equipped' /\ AnswersFresh'
    BY <1>1 DEF Inv, TypeOK, Fail, HeldIsMapped, Equipped, AnswersFresh, QueueSet
  <1>4. Synced' /\ GrowthWakes'
    BY Zenon DEF Fail, Synced, GrowthWakes
  <1>5. EmptyAnswersCovered' /\ QuietCovered'
    BY <1>1 DEF Inv, TypeOK, Fail, Answered, EmptyAnswersCovered, QuietCovered, Quiet, QueueSet
  <1> QED
    BY <1>2, <1>3, <1>4, <1>5, Zenon DEF Inv

LEMMA WakeInv == ASSUME Inv, NEW q \in Queue, Wake(q) PROVE Inv'
PROOF
  <1>1. TypeOK'
    BY Zenon DEF Inv, TypeOK, Wake, Armed
  <1>2. HeldIsMapped' /\ Equipped' /\ AnswersFresh' /\ Synced' /\ GrowthWakes'
    BY Zenon DEF Inv, Wake, HeldIsMapped, Equipped, AnswersFresh, Synced, GrowthWakes, QueueSet
  <1>3. EmptyAnswersCovered'
    BY Zenon DEF Inv, Wake, EmptyAnswersCovered
  <1>4. ASSUME NEW w \in Worker, Quiet(w)' PROVE q \notin QueueSet(w) /\ Quiet(w)
    BY <1>4, Zenon DEF Inv, Wake, Armed, Quiet, Equipped, HeldIsMapped
  <1>5. QuietCovered'
    BY <1>4, Zenon DEF Inv, Wake, QuietCovered, QueueSet
  <1> QED
    BY <1>1, <1>2, <1>3, <1>5, Zenon DEF Inv

\* The end of a cycle and the shutdown flag.
LEMMA QuietStepInv == ASSUME Inv, EndCycle \/ Shutdown PROVE Inv'
PROOF
  <1>1. TypeOK' /\ HeldIsMapped' /\ Equipped' /\ AnswersFresh'
    <2>1. TypeOK'
      BY ZenonT(30) DEF Inv, TypeOK, EndCycle, Shutdown, handler, committer
    <2>2. HeldIsMapped' /\ AnswersFresh'
      BY DEF Inv, EndCycle, Shutdown, handler, HeldIsMapped, AnswersFresh
    <2>3. Equipped'
      BY Zenon DEF Inv, EndCycle, Shutdown, handler, Equipped, QueueSet
    <2> QED
      BY <2>1, <2>2, <2>3, Zenon
  <1>2. Synced' /\ GrowthWakes'
    BY Zenon DEF Inv, EndCycle, Shutdown, committer, Synced, GrowthWakes
  <1>3. EmptyAnswersCovered' /\ QuietCovered'
    BY Zenon DEF Inv, EndCycle, Shutdown, handler, committer, EmptyAnswersCovered, QuietCovered,
           Quiet, QueueSet
  <1> QED
    BY <1>1, <1>2, <1>3, Zenon DEF Inv

LEMMA StutterInv == ASSUME Inv, UNCHANGED vars PROVE Inv'
  BY DEF Inv, TypeOK, vars, handler, committer, HeldIsMapped, Equipped,
         AnswersFresh, Synced, GrowthWakes, EmptyAnswersCovered, QuietCovered, Quiet, QueueSet

LEMMA NextInv == ASSUME Inv, [Next]_vars PROVE Inv'
PROOF
  <1>1. ASSUME NEW w \in Worker, Start(w) \/ Park(w) \/ Woken(w) PROVE Inv'
    BY <1>1, MoveInv, Zenon
  <1>2. ASSUME NEW w \in Worker,
               Return(w) \/ ShutdownSeen(w) \/ TimeOut(w) \/ HangUp(w)
        PROVE  Inv'
    BY <1>2, LeaveInv, Zenon DEF Return, ShutdownSeen, TimeOut, HangUp
  <1>3. ASSUME NEW w \in Worker, GetNotifier(w) \/ ArmAndSend(w) \/ ApplyReserve(w)
        PROVE  Inv'
    BY <1>3, GetInv, ArmInv, ReserveInv, Zenon
  <1>4. ASSUME NEW q \in Queue, MakeReady(q) \/ Remove(q) \/ Wake(q) PROVE Inv'
    BY <1>4, MakeReadyInv, RemoveInv, WakeInv, Zenon
  <1>5. CASE Commit \/ Fail \/ EndCycle \/ Shutdown
    BY <1>5, CommitInv, FailInv, QuietStepInv, Zenon
  <1>6. CASE UNCHANGED vars
    BY <1>6, StutterInv, Zenon
  <1> QED
    BY <1>1, <1>2, <1>3, <1>4, <1>5, <1>6, Zenon DEF Next, Handle, Cycle

\* The notifier a reserve handler holds is always the one the committer would
\* wake: pruning the map (QueueNotifiers::get) never cuts a handler off.
THEOREM NotifiersShared == Spec => []HeldIsMapped
PROOF
  <1>1. Inv => HeldIsMapped
    BY Zenon DEF Inv
  <1> QED
    BY <1>1, InitInv, NextInv, PTL DEF Spec

\* However handlers arm, ask and park, and however batches commit or fail, no
\* handler stays parked and unsignalled beside a committed ready job once the
\* committer has sent the wakes of that commit (run_rpc_cycle).
THEOREM WakeupsNotLost == Spec => []NoLostWakeup
PROOF
  <1>1. Inv => NoLostWakeup
    BY Zenon DEF Inv, QuietCovered, Quiet, NoLostWakeup
  <1> QED
    BY <1>1, InitInv, NextInv, PTL DEF Spec

-----------------------------------------------------------------------------
(* Sessions: who is served, and which of them end.  A session is a copy of *)
(* the login that opened it, and logins are never reused; a request keeps   *)
(* the configuration it loaded.                                             *)

LoginRow == [pc : {"none", "matched", "open"}, name : Name \cup {Nothing},
             key : Secret \cup {Nothing}, expires : Int]

\* An open session is that of an answered login, and there are at most
\* MAX_SESSIONS.
StoreSound ==
    /\ DOMAIN sessions \subseteq Token
    /\ Cardinality(DOMAIN sessions) <= MaxSessions
    /\ \A t \in DOMAIN sessions :
          /\ sessions[t].expires \in Int
          /\ logins[t].pc = "open"
          /\ sessions[t].name = logins[t].name /\ sessions[t].key = logins[t].key

\* What the request showed gives it the role of a key of its configuration.
Justified(q) ==
    IF ~q.config.auth THEN boot
    ELSE \E k \in q.config.keys :
            /\ k.name = q.name /\ k.role = q.role
            /\ \/ k.key = q.bearer
               \/ /\ q.token # Nothing /\ k.key = logins[q.token].key
                  /\ k.name = logins[q.token].name

RequestSound(q) ==
    /\ q.pc \in {"none", "loaded", "admitted", "serving"}
    /\ q.pc # "none" =>
          /\ q.config \in Config
          /\ q.token # Nothing => q.token \in Token /\ logins[q.token].pc = "open"
    /\ q.pc \in {"admitted", "serving"} => Justified(q)
    /\ q.pc = "serving" => ~(q.role < q.need)
    /\ q.role \in Role /\ q.need \in Role

Sound ==
    /\ clock \in Int
    /\ config \in Config
    /\ logins \in [Token -> LoginRow]
    /\ StoreSound
    /\ DOMAIN requests = Request /\ \A r \in Request : RequestSound(requests[r])

-----------------------------------------------------------------------------
LEMMA InitSound == ASSUME SInit PROVE Sound
PROOF
  <1>1. /\ clock \in Int /\ config \in Config /\ logins \in [Token -> LoginRow]
    BY SessionsAssumption DEF SInit, NoLogin, LoginRow
  <1>2. StoreSound
    <2>1. DOMAIN sessions = {}
      BY Zenon DEF SInit
    <2>2. Cardinality({}) = 0
      BY FS_EmptySet, Zenon
    <2> QED
      BY <2>1, <2>2, SessionsAssumption DEF StoreSound
  <1>3. \A r \in Request : RequestSound(requests[r])
    BY SessionsAssumption, Zenon DEF SInit, NoRequest, RequestSound
  <1> QED
    BY <1>1, <1>2, <1>3, Zenon DEF SInit, Sound

\* A step that leaves the answered logins and the bind alone leaves the requests
\* that do not move sound.
LEMMA KeepsRequests ==
  ASSUME Sound, boot' = boot, requests' = requests,
         \A t \in Token : logins[t].pc = "open" =>
             /\ logins'[t].pc = "open" /\ logins'[t].name = logins[t].name
             /\ logins'[t].key = logins[t].key
  PROVE  DOMAIN requests' = Request /\ \A r \in Request : RequestSound(requests[r])'
PROOF
  <1>1. SUFFICES ASSUME NEW r \in Request PROVE RequestSound(requests[r])'
    BY Zenon DEF Sound
  <1>2. RequestSound(requests[r])
    BY Zenon DEF Sound
  <1> QED
    BY <1>2 DEF RequestSound, Justified

\* A step of one request that leaves logins, sessions, bind, clock and
\* configuration alone, and leaves that request sound.
LEMMA RequestStep ==
  ASSUME Sound, NEW r \in Request, NEW q, RequestSound(q),
         requests' = [requests EXCEPT ![r] = q],
         UNCHANGED <<clock, config, boot, logins, sessions>>
  PROVE  Sound'
PROOF
  <1>1. StoreSound'
    BY Zenon DEF Sound, StoreSound
  <1>2. DOMAIN requests' = Request
    BY Zenon DEF Sound
  <1>3. ASSUME NEW s \in Request PROVE RequestSound(requests[s])'
    <2>1. requests'[s] = IF s = r THEN q ELSE requests[s]
      BY Zenon DEF Sound
    <2>2. RequestSound(requests'[s])
      BY <2>1, Zenon DEF Sound
    <2> QED
      BY <2>2, Zenon DEF RequestSound, Justified
  <1> QED
    BY <1>1, <1>2, <1>3, Zenon DEF Sound

LEMMA NoRequestSound == RequestSound(NoRequest)
  BY SessionsAssumption, Zenon DEF RequestSound, NoRequest

\* Sessions that are some of the old ones stay sound, if the answered logins do.
LEMMA FewerSessions ==
  ASSUME Sound, NEW S, S \subseteq DOMAIN sessions,
         sessions' = [t \in S |-> sessions[t]], logins' = logins
  PROVE  StoreSound'
PROOF
  <1>1. IsFiniteSet(DOMAIN sessions)
    BY FS_Subset, SessionsAssumption, Zenon DEF Sound, StoreSound
  <1>2. Cardinality(S) <= Cardinality(DOMAIN sessions)
        /\ Cardinality(S) \in Nat /\ Cardinality(DOMAIN sessions) \in Nat
    BY <1>1, FS_Subset, FS_CardinalityType, Zenon
  <1> QED
    BY <1>2, SessionsAssumption DEF Sound, StoreSound

LEMMA ArriveSound ==
  ASSUME Sound, NEW r \in Request, Arrive(r) PROVE Sound'
PROOF
  <1>1. PICK b \in Secret \cup {Nothing}, need \in Role,
             t \in {u \in Token : logins[u].pc = "open"} \cup {Nothing} :
          requests' = [requests EXCEPT ![r] =
            [NoRequest EXCEPT !.pc = "loaded", !.bearer = b, !.token = t, !.need = need,
                              !.config = config]]
    BY Zenon DEF Arrive
  <1>2. RequestSound([NoRequest EXCEPT !.pc = "loaded", !.bearer = b, !.token = t,
                                       !.need = need, !.config = config])
    BY SessionsAssumption DEF RequestSound, NoRequest, Sound
  <1> QED
    BY <1>1, <1>2, RequestStep, Zenon DEF Arrive

LEMMA CheckSound ==
  ASSUME Sound, NEW r \in Request, Check(r) PROVE Sound'
PROOF
  <1> DEFINE q == requests[r]
             c == q.config
             matched == IF ByBearer(c, q.bearer) # {} THEN ByBearer(c, q.bearer)
                        ELSE ByCookie(c, q.token)
  <1>1. RequestSound(q) /\ q.pc = "loaded" /\ c \in Config
    BY ZenonT(30) DEF Check, Sound, RequestSound
  <1>2. CASE /\ ~c.auth /\ boot
             /\ requests' = [requests EXCEPT ![r] = [@ EXCEPT !.pc = "admitted"]]
    <2>1. RequestSound([q EXCEPT !.pc = "admitted"])
      BY <1>1, <1>2 DEF RequestSound, Justified
    <2> QED
      BY <1>2, <2>1, RequestStep, Zenon DEF Check
  <1>3. ASSUME NEW k \in matched,
               requests' = [requests EXCEPT ![r].pc = "admitted", ![r].name = k.name,
                                            ![r].role = k.role]
        PROVE  Sound'
    <2> DEFINE p == [q EXCEPT !.pc = "admitted", !.name = k.name, !.role = k.role]
    <2>1. k \in c.keys
      BY Zenon DEF ByBearer, ByCookie
    <2>2. \/ k.key = q.bearer
          \/ /\ q.token \in DOMAIN sessions
             /\ k.name = sessions[q.token].name /\ k.key = sessions[q.token].key
      BY Zenon DEF ByBearer, ByCookie, Live
    <2>3. \/ k.key = q.bearer
          \/ /\ q.token # Nothing /\ k.key = logins[q.token].key
             /\ k.name = logins[q.token].name
      BY <2>2, SessionsAssumption, Zenon DEF Sound, StoreSound
    <2>4. k.role \in Role /\ c.auth
      BY <1>1, <2>1, Zenon DEF Config, AdminKey, Valid
    <2>5. RequestSound(p)
      BY <1>1, <2>1, <2>3, <2>4 DEF RequestSound, Justified
    <2>6. requests' = [requests EXCEPT ![r] = p]
      BY <1>3, Zenon
    <2> QED
      BY <2>5, <2>6, RequestStep, Zenon DEF Check
  <1>4. CASE requests' = [requests EXCEPT ![r] = NoRequest]
    BY <1>4, NoRequestSound, RequestStep, Zenon DEF Check
  <1> QED
    BY <1>2, <1>3, <1>4, ZenonT(30) DEF Check, OpenWithoutKeys

LEMMA ServeSound ==
  ASSUME Sound, NEW r \in Request, Serve(r) PROVE Sound'
PROOF
  <1>1. RequestSound(requests[r]) /\ requests[r].pc = "admitted"
    BY Zenon DEF Serve, Sound
  <1>2. CASE requests[r].role < requests[r].need
    BY <1>2, NoRequestSound, RequestStep, Zenon DEF Serve
  <1>3. CASE ~(requests[r].role < requests[r].need)
    <2>1. RequestSound([requests[r] EXCEPT !.pc = "serving"])
      BY <1>1, <1>3 DEF RequestSound, Justified
    <2> QED
      BY <1>3, <2>1, RequestStep, Zenon DEF Serve
  <1> QED
    BY <1>2, <1>3, Zenon

LEMMA LogoutSound ==
  ASSUME Sound, NEW r \in Request, Logout(r) PROVE Sound'
PROOF
  <1>1. StoreSound'
    BY FewerSessions, Zenon DEF Logout
  <1>2. \A s \in Request : RequestSound(requests'[s])
    BY NoRequestSound, Zenon DEF Logout, Sound
  <1>3. \A s \in Request : RequestSound(requests[s])'
    BY <1>2 DEF Logout, RequestSound, Justified
  <1> QED
    BY <1>1, <1>3, Zenon DEF Logout, Sound

LEMMA LoginMatchSound ==
  ASSUME Sound, NEW t \in Token, LoginMatch(t) PROVE Sound'
PROOF
  <1>1. PICK k \in config.keys, ttl \in Ttl :
          logins' = [logins EXCEPT ![t] =
            [pc |-> "matched", name |-> k.name, key |-> k.key, expires |-> clock + ttl]]
    BY ZenonT(30) DEF LoginMatch
  <1>2. k \in AdminKey /\ clock + ttl \in Int
    BY SessionsAssumption DEF Sound, Config
  <1>3. logins' \in [Token -> LoginRow]
    BY <1>1, <1>2, Zenon DEF Sound, LoginRow, AdminKey
  <1>4. \A u \in Token : logins[u].pc = "open" => logins'[u] = logins[u]
    BY <1>1, Zenon DEF LoginMatch, Sound
  <1>5. StoreSound'
    BY <1>4 DEF LoginMatch, Sound, StoreSound
  <1>6. DOMAIN requests' = Request /\ \A r \in Request : RequestSound(requests[r])'
    BY <1>4, KeepsRequests, Zenon DEF LoginMatch
  <1> QED
    BY <1>3, <1>5, <1>6, Zenon DEF LoginMatch, Sound

\* At most MAX_SESSIONS are kept: over the cap one is dropped for the new one.
LEMMA RoomMade ==
  ASSUME Sound, NEW t \in Token, t \notin DOMAIN sessions,
         NEW out \in IF Cardinality(Live) >= MaxSessions
                     THEN {{v} : v \in SoonestToExpire(Live)} ELSE {{}}
  PROVE  /\ Cardinality((Live \ out) \cup {t}) <= MaxSessions
         /\ Cardinality(Live) <= MaxSessions /\ Cardinality(Live) \in Nat
PROOF
  <1>1. Live \subseteq DOMAIN sessions /\ IsFiniteSet(DOMAIN sessions)
    BY FS_Subset, SessionsAssumption, Zenon DEF Sound, StoreSound, Live
  <1>2. /\ IsFiniteSet(Live) /\ Cardinality(Live) \in Nat
        /\ Cardinality(DOMAIN sessions) \in Nat
        /\ Cardinality(Live) <= Cardinality(DOMAIN sessions)
    BY <1>1, FS_Subset, FS_CardinalityType, Zenon
  <1>3. Cardinality(Live) <= MaxSessions
    BY <1>2, SessionsAssumption DEF Sound, StoreSound
  <1>4. CASE Cardinality(Live) >= MaxSessions
    <2>1. PICK v \in Live : out = {v}
      BY <1>4, Zenon DEF SoonestToExpire
    <2>2. IsFiniteSet(Live \ {v}) /\ Cardinality(Live \ {v}) = Cardinality(Live) - 1
      BY <1>2, FS_RemoveElement, Zenon
    <2>3. t \notin Live \ {v}
      BY <1>1, Zenon
    <2>4. Cardinality((Live \ {v}) \cup {t}) = Cardinality(Live \ {v}) + 1
      BY <2>2, <2>3, FS_AddElement, Zenon
    <2> QED
      BY <1>2, <1>3, <2>1, <2>2, <2>4
  <1>5. CASE ~(Cardinality(Live) >= MaxSessions)
    <2>1. (Live \ out) \cup {t} = Live \cup {t}
      BY <1>5, Zenon
    <2>2. Cardinality(Live \cup {t}) = Cardinality(Live) + 1
      BY <1>1, <1>2, FS_AddElement, Zenon
    <2>3. MaxSessions \in Nat /\ Cardinality(Live) + 1 <= MaxSessions
      BY <1>2, <1>5, SessionsAssumption
    <2> QED
      BY <1>2, <1>3, <2>1, <2>2, <2>3, Zenon
  <1> QED
    BY <1>4, <1>5, Zenon

LEMMA LoginInsertSound ==
  ASSUME Sound, NEW t \in Token, LoginInsert(t) PROVE Sound'
PROOF
  <1>1. PICK out \in IF Cardinality(Live) >= MaxSessions
                     THEN {{v} : v \in SoonestToExpire(Live)} ELSE {{}} :
          sessions' = [u \in (Live \ out) \cup {t} |->
                          IF u = t THEN [logins[t] EXCEPT !.pc = "open"] ELSE sessions[u]]
    BY Zenon DEF LoginInsert
  <1>2. logins[t].pc = "matched" /\ t \notin DOMAIN sessions
    BY Zenon DEF LoginInsert, Sound, StoreSound
  <1>3. Cardinality(DOMAIN sessions') <= MaxSessions
    BY <1>1, <1>2, RoomMade, Zenon
  <1>4. logins' = [logins EXCEPT ![t] = [@ EXCEPT !.pc = "open", !.expires = 0]]
    BY Zenon DEF LoginInsert
  <1>5. logins' \in [Token -> LoginRow]
    <2>1. logins[t] \in LoginRow
      BY Zenon DEF Sound
    <2>2. \A l \in LoginRow : /\ [l EXCEPT !.pc = "open"] \in LoginRow
                              /\ [l EXCEPT !.expires = 0] \in LoginRow
      BY DEF LoginRow
    <2>3. [logins[t] EXCEPT !.pc = "open", !.expires = 0]
             = [[logins[t] EXCEPT !.pc = "open"] EXCEPT !.expires = 0]
      OBVIOUS
    <2>4. [logins[t] EXCEPT !.pc = "open", !.expires = 0] \in LoginRow
      BY <2>1, <2>2, <2>3, Zenon
    <2> QED
      BY <1>4, <2>4, Zenon DEF Sound
  <1>6. \A u \in Token \ {t} : logins'[u] = logins[u]
    BY <1>4, Zenon DEF Sound
  <1>7. StoreSound'
    <2>1. DOMAIN sessions' \subseteq Token
      BY <1>1, Zenon DEF Sound, StoreSound, Live
    <2>2. ASSUME NEW u \in DOMAIN sessions'
          PROVE  /\ sessions'[u].expires \in Int
                 /\ logins'[u].pc = "open"
                 /\ sessions'[u].name = logins'[u].name /\ sessions'[u].key = logins'[u].key
      <3>1. CASE u = t
        BY <1>1, <1>4, <3>1 DEF Sound, LoginRow
      <3>2. CASE u # t
        BY <1>1, <1>6, <2>1, <3>2, Zenon DEF Sound, StoreSound, Live
      <3> QED
        BY <3>1, <3>2, Zenon
    <2> QED
      BY <1>3, <2>1, <2>2, Zenon DEF StoreSound
  <1>8. DOMAIN requests' = Request /\ \A r \in Request : RequestSound(requests[r])'
    BY <1>2, <1>6, KeepsRequests, Zenon DEF LoginInsert
  <1> QED
    BY <1>5, <1>7, <1>8, Zenon DEF LoginInsert, Sound

LEMMA RestartSound ==
  ASSUME Sound, Restart PROVE Sound'
PROOF
  <1>1. logins' \in [Token -> LoginRow]
    BY DEF Restart, Sound, LoginRow, NoLogin
  <1>2. StoreSound'
    <2>1. DOMAIN sessions' = {} /\ Cardinality({}) = 0
      BY FS_EmptySet, Zenon DEF Restart
    <2> QED
      BY <2>1, SessionsAssumption DEF StoreSound
  <1>3. \A r \in Request : RequestSound(requests[r])'
    BY SessionsAssumption, Zenon DEF Restart, NoRequest, RequestSound
  <1> QED
    BY <1>1, <1>2, <1>3, Zenon DEF Restart, Sound

LEMMA NextSound == Sound /\ [SNext]_svars => Sound'
PROOF
  <1> SUFFICES ASSUME Sound, [SNext]_svars PROVE Sound'
    OBVIOUS
  <1>1. CASE Tick \/ Publish \/ UNCHANGED svars
    <2>1. clock' \in Int /\ config' \in Config
      BY <1>1, SessionsAssumption DEF Tick, Publish, svars, Sound
    <2>2. StoreSound'
      BY <1>1, Zenon DEF Tick, Publish, svars, Sound, StoreSound
    <2>3. DOMAIN requests' = Request /\ \A r \in Request : RequestSound(requests[r])'
      BY <1>1, KeepsRequests, Zenon DEF Tick, Publish, svars
    <2> QED
      BY <1>1, <2>1, <2>2, <2>3, Zenon DEF Tick, Publish, svars, Sound
  <1>2. ASSUME NEW r \in Request, Answer(r) PROVE Sound'
    BY <1>2, NoRequestSound, RequestStep, ZenonT(30) DEF Answer
  <1> QED
    BY <1>1, <1>2, RestartSound, LoginMatchSound, LoginInsertSound, ArriveSound,
       CheckSound, ServeSound, LogoutSound, Zenon DEF SNext

LEMMA AlwaysSound == SSpec => []Sound
  <1>1. SInit => Sound
    BY InitSound, Zenon
  <1> QED
    BY <1>1, NextSound, PTL DEF SSpec

\* For every set of keys, tokens and published configurations, a handler runs
\* only for a request that showed the secret of a key of sufficient role of the
\* configuration it met, now or at the login of its session, or that met no keys
\* on a loopback bind (require, extract).
THEOREM OnlyLiveKeysServed == SSpec => []ServedByLiveKey
  <1>1. Sound => ServedByLiveKey
    <2> SUFFICES ASSUME Sound, NEW r \in Request, requests[r].pc = "serving"
                 PROVE  IF ~requests[r].config.auth THEN boot
                        ELSE \E k \in requests[r].config.keys :
                                /\ k.name = requests[r].name /\ requests[r].need <= k.role
                                /\ \/ k.key = requests[r].bearer
                                   \/ /\ requests[r].token # Nothing
                                      /\ k.key = logins[requests[r].token].key
                                      /\ k.name = logins[requests[r].token].name
      BY DEF ServedByLiveKey
    <2>1. /\ Justified(requests[r]) /\ ~(requests[r].role < requests[r].need)
          /\ requests[r].role \in Nat /\ requests[r].need \in Nat
      BY SessionsAssumption, Zenon DEF Sound, RequestSound
    <2>2. requests[r].need <= requests[r].role
      BY <2>1
    <2> QED
      BY <2>1, <2>2, Zenon DEF Justified
  <1> QED
    BY <1>1, AlwaysSound, PTL

\* What SessionsEndInOrder says of one step.
EndsInOrder ==
    /\ Cardinality(DOMAIN sessions') <= MaxSessions
    /\ \A t \in Live \ DOMAIN sessions' :
          \/ \E r \in Request : requests[r].pc = "admitted" /\ requests[r].token = t
          \/ sessions' = [u \in {} |-> NoLogin]
          \/ /\ Cardinality(Live) = MaxSessions
             /\ \A u \in DOMAIN sessions' \cap DOMAIN sessions :
                  sessions[t].expires <= sessions[u].expires

LEMMA NextEndsInOrder == Sound /\ Sound' /\ SNext => EndsInOrder
PROOF
  <1> SUFFICES ASSUME Sound, Sound', SNext PROVE EndsInOrder
    OBVIOUS
  <1>1. Cardinality(DOMAIN sessions') <= MaxSessions
    BY Zenon DEF Sound, StoreSound
  <1> SUFFICES ASSUME NEW t \in Live \ DOMAIN sessions'
               PROVE  \/ \E r \in Request : requests[r].pc = "admitted" /\ requests[r].token = t
                      \/ sessions' = [u \in {} |-> NoLogin]
                      \/ /\ Cardinality(Live) = MaxSessions
                         /\ \A u \in DOMAIN sessions' \cap DOMAIN sessions :
                              sessions[t].expires <= sessions[u].expires
    BY <1>1, Zenon DEF EndsInOrder
  <1>2. t \in DOMAIN sessions
    BY Zenon DEF Live
  <1>3. ASSUME NEW n \in Token, LoginInsert(n)
        PROVE  /\ Cardinality(Live) = MaxSessions
               /\ \A u \in DOMAIN sessions' \cap DOMAIN sessions :
                    sessions[t].expires <= sessions[u].expires
    <2>1. PICK out \in IF Cardinality(Live) >= MaxSessions
                       THEN {{v} : v \in SoonestToExpire(Live)} ELSE {{}} :
            sessions' = [u \in (Live \ out) \cup {n} |->
                            IF u = n THEN [logins[n] EXCEPT !.pc = "open"] ELSE sessions[u]]
      BY <1>3, Zenon DEF LoginInsert
    <2>2. n \notin DOMAIN sessions
      BY <1>3, Zenon DEF LoginInsert, Sound, StoreSound
    <2>3. t \in out /\ DOMAIN sessions' \cap DOMAIN sessions \subseteq Live
      BY <2>1, <2>2, Zenon
    <2>4. Cardinality(Live) >= MaxSessions /\ t \in SoonestToExpire(Live)
      BY <2>3, Zenon
    <2>5. Cardinality(Live) <= MaxSessions /\ Cardinality(Live) \in Nat
      BY <2>2, RoomMade, Zenon
    <2> QED
      BY <2>3, <2>4, <2>5, SessionsAssumption DEF SoonestToExpire
  <1>4. ASSUME NEW r \in Request, Logout(r)
        PROVE  requests[r].pc = "admitted" /\ requests[r].token = t
    BY <1>2, <1>4, Zenon DEF Logout
  <1>5. CASE Restart
    BY <1>5, Zenon DEF Restart
  <1>6. CASE sessions' = sessions
    BY <1>2, <1>6, Zenon
  <1> QED
    BY <1>3, <1>4, <1>5, <1>6, ZenonT(30)
    DEF SNext, Tick, Publish, LoginMatch, Arrive, Check, Serve, Answer

\* For every MAX_SESSIONS and every set of tokens, a session ends early only by
\* its logout, a restart, or a login over the cap that keeps none that expires
\* earlier (login, logout).
THEOREM SessionsEvictedInOrder == SSpec => SessionsEndInOrder
  <1>1. Sound /\ Sound' /\ [SNext]_svars => [EndsInOrder]_svars
    BY NextEndsInOrder, Zenon
  <1> QED
    BY <1>1, AlwaysSound, PTL DEF SSpec, SessionsEndInOrder, EndsInOrder
=============================================================================
