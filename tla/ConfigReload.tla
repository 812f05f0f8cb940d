---------------------------- MODULE ConfigReload ----------------------------
(***************************************************************************)
(* The configuration while the server runs: the file, the people who edit  *)
(* it by hand, the admin handlers that edit it (admin/routes.rs), and the  *)
(* watcher thread that reloads it (config_watch.rs).  A handler holds      *)
(* config_write_lock from the check of its etag until it answers; a hand   *)
(* edit knows no lock.                                                     *)
(*                                                                         *)
(* A content of the file is a number, its etag and what it parses to; the  *)
(* registry, the API keys and the config in force are each the content     *)
(* they were built from.  The reload sequence is, per waiting handler,     *)
(* whether it was bumped since the handler last looked.                    *)
(***************************************************************************)
EXTENDS Naturals, FiniteSets

CONSTANTS
    Handler,        \* admin requests that change the config
    Nobody,         \* no handler
    Broken,         \* a file that does not parse or validate
    Missing,        \* no file
    Builtin,        \* the defaults of a server started without a file
    MaxSaves,       \* how many contents are ever saved
    MaxHandSaves,   \* how many of the saves are made by hand
    MaxCrashes      \* how often the process dies

ASSUME ConfigAssumption ==
    /\ MaxSaves \in Nat /\ MaxHandSaves \in Nat /\ MaxCrashes \in Nat
    /\ {Broken, Missing, Builtin} \cap Nat = {} /\ Nobody \notin Handler

VARIABLES
    file,       \* what is at the config path
    pending,    \* the kinds of file-system events in the watcher's channel
    watcher,    \* the watcher thread: where it is, what it loaded
    watching,   \* whether the watcher was started
    live,       \* the registry, the API keys and the config in force
    lock,       \* the holder of config_write_lock
    req,        \* each admin request: where it is, its etag, its candidate,
                \* and whether that was in force when it was written (history)
    since,      \* contents saved since the last admin write (history)
    byHand,     \* whether what is at the path was saved by hand (history)
    missed,     \* whether it was saved between the load and the start of the
                \* watcher (history)
    saves, handSaves, crashes

counters == <<saves, handSaves, crashes>>

rvars == <<file, pending, watcher, watching, live, lock, req, since, byHand, missed, counters>>

Content == 0..MaxSaves

Running(c) == [registry |-> c, keys |-> c, config |-> c]

Fresh == [at |-> "idle", etag |-> 0, candidate |-> 0, inForce |-> FALSE,
          bumped |-> FALSE]

RInit ==
    /\ file = 0
    /\ pending = {}
    /\ watcher = [at |-> "boot", loaded |-> 0]
    /\ watching = FALSE
    /\ live = Running(0)
    /\ lock = Nobody
    /\ req = [h \in Handler |-> Fresh]
    /\ since = {}
    /\ byHand = FALSE
    /\ missed = FALSE
    /\ saves = 0 /\ handSaves = 0 /\ crashes = 0

\* What the file system tells the watcher; nobody listens when there is none.
Notice(kinds) ==
    /\ pending' = IF watching THEN pending \cup kinds ELSE {}
    /\ missed' = (watcher.at = "boot" \/ (missed /\ "config" \notin kinds))

\* The contents the next save can have: a new one, or one that was there before.
NextContents == 0..saves + 1

-----------------------------------------------------------------------------
(* The watcher thread. *)

Watch(step, next) ==
    /\ watching /\ watcher.at = step
    /\ watcher' = [watcher EXCEPT !.at = next]
    /\ UNCHANGED <<watching, file, lock, since, byHand, missed, counters>>

\* rx.recv(): an event of another file is ignored.
Receive ==
    \E kind \in pending :
        /\ Watch("idle", IF kind = "config" THEN "debounce" ELSE "idle")
        /\ pending' = pending \ {kind}
        /\ UNCHANGED <<live, req>>

\* After the sleep, what has arrived meanwhile is thrown away.
Drain ==
    /\ Watch("debounce", "load")
    /\ pending' = {}
    /\ UNCHANGED <<live, req>>

\* Config::load, as far as the early returns of apply_reload.
Load ==
    LET unusable == file \in {Broken, Missing}
    IN  /\ watching /\ watcher.at = "load"
        /\ watcher' = IF unusable \/ file = live.config
                      THEN [watcher EXCEPT !.at = "bump"]
                      ELSE [at |-> "publish", loaded |-> file]
        /\ UNCHANGED <<file, pending, watching, live, lock, req, since, byHand, missed, counters>>

Publish ==
    /\ Watch("publish", "set_keys")
    /\ live' = [live EXCEPT !.registry = watcher.loaded]
    /\ UNCHANGED <<pending, req>>

SetKeys ==
    /\ Watch("set_keys", "store")
    /\ live' = [live EXCEPT !.keys = watcher.loaded]
    /\ UNCHANGED <<pending, req>>

Store ==
    /\ Watch("store", "bump")
    /\ live' = [live EXCEPT !.config = watcher.loaded]
    /\ UNCHANGED <<pending, req>>

\* Also after a reload that failed or found nothing new.  Only the holder of
\* the lock listens.
Bump ==
    /\ Watch("bump", "recheck")
    /\ req' = [h \in Handler |-> [req[h] EXCEPT !.bumped = (@ \/ h = lock)]]
    /\ UNCHANGED <<pending, live>>

RecheckDrained ==
    /\ Watch("recheck", "idle")
    /\ pending' = {}
    /\ UNCHANGED <<live, req>>

\* An event that came during the reload, of any file, starts another round.
Recheck ==
    /\ Watch("recheck", IF pending = {} THEN "idle" ELSE "debounce")
    /\ IF pending = {} THEN UNCHANGED pending
       ELSE \E kind \in pending : pending' = pending \ {kind}
    /\ UNCHANGED <<live, req>>

WatcherStep ==
    \/ Receive \/ Drain \/ Load \/ Publish \/ SetKeys \/ Store \/ Bump
    \/ Recheck

-----------------------------------------------------------------------------
(* The admin handlers: put_config, put_queue, delete_queue and the API-key *)
(* endpoints share these steps.                                            *)

Move(h, from, to) ==
    /\ req[h].at = from
    /\ req' = [req EXCEPT ![h].at = to]

\* get_config: the client learns the etag of the file, without the lock.
GetConfig(h) ==
    /\ req[h].at = "idle" /\ watcher.at # "boot"
    /\ req' = [req EXCEPT ![h].etag = file]
    /\ UNCHANGED <<file, pending, watcher, watching, live, lock, since, byHand, missed, counters>>

CheckUnlocked(h) ==
    /\ Move(h, "idle", "checked")
    /\ file = req[h].etag /\ saves < MaxSaves
    /\ lock' = h
    /\ UNCHANGED <<file, pending, watcher, watching, live, since, byHand, missed, counters>>

\* The lock, read_config_file and check_etag; a mismatch changes nothing.
Check(h) ==
    /\ Move(h, "idle", "checked")
    /\ lock = Nobody /\ watcher.at # "boot"
    /\ file = req[h].etag /\ saves < MaxSaves
    /\ lock' = h
    /\ UNCHANGED <<file, pending, watcher, watching, live, since, byHand, missed, counters>>

\* The edited content is valid, the sequence is marked as seen, and
\* write_atomic has written its temporary file and removed the old one.
RemoveFile(h) ==
    /\ req[h].at = "checked" /\ saves < MaxSaves
    /\ \E c \in NextContents :
          req' = [req EXCEPT ![h].at = "removed", ![h].candidate = c,
                             ![h].bumped = FALSE]
    /\ file' = Missing
    /\ byHand' = FALSE
    /\ Notice({"other"} \cup IF file = Missing THEN {} ELSE {"config"})
    /\ saves' = saves + 1
    /\ UNCHANGED <<watcher, watching, live, lock, since, handSaves, crashes>>

RenameFile(h) ==
    /\ req[h].at = "removed"
    /\ req' = [req EXCEPT ![h].at = "waiting",
                          ![h].inForce = (live.config = req[h].candidate)]
    /\ file' = req[h].candidate
    /\ Notice({"config"})
    /\ since' = {req[h].candidate}
    /\ byHand' = FALSE
    /\ UNCHANGED <<watcher, watching, live, lock, counters>>

Applied(h) == live.config = req[h].candidate

\* The handler returns; its client remembers the etag it knew.
Return(h, from) ==
    /\ req[h].at = from
    /\ req' = [req EXCEPT ![h] = [Fresh EXCEPT !.etag = req[h].etag]]
    /\ lock' = Nobody
    /\ UNCHANGED <<file, pending, watcher, watching, live, since, byHand, missed, counters>>

AnswerOnBump(h) ==
    /\ Return(h, "parked")
    /\ req[h].bumped

\* The wait for the reload: compare, then wait for the next bump.
AnswerApplied(h) ==
    /\ Return(h, "waiting")
    /\ Applied(h)

ParkOnSeq(h) ==
    /\ Move(h, "waiting", "parked")
    /\ ~Applied(h)
    /\ UNCHANGED <<file, pending, watcher, watching, live, lock, since, byHand, missed, counters>>

SeqChanged(h) ==
    /\ req[h].at = "parked" /\ req[h].bumped
    /\ req' = [req EXCEPT ![h].at = "waiting", ![h].bumped = FALSE]
    /\ UNCHANGED <<file, pending, watcher, watching, live, lock, since, byHand, missed, counters>>

\* RELOAD_WAIT is over, there is no watcher, or the client hung up.
GiveUp(h) ==
    /\ Return(h, "parked")

\* An edit that is refused, or whose client hangs up, before anything was
\* written: delete_queue purges the queue between the check and the write.
Abandon(h) ==
    /\ Return(h, "checked")

\* write_atomic fails after the old file is gone; the error is returned.
RenameFails(h) ==
    /\ Return(h, "removed")

HandlerStep(h) ==
    \/ GetConfig(h) \/ Check(h) \/ RemoveFile(h) \/ RenameFile(h)
    \/ AnswerApplied(h) \/ ParkOnSeq(h) \/ SeqChanged(h) \/ GiveUp(h)
    \/ Abandon(h) \/ RenameFails(h)

-----------------------------------------------------------------------------
(* The world outside. *)

\* Somebody saves the file in an editor, with or without a mistake in it.
HandSave ==
    /\ saves < MaxSaves /\ handSaves < MaxHandSaves
    /\ \E c \in NextContents \cup {Broken} :
          file' = c /\ since' = since \cup {c}
    /\ byHand' = TRUE
    /\ Notice({"config"})
    /\ saves' = saves + 1
    /\ handSaves' = handSaves + 1
    /\ UNCHANGED <<watcher, watching, live, lock, req, crashes>>

\* The process dies and starts again on what is at the default path: a broken
\* file stops it from starting, a missing one does not.  It loads the file long
\* before it watches it.
Restart ==
    /\ crashes < MaxCrashes /\ file # Broken
    /\ crashes' = crashes + 1
    /\ watching' = FALSE
    /\ live' = Running(IF file = Missing THEN Builtin ELSE file)
    /\ watcher' = [watcher EXCEPT !.at = "boot"]
    /\ missed' = FALSE
    /\ pending' = {}
    /\ lock' = Nobody
    /\ req' = [h \in Handler |-> [Fresh EXCEPT !.etag = req[h].etag]]
    /\ UNCHANGED <<file, since, byHand, saves, handSaves>>

\* The watcher is started if there is a file by now, and then the admin server.
StartWatcher ==
    /\ watcher.at = "boot"
    /\ watcher' = [watcher EXCEPT !.at = "idle"]
    /\ watching' = (file # Missing)
    /\ UNCHANGED <<file, pending, live, lock, req, since, byHand, missed, counters>>

RNext == WatcherStep \/ StartWatcher \/ (\E h \in Handler : HandlerStep(h)) \/ HandSave \/ Restart

RSpec == RInit /\ [][RNext]_rvars

\* The watcher is a thread of its own whose waits all end; the start-up goes on.
FairRSpec == RSpec /\ WF_rvars(WatcherStep) /\ WF_rvars(StartWatcher)

-----------------------------------------------------------------------------
\* An admin write replaces the content its client saw: no save of another
\* admin is lost to a stale edit (check_etag and config_write_lock).  Only a
\* file saved by hand after the check is overwritten.
SavesNotClobbered ==
    [][\A h \in Handler :
          /\ RemoveFile(h) => file = req[h].etag \/ byHand
          /\ RenameFile(h) => file = Missing \/ byHand]_rvars

\* A handler that answers applied is right: registry and keys too are those of
\* its edit or of a later save (validate_and_write, routes.rs:1056-1061).  The
\* exception is an edit that restores the config in force at its writing.
AppliedInForce ==
    [][\A h \in Handler : AnswerApplied(h) /\ ~req[h].inForce =>
          live.registry \in since /\ live.keys \in since]_rvars

\* Once the saves stop, the registry, the keys and the config are those of the
\* file, if it is usable and the server was started with a file to watch: no
\* event that arrives during a reload is lost (config_watch.rs:65-77).  The one
\* save that goes unseen, until the next, is one made while the server starts,
\* after it loaded the file and before it watches it (main.rs:62, 146).
Converges == <>[](watching /\ file \in Content /\ ~missed => live = Running(file))
=============================================================================
