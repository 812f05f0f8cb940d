------------------------------- MODULE AdminFeed -------------------------------
(***************************************************************************)
(* The audit trail and the live stream of the admin UI, over the stats hub  *)
(* of AdminStats.  A successful admin action spawns a detached task that    *)
(* appends an entry to the audit log and, once the append is durable, sends *)
(* it to the broadcast channel that also carries the hub's frames and the   *)
(* reload notices.  A browser subscribes, is sent a hello, and then what    *)
(* the channel holds; its audit page merges the live entries with the pages *)
(* it fetches.                                                              *)
(***************************************************************************)
EXTENDS AdminStats, FiniteSetsExt

CONSTANTS
    Task,          \* the audited actions
    Shown,         \* the actions the page's filter matches
    HubCap,        \* the capacity of the broadcast channel
    PageSize,      \* PAGE_SIZE of the audit page
    ScanCap        \* AUDIT_SCAN_CAP

ASSUME FeedAssumption ==
    /\ Shown \subseteq Task
    /\ HubCap \in Nat \ {0} /\ PageSize \in Nat \ {0} /\ ScanCap \in Nat \ {0}
    /\ \A w \in Workload : w.audits \in Nat /\ w.reloads \in Nat /\ w.browsers \in Nat

VARIABLES
    audit,   \* the committed rows: audit_seq, and the entries by number
    tx,      \* the same as the open batch sees them
    tasks,   \* the detached tasks: pc, and the number the append returned
    reload,  \* the watch channel of reloads: its value, and the value last seen
    chan,    \* every event sent on the broadcast channel
    client   \* the browser: its place in the channel and what it shows

feedVars == <<audit, tx, tasks, reload, chan, client>>
allVars == <<load, now, stats, cycle, snapshot, hub, history, latest_frame, ledger,
          audit, tx, tasks, reload, chan, client>>

NoSeq == 0

NoClient == [pc |-> "off", admin |-> FALSE, pos |-> 0, frame |-> 0, lagged |-> FALSE,
             rows |-> {}, cursor |-> NoSeq, fetch |-> "none", page |-> {}, next |-> NoSeq]

FeedInit ==
    /\ StatsInit
    /\ audit = [seq |-> 0, rows |-> <<>>]
    /\ tx = audit
    /\ tasks = [t \in Task |-> [pc |-> "idle", seq |-> 0]]
    /\ reload = [seq |-> 0, seen |-> 0]
    /\ chan = <<>>
    /\ client = NoClient

-------------------------------------------------------------------------------
(* The audit log.                                                            *)

\* store_audit: the action succeeded, and a detached task takes over.
SpawnAppend(t) ==
    /\ tasks[t].pc = "idle"
    /\ Cardinality({u \in Task : tasks[u].pc # "idle"}) < load.audits
    /\ tasks' = [tasks EXCEPT ![t].pc = "queued"]
    /\ UNCHANGED <<statsVars, audit, tx, reload, chan, client>>

\* A variant that numbers the entry from the committed row, not the batch's.
NumberFromDisk(t) ==
    LET seq == audit.seq + 1
    IN  [seq |-> seq, rows |-> [s \in DOMAIN tx.rows \cup {seq} |->
                                    IF s = seq THEN t ELSE tx.rows[s]]]

\* apply_audit_append: the next number, read and written in the transaction.
apply_audit_append(t) ==
    LET seq == tx.seq + 1
    IN  [seq |-> seq, rows |-> [s \in DOMAIN tx.rows \cup {seq} |->
                                    IF s = seq THEN t ELSE tx.rows[s]]]

AppendAudit(t) ==
    /\ cycle.kind = "rpc"
    /\ tasks[t].pc = "queued"
    /\ tx' = apply_audit_append(t)
    /\ tasks' = [tasks EXCEPT ![t] = [pc |-> "applied", seq |-> tx'.seq]]
    /\ UNCHANGED <<statsVars, audit, reload, chan, client>>

\* The batch commits: the appends are durable and the tasks get their numbers.
FeedCommit ==
    /\ CommitRpc
    /\ audit' = tx
    /\ tasks' = [t \in Task |-> IF tasks[t].pc = "applied" THEN [tasks[t] EXCEPT !.pc = "replied"]
                                ELSE tasks[t]]
    /\ UNCHANGED <<tx, reload, chan, client>>

\* It aborts: the applied appends fail, and so do those still queued in it.
FeedAbort ==
    /\ AbortRpc
    /\ \E rest \in SUBSET {t \in Task : tasks[t].pc = "queued"} :
        tasks' = [t \in Task |-> IF tasks[t].pc = "applied" \/ t \in rest
                                 THEN [pc |-> "failed", seq |-> 0] ELSE tasks[t]]
    /\ tx' = audit
    /\ UNCHANGED <<audit, reload, chan, client>>

-------------------------------------------------------------------------------
(* The broadcast channel.                                                    *)

\* The task's append returned: fan the entry out.
SendAudit(t) ==
    /\ tasks[t].pc = "replied"
    /\ tasks' = [tasks EXCEPT ![t].pc = "sent"]
    /\ chan' = Append(chan, [kind |-> "audit", n |-> tasks[t].seq])
    /\ UNCHANGED <<statsVars, audit, tx, reload, client>>

SendFrame ==
    /\ HubSend
    /\ chan' = Append(chan, [kind |-> "stats", n |-> latest_frame])
    /\ UNCHANGED <<audit, tx, tasks, reload, client>>

\* The watcher published a new configuration (ConfigReload).
Reloaded ==
    /\ reload.seq < load.reloads
    /\ reload' = [reload EXCEPT !.seq = @ + 1]
    /\ UNCHANGED <<statsVars, audit, tx, tasks, chan, client>>

\* watch_reloads: several reloads may collapse into one notice.
SendReload ==
    /\ reload.seen < reload.seq
    /\ reload' = [reload EXCEPT !.seen = reload.seq]
    /\ chan' = Append(chan, [kind |-> "config", n |-> reload.seq])
    /\ UNCHANGED <<statsVars, audit, tx, tasks, client>>

-------------------------------------------------------------------------------
(* The browser.                                                              *)

\* events: subscribe first, ...
Subscribe ==
    /\ client.pc = "off" /\ load.browsers > 0
    /\ \E admin \in BOOLEAN :
        client' = [NoClient EXCEPT !.pc = "subscribed", !.admin = admin, !.pos = Len(chan)]
    /\ UNCHANGED <<statsVars, audit, tx, tasks, reload, chan>>

\* reload() of the page: forget the rows and ask for the newest ones.
Reload(c) == [c EXCEPT !.rows = {}, !.cursor = NoSeq, !.fetch = "newest",
                       !.page = {}, !.next = NoSeq]

\* ... then read the frame.  The page takes a hello as a break and reloads.
Hello ==
    /\ client.pc = "subscribed"
    /\ client' = LET c == [client EXCEPT !.pc = "open", !.frame = latest_frame]
                 IN  IF c.admin THEN Reload(c) ELSE c
    /\ UNCHANGED <<statsVars, audit, tx, tasks, reload, chan>>

\* A variant that does not tell the browser that it lagged.
Skip(c) == [c EXCEPT !.pos = Len(chan) - HubCap]

\* The receiver fell out of the channel's buffer: a "lagged" event.
Lag(c) == LET l == [c EXCEPT !.pos = Len(chan) - HubCap, !.lagged = TRUE]
          IN  IF c.admin THEN Reload(l) ELSE l

\* One event of the stream; audit entries go to admins only.  frame is the last
\* frame that arrived; applyFrame does not show it if the wall clock went back.
Deliver(c, e) ==
    CASE e.kind = "stats" -> [c EXCEPT !.pos = @ + 1, !.frame = e.n, !.lagged = FALSE]
      [] e.kind = "audit" /\ c.admin /\ audit.rows[e.n] \in Shown ->
            [c EXCEPT !.pos = @ + 1, !.rows = @ \cup {e.n}]
      [] OTHER -> [c EXCEPT !.pos = @ + 1]

Receive ==
    /\ client.pc = "open"
    /\ client.pos < Len(chan)
    /\ client' = IF Len(chan) - client.pos > HubCap THEN Lag(client)
                 ELSE Deliver(client, chan[client.pos + 1])
    /\ UNCHANGED <<statsVars, audit, tx, tasks, reload, chan>>

\* A variant that leaves the cursor at the last entry shown, not examined, and
\* ends the walk when the page came back short.
ShortPage(before) ==
    LET below == {s \in 1..audit.seq : before = NoSeq \/ s < before}
        scanned == {s \in below : Cardinality({r \in below : r >= s}) <= ScanCap}
        hits == {s \in scanned : audit.rows[s] \in Shown}
        entries == {s \in hits : Cardinality({r \in hits : r >= s}) <= PageSize}
    IN  [entries |-> entries,
         next |-> IF Cardinality(entries) < PageSize THEN NoSeq ELSE Min(entries)]

\* list_audit: newest first below `before`, until the page is full or ScanCap
\* rows were examined; next_before is the last row examined if one remains.
list_audit(before) ==
    LET below == {s \in 1..audit.seq : before = NoSeq \/ s < before}
        full(s) == Cardinality({r \in below : r > s /\ audit.rows[r] \in Shown}) >= PageSize
        capped(s) == Cardinality({r \in below : r > s}) >= ScanCap
        examined == {s \in below : ~full(s) /\ ~capped(s)}
    IN  [entries |-> {s \in examined : audit.rows[s] \in Shown},
         next |-> IF examined = below THEN NoSeq ELSE Min(examined)]

\* The server answers the page's request from a snapshot.
AnswerPage ==
    /\ client.fetch \in {"newest", "older"}
    /\ LET page == list_audit(IF client.fetch = "newest" THEN NoSeq ELSE client.cursor)
       IN  client' = [client EXCEPT !.page = page.entries, !.next = page.next,
                                    !.fetch = IF @ = "newest" THEN "newest_ready"
                                              ELSE "older_ready"]
    /\ UNCHANGED <<statsVars, audit, tx, tasks, reload, chan>>

\* The answer arrives; one asked for before a reload() is dropped there.
MergePage ==
    /\ client.fetch \in {"newest_ready", "older_ready"}
    /\ client' = [client EXCEPT !.rows = @ \cup client.page, !.cursor = client.next,
                                !.fetch = "none", !.page = {}, !.next = NoSeq]
    /\ UNCHANGED <<statsVars, audit, tx, tasks, reload, chan>>

\* The request fails: the page says so, and for an older page keeps its cursor.
PageError ==
    /\ client.fetch \in {"newest", "older"}
    /\ client' = [client EXCEPT !.fetch = IF @ = "newest" THEN "error" ELSE "none"]
    /\ UNCHANGED <<statsVars, audit, tx, tasks, reload, chan>>

\* loadOlder of the page.
LoadOlder ==
    /\ client.pc = "open" /\ client.admin
    /\ client.fetch = "none" /\ client.cursor # NoSeq
    /\ client' = [client EXCEPT !.fetch = "older"]
    /\ UNCHANGED <<statsVars, audit, tx, tasks, reload, chan>>

Disconnect ==
    /\ client.pc # "off"
    /\ client' = NoClient
    /\ UNCHANGED <<statsVars, audit, tx, tasks, reload, chan>>

\* The process restarts: tasks, channel and connections are gone; the batch in
\* progress reached the disk or did not.
FeedRestart ==
    /\ StatsRestart
    /\ \E kept \in {audit, tx} : audit' = kept /\ tx' = kept
    /\ tasks' = [t \in Task |-> IF tasks[t].pc = "idle" THEN tasks[t]
                                ELSE [pc |-> "gone", seq |-> 0]]
    /\ reload' = [seq |-> 0, seen |-> 0]
    /\ chan' = <<>>
    /\ client' = NoClient

-------------------------------------------------------------------------------
FeedNext ==
    \/ (StatsClock \/ HubSample \/ HubStore) /\ UNCHANGED feedVars
    \/ (\E kind \in {"rpc", "sweep"} : BeginCycle(kind)) /\ UNCHANGED feedVars
    \/ (\E q \in QueueName, c \in Counter : Recorder(q, c)) /\ UNCHANGED feedVars
    \/ (\E q \in QueueName : PurgeChunk(q)) /\ UNCHANGED feedVars
    \/ (\E ok \in BOOLEAN : EndSweep(ok)) /\ UNCHANGED feedVars
    \/ PublishSnapshot /\ UNCHANGED feedVars
    \/ \E t \in Task : SpawnAppend(t) \/ AppendAudit(t) \/ SendAudit(t)
    \/ FeedCommit \/ FeedAbort \/ FeedRestart
    \/ SendFrame \/ Reloaded \/ SendReload
    \/ Subscribe \/ Hello \/ Receive \/ AnswerPage \/ PageError \/ MergePage \/ LoadOlder \/ Disconnect

FeedSpec == FeedInit /\ [][FeedNext]_allVars

-------------------------------------------------------------------------------
(* Properties.                                                               *)

\* The event is in the channel, ahead of the browser.
Ahead(kind, n) ==
    \E i \in client.pos + 1 .. Len(chan) : chan[i] = [kind |-> kind, n |-> n]

\* The audit trail (apply_audit_append) is numbered without a gap, through
\* aborted batches and restarts, and an entry whose append succeeded, and may
\* have been shown, keeps its number.
TrailGapless ==
    /\ DOMAIN audit.rows = 1..audit.seq
    /\ \A t \in Task : tasks[t].pc \in {"replied", "sent"} =>
        tasks[t].seq \in DOMAIN audit.rows /\ audit.rows[tasks[t].seq] = t

\* The audit page shows every entry its filter matches down to its cursor, or
\* the entry is still coming: its task has not sent it, or it lies ahead in the
\* channel.  So a hello, a lag, a page request overtaken by appends and the
\* scan cap of list_audit never leave a hole that nothing fills.
PageHasNoHoles ==
    client.pc = "open" /\ client.admin /\ client.fetch \in {"none", "older", "older_ready"} =>
        \A s \in 1..audit.seq :
            \/ audit.rows[s] \notin Shown
            \/ client.cursor # NoSeq /\ s < client.cursor
            \/ s \in client.rows
            \/ tasks[audit.rows[s]].pc = "replied"
            \/ Ahead("audit", s)

\* A browser that was not told it lagged has the newest frame, or the frame is
\* on its way: the handler subscribes before it reads the hello (events), and
\* the hub stores a frame before it sends it (run_hub).
FrameOnItsWay ==
    client.pc = "open" /\ ~client.lagged =>
        client.frame >= latest_frame \/ hub.pc = "send" \/ Ahead("stats", latest_frame)
===============================================================================
