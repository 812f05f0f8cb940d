------------------------------- MODULE MCFeed -------------------------------
(* A small instance of AdminFeed for TLC. *)
EXTENDS AdminFeed, TLC
CONSTANTS q1, q2, t1, t2, t3

\* What one behaviour does, so that the instance explores the sum of these
\* workloads: jobs and figures; the audit page; frames and lag.
Loads ==
    {[now |-> 1, calls |-> 3, ticks |-> 2, audits |-> 0, reloads |-> 0, browsers |-> 0],
     [now |-> 0, calls |-> 0, ticks |-> 0, audits |-> 3, reloads |-> 0, browsers |-> 1],
     [now |-> 0, calls |-> 0, ticks |-> 2, audits |-> 1, reloads |-> 1, browsers |-> 1]}

TaskSymmetry == Permutations({t1, t2})
==============================================================================
