----------------------------- MODULE MCLongPoll -----------------------------
(* Small instances of LongPoll for TLC. *)
EXTENDS LongPoll

CONSTANTS w1, w2, q1, n1, n2

\* Two handlers compete for the jobs of one queue.
SameList == [w \in Worker |-> <<q1>>]
=============================================================================
