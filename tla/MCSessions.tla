------------------------------ MODULE MCSessions ------------------------------
(* A small instance of AdminSessions for TLC. *)
EXTENDS AdminSessions, TLC
CONSTANTS n1, s1, s2, t1, t2, t3, r1

\* No keys, on loopback or with the plane disabled; one key as viewer and as
\* admin; its secret rotated.
Entry(k, r) == [name |-> n1, key |-> k, role |-> r]
SomeFiles ==
    {[enabled |-> TRUE, auth |-> FALSE, keys |-> {}, loopback |-> TRUE],
     [enabled |-> FALSE, auth |-> FALSE, keys |-> {}, loopback |-> FALSE],
     [enabled |-> TRUE, auth |-> TRUE, keys |-> {Entry(s1, 1)}, loopback |-> FALSE],
     [enabled |-> TRUE, auth |-> TRUE, keys |-> {Entry(s1, 3)}, loopback |-> TRUE],
     [enabled |-> TRUE, auth |-> TRUE, keys |-> {Entry(s2, 3)}, loopback |-> FALSE]}

SessionSymmetry == Permutations(Token)
===============================================================================
