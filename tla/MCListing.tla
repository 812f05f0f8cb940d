------------------------------- MODULE MCListing -------------------------------
(* A small instance of Listing for TLC: a queue whose name begins that of the
   other, jobs of several priorities, pages and examined stretches shorter than
   the keyspace. *)
EXTENDS Listing

Jobs ==
    {[id |-> <<1>>, queue |-> <<1>>, priority |-> 9],
     [id |-> <<2>>, queue |-> <<1>>, priority |-> 2],
     [id |-> <<3>>, queue |-> <<1, 1>>, priority |-> 2],
     [id |-> <<4>>, queue |-> <<1>>, priority |-> 2]}
===============================================================================
