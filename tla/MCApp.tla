------------------------------- MODULE MCApp -------------------------------
(* The life of the process with one scrape and two things that go wrong, and *)
(* what a scrape shows of up to three writes while nothing stops.            *)
EXTENDS Application

MCBudgets ==
  {[calls |-> 2, faults |-> 2, signals |-> 1, scrapes |-> 1, writes |-> 0],
   [calls |-> 1, faults |-> 0, signals |-> 0, scrapes |-> 1, writes |-> 3]}
=============================================================================
