---------------------------- MODULE MCLogAggregate ----------------------------
(***************************************************************************)
(* Two numbers for the processes of two clients, and three URLs, of which  *)
(* two have a path with a double quote and are cut to the same text.       *)
(***************************************************************************)
EXTENDS LogAggregate

MCShown == [u1 |-> "t1", u2 |-> "t2", u3 |-> "t2"]
===============================================================================
