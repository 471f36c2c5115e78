------------------------------ MODULE MCSendFile ------------------------------
(***************************************************************************)
(* Values for the constants of SendFile.                                   *)
(***************************************************************************)
EXTENDS SendFile

Range(form, first, last) == [form |-> form, first |-> first, last |-> last]
NoRange == Range("none", 0, 0)

\* Every range over the positions of a file of 4 and the first beyond its end.
Ranges ==
  {NoRange, Range("bad", 0, 0)}
    \cup {Range("suffix", 0, l) : l \in {0, 1, 4, 5}}
    \cup {Range("open", f, 0) : f \in {0, 2, 3, 4}}
    \cup {Range("closed", f, l) : f \in {0, 2, 4}, l \in {1, 3, 4}}

Asks(h, f, r, t, c) == [head |-> h, fresh |-> f, range |-> r, finite |-> t, reads |-> c]

MCRequests ==
  {Asks(FALSE, FALSE, r, FALSE, TRUE) : r \in Ranges}
    \cup {Asks(h, f, NoRange, TRUE, c) : h, f, c \in BOOLEAN}

\* Files that are cut, or grow, under what was announced.
MCFiles ==
  {[is |-> "there", size |-> s] : s \in {0, 2, 4, 6}}
    \cup {[is |-> k, size |-> 4] : k \in {"barred", "gone"}}

AllBuilds == {"sendfile", "splice", "readv"}
===============================================================================
