------------------------------ MODULE MCFastCgi ------------------------------
(***************************************************************************)
(* Values for the constants of FastCgi.                                    *)
(***************************************************************************)
EXTENDS FastCgi

\* With records of 2 variables and of 2 units of body: environments and bodies
\* that fill records to the last unit and that do not, and one that sockets of 2
\* records do not hold.
MCJobs ==
  {[vars |-> v, len |-> l, head |-> h, finite |-> f] :
     v \in {2}, l \in {0, 5}, h \in {FALSE}, f \in BOOLEAN}
    \cup {[vars |-> 3, len |-> 2, head |-> h, finite |-> FALSE] : h \in BOOLEAN}

Rec(type) == [type |-> type, n |-> 0]
Out(n) == [type |-> "out", n |-> n]

\* Headers of 2 units and a body, cut in several ways, and all the ways to end.
Beginnings ==
  {<<>>, <<Out(2)>>, <<Out(1), Rec("err"), Out(3)>>, <<Out(3), Out(2)>>}
Endings ==
  {<<>>, <<Out(0)>>, <<Out(0), Rec("complete")>>, <<Rec("complete")>>, <<Rec("refused")>>,
   <<Rec("other")>>, <<Rec("alien")>>, <<Out(0), Out(1)>>}

Says(reads, records) ==
  [reads |-> reads, records |-> records, kind |-> "page", sized |-> FALSE, length |-> 0,
   hangs |-> FALSE]

Pages == {Says("first", b \o e) : b \in Beginnings, e \in Endings}
Regular == {a \in Pages : \E b \in Beginnings : a.records = b \o <<Out(0), Rec("complete")>>}

MCApps ==
  Pages
    \cup {[a EXCEPT !.sized = TRUE, !.length = l] : a \in Pages, l \in {1, 3}}
    \cup {[a EXCEPT !.kind = k] : a \in Regular, k \in {"redirect", "invalid", "garbage"}}
    \cup {[a EXCEPT !.sized = TRUE] : a \in Regular}
    \cup {[a EXCEPT !.reads = r] : a \in Regular, r \in {"last", "never", "any"}}
    \cup {[a EXCEPT !.hangs = TRUE] : a \in Regular}
=============================================================================
