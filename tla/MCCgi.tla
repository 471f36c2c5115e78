-------------------------------- MODULE MCCgi --------------------------------
(***************************************************************************)
(* Values for the constants of Cgi.                                        *)
(***************************************************************************)
EXTENDS Cgi

\* With pipes of 2 units and a buffer of 2: bodies that fit a pipe and that do
\* not, pages that end in the buffer, in the pipe and beyond it.
Jobs0 ==
  [len: {0, 3}, head: BOOLEAN, auto: BOOLEAN, finite: {{}, {"cgi"}, {"cgi", "write"}}]

Page(reads, out) ==
  [reads |-> reads, out |-> out, kind |-> "page", sized |-> FALSE, length |-> 0,
   bodyless |-> FALSE, hangs |-> FALSE, keeps |-> FALSE]

\* Every kind of output of a script that reads its body first.
Outputs ==
  {Page("first", n) : n \in {0, 1, 2, 5}}
    \cup {[Page("first", n) EXCEPT !.sized = TRUE, !.length = l] : n \in {2, 5}, l \in {0, 1, 3}}
    \cup {[Page("first", n) EXCEPT !.kind = k] : n \in {1, 4}, k \in {"redirect", "invalid", "garbage"}}
    \cup {[Page("first", 2) EXCEPT !.bodyless = TRUE]}

WellBehaved == Outputs \cup {[s EXCEPT !.reads = "any"] : s \in Outputs}

MCScripts ==
  WellBehaved
    \cup {[s EXCEPT !.hangs = TRUE] : s \in WellBehaved}
    \cup {[s EXCEPT !.keeps = TRUE] : s \in Outputs}
    \cup {[s EXCEPT !.reads = r] : s \in Outputs, r \in {"last", "never"}}

=============================================================================
