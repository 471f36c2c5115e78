---------------------------- MODULE HttpExchange ----------------------------
(***************************************************************************)
(* What a client of one HTTP/1.x connection may count on, whatever the     *)
(* server serves: requests are taken from the connection one at a time,    *)
(* each is answered at most once and before the next one is taken, nothing *)
(* is taken or answered once the server has closed, and the server closes  *)
(* when it has answered the request that the client called its last.  The  *)
(* module Connection, which describes tipideed, is shown to implement it.  *)
(***************************************************************************)
EXTENDS Naturals, Sequences

VARIABLES
  taken,      \* how many requests the server has taken from the connection
  answers,    \* the numbers of the requests that were answered, in order
  last,       \* the client said of the request in progress that it is its last
  open        \* the server still holds the connection

vars == <<taken, answers, last, open>>

Init ==
  /\ taken = 0
  /\ answers = <<>>
  /\ last = FALSE
  /\ open = TRUE

\* Every request taken so far has its answer.
Idle == taken = 0 \/ \E i \in DOMAIN answers : answers[i] = taken

Take ==
  /\ open
  /\ Idle
  /\ taken' = taken + 1
  /\ last' \in BOOLEAN
  /\ UNCHANGED <<answers, open>>

\* A request so wrong that taking it and giving up on the client is one step,
\* with or without an answer.
Refuse ==
  /\ open
  /\ Idle
  /\ taken' = taken + 1
  /\ answers' \in {answers, Append(answers, taken')}
  /\ open' = FALSE
  /\ last' = FALSE

Answer ==
  /\ open
  /\ ~Idle
  /\ answers' = Append(answers, taken)
  /\ open' \in BOOLEAN
  /\ last => ~open'
  /\ last' = FALSE
  /\ UNCHANGED taken

\* The connection may be closed between two requests, or on a request that
\* cannot be answered.
Close ==
  /\ open
  /\ open' = FALSE
  /\ last' = FALSE
  /\ UNCHANGED <<taken, answers>>

Next == Take \/ Refuse \/ Answer \/ Close

Spec == Init /\ [][Next]_vars
=============================================================================
