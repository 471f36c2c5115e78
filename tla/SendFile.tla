------------------------------- MODULE SendFile -------------------------------
(***************************************************************************)
(* The end of serve(), respond_regular(), respond_partial() and            *)
(* send_file_range(): a file is looked at, opened, and sent to a client    *)
(* through a socket, while others may change it.  The unit of the file     *)
(* number p is the number p, from 1; the headers of an answer, and the     *)
(* page of an error, are one unit, the number 0.                           *)
(***************************************************************************)
EXTENDS Naturals, Sequences

CONSTANTS
  Requests,   \* the requests that may be served
  Builds,     \* the versions of send_file_range() that may be built
  Files,      \* what the path may name, at any time
  MaxEdits,   \* how often others change it
  HoldSize,   \* the size of the pipe of a splice, or of buffer_1
  SocketSize  \* the size of the socket

\* "suffix" is bytes=-last, "open" bytes=first-, "closed" bytes=first-last, "bad"
\* anything else, and "none" is no Range header.
RangeHeader == [form: {"none", "suffix", "open", "closed", "bad"}, first: Nat, last: Nat]

\* fresh: If-Modified-Since names a later time than the file's.  finite:
\* write_timeout is.  reads: the client takes all that it is sent, until it leaves.
Request ==
  [head: BOOLEAN, fresh: BOOLEAN, range: RangeHeader, finite: BOOLEAN, reads: BOOLEAN]

\* A file may exist and not be readable.
File == [is: {"there", "barred", "gone"}, size: Nat]

ASSUME SendFileAssumption ==
  /\ Requests \subseteq Request
  /\ Builds \subseteq {"sendfile", "splice", "readv"}
  /\ Files \subseteq File
  /\ MaxEdits \in Nat
  /\ HoldSize \in Nat \ {0, 1}
  /\ SocketSize \in Nat \ {0}

VARIABLES
  req, build,  \* chosen once
  file,        \* what the path names, or what is open
  edits,       \* how often it changed
  pc,          \* what tipideed does; "returned" or "died" at its end
  st,          \* the size that stat() found
  ans,         \* the status of the answer, 0 before
  pos,         \* how many units of the file are read or skipped
  n,           \* the units that are still to be read
  hold,        \* what the pipe or the buffer holds
  wire,        \* all that was written to the socket
  taken,       \* how much of it the client has taken
  left         \* the client is gone

sending == <<pos, n, hold, wire>>
server == <<pc, st, ans, sending>>
client == <<taken, left>>
vars == <<req, build, file, edits, server, client>>

Over == pc \in {"returned", "died"}
Least(a, b) == IF a < b THEN a ELSE b

\* The units that follow the first p of a file.
Units(p, k) == [i \in 1..k |-> p + i]

-----------------------------------------------------------------------------
(* tipidee_util_parse_range(): only the first range counts. *)

Accepted_EndIncluded(range, size) ==
  \/ range.form = "suffix" /\ range.last <= size
  \/ range.form = "open" /\ range.first < size
  \/ range.form = "closed" /\ range.first <= range.last /\ range.last <= size

\* A suffix that is longer than the file, or an end beyond it, is an error.
Accepted(range, size) ==
  \/ range.form = "suffix" /\ range.last <= size
  \/ range.form = "open" /\ range.first < size
  \/ range.form = "closed" /\ range.first <= range.last /\ range.last < size

RangeStart(range, size) == IF range.form = "suffix" THEN size - range.last ELSE range.first

RangeLength_EndExcluded(range, size) ==
  CASE range.form = "suffix" -> range.last
    [] range.form = "open" -> size - range.first
    [] range.form = "closed" -> range.last - range.first

RangeLength(range, size) ==
  CASE range.form = "suffix" -> range.last
    [] range.form = "open" -> size - range.first
    [] range.form = "closed" -> range.last + 1 - range.first

-----------------------------------------------------------------------------
(* The answer. *)

\* An answer that has nothing of the file.
Short(status) ==
  /\ ans' = status
  /\ hold' = <<0>>
  /\ pc' = "flush"
  /\ UNCHANGED <<pos, n, wire>>

Long(status) ==
  /\ ans' = status
  /\ pc' = "open"
  /\ UNCHANGED sending

\* The end of serve(): the first condition that holds decides.
Serve ==
  /\ pc = "stat"
  /\ st' = file.size
  /\ LET found == file.is # "gone"
         changed == found /\ ~req.fresh
         wanted == changed /\ ~req.head
         ranged == req.range.form # "none"
     IN  \/ ~found /\ Short(404)
         \/ found /\ req.fresh /\ Short(304)
         \/ changed /\ req.head /\ Short(200)
         \/ wanted /\ ~ranged /\ Long(200)
         \/ wanted /\ ranged /\ Accepted(req.range, file.size) /\ Long(206)
         \/ wanted /\ ranged /\ ~Accepted(req.range, file.size) /\ Short(416)

\* EACCES is an answer, any other error one that ends the process.
OpenFails ==
  /\ pc = "open"
  /\ \/ file.is = "barred" /\ Short(403)
     \/ file.is = "gone" /\ Short(500)
  /\ UNCHANGED st

Start == IF ans = 206 THEN RangeStart(req.range, st) ELSE 0
Length == IF ans = 206 THEN RangeLength(req.range, st) ELSE st

\* respond_regular() and respond_partial() write the headers from what stat() said.
\* With readv() they leave the buffer with the first of the file.
OpenFile ==
  /\ pc = "open" /\ file.is = "there"
  /\ pos' = Start /\ n' = Length
  /\ hold' = <<0>>
  /\ pc' = IF build = "readv" /\ Length > 0 THEN "fill" ELSE "flush"
  /\ UNCHANGED <<st, ans, wire>>

-----------------------------------------------------------------------------
(* Writing, and waiting for the socket. *)

Room == SocketSize - (Len(wire) - taken)
Full == Room = 0

Write(units) == wire' = wire \o units

Flush ==
  /\ pc = "flush" /\ hold # <<>> /\ ~left
  /\ \E k \in 1..Least(Len(hold), Room) :
       /\ Write(SubSeq(hold, 1, k))
       /\ hold' = SubSeq(hold, k + 1, Len(hold))
  /\ UNCHANGED <<pc, st, ans, pos, n>>

\* Where the loops of send_file_range() are left.
Flushed ==
  /\ pc = "flush" /\ hold = <<>>
  /\ pc' = CASE ans = 500 -> "died"
             [] ans # 500 /\ n = 0 -> "returned"
             [] ans # 500 /\ n > 0 -> IF build = "sendfile" THEN "wait" ELSE "fill"
  /\ UNCHANGED <<st, ans, sending>>

Waiting == (pc = "flush" /\ hold # <<>>) \/ pc = "wait"

Expires_InFlush ==
  /\ pc = "wait"
  /\ req.finite /\ Full /\ ~left
  /\ pc' = "died"
  /\ UNCHANGED <<st, ans, sending>>

\* buffer_timed_flush_g() or timed_flush_g() reaches its deadline.
Expires ==
  /\ Waiting
  /\ req.finite /\ Full /\ ~left
  /\ pc' = "died"
  /\ UNCHANGED <<st, ans, sending>>

\* EPIPE, after a wait that ends at once.
ClientGone ==
  /\ pc = "flush" /\ hold # <<>> /\ left
  /\ pc' = "died"
  /\ UNCHANGED <<st, ans, sending>>

-----------------------------------------------------------------------------
(* send_file_range() *)

AtEnd == file.size <= pos

Truncated_Ignored ==
  /\ pc = "fill" /\ AtEnd
  /\ pc' = "flush"
  /\ n' = 0
  /\ UNCHANGED <<st, ans, pos, hold, wire>>

Truncated ==
  /\ pc = "fill" /\ AtEnd
  /\ pc' = "died"
  /\ UNCHANGED <<st, ans, sending>>

\* splice() stops at n, at the size of the pipe, or before.
Splice ==
  /\ pc = "fill" /\ build = "splice" /\ ~AtEnd
  /\ \E k \in 1..Least(n, Least(HoldSize, file.size - pos)) :
       /\ hold' = Units(pos, k)
       /\ pos' = pos + k
       /\ n' = n - k
  /\ pc' = "flush"
  /\ UNCHANGED <<st, ans, wire>>

Readv_Elongated ==
  /\ pc = "fill" /\ build = "readv" /\ ~AtEnd
  /\ LET r == Least(HoldSize - Len(hold), file.size - pos)
     IN  /\ hold' = hold \o Units(pos, r)
         /\ pos' = pos + r
         /\ n' = n - Least(r, n)
  /\ pc' = "flush"
  /\ UNCHANGED <<st, ans, wire>>

\* allreadv() fills the buffer, or reads to the end of a file that has grown; what
\* exceeds n does not count.
Readv ==
  /\ pc = "fill" /\ build = "readv" /\ ~AtEnd
  /\ LET r == Least(HoldSize - Len(hold), file.size - pos)
     IN  /\ hold' = hold \o Units(pos, Least(r, n))
         /\ pos' = pos + r
         /\ n' = n - Least(r, n)
  /\ pc' = "flush"
  /\ UNCHANGED <<st, ans, wire>>

\* timed_flush_g() calls s_flush() when the socket takes something, or has failed.
Writable ==
  /\ pc = "wait"
  /\ ~Full \/ left
  /\ pc' = "send"
  /\ UNCHANGED <<st, ans, sending>>

Sendfile_Unbounded ==
  /\ pc = "send" /\ ~AtEnd /\ ~left /\ ~Full
  /\ \E k \in 1..Least(Room, file.size - pos) :
       /\ Write(Units(pos, k))
       /\ pos' = pos + k
       /\ n' = n - k
       /\ pc' = IF n = k THEN "returned" ELSE "send"
  /\ UNCHANGED <<st, ans, hold>>

\* s_flush(): sendfile() moves the offset, and the loop goes on until n is 0 or
\* there is an error.  At the end of the file sendfile() returns 0, and the loop
\* has no way out, so that it takes no step.
Sendfile ==
  /\ pc = "send" /\ ~AtEnd /\ ~left /\ ~Full
  /\ \E k \in 1..Least(n, Least(Room, file.size - pos)) :
       /\ Write(Units(pos, k))
       /\ pos' = pos + k
       /\ n' = n - k
       /\ pc' = IF n = k THEN "returned" ELSE "send"
  /\ UNCHANGED <<st, ans, hold>>

\* EAGAIN goes back to the wait, EPIPE ends the process.
SendfileFails ==
  /\ pc = "send" /\ ~AtEnd
  /\ \/ left /\ pc' = "died"
     \/ ~left /\ Full /\ pc' = "wait"
  /\ UNCHANGED <<st, ans, sending>>

Respond == Serve \/ OpenFails \/ OpenFile
SendFileRange == Truncated \/ Splice \/ Readv \/ Writable \/ Sendfile \/ SendfileFails
Runs == Respond \/ Flush \/ Flushed \/ Expires \/ ClientGone \/ SendFileRange

-----------------------------------------------------------------------------
(* The others. *)

Takes ==
  /\ ~left /\ taken < Len(wire)
  /\ taken' = taken + 1
  /\ UNCHANGED left

Leaves ==
  /\ ~left
  /\ left' = TRUE
  /\ UNCHANGED taken

\* Another file takes the place of this one, or it is cut or grows.  What happens
\* to the path does not matter once the file is open.
Edit ==
  /\ ~Over /\ edits < MaxEdits
  /\ edits' = edits + 1
  /\ file' \in Files \ {file}
  /\ pc \notin {"stat", "open"} => file'.is = file.is

Init ==
  /\ req \in Requests /\ build \in Builds /\ file \in Files
  /\ edits = 0
  /\ pc = "stat" /\ st = 0 /\ ans = 0
  /\ pos = 0 /\ n = 0 /\ hold = <<>> /\ wire = <<>>
  /\ taken = 0 /\ left = FALSE

Next ==
  /\ UNCHANGED <<req, build>>
  /\ \/ Runs /\ UNCHANGED <<file, edits, client>>
     \/ (Takes \/ Leaves) /\ UNCHANGED <<file, edits, server>>
     \/ Edit /\ UNCHANGED <<server, client>>

\* tipideed runs; a client that reads goes on.
Spec ==
  /\ Init /\ [][Next]_vars
  /\ WF_vars(Runs /\ UNCHANGED <<req, build, file, edits, client>>)
  /\ WF_vars(req.reads /\ Takes /\ UNCHANGED <<req, build, file, edits, server>>)

-----------------------------------------------------------------------------
(* What is checked. *)

TypeOK ==
  /\ req \in Request
  /\ build \in {"sendfile", "splice", "readv"}
  /\ file \in File /\ edits \in 0..MaxEdits
  /\ pc \in {"stat", "open", "fill", "flush", "wait", "send", "returned", "died"}
  /\ st \in Nat /\ ans \in {0, 200, 206, 304, 403, 404, 416, 500}
  /\ pos \in Nat /\ n \in Nat
  /\ hold \in Seq(Nat) /\ wire \in Seq(Nat)
  /\ taken \in Nat /\ left \in BOOLEAN

\* What the answer promises of the file, by what its headers say: the units
\* between two ends, all of them, or none.
Promised ==
  LET range == req.range
  IN  CASE ans = 206 ->
             {p \in 1..st :
                /\ range.form = "suffix" => p + range.last > st
                /\ range.form # "suffix" => p > range.first
                /\ range.form = "closed" => p <= range.last + 1}
        [] ans = 200 /\ ~req.head -> 1..st
        [] OTHER -> {}

\* The client is given the headers, then units of the file that were promised, in
\* order and without a hole, whatever happens to the file while it is sent
\* (respond_regular, respond_partial, send_file_range).
InPlace ==
  \A i \in 1..Len(wire) :
    /\ i = 1 => wire[i] = 0
    /\ i > 1 => wire[i] \in Promised
    /\ i > 2 => wire[i] = wire[i - 1] + 1

\* When tipideed goes on with the connection, after a file or a part of one, the
\* client was given all that the Content-Length promised: what it reads next is
\* the next answer (the loops of send_file_range(), and what ends the process).
WholeIfKept ==
  pc = "returned" => \A p \in Promised : \E i \in 2..Len(wire) : wire[i] = p

\* The process only ends, once it has answered something else than 500, because
\* the client has left, because its time is over while the socket is full, or
\* because the file has changed: the announced range is always there to be sent.
EndsForCause ==
  [][pc' = "died" /\ pc # "died" => ans = 500 \/ left \/ (req.finite /\ Full) \/ edits > 0]_vars

\* sendfile() was called at the end of the file: nothing more can come of it.
Spins == pc = "send" /\ AtEnd

\* A client that takes what it is sent, and one that does not when write_timeout
\* is set, is done with, except with sendfile() and a file that was cut.
Served == req.finite \/ req.reads => <>(pc \in {"returned", "died"}) \/ <>[]Spins

===============================================================================
