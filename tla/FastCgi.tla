------------------------------- MODULE FastCgi -------------------------------
(***************************************************************************)
(* do_fastcgi(): tipideed sends a request to a FastCGI application over a  *)
(* socket, all of it, and then reads the records of the answer one after   *)
(* the other and makes them the answer to the client.  Variables of the    *)
(* environment, bytes of the body and bytes of the answer are counted in   *)
(* units; records may be cut anywhere, the headers included.               *)
(***************************************************************************)
EXTENDS Naturals, Sequences

CONSTANTS
  Jobs,        \* the requests for applications that may be served
  Apps,        \* the applications that may serve them
  HeadLen,     \* the length of the headers of an answer
  EnvSize,     \* how many variables a FCGI_PARAMS record may hold
  RecordSize,  \* the largest record of the body, 0xffff
  SocketSize   \* how many records a socket holds in one direction

\* vars: the size of the environment.  len: bodylen.  finite: the timeout of the
\* exchange, read_timeout for a Unix socket and cgi_timeout for TCP, is finite.
Job == [vars: Nat, len: Nat, head: BOOLEAN, finite: BOOLEAN]

(***************************************************************************)
(* "out" is FCGI_STDOUT, with n units, 0 for the end of the stream; "err"  *)
(* is FCGI_STDERR; the next three are FCGI_END_REQUEST by what its         *)
(* protocolStatus says, "other" for a value that is not in FastCGI;        *)
(* "alien" is a record of another version, request or type.                *)
(***************************************************************************)
Record == [type: {"out", "err", "complete", "refused", "other", "alien"}, n: Nat]

\* reads, kind, sized, length and hangs as for a script; records is all that the
\* application has to say.
App ==
  [reads: {"first", "last", "never", "any"}, records: Seq(Record),
   kind: {"page", "redirect", "invalid", "garbage"}, sized: BOOLEAN, length: Nat,
   hangs: BOOLEAN]

ASSUME FastCgiAssumption ==
  /\ Jobs \subseteq Job
  /\ Apps \subseteq App
  /\ HeadLen \in Nat \ {0}
  /\ EnvSize \in Nat \ {0}
  /\ RecordSize \in Nat \ {0}
  /\ SocketSize \in Nat \ {0}

VARIABLES
  job, app,  \* chosen once
  pc,        \* what do_fastcgi() does; "returned" or "died" at its end
  left,      \* the variables, or units of the body, that are not sent yet
  fill,      \* the variables in the record that prepare_env() fills
  toapp,     \* the records on their way to the application
  open,      \* the socket is not closed
  seen,      \* how many records were read
  state,     \* 0 in the headers, 1 in the body, 2 after the end of FCGI_STDOUT
  taken,     \* the units of FCGI_STDOUT that were read
  sent,      \* w: the units of the body that were given to the client
  ended,     \* the last chunk was written
  ans,       \* the statuses answered
  put,       \* how many records the application has sent
  got,       \* the units it has read of each stream
  closed,    \* the streams of which it has read the end
  alive      \* it holds its end of the socket

requestvars == <<left, fill, toapp>>
answervars == <<seen, state, taken, sent, ended, ans>>
servervars == <<pc, open, requestvars, answervars>>
appvars == <<put, got, closed, alive>>
vars == <<job, app, servervars, appvars>>

Over == pc \in {"returned", "died"}
Least(a, b) == IF a < b THEN a ELSE b

\* The exit of the process closes the socket as well.
Open == open /\ pc # "died"

Return == pc' = "returned" /\ open' = FALSE
Die == pc' = "died" /\ UNCHANGED open
GoOn == UNCHANGED <<pc, open>>

\* die500*() and die502*(): an answer, unless it cannot be written, and the end.
DieWith(status) ==
  /\ Die
  /\ ans' = Append(ans, status)

-----------------------------------------------------------------------------
(* The request: nothing is read before all of it is sent. *)

Room == Len(toapp) < SocketSize
Send(stream, n) == toapp' = Append(toapp, [stream |-> stream, n |-> n])

Sending(where) ==
  /\ pc = where /\ alive /\ Room
  /\ UNCHANGED <<open, answervars>>

AddEnv_Overfull ==
  /\ Sending("params") /\ left > 0
  /\ left' = left - 1
  /\ IF fill <= EnvSize
     THEN fill' = fill + 1 /\ UNCHANGED toapp
     ELSE fill' = 1 /\ Send("params", fill)
  /\ UNCHANGED pc

AddEnv_NotAgain ==
  /\ Sending("params") /\ left > 0
  /\ left' = left - 1
  /\ IF fill < EnvSize
     THEN fill' = fill + 1 /\ UNCHANGED toapp
     ELSE fill' = 0 /\ Send("params", fill)
  /\ UNCHANGED pc

\* addenv(): when the variable does not fit, what was there before is sent.
AddEnv ==
  /\ Sending("params") /\ left > 0
  /\ left' = left - 1
  /\ IF fill < EnvSize
     THEN fill' = fill + 1 /\ UNCHANGED toapp
     ELSE fill' = 1 /\ Send("params", fill)
  /\ UNCHANGED pc

\* The end of prepare_env(): what is left, and an empty record.
EndEnv ==
  /\ Sending("params") /\ left = 0
  /\ fill' = 0
  /\ Send("params", fill)
  /\ IF fill > 0
     THEN UNCHANGED <<pc, left>>
     ELSE pc' = "stdin" /\ left' = job.len

Stdin_Truncated ==
  /\ Sending("stdin")
  /\ Send("stdin", Least(left, RecordSize))
  /\ left' = 0
  /\ pc' = IF left > 0 THEN "stdin" ELSE "read"
  /\ UNCHANGED fill

\* tipidee_fcgi_put(): records of RecordSize and one of what remains; an empty
\* one ends the stream.
Stdin ==
  /\ Sending("stdin")
  /\ Send("stdin", Least(left, RecordSize))
  /\ left' = left - Least(left, RecordSize)
  /\ pc' = IF left > 0 THEN "stdin" ELSE "read"
  /\ UNCHANGED fill

\* The application is gone, or the timeout has come.
SendFails ==
  /\ pc \in {"params", "stdin"}
  /\ ~alive \/ job.finite
  /\ DieWith(500)
  /\ UNCHANGED <<requestvars, seen, state, taken, sent, ended>>

SendRequest == AddEnv \/ EndEnv \/ Stdin \/ SendFails

-----------------------------------------------------------------------------
(* The answer. *)

\* cl: there is none, or it is 0, when the body is sent in chunks.
Chunked == ~app.sized \/ app.length = 0

WriteBody_Untruncated(n) ==
  /\ sent' = sent + n
  /\ ended' = (ended \/ (Chunked /\ n = 0))

WriteBody_EndsEarly(n) ==
  /\ sent' = IF Chunked THEN sent + n ELSE Least(sent + n, app.length)
  /\ ended' = (ended \/ (Chunked /\ n < RecordSize))

\* do_write(): an empty chunk is the last one.  What exceeds the Content-Length
\* is dropped.
WriteBody(n) ==
  /\ sent' = IF Chunked THEN sent + n ELSE Least(sent + n, app.length)
  /\ ended' = (ended \/ (Chunked /\ n = 0))

\* A record of n units of headers.  An empty one ends the stream for good.
MoreHeaders(n) ==
  /\ app.kind # "garbage" /\ taken + n < HeadLen
  /\ state' = IF n = 0 THEN 2 ELSE 0
  /\ GoOn /\ UNCHANGED <<sent, ended, ans>>

BadHeaders(n) ==
  /\ \/ app.kind = "garbage" /\ n > 0
     \/ app.kind = "invalid" /\ taken + n >= HeadLen
  /\ DieWith(502) /\ UNCHANGED <<state, sent, ended>>

RedirectHeaders_NotClosed(n) ==
  /\ app.kind = "redirect" /\ taken + n >= HeadLen
  /\ pc' = "returned" /\ UNCHANGED <<open, state, sent, ended, ans>>

RedirectHeaders(n) ==
  /\ app.kind = "redirect" /\ taken + n >= HeadLen
  /\ Return /\ UNCHANGED <<state, sent, ended, ans>>

\* The answer to HEAD leaves the socket open.
HeadPage(n) ==
  /\ app.kind = "page" /\ taken + n >= HeadLen /\ job.head
  /\ ans' = Append(ans, 200)
  /\ pc' = "returned"
  /\ UNCHANGED <<open, state, sent, ended>>

Page_RestLost(n) ==
  /\ app.kind = "page" /\ taken + n >= HeadLen /\ ~job.head
  /\ ans' = Append(ans, 200)
  /\ state' = 1
  /\ GoOn /\ UNCHANGED <<sent, ended>>

\* What follows the headers in their last record is the beginning of the body.
Page(n) ==
  /\ app.kind = "page" /\ taken + n >= HeadLen /\ ~job.head
  /\ ans' = Append(ans, 200)
  /\ state' = 1
  /\ IF taken + n > HeadLen THEN WriteBody(taken + n - HeadLen) ELSE UNCHANGED <<sent, ended>>
  /\ GoOn

Body(n) ==
  /\ WriteBody(n)
  /\ state' = IF n = 0 THEN 2 ELSE 1
  /\ GoOn /\ UNCHANGED ans

\* An empty record among the headers of garbage ends the stream like any other.
EmptyGarbage(n) ==
  /\ app.kind = "garbage" /\ n = 0
  /\ state' = 2
  /\ GoOn /\ UNCHANGED <<sent, ended, ans>>

Stdout(n) ==
  /\ taken' = taken + n
  /\ \/ /\ state = 0
        /\ \/ MoreHeaders(n) \/ BadHeaders(n) \/ EmptyGarbage(n)
           \/ RedirectHeaders(n) \/ HeadPage(n) \/ Page(n)
     \/ state = 1 /\ Body(n)
     \/ state = 2 /\ Die /\ UNCHANGED <<state, sent, ended, ans>>

\* FCGI_END_REQUEST has no branch of its own in the loop and takes the one of
\* the unsupported streams: an error, answered if no byte of a body was written.
EndRequest ==
  IF sent > 0 THEN Die /\ UNCHANGED ans ELSE DieWith(502)

\* tipidee_fcgi_read() and what is done with its result.  A protocolStatus that
\* does not exist returns 1, an empty record of FCGI_STDOUT, instead of -1.
ReadRecord ==
  /\ pc = "read" /\ seen < put
  /\ seen' = seen + 1
  /\ UNCHANGED requestvars
  /\ LET record == app.records[seen + 1]
     IN  \/ record.type = "out" /\ Stdout(record.n)
         \/ record.type = "other" /\ Stdout(0)
         \/ record.type = "err" /\ GoOn /\ UNCHANGED <<state, taken, sent, ended, ans>>
         \/ record.type = "complete" /\ EndRequest /\ UNCHANGED <<state, taken, sent, ended>>
         \/ /\ record.type \in {"refused", "alien"}
            /\ DieWith(502) /\ UNCHANGED <<state, taken, sent, ended>>

ReadFails_TimeoutOnly ==
  /\ pc = "read" /\ job.finite
  /\ DieWith(502)
  /\ UNCHANGED <<requestvars, seen, state, taken, sent, ended>>

\* An EOF before FCGI_END_REQUEST, or the timeout: 502, whatever was answered.
ReadFails ==
  /\ pc = "read"
  /\ (seen = put /\ ~alive) \/ job.finite
  /\ DieWith(502)
  /\ UNCHANGED <<requestvars, seen, state, taken, sent, ended>>

\* The client is gone, or does not read, when its answer is written.
ClientFails ==
  /\ pc = "read"
  /\ Die
  /\ UNCHANGED <<requestvars, answervars>>

DoFastcgi == SendRequest \/ ReadRecord \/ ReadFails

-----------------------------------------------------------------------------
(* The application. *)

AllSaid == put = Len(app.records)
HasRead == closed = <<"params", "stdin">>

MayRead == app.reads \in {"first", "any"} \/ (app.reads = "last" /\ AllSaid)
MayWrite == app.reads = "first" => HasRead

AppReads ==
  /\ alive /\ MayRead /\ toapp # <<>>
  /\ LET record == Head(toapp)
     IN  IF record.n > 0
         THEN got' = [got EXCEPT ![record.stream] = @ + record.n] /\ UNCHANGED closed
         ELSE closed' = Append(closed, record.stream) /\ UNCHANGED got
  /\ toapp' = Tail(toapp)
  /\ UNCHANGED <<put, alive, pc, open, left, fill, answervars>>

AppWrites ==
  /\ alive /\ MayWrite /\ ~AllSaid
  /\ Open /\ put - seen < SocketSize
  /\ put' = put + 1
  /\ UNCHANGED <<got, closed, alive, servervars>>

\* When it has no more to say, or finds that its peer is gone.
AppEnds ==
  /\ alive
  /\ \/ AllSaid /\ ~app.hangs /\ (app.reads \in {"first", "last"} => HasRead)
     \/ ~Open
  /\ alive' = FALSE
  /\ UNCHANGED <<put, got, closed, servervars>>

AppRuns == AppReads \/ AppWrites \/ AppEnds

-----------------------------------------------------------------------------
\* The socket is connected and FCGI_BEGIN_REQUEST in its way.
Init ==
  /\ job \in Jobs /\ app \in Apps
  /\ pc = "params" /\ left = job.vars /\ fill = 0 /\ toapp = <<>> /\ open = TRUE
  /\ seen = 0 /\ state = 0 /\ taken = 0 /\ sent = 0 /\ ended = FALSE /\ ans = <<>>
  /\ put = 0 /\ got = [stream \in {"params", "stdin"} |-> 0] /\ closed = <<>>
  /\ alive = TRUE

Stopped == Over /\ UNCHANGED <<servervars, appvars>>

Next ==
  /\ UNCHANGED <<job, app>>
  /\ \/ (DoFastcgi \/ ClientFails) /\ UNCHANGED appvars
     \/ AppRuns
     \/ Stopped

\* tipideed is driven by its events, its timeout being one.  An application goes
\* on.  Nothing says that a client fails.
Spec ==
  /\ Init /\ [][Next]_vars
  /\ WF_vars(DoFastcgi /\ UNCHANGED <<job, app, appvars>>)
  /\ WF_vars(AppRuns /\ UNCHANGED <<job, app>>)

-----------------------------------------------------------------------------
(* Properties. *)

TypeOK ==
  /\ job \in Jobs /\ app \in Apps
  /\ pc \in {"params", "stdin", "read", "returned", "died"}
  /\ left \in Nat /\ fill \in 0..EnvSize
  /\ toapp \in Seq([stream: {"params", "stdin"}, n: Nat])
  /\ put \in 0..Len(app.records) /\ seen \in 0..put /\ state \in {0, 1, 2}
  /\ taken \in Nat /\ sent \in Nat /\ ans \in Seq({200, 500, 502})
  /\ got \in [{"params", "stdin"} -> Nat] /\ closed \in Seq({"params", "stdin"})
  /\ {open, ended, alive} \subseteq BOOLEAN

\* The application has the environment and the body of the request, all of them
\* and in this order, when it reads the end of each: however prepare_env() and
\* tipidee_fcgi_put() cut them into records, none is empty before the end.
RequestIsWhole ==
  /\ closed \in {<<>>, <<"params">>, <<"params", "stdin">>}
  /\ closed # <<>> => got["params"] = job.vars
  /\ HasRead => got["stdin"] = job.len

BodyGiven ==
  LET body == IF taken > HeadLen THEN taken - HeadLen ELSE 0
  IN  pc = "read" =>
        sent = IF state = 0 \/ ans = <<>> THEN 0
               ELSE IF Chunked THEN body ELSE Least(body, app.length)

LastChunkIsTrue ==
  (\A i \in DOMAIN app.records : app.records[i].type # "other") =>
    (ended => \E i \in 1..seen : app.records[i].type = "out" /\ app.records[i].n = 0)

\* Wherever the records are cut, and whatever FCGI_STDERR brings in between, the
\* client has been given all of the body that was read, once, up to the
\* Content-Length; of the headers nothing.  The last chunk tells that nothing is
\* missing: the application has ended its FCGI_STDOUT.
NothingLost == BodyGiven /\ LastChunkIsTrue

\* The exchange ends, and so does the application: by itself with an application that
\* reads and ends as it should, and with any other when there is a timeout.  No
\* application is left with a socket that nobody reads or closes: its peer finds out,
\* but after HEAD.
Cooperative == app.reads \in {"first", "any"} /\ ~app.hangs
Served ==
  /\ (Cooperative \/ job.finite) ~> Over
  /\ (Over /\ ~job.head) ~> ~alive
=============================================================================
