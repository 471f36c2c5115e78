----------------------------- MODULE Connection -----------------------------
(***************************************************************************)
(* One tipideed process and its client: the request loop of main() with    *)
(* every way out of it, the dispatch of serve(), and what is written on    *)
(* the connection and in the log for each request.  Requests are records   *)
(* of the facts the code branches on; what the file system, the scripts    *)
(* and the FastCGI applications do is chosen anew on every serve().        *)
(***************************************************************************)
EXTENDS Naturals, Sequences

CONSTANTS
  Requests,      \* the requests the client may send
  MaxRequests,   \* how many it sends at most (bounds the model)
  Targets,       \* what a path may lead to
  CgiRuns,       \* what running a script may give
  FcgiReplies,   \* what a FastCGI application may do
  ErrorPages,    \* what may stand for the text of an error
  Timeouts,      \* which of read_timeout and write_timeout are finite
  MaxRedirs,     \* MAX_LOCALREDIRS
  NoRequest      \* the value of rql between two requests

BodyMethods == {"POST", "PUT", "PATCH"}
Methods == BodyMethods \cup {"GET", "HEAD", "DELETE", "TRACE", "OPTIONS", "OPTIONS*", "CONNECT"}

(***************************************************************************)
(* A request, reduced to what the code tells apart.  line: "long" does not *)
(* fit URI_BUFSIZE (a line that EOF cuts short ends the same way), "major" *)
(* is not HTTP/1.x, "minor" is HTTP/1.2 or above.                          *)
(* "OPTIONS*" is OPTIONS with the asterisk form, CONNECT also stands for   *)
(* PRI.  cl: "big" is above max_request_body_length.  chunks: what follows *)
(* the headers of a chunked request, by what its first size is when it is  *)
(* read as a decimal number ("data": the size of the chunk or no number,   *)
(* "short": less than the chunk has, "big": above the limit).              *)
(***************************************************************************)
Request ==
  [line: {"ok", "bad", "long", "major", "minor"}, minor: {0, 1}, m: Methods,
   headers: {"ok", "bad", "big"}, conn: {"none", "close", "keep-alive"},
   te: {"none", "chunked", "other"}, cl: {"none", "zero", "some", "big", "bad"},
   chunks: {"empty", "data", "short", "big"}, host: {"ok", "bad", "none"}]

Target ==
  {"lookuperror", "redirect", "rproxy", "fastcgi", "absent", "denied",
   "longname", "broken", "layout", "directory", "file", "fileinfo", "cgi", "nph"}

\* kind: "page" is a full answer, "cut" one that stops short of what it said.
\* bodyless: its status is 204 or 304.  auto: the autochunk attribute.
CgiRun ==
  {run \in [kind: {"page", "cut", "localredirect", "invalid", "timeout", "nospawn"},
            cl: {"none", "zero", "some"}, bodyless: BOOLEAN, auto: BOOLEAN] :
     /\ run.bodyless => run.kind = "page" /\ run.cl = "none"
     /\ run.kind = "cut" => run.cl = "some" \/ (run.cl = "none" /\ run.auto)
     /\ run.kind \notin {"page", "cut"} => run.cl = "none" /\ ~run.auto}

FcgiReply ==
  {"noconnect", "refuse", "invalid", "localredirect", "mute", "chunks", "length",
   "noeof", "cut", "nodata", "zero", "bodyless", "empty", "broken"}

\* The text made for the status, or a custom-response file; "outside": the
\* docroot is a link that leads out of the server's root.
ErrorPage == {"text", "file", "outside"}

ASSUME ConnectionAssumption ==
  /\ Requests \subseteq Request
  /\ MaxRequests \in Nat
  /\ Targets \subseteq Target
  /\ CgiRuns \subseteq CgiRun
  /\ FcgiReplies \subseteq FcgiReply
  /\ ErrorPages \subseteq ErrorPage
  /\ Timeouts \subseteq {"read", "write"}
  /\ MaxRedirs \in Nat
  /\ NoRequest \notin Request

VARIABLES
  client,    \* "open", "shut" (sends nothing more) or "gone" (reads nothing more)
  begun,     \* how many requests the client has begun to send, or hidden in a body
  rest,      \* the parts of the last of them it has still to send
  net,       \* the parts sent and not read by tipideed yet
  phase,     \* what main() waits for or does; see Phases
  cont,      \* g.cont
  rql,       \* the request in progress
  asked,     \* its number: how many request lines were read
  body,      \* the number of the request whose body is in bodysa, 0 when empty
  redirs,    \* localredirs
  exit,      \* the exit code
  out,       \* the answers written on the connection
  log,       \* the request, answer and exit lines logged
  astray     \* history: a chunked body was taken to end where it does not

clientvars == <<client, begun, rest>>
vars == <<client, begun, rest, net, phase, cont, rql, asked, body, redirs, exit, out, log, astray>>

\* "blocked": in a write without a deadline, to a client that reads nothing.
\* "copying": in a copy of a script's page that no deadline ends, to such a client.
\* "raw": the connection is in the hands of an NPH script or a remote server.
\* "spinning": in the loop around sendfile() for a file that has shrunk.
Phases == {"line", "headers", "body", "serve", "blocked", "copying", "raw", "spinning", "exited"}
Frames == {"none", "length", "chunked", "eof"}
Part == [part: {"line", "headers", "body"}, rq: Requests]
Answer == [n: Nat, status: Nat, close: BOOLEAN, frame: Frames, whole: BOOLEAN, stray: BOOLEAN]
LogLine == [what: {"request", "answer", "exit"}, n: Nat, status: Nat]

-----------------------------------------------------------------------------
(* The client. *)

\* What the client sends after the headers: it frames its body as chunks when
\* it says so, by Content-Length otherwise.
HasBody(r) == r.te # "none" \/ r.cl \in {"some", "big"}

LineOf(r) == [part |-> "line", rq |-> r]
HeadersOf(r) == [part |-> "headers", rq |-> r]
BodyOf(r) == [part |-> "body", rq |-> r]

RestOf(r) == IF HasBody(r) THEN <<HeadersOf(r), BodyOf(r)>> ELSE <<HeadersOf(r)>>

\* Requests may be pipelined: the client does not wait for answers.
ClientAsk(r) ==
  /\ client = "open" /\ phase # "exited"
  /\ rest = <<>> /\ begun < MaxRequests
  /\ begun' = begun + 1
  /\ net' = Append(net, LineOf(r))
  /\ rest' = RestOf(r)
  /\ UNCHANGED <<client, phase, cont, rql, asked, body, redirs, exit, out, log, astray>>

ClientSend ==
  /\ client = "open" /\ phase # "exited"
  /\ rest # <<>>
  /\ net' = Append(net, Head(rest))
  /\ rest' = Tail(rest)
  /\ UNCHANGED <<client, begun, phase, cont, rql, asked, body, redirs, exit, out, log, astray>>

\* At any moment the client stops sending, or leaves altogether.
ClientLeave ==
  /\ phase # "exited"
  /\ \/ client = "open" /\ client' = "shut"
     \/ client \in {"open", "shut"} /\ client' = "gone"
  /\ UNCHANGED <<begun, rest, net, phase, cont, rql, asked, body, redirs, exit, out, log, astray>>

Client == ClientSend \/ ClientLeave \/ \E r \in Requests : ClientAsk(r)

-----------------------------------------------------------------------------
(* Answers, log lines, and the ways a request ends. *)

Resp(n, status, close, frame) ==
  [n |-> n, status |-> status, close |-> close, frame |-> frame, whole |-> TRUE, stray |-> FALSE]

\* Stopped short of its end, or (if more) followed by bytes of no answer.
Cut(answer) == [answer EXCEPT !.whole = FALSE]
Stray(answer, more) == [answer EXCEPT !.stray = more]

\* The answer to HEAD has no body, whatever its headers say.
Framed(r, frame) == IF r.m = "HEAD" THEN "none" ELSE frame

Line(what, n, status) == [what |-> what, n |-> n, status |-> status]

Answered(status) == <<Line("answer", asked, status)>>

\* An answer to rql that closes when the connection will not be kept.
Normal(status, frame) == Resp(asked, status, cont = 0, Framed(rql, frame))

\* What the next iteration of "while (g.cont)" starts with: an empty bodysa.
NextIteration_BodyKept == rql' = NoRequest /\ redirs' = 0 /\ UNCHANGED body

NextIteration == rql' = NoRequest /\ redirs' = 0 /\ body' = 0

Loop(answers, lines, c) ==
  /\ out' = out \o answers
  /\ cont' = c
  /\ NextIteration
  /\ IF c = 0
     THEN /\ phase' = "exited"
          /\ exit' = 0
          /\ log' = log \o lines \o <<Line("exit", 0, 0)>>
     ELSE /\ phase' = "line"
          /\ log' = log \o lines
          /\ UNCHANGED exit

LogAndExit(answers, lines, e) ==
  /\ out' = out \o answers
  /\ phase' = "exited"
  /\ exit' = e
  /\ log' = log \o lines \o <<Line("exit", 0, e)>>
  /\ UNCHANGED <<cont, rql, body, redirs>>

\* strerr_die, exec and _exit() leave no exit line.
Die(answers, lines, e) ==
  /\ out' = out \o answers
  /\ phase' = "exited"
  /\ exit' = e
  /\ log' = log \o lines
  /\ UNCHANGED <<cont, rql, body, redirs>>

Unwritable == client = "gone" \/ "write" \in Timeouts

\* The process goes no further by itself.
Waits(where, lines) ==
  /\ phase' = where
  /\ log' = log \o lines
  /\ UNCHANGED <<cont, rql, body, redirs, exit, out>>

CannotWrite_Ignored(lines) == Unwritable /\ Loop(<<>>, lines, cont)

\* "write to stdout" fails once the client is gone, or when it has not read for
\* too long, and waits for a client that reads nothing without a write_timeout;
\* the answer is logged before.  What went through of it is no answer.
CannotWrite(lines) ==
  \/ Unwritable /\ Die(<<>>, lines, 111)
  \/ ~Unwritable /\ Waits("blocked", lines)

Reply(answer, lines, c) == Loop(<<answer>>, lines, c) \/ CannotWrite(lines)
ReplyAndExit(answer, lines, e) == LogAndExit(<<answer>>, lines, e) \/ CannotWrite(lines)
ReplyAndDie(answer, lines, e) == Die(<<answer>>, lines, e) \/ CannotWrite(lines)

EarlyError_Kept(n, r, status) ==
  Reply(Resp(n, status, TRUE, Framed(r, "length")), <<>>, 1)

EarlyError_Logged(n, r, status) ==
  ReplyAndExit(Resp(n, status, TRUE, Framed(r, "length")), <<Line("answer", n, status)>>, 1)

\* Before the docroot is known: always Connection: close, and not logged.
EarlyError(n, r, status) ==
  ReplyAndExit(Resp(n, status, TRUE, Framed(r, "length")), <<>>, 1)

ErrorAnswer_NoOption(status, option, page) ==
  Stray(Resp(asked, status, cont = 0, Framed(rql, "length")), page = "file" /\ rql.m = "HEAD")

\* With a custom-response file only the caller's option decides on Connection:
\* close, and the file is sent for HEAD as well.
ErrorAnswer(status, option, page) ==
  Stray(Resp(asked, status, option \/ (page = "text" /\ cont = 0), Framed(rql, "length")),
        page = "file" /\ rql.m = "HEAD")

\* The file is cut short while it is sent (see File), or there is no docroot to
\* look it up.
ErrorFails(status, option) ==
  \/ /\ "file" \in ErrorPages
     /\ \/ Die(<<Cut(ErrorAnswer(status, option, "file"))>>, Answered(status), 111)
        \/ Waits("spinning", Answered(status))
  \/ "outside" \in ErrorPages /\ Die(<<>>, <<>>, 102)

Pages == ErrorPages \ {"outside"}

ErrorAndLoop_ContLost(status) ==
  \E page \in Pages : Reply(ErrorAnswer(status, FALSE, page), Answered(status), 1)

ErrorAndLoop(status) ==
  \/ \E page \in Pages : Reply(ErrorAnswer(status, FALSE, page), Answered(status), cont)
  \/ ErrorFails(status, FALSE)

ErrorAndExit(status) ==
  \/ \E page \in Pages : ReplyAndExit(ErrorAnswer(status, TRUE, page), Answered(status), 0)
  \/ ErrorFails(status, TRUE)

ErrorAndDie(status, e) ==
  \/ \E page \in Pages : ReplyAndDie(ErrorAnswer(status, TRUE, page), Answered(status), e)
  \/ ErrorFails(status, TRUE)

-----------------------------------------------------------------------------
(* The head of a request. *)

\* Nothing more will come: EOF, or the deadline of the request has passed.
Eof == net = <<>> /\ client # "open"
TimedOut == net = <<>> /\ client = "open" /\ "read" \in Timeouts

\* Line "bad": bytes that are no request line.
TakeLine(r, line) ==
  \/ /\ line = "ok"
     /\ phase' = "headers"
     /\ rql' = r
     /\ UNCHANGED <<cont, body, redirs, exit, out, log>>
  \/ line \in {"bad", "minor"} /\ EarlyError(asked + 1, r, 400)
  \/ line \in {"long", "major"} /\ LogAndExit(<<>>, <<>>, 1)

\* What is left of a body may hold the whole of another request, and more.
ReadLine ==
  /\ phase = "line" /\ net # <<>>
  /\ asked' = asked + 1
  /\ UNCHANGED <<client, rest, astray>>
  /\ LET part == Head(net)
     IN  \/ /\ net' = Tail(net) /\ UNCHANGED begun
            /\ TakeLine(part.rq, IF part.part = "line" THEN part.rq.line ELSE "bad")
         \/ /\ part.part = "body" /\ begun < MaxRequests
            /\ begun' = begun + 1
            /\ \E r \in Requests, left \in {net, Tail(net)} :
                 net' = RestOf(r) \o left /\ TakeLine(r, r.line)

\* Between two requests neither EOF nor the timeout is an error.
EndOfRequests_ContKept ==
  /\ phase = "line"
  /\ Eof \/ TimedOut
  /\ Loop(<<>>, <<>>, cont)
  /\ UNCHANGED <<clientvars, net, asked, astray>>

EndOfRequests ==
  /\ phase = "line"
  /\ Eof \/ TimedOut
  /\ Loop(<<>>, <<>>, 0)
  /\ UNCHANGED <<clientvars, net, asked, astray>>

\* A connection reset by the client may take what was not read yet with it.
ReadError ==
  /\ phase = "line" /\ client = "gone"
  /\ LogAndExit(<<>>, <<>>, 1)
  /\ UNCHANGED <<clientvars, net, asked, astray>>

NextCont_BitAdded(r) ==
  IF r.minor = 0 \/ r.conn = "close" THEN 0 ELSE IF r.conn = "keep-alive" THEN cont + 2 ELSE cont

NextCont(r) ==
  IF r.minor = 0 \/ r.conn = "close" THEN 0 ELSE IF r.conn = "keep-alive" THEN 2 ELSE cont

\* Transfer-Encoding wins over Content-Length, but does not exist in HTTP/1.0.
Coding(r) ==
  IF r.minor = 1 /\ r.te # "none" THEN "chunked"
  ELSE IF r.cl \in {"some", "big"} THEN "fixed" ELSE "none"

BadFraming_AnyMethod(r) ==
  \/ r.minor = 1 /\ r.te = "other"
  \/ ~(r.minor = 1 /\ r.te # "none") /\ r.cl = "bad"

BadFraming(r) ==
  \/ r.minor = 1 /\ r.te = "other"
  \/ ~(r.minor = 1 /\ r.te # "none") /\ r.cl = "bad"
  \/ Coding(r) # "none" /\ r.m \notin BodyMethods

BadHost(r) == r.host = "bad" \/ (r.host = "none" /\ r.minor = 1)

\* The first check that fails, 0 if none does.  OPTIONS * is answered before
\* the Host header is looked at.
HeadersFault(r) ==
  IF r.headers = "big" THEN 413
  ELSE IF r.headers = "bad" \/ BadFraming(r) THEN 400
  ELSE IF r.m = "CONNECT" THEN 501
  ELSE IF r.m # "OPTIONS*" /\ BadHost(r) THEN 400
  ELSE 0

ReadHeaders ==
  /\ phase = "headers" /\ net # <<>>
  /\ net' = Tail(net)
  /\ UNCHANGED <<clientvars, asked, astray>>
  /\ LET fault == HeadersFault(rql)
         c == NextCont(rql)
         request == <<Line("request", asked, 0)>>
     IN  \/ fault # 0 /\ EarlyError(asked, rql, fault)
         \/ /\ fault = 0 /\ rql.m = "OPTIONS*"
            /\ Reply(Resp(asked, 200, FALSE, "length"), <<>>, c)
         \/ /\ fault = 0 /\ rql.m = "TRACE"
            /\ Reply(Resp(asked, 200, FALSE, "length"), request \o Answered(200), c)
         \/ /\ fault = 0 /\ rql.m \notin {"OPTIONS*", "TRACE"}
            /\ phase' = IF Coding(rql) = "none" THEN "serve" ELSE "body"
            /\ cont' = c
            /\ log' = log \o request
            /\ UNCHANGED <<rql, body, redirs, exit, out>>

HeadersEnd_EofOnly ==
  /\ phase = "headers"
  /\ Eof
  /\ EarlyError(asked, rql, 400)
  /\ UNCHANGED <<clientvars, net, asked, astray>>

\* The header automaton takes a read that returns 0, be it EOF or the deadline,
\* for a NUL character: a syntax error.
HeadersEnd ==
  /\ phase = "headers"
  /\ Eof \/ TimedOut
  /\ EarlyError(asked, rql, 400)
  /\ UNCHANGED <<clientvars, net, asked, astray>>

-----------------------------------------------------------------------------
(* The request body, read whole before anything is served. *)

\* A body that the client sent in chunks on HTTP/1.0 is not at its end after
\* Content-Length bytes of it.
ReadFixedBody ==
  /\ phase = "body" /\ Coding(rql) = "fixed"
  /\ UNCHANGED <<clientvars, asked, astray>>
  /\ \/ rql.cl = "big" /\ ErrorAndExit(413) /\ UNCHANGED net
     \/ /\ rql.cl = "some" /\ net # <<>>
        /\ net' = IF rql.te = "none" THEN Tail(net) ELSE net
        /\ body' = asked
        /\ phase' = "serve"
        /\ UNCHANGED <<cont, rql, redirs, exit, out, log>>
     \/ rql.cl = "some" /\ Eof /\ ErrorAndExit(400) /\ UNCHANGED net
     \/ rql.cl = "some" /\ TimedOut /\ ErrorAndExit(408) /\ UNCHANGED net

\* How many parts a reader of too short chunks may have read to an empty line
\* that follows a size of 0: none, while it is still in the body.
ChunkStops == {n \in 0..Len(net) : n > 0 => net[n].part # "line"}

\* The decoder does not skip the line end that follows the data of a chunk and
\* fails on it.  It goes on when it takes the sizes for less than they are, and
\* then reads its size lines out of the data: it fails on them, or the body ends
\* wherever they say.  Whether ETIMEDOUT is a temporary error is the library's
\* choice.
ReadChunkedBody ==
  /\ phase = "body" /\ Coding(rql) = "chunked"
  /\ UNCHANGED <<clientvars, asked>>
  /\ \/ /\ net # <<>> /\ rql.chunks = "empty"
        /\ net' = Tail(net)
        /\ phase' = "serve"
        /\ UNCHANGED <<cont, rql, body, redirs, exit, out, log, astray>>
     \/ /\ net # <<>> /\ rql.chunks = "short"
        /\ \E n \in ChunkStops :
             net' = SubSeq(net, n + 1, Len(net)) /\ astray' = (astray \/ n # 1)
        /\ body' = asked
        /\ phase' = "serve"
        /\ UNCHANGED <<cont, rql, redirs, exit, out, log>>
     \/ /\ net # <<>>
        /\ net' = Tail(net)
        /\ UNCHANGED astray
        /\ \/ rql.chunks \in {"data", "short"} /\ ErrorAndExit(400)
           \/ rql.chunks \in {"big", "short"} /\ ErrorAndExit(413)
     \/ Eof /\ ErrorAndExit(400) /\ UNCHANGED <<net, astray>>
     \/ TimedOut /\ (ErrorAndExit(400) \/ ErrorAndDie(500, 111)) /\ UNCHANGED <<net, astray>>

-----------------------------------------------------------------------------
(* serve(): one disjunct for each thing the path may lead to. *)

Leads(t) == t \in Targets
IsGetOrHead(r) == r.m \in {"GET", "HEAD"}

\* Redirections are looked up first, except for OPTIONS.
Redirect ==
  /\ Leads("redirect") /\ rql.m # "OPTIONS"
  /\ Reply(Resp(asked, 308, FALSE, Framed(rql, "length")), Answered(308), cont)

\* (308 stands for the four statuses a redirection may have.)
\* force_redirect() sends a directory without its slash to the same place.
Directory ==
  /\ Leads("directory")
  /\ Reply(Resp(asked, 308, FALSE, Framed(rql, "length")), Answered(308), cont)

Absent == Leads("absent") /\ ErrorAndLoop(404)
Denied == Leads("denied") /\ ErrorAndLoop(403)
LongName == Leads("longname") /\ ErrorAndLoop(414)

\* A failed system call, or a document tree the configuration forbids.
Broken ==
  \/ Leads("lookuperror") /\ rql.m # "OPTIONS" /\ ErrorAndDie(500, 111)
  \/ Leads("broken") /\ ErrorAndDie(500, 111)
  \/ Leads("layout") /\ ErrorAndDie(500, 102)

\* A file followed by a PATH_INFO exists for scripts only; that is checked
\* before the method.
FileInfo == Leads("fileinfo") /\ ErrorAndLoop(404)

FileMethod ==
  /\ Leads("file")
  /\ ~IsGetOrHead(rql) /\ rql.m # "OPTIONS"
  /\ ErrorAndExit(405)

Options ==
  /\ \E t \in {"file", "cgi", "nph"} : Leads(t)
  /\ rql.m = "OPTIONS"
  /\ Reply(Resp(asked, 200, FALSE, "length"), Answered(200), cont)

NotModified ==
  /\ Leads("file") /\ IsGetOrHead(rql)
  /\ Reply(Normal(304, "none"), Answered(304), cont)

\* Whole or by range.  For a file that shrinks while it is sent, sendfile() has
\* nothing more to give, again and again; with splice() or read() it is an error.
File ==
  /\ Leads("file") /\ IsGetOrHead(rql)
  /\ \E status \in (IF rql.m = "HEAD" THEN {200} ELSE {200, 206}) :
       \/ Reply(Normal(status, "length"), Answered(status), cont)
       \/ /\ rql.m = "GET"
          /\ \/ Die(<<Cut(Normal(status, "length"))>>, Answered(status), 111)
             \/ Waits("spinning", Answered(status))

\* The file was there for stat() and cannot be opened, or the range is not in it.
FileRefused ==
  /\ Leads("file") /\ rql.m = "GET"
  /\ ErrorAndLoop(403) \/ ErrorAndLoop(416) \/ ErrorAndDie(500, 111)

\* tipideed becomes an NPH script, or copies what a remote server says.
Nph ==
  /\ Leads("nph") /\ rql.m # "OPTIONS"
  /\ Waits("raw", <<>>) \/ ErrorAndDie(500, 111)

Rproxy ==
  /\ Leads("rproxy") /\ rql.m # "OPTIONS"
  /\ Waits("raw", <<>>) \/ ErrorAndDie(500, 111)

CgiPage_LengthIgnored(run) ==
  Normal(200, IF run.auto /\ rql.minor = 1 THEN "chunked" ELSE "eof")

\* How the answer to a script's page is framed: chunks for an HTTP/1.1 client
\* when autochunk is set, whatever the status; else nothing but the close.
CgiPage(run) ==
  LET auto == run.auto /\ rql.minor = 1
  IN  IF run.cl # "none" THEN Normal(200, "length")
      ELSE IF run.bodyless THEN Stray(Normal(304, "none"), auto /\ rql.m # "HEAD")
      ELSE Normal(200, IF auto THEN "chunked" ELSE "eof")

\* stream_fixed() and stream_infinite() have no working deadline for the client.
Copied(run) ==
  rql.m # "HEAD" /\ (run.cl = "some" \/ (run.cl = "none" /\ ~(run.auto /\ rql.minor = 1)))

\* The script is run with the body, its headers are read and its output is
\* copied.  One that stops short of its Content-Length, or whose pipe fails
\* between two chunks, ends the process.
Cgi(run) ==
  /\ Leads("cgi") /\ rql.m # "OPTIONS"
  /\ \/ run.kind = "nospawn" /\ ErrorAndDie(500, 111)
     \/ run.kind = "invalid" /\ ErrorAndDie(502, 2)
     \/ run.kind = "timeout" /\ ErrorAndLoop(504)
     \/ LET page == CgiPage(run)
            lines == Answered(page.status)
        IN  \/ /\ run.kind = "page" \/ rql.m = "HEAD"
               /\ run.kind \in {"page", "cut"}
               /\ Reply(page, lines, cont)
            \/ /\ run.kind \in {"page", "cut"} /\ Copied(run)
               /\ client # "gone" /\ Waits("copying", lines)
            \/ /\ run.kind = "cut" /\ rql.m # "HEAD"
               /\ Die(<<Cut(page)>>, lines, 111)

LocalRedirect_Unlimited(run) ==
  /\ Leads("cgi") /\ rql.m # "OPTIONS"
  /\ run.kind = "localredirect"
  /\ redirs' = (redirs + 1) % (MaxRedirs + 1)
  /\ UNCHANGED <<phase, cont, rql, body, exit, out, log>>

LocalRedirect_Answering(run) ==
  /\ Leads("cgi") /\ rql.m # "OPTIONS"
  /\ run.kind = "localredirect"
  /\ IF redirs >= MaxRedirs
     THEN ErrorAndDie(502, 2)
     ELSE /\ redirs' = redirs + 1
          /\ out' = Append(out, Normal(302, "none"))
          /\ UNCHANGED <<phase, cont, rql, body, exit, log>>

LocalRedirect_GivenUp(run) ==
  /\ Leads("cgi") /\ rql.m # "OPTIONS"
  /\ run.kind = "localredirect"
  /\ IF redirs >= MaxRedirs
     THEN Loop(<<>>, <<>>, cont)
     ELSE /\ redirs' = redirs + 1
          /\ UNCHANGED <<phase, cont, rql, body, exit, out, log>>

\* serve() is called again for the path the script names, with the same method
\* and body, MAX_LOCALREDIRS times.
LocalRedirect(run) ==
  /\ Leads("cgi") /\ rql.m # "OPTIONS"
  /\ run.kind = "localredirect"
  /\ IF redirs >= MaxRedirs
     THEN ErrorAndDie(502, 2)
     ELSE /\ redirs' = redirs + 1
          /\ UNCHANGED <<phase, cont, rql, body, exit, out, log>>

\* An error after the headers of a page is appended to what was written of it.
AnswerTwice(page, lines) ==
  \/ \E text \in Pages :
       \/ Die(<<page, ErrorAnswer(502, TRUE, text)>>, lines \o Answered(502), 111)
       \/ CannotWrite(lines \o Answered(502))
  \/ "outside" \in ErrorPages /\ Die(<<>>, lines, 102)

\* Without a Content-Length the answer is always in chunks.
FcgiPage(reply) ==
  IF reply = "bodyless" THEN Normal(304, "none")
  ELSE Normal(200, IF reply \in {"length", "cut", "zero", "empty"} THEN "length" ELSE "chunked")

\* The end of a page is an error: FCGI_END_REQUEST kills the process if a byte
\* of the body was written, and is answered 502 if none was.  A length of 0
\* counts as none, so that the last chunk follows, and so it does an answer
\* without a body.
FcgiEnd(reply, page, lines) ==
  \/ reply \in {"chunks", "length"} /\ ReplyAndDie(page, lines, 111)
  \/ reply \in {"noeof", "cut"} /\ ReplyAndDie(Cut(page), lines, 111)
  \/ reply = "nodata" /\ AnswerTwice(page, lines)
  \/ reply \in {"zero", "bodyless"} /\ AnswerTwice(Stray(page, TRUE), lines)
  \/ reply \in {"empty", "broken"} /\ AnswerTwice(Cut(page), lines)

\* What fastcgi() returns is ignored: a local redirection is the end of its
\* request.  "refuse" is an application that fails before its headers, "mute" one
\* that has ended its output before them and goes on.
Fastcgi(reply) ==
  /\ Leads("fastcgi") /\ rql.m # "OPTIONS"
  /\ \/ reply = "noconnect" /\ ErrorAndDie(500, 111)
     \/ reply = "refuse" /\ ErrorAndDie(502, 111)
     \/ reply = "invalid" /\ ErrorAndDie(502, 2)
     \/ reply = "mute" /\ Die(<<>>, <<>>, 111)
     \/ reply = "localredirect" /\ Loop(<<>>, <<>>, cont)
     \/ LET page == FcgiPage(reply)
            lines == Answered(page.status)
        IN  /\ reply \in FcgiReply \ {"noconnect", "refuse", "invalid", "mute", "localredirect"}
            /\ \/ rql.m = "HEAD" /\ Reply(page, lines, cont)
               \/ rql.m # "HEAD" /\ FcgiEnd(reply, page, lines)

Static == Absent \/ Denied \/ LongName \/ Broken \/ Directory \/ FileInfo \/ FileMethod
            \/ Options \/ NotModified \/ File \/ FileRefused

Serve ==
  /\ phase = "serve"
  /\ UNCHANGED <<clientvars, net, asked, astray>>
  /\ \/ Redirect
     \/ Rproxy
     \/ \E reply \in FcgiReplies : Fastcgi(reply)
     \/ Static
     \/ Nph
     \/ \E run \in CgiRuns : Cgi(run) \/ LocalRedirect(run)

\* A process that waits for its client finds out that it is gone.
Unblocked ==
  /\ phase \in {"blocked", "copying"} /\ client = "gone"
  /\ Die(<<>>, <<>>, 111)
  /\ UNCHANGED <<clientvars, net, asked, astray>>

Raw == Resp(asked, 200, TRUE, Framed(rql, "eof"))

\* Whatever became of the copy, rproxy() exits with 0; so may an NPH script, whose
\* exit code is its own.
RawEnds ==
  /\ phase = "raw"
  /\ \E answers \in {<<Raw>>, <<Cut(Raw)>>, <<>>} : Die(answers, <<>>, 0)
  /\ UNCHANGED <<clientvars, net, asked, astray>>

-----------------------------------------------------------------------------
Init ==
  /\ client = "open" /\ begun = 0 /\ rest = <<>> /\ net = <<>>
  /\ phase = "line" /\ cont = 1 /\ rql = NoRequest
  /\ asked = 0 /\ body = 0 /\ redirs = 0 /\ exit = 0
  /\ out = <<>> /\ log = <<>> /\ astray = FALSE

Server == ReadLine \/ EndOfRequests \/ ReadError \/ ReadHeaders \/ HeadersEnd
            \/ ReadFixedBody \/ ReadChunkedBody \/ Serve \/ Unblocked

\* The process is over and its connection closed, or it turns in its loop.
Over == phase \in {"exited", "spinning"} /\ UNCHANGED vars

Next == Client \/ Server \/ RawEnds \/ Over

\* tipideed goes on as long as it has something to do; the client need not, and
\* neither need an NPH script or a remote server.
Spec == Init /\ [][Next]_vars /\ WF_vars(Server)

-----------------------------------------------------------------------------
(* Properties. *)

TypeOK ==
  /\ client \in {"open", "shut", "gone"}
  /\ begun \in Nat /\ rest \in Seq(Part) /\ net \in Seq(Part)
  /\ phase \in Phases /\ cont \in {0, 1, 2}
  /\ rql \in Requests \cup {NoRequest}
  /\ phase \in {"headers", "body", "serve"} => rql \in Requests
  /\ asked \in Nat /\ body \in Nat /\ redirs \in Nat /\ exit \in Nat
  /\ out \in Seq(Answer) /\ log \in Seq(LogLine) /\ astray \in BOOLEAN

\* What is read as a request line was not sent as part of a body.
LineIsLine == phase = "line" /\ net # <<>> => Head(net).part = "line"

\* The decimal sizes of chunks are the only way for a request line to be read out
\* of the body of an earlier request: as long as no chunked body was cut by them,
\* what the connection holds between two requests begins with a request line.
\* Depends on the methods allowed a body, on OPTIONS * and TRACE going back to the
\* loop before any body is read, and on HTTP/1.0, whose chunked body is not read,
\* ending the connection.
NeverInsideBody == ~astray => LineIsLine

\* A backend is given the body of its own request: what bodysa holds when
\* serve() runs, again and again for local redirections, is a body read for the
\* request in progress and never the one of an earlier request.
HasOwnBody(r) == Coding(r) = "fixed" \/ (Coding(r) = "chunked" /\ r.chunks = "short")
BodyIsOwn == phase = "serve" => body = IF HasOwnBody(rql) THEN asked ELSE 0

\* Once an answer says Connection: close the process writes and reads nothing
\* more: no path announces a close and goes back to the loop.
CloseIsLast == (\E i \in DOMAIN out : out[i].close) => phase = "exited"

\* While the process lives, every answer it has written can be told from the
\* next by the client: it is complete, says where it ends by something else
\* than the end of the connection, and nothing was written after its end.
DelimitedWhenKept ==
  phase # "exited" =>
    \A i \in DOMAIN out : out[i].whole /\ ~out[i].stray /\ out[i].frame # "eof"

\* "tipideed adds Connection: close to its last answer" when an error makes it
\* exit: a complete answer to the last request of a process that fails while
\* its client is there to read it.
ErrorCloses ==
  phase = "exited" /\ exit # 0 /\ out # <<>> /\ client # "gone" =>
    LET last == out[Len(out)]
    IN  last.n = asked /\ last.whole => last.close

LinesOf(what) == {i \in DOMAIN log : log[i].what = what}
NumbersOf(what) == {log[i].n : i \in LinesOf(what)}

\* Exit code 0 is "a successful series of HTTP exchanges": every request has a
\* complete answer, but for the last one when the process has left no exit line:
\* that one was handed over to an NPH script or to a remote server.
CleanExit ==
  phase = "exited" /\ exit = 0 =>
    \A n \in 1..(IF LinesOf("exit") = {} THEN asked - 1 ELSE asked) :
      \E i \in DOMAIN out : out[i].n = n /\ out[i].whole

\* Log lines pair up: an answer line follows the request line of its request,
\* there is one per request at most, and when the next request is read none is
\* missing.
LogPaired ==
  /\ \A i \in LinesOf("answer") :
       /\ \E j \in LinesOf("request") : j < i /\ log[j].n = log[i].n
       /\ \A j \in LinesOf("answer") : log[j].n = log[i].n => j = i
  /\ phase = "line" => NumbersOf("answer") = NumbersOf("request")

\* The client said of a request that it is its last.
Final(r) == r.minor = 0 \/ r.conn = "close"

\* Requests are taken one at a time, each is answered at most once and before the
\* next, in their order, and none is taken after one that said Connection: close
\* or is of HTTP/1.0.
Exchange ==
  INSTANCE HttpExchange WITH
    taken <- asked,
    answers <- [i \in DOMAIN out |-> out[i].n],
    last <- phase # "exited" /\ rql # NoRequest /\ Final(rql),
    open <- phase # "exited"
ExchangeSpec == Exchange!Spec

\* No client holds the process for ever.  With both timeouts it ends, but for the
\* copies and the loop that no deadline covers; without any, it ends with a client
\* that leaves, but for that loop and for what a script or a remote server does.
ProcessEnds ==
  /\ Timeouts = {"read", "write"} => <>(phase \in {"copying", "raw", "spinning", "exited"})
  /\ client = "gone" ~> phase \in {"raw", "spinning", "exited"}
=============================================================================
