--------------------------------- MODULE Cgi ---------------------------------
(***************************************************************************)
(* do_cgi(): tipideed runs a script with two pipes, feeds it the body of   *)
(* the request, reads its headers and copies its page, while the script    *)
(* reads and writes in its own order, stops, exits or leaves a child that  *)
(* holds its stdout.  Bytes are counted in units: HeadLen units of headers *)
(* and then the page.  The copy is the one of the systems with splice().   *)
(* The client takes what it is given, fails, or stays and reads no more.   *)
(***************************************************************************)
EXTENDS Naturals, Sequences

CONSTANTS
  Jobs,      \* the requests for scripts that may be served
  Scripts,   \* the scripts that may serve them
  HeadLen,   \* the length of a script's headers
  PipeSize,  \* what a pipe holds
  BufSize    \* what the buffer b of do_cgi() holds

(***************************************************************************)
(* len: bodylen.  head: the method is HEAD.  auto: the autochunk argument. *)
(* finite: the timeouts that are not infinite.                             *)
(***************************************************************************)
Job == [len: Nat, head: BOOLEAN, auto: BOOLEAN, finite: SUBSET {"cgi", "write"}]

(***************************************************************************)
(* reads: a script may read its stdin to the end before it writes, after   *)
(* it has written everything, never, or at any time.  out: how much it     *)
(* writes.  kind: "garbage" is no header block, "invalid" one that breaks  *)
(* the rules of CGI, "redirect" a local redirection.  sized, length: its   *)
(* Content-Length.  bodyless: its status is 204 or 304.  hangs: it never   *)
(* exits.  keeps: a child of it keeps its stdout open.                     *)
(***************************************************************************)
Script ==
  [reads: {"first", "last", "never", "any"}, out: Nat,
   kind: {"page", "redirect", "invalid", "garbage"}, sized: BOOLEAN, length: Nat,
   bodyless: BOOLEAN, hangs: BOOLEAN, keeps: BOOLEAN]

ASSUME CgiAssumption ==
  /\ Jobs \subseteq Job
  /\ Scripts \subseteq Script
  /\ HeadLen \in Nat \ {0}
  /\ PipeSize \in Nat \ {0}
  /\ BufSize \in Nat \ {0}

VARIABLES
  job, script,  \* chosen once
  pc,           \* where do_cgi() is; "returned" or "died" at its end
  fed,          \* what was written of the body: bodyw, but for a broken pipe
  feeding,      \* x[1].fd is open
  taken,        \* what was read of the script's output
  reading,      \* x[0].fd is open
  sent,         \* how much of the page was written to the client
  ended,        \* the last chunk was written
  ans,          \* the statuses answered
  signalled,    \* SIGTERM was sent to the script
  reaped,       \* wait_reap() has seen the script
  deaf,         \* the client is there and reads nothing more
  got,          \* what the script has read of its stdin
  eof,          \* it has read the end of it
  written,      \* what it has written
  alive,        \* it runs
  held          \* it, or a child of it, holds its stdout

servervars == <<pc, fed, feeding, taken, reading, sent, ended, ans, signalled, reaped>>
scriptvars == <<got, eof, written, alive, held>>
vars == <<job, script, servervars, scriptvars, deaf>>

Over == pc \in {"returned", "died"}

Least(a, b) == IF a < b THEN a ELSE b

InPipe == fed - got
OutPipe == written - taken
Buffered == taken - HeadLen - sent

\* The ends of the pipes that the process holds: none once it has died.
StdinOpen == feeding /\ pc # "died"
StdoutOpen == reading /\ pc # "died"

Eof == OutPipe = 0 /\ ~held

Return == pc' = "returned" /\ reading' = FALSE
GoOn(where) == pc' = where /\ UNCHANGED reading
Die == pc' = "died" /\ UNCHANGED reading

\* What is written to the client next, if it reads.  stream_autochunk() writes the
\* headers with the first chunk.
InChunks == ~job.head /\ ~script.sized /\ job.auto
Answers == pc \in {"bad", "late"}
             \/ (pc = "headers" /\ (script.kind = "invalid" \/ (script.kind = "page" /\ ~InChunks)))
WritesChunk == pc = "chunked" /\ (Buffered > 0 \/ OutPipe > 0 \/ Eof)
Splices == pc \in {"fixed", "infinite"} /\ OutPipe > 0
Writes == Answers \/ WritesChunk \/ Splices

-----------------------------------------------------------------------------
(* The loop around iopause(): feed the script and read its headers. *)

Writable == feeding /\ (InPipe < PipeSize \/ ~alive)
Readable == OutPipe > 0 \/ ~held

\* As much of what is left as the pipe takes.  A script that is gone has no use
\* for it.
FeedFrom(bodyw) ==
  /\ fed' = IF alive THEN fed + Least(PipeSize - InPipe, job.len - bodyw) ELSE fed
  /\ feeding' = (alive /\ fed' < job.len)

FeedSome_Restarted == FeedFrom(0)

FeedSome_NotClosed ==
  /\ fed' = IF alive THEN fed + Least(PipeSize - InPipe, job.len - fed) ELSE fed
  /\ feeding' = alive

FeedSome == FeedFrom(fed)

\* An EOF in the headers is a syntax error for their parser.
ReadHead ==
  LET n == Least(OutPipe, BufSize)
  IN  /\ taken' = taken + n
      /\ pc' = IF n = 0 \/ script.kind = "garbage" THEN "bad"
               ELSE IF taken' < HeadLen THEN "iopause"
               ELSE IF feeding' THEN "feed" ELSE "headers"

Iopause ==
  /\ pc = "iopause"
  /\ Writable \/ Readable
  /\ IF Writable THEN FeedSome ELSE UNCHANGED <<fed, feeding>>
  /\ IF Readable THEN ReadHead ELSE UNCHANGED <<taken, pc>>
  /\ UNCHANGED <<reading, sent, ended, ans, signalled, reaped>>

\* die502x().
AnswerBad ==
  /\ pc = "bad" /\ ~deaf
  /\ ans' = Append(ans, 502)
  /\ Die
  /\ UNCHANGED <<fed, feeding, taken, sent, ended, signalled, reaped>>

Feed_GivenUp ==
  /\ pc = "feed"
  /\ feeding' = FALSE
  /\ pc' = "headers"
  /\ UNCHANGED <<fed, taken, reading, sent, ended, ans, signalled, reaped>>

\* What is left of the body once the headers are read, in one blocking write.
Feed ==
  /\ pc = "feed"
  /\ Writable
  /\ FeedSome
  /\ pc' = IF feeding' THEN "feed" ELSE "headers"
  /\ UNCHANGED <<taken, reading, sent, ended, ans, signalled, reaped>>

CgiTimeout_Late ==
  /\ pc \in {"iopause", "feed", "chunked"} /\ "cgi" \in job.finite
  /\ signalled' = TRUE
  /\ pc' = "late"
  /\ UNCHANGED <<fed, feeding, taken, reading, sent, ended, ans, reaped>>

CgiTimeout_NotKilled ==
  /\ pc \in {"iopause", "feed"} /\ "cgi" \in job.finite
  /\ pc' = "late"
  /\ UNCHANGED <<fed, feeding, taken, reading, sent, ended, ans, signalled, reaped>>

\* The cgitimeout label.
CgiTimeout ==
  /\ pc \in {"iopause", "feed"} /\ "cgi" \in job.finite
  /\ signalled' = TRUE
  /\ pc' = "late"
  /\ UNCHANGED <<fed, feeding, taken, reading, sent, ended, ans, reaped>>

\* The pipes are closed behind the answer.
AnswerLate ==
  /\ pc = "late" /\ ~deaf
  /\ ans' = Append(ans, 504)
  /\ feeding' = FALSE
  /\ Return
  /\ UNCHANGED <<fed, taken, sent, ended, signalled, reaped>>

-----------------------------------------------------------------------------
(* process_cgi_headers() and the copy of the page. *)

HeadOnly_Left == job.head /\ GoOn("returned") /\ UNCHANGED sent
HeadOnly == job.head /\ Return /\ UNCHANGED sent

\* The part of the buffer that was announced; the rest is dropped.
Sized ==
  /\ ~job.head /\ script.sized
  /\ sent' = Least(Buffered, script.length)
  /\ IF sent' < script.length THEN GoOn("fixed") ELSE Return

Chunks == InChunks /\ GoOn("chunked") /\ UNCHANGED sent

Unsized_BufferSkipped ==
  /\ ~job.head /\ ~script.sized /\ ~job.auto
  /\ GoOn("infinite") /\ UNCHANGED sent

Unsized ==
  /\ ~job.head /\ ~script.sized /\ ~job.auto
  /\ sent' = Buffered
  /\ GoOn("infinite")

\* The status of a page only matters for whether it may have a body.
ProcessHeaders ==
  /\ pc = "headers" /\ (Answers => ~deaf)
  /\ \/ /\ script.kind = "page"
        /\ ans' = Append(ans, IF script.bodyless THEN 304 ELSE 200)
        /\ HeadOnly \/ Sized \/ Chunks \/ Unsized
     \/ script.kind = "invalid" /\ Die /\ ans' = Append(ans, 502) /\ UNCHANGED sent
     \/ script.kind = "redirect" /\ Return /\ UNCHANGED <<ans, sent>>
  /\ UNCHANGED <<fed, feeding, taken, ended, signalled, reaped>>

\* What tipideed moves at once from the pipe to the client.
Move(n) == taken' = taken + n /\ sent' = sent + n

\* stream_fixed(): an EOF before the end, or the timeout (the longer of the two),
\* ends the process.  Only the script's pipe is waited for: when the client takes
\* nothing of what is there, the loop turns without a pause, and past the deadline.
StreamFixed ==
  /\ pc = "fixed"
  /\ \/ /\ ~deaf /\ OutPipe > 0
        /\ \E n \in 1..Least(OutPipe, script.length - sent) : Move(n)
        /\ IF sent' = script.length THEN Return ELSE GoOn("fixed")
     \/ Eof /\ Die /\ UNCHANGED <<taken, sent>>
     \/ OutPipe = 0 /\ job.finite = {"cgi", "write"} /\ Die /\ UNCHANGED <<taken, sent>>
  /\ UNCHANGED <<fed, feeding, ended, ans, signalled, reaped>>

LastChunk_OnTimeout == Eof \/ "cgi" \in job.finite
LastChunk == Eof

\* stream_autochunk(): the buffer as a chunk, then whatever each read gives.
StreamAutochunk ==
  /\ pc = "chunked"
  /\ \/ /\ ~deaf /\ Buffered > 0
        /\ sent' = sent + Buffered
        /\ GoOn("chunked") /\ UNCHANGED <<taken, ended>>
     \/ /\ ~deaf /\ Buffered = 0 /\ OutPipe > 0
        /\ Move(Least(OutPipe, BufSize))
        /\ GoOn("chunked") /\ UNCHANGED ended
     \/ /\ ~deaf /\ Buffered = 0 /\ LastChunk
        /\ ended' = TRUE
        /\ Return /\ UNCHANGED <<taken, sent>>
     \/ /\ Buffered = 0 /\ "cgi" \in job.finite
        /\ Die /\ UNCHANGED <<taken, sent, ended>>
  /\ UNCHANGED <<fed, feeding, ans, signalled, reaped>>

\* stream_infinite(): blocking splices until EOF, without a timeout.
StreamInfinite ==
  /\ pc = "infinite"
  /\ \/ /\ ~deaf
        /\ \E n \in 1..OutPipe : Move(n)
        /\ GoOn("infinite")
     \/ Eof /\ Return /\ UNCHANGED <<taken, sent>>
  /\ UNCHANGED <<fed, feeding, ended, ans, signalled, reaped>>

\* The client is gone or, with a write_timeout, too slow: "write to stdout" or the
\* splice fails.
ClientFails ==
  /\ Writes
  /\ Die
  /\ UNCHANGED <<fed, feeding, taken, sent, ended, ans, signalled, reaped>>

\* A client that reads nothing is given up on after the write_timeout, where there
\* is one: the splices do not have it.
WriteTimeout ==
  /\ deaf /\ "write" \in job.finite
  /\ Answers \/ WritesChunk
  /\ Die
  /\ UNCHANGED <<fed, feeding, taken, sent, ended, ans, signalled, reaped>>

\* The SIGCHLD handler.
Reap ==
  /\ ~alive /\ ~reaped /\ pc # "died"
  /\ reaped' = TRUE
  /\ UNCHANGED <<pc, fed, feeding, taken, reading, sent, ended, ans, signalled>>

DoCgi == Iopause \/ AnswerBad \/ Feed \/ CgiTimeout \/ AnswerLate \/ ProcessHeaders
           \/ StreamFixed \/ StreamAutochunk \/ StreamInfinite \/ WriteTimeout

Server == DoCgi \/ ClientFails \/ Reap

-----------------------------------------------------------------------------
(* The script. *)

MayRead == script.reads \in {"first", "any"} \/ (script.reads = "last" /\ written = script.out)
MayWrite == script.reads = "first" => eof
MayExit == ~script.hangs /\ written = script.out /\ (script.reads \in {"first", "last"} => eof)

ScriptReads ==
  /\ alive /\ MayRead
  /\ \/ InPipe > 0 /\ got' = got + 1 /\ UNCHANGED eof
     \/ InPipe = 0 /\ ~StdinOpen /\ ~eof /\ eof' = TRUE /\ UNCHANGED got
  /\ UNCHANGED <<written, alive, held>>

ScriptWrites ==
  /\ alive /\ MayWrite /\ written < script.out
  /\ StdoutOpen /\ OutPipe < PipeSize
  /\ written' = written + 1
  /\ UNCHANGED <<got, eof, alive, held>>

\* By itself, by SIGTERM, or by SIGPIPE; a child of it goes on.
ScriptEnds ==
  /\ alive
  /\ \/ MayExit
     \/ signalled
     \/ MayWrite /\ written < script.out /\ ~StdoutOpen
  /\ alive' = FALSE
  /\ held' = script.keeps
  /\ UNCHANGED <<got, eof, written>>

ChildEnds ==
  /\ ~alive /\ held
  /\ held' = FALSE
  /\ UNCHANGED <<got, eof, written, alive>>

ScriptRuns == ScriptReads \/ ScriptWrites \/ ScriptEnds

-----------------------------------------------------------------------------
\* The script was spawned; the pipe to it is closed at once without a body.
Init ==
  /\ job \in Jobs /\ script \in Scripts
  /\ pc = "iopause" /\ fed = 0 /\ feeding = (job.len > 0) /\ taken = 0
  /\ reading = TRUE /\ sent = 0 /\ ended = FALSE /\ ans = <<>>
  /\ signalled = FALSE /\ reaped = FALSE /\ deaf = FALSE
  /\ got = 0 /\ eof = FALSE /\ written = 0 /\ alive = TRUE /\ held = TRUE

\* The client stays connected and reads nothing more.
Deafens ==
  /\ ~Over /\ ~deaf
  /\ deaf' = TRUE
  /\ UNCHANGED <<job, script, servervars, scriptvars>>

\* What the script still does is its own business.
Stopped == Over /\ UNCHANGED vars

Next ==
  \/ Server /\ UNCHANGED <<job, script, scriptvars, deaf>>
  \/ (ScriptRuns \/ ChildEnds) /\ UNCHANGED <<job, script, servervars, deaf>>
  \/ Deafens
  \/ Stopped

\* tipideed is driven by its events, its timeouts being some; a script goes on
\* unless it hangs.  Nothing says that a client fails, or reads, or that a child ends.
Spec ==
  /\ Init /\ [][Next]_vars
  /\ WF_vars(DoCgi /\ UNCHANGED <<job, script, scriptvars, deaf>>)
  /\ WF_vars(Reap /\ UNCHANGED <<job, script, scriptvars, deaf>>)
  /\ WF_vars(ScriptRuns /\ UNCHANGED <<job, script, servervars, deaf>>)

-----------------------------------------------------------------------------
(* Properties. *)

TypeOK ==
  /\ job \in Jobs /\ script \in Scripts
  /\ pc \in {"iopause", "bad", "feed", "late", "headers", "fixed", "chunked", "infinite",
             "returned", "died"}
  /\ fed \in 0..job.len /\ got \in 0..fed /\ InPipe <= PipeSize
  /\ written \in 0..script.out /\ taken \in 0..written /\ OutPipe <= PipeSize
  /\ sent \in Nat /\ ans \in Seq({200, 304, 502, 504})
  /\ {feeding, reading, ended, signalled, reaped, deaf, eof, alive, held} \subseteq BOOLEAN

PageCopied ==
  /\ pc \in {"fixed", "chunked", "infinite", "returned"} /\ taken >= HeadLen => sent <= taken - HeadLen
  /\ pc = "returned" /\ ans = <<200>> /\ ~job.head =>
       IF script.sized THEN sent = script.length ELSE sent = written - HeadLen /\ ~held

LastChunkIsTrue == ended => sent = written - HeadLen /\ ~held

\* The page is what the script wrote after its headers, all of it and once: when
\* do_cgi() has returned from an answer with a body the client has as much as
\* the Content-Length, or all that came before the end of the output.  The page
\* goes through the buffer of the header parser first, and by splice() then; the
\* last chunk tells the client that nothing is missing of it, and nothing is.
PageIsWhole == PageCopied /\ LastChunkIsTrue

\* A script that reads the end of its stdin has the whole body, unless it was
\* given up: however its input and its output were interleaved.
BodyIsWhole == eof /\ ~signalled /\ pc # "died" => got = job.len

\* One answer at most, and one exactly from a do_cgi() that returns, but for a
\* local redirection: a timeout after the headers does not add a second answer.
OneAnswer ==
  /\ Len(ans) <= 1
  /\ pc = "returned" => (ans = <<>> <=> script.kind = "redirect" /\ ~signalled)

\* do_cgi() ends, and so does its script.  While the client reads, a script that goes
\* on, and that reads its body first or whenever it is there, is answered with any
\* timeouts; any other is answered with both timeouts, unless its answer has no end but
\* the connection's: neither of the two waits for the other for good.  With both timeouts
\* no client that reads nothing holds up do_cgi(), but in a copy by splice().  No script
\* outlives its answer for want of reading its pipes or of closing them: one that does
\* not hang by itself ends, and one that timed out ends.
Cooperative == script.reads \in {"first", "any"} /\ ~script.hangs /\ ~script.keeps
Timed == job.finite = {"cgi", "write"} /\ (job.head \/ job.auto \/ script.sized \/ script.kind # "page")
Spliced == ~job.head /\ script.kind = "page" /\ ~InChunks
Served ==
  /\ Cooperative \/ Timed ~> Over \/ deaf
  /\ Timed /\ ~Spliced ~> Over
  /\ Over /\ (~script.hangs \/ ans = <<504>>) ~> ~alive

=============================================================================
