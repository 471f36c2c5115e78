------------------------- MODULE Connection_proofs -------------------------
(***************************************************************************)
(* Proofs about Connection, for any requests, targets, scripts and         *)
(* applications: typing, the framing of what is read and of what is        *)
(* answered, when the connection is closed, what the log has, and that the *)
(* connection implements HttpExchange.                                     *)
(***************************************************************************)
EXTENDS Connection, SequenceTheorems, TLAPS

\* The client's side of TypeOK, and what main() and serve() maintain.
ClientOK ==
  /\ client \in {"open", "shut", "gone"}
  /\ begun \in Nat /\ rest \in Seq(Part) /\ net \in Seq(Part) /\ astray \in BOOLEAN

ServerOK ==
  /\ phase \in Phases /\ cont \in {0, 1, 2}
  /\ rql \in Requests \cup {NoRequest}
  /\ phase \in {"headers", "body", "serve"} => rql \in Requests
  /\ body \in Nat /\ redirs \in Nat /\ exit \in Nat
  /\ out \in Seq(Answer) /\ log \in Seq(LogLine)

\* The phases a process does not leave by itself.
Halted == {"blocked", "copying", "raw", "spinning"}

\* bodysa is filled on the way to serve() only.
BodyOK ==
  /\ phase \in {"line", "headers", "body"} => body = 0
  /\ BodyIsOwn

\* The inductive invariant.
ReqOK == ServerOK /\ CloseIsLast /\ BodyOK
IInv == ClientOK /\ asked \in Nat /\ ReqOK

-----------------------------------------------------------------------------
(* The ways a request ends keep ReqOK. *)

LEMMA ExitLine ==
  ASSUME NEW e \in Nat, NEW lines \in Seq(LogLine)
  PROVE  lines \o <<Line("exit", 0, e)>> \in Seq(LogLine)
<1>1. Line("exit", 0, e) \in LogLine  BY DEF Line, LogLine
<1> QED  BY <1>1

LEMMA LoopOK ==
  ASSUME ReqOK, phase # "exited",
         NEW answers \in Seq(Answer), NEW lines \in Seq(LogLine), NEW c \in {0, 1, 2},
         \A i \in DOMAIN answers : answers[i].close => c = 0,
         Loop(answers, lines, c)
  PROVE  ReqOK'
<1>1. /\ out' = out \o answers /\ cont' = c /\ rql' = NoRequest /\ body' = 0 /\ redirs' = 0
      /\ phase' = IF c = 0 THEN "exited" ELSE "line"
  BY DEF Loop, NextIteration
<1>2. exit' \in Nat /\ log' \in Seq(LogLine)
  <2>1. log \in Seq(LogLine) /\ exit \in Nat  BY DEF ReqOK, ServerOK
  <2>2. log \o lines \in Seq(LogLine)  BY <2>1
  <2>3. (log \o lines) \o <<Line("exit", 0, 0)>> \in Seq(LogLine)  BY <2>2, ExitLine
  <2>4. CASE c = 0
    <3>1. exit' = 0 /\ log' = log \o lines \o <<Line("exit", 0, 0)>>  BY <2>4 DEF Loop
    <3> QED  BY <3>1, <2>3
  <2>5. CASE c # 0
    <3>1. exit' = exit /\ log' = log \o lines  BY <2>5 DEF Loop
    <3> QED  BY <3>1, <2>1, <2>2
  <2> QED  BY <2>4, <2>5
<1>3. out' \in Seq(Answer)
  BY <1>1 DEF ReqOK, ServerOK
<1>4. ServerOK'
  BY <1>1, <1>2, <1>3 DEF ServerOK, Phases
<1>5. CloseIsLast'
  BY <1>1, <1>3 DEF CloseIsLast, ReqOK, ServerOK
<1>6. BodyOK'
  BY <1>1 DEF BodyOK, BodyIsOwn
<1> QED  BY <1>4, <1>5, <1>6 DEF ReqOK

LEMMA DieOK ==
  ASSUME ReqOK, NEW answers \in Seq(Answer), NEW lines \in Seq(LogLine), NEW e \in Nat,
         Die(answers, lines, e)
  PROVE  ReqOK'
<1>1. /\ out' = out \o answers /\ log' = log \o lines /\ phase' = "exited" /\ exit' = e
      /\ UNCHANGED <<cont, rql, body, redirs>>
  BY DEF Die
<1>2. ServerOK'
  BY <1>1 DEF ServerOK, ReqOK, Phases
<1>3. CloseIsLast' /\ BodyOK'
  BY <1>1 DEF CloseIsLast, BodyOK, BodyIsOwn
<1> QED  BY <1>2, <1>3 DEF ReqOK

LEMMA LogAndExitOK ==
  ASSUME ReqOK, NEW answers \in Seq(Answer), NEW lines \in Seq(LogLine), NEW e \in Nat,
         LogAndExit(answers, lines, e)
  PROVE  ReqOK'
<1> DEFINE all == lines \o <<Line("exit", 0, e)>>
<1>1. all \in Seq(LogLine)
  BY ExitLine
<1>2. /\ out' = out \o answers /\ phase' = "exited" /\ exit' = e
      /\ UNCHANGED <<cont, rql, body, redirs>>
  BY DEF LogAndExit
<1>3. log' = log \o all
  <2>1. log' = (log \o lines) \o <<Line("exit", 0, e)>>  BY DEF LogAndExit
  <2>2. log \in Seq(LogLine) /\ <<Line("exit", 0, e)>> \in Seq(LogLine)
    BY DEF ReqOK, ServerOK, Line, LogLine
  <2> HIDE DEF all
  <2>3. (log \o lines) \o <<Line("exit", 0, e)>> = log \o (lines \o <<Line("exit", 0, e)>>)
    BY <2>2
  <2> QED  BY <2>1, <2>3 DEF all
<1> HIDE DEF all
<1>4. Die(answers, all, e)
  BY <1>2, <1>3 DEF Die
<1> QED  BY <1>1, <1>4, DieOK

\* Waiting for the client writes nothing.
LEMMA WaitsOK ==
  ASSUME ReqOK, phase # "exited", NEW where \in Halted, NEW lines \in Seq(LogLine),
         Waits(where, lines)
  PROVE  ReqOK'
<1>1. phase' = where /\ log' = log \o lines /\ UNCHANGED <<cont, rql, body, redirs, exit, out>>
  BY DEF Waits
<1>2. ServerOK'
  BY <1>1 DEF ServerOK, ReqOK, Phases, Halted
<1>3. CloseIsLast' /\ BodyOK'
  BY <1>1 DEF ReqOK, CloseIsLast, BodyOK, BodyIsOwn, Halted
<1> QED  BY <1>2, <1>3 DEF ReqOK

LEMMA CannotWriteOK ==
  ASSUME ReqOK, phase # "exited", NEW lines \in Seq(LogLine), CannotWrite(lines)
  PROVE  ReqOK'
<1>1. <<>> \in Seq(Answer) /\ "blocked" \in Halted
  BY DEF Halted
<1>2. CASE Die(<<>>, lines, 111)
  BY <1>1, <1>2, DieOK
<1>3. CASE Waits("blocked", lines)
  BY <1>1, <1>3, WaitsOK
<1> QED  BY <1>2, <1>3 DEF CannotWrite

LEMMA ReplyOK ==
  ASSUME ReqOK, phase # "exited",
         NEW answer \in Answer, NEW lines \in Seq(LogLine), NEW c \in {0, 1, 2},
         answer.close => c = 0,
         Reply(answer, lines, c)
  PROVE  ReqOK'
<1>1. /\ <<answer>> \in Seq(Answer)
      /\ \A i \in DOMAIN <<answer>> : <<answer>>[i].close => c = 0
  OBVIOUS
<1>2. CASE Loop(<<answer>>, lines, c)
  BY <1>1, <1>2, LoopOK
<1>3. CASE CannotWrite(lines)
  BY <1>3, CannotWriteOK
<1> QED  BY <1>2, <1>3 DEF Reply

LEMMA ReplyAndExitOK ==
  ASSUME ReqOK, phase # "exited",
         NEW answer \in Answer, NEW lines \in Seq(LogLine), NEW e \in Nat,
         ReplyAndExit(answer, lines, e)
  PROVE  ReqOK'
<1>1. <<answer>> \in Seq(Answer)
  OBVIOUS
<1>2. CASE LogAndExit(<<answer>>, lines, e)
  BY <1>1, <1>2, LogAndExitOK
<1>3. CASE CannotWrite(lines)
  BY <1>3, CannotWriteOK
<1> QED  BY <1>2, <1>3 DEF ReplyAndExit

LEMMA ReplyAndDieOK ==
  ASSUME ReqOK, phase # "exited",
         NEW answer \in Answer, NEW lines \in Seq(LogLine), NEW e \in Nat,
         ReplyAndDie(answer, lines, e)
  PROVE  ReqOK'
<1>1. <<answer>> \in Seq(Answer)
  OBVIOUS
<1>2. CASE Die(<<answer>>, lines, e)
  BY <1>1, <1>2, DieOK
<1>3. CASE CannotWrite(lines)
  BY <1>3, CannotWriteOK
<1> QED  BY <1>2, <1>3 DEF ReplyAndDie

-----------------------------------------------------------------------------
(* What is written and logged has its type, and announces a close only when *)
(* the connection is not kept.                                              *)

LEMMA RespType ==
  ASSUME NEW n \in Nat, NEW status \in Nat, NEW close \in BOOLEAN, NEW frame \in Frames
  PROVE  Resp(n, status, close, frame) \in Answer /\ Resp(n, status, close, frame).close = close
BY DEF Resp, Answer

LEMMA FramedType ==
  ASSUME NEW r, NEW frame \in Frames
  PROVE  Framed(r, frame) \in Frames
BY DEF Framed, Frames

LEMMA NormalType ==
  ASSUME asked \in Nat, NEW status \in Nat, NEW frame \in Frames
  PROVE  /\ Normal(status, frame) \in Answer
         /\ Normal(status, frame).close => cont = 0
<1>1. Framed(rql, frame) \in Frames /\ (cont = 0) \in BOOLEAN
  BY FramedType
<1> QED  BY <1>1, RespType DEF Normal

LEMMA CutType ==
  ASSUME NEW a \in Answer
  PROVE  Cut(a) \in Answer /\ Cut(a).close = a.close /\ <<Cut(a)>> \in Seq(Answer)
<1>1. Cut(a) \in Answer /\ Cut(a).close = a.close
  BY DEF Answer, Cut
<1> QED  BY <1>1

LEMMA StrayType ==
  ASSUME NEW a \in Answer, NEW b \in BOOLEAN
  PROVE  Stray(a, b) \in Answer /\ Stray(a, b).close = a.close
BY DEF Answer, Stray

LEMMA ErrorAnswerType ==
  ASSUME asked \in Nat, NEW status \in Nat, NEW option \in BOOLEAN, NEW page
  PROVE  /\ ErrorAnswer(status, option, page) \in Answer
         /\ ErrorAnswer(status, option, page).close => option \/ cont = 0
<1> DEFINE close == option \/ (page = "text" /\ cont = 0)
           more == page = "file" /\ rql.m = "HEAD"
           plain == Resp(asked, status, close, Framed(rql, "length"))
<1>1. "length" \in Frames /\ close \in BOOLEAN /\ more \in BOOLEAN
  BY DEF Frames
<1>2. plain \in Answer /\ plain.close = close
  BY <1>1, FramedType, RespType
<1>3. ErrorAnswer(status, option, page) = Stray(plain, more)
  BY DEF ErrorAnswer
<1> HIDE DEF plain, more
<1> QED  BY <1>1, <1>2, <1>3, StrayType

LEMMA AnsweredType ==
  ASSUME asked \in Nat, NEW status \in Nat
  PROVE  Answered(status) \in Seq(LogLine)
BY DEF Answered, Line, LogLine

\* The ways an error page is not sent whole.
LEMMA ErrorFailsOK ==
  ASSUME IInv, phase # "exited", NEW status \in Nat, NEW option \in BOOLEAN,
         ErrorFails(status, option)
  PROVE  ReqOK'
<1>1. asked \in Nat /\ ReqOK /\ <<>> \in Seq(Answer) /\ <<>> \in Seq(LogLine)
  BY DEF IInv
<1> DEFINE answers == <<Cut(ErrorAnswer(status, option, "file"))>>
<1>2. CASE Die(answers, Answered(status), 111)
  <2>1. answers \in Seq(Answer)  BY <1>1, ErrorAnswerType, CutType
  <2> HIDE DEF answers
  <2> QED  BY <1>1, <1>2, <2>1, AnsweredType, DieOK
<1>3. CASE Die(<<>>, <<>>, 102)
  BY <1>1, <1>3, DieOK
<1>4. CASE Waits("spinning", Answered(status))
  <2>1. "spinning" \in Halted  BY DEF Halted
  <2> QED  BY <1>1, <1>4, <2>1, AnsweredType, WaitsOK
<1> QED  BY <1>2, <1>3, <1>4 DEF ErrorFails

LEMMA ErrorAndLoopOK ==
  ASSUME IInv, phase # "exited", NEW status \in Nat, ErrorAndLoop(status)
  PROVE  ReqOK'
<1>1. asked \in Nat /\ ReqOK /\ cont \in {0, 1, 2}
  BY DEF IInv, ReqOK, ServerOK
<1>2. ASSUME NEW page \in Pages,
             Reply(ErrorAnswer(status, FALSE, page), Answered(status), cont)
      PROVE  ReqOK'
  BY <1>1, <1>2, ErrorAnswerType, AnsweredType, ReplyOK
<1>3. CASE ErrorFails(status, FALSE)
  BY <1>3, ErrorFailsOK
<1> QED  BY <1>2, <1>3 DEF ErrorAndLoop

LEMMA ErrorAndExitOK ==
  ASSUME IInv, phase # "exited", NEW status \in Nat, ErrorAndExit(status)
  PROVE  ReqOK'
<1>1. asked \in Nat /\ ReqOK
  BY DEF IInv
<1>2. ASSUME NEW page \in Pages,
             ReplyAndExit(ErrorAnswer(status, TRUE, page), Answered(status), 0)
      PROVE  ReqOK'
  BY <1>1, <1>2, ErrorAnswerType, AnsweredType, ReplyAndExitOK
<1>3. CASE ErrorFails(status, TRUE)
  BY <1>3, ErrorFailsOK
<1> QED  BY <1>2, <1>3 DEF ErrorAndExit

LEMMA ErrorAndDieOK ==
  ASSUME IInv, phase # "exited", NEW status \in Nat, NEW e \in Nat, ErrorAndDie(status, e)
  PROVE  ReqOK'
<1>1. asked \in Nat /\ ReqOK
  BY DEF IInv
<1>2. ASSUME NEW page \in Pages,
             ReplyAndDie(ErrorAnswer(status, TRUE, page), Answered(status), e)
      PROVE  ReqOK'
  BY <1>1, <1>2, ErrorAnswerType, AnsweredType, ReplyAndDieOK
<1>3. CASE ErrorFails(status, TRUE)
  BY <1>3, ErrorFailsOK
<1> QED  BY <1>2, <1>3 DEF ErrorAndDie

LEMMA EarlyErrorOK ==
  ASSUME IInv, phase # "exited", NEW n \in Nat, NEW r, NEW status \in Nat,
         EarlyError(n, r, status)
  PROVE  ReqOK'
<1>1. "length" \in Frames /\ <<>> \in Seq(LogLine) /\ ReqOK
  BY DEF Frames, IInv
<1>2. Resp(n, status, TRUE, Framed(r, "length")) \in Answer
  BY <1>1, FramedType, RespType
<1> QED  BY <1>1, <1>2, ReplyAndExitOK DEF EarlyError

-----------------------------------------------------------------------------
(* serve(): each thing the path may lead to. *)

\* What every disjunct of Serve may count on.
Serving == IInv /\ phase = "serve"

LEMMA ServingFacts ==
  ASSUME Serving
  PROVE  /\ IInv /\ ReqOK /\ asked \in Nat /\ cont \in {0, 1, 2} /\ phase # "exited"
         /\ "length" \in Frames /\ "none" \in Frames /\ "eof" \in Frames /\ "chunked" \in Frames
BY DEF Serving, IInv, ReqOK, ServerOK, Frames

\* A status line of the code's own that never carries Connection: close.
LEMMA PlainReplyOK ==
  ASSUME Serving, NEW status \in Nat, NEW frame \in Frames,
         Reply(Resp(asked, status, FALSE, frame), Answered(status), cont)
  PROVE  ReqOK'
BY ServingFacts, RespType, AnsweredType, ReplyOK

LEMMA NormalReplyOK ==
  ASSUME Serving, NEW status \in Nat, NEW frame \in Frames,
         Reply(Normal(status, frame), Answered(status), cont)
  PROVE  ReqOK'
<1> DEFINE answer == Normal(status, frame)
<1>1. answer \in Answer /\ (answer.close => cont = 0) /\ Answered(status) \in Seq(LogLine)
  BY ServingFacts, NormalType, AnsweredType
<1> HIDE DEF answer
<1>2. Reply(answer, Answered(status), cont)
  BY DEF answer
<1> QED  BY <1>1, <1>2, ServingFacts, ReplyOK

LEMMA RedirectOK ==
  ASSUME Serving, Redirect \/ Directory
  PROVE  ReqOK'
<1> DEFINE answer == Resp(asked, 308, FALSE, Framed(rql, "length"))
           lines == Answered(308)
<1>1. answer \in Answer /\ ~answer.close
  <2>1. Framed(rql, "length") \in Frames  BY ServingFacts, FramedType
  <2> QED  BY <2>1, ServingFacts DEF Resp, Answer
<1>3. lines \in Seq(LogLine)
  BY ServingFacts, AnsweredType
<1>2. Reply(answer, lines, cont)
  BY DEF Redirect, Directory
<1> HIDE DEF answer, lines
<1> QED  BY <1>1, <1>2, <1>3, ServingFacts, ReplyOK

LEMMA OptionsOK ==
  ASSUME Serving, Options
  PROVE  ReqOK'
BY ServingFacts, PlainReplyOK, ZenonT(30) DEF Options

LEMMA AbsentOK ==
  ASSUME Serving, Absent \/ Denied \/ LongName \/ FileInfo
  PROVE  ReqOK'
BY ServingFacts, ErrorAndLoopOK DEF Absent, Denied, LongName, FileInfo

LEMMA BrokenOK ==
  ASSUME Serving, Broken
  PROVE  ReqOK'
BY ServingFacts, ErrorAndDieOK DEF Broken

LEMMA FileMethodOK ==
  ASSUME Serving, FileMethod
  PROVE  ReqOK'
BY ServingFacts, ErrorAndExitOK DEF FileMethod

LEMMA FileOK ==
  ASSUME Serving, NotModified \/ File \/ FileRefused
  PROVE  ReqOK'
<1>1. CASE NotModified
  BY <1>1, ServingFacts, NormalReplyOK DEF NotModified
<1>2. CASE File
  <2>1. PICK status \in {200, 206} :
          \/ Reply(Normal(status, "length"), Answered(status), cont)
          \/ Die(<<Cut(Normal(status, "length"))>>, Answered(status), 111)
          \/ Waits("spinning", Answered(status))
    BY <1>2 DEF File
  <2>4. CASE Waits("spinning", Answered(status))
    <3> DEFINE lines == Answered(status)
    <3>1. "spinning" \in Halted  BY DEF Halted
    <3>2. lines \in Seq(LogLine)
      BY ServingFacts, AnsweredType
    <3>3. Waits("spinning", lines)
      BY <2>4
    <3> HIDE DEF lines
    <3> QED  BY <3>1, <3>2, <3>3, ServingFacts, WaitsOK
  <2>2. CASE Reply(Normal(status, "length"), Answered(status), cont)
    BY <2>2, ServingFacts, NormalReplyOK
  <2>3. CASE Die(<<Cut(Normal(status, "length"))>>, Answered(status), 111)
    <3> DEFINE answers == <<Cut(Normal(status, "length"))>>
               lines == Answered(status)
    <3>1. answers \in Seq(Answer)
      BY ServingFacts, NormalType, CutType
    <3>2. lines \in Seq(LogLine)
      BY ServingFacts, AnsweredType
    <3>3. Die(answers, lines, 111)
      BY <2>3
    <3> HIDE DEF answers, lines
    <3> QED  BY <3>1, <3>2, <3>3, ServingFacts, DieOK
  <2> QED  BY <2>1, <2>2, <2>3, <2>4
<1>3. CASE FileRefused
  <2>1. ErrorAndLoop(403) \/ ErrorAndLoop(416) \/ ErrorAndDie(500, 111)
    BY <1>3 DEF FileRefused
  <2> QED  BY <2>1, ServingFacts, ErrorAndLoopOK, ErrorAndDieOK
<1> QED  BY <1>1, <1>2, <1>3

LEMMA RawOK ==
  ASSUME Serving, Nph \/ Rproxy
  PROVE  ReqOK'
<1>1. CASE Waits("raw", <<>>)
  <2>1. "raw" \in Halted /\ <<>> \in Seq(LogLine)  BY DEF Halted
  <2> QED  BY <1>1, <2>1, ServingFacts, WaitsOK
<1>2. CASE ErrorAndDie(500, 111)
  BY <1>2, ServingFacts, ErrorAndDieOK
<1> QED  BY <1>1, <1>2 DEF Nph, Rproxy

LEMMA CgiPageType ==
  ASSUME Serving, NEW run \in CgiRuns
  PROVE  /\ CgiPage(run) \in Answer /\ CgiPage(run).status \in Nat
         /\ CgiPage(run).close => cont = 0
<1> DEFINE auto == run.auto /\ rql.minor = 1
           more == auto /\ rql.m # "HEAD"
<1>1. CASE run.cl # "none"
  BY <1>1, ServingFacts, NormalType DEF CgiPage, Answer
<1>2. CASE run.cl = "none" /\ run.bodyless
  <2>1. Normal(304, "none") \in Answer /\ (Normal(304, "none").close => cont = 0)
    BY ServingFacts, NormalType
  <2>2. CgiPage(run) = Stray(Normal(304, "none"), more)
    BY <1>2 DEF CgiPage
  <2>3. more \in BOOLEAN
    OBVIOUS
  <2> HIDE DEF more
  <2>4. CgiPage(run) \in Answer /\ (CgiPage(run).close => cont = 0)
    BY <2>1, <2>2, <2>3, StrayType
  <2> QED  BY <2>4 DEF Answer
<1>3. CASE run.cl = "none" /\ ~run.bodyless
  <2>1. CgiPage(run) = Normal(200, IF auto THEN "chunked" ELSE "eof")
    BY <1>3 DEF CgiPage
  <2> QED  BY <2>1, ServingFacts, NormalType DEF Answer
<1> QED  BY <1>1, <1>2, <1>3

LEMMA CgiOK ==
  ASSUME Serving, NEW run \in CgiRuns, Cgi(run)
  PROVE  ReqOK'
<1> DEFINE page == CgiPage(run)
<1>1. page \in Answer /\ page.status \in Nat /\ (page.close => cont = 0)
  BY CgiPageType
<1>2. CASE ErrorAndDie(500, 111) \/ ErrorAndDie(502, 2)
  BY <1>2, ServingFacts, ErrorAndDieOK
<1>3. CASE ErrorAndLoop(504)
  BY <1>3, ServingFacts, ErrorAndLoopOK
<1>4. CASE Reply(page, Answered(page.status), cont)
  BY <1>1, <1>4, ServingFacts, AnsweredType, ReplyOK
<1>5. CASE Die(<<Cut(page)>>, Answered(page.status), 111)
  <2>1. <<Cut(page)>> \in Seq(Answer)  BY <1>1, CutType
  <2> QED  BY <1>1, <1>5, <2>1, ServingFacts, AnsweredType, DieOK
<1>6. CASE Waits("copying", Answered(page.status))
  <2>1. "copying" \in Halted  BY DEF Halted
  <2> HIDE DEF page
  <2> QED  BY <1>1, <1>6, <2>1, ServingFacts, AnsweredType, WaitsOK
<1> QED  BY <1>2, <1>3, <1>4, <1>5, <1>6 DEF Cgi

LEMMA LocalRedirectOK ==
  ASSUME Serving, NEW run \in CgiRuns, LocalRedirect(run), UNCHANGED asked
  PROVE  ReqOK'
<1>1. CASE redirs >= MaxRedirs
  BY <1>1, ServingFacts, ErrorAndDieOK DEF LocalRedirect
<1>2. CASE ~(redirs >= MaxRedirs)
  <2>1. redirs' = redirs + 1 /\ UNCHANGED <<phase, cont, rql, body, exit, out, log, asked>>
    BY <1>2 DEF LocalRedirect
  <2> QED  BY <2>1 DEF Serving, IInv, ReqOK, ServerOK, CloseIsLast, BodyOK, BodyIsOwn
<1> QED  BY <1>1, <1>2

LEMMA AnswerTwiceOK ==
  ASSUME IInv, phase # "exited", NEW page \in Answer, NEW lines \in Seq(LogLine),
         AnswerTwice(page, lines)
  PROVE  ReqOK'
<1>2. asked \in Nat /\ ReqOK /\ <<>> \in Seq(Answer)
  BY DEF IInv
<1>1. CASE Die(<<>>, lines, 102)
  BY <1>1, <1>2, DieOK
<1>6. lines \o Answered(502) \in Seq(LogLine)
  <2>1. Answered(502) \in Seq(LogLine)  BY <1>2, AnsweredType
  <2> QED  BY <2>1
<1>8. CASE CannotWrite(lines \o Answered(502))
  BY <1>2, <1>6, <1>8, CannotWriteOK
<1> SUFFICES ASSUME NEW text \in Pages,
                    Die(<<page, ErrorAnswer(502, TRUE, text)>>, lines \o Answered(502), 111)
             PROVE  ReqOK'
  BY <1>1, <1>8, ZenonT(30) DEF AnswerTwice
<1> DEFINE error == ErrorAnswer(502, TRUE, text)
           answers == <<page, error>>
           both == lines \o Answered(502)
<1>3. \A status \in Nat : ErrorAnswer(status, TRUE, text) \in Answer
  BY <1>2, ErrorAnswerType
<1>4. error \in Answer
  <2>1. 502 \in Nat  OBVIOUS
  <2> QED  BY <1>3, <2>1, Zenon
<1>5. answers \in Seq(Answer)
  <2> HIDE DEF error
  <2> QED  BY <1>4
<1>7. Die(answers, both, 111)
  OBVIOUS
<1>9. both \in Seq(LogLine)
  BY <1>6
<1> HIDE DEF answers, both
<1> QED  BY <1>2, <1>5, <1>7, <1>9, DieOK

LEMMA FcgiPageType ==
  ASSUME Serving, NEW reply
  PROVE  /\ FcgiPage(reply) \in Answer /\ FcgiPage(reply).status \in Nat
         /\ FcgiPage(reply).close => cont = 0
<1> DEFINE frame == IF reply = "bodyless" THEN "none"
                    ELSE IF reply \in {"length", "cut", "zero", "empty"} THEN "length" ELSE "chunked"
           status == IF reply = "bodyless" THEN 304 ELSE 200
<1>1. status \in Nat /\ frame \in Frames  BY ServingFacts
<1>2. FcgiPage(reply) = Normal(status, frame)  BY DEF FcgiPage
<1> HIDE DEF status, frame
<1> QED  BY <1>1, <1>2, ServingFacts, NormalType DEF Answer

LEMMA FcgiEndOK ==
  ASSUME Serving, NEW reply, NEW page \in Answer, NEW lines \in Seq(LogLine),
         page.close => cont = 0, FcgiEnd(reply, page, lines)
  PROVE  ReqOK'
<1>1. Cut(page) \in Answer /\ Stray(page, TRUE) \in Answer
  BY CutType, StrayType
<1>2. \/ ReplyAndDie(page, lines, 111) \/ ReplyAndDie(Cut(page), lines, 111)
      \/ AnswerTwice(page, lines) \/ AnswerTwice(Stray(page, TRUE), lines)
      \/ AnswerTwice(Cut(page), lines)
  BY DEF FcgiEnd
<1>3. ASSUME NEW answer \in Answer, ReplyAndDie(answer, lines, 111)
      PROVE  ReqOK'
  BY <1>3, ServingFacts, ReplyAndDieOK
<1>4. ASSUME NEW answer \in Answer, AnswerTwice(answer, lines)
      PROVE  ReqOK'
  BY <1>4, ServingFacts, AnswerTwiceOK
<1> QED  BY <1>1, <1>2, <1>3, <1>4

LEMMA FastcgiOK ==
  ASSUME Serving, NEW reply \in FcgiReplies, Fastcgi(reply)
  PROVE  ReqOK'
<1> DEFINE page == FcgiPage(reply)
           lines == Answered(page.status)
<1>1. page \in Answer /\ page.status \in Nat /\ (page.close => cont = 0)
  BY FcgiPageType
<1>2. lines \in Seq(LogLine)
  <2> HIDE DEF page
  <2> QED  BY <1>1, ServingFacts, AnsweredType
<1>3. \/ ErrorAndDie(500, 111) \/ ErrorAndDie(502, 111) \/ ErrorAndDie(502, 2)
      \/ Die(<<>>, <<>>, 111) \/ Loop(<<>>, <<>>, cont)
      \/ Reply(page, lines, cont) \/ FcgiEnd(reply, page, lines)
  BY DEF Fastcgi
<1> HIDE DEF page, lines
<1>4. CASE ErrorAndDie(500, 111) \/ ErrorAndDie(502, 111) \/ ErrorAndDie(502, 2)
  BY <1>4, ServingFacts, ErrorAndDieOK
<1>5. CASE Die(<<>>, <<>>, 111)
  <2>1. <<>> \in Seq(Answer) /\ <<>> \in Seq(LogLine)
    OBVIOUS
  <2> QED  BY <1>5, <2>1, ServingFacts, DieOK
<1>6. CASE Loop(<<>>, <<>>, cont)
  <2>1. /\ <<>> \in Seq(Answer) /\ <<>> \in Seq(LogLine)
        /\ \A i \in DOMAIN <<>> : <<>>[i].close => cont = 0
    OBVIOUS
  <2> QED  BY <1>6, <2>1, ServingFacts, LoopOK
<1>7. CASE Reply(page, lines, cont)
  BY <1>1, <1>2, <1>7, ServingFacts, ReplyOK
<1>8. CASE FcgiEnd(reply, page, lines)
  BY <1>1, <1>2, <1>8, FcgiEndOK
<1> QED  BY <1>3, <1>4, <1>5, <1>6, <1>7, <1>8

LEMMA ServeOK ==
  ASSUME IInv, Serve
  PROVE  IInv'
<1>1. Serving /\ UNCHANGED <<clientvars, net, asked, astray>>
  BY DEF Serve, Serving
<1>2. ClientOK' /\ asked' \in Nat
  BY <1>1 DEF Serving, IInv, ClientOK, clientvars
<1>3. ReqOK'
  <2>1. CASE Redirect \/ Directory  BY <1>1, <2>1, RedirectOK
  <2>2. CASE Absent \/ Denied \/ LongName \/ FileInfo  BY <1>1, <2>2, AbsentOK
  <2>3. CASE Broken  BY <1>1, <2>3, BrokenOK
  <2>4. CASE FileMethod  BY <1>1, <2>4, FileMethodOK
  <2>5. CASE Options  BY <1>1, <2>5, OptionsOK
  <2>6. CASE NotModified \/ File \/ FileRefused  BY <1>1, <2>6, FileOK
  <2>7. CASE Nph \/ Rproxy  BY <1>1, <2>7, RawOK
  <2>8. CASE \E reply \in FcgiReplies : Fastcgi(reply)  BY <1>1, <2>8, FastcgiOK
  <2>9. CASE \E run \in CgiRuns : Cgi(run) \/ LocalRedirect(run)
    BY <1>1, <2>9, CgiOK, LocalRedirectOK
  <2> QED  BY <2>1, <2>2, <2>3, <2>4, <2>5, <2>6, <2>7, <2>8, <2>9 DEF Serve, Static
<1> QED  BY <1>2, <1>3 DEF IInv

-----------------------------------------------------------------------------
(* The steps that are not serve()'s. *)

LEMMA PartsType ==
  ASSUME NEW r \in Requests
  PROVE  LineOf(r) \in Part /\ RestOf(r) \in Seq(Part)
<1>1. /\ LineOf(r) \in Part /\ [part |-> "headers", rq |-> r] \in Part
      /\ [part |-> "body", rq |-> r] \in Part
  BY DEF LineOf, Part
<1> QED  BY <1>1 DEF RestOf, HeadersOf, BodyOf

LEMMA ClientKeeps ==
  ASSUME IInv, Client
  PROVE  IInv'
<1>1. UNCHANGED <<phase, cont, rql, asked, body, redirs, exit, out, log, astray>>
  BY DEF Client, ClientSend, ClientLeave, ClientAsk
<1>2. ReqOK' /\ asked' \in Nat
  BY <1>1 DEF IInv, ReqOK, ServerOK, CloseIsLast, BodyOK, BodyIsOwn
<1>3. ClientOK'
  <2>1. CASE ClientSend
    <3>1. Head(rest) \in Part /\ Tail(rest) \in Seq(Part)
      BY <2>1 DEF ClientSend, IInv, ClientOK
    <3> QED  BY <1>1, <2>1, <3>1 DEF ClientSend, IInv, ClientOK
  <2>2. CASE ClientLeave
    BY <1>1, <2>2 DEF ClientLeave, IInv, ClientOK
  <2>3. ASSUME NEW r \in Requests, ClientAsk(r)
        PROVE  ClientOK'
    <3>1. LineOf(r) \in Part /\ RestOf(r) \in Seq(Part)
      BY PartsType
    <3> QED  BY <1>1, <2>3, <3>1 DEF ClientAsk, IInv, ClientOK
  <2> QED  BY <2>1, <2>2, <2>3 DEF Client
<1> QED  BY <1>2, <1>3 DEF IInv

\* The client's variables after a step of the server that reads one part.
LEMMA ReadKeepsClient ==
  ASSUME IInv, UNCHANGED <<clientvars, astray>>, net' = Tail(net) \/ net' = net,
         net # <<>> \/ net' = net
  PROVE  ClientOK'
BY DEF IInv, ClientOK, clientvars

LEMMA TakeLineOK ==
  ASSUME IInv, phase = "line", NEW r \in Requests, NEW line, TakeLine(r, line)
  PROVE  ReqOK'
<1>1. asked + 1 \in Nat /\ phase # "exited" /\ ReqOK
  BY DEF IInv
<1>2. CASE phase' = "headers" /\ rql' = r /\ UNCHANGED <<cont, body, redirs, exit, out, log>>
  <2>1. ServerOK'
    BY <1>2 DEF IInv, ReqOK, ServerOK, Phases
  <2>2. CloseIsLast' /\ BodyOK'
    BY <1>2 DEF IInv, ReqOK, CloseIsLast, BodyOK, BodyIsOwn
  <2> QED  BY <2>1, <2>2 DEF ReqOK
<1>3. CASE EarlyError(asked + 1, r, 400)
  BY <1>1, <1>3, EarlyErrorOK
<1>4. CASE LogAndExit(<<>>, <<>>, 1)
  <2>1. <<>> \in Seq(Answer) /\ <<>> \in Seq(LogLine)  OBVIOUS
  <2> QED  BY <1>1, <1>4, <2>1, LogAndExitOK
<1> QED  BY <1>2, <1>3, <1>4 DEF TakeLine

LEMMA ReadLineOK ==
  ASSUME IInv, ReadLine
  PROVE  IInv'
<1>1. /\ phase = "line" /\ net # <<>> /\ asked' = asked + 1
      /\ UNCHANGED <<client, rest, astray>>
  BY DEF ReadLine
<1>2. asked' \in Nat /\ net \in Seq(Part) /\ Tail(net) \in Seq(Part) /\ begun \in Nat
  BY <1>1 DEF IInv, ClientOK
<1>3. PICK part \in Part : part = Head(net)
  BY <1>1, <1>2
<1>4. part.rq \in Requests
  BY DEF Part
<1>5. ASSUME NEW r \in Requests, NEW line, TakeLine(r, line), net' \in Seq(Part), begun' \in Nat
      PROVE  IInv'
  <2>1. ReqOK'
    BY <1>1, <1>5, TakeLineOK
  <2> QED  BY <1>1, <1>2, <1>5, <2>1 DEF IInv, ClientOK
<1>6. CASE /\ net' = Tail(net) /\ UNCHANGED begun
           /\ TakeLine(part.rq, IF part.part = "line" THEN part.rq.line ELSE "bad")
  BY <1>2, <1>4, <1>5, <1>6
<1>7. ASSUME NEW r \in Requests, NEW left \in {net, Tail(net)}, begun' = begun + 1,
             net' = RestOf(r) \o left, TakeLine(r, r.line)
      PROVE  IInv'
  <2>1. left \in Seq(Part) /\ RestOf(r) \in Seq(Part)
    BY <1>2, PartsType
  <2>2. net' \in Seq(Part) /\ begun' \in Nat
    BY <1>2, <1>7, <2>1
  <2> QED  BY <1>5, <1>7, <2>2
<1> QED  BY <1>3, <1>6, <1>7 DEF ReadLine

LEMMA EndOfRequestsOK ==
  ASSUME IInv, EndOfRequests \/ ReadError \/ HeadersEnd
  PROVE  IInv'
<1>1. UNCHANGED <<clientvars, net, asked, astray>> /\ phase # "exited"
  BY DEF EndOfRequests, ReadError, HeadersEnd
<1>2. ClientOK' /\ asked' \in Nat
  BY <1>1 DEF IInv, ClientOK, clientvars
<1>3. ReqOK'
  <2>1. /\ <<>> \in Seq(Answer) /\ <<>> \in Seq(LogLine) /\ ReqOK /\ asked \in Nat
        /\ \A i \in DOMAIN <<>> : <<>>[i].close => 0 = 0
    BY DEF IInv
  <2>2. CASE Loop(<<>>, <<>>, 0)
    BY <1>1, <2>1, <2>2, LoopOK
  <2>3. CASE LogAndExit(<<>>, <<>>, 1)
    BY <2>1, <2>3, LogAndExitOK
  <2>4. CASE EarlyError(asked, rql, 400)
    BY <1>1, <2>1, <2>4, EarlyErrorOK
  <2> QED  BY <2>2, <2>3, <2>4 DEF EndOfRequests, ReadError, HeadersEnd
<1> QED  BY <1>2, <1>3 DEF IInv

LEMMA NextContType ==
  ASSUME IInv, NEW r
  PROVE  NextCont(r) \in {0, 1, 2}
BY DEF NextCont, IInv, ReqOK, ServerOK

LEMMA HeadersFaultType ==
  ASSUME NEW r
  PROVE  HeadersFault(r) \in Nat
BY DEF HeadersFault

LEMMA ReadHeadersOK ==
  ASSUME IInv, ReadHeaders
  PROVE  IInv'
<1> DEFINE c == NextCont(rql)
           request == <<Line("request", asked, 0)>>
           both == request \o Answered(200)
           answer == Resp(asked, 200, FALSE, "length")
<1>1. /\ phase = "headers" /\ net # <<>> /\ net' = Tail(net)
      /\ UNCHANGED <<clientvars, asked, astray>>
  BY DEF ReadHeaders
<1>2. ClientOK' /\ asked' \in Nat
  BY <1>1, ReadKeepsClient DEF IInv
<1>3. /\ ReqOK /\ asked \in Nat /\ c \in {0, 1, 2} /\ <<>> \in Seq(LogLine)
      /\ phase # "exited"
  BY <1>1, NextContType DEF IInv
<1>4. answer \in Answer /\ ~answer.close
  BY <1>3 DEF Resp, Answer, Frames
<1>5. request \in Seq(LogLine) /\ both \in Seq(LogLine)
  <2>1. request \in Seq(LogLine)  BY <1>3 DEF Line, LogLine
  <2>2. Answered(200) \in Seq(LogLine)  BY <1>3, AnsweredType
  <2> HIDE DEF request
  <2> QED  BY <2>1, <2>2
<1>6. \/ EarlyError(asked, rql, HeadersFault(rql))
      \/ Reply(answer, <<>>, c)
      \/ Reply(answer, both, c)
      \/ /\ phase' = IF Coding(rql) = "none" THEN "serve" ELSE "body"
         /\ cont' = c /\ log' = log \o request
         /\ UNCHANGED <<rql, body, redirs, exit, out>>
  BY DEF ReadHeaders
<1> HIDE DEF c, request, both, answer
<1>7. ReqOK'
  <2>1. CASE EarlyError(asked, rql, HeadersFault(rql))
    BY <1>3, <2>1, HeadersFaultType, EarlyErrorOK
  <2>2. CASE Reply(answer, <<>>, c)
    BY <1>3, <1>4, <2>2, ReplyOK
  <2>3. CASE Reply(answer, both, c)
    BY <1>3, <1>4, <1>5, <2>3, ReplyOK
  <2>4. CASE /\ phase' = IF Coding(rql) = "none" THEN "serve" ELSE "body"
             /\ cont' = c /\ log' = log \o request
             /\ UNCHANGED <<rql, body, redirs, exit, out>>
    <3>1. ServerOK'
      BY <1>1, <1>3, <1>5, <2>4 DEF ReqOK, ServerOK, Phases
    <3>2. CloseIsLast'
      BY <1>1, <2>4 DEF IInv, ReqOK, CloseIsLast
    <3>3. BodyOK'
      BY <1>1, <2>4 DEF IInv, ReqOK, BodyOK, BodyIsOwn, HasOwnBody, Coding
    <3> QED  BY <3>1, <3>2, <3>3 DEF ReqOK
  <2> QED  BY <1>6, <2>1, <2>2, <2>3, <2>4
<1> QED  BY <1>2, <1>7 DEF IInv

LEMMA ReadBodyOK ==
  ASSUME IInv, ReadFixedBody \/ ReadChunkedBody
  PROVE  IInv'
<1>1. phase = "body" /\ phase # "exited" /\ UNCHANGED <<clientvars, asked>>
  BY DEF ReadFixedBody, ReadChunkedBody
<1>2. ClientOK' /\ asked' \in Nat
  <2>1. net \in Seq(Part) /\ Len(net) \in Nat /\ (net # <<>> => Tail(net) \in Seq(Part))
    BY DEF IInv, ClientOK
  <2>2. \A n \in ChunkStops : SubSeq(net, n + 1, Len(net)) \in Seq(Part)
    <3> SUFFICES ASSUME NEW n \in ChunkStops PROVE SubSeq(net, n + 1, Len(net)) \in Seq(Part)
      OBVIOUS
    <3>1. n \in 0..Len(net)  BY DEF ChunkStops
    <3> QED  BY <2>1, <3>1
  <2>3. \/ net' = net \/ (net # <<>> /\ net' = Tail(net))
        \/ \E n \in ChunkStops : net' = SubSeq(net, n + 1, Len(net))
    BY DEF ReadFixedBody, ReadChunkedBody
  <2>4. astray' = astray \/ \E n \in ChunkStops : astray' = (astray \/ n # 1)
    BY DEF ReadFixedBody, ReadChunkedBody
  <2>5. net' \in Seq(Part)  BY <2>1, <2>2, <2>3
  <2>6. astray' \in BOOLEAN  BY <2>4 DEF IInv, ClientOK
  <2> QED  BY <1>1, <2>5, <2>6 DEF IInv, ClientOK, clientvars
<1>3. \/ ErrorAndExit(413) \/ ErrorAndExit(400) \/ ErrorAndExit(408) \/ ErrorAndDie(500, 111)
      \/ /\ phase' = "serve" /\ UNCHANGED <<cont, rql, redirs, exit, out, log>>
         /\ body' = IF HasOwnBody(rql) THEN asked ELSE body
  BY DEF ReadFixedBody, ReadChunkedBody, HasOwnBody
<1>4. ReqOK'
  <2>1. CASE ErrorAndExit(413) \/ ErrorAndExit(400) \/ ErrorAndExit(408)
    BY <1>1, <2>1, ErrorAndExitOK
  <2>2. CASE ErrorAndDie(500, 111)
    BY <1>1, <2>2, ErrorAndDieOK
  <2>3. CASE /\ phase' = "serve" /\ UNCHANGED <<cont, rql, redirs, exit, out, log>>
             /\ body' = IF HasOwnBody(rql) THEN asked ELSE body
    <3>1. ServerOK'
      BY <1>1, <2>3 DEF IInv, ReqOK, ServerOK, Phases
    <3>2. CloseIsLast'
      BY <1>1, <2>3 DEF IInv, ReqOK, CloseIsLast
    <3>3. HasOwnBody(rql)' = HasOwnBody(rql)
      BY <2>3 DEF HasOwnBody, Coding
    <3>4. BodyOK'
      BY <1>1, <2>3, <3>3 DEF IInv, ReqOK, BodyOK, BodyIsOwn
    <3> QED  BY <3>1, <3>2, <3>4 DEF ReqOK
  <2> QED  BY <1>3, <2>1, <2>2, <2>3
<1> QED  BY <1>2, <1>4 DEF IInv

\* The end of a process that was held up.
LEMMA HaltedEndsOK ==
  ASSUME IInv, Unblocked \/ RawEnds
  PROVE  IInv'
<1>1. UNCHANGED <<clientvars, net, asked, astray>>
  BY DEF Unblocked, RawEnds
<1>2. ClientOK' /\ asked' \in Nat /\ asked \in Nat /\ ReqOK
  BY <1>1 DEF IInv, ClientOK, clientvars
<1>3. "eof" \in Frames
  BY DEF Frames
<1>4. Framed(rql, "eof") \in Frames
  BY <1>3, FramedType
<1>5. Raw \in Answer
  BY <1>2, <1>4, RespType DEF Raw
<1>6. Cut(Raw) \in Answer
  <2> DEFINE a == Raw
  <2>1. a \in Answer  BY <1>5
  <2> HIDE DEF a
  <2>2. Cut(a) \in Answer  BY <2>1, CutType
  <2> QED  BY <2>2 DEF a
<1>7. <<Raw>> \in Seq(Answer) /\ <<Cut(Raw)>> \in Seq(Answer) /\ <<>> \in Seq(Answer)
  BY <1>5, <1>6
<1>8. \E answers \in Seq(Answer), e \in Nat : Die(answers, <<>>, e)
  <2>1. CASE Unblocked  BY <1>7, <2>1 DEF Unblocked
  <2>2. CASE RawEnds  BY <1>7, <2>2 DEF RawEnds
  <2> QED  BY <2>1, <2>2
<1>9. <<>> \in Seq(LogLine)
  OBVIOUS
<1>10. ReqOK'
  BY <1>2, <1>8, <1>9, DieOK
<1> QED  BY <1>2, <1>10 DEF IInv

-----------------------------------------------------------------------------
(* The theorems. *)

LEMMA InitIInv == Init => IInv
<1> SUFFICES ASSUME Init PROVE IInv
  OBVIOUS
<1>1. ClientOK /\ asked \in Nat
  <2>1. /\ client = "open" /\ begun = 0 /\ rest = <<>> /\ net = <<>> /\ asked = 0
        /\ astray = FALSE
    BY DEF Init
  <2>2. astray \in BOOLEAN
    BY <2>1, Zenon
  <2> QED  BY <2>1, <2>2 DEF ClientOK
<1>2. ReqOK
  BY DEF Init, ReqOK, ServerOK, CloseIsLast, BodyOK, BodyIsOwn, Phases
<1> QED  BY <1>1, <1>2 DEF IInv

LEMMA NextIInv == IInv /\ [Next]_vars => IInv'
<1> SUFFICES ASSUME IInv, [Next]_vars PROVE IInv'
  OBVIOUS
<1>1. CASE Client  BY <1>1, ClientKeeps
<1>2. CASE ReadLine  BY <1>2, ReadLineOK
<1>3. CASE EndOfRequests \/ ReadError \/ HeadersEnd  BY <1>3, EndOfRequestsOK
<1>4. CASE ReadHeaders  BY <1>4, ReadHeadersOK
<1>5. CASE ReadFixedBody \/ ReadChunkedBody  BY <1>5, ReadBodyOK
<1>6. CASE Serve  BY <1>6, ServeOK
<1>8. CASE Unblocked \/ RawEnds  BY <1>8, HaltedEndsOK
<1>7. CASE UNCHANGED vars
  <2>1. UNCHANGED <<clientvars, net, phase, cont, rql, asked, body, redirs, exit, out, log, astray>>
    BY <1>7 DEF vars, clientvars
  <2>2. ClientOK' /\ asked' \in Nat
    BY <2>1 DEF IInv, ClientOK, clientvars
  <2>3. ReqOK'
    BY <2>1 DEF IInv, ReqOK, ServerOK, CloseIsLast, BodyOK, BodyIsOwn
  <2> QED  BY <2>2, <2>3 DEF IInv
<1> QED  BY <1>1, <1>2, <1>3, <1>4, <1>5, <1>6, <1>7, <1>8 DEF Next, Server, Over

\* The inductive invariant holds in every behaviour of tipideed.
THEOREM Inductive == Spec => []IInv
BY InitIInv, NextIInv, PTL DEF Spec

\* Every variable of the main loop keeps its type, whatever is served.
THEOREM TypeCorrect == Spec => []TypeOK
<1>1. IInv => TypeOK
  BY DEF IInv, ClientOK, ReqOK, ServerOK, TypeOK
<1> QED  BY <1>1, Inductive, PTL

\* Once an answer announced the close, the process is over: no error, script or
\* application makes it read or write on.
THEOREM CloseAnnounced == Spec => []CloseIsLast
<1>1. IInv => CloseIsLast
  BY DEF IInv, ReqOK
<1> QED  BY <1>1, Inductive, PTL

\* serve() is never given the body of an earlier request, and always its own.
THEOREM OwnBody == Spec => []BodyIsOwn
<1>1. IInv => BodyIsOwn
  BY DEF IInv, ReqOK, BodyOK
<1> QED  BY <1>1, Inductive, PTL

-----------------------------------------------------------------------------
(* The exchange.  It is what HttpExchange says unless an application fails    *)
(* after the headers of its page, is answered for, and is answered for again, *)
(* or redirects and is forgotten.                                             *)

WellBehaved ==
  FcgiReplies \cap {"localredirect", "nodata", "zero", "bodyless", "empty", "broken"} = {}

\* What becomes of a request that was taken: it has its whole answer on a connection
\* that is kept, and then is no last one, the process is over, or it waits.
Kept ==
  /\ phase' = "line" /\ rql' = NoRequest /\ ~Final(rql) /\ exit' = exit
  /\ \E a \in Answer : a.n = asked /\ a.whole /\ out' = Append(out, a)
Ended ==
  /\ phase' = "exited"
  /\ \/ out' = out /\ exit' # 0
     \/ \E a \in Answer : a.n = asked /\ (exit' = 0 => a.whole) /\ out' = Append(out, a)
Hangs == phase' \in Halted /\ UNCHANGED <<rql, out, exit>>
Stopped == Ended \/ Hangs

LEMMA LoopEnds ==
  ASSUME out \in Seq(Answer), NEW a \in Answer, a.n = asked, a.whole, NEW lines, NEW c,
         Final(rql) => c = 0, Loop(<<a>>, lines, c)
  PROVE  Kept \/ Ended
<1>1. out' = Append(out, a)  BY DEF Loop
<1>2. CASE c = 0  BY <1>1, <1>2 DEF Loop, Ended
<1>3. CASE c # 0  BY <1>1, <1>3 DEF Loop, NextIteration, Kept
<1> QED  BY <1>2, <1>3

LEMMA DieEnds ==
  ASSUME out \in Seq(Answer), NEW a \in Answer, a.n = asked, NEW lines, NEW e, e = 0 => a.whole,
         Die(<<a>>, lines, e) \/ LogAndExit(<<a>>, lines, e)
  PROVE  Ended
<1>1. out' = Append(out, a) /\ phase' = "exited" /\ exit' = e  BY DEF Die, LogAndExit
<1> QED  BY <1>1 DEF Ended

LEMMA SilentEnds ==
  ASSUME out \in Seq(Answer), NEW lines, NEW e, e # 0,
         Die(<<>>, lines, e) \/ LogAndExit(<<>>, lines, e)
  PROVE  Ended
<1>1. out' = out /\ phase' = "exited" /\ exit' = e  BY DEF Die, LogAndExit
<1> QED  BY <1>1 DEF Ended

LEMMA CannotWriteEnds ==
  ASSUME out \in Seq(Answer), NEW lines, CannotWrite(lines)
  PROVE  Stopped
<1>1. CASE Die(<<>>, lines, 111)  BY <1>1, SilentEnds DEF Stopped
<1>2. CASE Waits("blocked", lines)  BY <1>2 DEF Waits, Hangs, Halted, Stopped
<1> QED  BY <1>1, <1>2 DEF CannotWrite

LEMMA ReplyEnds ==
  ASSUME out \in Seq(Answer), NEW a \in Answer, a.n = asked, a.whole, NEW lines, NEW c,
         Final(rql) => c = 0, Reply(a, lines, c)
  PROVE  Kept \/ Stopped
BY LoopEnds, CannotWriteEnds DEF Reply, Stopped

LEMMA ReplyAndExitEnds ==
  ASSUME out \in Seq(Answer), NEW a \in Answer, a.n = asked, NEW lines, NEW e, e = 0 => a.whole,
         ReplyAndExit(a, lines, e) \/ ReplyAndDie(a, lines, e)
  PROVE  Stopped
BY DieEnds, CannotWriteEnds DEF ReplyAndExit, ReplyAndDie, Stopped

\* Every answer has the number of its request, and only Cut() makes it less than whole.
LEMMA RespIs ==
  ASSUME NEW n \in Nat, NEW status \in Nat, NEW close \in BOOLEAN, NEW frame \in Frames
  PROVE  /\ Resp(n, status, close, frame) \in Answer
         /\ Resp(n, status, close, frame).n = n /\ Resp(n, status, close, frame).whole
BY DEF Resp, Answer

LEMMA CutIs ==
  ASSUME NEW a \in Answer
  PROVE  Cut(a) \in Answer /\ Cut(a).n = a.n
BY DEF Answer, Cut

LEMMA StrayIs ==
  ASSUME NEW a \in Answer, NEW b \in BOOLEAN
  PROVE  Stray(a, b) \in Answer /\ Stray(a, b).n = a.n /\ Stray(a, b).whole = a.whole
BY DEF Answer, Stray

LEMMA NormalIs ==
  ASSUME asked \in Nat, NEW status \in Nat, NEW frame \in Frames
  PROVE  /\ Normal(status, frame) \in Answer
         /\ Normal(status, frame).n = asked /\ Normal(status, frame).whole
<1>1. Framed(rql, frame) \in Frames /\ (cont = 0) \in BOOLEAN
  BY FramedType
<1> QED  BY <1>1, RespIs DEF Normal

LEMMA ErrorAnswerIs ==
  ASSUME asked \in Nat, NEW status \in Nat, NEW option \in BOOLEAN, NEW page
  PROVE  /\ ErrorAnswer(status, option, page) \in Answer
         /\ ErrorAnswer(status, option, page).n = asked /\ ErrorAnswer(status, option, page).whole
<1> DEFINE close == option \/ (page = "text" /\ cont = 0)
           more == page = "file" /\ rql.m = "HEAD"
           plain == Resp(asked, status, close, Framed(rql, "length"))
<1>1. "length" \in Frames /\ close \in BOOLEAN /\ more \in BOOLEAN
  BY DEF Frames
<1>2. plain \in Answer /\ plain.n = asked /\ plain.whole
  <2>1. Framed(rql, "length") \in Frames  BY <1>1, FramedType
  <2> HIDE DEF close
  <2> QED  BY <1>1, <2>1 DEF Resp, Answer
<1>3. ErrorAnswer(status, option, page) = Stray(plain, more)
  BY DEF ErrorAnswer
<1> HIDE DEF plain, more
<1> QED  BY <1>1, <1>2, <1>3, StrayIs

\* A request in flight.
Flying == asked \in Nat /\ out \in Seq(Answer)

LEMMA ErrorFailsEnds ==
  ASSUME Flying, NEW status \in Nat, NEW option \in BOOLEAN, ErrorFails(status, option)
  PROVE  Stopped
<1> DEFINE a == ErrorAnswer(status, option, "file")
<1>1. a \in Answer /\ a.n = asked  BY ErrorAnswerIs DEF Flying
<1>2. Cut(a) \in Answer /\ Cut(a).n = asked
  <2> HIDE DEF a
  <2> QED  BY <1>1, CutIs
<1>3. \/ Die(<<Cut(a)>>, Answered(status), 111) \/ Die(<<>>, <<>>, 102)
      \/ Waits("spinning", Answered(status))
  BY DEF ErrorFails
<1> DEFINE b == Cut(a)
<1> HIDE DEF b, a
<1>4. b \in Answer /\ b.n = asked  BY <1>2 DEF b
<1>5. \/ Die(<<b>>, Answered(status), 111) \/ Die(<<>>, <<>>, 102)
      \/ Waits("spinning", Answered(status))
  BY <1>3 DEF b
<1>6. CASE Waits("spinning", Answered(status))
  BY <1>6 DEF Waits, Hangs, Halted, Stopped
<1> QED  BY <1>4, <1>5, <1>6, DieEnds, SilentEnds DEF Flying, Stopped

LEMMA ErrorAndLoopEnds ==
  ASSUME Flying, Final(rql) => cont = 0, NEW status \in Nat, ErrorAndLoop(status)
  PROVE  Kept \/ Stopped
<1>1. ASSUME NEW page \in Pages,
             Reply(ErrorAnswer(status, FALSE, page), Answered(status), cont)
      PROVE  Kept \/ Stopped
  BY <1>1, ErrorAnswerIs, ReplyEnds DEF Flying
<1>2. CASE ErrorFails(status, FALSE)
  BY <1>2, ErrorFailsEnds
<1> QED  BY <1>1, <1>2 DEF ErrorAndLoop

LEMMA ErrorAndExitEnds ==
  ASSUME Flying, NEW status \in Nat, NEW e \in Nat, ErrorAndExit(status) \/ ErrorAndDie(status, e)
  PROVE  Stopped
<1>1. ASSUME NEW page \in Pages, NEW code \in Nat,
             \/ ReplyAndExit(ErrorAnswer(status, TRUE, page), Answered(status), code)
             \/ ReplyAndDie(ErrorAnswer(status, TRUE, page), Answered(status), code)
      PROVE  Stopped
  BY <1>1, ErrorAnswerIs, ReplyAndExitEnds DEF Flying
<1>2. CASE ErrorFails(status, TRUE)
  BY <1>2, ErrorFailsEnds
<1> QED  BY <1>1, <1>2 DEF ErrorAndExit, ErrorAndDie

LEMMA EarlyErrorEnds ==
  ASSUME Flying, NEW r, NEW status \in Nat, EarlyError(asked, r, status)
  PROVE  Stopped
<1>1. "length" \in Frames  BY DEF Frames
<1>2. Framed(r, "length") \in Frames  BY <1>1, FramedType
<1> DEFINE a == Resp(asked, status, TRUE, Framed(r, "length"))
<1>3. a \in Answer /\ a.n = asked /\ a.whole  BY <1>2, RespIs DEF Flying
<1>4. ReplyAndExit(a, <<>>, 1)  BY DEF EarlyError
<1> HIDE DEF a
<1> QED  BY <1>3, <1>4, ReplyAndExitEnds DEF Flying

\* serve() ends its request, or goes on with it.
Stays == UNCHANGED <<phase, rql, out, exit, cont>>

LEMMA CgiPageIs ==
  ASSUME asked \in Nat, NEW run
  PROVE  CgiPage(run) \in Answer /\ CgiPage(run).n = asked /\ CgiPage(run).whole
<1> DEFINE auto == run.auto /\ rql.minor = 1
           more == auto /\ rql.m # "HEAD"
<1>0. \A frame \in Frames : \A status \in Nat :
        /\ Normal(status, frame) \in Answer
        /\ Normal(status, frame).n = asked /\ Normal(status, frame).whole
  BY NormalIs
<1>f. "length" \in Frames /\ "none" \in Frames /\ "eof" \in Frames /\ "chunked" \in Frames
  BY DEF Frames
<1>1. CASE run.cl # "none"  BY <1>0, <1>1, <1>f DEF CgiPage
<1>2. CASE run.cl = "none" /\ run.bodyless
  <2>1. CgiPage(run) = Stray(Normal(304, "none"), more)  BY <1>2 DEF CgiPage
  <2>2. more \in BOOLEAN  OBVIOUS
  <2>3. Normal(304, "none") \in Answer /\ Normal(304, "none").n = asked /\ Normal(304, "none").whole
    BY <1>0, <1>f
  <2> HIDE DEF more
  <2> QED  BY <2>1, <2>2, <2>3, StrayIs
<1>3. CASE run.cl = "none" /\ ~run.bodyless
  <2>1. CgiPage(run) = Normal(200, IF auto THEN "chunked" ELSE "eof")  BY <1>3 DEF CgiPage
  <2> QED  BY <1>0, <1>f, <2>1
<1> QED  BY <1>1, <1>2, <1>3

LEMMA CgiEnds ==
  ASSUME Flying, Final(rql) => cont = 0, NEW run, Cgi(run) \/ LocalRedirect(run)
  PROVE  Kept \/ Stopped \/ Stays
<1> DEFINE page == CgiPage(run)
<1>1. page \in Answer /\ page.n = asked /\ page.whole  BY CgiPageIs DEF Flying
<1>2. \/ ErrorAndDie(500, 111) \/ ErrorAndDie(502, 2) \/ ErrorAndLoop(504)
      \/ Reply(page, Answered(page.status), cont)
      \/ Die(<<Cut(page)>>, Answered(page.status), 111)
      \/ Waits("copying", Answered(page.status))
      \/ Stays
  BY DEF Cgi, LocalRedirect, Stays
<1> HIDE DEF page
<1>3. CASE Die(<<Cut(page)>>, Answered(page.status), 111)
  <2>1. Cut(page) \in Answer /\ Cut(page).n = asked  BY <1>1, CutIs
  <2> QED  BY <1>3, <2>1, DieEnds DEF Flying, Stopped
<1>7. CASE Waits("copying", Answered(page.status))
  BY <1>7 DEF Waits, Hangs, Halted, Stopped
<1>4. CASE Reply(page, Answered(page.status), cont)
  BY <1>1, <1>4, ReplyEnds DEF Flying
<1>5. CASE ErrorAndDie(500, 111) \/ ErrorAndDie(502, 2)  BY <1>5, ErrorAndExitEnds
<1>6. CASE ErrorAndLoop(504)  BY <1>6, ErrorAndLoopEnds
<1> QED  BY <1>2, <1>3, <1>4, <1>5, <1>6, <1>7

LEMMA FastcgiEnds ==
  ASSUME Flying, Final(rql) => cont = 0, WellBehaved, NEW reply \in FcgiReplies, Fastcgi(reply)
  PROVE  Kept \/ Stopped
<1> DEFINE page == FcgiPage(reply)
           frame == IF reply \in {"length", "cut"} THEN "length" ELSE "chunked"
<1>1. reply \notin {"localredirect", "nodata", "zero", "bodyless", "empty", "broken"}
  BY DEF WellBehaved
<1>2. page \in Answer /\ page.n = asked /\ page.whole
  <2>1. page = Normal(200, frame)  BY <1>1 DEF FcgiPage
  <2>2. frame \in Frames  BY DEF Frames
  <2> HIDE DEF frame
  <2> QED  BY <2>1, <2>2, NormalIs DEF Flying
<1>3. \/ ErrorAndDie(500, 111) \/ ErrorAndDie(502, 111) \/ ErrorAndDie(502, 2)
      \/ Die(<<>>, <<>>, 111)
      \/ Reply(page, Answered(page.status), cont)
      \/ ReplyAndDie(page, Answered(page.status), 111)
      \/ ReplyAndDie(Cut(page), Answered(page.status), 111)
  BY <1>1 DEF Fastcgi, FcgiEnd
<1> HIDE DEF page
<1>4. CASE ErrorAndDie(500, 111) \/ ErrorAndDie(502, 111) \/ ErrorAndDie(502, 2)
  BY <1>4, ErrorAndExitEnds
<1>5. CASE Die(<<>>, <<>>, 111)  BY <1>5, SilentEnds DEF Flying, Stopped
<1>6. CASE Reply(page, Answered(page.status), cont)  BY <1>2, <1>6, ReplyEnds DEF Flying
<1>7. CASE ReplyAndDie(page, Answered(page.status), 111)
  BY <1>2, <1>7, ReplyAndExitEnds DEF Flying
<1>8. CASE ReplyAndDie(Cut(page), Answered(page.status), 111)
  <2>1. Cut(page) \in Answer /\ Cut(page).n = asked  BY <1>2, CutIs
  <2> QED  BY <1>8, <2>1, ReplyAndExitEnds DEF Flying
<1> QED  BY <1>3, <1>4, <1>5, <1>6, <1>7, <1>8

LEMMA ServeEnds ==
  ASSUME Flying, Final(rql) => cont = 0, WellBehaved, Serve
  PROVE  Kept \/ Stopped \/ Stays
<1>0. /\ asked \in Nat /\ out \in Seq(Answer)
      /\ "length" \in Frames /\ "none" \in Frames /\ "eof" \in Frames
  BY DEF Flying, Frames
<1>n. \A frame \in Frames : \A status \in Nat :
        /\ Normal(status, frame) \in Answer
        /\ Normal(status, frame).n = asked /\ Normal(status, frame).whole
  BY <1>0, NormalIs
<1>1. CASE Redirect \/ Directory
  <2> DEFINE a == Resp(asked, 308, FALSE, Framed(rql, "length"))
  <2>1. Framed(rql, "length") \in Frames  BY <1>0, FramedType
  <2>2. a \in Answer /\ a.n = asked /\ a.whole  BY <1>0, <2>1 DEF Resp, Answer
  <2>3. Reply(a, Answered(308), cont)  BY <1>1 DEF Redirect, Directory
  <2> HIDE DEF a
  <2> QED  BY <1>0, <2>2, <2>3, ReplyEnds
<1>2. CASE Options
  <2> DEFINE a == Resp(asked, 200, FALSE, "length")
  <2>1. a \in Answer /\ a.n = asked /\ a.whole  BY <1>0 DEF Resp, Answer, Frames
  <2>2. Reply(a, Answered(200), cont)  BY <1>2 DEF Options
  <2> HIDE DEF a
  <2> QED  BY <1>0, <2>1, <2>2, ReplyEnds
<1>3. CASE Absent \/ Denied \/ LongName \/ FileInfo
  BY <1>3, ErrorAndLoopEnds DEF Absent, Denied, LongName, FileInfo
<1>4. CASE Broken \/ FileMethod
  BY <1>4, ErrorAndExitEnds DEF Broken, FileMethod
<1>5. CASE NotModified
  <2>1. Reply(Normal(304, "none"), Answered(304), cont)  BY <1>5 DEF NotModified
  <2> QED  BY <1>0, <1>n, <2>1, ReplyEnds
<1>6. CASE File
  <2>1. PICK status \in {200, 206} :
          \/ Reply(Normal(status, "length"), Answered(status), cont)
          \/ Die(<<Cut(Normal(status, "length"))>>, Answered(status), 111)
          \/ Waits("spinning", Answered(status))
    BY <1>6 DEF File
  <2> DEFINE a == Normal(status, "length")
  <2>2. a \in Answer /\ a.n = asked /\ a.whole  BY <1>0, <1>n
  <2>3. \/ Reply(a, Answered(status), cont) \/ Die(<<Cut(a)>>, Answered(status), 111)
        \/ Waits("spinning", Answered(status))
    BY <2>1
  <2> HIDE DEF a
  <2>4. Cut(a) \in Answer /\ Cut(a).n = asked  BY <2>2, CutIs
  <2>5. CASE Waits("spinning", Answered(status))
    BY <2>5 DEF Waits, Hangs, Halted, Stopped
  <2> QED  BY <1>0, <2>2, <2>3, <2>4, <2>5, ReplyEnds, DieEnds DEF Stopped
<1>7. CASE FileRefused
  BY <1>7, ErrorAndLoopEnds, ErrorAndExitEnds DEF FileRefused
<1>8. CASE Nph \/ Rproxy
  <2>1. Waits("raw", <<>>) \/ ErrorAndDie(500, 111)  BY <1>8 DEF Nph, Rproxy
  <2>2. CASE Waits("raw", <<>>)  BY <2>2 DEF Waits, Hangs, Halted, Stopped
  <2> QED  BY <2>1, <2>2, ErrorAndExitEnds
<1>9. CASE \E reply \in FcgiReplies : Fastcgi(reply)  BY <1>9, FastcgiEnds
<1>10. CASE \E run \in CgiRuns : Cgi(run) \/ LocalRedirect(run)  BY <1>10, CgiEnds
<1> QED
  BY <1>1, <1>2, <1>3, <1>4, <1>5, <1>6, <1>7, <1>8, <1>9, <1>10 DEF Serve, Static

-----------------------------------------------------------------------------
(* The answers, by their numbers. *)

LEMMA Appended ==
  ASSUME out \in Seq(Answer), NEW a \in Answer, out' = Append(out, a)
  PROVE  /\ out' \in Seq(Answer) /\ Len(out) \in Nat
         /\ DOMAIN out = 1..Len(out) /\ DOMAIN out' = 1..(Len(out) + 1)
         /\ out'[Len(out) + 1] = a /\ \A i \in DOMAIN out : out'[i] = out[i]
<1> DEFINE t == Append(out, a)
           n == Len(out)
<1>1. /\ t \in Seq(Answer) /\ Len(t) = n + 1 /\ t[n + 1] = a /\ \A i \in 1..n : t[i] = out[i]
  BY AppendProperties
<1>2. n \in Nat /\ DOMAIN out = 1..n  OBVIOUS
<1>3. t = out'  OBVIOUS
<1> HIDE DEF t, n
<1>4. DOMAIN t = 1..(n + 1)  BY <1>1
<1> QED  BY <1>1, <1>2, <1>3, <1>4 DEF n

Numbers == [i \in DOMAIN out |-> out[i].n]

LEMMA NumbersAppended ==
  ASSUME out \in Seq(Answer), NEW a \in Answer, out' = Append(out, a)
  PROVE  Numbers' = Append(Numbers, a.n)
<1> DEFINE n == Len(out)
           s == Numbers
           t == Append(s, a.n)
<1>1. /\ n \in Nat /\ DOMAIN out = 1..n /\ DOMAIN out' = 1..(n + 1)
      /\ out'[n + 1] = a /\ \A i \in 1..n : out'[i] = out[i]
  BY Appended
<1>2. s \in Seq(Nat) /\ Len(s) = n /\ (\A i \in 1..n : s[i] = out[i].n) /\ a.n \in Nat
  <2>0. a.n \in Nat  BY DEF Answer
  <2>1. \A i \in DOMAIN out : out[i] \in Answer  OBVIOUS
  <2>2. \A i \in 1..n : out[i].n \in Nat  BY <1>1, <2>1 DEF Answer
  <2>3. s = [i \in 1..n |-> out[i].n]  BY <1>1 DEF Numbers
  <2> HIDE DEF s, n
  <2>4. s \in [1..n -> Nat]  BY <2>2, <2>3
  <2>5. n \in Nat  BY <1>1
  <2>6. \A i \in 1..n : s[i] = out[i].n  BY <2>3
  <2>7. s \in Seq(Nat)  BY <2>4, <2>5, SeqDef
  <2>8. Len(s) = n  BY <2>4, <2>5, <2>7, LenProperties
  <2> QED  BY <2>0, <2>6, <2>7, <2>8
<1>3. /\ Len(t) = n + 1 /\ t \in Seq(Nat) /\ t[n + 1] = a.n /\ \A i \in 1..n : t[i] = s[i]
  <2> HIDE DEF s
  <2> QED  BY <1>2, AppendProperties
<1>4. Numbers' = [i \in 1..(n + 1) |-> out'[i].n]  BY <1>1 DEF Numbers
<1> HIDE DEF n, s, t
<1>5. \A i \in 1..(n + 1) : t[i] = out'[i].n
  <2> TAKE i \in 1..(n + 1)
  <2>1. CASE i = n + 1  BY <1>1, <1>3, <2>1
  <2>2. CASE i # n + 1
    <3>1. i \in 1..n  BY <1>1, <2>2
    <3> QED  BY <1>1, <1>2, <1>3, <3>1
  <2> QED  BY <2>1, <2>2
<1>6. t = [i \in 1..(n + 1) |-> t[i]]  BY <1>1, <1>3
<1>7. t = Numbers'  BY <1>4, <1>5, <1>6
<1> QED  BY <1>7 DEF t, s

\* Every request up to the k-th has its answer, and none that was not taken.
Every(k) == \A m \in 1..k : \E i \in DOMAIN out : out[i].n = m
Whole == \A i \in DOMAIN out : out[i].whole
Answers(k) ==
  /\ \A i \in DOMAIN out : out[i].n \in 1..k
  /\ \A i, j \in DOMAIN out : i < j => out[i].n < out[j].n

\* The inductive invariant of the exchange.
TInv ==
  /\ asked \in Nat /\ out \in Seq(Answer) /\ phase \in Phases
  /\ phase = "line" => rql = NoRequest /\ Answers(asked) /\ Every(asked)
  /\ phase \in {"headers", "body", "serve"} \cup Halted =>
       asked # 0 /\ Answers(asked - 1) /\ Every(asked - 1)
  /\ phase \in {"body", "serve"} => (Final(rql) => cont = 0)
  /\ phase # "exited" => Whole

\* One more answer, to the request in progress.
LEMMA OneMore ==
  ASSUME NEW k \in Nat, k # 0, out \in Seq(Answer), Answers(k - 1), Every(k - 1),
         NEW a \in Answer, a.n = k, out' = Append(out, a)
  PROVE  Answers(k)' /\ Every(k)' /\ out' \in Seq(Answer) /\ (Whole /\ a.whole => Whole')
<1> DEFINE n == Len(out)
<1>1. /\ n \in Nat /\ DOMAIN out = 1..n /\ DOMAIN out' = 1..(n + 1)
      /\ out'[n + 1] = a /\ \A i \in 1..n : out'[i] = out[i]
      /\ out' \in Seq(Answer)
  BY Appended
<1> HIDE DEF n
<1>2. \A i \in 1..n : out[i].n \in 1..(k - 1)  BY <1>1 DEF Answers
<1>3. \A i, j \in 1..n : i < j => out[i].n < out[j].n  BY <1>1 DEF Answers
<1>4. \A i \in 1..(n + 1) : i \in 1..n \/ i = n + 1  BY <1>1
<1>5. \A i \in 1..(n + 1) : out'[i].n \in 1..k  BY <1>1, <1>2, <1>4
<1>6. ASSUME NEW i \in 1..(n + 1), NEW j \in 1..(n + 1), i < j PROVE out'[i].n < out'[j].n
  <2>1. i \in 1..n  BY <1>1, <1>6
  <2>2. CASE j = n + 1
    <3>1. out'[j].n = k /\ out'[i].n = out[i].n  BY <1>1, <2>1, <2>2
    <3>2. out[i].n \in 1..(k - 1)  BY <1>2, <2>1
    <3> QED  BY <3>1, <3>2
  <2>3. CASE j \in 1..n  BY <1>1, <1>3, <1>6, <2>1, <2>3
  <2> QED  BY <1>4, <2>2, <2>3
<1>7. ASSUME NEW m \in 1..k PROVE \E i \in DOMAIN out' : out'[i].n = m
  <2>1. CASE m = k  BY <1>1, <2>1
  <2>2. CASE m # k
    <3>1. m \in 1..(k - 1)  BY <2>2
    <3>2. PICK i \in DOMAIN out : out[i].n = m  BY <3>1 DEF Every
    <3> QED  BY <1>1, <3>2
  <2> QED  BY <2>1, <2>2
<1>8. Whole /\ a.whole => Whole'  BY <1>1, <1>4 DEF Whole
<1> QED  BY <1>1, <1>5, <1>6, <1>7, <1>8 DEF Answers, Every

\* A request in progress ends, or goes on.
LEMMA FlightKeeps ==
  ASSUME TInv, phase \in {"headers", "body", "serve"}, UNCHANGED asked, Kept \/ Stopped
  PROVE  TInv'
<1>1. /\ asked \in Nat /\ asked # 0 /\ out \in Seq(Answer) /\ Answers(asked - 1)
      /\ Every(asked - 1) /\ Whole
  BY DEF TInv
<1>2. ASSUME NEW a \in Answer, a.n = asked, out' = Append(out, a)
      PROVE  Answers(asked)' /\ Every(asked)' /\ out' \in Seq(Answer) /\ (a.whole => Whole')
  <2>1. PICK k \in Nat : k = asked  BY <1>1
  <2>2. k # 0 /\ Answers(k - 1) /\ Every(k - 1) /\ a.n = k  BY <1>1, <1>2, <2>1
  <2>3. Answers(k)' /\ Every(k)' /\ out' \in Seq(Answer) /\ (Whole /\ a.whole => Whole')
    BY <1>1, <1>2, <2>2, OneMore
  <2> QED  BY <1>1, <2>1, <2>3
<1>3. CASE Kept
  <2>1. PICK a \in Answer : a.n = asked /\ a.whole /\ out' = Append(out, a)  BY <1>3 DEF Kept
  <2>2. phase' = "line" /\ rql' = NoRequest  BY <1>3 DEF Kept
  <2> QED  BY <1>1, <1>2, <2>1, <2>2 DEF TInv, Phases, Halted
<1>4. CASE Ended
  <2>1. CASE out' = out /\ exit' # 0  BY <1>1, <1>4, <2>1 DEF TInv, Ended, Phases, Halted
  <2>2. ASSUME NEW a \in Answer, a.n = asked, exit' = 0 => a.whole, out' = Append(out, a)
        PROVE  TInv'
    BY <1>1, <1>2, <1>4, <2>2 DEF TInv, Ended, Phases, Halted
  <2> QED  BY <1>4, <2>1, <2>2 DEF Ended
<1>5. CASE Hangs
  <2>1. phase' \in Halted /\ UNCHANGED <<rql, out, exit, asked>>  BY <1>5 DEF Hangs
  <2>2. Answers(asked - 1)' /\ Every(asked - 1)' /\ Whole'
    BY <1>1, <2>1 DEF Answers, Every, Whole
  <2> QED  BY <1>1, <2>1, <2>2 DEF TInv, Phases, Halted
<1> QED  BY <1>3, <1>4, <1>5 DEF Stopped

-----------------------------------------------------------------------------
(* The steps of the server. *)

\* A request that is read, and given up on at once when its line is wrong.
LineRead ==
  /\ phase = "line" /\ asked' = asked + 1
  /\ \/ phase' = "headers" /\ rql' \in Request /\ UNCHANGED <<out, exit>>
     \/ /\ phase' = "exited" /\ exit' # 0
        /\ out' = out \/ \E a \in Answer : a.n = asked + 1 /\ out' = Append(out, a)
     \/ phase' \in Halted /\ UNCHANGED <<rql, out, exit>>

\* Between two requests.
LineEnds == phase = "line" /\ phase' = "exited" /\ UNCHANGED <<asked, out>>

\* The request in progress.
Flight ==
  /\ phase \in {"headers", "body", "serve"} /\ UNCHANGED asked
  /\ \/ Kept \/ Stopped
     \/ /\ UNCHANGED <<rql, out, exit>> /\ phase' \in {"body", "serve"}
        /\ Final(rql) => cont' = 0

\* The end of a process that was held up.
HaltedEnds ==
  /\ phase \in Halted /\ phase' = "exited" /\ UNCHANGED <<asked, log>>
  /\ out' = out \/ \E a \in Answer : a.n = asked /\ out' = Append(out, a)

LEMMA TakeLineIs ==
  ASSUME asked \in Nat, out \in Seq(Answer), phase = "line", asked' = asked + 1,
         NEW r \in Request, NEW line, TakeLine(r, line)
  PROVE  LineRead
<1>1. CASE phase' = "headers" /\ rql' = r /\ UNCHANGED <<cont, body, redirs, exit, out, log>>
  BY <1>1 DEF LineRead
<1>2. CASE EarlyError(asked + 1, r, 400)
  <2> DEFINE a == Resp(asked + 1, 400, TRUE, Framed(r, "length"))
  <2>1. "length" \in Frames  BY DEF Frames
  <2>2. Framed(r, "length") \in Frames  BY <2>1, FramedType
  <2>3. a \in Answer /\ a.n = asked + 1  BY <2>2 DEF Resp, Answer
  <2>4. \/ LogAndExit(<<a>>, <<>>, 1) \/ Die(<<>>, <<>>, 111) \/ Waits("blocked", <<>>)
    BY <1>2 DEF EarlyError, ReplyAndExit, CannotWrite
  <2> HIDE DEF a
  <2>5. CASE Waits("blocked", <<>>)  BY <2>5 DEF Waits, Halted, LineRead
  <2>6. CASE LogAndExit(<<a>>, <<>>, 1) \/ Die(<<>>, <<>>, 111)
    <3>1. phase' = "exited" /\ exit' # 0 /\ (out' = out \/ out' = Append(out, a))
      BY <2>6 DEF LogAndExit, Die
    <3> QED  BY <2>3, <3>1 DEF LineRead
  <2> QED  BY <2>4, <2>5, <2>6
<1>3. CASE LogAndExit(<<>>, <<>>, 1)
  <2>1. phase' = "exited" /\ exit' # 0 /\ out' = out  BY <1>3 DEF LogAndExit
  <2> QED  BY <2>1 DEF LineRead
<1> QED  BY <1>1, <1>2, <1>3 DEF TakeLine

LEMMA ReadLineIs ==
  ASSUME IInv, ReadLine
  PROVE  LineRead
<1>1. /\ phase = "line" /\ net # <<>> /\ asked' = asked + 1
      /\ asked \in Nat /\ out \in Seq(Answer) /\ net \in Seq(Part)
  BY DEF ReadLine, IInv, ClientOK, ReqOK, ServerOK
<1>2. PICK part \in Part : part = Head(net)  BY <1>1
<1>3. part.rq \in Request /\ \A r \in Requests : r \in Request
  BY ConnectionAssumption DEF Part
<1>4. \E r \in Request : \E line : TakeLine(r, line)
  <2>1. CASE TakeLine(part.rq, IF part.part = "line" THEN part.rq.line ELSE "bad")
    BY <1>3, <2>1
  <2>2. CASE \E r \in Requests : TakeLine(r, r.line)
    BY <1>3, <2>2
  <2> QED  BY <1>2, <2>1, <2>2 DEF ReadLine
<1> QED  BY <1>1, <1>4, TakeLineIs

LEMMA LineEndsIs ==
  ASSUME IInv, EndOfRequests \/ ReadError
  PROVE  LineEnds
<1>1. out \in Seq(Answer)  BY DEF IInv, ReqOK, ServerOK
<1> QED  BY <1>1 DEF EndOfRequests, ReadError, LineEnds, Loop, LogAndExit

LEMMA ReadHeadersIs ==
  ASSUME IInv, TInv, ReadHeaders \/ HeadersEnd
  PROVE  Flight
<1>1. Flying /\ phase = "headers" /\ UNCHANGED asked
  BY DEF IInv, ReqOK, ServerOK, ReadHeaders, HeadersEnd, Flying
<1>2. CASE \E status \in Nat : EarlyError(asked, rql, status)
  BY <1>1, <1>2, EarlyErrorEnds DEF Flight
<1>3. CASE HeadersEnd  BY <1>2, <1>3 DEF HeadersEnd
<1> DEFINE a == Resp(asked, 200, FALSE, "length")
           c == NextCont(rql)
<1>4. a \in Answer /\ a.n = asked /\ a.whole /\ out \in Seq(Answer)
  BY <1>1 DEF Flying, Resp, Answer, Frames
<1>5. Final(rql) => c = 0  BY DEF Final, NextCont
<1>6. CASE ReadHeaders
  <2>1. \/ EarlyError(asked, rql, HeadersFault(rql))
        \/ \E lines : Reply(a, lines, c)
        \/ /\ phase' = IF Coding(rql) = "none" THEN "serve" ELSE "body"
           /\ cont' = c /\ UNCHANGED <<rql, exit, out>>
    BY <1>6 DEF ReadHeaders
  <2> HIDE DEF a, c
  <2>2. CASE \E lines : Reply(a, lines, c)
    BY <1>1, <1>4, <1>5, <2>2, ReplyEnds DEF Flight
  <2>3. CASE /\ phase' = IF Coding(rql) = "none" THEN "serve" ELSE "body"
             /\ cont' = c /\ UNCHANGED <<rql, exit, out>>
    BY <1>1, <1>5, <2>3 DEF Flight
  <2>4. HeadersFault(rql) \in Nat  BY HeadersFaultType
  <2> QED  BY <1>2, <2>1, <2>2, <2>3, <2>4
<1> QED  BY <1>3, <1>6

LEMMA ReadBodyIs ==
  ASSUME IInv, TInv, ReadFixedBody \/ ReadChunkedBody
  PROVE  Flight
<1>1. Flying /\ phase = "body" /\ UNCHANGED asked /\ (Final(rql) => cont = 0)
  BY DEF IInv, ReqOK, ServerOK, TInv, ReadFixedBody, ReadChunkedBody, Flying
<1>2. \/ ErrorAndExit(413) \/ ErrorAndExit(400) \/ ErrorAndExit(408) \/ ErrorAndDie(500, 111)
      \/ phase' = "serve" /\ UNCHANGED <<cont, rql, exit, out>>
  BY DEF ReadFixedBody, ReadChunkedBody
<1>3. CASE \/ ErrorAndExit(413) \/ ErrorAndExit(400) \/ ErrorAndExit(408) \/ ErrorAndDie(500, 111)
  BY <1>1, <1>3, ErrorAndExitEnds DEF Flight
<1>4. CASE phase' = "serve" /\ UNCHANGED <<cont, rql, exit, out>>
  BY <1>1, <1>4 DEF Flight
<1> QED  BY <1>2, <1>3, <1>4

LEMMA ServeIs ==
  ASSUME IInv, TInv, WellBehaved, Serve
  PROVE  Flight
<1>1. Flying /\ phase = "serve" /\ UNCHANGED asked /\ (Final(rql) => cont = 0)
  BY DEF IInv, ReqOK, ServerOK, TInv, Serve, Flying
<1>2. Kept \/ Stopped \/ Stays  BY <1>1, ServeEnds
<1> QED  BY <1>1, <1>2 DEF Flight, Stays

LEMMA HaltedEndsIs ==
  ASSUME IInv, Unblocked \/ RawEnds
  PROVE  HaltedEnds
<1>1. asked \in Nat /\ out \in Seq(Answer) /\ log \in Seq(LogLine)
  BY DEF IInv, ReqOK, ServerOK
<1>2. phase \in Halted /\ UNCHANGED asked
  BY DEF Unblocked, RawEnds, Halted
<1>3. Framed(rql, "eof") \in Frames
  <2>1. "eof" \in Frames  BY DEF Frames
  <2> QED  BY <2>1, FramedType
<1> DEFINE a == Raw
<1>4. a \in Answer /\ a.n = asked  BY <1>1, <1>3, RespIs DEF Raw
<1>5. Cut(a) \in Answer /\ Cut(a).n = asked
  <2> HIDE DEF a
  <2> QED  BY <1>4, CutIs
<1> DEFINE b == Cut(a)
<1>6. \/ \E e : Die(<<>>, <<>>, e) \/ Die(<<a>>, <<>>, e) \/ Die(<<b>>, <<>>, e)
  BY DEF Unblocked, RawEnds
<1>7. b \in Answer /\ b.n = asked  BY <1>5
<1> HIDE DEF a, b
<1>8. phase' = "exited" /\ log' = log /\ (out' = out \/ out' = Append(out, a) \/ out' = Append(out, b))
  BY <1>1, <1>6 DEF Die
<1> QED  BY <1>2, <1>4, <1>7, <1>8 DEF HaltedEnds

\* The client, or the end.
Aside == UNCHANGED <<phase, cont, rql, asked, exit, out, log>>

LEMMA StepIs ==
  ASSUME IInv, TInv, WellBehaved, [Next]_vars
  PROVE  LineRead \/ LineEnds \/ Flight \/ HaltedEnds \/ Aside
<1>1. CASE Client
  BY <1>1 DEF Client, ClientSend, ClientLeave, ClientAsk, Aside
<1>2. CASE UNCHANGED vars  BY <1>2 DEF vars, Aside
<1>3. CASE Server
  BY <1>3, ReadLineIs, LineEndsIs, ReadHeadersIs, ReadBodyIs, ServeIs, HaltedEndsIs DEF Server
<1>4. CASE RawEnds  BY <1>4, HaltedEndsIs
<1> QED  BY <1>1, <1>2, <1>3, <1>4 DEF Next, Over

LEMMA TInvKept ==
  ASSUME TInv, LineRead \/ LineEnds \/ Flight \/ HaltedEnds \/ Aside
  PROVE  TInv'
<1>1. CASE LineRead
  <2>1. /\ asked \in Nat /\ out \in Seq(Answer) /\ Answers(asked) /\ Every(asked) /\ Whole
    BY <1>1 DEF TInv, LineRead
  <2>2. asked' \in Nat /\ asked' # 0 /\ asked' - 1 = asked  BY <1>1, <2>1 DEF LineRead
  <2>3. CASE phase' \in {"headers"} \cup Halted /\ UNCHANGED <<out, exit>>
    <3>1. PICK k \in Nat : k = asked  BY <2>1
    <3>2. Answers(k)' /\ Every(k)' /\ Whole'
      BY <2>1, <2>3, <3>1 DEF Answers, Every, Whole
    <3>3. asked' - 1 = k  BY <2>2, <3>1
    <3>4. Answers(asked - 1)' /\ Every(asked - 1)'
      BY <3>2, <3>3 DEF Answers, Every
    <3> QED  BY <2>1, <2>2, <2>3, <3>2, <3>4 DEF TInv, Phases, Halted
  <2>4. CASE phase' = "exited" /\ exit' # 0
    <3>1. out' \in Seq(Answer)
      <4>1. CASE out' = out  BY <2>1, <4>1
      <4>2. CASE \E a \in Answer : a.n = asked + 1 /\ out' = Append(out, a)
        BY <2>1, <4>2, Appended
      <4> QED  BY <1>1, <2>4, <4>1, <4>2 DEF LineRead
    <3> QED  BY <2>2, <2>4, <3>1 DEF TInv, Phases, Halted
  <2> QED  BY <1>1, <2>3, <2>4 DEF LineRead
<1>2. CASE LineEnds
  BY <1>2 DEF LineEnds, TInv, Phases, Halted
<1>3. CASE Flight
  <2>1. CASE Kept \/ Stopped  BY <1>3, <2>1, FlightKeeps DEF Flight
  <2>2. CASE UNCHANGED <<rql, out, exit>> /\ phase' \in {"body", "serve"} /\ (Final(rql) => cont' = 0)
    BY <1>3, <2>2 DEF Flight, TInv, Phases, Answers, Every, Whole, Halted
  <2> QED  BY <1>3, <2>1, <2>2 DEF Flight
<1>4. CASE Aside
  BY <1>4 DEF Aside, TInv, Answers, Every, Whole
<1>5. CASE HaltedEnds
  <2>1. out' \in Seq(Answer)
    BY <1>5, Appended DEF HaltedEnds, TInv
  <2> QED  BY <1>5, <2>1 DEF HaltedEnds, TInv, Phases, Halted
<1> QED  BY <1>1, <1>2, <1>3, <1>4, <1>5

-----------------------------------------------------------------------------
(* Each of these steps is one of HttpExchange, or none. *)

LEMMA Maps ==
  ASSUME TInv, LineRead \/ LineEnds \/ Flight \/ HaltedEnds \/ Aside
  PROVE  [Exchange!Next]_(Exchange!vars)
<1>0. asked \in Nat /\ out \in Seq(Answer)  BY DEF TInv
<1>i. phase = "line" => Exchange!Idle
  <2> SUFFICES ASSUME phase = "line" PROVE Exchange!Idle  OBVIOUS
  <2>1. CASE asked = 0  BY <2>1 DEF Exchange!Idle
  <2>2. CASE asked # 0
    <3>1. asked \in 1..asked  BY <1>0, <2>2
    <3>2. PICK i \in DOMAIN out : out[i].n = asked  BY <3>1 DEF TInv, Every
    <3>3. i \in DOMAIN Numbers /\ Numbers[i] = asked  BY <3>2 DEF Numbers
    <3> QED  BY <3>3 DEF Exchange!Idle, Numbers
  <2> QED  BY <2>1, <2>2
<1>n. Numbers = [i \in DOMAIN out |-> out[i].n]  BY DEF Numbers
<1>1. CASE LineRead
  <2>1. CASE phase' \in {"headers"} \cup Halted /\ UNCHANGED out
    <3>1. Exchange!Take
      BY <1>1, <1>i, <2>1 DEF Exchange!Take, LineRead, Final, Halted
    <3> QED  BY <3>1 DEF Exchange!Next
  <2>2. CASE phase' = "exited"
    <3>1. Numbers' = Numbers \/ Numbers' = Append(Numbers, asked + 1)
      <4>1. CASE out' = out  BY <4>1 DEF Numbers
      <4>2. CASE \E a \in Answer : a.n = asked + 1 /\ out' = Append(out, a)
        BY <1>0, <4>2, NumbersAppended
      <4> QED  BY <1>1, <2>2, <4>1, <4>2 DEF LineRead
    <3>2. Exchange!Refuse
      BY <1>1, <1>i, <2>2, <3>1 DEF Exchange!Refuse, LineRead, Numbers
    <3> QED  BY <3>2 DEF Exchange!Next
  <2> QED  BY <1>1, <2>1, <2>2 DEF LineRead
<1>2. CASE LineEnds
  <2>1. Exchange!Close  BY <1>2 DEF Exchange!Close, LineEnds
  <2> QED  BY <2>1 DEF Exchange!Next
<1>3. CASE Flight
  <2>1. phase # "exited" /\ UNCHANGED asked /\ asked # 0  BY <1>3 DEF Flight, TInv
  <2>7. CASE Hangs
    BY <2>1, <2>7 DEF Hangs, Halted, Exchange!vars
  <2>2. ~Exchange!Idle
    <3>1. \A i \in DOMAIN out : out[i].n \in 1..(asked - 1)
      BY <1>3 DEF Flight, TInv, Answers
    <3>2. \A i \in DOMAIN out : out[i].n # asked  BY <1>0, <3>1
    <3> QED  BY <2>1, <3>2 DEF Exchange!Idle
  <2>3. ASSUME NEW a \in Answer, a.n = asked, out' = Append(out, a),
               \/ phase' = "line" /\ rql' = NoRequest /\ ~Final(rql)
               \/ phase' = "exited"
        PROVE  Exchange!Answer
    <3>1. Numbers' = Append(Numbers, asked)  BY <1>0, <2>3, NumbersAppended
    <3> QED  BY <2>1, <2>2, <2>3, <3>1 DEF Exchange!Answer, Numbers
  <2>4. CASE Kept  BY <2>3, <2>4 DEF Kept, Exchange!Next
  <2>5. CASE Ended
    <3>1. CASE out' = out
      <4>1. Exchange!Close  BY <2>1, <2>5, <3>1 DEF Ended, Exchange!Close
      <4> QED  BY <4>1 DEF Exchange!Next
    <3> QED  BY <2>3, <2>5, <3>1 DEF Ended, Exchange!Next
  <2>6. CASE UNCHANGED <<rql, out, exit>> /\ phase' \in {"body", "serve"}
    BY <2>1, <2>6 DEF Exchange!vars
  <2> QED  BY <1>3, <2>4, <2>5, <2>6, <2>7 DEF Flight, Stopped
<1>4. CASE Aside
  BY <1>4 DEF Aside, Exchange!vars
<1>5. CASE HaltedEnds
  <2>1. phase # "exited" /\ phase' = "exited" /\ UNCHANGED asked /\ asked # 0
    BY <1>5 DEF HaltedEnds, TInv, Halted
  <2>2. ~Exchange!Idle
    <3>1. \A i \in DOMAIN out : out[i].n \in 1..(asked - 1)
      BY <1>5 DEF HaltedEnds, TInv, Answers
    <3>2. \A i \in DOMAIN out : out[i].n # asked  BY <1>0, <3>1
    <3> QED  BY <2>1, <3>2 DEF Exchange!Idle
  <2>3. CASE out' = out
    <3>1. Exchange!Close  BY <2>1, <2>3 DEF Exchange!Close
    <3> QED  BY <3>1 DEF Exchange!Next
  <2>4. CASE \E a \in Answer : a.n = asked /\ out' = Append(out, a)
    <3>1. Numbers' = Append(Numbers, asked)  BY <1>0, <2>4, NumbersAppended
    <3>2. Exchange!Answer  BY <2>1, <2>2, <3>1 DEF Exchange!Answer, Numbers
    <3> QED  BY <3>2 DEF Exchange!Next
  <2> QED  BY <1>5, <2>3, <2>4 DEF HaltedEnds
<1> QED  BY <1>1, <1>2, <1>3, <1>4, <1>5

LEMMA InitTInv == Init => TInv
BY DEF Init, TInv, Phases, Answers, Every, Whole, Halted

LEMMA TInductive ==
  ASSUME WellBehaved
  PROVE  Spec => []TInv
<1>1. IInv /\ TInv /\ [Next]_vars => TInv'  BY StepIs, TInvKept
<1> QED  BY <1>1, InitTInv, Inductive, PTL DEF Spec

\* Whatever is asked for and served, tipideed takes requests one at a time, answers
\* each at most once, in order and before the next, and none after one that closes:
\* it implements HttpExchange, if no application fails after its headers.
THEOREM Implements ==
  ASSUME WellBehaved
  PROVE  Spec => ExchangeSpec
<1>1. Init => Exchange!Init
  BY DEF Init, Exchange!Init
<1>2. IInv /\ TInv /\ [Next]_vars => [Exchange!Next]_(Exchange!vars)
  BY StepIs, Maps
<1> QED  BY <1>1, <1>2, Inductive, TInductive, PTL DEF Spec, ExchangeSpec, Exchange!Spec

-----------------------------------------------------------------------------
(* What is on the wire.  The parts of the requests follow each other, and what  *)
(* comes next is what main() is about to read, as long as it goes on reading and *)
(* no chunked body was taken to end where it does not.                           *)

\* Nothing more belongs to the request of this part.
Done(p) == p.part = "body" \/ (p.part = "headers" /\ ~HasBody(p.rq))

Follows(p, q) ==
  \/ p.part = "line" /\ q = HeadersOf(p.rq)
  \/ p.part = "headers" /\ HasBody(p.rq) /\ q = BodyOf(p.rq)
  \/ Done(p) /\ q.part = "line"

\* What the client still has to send of the request of part p.
Left(p) ==
  IF p.part = "line" THEN rest = RestOf(p.rq)
  ELSE IF p.part = "headers" /\ HasBody(p.rq) THEN rest = <<BodyOf(p.rq)>>
  ELSE rest = <<>>

Wire ==
  /\ \A i \in DOMAIN net : i + 1 \in DOMAIN net => Follows(net[i], net[i + 1])
  /\ net # <<>> => Left(net[Len(net)])
  /\ net = <<>> /\ rest # <<>> => \E p \in Part : Left(p)

\* What is to be read next.
LineComes == IF net = <<>> THEN rest = <<>> ELSE net[1].part = "line"
HeadersCome(r) == IF net = <<>> THEN rest = RestOf(r) ELSE net[1] = HeadersOf(r)
BodyComes(r) == IF net = <<>> THEN rest = <<BodyOf(r)>> ELSE net[1] = BodyOf(r)

InStep ==
  /\ Wire
  /\ phase = "line" => LineComes
  /\ phase = "headers" => HeadersCome(rql)
  /\ phase = "body" /\ cont # 0 => rql.minor = 1 /\ HasBody(rql) /\ BodyComes(rql)
  /\ phase = "serve" /\ cont # 0 => rql.minor = 1 /\ LineComes

\* A connection is kept for HTTP/1.1 only.
MinorOK == phase \in {"body", "serve"} /\ cont # 0 => rql.minor = 1

WInv == MinorOK /\ (~astray => InStep)

LEMMA TailWire ==
  ASSUME net \in Seq(Part), Wire, net # <<>>, net' = Tail(net), UNCHANGED rest,
         NEW p, p = Head(net)
  PROVE  /\ Wire'
         /\ p.part = "line" => HeadersCome(p.rq)'
         /\ p.part = "headers" /\ HasBody(p.rq) => BodyComes(p.rq)'
         /\ Done(p) => LineComes'
<1> DEFINE n == Len(net)
           t == Tail(net)
<1>1. /\ n \in Nat /\ n >= 1 /\ DOMAIN net = 1..n /\ p = net[1]
      /\ t \in Seq(Part) /\ Len(t) = n - 1 /\ DOMAIN t = 1..(n - 1)
      /\ \A i \in 1..(n - 1) : t[i] = net[i + 1]
      /\ t = <<>> <=> n = 1
  <2>1. n \in Nat /\ DOMAIN net = 1..n /\ n >= 1 /\ p = net[1]  OBVIOUS
  <2>2. /\ t \in Seq(Part) /\ Len(t) = n - 1 /\ \A i \in 1..(n - 1) : t[i] = net[i + 1]
    BY HeadTailProperties
  <2>3. DOMAIN t = 1..(n - 1)  BY <2>2
  <2> HIDE DEF t, n
  <2>4. t = <<>> <=> n = 1
    <3>1. t # <<>> => Len(t) \in Nat \ {0}  BY <2>2, EmptySeq
    <3>2. Len(<<>>) = 0  OBVIOUS
    <3> QED  BY <2>1, <2>2, <3>1, <3>2
  <2> QED  BY <2>1, <2>2, <2>3, <2>4
<1>2. net' = t  OBVIOUS
<1> HIDE DEF n, t
<1>3. Wire'
  <2>1. \A i \in DOMAIN net' : i + 1 \in DOMAIN net' => Follows(net'[i], net'[i + 1])
    <3> SUFFICES ASSUME NEW i \in 1..(n - 1), i + 1 \in 1..(n - 1)
                 PROVE  Follows(t[i], t[i + 1])
      BY <1>1, <1>2
    <3>1. i + 1 \in DOMAIN net /\ (i + 1) + 1 \in DOMAIN net  BY <1>1
    <3>2. Follows(net[i + 1], net[(i + 1) + 1])  BY <3>1 DEF Wire
    <3> QED  BY <1>1, <3>2
  <2>2. net' # <<>> => Left(net[Len(net)])'
    <3> SUFFICES ASSUME n # 1 PROVE Left(net[Len(net)])'  BY <1>1, <1>2
    <3>1. Len(net') = n - 1 /\ net'[n - 1] = net[n]  BY <1>1, <1>2
    <3>2. Left(net[n])  BY DEF Wire, n
    <3> QED  BY <3>1, <3>2 DEF Left
  <2>3. net' = <<>> /\ rest' # <<>> => \E q \in Part : Left(q)'
    BY <1>1, <1>2 DEF Wire, Left, n
  <2> QED  BY <2>1, <2>2, <2>3 DEF Wire
<1>4. CASE n = 1
  <2>1. net' = <<>> /\ Left(p)  BY <1>1, <1>2, <1>4 DEF Wire, n
  <2> QED  BY <1>3, <2>1 DEF Left, HeadersCome, BodyComes, LineComes, Done, HeadersOf, BodyOf
<1>5. CASE n # 1
  <2>1. net' # <<>> /\ net'[1] = net[1 + 1] /\ Follows(net[1], net[1 + 1])
    BY <1>1, <1>2, <1>5 DEF Wire
  <2> QED  BY <1>1, <1>3, <2>1 DEF Follows, HeadersCome, BodyComes, LineComes, Done, HeadersOf, BodyOf
<1> QED  BY <1>4, <1>5

LEMMA AppendWire ==
  ASSUME net \in Seq(Part), Wire, NEW p \in Part, net' = Append(net, p),
         net # <<>> => Follows(net[Len(net)], p), Left(p)'
  PROVE  Wire' /\ net' # <<>> /\ net'[1] = IF net = <<>> THEN p ELSE net[1]
<1> DEFINE n == Len(net)
           t == Append(net, p)
<1>1. /\ n \in Nat /\ DOMAIN net = 1..n
      /\ t \in Seq(Part) /\ Len(t) = n + 1 /\ DOMAIN t = 1..(n + 1)
      /\ \A i \in 1..n : t[i] = net[i]
      /\ t[n + 1] = p /\ t # <<>>
      /\ net = <<>> <=> n = 0
  BY AppendProperties, EmptySeq
<1>2. net' = t  OBVIOUS
<1>3. net # <<>> => Follows(net[n], p)  OBVIOUS
<1> HIDE DEF n, t
<1>4. \A i \in DOMAIN net' : i + 1 \in DOMAIN net' => Follows(net'[i], net'[i + 1])
  <2> SUFFICES ASSUME NEW i \in 1..n PROVE Follows(t[i], t[i + 1])  BY <1>1, <1>2
  <2>1. CASE i = n  BY <1>1, <1>3, <2>1
  <2>2. CASE i # n
    <3>1. i \in DOMAIN net /\ i + 1 \in DOMAIN net  BY <1>1, <2>2
    <3>2. Follows(net[i], net[i + 1])  BY <3>1 DEF Wire
    <3> QED  BY <1>1, <3>1, <3>2
  <2> QED  BY <2>1, <2>2
<1>5. net'[Len(net')] = p  BY <1>1, <1>2
<1>6. Left(net[Len(net)])'  BY <1>5 DEF Left
<1>7. Wire'  BY <1>1, <1>2, <1>4, <1>6 DEF Wire
<1>8. net' # <<>> /\ net'[1] = IF net = <<>> THEN p ELSE net[1]  BY <1>1, <1>2
<1> QED  BY <1>7, <1>8

\* The client sends requests whole and in order.
LEMMA ClientWire ==
  ASSUME IInv, InStep, Client
  PROVE  InStep'
<1>1. net \in Seq(Part) /\ rest \in Seq(Part) /\ Wire  BY DEF IInv, ClientOK, InStep
<1>2. ASSUME NEW r \in Requests, ClientAsk(r)
      PROVE  InStep'
  <2>1. /\ rest = <<>> /\ net' = Append(net, LineOf(r)) /\ rest' = RestOf(r)
        /\ UNCHANGED <<phase, cont, rql>>
    BY <1>2 DEF ClientAsk
  <2>2. LineOf(r) \in Part /\ Left(LineOf(r))'  BY <2>1 DEF LineOf, Part, Left
  <2>3. net # <<>> => Follows(net[Len(net)], LineOf(r))
    <3> SUFFICES ASSUME net # <<>> PROVE Follows(net[Len(net)], LineOf(r))  OBVIOUS
    <3>1. PICK p \in Part : p = net[Len(net)]  BY <1>1
    <3>2. Left(p)  BY <1>1, <3>1 DEF Wire
    <3> QED  BY <2>1, <3>1, <3>2 DEF Part, Left, Follows, Done, LineOf, RestOf
  <2>4. Wire' /\ net' # <<>> /\ net'[1] = IF net = <<>> THEN LineOf(r) ELSE net[1]
    BY <1>1, <2>1, <2>2, <2>3, AppendWire
  <2>5. RestOf(rql) # <<>> /\ <<BodyOf(rql)>> # <<>>  BY DEF RestOf
  <2> QED
    BY <2>1, <2>4, <2>5 DEF InStep, LineComes, HeadersCome, BodyComes, LineOf
<1>3. CASE ClientSend
  <2>1. /\ rest # <<>> /\ net' = Append(net, Head(rest)) /\ rest' = Tail(rest)
        /\ UNCHANGED <<phase, cont, rql>> /\ phase # "exited"
    BY <1>3 DEF ClientSend
  <2>2. PICK p \in Part : Left(p) /\ (net # <<>> => p = net[Len(net)])
    <3>1. CASE net = <<>>  BY <1>1, <2>1, <3>1 DEF Wire
    <3>2. CASE net # <<>>
      <4>1. PICK p \in Part : p = net[Len(net)]  BY <1>1, <3>2
      <4> QED  BY <1>1, <3>2, <4>1 DEF Wire
    <3> QED  BY <3>1, <3>2
  <2>3. PICK q \in Part : q = Head(rest)  BY <1>1, <2>1
  <2>4. Follows(p, q) /\ Left(q)'
    <3>1. CASE rest = RestOf(p.rq) /\ p.part = "line"
      <4>1. CASE HasBody(p.rq)
        <5>1. rest = <<HeadersOf(p.rq), BodyOf(p.rq)>>  BY <3>1, <4>1 DEF RestOf
        <5>2. q = HeadersOf(p.rq) /\ rest' = <<BodyOf(p.rq)>>  BY <2>1, <2>3, <5>1
        <5> QED  BY <3>1, <4>1, <5>2 DEF Follows, Left, HeadersOf
      <4>2. CASE ~HasBody(p.rq)
        <5>1. rest = <<HeadersOf(p.rq)>>  BY <3>1, <4>2 DEF RestOf
        <5>2. q = HeadersOf(p.rq) /\ rest' = <<>>  BY <2>1, <2>3, <5>1
        <5> QED  BY <3>1, <4>2, <5>2 DEF Follows, Left, HeadersOf
      <4> QED  BY <4>1, <4>2
    <3>2. CASE rest = <<BodyOf(p.rq)>> /\ p.part = "headers" /\ HasBody(p.rq)
      <4>1. q = BodyOf(p.rq) /\ rest' = <<>>  BY <2>1, <2>3, <3>2
      <4> QED  BY <3>2, <4>1 DEF Follows, Left, BodyOf
    <3> QED  BY <2>1, <2>2, <3>1, <3>2 DEF Left
  <2>5. Wire' /\ net' # <<>> /\ net'[1] = IF net = <<>> THEN q ELSE net[1]
    BY <1>1, <2>1, <2>2, <2>3, <2>4, AppendWire
  <2>6. CASE net # <<>>
    BY <2>1, <2>5, <2>6 DEF InStep, LineComes, HeadersCome, BodyComes
  <2>7. CASE net = <<>>
    <3>1. rest = RestOf(rql) => q = HeadersOf(rql)
      <4> SUFFICES ASSUME rest = RestOf(rql) PROVE q = HeadersOf(rql)  OBVIOUS
      <4>1. RestOf(rql) = <<HeadersOf(rql)>> \/ RestOf(rql) = <<HeadersOf(rql), BodyOf(rql)>>
        BY DEF RestOf
      <4> QED  BY <2>3, <4>1
    <3>2. rest = <<BodyOf(rql)>> => q = BodyOf(rql)  BY <2>3
    <3> QED
      BY <2>1, <2>5, <2>7, <3>1, <3>2 DEF InStep, LineComes, HeadersCome, BodyComes
  <2> QED  BY <2>6, <2>7
<1>4. CASE ClientLeave
  <2>1. UNCHANGED <<net, rest, phase, cont, rql>>  BY <1>4 DEF ClientLeave
  <2> QED  BY <2>1 DEF InStep, Wire, Left, LineComes, HeadersCome, BodyComes
<1> QED  BY <1>2, <1>3, <1>4 DEF Client

-----------------------------------------------------------------------------
(* main() goes on to the next request only with a cont that is not 0. *)

Out == phase' = "exited" \/ (phase' \in Halted /\ out' = out)
OnOrOut(c) == Out \/ (phase' = "line" /\ c # 0)

LEMMA WaitsGoes ==
  ASSUME \E where \in Halted : \E lines : Waits(where, lines)
  PROVE  Out
BY DEF Waits, Out

LEMMA CannotWriteGoes ==
  ASSUME NEW lines, CannotWrite(lines)
  PROVE  Out
BY DEF CannotWrite, Die, Waits, Out, Halted

LEMMA LoopGoes ==
  ASSUME NEW c, \/ \E answers, lines : Loop(answers, lines, c)
                \/ \E answer, lines : Reply(answer, lines, c)
  PROVE  OnOrOut(c)
BY CannotWriteGoes DEF Loop, Reply, OnOrOut, Out

LEMMA ExitGoes ==
  ASSUME \/ \E answers, lines, e : Die(answers, lines, e) \/ LogAndExit(answers, lines, e)
         \/ \E answer, lines, e : ReplyAndDie(answer, lines, e) \/ ReplyAndExit(answer, lines, e)
         \/ \E status, e : ErrorAndExit(status) \/ ErrorAndDie(status, e)
         \/ \E n, r, status : EarlyError(n, r, status)
  PROVE  Out
<1>1. \A answers, lines, e : Die(answers, lines, e) \/ LogAndExit(answers, lines, e) => Out
  BY DEF Die, LogAndExit, Out
<1>2. \A answer, lines, e : ReplyAndDie(answer, lines, e) \/ ReplyAndExit(answer, lines, e) => Out
  BY <1>1, CannotWriteGoes DEF ReplyAndDie, ReplyAndExit
<1>3. \A status, option : ErrorFails(status, option) => Out
  BY <1>1 DEF ErrorFails, Waits, Out, Halted
<1>4. \A status, e : ErrorAndExit(status) \/ ErrorAndDie(status, e) => Out
  BY <1>2, <1>3 DEF ErrorAndExit, ErrorAndDie
<1>5. \A n, r, status : EarlyError(n, r, status) => Out
  BY <1>2 DEF EarlyError
<1> QED  BY <1>1, <1>2, <1>4, <1>5

LEMMA ErrorFailsGoes ==
  ASSUME NEW status, NEW option, ErrorFails(status, option)
  PROVE  Out
BY ExitGoes DEF ErrorFails, Waits, Out, Halted

LEMMA ErrorAndLoopGoes ==
  ASSUME NEW status, ErrorAndLoop(status)
  PROVE  OnOrOut(cont)
<1>1. CASE \E answer, lines : Reply(answer, lines, cont)  BY <1>1, LoopGoes
<1>2. CASE ErrorFails(status, FALSE)  BY <1>2, ErrorFailsGoes DEF OnOrOut
<1> QED  BY <1>1, <1>2 DEF ErrorAndLoop

LEMMA FcgiEndGoes ==
  ASSUME NEW reply, NEW page, NEW lines, FcgiEnd(reply, page, lines)
  PROVE  Out
<1>1. \A p, l : AnswerTwice(p, l) => Out
  BY ExitGoes, CannotWriteGoes, ZenonT(30) DEF AnswerTwice
<1>2. \A a, l : ReplyAndDie(a, l, 111) => Out  BY ExitGoes
<1> QED  BY <1>1, <1>2 DEF FcgiEnd

LEMMA ServeGoes ==
  ASSUME Serve
  PROVE  OnOrOut(cont) \/ UNCHANGED <<phase, cont, rql>>
<1>1. CASE Redirect \/ Options \/ Directory \/ NotModified
  BY <1>1, LoopGoes DEF Redirect, Options, Directory, NotModified
<1>2. CASE Absent \/ Denied \/ LongName \/ FileInfo
  BY <1>2, ErrorAndLoopGoes DEF Absent, Denied, LongName, FileInfo
<1>3. CASE Broken \/ FileMethod \/ Nph \/ Rproxy
  <2>1. CASE Broken \/ FileMethod  BY <2>1, ExitGoes DEF Broken, FileMethod, OnOrOut
  <2>2. CASE Nph \/ Rproxy  BY <2>2, ExitGoes, WaitsGoes DEF Nph, Rproxy, OnOrOut, Halted
  <2> QED  BY <1>3, <2>1, <2>2
<1>4. CASE FileRefused
  BY <1>4, ErrorAndLoopGoes, ExitGoes DEF FileRefused, OnOrOut
<1>5. CASE File
  BY <1>5, LoopGoes, ExitGoes, WaitsGoes DEF File, OnOrOut, Halted
<1>6. ASSUME NEW reply, Fastcgi(reply)
      PROVE  OnOrOut(cont)
  <2>1. ASSUME NEW page, NEW lines, FcgiEnd(reply, page, lines)
        PROVE  Out
    BY <2>1, FcgiEndGoes
  <2> QED  BY <1>6, <2>1, LoopGoes, ExitGoes DEF Fastcgi, OnOrOut
<1>7. ASSUME NEW run, Cgi(run)
      PROVE  OnOrOut(cont)
  BY <1>7, LoopGoes, ExitGoes, WaitsGoes, ErrorAndLoopGoes DEF Cgi, OnOrOut, Halted
<1>8. ASSUME NEW run, LocalRedirect(run)
      PROVE  OnOrOut(cont) \/ UNCHANGED <<phase, cont, rql>>
  BY <1>8, ExitGoes DEF LocalRedirect, OnOrOut
<1> QED  BY <1>1, <1>2, <1>3, <1>4, <1>5, <1>6, <1>7, <1>8 DEF Serve, Static

LEMMA ServerWire ==
  ASSUME IInv, InStep, Server, ~astray'
  PROVE  InStep'
<1>0. net \in Seq(Part) /\ Wire /\ phase \in Phases  BY DEF IInv, ClientOK, ReqOK, ServerOK, InStep
<1>t. ASSUME net # <<>>, net' = Tail(net), UNCHANGED clientvars
      PROVE  /\ Wire'
             /\ \A p : p = Head(net) =>
                  /\ p.part = "line" => HeadersCome(p.rq)'
                  /\ p.part = "headers" /\ HasBody(p.rq) => BodyComes(p.rq)'
                  /\ Done(p) => LineComes'
  BY <1>0, <1>t, TailWire DEF clientvars
<1>u. ASSUME UNCHANGED <<clientvars, net>>
      PROVE  Wire' /\ (LineComes => LineComes')
  BY <1>0, <1>u DEF Wire, Left, LineComes, clientvars
<1>x. ASSUME Wire', Out
      PROVE  InStep'
  BY <1>x DEF InStep, Out, Halted
<1>1. CASE ReadLine
  <2> PICK p : p = Head(net)  OBVIOUS
  <2>1. phase = "line" /\ net # <<>> /\ p.part = "line"
    BY <1>0, <1>1 DEF ReadLine, InStep, LineComes
  <2>2. net' = Tail(net) /\ UNCHANGED clientvars /\ TakeLine(p.rq, p.rq.line)
    BY <1>1, <2>1 DEF ReadLine, clientvars
  <2>3. Wire' /\ HeadersCome(p.rq)'
    BY <1>t, <2>1, <2>2
  <2>4. Out \/ (phase' = "headers" /\ rql' = p.rq)
    BY <2>2, ExitGoes DEF TakeLine
  <2>5. CASE phase' = "headers" /\ rql' = p.rq
    <3>1. HeadersCome(rql)'  BY <2>3, <2>5 DEF HeadersCome
    <3> QED  BY <2>3, <2>5, <3>1 DEF InStep
  <2> QED  BY <1>x, <2>3, <2>4, <2>5
<1>2. CASE EndOfRequests \/ ReadError \/ HeadersEnd
  <2>1. Out /\ UNCHANGED <<clientvars, net>>
    BY <1>2, LoopGoes, ExitGoes DEF EndOfRequests, ReadError, HeadersEnd, OnOrOut
  <2> QED  BY <1>u, <1>x, <2>1
<1>3. CASE ReadHeaders
  <2> PICK p : p = HeadersOf(rql)  OBVIOUS
  <2>1. /\ phase = "headers" /\ net # <<>> /\ net' = Tail(net) /\ UNCHANGED clientvars
    BY <1>3 DEF ReadHeaders
  <2>2. p = Head(net)  BY <1>0, <2>1 DEF InStep, HeadersCome
  <2>3. p.part = "headers" /\ p.rq = rql  BY DEF HeadersOf
  <2>4. Wire' /\ (HasBody(p.rq) => BodyComes(p.rq)') /\ (~HasBody(p.rq) => LineComes')
    BY <1>t, <2>1, <2>2, <2>3 DEF Done
  <2>5. \/ Out
        \/ /\ rql.m \in {"OPTIONS*", "TRACE"} /\ HeadersFault(rql) = 0
           /\ OnOrOut(NextCont(rql))
        \/ /\ phase' = IF Coding(rql) = "none" THEN "serve" ELSE "body"
           /\ cont' = NextCont(rql) /\ rql' = rql
    BY <1>3, ExitGoes, LoopGoes DEF ReadHeaders
  <2>6. rql.minor \in {0, 1} /\ (rql.minor = 0 => NextCont(rql) = 0)
    BY <2>1, ConnectionAssumption DEF IInv, ReqOK, ServerOK, Request, NextCont
  <2>7. CASE /\ rql.m \in {"OPTIONS*", "TRACE"} /\ HeadersFault(rql) = 0
             /\ OnOrOut(NextCont(rql))
    <3>1. Coding(rql) = "none"  BY <2>7 DEF HeadersFault, BadFraming, BodyMethods
    <3>2. rql.minor = 1 => ~HasBody(rql)  BY <3>1 DEF Coding, HasBody
    <3> QED  BY <1>x, <2>3, <2>4, <2>6, <2>7, <3>2 DEF OnOrOut, InStep
  <2>8. CASE /\ phase' = IF Coding(rql) = "none" THEN "serve" ELSE "body"
             /\ cont' = NextCont(rql) /\ rql' = rql
    <3>1. CASE rql.minor = 0  BY <2>4, <2>6, <2>8, <3>1 DEF InStep
    <3>2. CASE rql.minor = 1
      <4>1. HasBody(rql) <=> Coding(rql) # "none"  BY <3>2 DEF HasBody, Coding
      <4>2. HasBody(rql) => BodyComes(rql)'
        <5> SUFFICES ASSUME HasBody(rql) PROVE BodyComes(rql)'  OBVIOUS
        <5>1. BodyComes(p.rq)'  BY <2>3, <2>4
        <5> QED  BY <2>3, <2>8, <5>1 DEF BodyComes
      <4> QED  BY <2>3, <2>4, <2>8, <3>2, <4>1, <4>2 DEF InStep
    <3> QED  BY <2>6, <3>1, <3>2
  <2> QED  BY <1>x, <2>4, <2>5, <2>7, <2>8
<1>4. CASE ReadFixedBody \/ ReadChunkedBody
  <2>0. phase = "body" /\ UNCHANGED clientvars /\ net \in Seq(Part)
    BY <1>0, <1>4 DEF ReadFixedBody, ReadChunkedBody
  <2>1. /\ Out \/ phase' = "serve"
        /\ \/ net # <<>> /\ net' = Tail(net)
           \/ net' = net /\ (phase' = "serve" => rql.te # "none" /\ Coding(rql) = "fixed")
        /\ phase' = "serve" => UNCHANGED <<cont, rql>>
    <3>4. \A status, e : ErrorAndExit(status) \/ ErrorAndDie(status, e) =>
            Out /\ phase' # "serve"
      <4>1. \A status, e : ErrorAndExit(status) \/ ErrorAndDie(status, e) => Out  BY ExitGoes
      <4>2. Out => phase' # "serve"  BY DEF Out, Halted
      <4> QED  BY <4>1, <4>2
    <3>1. CASE ReadFixedBody
      <4>1. \/ UNCHANGED net /\ Out /\ phase' # "serve"
            \/ /\ net # <<>> /\ net' = IF rql.te = "none" THEN Tail(net) ELSE net
               /\ phase' = "serve" /\ UNCHANGED <<cont, rql>> /\ Coding(rql) = "fixed"
        BY <3>1, <3>4, ZenonT(30) DEF ReadFixedBody
      <4> QED  BY <4>1
    <3>2. CASE /\ net # <<>> /\ phase' = "serve" /\ UNCHANGED <<cont, rql>>
               /\ \E n \in ChunkStops :
                    net' = SubSeq(net, n + 1, Len(net)) /\ astray' = (astray \/ n # 1)
      <4>1. PICK n \in ChunkStops : net' = SubSeq(net, n + 1, Len(net)) /\ astray' = (astray \/ n # 1)
        BY <3>2
      <4>3. n = 1  BY <4>1
      <4>4. n + 1 = 2  BY <4>3
      <4>2. net' = Tail(net)  BY <2>0, <3>2, <4>1, <4>4, TailIsSubSeq
      <4> QED  BY <3>2, <4>2
    <3>3. CASE ReadChunkedBody /\ (Out \/ phase' = "serve") /\
               (net' = net \/ (net # <<>> /\ net' = Tail(net))) /\
               (phase' = "serve" => net # <<>> /\ net' = Tail(net) /\ UNCHANGED <<cont, rql>>)
      BY <3>3
    <3> QED  BY <1>4, <3>1, <3>2, <3>3, <3>4, ZenonT(30) DEF ReadChunkedBody
  <2>2. Wire'  BY <1>t, <1>u, <2>0, <2>1
  <2>3. ASSUME phase' = "serve", cont # 0
        PROVE  LineComes'
    <3>1. rql.minor = 1 /\ BodyComes(rql)  BY <2>0, <2>3 DEF InStep
    <3>2. net # <<>> /\ net' = Tail(net)  BY <2>1, <2>3, <3>1 DEF Coding
    <3>3. PICK p : p = Head(net)  OBVIOUS
    <3>4. p = BodyOf(rql)  BY <1>0, <3>1, <3>2, <3>3 DEF BodyComes
    <3>5. Done(p)  BY <3>4 DEF Done, BodyOf
    <3> QED  BY <1>t, <2>0, <3>2, <3>3, <3>5
  <2>4. phase' = "serve" /\ cont' # 0 => rql'.minor = 1  BY <2>0, <2>1 DEF InStep
  <2> QED  BY <1>x, <2>1, <2>2, <2>3, <2>4 DEF InStep
<1>5. CASE Serve
  <2>1. phase = "serve" /\ UNCHANGED <<clientvars, net>>  BY <1>5 DEF Serve
  <2>2. Wire' /\ (LineComes => LineComes')  BY <1>u, <2>1
  <2>3. OnOrOut(cont) \/ UNCHANGED <<phase, cont, rql>>  BY <1>5, ServeGoes
  <2> QED  BY <1>x, <2>1, <2>2, <2>3 DEF OnOrOut, InStep
<1>6. CASE Unblocked
  <2>1. Out /\ UNCHANGED <<clientvars, net>>  BY <1>6, ExitGoes DEF Unblocked
  <2> QED  BY <1>u, <1>x, <2>1
<1> QED  BY <1>1, <1>2, <1>3, <1>4, <1>5, <1>6 DEF Server

LEMMA RawEndsWire ==
  ASSUME InStep, RawEnds
  PROVE  InStep'
<1>1. phase' = "exited" /\ UNCHANGED <<clientvars, net>>  BY DEF RawEnds, Die
<1> QED  BY <1>1 DEF InStep, Wire, Left, clientvars

LEMMA MinorKept ==
  ASSUME IInv, MinorOK, [Next]_vars
  PROVE  MinorOK'
<1>0. Out => MinorOK'  BY DEF Out, Halted, MinorOK
<1>1. CASE Client \/ UNCHANGED vars
  BY <1>1 DEF Client, ClientAsk, ClientSend, ClientLeave, vars, MinorOK
<1>2. CASE ReadLine
  <2>1. Out \/ phase' = "headers"  BY <1>2, ExitGoes DEF ReadLine, TakeLine
  <2> QED  BY <1>0, <2>1 DEF MinorOK
<1>3. CASE EndOfRequests \/ ReadError \/ HeadersEnd \/ Unblocked \/ RawEnds
  <2>1. Out
    BY <1>3, LoopGoes, ExitGoes DEF EndOfRequests, ReadError, HeadersEnd, Unblocked, RawEnds, OnOrOut
  <2> QED  BY <1>0, <2>1
<1>4. CASE ReadHeaders
  <2>1. Out \/ phase' = "line" \/ (cont' = NextCont(rql) /\ rql' = rql)
    BY <1>4, ExitGoes, LoopGoes DEF ReadHeaders, OnOrOut
  <2>2. rql.minor \in {0, 1} /\ (rql.minor = 0 => NextCont(rql) = 0)
    BY <1>4, ConnectionAssumption DEF ReadHeaders, IInv, ReqOK, ServerOK, Request, NextCont
  <2> QED  BY <1>0, <2>1, <2>2 DEF MinorOK
<1>5. CASE ReadFixedBody \/ ReadChunkedBody
  <2>1. phase = "body" /\ (Out \/ UNCHANGED <<cont, rql>>)
    BY <1>5, ExitGoes, ZenonT(30) DEF ReadFixedBody, ReadChunkedBody
  <2> QED  BY <1>0, <2>1 DEF MinorOK
<1>6. CASE Serve
  <2>1. phase = "serve"  BY <1>6 DEF Serve
  <2>2. OnOrOut(cont) \/ UNCHANGED <<phase, cont, rql>>  BY <1>6, ServeGoes
  <2> QED  BY <1>0, <2>1, <2>2 DEF OnOrOut, MinorOK
<1> QED  BY <1>1, <1>2, <1>3, <1>4, <1>5, <1>6 DEF Next, Server, Over


LEMMA WInductive == Spec => []WInv
<1>1. Init => WInv
  BY DEF Init, WInv, MinorOK, InStep, Wire, LineComes
<1>2. IInv /\ WInv /\ [Next]_vars => WInv'
  <2> SUFFICES ASSUME IInv, WInv, [Next]_vars, ~astray' PROVE InStep'
    BY MinorKept DEF WInv
  <2>1. ~astray
    <3>1. \/ astray' = astray
          \/ ReadChunkedBody /\ \E n \in ChunkStops : astray' = (astray \/ n # 1)
      BY DEF Next, Server, Client, ClientAsk, ClientSend, ClientLeave, Over, vars, ReadLine,
             EndOfRequests, ReadError, ReadHeaders, HeadersEnd, ReadFixedBody, ReadChunkedBody,
             Serve, Unblocked, RawEnds
    <3> QED  BY <3>1 DEF IInv, ClientOK
  <2>2. InStep  BY <2>1 DEF WInv
  <2>3. CASE UNCHANGED vars
    BY <2>2, <2>3 DEF vars, InStep, Wire, Left, LineComes, HeadersCome, BodyComes
  <2> QED  BY <2>2, <2>3, ClientWire, ServerWire, RawEndsWire DEF Next, Over
<1> QED  BY <1>1, <1>2, Inductive, PTL DEF Spec

\* As long as no chunked body was cut by the decimal reading of its sizes, no request
\* line is read out of the body of an earlier request, whatever the client pipelines,
\* the answers are and the applications do.
THEOREM NeverInside == Spec => []NeverInsideBody
<1>1. IInv /\ WInv => NeverInsideBody
  BY DEF IInv, ClientOK, WInv, InStep, LineComes, NeverInsideBody, LineIsLine
<1> QED  BY <1>1, Inductive, WInductive, PTL

-----------------------------------------------------------------------------
(* Where answers end. *)

\* The texts of errors are the ones tipideed makes, and scripts say where their
\* answers end, or are autochunked.
SelfFramed ==
  /\ "file" \notin ErrorPages
  /\ \A run \in CgiRuns : ~run.bodyless /\ (run.kind = "page" => run.cl # "none" \/ run.auto)

Plain(a) == a.whole /\ ~a.stray /\ a.frame # "eof"

\* The process is over or waits, or wrote nothing, or an answer that the client can
\* tell from the next.
Told == Out \/ out' = out \/ \E a : Plain(a) /\ out' = out \o <<a>>

LEMMA ReplyTold ==
  ASSUME NEW a, NEW lines, NEW c, Reply(a, lines, c), c # 0 => Plain(a)
  PROVE  Told
<1>1. CASE Loop(<<a>>, lines, c)  BY <1>1 DEF Loop, Out, Told
<1>2. CASE CannotWrite(lines)  BY <1>2, CannotWriteGoes DEF Told
<1> QED  BY <1>1, <1>2 DEF Reply

LEMMA ErrorAndLoopTold ==
  ASSUME SelfFramed, NEW status, ErrorAndLoop(status)
  PROVE  Told
<1>1. ASSUME NEW page \in Pages, Reply(ErrorAnswer(status, FALSE, page), Answered(status), cont)
      PROVE  Told
  <2>1. page # "file"  BY DEF Pages, SelfFramed
  <2>2. Plain(ErrorAnswer(status, FALSE, page))
    BY <2>1 DEF Plain, ErrorAnswer, Stray, Resp, Framed
  <2> QED  BY <1>1, <2>2, ReplyTold
<1>2. CASE ErrorFails(status, FALSE)  BY <1>2, ErrorFailsGoes DEF Told
<1> QED  BY <1>1, <1>2 DEF ErrorAndLoop

LEMMA CgiTold ==
  ASSUME SelfFramed, rql.minor = 0 => cont = 0, rql.minor \in {0, 1}, NEW run \in CgiRuns,
         Cgi(run) \/ LocalRedirect(run)
  PROVE  Told
<1>1. CASE LocalRedirect(run)  BY <1>1, ExitGoes DEF LocalRedirect, Told
<1>2. CASE Cgi(run)
  <2> DEFINE page == CgiPage(run)
             lines == Answered(page.status)
  <2>1. CASE Reply(page, lines, cont) /\ (run.kind = "page" \/ (rql.m = "HEAD" /\ run.kind \in {"page", "cut"}))
    <3>1. cont # 0 => Plain(page)
      <4> SUFFICES ASSUME rql.minor = 1 PROVE Plain(page)  OBVIOUS
      <4>1. ~run.bodyless /\ (run.kind = "page" => run.cl # "none" \/ run.auto)
        BY DEF SelfFramed
      <4> QED  BY <2>1, <4>1 DEF Plain, CgiPage, Normal, Resp, Framed
    <3> HIDE DEF page
    <3> QED  BY <2>1, <3>1, ReplyTold
  <2>2. CASE Die(<<Cut(page)>>, lines, 111)  BY <2>2, ExitGoes DEF Told
  <2>3. CASE Waits("copying", lines)  BY <2>3, WaitsGoes DEF Told, Halted
  <2>4. CASE ErrorAndDie(500, 111) \/ ErrorAndDie(502, 2)  BY <2>4, ExitGoes DEF Told
  <2> QED
    BY <1>2, <2>1, <2>2, <2>3, <2>4, ErrorAndLoopTold, ZenonT(30) DEF Cgi
<1> QED  BY <1>1, <1>2

LEMMA FastcgiTold ==
  ASSUME NEW reply, Fastcgi(reply)
  PROVE  Told
<1>1. CASE reply = "localredirect" /\ Loop(<<>>, <<>>, cont)
  <2>1. out' = out \o <<>>  BY <1>1 DEF Loop
  <2> QED  BY <2>1 DEF Told
<1>2. ASSUME NEW page, NEW lines, FcgiEnd(reply, page, lines)
      PROVE  Out
  BY <1>2, FcgiEndGoes
<1>3. Plain(FcgiPage(reply))  BY DEF Plain, FcgiPage, Normal, Resp, Framed
<1> QED  BY <1>1, <1>2, <1>3, ReplyTold, ExitGoes, ZenonT(30) DEF Fastcgi, Told

LEMMA ServeTold ==
  ASSUME SelfFramed, IInv, WInv, Serve
  PROVE  Told
<1>0. /\ rql.minor \in {0, 1} /\ rql \in Requests /\ phase = "serve"
      /\ rql.minor = 0 => cont = 0
  <2>1. phase = "serve" /\ rql \in Requests  BY DEF Serve, IInv, ReqOK, ServerOK
  <2> QED  BY <2>1, ConnectionAssumption DEF Request, WInv, MinorOK
<1>1. CASE Redirect \/ Options \/ Directory \/ NotModified
  <2>1. /\ Plain(Resp(asked, 200, FALSE, "length")) /\ Plain(Normal(304, "none"))
        /\ Plain(Resp(asked, 308, FALSE, Framed(rql, "length")))
    BY DEF Plain, Resp, Framed, Normal
  <2>2. CASE Redirect \/ Directory
    <3>1. Reply(Resp(asked, 308, FALSE, Framed(rql, "length")), Answered(308), cont)
      BY <2>2 DEF Redirect, Directory
    <3> QED  BY <2>1, <3>1, ReplyTold
  <2>3. CASE Options
    <3>1. Reply(Resp(asked, 200, FALSE, "length"), Answered(200), cont)  BY <2>3 DEF Options
    <3> QED  BY <2>1, <3>1, ReplyTold
  <2>4. CASE NotModified
    <3>1. Reply(Normal(304, "none"), Answered(304), cont)  BY <2>4 DEF NotModified
    <3> QED  BY <2>1, <3>1, ReplyTold
  <2> QED  BY <1>1, <2>2, <2>3, <2>4
<1>2. CASE Absent \/ Denied \/ LongName \/ FileInfo
  BY <1>2, ErrorAndLoopTold DEF Absent, Denied, LongName, FileInfo
<1>3. CASE Broken \/ FileMethod \/ Nph \/ Rproxy
  <2>1. CASE Broken \/ FileMethod  BY <2>1, ExitGoes DEF Broken, FileMethod, Told
  <2>2. CASE Nph \/ Rproxy  BY <2>2, ExitGoes, WaitsGoes DEF Nph, Rproxy, Told, Halted
  <2> QED  BY <1>3, <2>1, <2>2
<1>4. CASE FileRefused
  BY <1>4, ErrorAndLoopTold, ExitGoes DEF FileRefused, Told
<1>5. CASE File
  <2>1. \A s : Plain(Normal(s, "length"))  BY DEF Plain, Resp, Framed, Normal
  <2>2. PICK status : \/ Reply(Normal(status, "length"), Answered(status), cont)
                      \/ Die(<<Cut(Normal(status, "length"))>>, Answered(status), 111)
                      \/ Waits("spinning", Answered(status))
    BY <1>5 DEF File
  <2>3. CASE Reply(Normal(status, "length"), Answered(status), cont)  BY <2>1, <2>3, ReplyTold
  <2> QED  BY <2>2, <2>3, ExitGoes, WaitsGoes DEF Told, Halted
<1>6. ASSUME NEW reply, Fastcgi(reply) PROVE Told  BY <1>6, FastcgiTold
<1>7. ASSUME NEW run \in CgiRuns, Cgi(run) \/ LocalRedirect(run) PROVE Told
  BY <1>0, <1>7, CgiTold
<1> QED  BY <1>1, <1>2, <1>3, <1>4, <1>5, <1>6, <1>7 DEF Serve, Static

LEMMA StepTold ==
  ASSUME SelfFramed, IInv, WInv, [Next]_vars
  PROVE  Told
<1>1. CASE Client \/ UNCHANGED vars
  BY <1>1 DEF Client, ClientAsk, ClientSend, ClientLeave, vars, Told
<1>2. CASE ReadLine
  <2>1. Out \/ out' = out  BY <1>2, ExitGoes DEF ReadLine, TakeLine
  <2> QED  BY <2>1 DEF Told
<1>3. CASE EndOfRequests \/ ReadError \/ HeadersEnd \/ Unblocked \/ RawEnds
  BY <1>3, LoopGoes, ExitGoes
  DEF EndOfRequests, ReadError, HeadersEnd, Unblocked, RawEnds, OnOrOut, Told
<1>4. CASE ReadHeaders
  <2>1. Plain(Resp(asked, 200, FALSE, "length"))  BY DEF Plain, Resp
  <2> QED  BY <1>4, <2>1, ReplyTold, ExitGoes DEF ReadHeaders, Told
<1>5. CASE ReadFixedBody \/ ReadChunkedBody
  BY <1>5, ExitGoes, ZenonT(30) DEF ReadFixedBody, ReadChunkedBody, Told
<1>6. CASE Serve  BY <1>6, ServeTold
<1> QED  BY <1>1, <1>2, <1>3, <1>4, <1>5, <1>6 DEF Next, Server, Over

LEMMA ConcatOne ==
  ASSUME NEW S, NEW s \in Seq(S), NEW a
  PROVE  \A i \in DOMAIN (s \o <<a>>) : (s \o <<a>>)[i] = a \/ \E j \in DOMAIN s : (s \o <<a>>)[i] = s[j]
<1> DEFINE U == S \cup {a}
<1>1. s \in Seq(U) /\ <<a>> \in Seq(U) /\ Len(<<a>>) = 1 /\ <<a>>[1] = a  BY SeqMonotonic
<1> HIDE DEF U
<1>2. s \o <<a>> \in Seq(U) /\ Len(s \o <<a>>) = Len(s) + 1
      /\ \A i \in 1..(Len(s) + 1) : (s \o <<a>>)[i] = IF i <= Len(s) THEN s[i] ELSE <<a>>[i - Len(s)]
  BY <1>1, ConcatProperties
<1> QED  BY <1>1, <1>2

\* The client can tell where each answer ends as long as the connection is kept, if
\* error texts are tipideed's and scripts frame what they write: chunks for
\* HTTP/1.1, else the close.
THEOREM Delimited ==
  ASSUME SelfFramed
  PROVE  Spec => []DelimitedWhenKept
<1>1. Init => DelimitedWhenKept  BY DEF Init, DelimitedWhenKept
<1>2. IInv /\ WInv /\ DelimitedWhenKept /\ [Next]_vars => DelimitedWhenKept'
  <2> SUFFICES ASSUME IInv, WInv, DelimitedWhenKept, [Next]_vars PROVE DelimitedWhenKept'
    OBVIOUS
  <2>1. phase = "exited" => phase' = "exited"
    BY DEF Next, Client, ClientAsk, ClientSend, ClientLeave, Over, vars, Server, ReadLine,
           EndOfRequests, ReadError, ReadHeaders, HeadersEnd, ReadFixedBody, ReadChunkedBody, Serve,
           Unblocked, RawEnds
  <2>2. CASE phase' = "exited"  BY <2>2 DEF DelimitedWhenKept
  <2>3. CASE phase' # "exited"
    <3>1. \A i \in DOMAIN out : Plain(out[i])  BY <2>1, <2>3 DEF DelimitedWhenKept, Plain
    <3>2. out \in Seq(Answer)  BY DEF IInv, ReqOK, ServerOK
    <3>3. \A i \in DOMAIN out' : Plain(out'[i])
      <4>1. CASE out' = out  BY <3>1, <4>1
      <4>2. ASSUME NEW a, Plain(a), out' = out \o <<a>> PROVE \A i \in DOMAIN out' : Plain(out'[i])
        BY <3>1, <3>2, <4>2, ConcatOne
      <4> QED  BY <2>3, <4>1, <4>2, StepTold DEF Told, Out
    <3> QED  BY <3>3 DEF DelimitedWhenKept, Plain
  <2> QED  BY <2>2, <2>3
<1> QED  BY <1>1, <1>2, Inductive, WInductive, PTL DEF Spec

-----------------------------------------------------------------------------
(* What the last answer of a process that fails says. *)

\* No application goes on after a complete answer.
Reticent == FcgiReplies \cap {"chunks", "length"} = {}

\* A process that fails has written nothing, or what says so: an answer that
\* announces the close, or one that stops short.
Parting ==
  phase' = "exited" =>
    \/ exit' = 0 \/ out' = out
    \/ \E a \in Answer : (a.whole => a.close) /\ out' = Append(out, a)

LEMMA SilentParts ==
  ASSUME out \in Seq(Answer), NEW lines, NEW e, Die(<<>>, lines, e) \/ LogAndExit(<<>>, lines, e)
  PROVE  Parting
BY DEF Die, LogAndExit, Parting

LEMMA WaitsPart ==
  ASSUME \E where \in Halted : \E lines : Waits(where, lines)
  PROVE  Parting
BY DEF Waits, Halted, Parting

LEMMA CannotWriteParts ==
  ASSUME out \in Seq(Answer), NEW lines, CannotWrite(lines)
  PROVE  Parting
BY SilentParts, WaitsPart DEF CannotWrite, Halted

LEMMA DieParts ==
  ASSUME out \in Seq(Answer), NEW a \in Answer, a.whole => a.close, NEW lines, NEW e,
         Die(<<a>>, lines, e) \/ LogAndExit(<<a>>, lines, e)
  PROVE  Parting
<1>1. out' = Append(out, a)  BY DEF Die, LogAndExit
<1> QED  BY <1>1 DEF Parting

LEMMA ReplyParts ==
  ASSUME out \in Seq(Answer), NEW answers, NEW a, NEW lines, NEW c,
         Loop(answers, lines, c) \/ Reply(a, lines, c)
  PROVE  Parting
BY CannotWriteParts DEF Reply, Loop, Parting

LEMMA ReplyAndExitParts ==
  ASSUME out \in Seq(Answer), NEW a \in Answer, a.whole => a.close, NEW lines, NEW e,
         ReplyAndExit(a, lines, e) \/ ReplyAndDie(a, lines, e)
  PROVE  Parting
BY DieParts, CannotWriteParts DEF ReplyAndExit, ReplyAndDie

LEMMA CutParts ==
  ASSUME out \in Seq(Answer), NEW a \in Answer, NEW lines, NEW e,
         Die(<<Cut(a)>>, lines, e) \/ ReplyAndDie(Cut(a), lines, e)
  PROVE  Parting
<1> DEFINE b == Cut(a)
<1>1. b \in Answer /\ ~b.whole  BY DEF Cut, Answer
<1>2. Die(<<b>>, lines, e) \/ ReplyAndDie(b, lines, e)  OBVIOUS
<1> HIDE DEF b
<1> QED  BY <1>1, <1>2, DieParts, ReplyAndExitParts

LEMMA ErrorFailsParts ==
  ASSUME Flying, NEW status \in Nat, NEW option \in BOOLEAN, ErrorFails(status, option)
  PROVE  Parting
<1>1. ErrorAnswer(status, option, "file") \in Answer  BY ErrorAnswerIs DEF Flying
<1> QED  BY <1>1, CutParts, SilentParts, WaitsPart DEF ErrorFails, Flying, Halted

LEMMA ErrorAndLoopParts ==
  ASSUME Flying, NEW status \in Nat, ErrorAndLoop(status)
  PROVE  Parting
BY ErrorFailsParts, ReplyParts DEF ErrorAndLoop, Flying

LEMMA ErrorAndExitParts ==
  ASSUME Flying, NEW status \in Nat, NEW e \in Nat, ErrorAndExit(status) \/ ErrorAndDie(status, e)
  PROVE  Parting
<1>1. ASSUME NEW page \in Pages, NEW code \in Nat,
             \/ ReplyAndExit(ErrorAnswer(status, TRUE, page), Answered(status), code)
             \/ ReplyAndDie(ErrorAnswer(status, TRUE, page), Answered(status), code)
      PROVE  Parting
  <2> DEFINE a == ErrorAnswer(status, TRUE, page)
  <2>1. a \in Answer  BY ErrorAnswerIs DEF Flying
  <2>2. a.close  BY DEF ErrorAnswer, Stray, Resp
  <2>3. ReplyAndExit(a, Answered(status), code) \/ ReplyAndDie(a, Answered(status), code)
    BY <1>1
  <2> HIDE DEF a
  <2> QED  BY <2>1, <2>2, <2>3, ReplyAndExitParts DEF Flying
<1>2. CASE ErrorFails(status, TRUE)  BY <1>2, ErrorFailsParts
<1> QED  BY <1>1, <1>2 DEF ErrorAndExit, ErrorAndDie

LEMMA EarlyErrorParts ==
  ASSUME Flying, NEW n \in Nat, NEW r, NEW status \in Nat, EarlyError(n, r, status)
  PROVE  Parting
<1> DEFINE a == Resp(n, status, TRUE, Framed(r, "length"))
<1>1. "length" \in Frames  BY DEF Frames
<1>2. Framed(r, "length") \in Frames  BY <1>1, FramedType
<1>3. a \in Answer  BY <1>2, RespIs
<1>4. a.close  BY DEF Resp
<1>5. ReplyAndExit(a, <<>>, 1)  BY DEF EarlyError
<1> HIDE DEF a
<1> QED  BY <1>3, <1>4, <1>5, ReplyAndExitParts DEF Flying

LEMMA FastcgiParts ==
  ASSUME Flying, WellBehaved, Reticent, NEW reply \in FcgiReplies, Fastcgi(reply)
  PROVE  Parting
<1> DEFINE page == FcgiPage(reply)
           lines == Answered(page.status)
<1>1. reply \notin {"localredirect", "nodata", "zero", "bodyless", "empty", "broken", "chunks", "length"}
  BY DEF WellBehaved, Reticent
<1>2. page \in Answer
  <2>1. page = Normal(200, IF reply = "cut" THEN "length" ELSE "chunked")  BY <1>1 DEF FcgiPage
  <2>2. "length" \in Frames /\ "chunked" \in Frames  BY DEF Frames
  <2> QED  BY <2>1, <2>2, NormalIs DEF Flying
<1>3. \/ ErrorAndDie(500, 111) \/ ErrorAndDie(502, 111) \/ ErrorAndDie(502, 2)
      \/ Die(<<>>, <<>>, 111) \/ Reply(page, lines, cont) \/ ReplyAndDie(Cut(page), lines, 111)
  BY <1>1 DEF Fastcgi, FcgiEnd
<1> HIDE DEF page, lines
<1>4. CASE ErrorAndDie(500, 111) \/ ErrorAndDie(502, 111) \/ ErrorAndDie(502, 2)
  BY <1>4, ErrorAndExitParts
<1>5. CASE Die(<<>>, <<>>, 111)  BY <1>5, SilentParts DEF Flying
<1>6. CASE Reply(page, lines, cont)  BY <1>6, ReplyParts DEF Flying
<1>7. CASE ReplyAndDie(Cut(page), lines, 111)  BY <1>2, <1>7, CutParts DEF Flying
<1> QED  BY <1>3, <1>4, <1>5, <1>6, <1>7

LEMMA CgiParts ==
  ASSUME Flying, phase # "exited", NEW run, Cgi(run) \/ LocalRedirect(run)
  PROVE  Parting
<1> DEFINE page == CgiPage(run)
<1>1. page \in Answer  BY CgiPageIs DEF Flying
<1>2. \/ ErrorAndDie(500, 111) \/ ErrorAndDie(502, 2) \/ ErrorAndLoop(504)
      \/ Reply(page, Answered(page.status), cont)
      \/ Die(<<Cut(page)>>, Answered(page.status), 111)
      \/ Waits("copying", Answered(page.status))
      \/ UNCHANGED phase
  BY DEF Cgi, LocalRedirect
<1> HIDE DEF page
<1>3. CASE ErrorAndDie(500, 111) \/ ErrorAndDie(502, 2)  BY <1>3, ErrorAndExitParts
<1>4. CASE ErrorAndLoop(504)  BY <1>4, ErrorAndLoopParts
<1>5. CASE UNCHANGED phase  BY <1>5 DEF Parting
<1> QED  BY <1>1, <1>2, <1>3, <1>4, <1>5, ReplyParts, CutParts, WaitsPart DEF Flying, Halted

LEMMA ServeParts ==
  ASSUME Flying, WellBehaved, Reticent, Serve
  PROVE  Parting
<1>0. asked \in Nat /\ out \in Seq(Answer) /\ phase = "serve"  BY DEF Flying, Serve
<1>f. "length" \in Frames /\ "eof" \in Frames  BY DEF Frames
<1>1. CASE Redirect \/ Directory \/ Options \/ NotModified
  BY <1>0, <1>1, ReplyParts, ZenonT(30) DEF Redirect, Directory, Options, NotModified
<1>2. CASE Absent \/ Denied \/ LongName \/ FileInfo
  BY <1>2, ErrorAndLoopParts DEF Absent, Denied, LongName, FileInfo
<1>3. CASE Broken \/ FileMethod
  BY <1>3, ErrorAndExitParts DEF Broken, FileMethod
<1>4. CASE File
  <2>1. PICK status \in {200, 206} :
          \/ Reply(Normal(status, "length"), Answered(status), cont)
          \/ Die(<<Cut(Normal(status, "length"))>>, Answered(status), 111)
          \/ Waits("spinning", Answered(status))
    BY <1>4 DEF File
  <2>2. Normal(status, "length") \in Answer  BY <1>0, <1>f, NormalIs
  <2> QED  BY <1>0, <2>1, <2>2, ReplyParts, CutParts, WaitsPart DEF Halted
<1>5. CASE FileRefused
  BY <1>5, ErrorAndLoopParts, ErrorAndExitParts DEF FileRefused
<1>6. CASE Nph \/ Rproxy
  <2>1. Waits("raw", <<>>) \/ ErrorAndDie(500, 111)  BY <1>6 DEF Nph, Rproxy
  <2> QED  BY <2>1, WaitsPart, ErrorAndExitParts DEF Halted
<1>7. CASE \E reply \in FcgiReplies : Fastcgi(reply)  BY <1>7, FastcgiParts
<1>8. CASE \E run \in CgiRuns : Cgi(run) \/ LocalRedirect(run)  BY <1>0, <1>8, CgiParts
<1> QED
  BY <1>1, <1>2, <1>3, <1>4, <1>5, <1>6, <1>7, <1>8 DEF Serve, Static

\* Whatever a server's step does, a request in progress or the one whose line is read
\* parts so; only ReadError leaves without a word after a whole answer.
LEMMA StepParts ==
  ASSUME IInv, WellBehaved, Reticent, Server, ~ReadError
  PROVE  Parting
<1>0. Flying  BY DEF IInv, ReqOK, ServerOK, Flying
<1>1. CASE ReadLine
  <2>1. asked + 1 \in Nat  BY <1>0 DEF Flying
  <2>2. \/ phase' = "headers" \/ (\E r : EarlyError(asked + 1, r, 400))
        \/ LogAndExit(<<>>, <<>>, 1)
    BY <1>1 DEF ReadLine, TakeLine
  <2>3. CASE phase' = "headers"  BY <2>3 DEF Parting
  <2>4. CASE \E r : EarlyError(asked + 1, r, 400)  BY <1>0, <2>1, <2>4, EarlyErrorParts
  <2> QED  BY <1>0, <2>2, <2>3, <2>4, SilentParts DEF Flying
<1>2. CASE EndOfRequests  BY <1>0, <1>2, ReplyParts DEF EndOfRequests, Flying
<1>3. CASE HeadersEnd  BY <1>0, <1>3, EarlyErrorParts DEF HeadersEnd, Flying
<1>4. CASE ReadHeaders
  <2>1. HeadersFault(rql) \in Nat  BY HeadersFaultType
  <2>2. \/ EarlyError(asked, rql, HeadersFault(rql))
        \/ \E a, lines, c : Reply(a, lines, c)
        \/ phase' \in {"serve", "body"}
    BY <1>4 DEF ReadHeaders
  <2>3. CASE EarlyError(asked, rql, HeadersFault(rql))
    BY <1>0, <2>1, <2>3, EarlyErrorParts DEF Flying
  <2>4. CASE phase' \in {"serve", "body"}  BY <2>4 DEF Parting
  <2> QED  BY <1>0, <2>2, <2>3, <2>4, ReplyParts DEF Flying
<1>5. CASE ReadFixedBody \/ ReadChunkedBody
  <2>1. \/ ErrorAndExit(413) \/ ErrorAndExit(400) \/ ErrorAndExit(408) \/ ErrorAndDie(500, 111)
        \/ phase' = "serve"
    BY <1>5 DEF ReadFixedBody, ReadChunkedBody
  <2>2. CASE phase' = "serve"  BY <2>2 DEF Parting
  <2> QED  BY <1>0, <2>1, <2>2, ErrorAndExitParts
<1>6. CASE Serve  BY <1>0, <1>6, ServeParts
<1>7. CASE Unblocked  BY <1>0, <1>7, SilentParts DEF Unblocked, Flying
<1> QED  BY <1>1, <1>2, <1>3, <1>4, <1>5, <1>6, <1>7 DEF Server

\* The last answer of a process that fails before its client has left says that the
\* connection is closed, or stops short, if no application goes on after it.
THEOREM FailureCloses ==
  ASSUME WellBehaved, Reticent
  PROVE  Spec => []ErrorCloses
<1>1. Init => ErrorCloses  BY DEF Init, ErrorCloses
<1>2. IInv /\ TInv /\ ErrorCloses /\ [Next]_vars => ErrorCloses'
  <2> SUFFICES ASSUME IInv, TInv, ErrorCloses, [Next]_vars PROVE ErrorCloses'
    OBVIOUS
  <2>1. CASE Client
    <3>1. phase # "exited" /\ phase' = phase
      BY <2>1 DEF Client, ClientAsk, ClientSend, ClientLeave
    <3> QED  BY <3>1 DEF ErrorCloses
  <2>2. CASE UNCHANGED vars  BY <2>2 DEF vars, ErrorCloses
  <2>3. CASE ReadError \/ Unblocked
    BY <2>3 DEF ReadError, Unblocked, clientvars, ErrorCloses
  <2>r. CASE RawEnds
    <3>1. exit' = 0  BY <2>r DEF RawEnds, Die
    <3> QED  BY <3>1 DEF ErrorCloses
  <2>4. CASE Server /\ ~ReadError /\ ~Unblocked
    <3> SUFFICES ASSUME phase' = "exited", exit' # 0, out' # <<>>
                 PROVE  out'[Len(out')].n = asked' /\ out'[Len(out')].whole => out'[Len(out')].close
      BY DEF ErrorCloses
    <3>1. out \in Seq(Answer) /\ asked \in Nat  BY DEF TInv
    <3>2. CASE out' = out
      <4>1. Len(out) \in DOMAIN out  BY <3>1, <3>2, EmptySeq
      <4>2. out[Len(out)].n # asked'
        <5>1. CASE ReadLine
          <6>1. asked' = asked + 1 /\ out[Len(out)].n \in 1..asked
            BY <4>1, <5>1 DEF ReadLine, TInv, Answers
          <6> QED  BY <3>1, <6>1
        <5>2. CASE EndOfRequests
          BY <5>2 DEF EndOfRequests, Loop
        <5>3. CASE ReadHeaders \/ HeadersEnd \/ ReadFixedBody \/ ReadChunkedBody \/ Serve
          <6>1. asked' = asked /\ phase \in {"headers", "body", "serve"}
            BY <5>3 DEF ReadHeaders, HeadersEnd, ReadFixedBody, ReadChunkedBody, Serve
          <6>2. out[Len(out)].n \in 1..(asked - 1)
            BY <4>1, <6>1 DEF TInv, Answers
          <6> QED  BY <3>1, <6>1, <6>2
        <5> QED  BY <2>4, <5>1, <5>2, <5>3 DEF Server
      <4> QED  BY <3>2, <4>2
    <3>3. ASSUME NEW a \in Answer, a.whole => a.close, out' = Append(out, a)
          PROVE  out'[Len(out')].whole => out'[Len(out')].close
      BY <3>1, <3>3, AppendProperties
    <3> QED  BY <2>4, <3>2, <3>3, StepParts DEF Parting
  <2> QED  BY <2>1, <2>2, <2>3, <2>r, <2>4 DEF Next, Over
<1> QED  BY <1>1, <1>2, Inductive, TInductive, PTL DEF Spec

-----------------------------------------------------------------------------
(* The log.  What it must have is said of any sequence of lines, to follow a step *)
(* that adds one line after the other.                                            *)

Pairs == {"request", "answer"}
Has(l, what, n) == \E i \in DOMAIN l : l[i].what = what /\ l[i].n = n
Paired(l) ==
  \A i \in DOMAIN l : l[i].what = "answer" =>
    /\ \E j \in DOMAIN l : l[j].what = "request" /\ j < i /\ l[j].n = l[i].n
    /\ \A j \in DOMAIN l : l[j].what = "answer" /\ l[j].n = l[i].n => j = i

\* All lines are of requests before the k-th.
Older(l, k) == \A n \in Nat, what \in Pairs : Has(l, what, n) => n < k

\* Every request line has its answer line, but the one of the k-th.
Even(l) == \A n \in Nat : Has(l, "request", n) <=> Has(l, "answer", n)
EvenBut(l, k) ==
  /\ Has(l, "request", k) /\ ~Has(l, "answer", k)
  /\ \A n \in Nat : n # k => (Has(l, "request", n) <=> Has(l, "answer", n))

\* The exit line is the last word of a process.
Quiet(l) == \A i \in DOMAIN l : l[i].what # "exit"

LInv ==
  /\ Paired(log) /\ (phase # "exited" => Quiet(log))
  /\ phase = "line" => Even(log) /\ Older(log, asked + 1)
  /\ phase = "headers" => Even(log) /\ Older(log, asked)
  /\ phase \in {"body", "serve"} => EvenBut(log, asked) /\ Older(log, asked + 1)

LEMMA LineAdded ==
  ASSUME NEW l \in Seq(LogLine), NEW x \in LogLine, NEW t, t = l \o <<x>>
  PROVE  /\ t \in Seq(LogLine)
         /\ \A what \in Pairs, n \in Nat :
              Has(t, what, n) <=> Has(l, what, n) \/ (x.what = what /\ x.n = n)
         /\ Paired(l) /\ (x.what = "answer" => Has(l, "request", x.n) /\ ~Has(l, "answer", x.n))
              => Paired(t)
         /\ Quiet(l) /\ x.what # "exit" => Quiet(t)
<1> DEFINE k == Len(l)
<1>1. /\ t \in Seq(LogLine) /\ k \in Nat /\ DOMAIN l = 1..k /\ DOMAIN t = 1..(k + 1)
      /\ t[k + 1] = x /\ \A i \in 1..k : t[i] = l[i]
  BY AppendProperties
<1>2. \A i \in 1..(k + 1) : i \in 1..k \/ i = k + 1  BY <1>1
<1>3. \A i \in 1..k : i \in 1..(k + 1) /\ i < k + 1 /\ i # k + 1  BY <1>1
<1>4. k + 1 \in 1..(k + 1)  BY <1>1
<1> HIDE DEF k
<1>5. \A what \in Pairs, n \in Nat :
        Has(t, what, n) <=> Has(l, what, n) \/ (x.what = what /\ x.n = n)
  BY <1>1, <1>2, <1>3, <1>4 DEF Has
<1>6. ASSUME Paired(l), x.what = "answer" => Has(l, "request", x.n) /\ ~Has(l, "answer", x.n),
             NEW i \in DOMAIN t, t[i].what = "answer"
      PROVE  /\ \E j \in DOMAIN t : t[j].what = "request" /\ j < i /\ t[j].n = t[i].n
             /\ \A j \in DOMAIN t : t[j].what = "answer" /\ t[j].n = t[i].n => j = i
  <2>1. CASE i \in 1..k
    <3>1. l[i] = t[i] /\ i \in DOMAIN l  BY <1>1, <2>1
    <3>2. PICK j \in 1..k : l[j].what = "request" /\ j < i /\ l[j].n = l[i].n
      BY <1>1, <1>6, <3>1 DEF Paired
    <3>3. j \in DOMAIN t /\ t[j].what = "request" /\ t[j].n = t[i].n  BY <1>1, <1>3, <3>1, <3>2
    <3>4. ASSUME NEW m \in DOMAIN t, t[m].what = "answer", t[m].n = t[i].n PROVE m = i
      <4>1. CASE m \in 1..k
        <5>1. l[m] = t[m] /\ m \in DOMAIN l  BY <1>1, <4>1
        <5> QED  BY <1>6, <3>1, <3>4, <5>1 DEF Paired
      <4>2. CASE m = k + 1
        <5>1. x.what = "answer" /\ x.n = l[i].n  BY <1>1, <3>1, <3>4, <4>2
        <5>2. Has(l, "answer", x.n)  BY <1>6, <3>1, <5>1 DEF Has
        <5> QED  BY <1>6, <5>1, <5>2
      <4> QED  BY <1>1, <1>2, <4>1, <4>2
    <3> QED  BY <3>2, <3>3, <3>4
  <2>2. CASE i = k + 1
    <3>1. t[i] = x  BY <1>1, <2>2
    <3>2. Has(l, "request", x.n) /\ ~Has(l, "answer", x.n)  BY <1>6, <3>1
    <3>3. PICK j \in 1..k : l[j].what = "request" /\ l[j].n = x.n  BY <1>1, <3>2 DEF Has
    <3>4. j \in DOMAIN t /\ t[j] = l[j] /\ j < i  BY <1>1, <1>3, <2>2, <3>3
    <3>5. ASSUME NEW m \in DOMAIN t, t[m].what = "answer", t[m].n = t[i].n PROVE m = i
      <4>1. m \notin 1..k  BY <1>1, <3>1, <3>2, <3>5 DEF Has
      <4> QED  BY <1>1, <1>2, <2>2, <4>1
    <3> QED  BY <3>1, <3>3, <3>4, <3>5
  <2> QED  BY <1>1, <1>2, <2>1, <2>2
<1>7. Quiet(l) /\ x.what # "exit" => Quiet(t)  BY <1>1, <1>2 DEF Quiet
<1>8. t \in Seq(LogLine)  BY <1>1
<1> QED  BY <1>5, <1>6, <1>7, <1>8 DEF Paired

LEMMA ExitAdded ==
  ASSUME NEW l \in Seq(LogLine), Paired(l), NEW e \in Nat
  PROVE  Paired(l \o <<Line("exit", 0, e)>>)
<1> DEFINE x == Line("exit", 0, e)
<1>1. x \in LogLine /\ x.what # "answer"  BY DEF Line, LogLine
<1> HIDE DEF x
<1>2. Paired(l \o <<x>>)  BY <1>1, LineAdded
<1> QED  BY <1>2 DEF x

LEMMA RequestAdded ==
  ASSUME NEW l \in Seq(LogLine), Paired(l), Quiet(l), NEW k \in Nat, Even(l), Older(l, k)
  PROVE  LET t == l \o <<Line("request", k, 0)>>
         IN  t \in Seq(LogLine) /\ Paired(t) /\ Quiet(t) /\ EvenBut(t, k) /\ Older(t, k + 1)
<1> DEFINE x == Line("request", k, 0)
           t == l \o <<x>>
<1>1. x \in LogLine /\ x.what = "request" /\ x.n = k  BY DEF Line, LogLine
<1> HIDE DEF x
<1>2. t \in Seq(LogLine) /\ Paired(t) /\ Quiet(t)  BY <1>1, LineAdded
<1>3. \A what \in Pairs, n \in Nat :
        Has(t, what, n) <=> Has(l, what, n) \/ (x.what = what /\ x.n = n)
  BY <1>1, LineAdded
<1> HIDE DEF t
<1>4. Has(t, "request", k)  BY <1>1, <1>3 DEF Pairs
<1>5. ~Has(t, "answer", k)
  <2>1. ~Has(l, "answer", k)  BY DEF Older, Pairs
  <2> QED  BY <1>1, <1>3, <2>1 DEF Pairs
<1>6. \A n \in Nat : n # k => (Has(t, "request", n) <=> Has(t, "answer", n))
  BY <1>1, <1>3 DEF Even, Pairs
<1>7. Older(t, k + 1)
  <2>1. \A n \in Nat : n < k \/ n = k => n < k + 1  OBVIOUS
  <2> QED  BY <1>1, <1>3, <2>1 DEF Older
<1>8. t \in Seq(LogLine) /\ Paired(t) /\ Quiet(t) /\ EvenBut(t, k) /\ Older(t, k + 1)
  BY <1>2, <1>4, <1>5, <1>6, <1>7 DEF EvenBut
<1> QED  BY <1>8 DEF t, x

LEMMA AnswerAdded ==
  ASSUME NEW l \in Seq(LogLine), Paired(l), Quiet(l), NEW k \in Nat, EvenBut(l, k),
         Older(l, k + 1), NEW status \in Nat
  PROVE  LET t == l \o <<Line("answer", k, status)>>
         IN  t \in Seq(LogLine) /\ Paired(t) /\ Quiet(t) /\ Even(t) /\ Older(t, k + 1)
<1> DEFINE x == Line("answer", k, status)
           t == l \o <<x>>
<1>1. x \in LogLine /\ x.what = "answer" /\ x.n = k  BY DEF Line, LogLine
<1> HIDE DEF x
<1>2. t \in Seq(LogLine) /\ Paired(t) /\ Quiet(t)  BY <1>1, LineAdded DEF EvenBut
<1>3. \A what \in Pairs, n \in Nat :
        Has(t, what, n) <=> Has(l, what, n) \/ (x.what = what /\ x.n = n)
  BY <1>1, LineAdded
<1> HIDE DEF t
<1>4. Even(t)
  <2>1. Has(t, "request", k) /\ Has(t, "answer", k)  BY <1>1, <1>3 DEF EvenBut, Pairs
  <2>2. \A n \in Nat : n # k => (Has(t, "request", n) <=> Has(t, "answer", n))
    BY <1>1, <1>3 DEF EvenBut, Pairs
  <2> QED  BY <2>1, <2>2 DEF Even
<1>5. Older(t, k + 1)
  <2>1. k < k + 1  OBVIOUS
  <2> QED  BY <1>1, <1>3, <2>1 DEF Older
<1>6. t \in Seq(LogLine) /\ Paired(t) /\ Quiet(t) /\ Even(t) /\ Older(t, k + 1)
  BY <1>2, <1>4, <1>5
<1> QED  BY <1>6 DEF t, x

\* How the lines of an answer get into the log.
Says(lines) ==
  \/ phase' \in {"line", "exited"} \cup Halted /\ log' = log \o lines
  \/ phase' = "exited" /\ \E e \in Nat : log' = log \o lines \o <<Line("exit", 0, e)>>
Hushes == phase' # "line" /\ Says(<<>>)

LEMMA WaitsSays ==
  ASSUME NEW where \in Halted, NEW lines, Waits(where, lines)
  PROVE  phase' # "line" /\ Says(lines)
BY DEF Waits, Says, Halted

LEMMA CannotWriteSays ==
  ASSUME NEW lines, CannotWrite(lines)
  PROVE  phase' # "line" /\ Says(lines)
BY WaitsSays DEF CannotWrite, Die, Says, Halted

LEMMA ReplySays ==
  ASSUME NEW answers, NEW answer, NEW lines, NEW c,
         Loop(answers, lines, c) \/ Reply(answer, lines, c)
  PROVE  Says(lines)
BY CannotWriteSays DEF Reply, Loop, Says

LEMMA ExitSays ==
  ASSUME NEW answers, NEW answer, NEW lines, NEW e \in Nat,
         \/ Die(answers, lines, e) \/ LogAndExit(answers, lines, e)
         \/ ReplyAndExit(answer, lines, e) \/ ReplyAndDie(answer, lines, e)
  PROVE  phase' # "line" /\ Says(lines)
BY CannotWriteSays DEF Die, LogAndExit, ReplyAndExit, ReplyAndDie, Says

\* What a request that is served has in the log in the end.
Spoken == (\E status \in Nat : Says(Answered(status))) \/ Hushes

LEMMA ErrorFailsSpeaks ==
  ASSUME NEW status \in Nat, NEW option, ErrorFails(status, option)
  PROVE  Spoken
<1>1. CASE Die(<<>>, <<>>, 102)  BY <1>1, ExitSays DEF Spoken, Hushes
<1>2. CASE Die(<<Cut(ErrorAnswer(status, option, "file"))>>, Answered(status), 111)
  BY <1>2, ExitSays DEF Spoken
<1>3. CASE Waits("spinning", Answered(status))  BY <1>3, WaitsSays DEF Spoken, Halted
<1> QED  BY <1>1, <1>2, <1>3 DEF ErrorFails

LEMMA ErrorSpeaks ==
  ASSUME NEW status \in Nat, NEW e \in Nat,
         ErrorAndLoop(status) \/ ErrorAndExit(status) \/ ErrorAndDie(status, e)
  PROVE  Spoken
<1>1. ASSUME NEW page \in Pages, Reply(ErrorAnswer(status, FALSE, page), Answered(status), cont)
      PROVE  Spoken
  BY <1>1, ReplySays DEF Spoken
<1>2. ASSUME NEW page \in Pages, NEW code \in Nat,
             \/ ReplyAndExit(ErrorAnswer(status, TRUE, page), Answered(status), code)
             \/ ReplyAndDie(ErrorAnswer(status, TRUE, page), Answered(status), code)
      PROVE  Spoken
  BY <1>2, ExitSays DEF Spoken
<1>3. CASE ErrorFails(status, FALSE) \/ ErrorFails(status, TRUE)
  BY <1>3, ErrorFailsSpeaks
<1> QED  BY <1>1, <1>2, <1>3 DEF ErrorAndLoop, ErrorAndExit, ErrorAndDie

LEMMA FastcgiSpeaks ==
  ASSUME Serving, WellBehaved, NEW reply \in FcgiReplies, Fastcgi(reply)
  PROVE  Spoken
<1> DEFINE page == FcgiPage(reply)
           lines == Answered(page.status)
<1>1. reply \notin {"localredirect", "nodata", "zero", "bodyless", "empty", "broken"}
  BY DEF WellBehaved
<1>2. page.status \in Nat  BY FcgiPageType
<1>3. \/ ErrorAndDie(500, 111) \/ ErrorAndDie(502, 111) \/ ErrorAndDie(502, 2)
      \/ Die(<<>>, <<>>, 111) \/ Reply(page, lines, cont) \/ ReplyAndDie(page, lines, 111)
      \/ ReplyAndDie(Cut(page), lines, 111)
  BY <1>1 DEF Fastcgi, FcgiEnd
<1> HIDE DEF page
<1>4. CASE ErrorAndDie(500, 111) \/ ErrorAndDie(502, 111) \/ ErrorAndDie(502, 2)
  BY <1>4, ErrorSpeaks
<1>5. CASE Die(<<>>, <<>>, 111)  BY <1>5, ExitSays DEF Spoken, Hushes
<1>6. CASE Reply(page, lines, cont)  BY <1>2, <1>6, ReplySays DEF Spoken
<1>7. CASE ReplyAndDie(page, lines, 111)  BY <1>2, <1>7, ExitSays DEF Spoken
<1>8. CASE ReplyAndDie(Cut(page), lines, 111)  BY <1>2, <1>8, ExitSays DEF Spoken
<1> QED  BY <1>3, <1>4, <1>5, <1>6, <1>7, <1>8

LEMMA CgiSpeaks ==
  ASSUME Serving, NEW run \in CgiRuns, Cgi(run) \/ LocalRedirect(run)
  PROVE  Spoken \/ UNCHANGED <<phase, log>>
<1> DEFINE page == CgiPage(run)
           lines == Answered(page.status)
<1>1. page.status \in Nat  BY CgiPageType
<1>2. \/ ErrorAndDie(500, 111) \/ ErrorAndDie(502, 2) \/ ErrorAndLoop(504)
      \/ Reply(page, lines, cont) \/ Die(<<Cut(page)>>, lines, 111)
      \/ Waits("copying", lines) \/ UNCHANGED <<phase, log>>
  BY DEF Cgi, LocalRedirect
<1> HIDE DEF page
<1>3. CASE ErrorAndDie(500, 111) \/ ErrorAndDie(502, 2) \/ ErrorAndLoop(504)
  BY <1>3, ErrorSpeaks
<1>4. CASE Reply(page, lines, cont)  BY <1>1, <1>4, ReplySays DEF Spoken
<1>5. CASE Die(<<Cut(page)>>, lines, 111)  BY <1>1, <1>5, ExitSays DEF Spoken
<1>6. CASE Waits("copying", lines)  BY <1>1, <1>6, WaitsSays DEF Spoken, Halted
<1> QED  BY <1>2, <1>3, <1>4, <1>5, <1>6

LEMMA ServeSpeaks ==
  ASSUME IInv, WellBehaved, Serve
  PROVE  Spoken \/ UNCHANGED <<phase, log>>
<1>0. Serving  BY DEF Serving, Serve
<1>1. CASE Redirect \/ Directory \/ Options \/ NotModified
  <2>1. ASSUME NEW answer, NEW status \in Nat, Reply(answer, Answered(status), cont)
        PROVE  Spoken
    <3>1. Says(Answered(status))  BY <2>1, ReplySays
    <3> QED  BY <3>1 DEF Spoken
  <2> DEFINE a == Resp(asked, 308, FALSE, Framed(rql, "length"))
             b == Resp(asked, 200, FALSE, "length")
             c == Normal(304, "none")
  <2>2. Reply(a, Answered(308), cont) \/ Reply(b, Answered(200), cont) \/ Reply(c, Answered(304), cont)
    BY <1>1 DEF Redirect, Directory, Options, NotModified
  <2> HIDE DEF a, b, c
  <2> QED  BY <2>1, <2>2
<1>2. CASE Absent \/ Denied \/ LongName \/ FileInfo
  BY <1>2, ErrorSpeaks DEF Absent, Denied, LongName, FileInfo
<1>3. CASE Broken \/ FileMethod \/ FileRefused
  BY <1>3, ErrorSpeaks DEF Broken, FileMethod, FileRefused
<1>4. CASE File
  <2>1. PICK status \in {200, 206} :
          \/ Reply(Normal(status, "length"), Answered(status), cont)
          \/ Die(<<Cut(Normal(status, "length"))>>, Answered(status), 111)
          \/ Waits("spinning", Answered(status))
    BY <1>4 DEF File
  <2> QED  BY <2>1, ReplySays, ExitSays, WaitsSays DEF Spoken, Halted
<1>5. CASE Nph \/ Rproxy
  <2>1. Waits("raw", <<>>) \/ ErrorAndDie(500, 111)  BY <1>5 DEF Nph, Rproxy
  <2>2. CASE Waits("raw", <<>>)  BY <2>2, WaitsSays DEF Spoken, Hushes, Halted
  <2> QED  BY <2>1, <2>2, ErrorSpeaks
<1>6. CASE \E reply \in FcgiReplies : Fastcgi(reply)  BY <1>0, <1>6, FastcgiSpeaks
<1>7. CASE \E run \in CgiRuns : Cgi(run) \/ LocalRedirect(run)  BY <1>0, <1>7, CgiSpeaks
<1> QED
  BY <1>1, <1>2, <1>3, <1>4, <1>5, <1>6, <1>7 DEF Serve, Static

\* A request that ends with its answer line, or without a word.
LEMMA SpokenKeeps ==
  ASSUME IInv, LInv, phase \in {"body", "serve"}, UNCHANGED asked, Spoken
  PROVE  LInv'
<1>1. /\ log \in Seq(LogLine) /\ asked \in Nat /\ Paired(log) /\ EvenBut(log, asked)
      /\ Older(log, asked + 1) /\ Quiet(log)
  BY DEF IInv, ReqOK, ServerOK, LInv
<1>2. ASSUME NEW status \in Nat, Says(Answered(status))
      PROVE  LInv'
  <2> DEFINE t == log \o Answered(status)
  <2>1. t \in Seq(LogLine) /\ Paired(t) /\ Quiet(t) /\ Even(t) /\ Older(t, asked + 1)
    BY <1>1, AnswerAdded DEF Answered
  <2>2. \/ phase' \in {"line", "exited"} \cup Halted /\ log' = t
        \/ phase' = "exited" /\ \E e \in Nat : log' = t \o <<Line("exit", 0, e)>>
    BY <1>2 DEF Says
  <2> HIDE DEF t
  <2>3. Paired(log')  BY <2>1, <2>2, ExitAdded
  <2>4. /\ phase' = "line" => Even(log') /\ Older(log', asked + 1)
        /\ phase' # "exited" => Quiet(log')
    BY <2>1, <2>2
  <2> QED  BY <2>2, <2>3, <2>4 DEF LInv, Halted
<1>3. CASE Hushes
  <2>0. log \o <<>> = log  BY <1>1
  <2>1. \/ phase' \in {"exited"} \cup Halted /\ log' = log
        \/ phase' = "exited" /\ \E e \in Nat : log' = log \o <<Line("exit", 0, e)>>
    BY <1>3, <2>0 DEF Hushes, Says
  <2>2. Paired(log')  BY <1>1, <2>1, ExitAdded
  <2> QED  BY <1>1, <2>1, <2>2 DEF LInv, Halted
<1> QED  BY <1>2, <1>3 DEF Spoken

\* The end of the process without a line but the last, or a wait for the client.
LEMMA HushKeeps ==
  ASSUME IInv, LInv, phase # "exited", Hushes
  PROVE  LInv'
<1>1. log \in Seq(LogLine) /\ Paired(log) /\ Quiet(log)  BY DEF IInv, ReqOK, ServerOK, LInv
<1>0. log \o <<>> = log  BY <1>1
<1>2. \/ phase' \in {"exited"} \cup Halted /\ log' = log
      \/ phase' = "exited" /\ \E e \in Nat : log' = log \o <<Line("exit", 0, e)>>
  BY <1>0 DEF Hushes, Says
<1>3. Paired(log')  BY <1>1, <1>2, ExitAdded
<1> QED  BY <1>1, <1>2, <1>3 DEF LInv, Halted

LEMMA ReadHeadersLogs ==
  ASSUME IInv, LInv, ReadHeaders
  PROVE  LInv'
<1> DEFINE request == <<Line("request", asked, 0)>>
           both == request \o Answered(200)
           r == log \o request
<1>1. /\ log \in Seq(LogLine) /\ asked \in Nat /\ Paired(log) /\ Even(log) /\ Older(log, asked)
      /\ asked' = asked /\ Quiet(log) /\ phase = "headers"
  BY DEF IInv, ReqOK, ServerOK, LInv, ReadHeaders
<1>2. r \in Seq(LogLine) /\ Paired(r) /\ Quiet(r) /\ EvenBut(r, asked) /\ Older(r, asked + 1)
  BY <1>1, RequestAdded
<1>3. \/ EarlyError(asked, rql, HeadersFault(rql))
      \/ \E a, c : Reply(a, <<>>, c)
      \/ \E a, c : Reply(a, both, c)
      \/ phase' \in {"serve", "body"} /\ log' = r
  BY DEF ReadHeaders
<1>4. CASE EarlyError(asked, rql, HeadersFault(rql))
  <2>1. Hushes  BY <1>4, ExitSays DEF EarlyError, Hushes
  <2> QED  BY <1>1, <2>1, HushKeeps
<1>5. CASE \E a, c : Reply(a, <<>>, c)
  <2>1. Says(<<>>)  BY <1>5, ReplySays
  <2>2. CASE phase' # "line"  BY <1>1, <2>1, <2>2, HushKeeps DEF Hushes
  <2>3. CASE phase' = "line"
    <3>1. log' = log  BY <1>1, <2>1, <2>3 DEF Says
    <3>2. Older(log, asked + 1)
      <4>1. \A n \in Nat : n < asked => n < asked + 1  BY <1>1
      <4> QED  BY <1>1, <4>1 DEF Older
    <3> QED  BY <1>1, <2>3, <3>1, <3>2 DEF LInv
  <2> QED  BY <2>2, <2>3
<1>6. CASE \E a, c : Reply(a, both, c)
  <2> DEFINE t == r \o Answered(200)
  <2>1. t \in Seq(LogLine) /\ Paired(t) /\ Quiet(t) /\ Even(t) /\ Older(t, asked + 1)
    <3> HIDE DEF r
    <3> QED  BY <1>1, <1>2, AnswerAdded DEF Answered
  <2>2. log \o both = t
    <3>1. request \in Seq(LogLine) /\ Answered(200) \in Seq(LogLine)
      BY <1>1 DEF Answered, Line, LogLine
    <3> HIDE DEF request
    <3> QED  BY <1>1, <3>1, ConcatAssociative
  <2>3. Says(both)
    <3> HIDE DEF both
    <3> QED  BY <1>6, ReplySays
  <2>4. \/ phase' \in {"line", "exited"} \cup Halted /\ log' = t
        \/ phase' = "exited" /\ \E e \in Nat : log' = t \o <<Line("exit", 0, e)>>
    <3> HIDE DEF t, both
    <3> QED  BY <2>2, <2>3 DEF Says
  <2> HIDE DEF t
  <2>5. Paired(log')  BY <2>1, <2>4, ExitAdded
  <2> QED  BY <1>1, <2>1, <2>4, <2>5 DEF LInv, Halted
<1>7. CASE phase' \in {"serve", "body"} /\ log' = r
  <2> HIDE DEF r
  <2> QED  BY <1>1, <1>2, <1>7 DEF LInv
<1> HIDE DEF r, both
<1> QED  BY <1>3, <1>4, <1>5, <1>6, <1>7

LEMMA StepLogs ==
  ASSUME IInv, LInv, WellBehaved, [Next]_vars
  PROVE  LInv'
<1>1. CASE Client \/ UNCHANGED vars
  <2>1. UNCHANGED <<phase, asked, log>>
    BY <1>1 DEF Client, ClientAsk, ClientSend, ClientLeave, vars
  <2> QED  BY <2>1 DEF LInv
<1>2. CASE ReadLine
  <2>1. asked \in Nat /\ asked' = asked + 1 /\ phase = "line"
    BY <1>2 DEF ReadLine, IInv, ReqOK, ServerOK
  <2>2. \/ phase' = "headers" /\ log' = log
        \/ \E r : EarlyError(asked + 1, r, 400)
        \/ LogAndExit(<<>>, <<>>, 1)
    BY <1>2 DEF ReadLine, TakeLine
  <2>3. CASE phase' = "headers" /\ log' = log  BY <2>1, <2>3 DEF LInv
  <2>4. CASE \E r : EarlyError(asked + 1, r, 400)
    <3>1. Hushes  BY <2>4, ExitSays DEF EarlyError, Hushes
    <3> QED  BY <2>1, <3>1, HushKeeps
  <2>5. CASE LogAndExit(<<>>, <<>>, 1)
    <3>1. Hushes  BY <2>5, ExitSays DEF Hushes
    <3> QED  BY <2>1, <3>1, HushKeeps
  <2> QED  BY <2>2, <2>3, <2>4, <2>5
<1>3. CASE EndOfRequests
  <2>1. phase = "line" /\ phase' = "exited" /\ Says(<<>>)
    BY <1>3, ReplySays DEF EndOfRequests, Loop
  <2> QED  BY <2>1, HushKeeps DEF Hushes
<1>4. CASE ReadError \/ HeadersEnd
  <2>1. Hushes  BY <1>4, ExitSays DEF ReadError, HeadersEnd, EarlyError, Hushes
  <2>2. phase \in {"line", "headers"}  BY <1>4 DEF ReadError, HeadersEnd
  <2> QED  BY <2>1, <2>2, HushKeeps
<1>5. CASE Unblocked \/ RawEnds
  <2>1. Hushes  BY <1>5, ExitSays DEF Unblocked, RawEnds, Hushes
  <2>2. phase \in Halted  BY <1>5 DEF Unblocked, RawEnds, Halted
  <2> QED  BY <2>1, <2>2, HushKeeps DEF Halted
<1>6. CASE ReadHeaders  BY <1>6, ReadHeadersLogs
<1>7. CASE ReadFixedBody \/ ReadChunkedBody
  <2>1. phase = "body" /\ asked' = asked  BY <1>7 DEF ReadFixedBody, ReadChunkedBody
  <2>2. \/ ErrorAndExit(413) \/ ErrorAndExit(400) \/ ErrorAndExit(408) \/ ErrorAndDie(500, 111)
        \/ phase' = "serve" /\ log' = log
    BY <1>7 DEF ReadFixedBody, ReadChunkedBody
  <2>3. CASE phase' = "serve" /\ log' = log  BY <2>1, <2>3 DEF LInv
  <2>4. CASE \/ ErrorAndExit(413) \/ ErrorAndExit(400) \/ ErrorAndExit(408) \/ ErrorAndDie(500, 111)
    BY <2>1, <2>4, ErrorSpeaks, SpokenKeeps
  <2> QED  BY <2>2, <2>3, <2>4
<1>8. CASE Serve
  <2>1. phase = "serve" /\ asked' = asked  BY <1>8 DEF Serve
  <2>2. CASE UNCHANGED <<phase, log>>  BY <2>1, <2>2 DEF LInv
  <2> QED  BY <1>8, <2>1, <2>2, ServeSpeaks, SpokenKeeps
<1> QED  BY <1>1, <1>2, <1>3, <1>4, <1>5, <1>6, <1>7, <1>8 DEF Next, Server, Over

LEMMA LInductive ==
  ASSUME WellBehaved
  PROVE  Spec => []LInv
<1>1. Init => LInv
  BY DEF Init, LInv, Paired, Quiet, Even, Older, Has
<1>2. IInv /\ LInv /\ [Next]_vars => LInv'  BY StepLogs
<1> QED  BY <1>1, <1>2, Inductive, PTL DEF Spec

\* Every answer line of the log follows the request line of its request and is the only
\* one; and between two requests none is missing, if no application fails after its
\* headers.
THEOREM LogIsPaired ==
  ASSUME WellBehaved
  PROVE  Spec => []LogPaired
<1>1. IInv /\ LInv => LogPaired
  <2> SUFFICES ASSUME IInv, LInv PROVE LogPaired  OBVIOUS
  <2>0. log \in Seq(LogLine)  BY DEF IInv, ReqOK, ServerOK
  <2>1. \A i \in DOMAIN log : log[i].n \in Nat
    <3> SUFFICES ASSUME NEW i \in DOMAIN log PROVE log[i].n \in Nat  OBVIOUS
    <3>1. log[i] \in LogLine  BY <2>0
    <3> QED  BY <3>1 DEF LogLine
  <2>2. phase = "line" => NumbersOf("answer") = NumbersOf("request")
    BY <2>1 DEF LInv, Even, Has, NumbersOf, LinesOf
  <2> QED  BY <2>2 DEF LInv, Paired, LogPaired, LinesOf
<1> QED  BY <1>1, Inductive, LInductive, PTL

-----------------------------------------------------------------------------
(* What exit code 0 says. *)

\* Every request up to the k-th has a complete answer.
EveryWhole(k) == \A n \in 1..k : \E i \in DOMAIN out : out[i].n = n /\ out[i].whole

EInv ==
  phase = "exited" /\ exit = 0 =>
    EveryWhole(asked) \/ (EveryWhole(asked - 1) /\ Quiet(log))

LEMMA EInvKept ==
  ASSUME TInv, LInv, EInv, LineRead \/ LineEnds \/ Flight \/ HaltedEnds \/ Aside
  PROVE  EInv'
<1> SUFFICES ASSUME phase' = "exited", exit' = 0
             PROVE  EveryWhole(asked)' \/ (EveryWhole(asked - 1)' /\ Quiet(log)')
  BY DEF EInv
<1>1. asked \in Nat /\ out \in Seq(Answer)  BY DEF TInv
<1>2. CASE LineRead  BY <1>2 DEF LineRead, Halted
<1>3. CASE LineEnds
  <2>1. Every(asked) /\ Whole /\ UNCHANGED <<asked, out>>  BY <1>3 DEF LineEnds, TInv
  <2> QED  BY <2>1 DEF Every, Whole, EveryWhole
<1>4. CASE Flight
  <2>1. PICK a \in Answer : a.n = asked /\ a.whole /\ out' = Append(out, a)
    BY <1>4 DEF Flight, Kept, Stopped, Ended, Hangs, Halted
  <2>2. asked # 0 /\ Answers(asked - 1) /\ Every(asked - 1) /\ Whole /\ asked' = asked
    BY <1>4 DEF Flight, TInv
  <2>3. PICK k \in Nat : k = asked  BY <1>1
  <2>4. k # 0 /\ Answers(k - 1) /\ Every(k - 1) /\ a.n = k  BY <2>1, <2>2, <2>3
  <2>5. Every(k)' /\ Whole'  BY <1>1, <2>1, <2>2, <2>4, OneMore
  <2> QED  BY <2>2, <2>3, <2>5 DEF Every, Whole, EveryWhole
<1>5. CASE HaltedEnds
  <2>1. /\ Every(asked - 1) /\ Whole /\ Quiet(log) /\ UNCHANGED <<asked, log>>
    BY <1>5 DEF HaltedEnds, TInv, LInv, Halted
  <2>2. \A i \in DOMAIN out : i \in DOMAIN out' /\ out'[i] = out[i]
    <3>1. CASE out' = out  BY <3>1
    <3>2. ASSUME NEW a \in Answer, out' = Append(out, a)
          PROVE  \A i \in DOMAIN out : i \in DOMAIN out' /\ out'[i] = out[i]
      BY <1>1, <3>2, Appended
    <3> QED  BY <1>5, <3>1, <3>2 DEF HaltedEnds
  <2>3. EveryWhole(asked - 1)'
    BY <2>1, <2>2 DEF Every, Whole, EveryWhole
  <2> QED  BY <2>1, <2>3 DEF Quiet
<1>6. CASE Aside
  BY <1>6 DEF Aside, EInv, EveryWhole, Quiet
<1> QED  BY <1>2, <1>3, <1>4, <1>5, <1>6

\* A process that exits with 0 has given every request it took a complete answer, but
\* for one that it handed over to an NPH script or to a remote server: then it has left
\* no exit line.
THEOREM AllAnsweredAtExit ==
  ASSUME WellBehaved
  PROVE  Spec => []CleanExit
<1>1. Init => EInv  BY DEF Init, EInv
<1>2. IInv /\ TInv /\ LInv /\ EInv /\ [Next]_vars => EInv'
  BY StepIs, EInvKept
<1>3. IInv /\ TInv /\ EInv => CleanExit
  <2> SUFFICES ASSUME TInv, EInv, phase = "exited", exit = 0,
                      NEW n \in 1..(IF LinesOf("exit") = {} THEN asked - 1 ELSE asked)
               PROVE  \E i \in DOMAIN out : out[i].n = n /\ out[i].whole
    BY DEF CleanExit
  <2>1. asked \in Nat /\ n \in 1..asked  BY DEF TInv
  <2>2. CASE EveryWhole(asked)  BY <2>1, <2>2 DEF EveryWhole
  <2>3. CASE EveryWhole(asked - 1) /\ Quiet(log)
    <3>1. LinesOf("exit") = {}  BY <2>3 DEF Quiet, LinesOf
    <3> QED  BY <2>3, <3>1 DEF EveryWhole
  <2> QED  BY <2>2, <2>3 DEF EInv
<1> QED  BY <1>1, <1>2, <1>3, Inductive, TInductive, LInductive, PTL DEF Spec

=============================================================================
