----------------------------- MODULE Cgi_proofs -----------------------------
(***************************************************************************)
(* Proofs about Cgi, for any requests, scripts and sizes of the pipes and  *)
(* of the buffer: typing, the whole body for the script, the whole page    *)
(* for the client, and one answer.                                         *)
(***************************************************************************)
EXTENDS Cgi, TLAPS

Copying == {"fixed", "chunked", "infinite"}

\* The body: what stdin is closed with.
FeedOK ==
  /\ feeding => pc \in {"iopause", "bad", "feed", "late", "died"} /\ fed < job.len
  /\ ~feeding /\ ~signalled /\ alive => fed = job.len
  /\ BodyIsWhole

\* Nothing is sent before the headers are read, and they are read in iopause.
HeadOK ==
  /\ pc = "iopause" => taken < HeadLen
  /\ pc \in {"feed", "headers"} \cup Copying => taken >= HeadLen
  /\ pc \in {"iopause", "bad", "feed", "late", "headers"} => sent = 0 /\ ans = <<>>
  /\ signalled => pc = "late" \/ Over
  /\ pc = "late" => signalled
  /\ alive => held

\* What was sent while the page is copied, by each of the three ways.
CopyOK ==
  /\ pc \in Copying => ~job.head /\ script.kind = "page" /\ ans \in {<<200>>, <<304>>}
  /\ pc = "fixed" => script.sized /\ sent = taken - HeadLen /\ sent < script.length
  /\ pc = "chunked" => ~script.sized /\ sent <= taken - HeadLen
  /\ pc = "infinite" => ~script.sized /\ sent = taken - HeadLen
  /\ ended => pc = "returned" /\ sent = written - HeadLen /\ ~held

\* The inductive invariant.
IInv == TypeOK /\ FeedOK /\ HeadOK /\ CopyOK /\ PageCopied /\ OneAnswer

-----------------------------------------------------------------------------
LEMMA Constant ==
  ASSUME TypeOK
  PROVE  /\ job.len \in Nat /\ job.head \in BOOLEAN /\ job.auto \in BOOLEAN
         /\ script.out \in Nat /\ script.length \in Nat /\ script.sized \in BOOLEAN
         /\ HeadLen \in Nat \ {0} /\ PipeSize \in Nat \ {0} /\ BufSize \in Nat \ {0}
  BY CgiAssumption DEF TypeOK, Job, Script

LEMMA LeastIs ==
  ASSUME NEW a \in Nat, NEW b \in Nat
  PROVE  /\ Least(a, b) \in Nat /\ Least(a, b) <= a /\ Least(a, b) <= b
         /\ Least(a, b) = a \/ Least(a, b) = b
  BY DEF Least

LEMMA First ==
  ASSUME ans = <<>>, NEW status
  PROVE  Append(ans, status) = <<status>> /\ Append(ans, status) # <<>>
  OBVIOUS

\* The pipe to the script and what is left of the body.
LEMMA FeedSomeOK ==
  ASSUME TypeOK, feeding, fed < job.len, FeedSome, UNCHANGED <<job, script, scriptvars, deaf>>
  PROVE  /\ fed' \in 0..job.len /\ got \in 0..fed' /\ fed' - got <= PipeSize
         /\ feeding' \in BOOLEAN
         /\ feeding' => fed' < job.len
         /\ ~feeding' /\ alive => fed' = job.len
<1> DEFINE room == PipeSize - InPipe
           left == job.len - fed
<1>1. room \in Nat /\ left \in Nat /\ fed \in Nat /\ got \in 0..fed /\ job.len \in Nat
      /\ alive \in BOOLEAN
  BY Constant DEF TypeOK, InPipe
<1>2. /\ Least(room, left) \in Nat /\ Least(room, left) <= room /\ Least(room, left) <= left
  <2> HIDE DEF room, left
  <2> QED  BY <1>1, LeastIs
<1>3. fed' = IF alive THEN fed + Least(room, left) ELSE fed
  BY DEF FeedSome, FeedFrom
<1>4. feeding' \in BOOLEAN /\ (feeding' <=> alive /\ fed' < job.len)
  BY <1>1 DEF FeedSome, FeedFrom
<1>5. /\ fed' \in 0..job.len /\ got \in 0..fed' /\ fed' - got <= PipeSize
      /\ fed' < job.len \/ fed' = job.len
  <2> DEFINE n == Least(room, left)
  <2> HIDE DEF n
  <2>1. n \in Nat /\ n <= PipeSize - (fed - got) /\ n <= job.len - fed /\ fed - got <= PipeSize
    BY <1>2 DEF n, InPipe, TypeOK
  <2>2. fed' = fed + n \/ fed' = fed
    BY <1>3 DEF n
  <2>3. PipeSize \in Nat  BY Constant
  <2>4. fed <= job.len  BY Constant DEF TypeOK
  <2> QED  BY <1>1, <2>1, <2>2, <2>3, <2>4
<1> QED  BY <1>4, <1>5

Kept == UNCHANGED <<job, script, scriptvars, deaf>>

LEMMA Singleton ==
  ASSUME NEW S, NEW x \in S
  PROVE  <<x>> \in Seq(S) /\ Len(<<x>>) = 1 /\ <<x>> # <<>> /\ Append(<<>>, x) = <<x>>
  OBVIOUS

LEMMA Statuses ==
  ASSUME NEW status \in {200, 304, 502, 504}
  PROVE  /\ <<status>> \in Seq({200, 304, 502, 504}) /\ <<status>> # <<>> /\ Len(<<status>>) = 1
         /\ <<>> \in Seq({200, 304, 502, 504}) /\ Len(<<>>) = 0
         /\ ans = <<>> => Append(ans, status) = <<status>>
<1> DEFINE S == {200, 304, 502, 504}
<1>1. status \in S  OBVIOUS
<1> HIDE DEF S
<1>2. /\ <<status>> \in Seq(S) /\ <<status>> # <<>> /\ Len(<<status>>) = 1
      /\ Append(<<>>, status) = <<status>> /\ <<>> \in Seq(S) /\ Len(<<>>) = 0
  BY <1>1, Singleton
<1> QED  BY <1>2 DEF S

-----------------------------------------------------------------------------
(* The steps of do_cgi(). *)

LEMMA IopauseOK ==
  ASSUME IInv, Iopause, Kept
  PROVE  IInv'
<1>1. /\ pc = "iopause" /\ sent = 0 /\ ans = <<>> /\ ~signalled /\ taken < HeadLen /\ ~ended
      /\ UNCHANGED <<job, script, got, eof, written, alive, held, deaf, reading, sent, ended, ans,
                     signalled, reaped>>
  BY DEF IInv, HeadOK, CopyOK, Over, Iopause, Kept, scriptvars
<1>2. /\ fed' \in 0..job.len /\ got \in 0..fed' /\ fed' - got <= PipeSize
      /\ feeding' \in BOOLEAN
      /\ feeding' => fed' < job.len
      /\ ~feeding' /\ alive => fed' = job.len
  <2>1. CASE Writable
    <3>1. feeding /\ fed < job.len /\ FeedSome  BY <2>1 DEF Writable, Iopause, IInv, FeedOK
    <3> QED  BY <3>1, FeedSomeOK DEF IInv, Kept
  <2>2. CASE ~Writable
    <3>1. fed' = fed /\ feeding' = feeding  BY <2>2 DEF Iopause
    <3> QED  BY <3>1, <1>1 DEF IInv, TypeOK, FeedOK, InPipe
  <2> QED  BY <2>1, <2>2
<1>3. /\ taken' \in 0..written /\ written - taken' <= PipeSize
      /\ pc' \in {"iopause", "bad", "feed", "headers"}
      /\ pc' = "iopause" => taken' < HeadLen
      /\ pc' \in {"feed", "headers"} => taken' >= HeadLen
      /\ pc' = "headers" => ~feeding'
  <2>1. CASE Readable
    <3> DEFINE n == Least(OutPipe, BufSize)
    <3>1. OutPipe \in Nat /\ BufSize \in Nat /\ taken \in Nat /\ written \in Nat /\ OutPipe = written - taken
      BY Constant DEF IInv, TypeOK, OutPipe
    <3>2. n \in Nat /\ n <= OutPipe
      <4> HIDE DEF n
      <4> QED  BY <3>1, LeastIs DEF n
    <3>3. /\ taken' = taken + n
          /\ \/ pc' = "bad"
             \/ pc' = IF taken' < HeadLen THEN "iopause" ELSE IF feeding' THEN "feed" ELSE "headers"
      BY <2>1 DEF Iopause, ReadHead
    <3> HIDE DEF n
    <3>4. HeadLen \in Nat /\ OutPipe <= PipeSize /\ PipeSize \in Nat  BY Constant DEF IInv, TypeOK
    <3>5. taken' \in 0..written /\ written - taken' <= PipeSize
      BY <3>1, <3>2, <3>3, <3>4
    <3>6. taken' \in Nat
      BY <3>1, <3>5
    <3> QED  BY <3>3, <3>4, <3>5, <3>6
  <2>2. CASE ~Readable
    <3>1. taken' = taken /\ pc' = pc  BY <2>2 DEF Iopause
    <3> QED  BY <3>1, <1>1 DEF IInv, TypeOK, OutPipe
  <2> QED  BY <2>1, <2>2
<1>4. TypeOK'
  BY <1>1, <1>2, <1>3 DEF IInv, TypeOK, InPipe, OutPipe
<1>5. FeedOK'
  BY <1>1, <1>2, <1>3 DEF IInv, FeedOK, BodyIsWhole, TypeOK
<1>6. HeadOK' /\ CopyOK'
  BY <1>1, <1>3 DEF IInv, HeadOK, CopyOK, Copying, Over
<1>7. PageCopied' /\ OneAnswer'
  BY <1>1, <1>3 DEF PageCopied, OneAnswer
<1> QED  BY <1>4, <1>5, <1>6, <1>7 DEF IInv

LEMMA FeedStepOK ==
  ASSUME IInv, Feed, Kept
  PROVE  IInv'
<1>1. /\ pc = "feed" /\ feeding /\ FeedSome /\ fed < job.len
      /\ sent = 0 /\ ans = <<>> /\ ~signalled /\ taken >= HeadLen /\ ~ended
      /\ UNCHANGED <<job, script, got, eof, written, alive, held, deaf,
                     taken, reading, sent, ended, ans, signalled, reaped>>
  BY DEF IInv, FeedOK, HeadOK, CopyOK, Over, Feed, Writable, Kept, scriptvars
<1>2. /\ fed' \in 0..job.len /\ got \in 0..fed' /\ fed' - got <= PipeSize
      /\ feeding' \in BOOLEAN
      /\ feeding' => fed' < job.len
      /\ ~feeding' /\ alive => fed' = job.len
  BY <1>1, FeedSomeOK DEF IInv, Kept
<1>3. pc' \in {"feed", "headers"} /\ (pc' = "headers" => ~feeding')
  BY <1>2 DEF Feed
<1>4. TypeOK'
  BY <1>1, <1>2, <1>3 DEF IInv, TypeOK, InPipe, OutPipe
<1>5. FeedOK'
  BY <1>1, <1>2, <1>3 DEF IInv, FeedOK, BodyIsWhole, TypeOK
<1>6. HeadOK' /\ CopyOK'
  BY <1>1, <1>3 DEF IInv, HeadOK, CopyOK, Copying, Over
<1>7. PageCopied' /\ OneAnswer'
  BY <1>1, <1>3 DEF PageCopied, OneAnswer
<1> QED  BY <1>4, <1>5, <1>6, <1>7 DEF IInv

LEMMA CgiTimeoutOK ==
  ASSUME IInv, CgiTimeout, Kept
  PROVE  IInv'
<1>1. /\ pc \in {"iopause", "feed"} /\ sent = 0 /\ ans = <<>> /\ ~ended
      /\ signalled' = TRUE /\ pc' = "late"
      /\ UNCHANGED <<job, script, got, eof, written, alive, held, deaf,
                     fed, feeding, taken, reading, sent, ended, ans, reaped>>
  BY DEF IInv, HeadOK, CopyOK, CgiTimeout, Kept, scriptvars
<1>2. TypeOK'
  BY <1>1 DEF IInv, TypeOK, InPipe, OutPipe
<1>3. FeedOK' /\ HeadOK' /\ CopyOK'
  BY <1>1 DEF IInv, FeedOK, BodyIsWhole, HeadOK, CopyOK, Copying, Over
<1>4. PageCopied' /\ OneAnswer'
  BY <1>1 DEF IInv, PageCopied, OneAnswer
<1> QED  BY <1>2, <1>3, <1>4 DEF IInv

\* The answers to a script that fails or is late.
LEMMA AnswersOK ==
  ASSUME IInv, AnswerBad \/ AnswerLate, Kept
  PROVE  IInv'
<1>1. /\ pc \in {"bad", "late"} /\ sent = 0 /\ ans = <<>> /\ ~ended
      /\ reading' \in {reading, FALSE} /\ feeding' \in {feeding, FALSE}
      /\ UNCHANGED <<job, script, got, eof, written, alive, held, deaf,
                     fed, taken, sent, ended, signalled, reaped>>
  BY DEF IInv, HeadOK, CopyOK, AnswerBad, AnswerLate, Die, Return, Kept, scriptvars
<1>2. \/ ans' = <<504>> /\ pc' = "returned" /\ feeding' = FALSE
      \/ ans' = <<502>> /\ pc' = "died" /\ feeding' = feeding
  BY <1>1, Statuses DEF AnswerBad, AnswerLate, Die, Return
<1>3. ans' \in Seq({200, 304, 502, 504}) /\ Len(ans') <= 1 /\ ans' # <<>>
  <2>1. CASE ans' = <<504>>  BY <2>1, Statuses
  <2>2. CASE ans' = <<502>>  BY <2>2, Statuses
  <2> QED  BY <1>2, <2>1, <2>2
<1>4. pc' = "returned" => signalled /\ ans' # <<200>>
  BY <1>1, <1>2, Statuses DEF AnswerBad, AnswerLate, Die, Return, IInv, HeadOK
<1>5. TypeOK'
  <2>1. {feeding, reading, ended, signalled, reaped, deaf, eof, alive, held}' \subseteq BOOLEAN
    <3>1. {feeding, reading, ended, signalled, reaped, deaf, eof, alive, held} \subseteq BOOLEAN
      BY DEF IInv, TypeOK
    <3>2. feeding' \in BOOLEAN /\ reading' \in BOOLEAN  BY <1>1, <3>1
    <3> QED  BY <1>1, <3>1, <3>2
  <2> QED  BY <1>1, <1>2, <1>3, <2>1, SMTT(20) DEF IInv, TypeOK, InPipe, OutPipe
<1>6. FeedOK' /\ HeadOK' /\ CopyOK'
  BY <1>1, <1>2, <1>4 DEF IInv, FeedOK, BodyIsWhole, HeadOK, CopyOK, Copying, Over
<1>7. PageCopied'
  <2>1. taken \in Nat /\ HeadLen \in Nat  BY Constant DEF IInv, TypeOK
  <2> QED  BY <1>1, <1>4, <1>2, <2>1 DEF PageCopied
<1>8. OneAnswer'
  BY <1>1, <1>2, <1>3, <1>4 DEF OneAnswer
<1> QED  BY <1>5, <1>6, <1>7, <1>8 DEF IInv

\* The way the copy begins, by the kind of answer.
LEMMA ProcessHeadersOK ==
  ASSUME IInv, ProcessHeaders, Kept
  PROVE  IInv'
<1>1. /\ pc = "headers" /\ sent = 0 /\ ans = <<>> /\ ~signalled /\ taken >= HeadLen /\ ~ended /\ ~feeding
      /\ UNCHANGED <<job, script, got, eof, written, alive, held, deaf,
                     fed, feeding, taken, ended, signalled, reaped>>
  BY DEF IInv, FeedOK, HeadOK, CopyOK, Over, ProcessHeaders, Kept, scriptvars
<1>2. taken \in Nat /\ written \in Nat /\ HeadLen \in Nat /\ script.length \in Nat /\ reading \in BOOLEAN
      /\ Buffered = taken - HeadLen /\ Buffered \in Nat
  BY <1>1, Constant DEF IInv, TypeOK, Buffered
<1>3. \/ ans' \in {<<200>>, <<304>>} /\ script.kind = "page"
      \/ ans' = <<502>> /\ pc' = "died" /\ sent' = 0
      \/ ans' = <<>> /\ pc' = "returned" /\ sent' = 0 /\ script.kind = "redirect"
  BY <1>1, Statuses DEF ProcessHeaders, Die, Return
<1>4. ans' \in Seq({200, 304, 502, 504}) /\ Len(ans') <= 1 /\ (ans' = <<>> => script.kind = "redirect")
      /\ (pc' = "returned" /\ script.kind = "redirect" => ans' = <<>>)
  <2>1. CASE script.kind = "page"
    <3>1. ans' = <<200>> \/ ans' = <<304>>  BY <1>1, <2>1, Statuses DEF ProcessHeaders
    <3>2. CASE ans' = <<200>>  BY <2>1, <3>2, Statuses
    <3>3. CASE ans' = <<304>>  BY <2>1, <3>3, Statuses
    <3> QED  BY <3>1, <3>2, <3>3
  <2>2. CASE script.kind = "invalid"
    <3>1. ans' = <<502>>  BY <1>1, <2>2, Statuses DEF ProcessHeaders
    <3> QED  BY <2>2, <3>1, Statuses
  <2>3. CASE script.kind = "redirect"
    <3>1. ans' = <<>>  BY <1>1, <2>3 DEF ProcessHeaders
    <3> QED  BY <2>3, <3>1, Statuses
  <2> QED  BY <2>1, <2>2, <2>3 DEF ProcessHeaders
<1>5. /\ sent' \in Nat /\ sent' <= taken - HeadLen /\ reading' \in BOOLEAN
      /\ \/ pc' \in {"returned", "died"} /\ (script.kind = "page" => job.head)
         \/ pc' = "returned" /\ ~job.head /\ script.sized /\ sent' = script.length
         \/ pc' = "fixed" /\ ~job.head /\ script.sized /\ sent' = taken - HeadLen /\ sent' < script.length
         \/ pc' = "chunked" /\ ~job.head /\ ~script.sized
         \/ pc' = "infinite" /\ ~job.head /\ ~script.sized /\ sent' = taken - HeadLen
  <2>1. CASE script.kind = "page" /\ HeadOnly
    <3>1. pc' = "returned" /\ job.head /\ sent' = 0 /\ reading' = FALSE
      BY <1>1, <2>1 DEF HeadOnly, Return
    <3>2. sent' \in Nat /\ sent' <= taken - HeadLen  BY <3>1, <1>1, <1>2
    <3>3. reading' \in BOOLEAN  BY <3>1
    <3>4. pc' \in {"returned", "died"} /\ (script.kind = "page" => job.head)  BY <3>1
    <3> QED  BY <3>2, <3>3, <3>4
  <2>2. CASE script.kind = "page" /\ Sized
    <3> DEFINE n == Least(Buffered, script.length)
    <3>1. n \in Nat /\ n <= Buffered /\ n <= script.length /\ (n = Buffered \/ n = script.length)
      <4> HIDE DEF n
      <4> QED  BY <1>2, LeastIs DEF n
    <3>2. sent' = n /\ ~job.head /\ script.sized
      BY <2>2 DEF Sized
    <3> HIDE DEF n
    <3>3. CASE sent' < script.length
      <4>1. pc' = "fixed" /\ reading' = reading  BY <2>2, <3>3 DEF Sized, GoOn
      <4> QED  BY <4>1, <3>1, <3>2, <3>3, <1>2
    <3>4. CASE ~(sent' < script.length)
      <4>1. pc' = "returned" /\ reading' = FALSE  BY <2>2, <3>4 DEF Sized, Return
      <4>2. sent' \in Nat /\ sent' <= taken - HeadLen /\ sent' = script.length
        BY <3>1, <3>2, <3>4, <1>2
      <4>3. reading' \in BOOLEAN  BY <4>1
      <4> QED  BY <4>1, <4>2, <4>3, <3>2
    <3> QED  BY <3>3, <3>4
  <2>3. CASE script.kind = "page" /\ Chunks
    <3>1. pc' = "chunked" /\ ~job.head /\ ~script.sized /\ sent' = 0 /\ reading' = reading
      BY <1>1, <2>3 DEF Chunks, InChunks, GoOn
    <3> QED  BY <3>1, <1>1, <1>2
  <2>4. CASE script.kind = "page" /\ Unsized
    <3>1. pc' = "infinite" /\ ~job.head /\ ~script.sized /\ sent' = Buffered /\ reading' = reading
      BY <2>4 DEF Unsized, GoOn
    <3> QED  BY <3>1, <1>2
  <2>5. CASE script.kind # "page"
    <3>1. pc' \in {"returned", "died"} /\ sent' = 0 /\ reading' \in {reading, FALSE}
      BY <1>1, <2>5 DEF ProcessHeaders, Die, Return
    <3>2. sent' \in Nat /\ sent' <= taken - HeadLen  BY <3>1, <1>1, <1>2
    <3>3. reading' \in BOOLEAN  BY <3>1, <1>2
    <3> QED  BY <3>1, <3>2, <3>3, <2>5
  <2> QED  BY <2>1, <2>2, <2>3, <2>4, <2>5 DEF ProcessHeaders
<1>6. TypeOK'
  BY <1>1, <1>4, <1>5 DEF IInv, TypeOK, InPipe, OutPipe
<1>7. FeedOK' /\ HeadOK'
  BY <1>1, <1>5 DEF IInv, FeedOK, BodyIsWhole, HeadOK, Copying, Over
<1>8. CopyOK'
  BY <1>1, <1>3, <1>5 DEF CopyOK, Copying
<1>9. PageCopied'
  <2>1. pc' = "returned" /\ ans' = <<200>> => script.kind = "page"
    <3>1. <<200>> # <<>>  OBVIOUS
    <3> QED  BY <1>3, <3>1
  <2>2. pc' = "returned" /\ ans' = <<200>> /\ ~job.head => script.sized /\ sent' = script.length
    BY <1>5, <2>1
  <2>3. taken' = taken /\ job' = job /\ script' = script  BY <1>1
  <2> QED  BY <1>5, <2>2, <2>3, SMTT(30) DEF PageCopied
<1>10. OneAnswer'
  BY <1>1, <1>3, <1>4 DEF OneAnswer
<1> QED  BY <1>6, <1>7, <1>8, <1>9, <1>10 DEF IInv

-----------------------------------------------------------------------------
(* The copy of the page.                                                    *)

\* What the three ways leave alone, and where they start from.
Copies ==
  /\ Kept
  /\ UNCHANGED <<fed, feeding, ans, signalled, reaped>>

LEMMA Copied ==
  ASSUME IInv, pc \in Copying, Copies,
         pc' \in {pc, "returned", "died"}, reading' \in BOOLEAN, ended' \in BOOLEAN,
         taken' \in taken..written, sent' \in Nat, sent' <= taken' - HeadLen,
         pc' = "fixed" => sent' = taken' - HeadLen /\ sent' < script.length,
         pc' = "infinite" => sent' = taken' - HeadLen,
         pc' = "returned" => IF script.sized THEN sent' = script.length
                             ELSE sent' = written - HeadLen /\ ~held,
         ended' => pc' = "returned" /\ sent' = written - HeadLen /\ ~held
  PROVE  IInv'
<1>1. UNCHANGED <<job, script, got, eof, written, alive, held, deaf, fed, feeding, ans, signalled, reaped>>
  BY DEF Copies, Kept, scriptvars
<1>2. taken \in Nat /\ taken >= HeadLen /\ HeadLen \in Nat /\ written \in Nat /\ PipeSize \in Nat
      /\ taken' \in Nat /\ taken' >= HeadLen /\ taken' <= written /\ written - taken' <= PipeSize
  BY Constant, SMTT(30) DEF IInv, HeadOK, TypeOK, OutPipe
<1>3. ~signalled /\ ~feeding /\ ~job.head /\ script.kind = "page" /\ ans \in {<<200>>, <<304>>}
  BY DEF IInv, HeadOK, FeedOK, CopyOK, Copying, Over
<1>4. TypeOK'
  <2>1. {feeding, reading, ended, signalled, reaped, deaf, eof, alive, held}' \subseteq BOOLEAN
    BY <1>1 DEF IInv, TypeOK
  <2>2. pc' \in {"fixed", "chunked", "infinite", "returned", "died"}
    BY DEF Copying
  <2>3. job' \in Jobs /\ script' \in Scripts /\ fed' \in 0..job'.len /\ got' \in 0..fed' /\ InPipe' <= PipeSize
    BY <1>1 DEF IInv, TypeOK, InPipe
  <2>4. written' \in 0..script'.out /\ ans' \in Seq({200, 304, 502, 504})
    BY <1>1 DEF IInv, TypeOK
  <2>5. taken' \in 0..written' /\ OutPipe' <= PipeSize
    <3>1. written' = written  BY <1>1
    <3>2. OutPipe' = written - taken'  BY <3>1 DEF OutPipe
    <3>3. written - taken' <= PipeSize  BY <1>2
    <3>4. taken' \in 0..written  BY <1>2
    <3> QED  BY <3>1, <3>2, <3>3, <3>4
  <2> QED  BY <2>1, <2>2, <2>3, <2>4, <2>5 DEF TypeOK
<1>5. FeedOK'
  BY <1>1, <1>3 DEF IInv, FeedOK, BodyIsWhole, Copying
<1>6. HeadOK'
  BY <1>1, <1>2, <1>3 DEF IInv, HeadOK, Copying
<1>7. CopyOK'
  BY <1>1, <1>3 DEF IInv, CopyOK, Copying
<1>8. PageCopied'
  BY <1>1, <1>2 DEF PageCopied
<1>9. OneAnswer'
  <2>1. ans # <<>> /\ Len(ans) <= 1
    <3>1. CASE ans = <<200>>  BY <3>1, Statuses
    <3>2. CASE ans = <<304>>  BY <3>2, Statuses
    <3> QED  BY <1>3, <3>1, <3>2
  <2> QED  BY <1>1, <1>3, <2>1 DEF OneAnswer
<1> QED  BY <1>4, <1>5, <1>6, <1>7, <1>8, <1>9 DEF IInv

LEMMA Numbers ==
  ASSUME IInv, pc \in Copying
  PROVE  /\ taken \in Nat /\ written \in Nat /\ sent \in Nat /\ HeadLen \in Nat /\ BufSize \in Nat
         /\ script.length \in Nat /\ taken >= HeadLen /\ taken <= written
         /\ sent <= taken - HeadLen
         /\ OutPipe = written - taken /\ OutPipe \in Nat
         /\ reading \in BOOLEAN /\ ended = FALSE
  BY Constant DEF IInv, TypeOK, OutPipe, HeadOK, CopyOK, Copying

LEMMA StreamFixedOK ==
  ASSUME IInv, StreamFixed, Kept
  PROVE  IInv'
<1>1. /\ pc = "fixed" /\ pc \in Copying /\ script.sized /\ sent = taken - HeadLen /\ sent < script.length
      /\ ended' = ended /\ Copies
  BY DEF IInv, CopyOK, Copying, Copies, StreamFixed
<1>2. CASE \E n \in 1..Least(OutPipe, script.length - sent) : Move(n)
  <2>1. PICK n \in 1..Least(OutPipe, script.length - sent) : Move(n)
    BY <1>2
  <2>2. n \in Nat /\ n <= OutPipe /\ n <= script.length - sent
    <3> DEFINE left == script.length - sent
    <3>1. OutPipe \in Nat /\ left \in Nat  BY <1>1, Numbers
    <3> HIDE DEF left
    <3>2. Least(OutPipe, left) \in Nat /\ Least(OutPipe, left) <= OutPipe /\ Least(OutPipe, left) <= left
      BY <3>1, LeastIs
    <3>3. n \in 1..Least(OutPipe, left)  BY <2>1 DEF left
    <3>4. n \in Nat /\ n <= OutPipe /\ n <= left  BY <3>1, <3>2, <3>3
    <3> QED  BY <3>4 DEF left
  <2>3. taken' = taken + n /\ sent' = sent + n  BY <2>1 DEF Move
  <2>4. /\ taken' \in taken..written /\ sent' \in Nat /\ sent' = taken' - HeadLen
        /\ sent' <= taken' - HeadLen /\ sent' <= script.length
    BY <1>1, <2>2, <2>3, Numbers
  <2>5. \/ pc' = "returned" /\ reading' = FALSE /\ sent' = script.length
        \/ pc' = "fixed" /\ reading' = reading /\ sent' # script.length
        \/ pc' = "died" /\ reading' = reading
    BY <1>1 DEF StreamFixed, Return, GoOn, Die
  <2>6. pc' = "fixed" => sent' < script.length
    BY <2>4, <2>5, <1>1, Numbers
  <2> QED  BY <1>1, <2>4, <2>5, <2>6, Copied, Numbers
<1>3. CASE pc' = "died" /\ UNCHANGED <<reading, taken, sent>>
  <2>1. taken' \in taken..written /\ sent' \in Nat /\ sent' <= taken' - HeadLen  BY <1>1, <1>3, Numbers
  <2> QED  BY <1>1, <1>3, <2>1, Copied, Numbers
<1> QED  BY <1>2, <1>3 DEF StreamFixed, Die

LEMMA StreamAutochunkOK ==
  ASSUME IInv, StreamAutochunk, Kept
  PROVE  IInv'
<1>1. /\ pc = "chunked" /\ pc \in Copying /\ ~script.sized /\ Copies
      /\ Buffered = taken - HeadLen - sent
  BY DEF IInv, CopyOK, Copying, Copies, StreamAutochunk, Buffered
<1>2. CASE Buffered > 0 /\ sent' = sent + Buffered /\ GoOn("chunked") /\ UNCHANGED <<taken, ended>>
  <2>1. taken' \in taken..written /\ sent' \in Nat /\ sent' <= taken' - HeadLen  BY <1>1, <1>2, Numbers
  <2>2. pc' = "chunked" /\ reading' = reading /\ ended' = FALSE  BY <1>1, <1>2, Numbers DEF GoOn
  <2> QED  BY <1>1, <2>1, <2>2, Copied, Numbers
<1>3. CASE Buffered = 0 /\ Move(Least(OutPipe, BufSize)) /\ GoOn("chunked") /\ UNCHANGED ended
  <2> DEFINE n == Least(OutPipe, BufSize)
  <2>1. n \in Nat /\ n <= OutPipe
    <3> HIDE DEF n
    <3> QED  BY <1>1, Numbers, LeastIs DEF n
  <2>2. taken' = taken + n /\ sent' = sent + n  BY <1>3 DEF Move
  <2> HIDE DEF n
  <2>3. taken' \in taken..written /\ sent' \in Nat /\ sent' <= taken' - HeadLen
    BY <1>1, <1>3, <2>1, <2>2, Numbers
  <2>4. pc' = "chunked" /\ reading' = reading /\ ended' = FALSE  BY <1>1, <1>3, Numbers DEF GoOn
  <2> QED  BY <1>1, <2>3, <2>4, Copied, Numbers
<1>4. CASE Buffered = 0 /\ LastChunk /\ ended' = TRUE /\ Return /\ UNCHANGED <<taken, sent>>
  <2>1. /\ taken' \in taken..written /\ sent' \in Nat /\ sent' <= taken' - HeadLen
        /\ sent' = written - HeadLen /\ ~held
    BY <1>1, <1>4, Numbers DEF LastChunk, Eof
  <2>2. pc' = "returned" /\ reading' = FALSE  BY <1>4 DEF Return
  <2> QED  BY <1>1, <1>4, <2>1, <2>2, Copied
<1>5. CASE Die /\ UNCHANGED <<taken, sent, ended>>
  <2>1. taken' \in taken..written /\ sent' \in Nat /\ sent' <= taken' - HeadLen  BY <1>1, <1>5, Numbers
  <2>2. pc' = "died" /\ reading' = reading /\ ended' = FALSE  BY <1>1, <1>5, Numbers DEF Die
  <2> QED  BY <1>1, <2>1, <2>2, Copied, Numbers
<1> QED  BY <1>2, <1>3, <1>4, <1>5 DEF StreamAutochunk

LEMMA StreamInfiniteOK ==
  ASSUME IInv, StreamInfinite, Kept
  PROVE  IInv'
<1>1. /\ pc = "infinite" /\ pc \in Copying /\ ~script.sized /\ sent = taken - HeadLen
      /\ ended' = ended /\ Copies
  BY DEF IInv, CopyOK, Copying, Copies, StreamInfinite
<1>2. CASE (\E n \in 1..OutPipe : Move(n)) /\ GoOn("infinite")
  <2>1. PICK n \in 1..OutPipe : Move(n)  BY <1>2
  <2>2. taken' = taken + n /\ sent' = sent + n  BY <2>1 DEF Move
  <2>3. /\ taken' \in taken..written /\ sent' \in Nat /\ sent' = taken' - HeadLen
        /\ sent' <= taken' - HeadLen
    BY <1>1, <2>1, <2>2, Numbers
  <2>4. pc' = "infinite" /\ reading' = reading  BY <1>2 DEF GoOn
  <2> QED  BY <1>1, <2>3, <2>4, Copied, Numbers
<1>3. CASE Eof /\ Return /\ UNCHANGED <<taken, sent>>
  <2>1. /\ taken' \in taken..written /\ sent' \in Nat /\ sent' <= taken' - HeadLen
        /\ sent' = written - HeadLen /\ ~held
    BY <1>1, <1>3, Numbers DEF Eof
  <2>2. pc' = "returned" /\ reading' = FALSE  BY <1>3 DEF Return
  <2> QED  BY <1>1, <2>1, <2>2, Copied, Numbers
<1> QED  BY <1>2, <1>3 DEF StreamInfinite

LEMMA ClientFailsOK ==
  ASSUME IInv, ClientFails \/ WriteTimeout, Kept
  PROVE  IInv'
<1>1. /\ pc' = "died"
      /\ UNCHANGED <<job, script, got, eof, written, alive, held, deaf,
                     fed, feeding, taken, reading, sent, ended, ans, signalled, reaped>>
  BY DEF ClientFails, WriteTimeout, Die, Kept, scriptvars
<1>2. pc \in {"bad", "late", "headers"} \cup Copying
  BY DEF ClientFails, WriteTimeout, Writes, Answers, WritesChunk, Splices, Copying
<1>3. ~ended  BY <1>2 DEF IInv, CopyOK, Copying
<1> QED  BY <1>1, <1>2, <1>3 DEF IInv, TypeOK, InPipe, OutPipe, FeedOK, BodyIsWhole, HeadOK, CopyOK,
                  Copying, Over, PageCopied, OneAnswer

LEMMA DeafensOK ==
  ASSUME IInv, Deafens
  PROVE  IInv'
<1>1. /\ deaf' = TRUE
      /\ UNCHANGED <<job, script, got, eof, written, alive, held,
                     pc, fed, feeding, taken, reading, sent, ended, ans, signalled, reaped>>
  BY DEF Deafens, scriptvars, servervars
<1>2. TypeOK'
  BY <1>1 DEF IInv, TypeOK, InPipe, OutPipe
<1> QED  BY <1>1, <1>2 DEF IInv, FeedOK, BodyIsWhole, HeadOK, CopyOK, Copying, Over, PageCopied, OneAnswer

LEMMA ReapOK ==
  ASSUME IInv, Reap, Kept
  PROVE  IInv'
<1>1. /\ reaped' = TRUE
      /\ UNCHANGED <<job, script, got, eof, written, alive, held, deaf,
                     pc, fed, feeding, taken, reading, sent, ended, ans, signalled>>
  BY DEF Reap, Kept, scriptvars
<1>2. TypeOK'
  BY <1>1 DEF IInv, TypeOK, InPipe, OutPipe
<1> QED  BY <1>1, <1>2 DEF IInv, FeedOK, BodyIsWhole, HeadOK, CopyOK, Copying, Over, PageCopied, OneAnswer

-----------------------------------------------------------------------------
(* The steps of the script.                                                 *)

LEMMA ScriptReadsOK ==
  ASSUME IInv, ScriptReads, UNCHANGED <<job, script, servervars, deaf>>
  PROVE  IInv'
<1>1. /\ alive
      /\ \/ InPipe > 0 /\ got' = got + 1 /\ eof' = eof
         \/ InPipe = 0 /\ ~StdinOpen /\ eof' = TRUE /\ got' = got
      /\ UNCHANGED <<job, script, written, alive, held, deaf,
                     pc, fed, feeding, taken, reading, sent, ended, ans, signalled, reaped>>
  BY DEF ScriptReads, servervars
<1>2. fed \in Nat /\ got \in Nat /\ got <= fed /\ fed <= job.len /\ job.len \in Nat /\ InPipe = fed - got
      /\ PipeSize \in Nat /\ InPipe <= PipeSize
  BY Constant DEF IInv, TypeOK, InPipe
<1>3. got' \in 0..fed /\ got' >= got /\ fed - got' <= PipeSize
  BY <1>1, <1>2
<1>4. TypeOK'
  BY <1>1, <1>3, ZenonT(30) DEF IInv, TypeOK, InPipe, OutPipe
<1>5. FeedOK'
  <2>1. BodyIsWhole'
    <3> SUFFICES ASSUME eof', ~signalled, pc # "died" PROVE got' = job.len
      BY <1>1 DEF BodyIsWhole
    <3>1. CASE eof
      BY <1>1, <1>2, <1>3, <3>1 DEF IInv, FeedOK, BodyIsWhole
    <3>2. CASE InPipe = 0 /\ ~StdinOpen /\ got' = got
      BY <1>1, <1>2, <3>2 DEF IInv, FeedOK, StdinOpen
    <3> QED  BY <1>1, <3>1, <3>2
  <2> QED  BY <1>1, <2>1 DEF IInv, FeedOK
<1> QED  BY <1>1, <1>4, <1>5 DEF IInv, HeadOK, CopyOK, Copying, Over, PageCopied, OneAnswer

LEMMA ScriptWritesOK ==
  ASSUME IInv, ScriptWrites, UNCHANGED <<job, script, servervars, deaf>>
  PROVE  IInv'
<1>1. /\ alive /\ written < script.out /\ OutPipe < PipeSize /\ written' = written + 1
      /\ UNCHANGED <<job, script, got, eof, alive, held, deaf,
                     pc, fed, feeding, taken, reading, sent, ended, ans, signalled, reaped>>
  BY DEF ScriptWrites, servervars
<1>2. held  BY <1>1 DEF IInv, HeadOK
<1>3. TypeOK'
  <2>1. /\ written \in Nat /\ taken \in Nat /\ taken <= written /\ script.out \in Nat /\ PipeSize \in Nat
        /\ OutPipe = written - taken
    BY Constant DEF IInv, TypeOK, OutPipe
  <2>2. /\ written' \in 0..script.out /\ taken \in 0..written' /\ written' - taken <= PipeSize
    BY <1>1, <2>1
  <2> QED  BY <1>1, <2>2 DEF IInv, TypeOK, InPipe, OutPipe
<1>4. CopyOK' /\ PageCopied'
  BY <1>1, <1>2 DEF IInv, CopyOK, Copying, PageCopied
<1> QED  BY <1>1, <1>3, <1>4 DEF IInv, FeedOK, BodyIsWhole, HeadOK, Copying, Over, OneAnswer

LEMMA ScriptEndsOK ==
  ASSUME IInv, ScriptEnds \/ ChildEnds, UNCHANGED <<job, script, servervars, deaf>>
  PROVE  IInv'
<1>0. held \in BOOLEAN /\ script.keeps \in BOOLEAN /\ alive \in BOOLEAN
  BY CgiAssumption DEF IInv, TypeOK, Script
<1>1. /\ alive' = FALSE /\ held' \in BOOLEAN /\ (held' => held)
      /\ UNCHANGED <<job, script, got, eof, written, deaf,
                     pc, fed, feeding, taken, reading, sent, ended, ans, signalled, reaped>>
  <2>1. CASE ScriptEnds
    <3>1. held  BY <2>1 DEF ScriptEnds, IInv, HeadOK
    <3> QED  BY <1>0, <2>1, <3>1 DEF ScriptEnds, servervars
  <2>2. CASE ChildEnds
    <3>1. alive = FALSE  BY <1>0, <2>2 DEF ChildEnds
    <3> QED  BY <1>0, <2>2, <3>1 DEF ChildEnds, servervars
  <2> QED  BY <2>1, <2>2
<1>2. TypeOK'
  BY <1>1 DEF IInv, TypeOK, InPipe, OutPipe
<1>3. CopyOK' /\ PageCopied'
  BY <1>1 DEF IInv, CopyOK, Copying, PageCopied
<1> QED  BY <1>1, <1>2, <1>3 DEF IInv, FeedOK, BodyIsWhole, HeadOK, Copying, Over, OneAnswer

-----------------------------------------------------------------------------
\* The script is spawned in a state of the inductive invariant.
THEOREM Start == Init => IInv
<1> SUFFICES ASSUME Init PROVE IInv  OBVIOUS
<1>1. job.len \in Nat /\ script.out \in Nat /\ PipeSize \in Nat /\ HeadLen \in Nat \ {0}
  BY CgiAssumption DEF Init, Job, Script
<1>2. ans \in Seq({200, 304, 502, 504}) /\ Len(ans) = 0
  <2>1. 200 \in {200, 304, 502, 504}  OBVIOUS
  <2> QED  BY <2>1, Statuses DEF Init
<1>0. feeding \in BOOLEAN /\ (feeding <=> job.len > 0)
  <2>1. feeding = (job.len > 0)  BY DEF Init
  <2> DEFINE some == job.len > 0
  <2>2. some \in BOOLEAN  OBVIOUS
  <2>3. feeding = some  BY <2>1
  <2> HIDE DEF some
  <2>4. feeding \in BOOLEAN /\ (feeding <=> some)  BY <2>2, <2>3
  <2> QED  BY <2>4 DEF some
<1>3. TypeOK
  <2>1. {feeding, reading, ended, signalled, reaped, deaf, eof, alive, held} \subseteq BOOLEAN
    BY <1>0 DEF Init
  <2> QED  BY <1>1, <1>2, <2>1 DEF Init, TypeOK, InPipe, OutPipe
<1>4. FeedOK
  <2>1. fed = 0 /\ eof = FALSE /\ pc = "iopause"  BY DEF Init
  <2> QED  BY <1>0, <1>1, <2>1 DEF FeedOK, BodyIsWhole
<1> QED  BY <1>1, <1>2, <1>3, <1>4 DEF Init, IInv, HeadOK, CopyOK, Copying, PageCopied, OneAnswer, Over

\* Every step of do_cgi() and of the script keeps the inductive invariant.
THEOREM Step == IInv /\ [Next]_vars => IInv'
<1> SUFFICES ASSUME IInv, [Next]_vars PROVE IInv'  OBVIOUS
<1>1. CASE Server /\ Kept
  BY <1>1, IopauseOK, FeedStepOK, CgiTimeoutOK, AnswersOK, ProcessHeadersOK, StreamFixedOK, StreamAutochunkOK,
     StreamInfiniteOK, ClientFailsOK, ReapOK DEF Server, DoCgi
<1>2. CASE (ScriptRuns \/ ChildEnds) /\ UNCHANGED <<job, script, servervars, deaf>>
  BY <1>2, ScriptReadsOK, ScriptWritesOK, ScriptEndsOK DEF ScriptRuns
<1>3. CASE UNCHANGED vars
  BY <1>3 DEF vars, servervars, scriptvars, IInv, TypeOK, InPipe, OutPipe, FeedOK, BodyIsWhole, HeadOK,
              CopyOK, Copying, Over, PageCopied, OneAnswer
<1>4. CASE Deafens  BY <1>4, DeafensOK
<1> QED  BY <1>1, <1>2, <1>3, <1>4 DEF Next, Kept, Stopped

\* The inductive invariant holds of every run of a script.
THEOREM Inductive == Spec => []IInv
  BY Start, Step, PTL DEF Spec

\* The variables of do_cgi() and of its script keep their types, and no pipe
\* holds more than it can.
THEOREM TypeCorrect == Spec => []TypeOK
<1>1. IInv => TypeOK  BY DEF IInv
<1> QED  BY <1>1, Inductive, PTL

\* For any sizes and any script, a script that has read the end of its stdin has
\* the whole body of the request, unless it was given up.
THEOREM WholeBody == Spec => []BodyIsWhole
<1>1. IInv => BodyIsWhole  BY DEF IInv, FeedOK
<1> QED  BY <1>1, Inductive, PTL

\* For any sizes and any script, do_cgi() returns from a page when the client
\* has all of it: the Content-Length, or what came before the end of the output.
\* The last chunk is only sent when nothing of the page is missing.
THEOREM WholePage == Spec => []PageIsWhole
<1>1. IInv => PageIsWhole  BY DEF IInv, CopyOK, LastChunkIsTrue, PageIsWhole
<1> QED  BY <1>1, Inductive, PTL

\* do_cgi() answers once, or not at all when it is to be served again.
THEOREM AnsweredOnce == Spec => []OneAnswer
<1>1. IInv => OneAnswer  BY DEF IInv
<1> QED  BY <1>1, Inductive, PTL
=============================================================================
