--------------------------- MODULE FastCgi_proofs ---------------------------
(***************************************************************************)
(* Proofs about FastCgi, for any requests and applications, any way to cut *)
(* the answer into records and any sizes: typing, nothing lost between the *)
(* application and the client, a last chunk that tells the truth, and the  *)
(* whole request that the application has when its answer is over.         *)
(***************************************************************************)
EXTENDS FastCgi, TLAPS

\* What is known of the answer in each state of the parser: in 1 the headers were
\* read and answered, in 2 perhaps.
StateOK ==
  /\ pc \in {"params", "stdin"} => state = 0 /\ taken = 0
  /\ ~Over /\ state = 0 => taken < HeadLen /\ sent = 0 /\ ans = <<>>
  /\ ~Over /\ state = 1 => taken >= HeadLen /\ ans = <<200>>
  /\ ~Over /\ state = 2 => ans = <<>> \/ (ans = <<200>> /\ taken >= HeadLen)

\* The inductive invariant.
IInv == TypeOK /\ StateOK /\ BodyGiven /\ LastChunkIsTrue

-----------------------------------------------------------------------------
LEMMA Constant ==
  ASSUME TypeOK
  PROVE  /\ job.vars \in Nat /\ job.len \in Nat /\ job.head \in BOOLEAN
         /\ app.records \in Seq(Record) /\ app.sized \in BOOLEAN /\ app.length \in Nat
         /\ HeadLen \in Nat \ {0} /\ EnvSize \in Nat \ {0} /\ RecordSize \in Nat \ {0}
  BY FastCgiAssumption DEF TypeOK, Job, App

LEMMA LeastIs ==
  ASSUME NEW a \in Nat, NEW b \in Nat
  PROVE  /\ Least(a, b) \in Nat /\ Least(a, b) <= a /\ Least(a, b) <= b
         /\ Least(a, b) = a \/ Least(a, b) = b
  BY DEF Least

LEMMA Appended ==
  ASSUME NEW S, NEW s \in Seq(S), NEW x \in S
  PROVE  /\ Append(s, x) \in Seq(S)
         /\ s = <<>> => Append(s, x) = <<x>>
<1>1. Append(s, x) \in Seq(S)  OBVIOUS
<1>2. Append(<<>>, x) = <<x>>  OBVIOUS
<1> QED  BY <1>1, <1>2

LEMMA Answers ==
  ASSUME ans \in Seq({200, 500, 502}), NEW status \in {200, 500, 502}
  PROVE  /\ Append(ans, status) \in Seq({200, 500, 502})
         /\ ans = <<>> => Append(ans, status) = <<status>>
<1> DEFINE S == {200, 500, 502}
<1>1. ans \in Seq(S) /\ status \in S  OBVIOUS
<1> HIDE DEF S
<1>2. Append(ans, status) \in Seq(S) /\ (ans = <<>> => Append(ans, status) = <<status>>)
  BY <1>1, Appended
<1> QED  BY <1>2 DEF S

Kept == UNCHANGED <<job, app, appvars>>

\* The record that is read next.
LEMMA NextRecord ==
  ASSUME TypeOK, seen < put
  PROVE  app.records[seen + 1] \in Record /\ seen + 1 \in Nat /\ seen + 1 \in 1..put
<1>1. seen + 1 \in 1..Len(app.records) /\ put <= Len(app.records)
  BY Constant DEF TypeOK
<1> QED  BY <1>1, Constant, SMTT(30) DEF TypeOK

\* The end of the process, whatever is answered.
LEMMA DieOK ==
  ASSUME IInv, Kept, pc' = "died", open' = open, UNCHANGED <<requestvars, state, sent, ended>>,
         ans' \in Seq({200, 500, 502}), taken' \in Nat, seen' \in seen..put
  PROVE  IInv'
<1>1. UNCHANGED <<job, app, put, got, closed, alive, left, fill, toapp, open, state, sent, ended>>
  BY DEF Kept, appvars, requestvars
<1>2. seen' \in 0..put' /\ seen \in 0..put
  BY <1>1, Constant DEF IInv, TypeOK
<1>3. TypeOK'
  BY <1>1, <1>2 DEF IInv, TypeOK
<1>4. LastChunkIsTrue'
  BY <1>1, <1>2 DEF IInv, LastChunkIsTrue
<1> QED  BY <1>3, <1>4 DEF IInv, StateOK, BodyGiven, Over

-----------------------------------------------------------------------------
(* The request. *)

\* What is sent changes nothing of the answer.
LEMMA SentOK ==
  ASSUME IInv, Kept, UNCHANGED <<open, answervars>>,
         pc \in {"params", "stdin"}, pc' \in {"params", "stdin", "read"},
         left' \in Nat, fill' \in 0..EnvSize,
         toapp' \in Seq([stream: {"params", "stdin"}, n: Nat])
  PROVE  IInv'
<1>1. UNCHANGED <<job, app, put, got, closed, alive, open, seen, state, taken, sent, ended, ans>>
  BY DEF Kept, appvars, answervars
<1>2. TypeOK'
  BY <1>1 DEF IInv, TypeOK
<1>3. LastChunkIsTrue'
  BY <1>1 DEF IInv, LastChunkIsTrue
<1>4. state = 0 /\ taken = 0 /\ taken < HeadLen /\ sent = 0 /\ ans = <<>>
  BY DEF IInv, StateOK, Over
<1>5. StateOK'
  BY <1>1, <1>4 DEF StateOK, Over
<1>6. BodyGiven'
  BY <1>1, <1>4 DEF BodyGiven
<1> QED  BY <1>2, <1>3, <1>5, <1>6 DEF IInv

LEMMA SendType ==
  ASSUME toapp \in Seq([stream: {"params", "stdin"}, n: Nat]),
         NEW stream \in {"params", "stdin"}, NEW n \in Nat, Send(stream, n)
  PROVE  toapp' \in Seq([stream: {"params", "stdin"}, n: Nat])
<1> DEFINE R == [stream: {"params", "stdin"}, n: Nat]
           record == [stream |-> stream, n |-> n]
<1>1. record \in R  OBVIOUS
<1>2. toapp \in Seq(R) /\ toapp' = Append(toapp, record)  BY DEF Send
<1> HIDE DEF R, record
<1>3. toapp' \in Seq(R)  BY <1>1, <1>2, Appended
<1> QED  BY <1>3 DEF R

LEMMA SendRequestOK ==
  ASSUME IInv, Kept, AddEnv \/ EndEnv \/ Stdin
  PROVE  IInv'
<1>1. left \in Nat /\ fill \in 0..EnvSize /\ EnvSize \in Nat \ {0} /\ RecordSize \in Nat
      /\ job.len \in Nat
      /\ toapp \in Seq([stream: {"params", "stdin"}, n: Nat])
  BY Constant DEF IInv, TypeOK
<1>2. CASE AddEnv
  <2>1. /\ pc = "params" /\ pc' = pc /\ UNCHANGED <<open, answervars>>
        /\ left > 0 /\ left' = left - 1
        /\ \/ fill < EnvSize /\ fill' = fill + 1 /\ toapp' = toapp
           \/ fill' = 1 /\ Send("params", fill)
    BY <1>2 DEF AddEnv, Sending
  <2>2. left' \in Nat /\ fill' \in 0..EnvSize /\ fill \in Nat
    BY <1>1, <2>1
  <2>3. toapp' \in Seq([stream: {"params", "stdin"}, n: Nat])
    BY <1>1, <2>1, <2>2, SendType
  <2> QED  BY <2>1, <2>2, <2>3, SentOK
<1>3. CASE EndEnv
  <2>1. /\ pc = "params" /\ pc' \in {"params", "stdin"} /\ UNCHANGED <<open, answervars>>
        /\ fill' = 0 /\ Send("params", fill) /\ left' \in {left, job.len}
    BY <1>3 DEF EndEnv, Sending
  <2>2. left' \in Nat /\ fill' \in 0..EnvSize /\ fill \in Nat
    BY <1>1, <2>1
  <2>3. toapp' \in Seq([stream: {"params", "stdin"}, n: Nat])
    BY <1>1, <2>1, <2>2, SendType
  <2> QED  BY <2>1, <2>2, <2>3, SentOK
<1>4. CASE Stdin
  <2> DEFINE n == Least(left, RecordSize)
  <2>1. n \in Nat /\ n <= left
    BY <1>1, LeastIs
  <2>2. /\ pc = "stdin" /\ pc' \in {"stdin", "read"} /\ UNCHANGED <<open, answervars>>
        /\ fill' = fill /\ Send("stdin", n) /\ left' = left - n
    BY <1>4 DEF Stdin, Sending
  <2> HIDE DEF n
  <2>3. left' \in Nat
    BY <1>1, <2>1, <2>2
  <2>4. toapp' \in Seq([stream: {"params", "stdin"}, n: Nat])
    BY <1>1, <2>1, <2>2, SendType
  <2> QED  BY <1>1, <2>2, <2>3, <2>4, SentOK
<1> QED  BY <1>2, <1>3, <1>4

LEMMA FailsOK ==
  ASSUME IInv, Kept, SendFails \/ ReadFails \/ ClientFails
  PROVE  IInv'
<1>1. /\ ans \in Seq({200, 500, 502}) /\ taken \in Nat /\ seen \in seen..put
  BY DEF IInv, TypeOK
<1>2. \/ ans' = Append(ans, 500) \/ ans' = Append(ans, 502) \/ ans' = ans
  BY DEF SendFails, ReadFails, ClientFails, DieWith, answervars
<1>3. ans' \in Seq({200, 500, 502})
  <2>1. 500 \in {200, 500, 502} /\ 502 \in {200, 500, 502}  OBVIOUS
  <2> QED  BY <1>1, <1>2, <2>1, Answers
<1>4. /\ pc' = "died" /\ open' = open /\ UNCHANGED <<requestvars, seen, state, taken, sent, ended>>
  BY DEF SendFails, ReadFails, ClientFails, DieWith, Die, answervars
<1> QED  BY <1>1, <1>3, <1>4, DieOK

-----------------------------------------------------------------------------
(* The answer. *)

\* What of the body the client has, in the records read so far.
Given(total) ==
  LET body == IF total > HeadLen THEN total - HeadLen ELSE 0
  IN  IF Chunked THEN body ELSE Least(body, app.length)

\* One more record of the body keeps the count.
LEMMA WriteBodyOK ==
  ASSUME TypeOK, NEW before \in Nat, NEW n \in Nat, before >= HeadLen,
         sent = Given(before), WriteBody(n)
  PROVE  sent' = Given(before + n) /\ sent' \in Nat
<1>1. HeadLen \in Nat /\ app.length \in Nat /\ sent \in Nat
  BY Constant DEF TypeOK
<1> DEFINE body == before - HeadLen
<1>2. body \in Nat /\ before + n - HeadLen = body + n
  BY <1>1
<1>3. Given(before) = IF Chunked THEN body ELSE Least(body, app.length)
  BY <1>1 DEF Given
<1>4. Given(before + n) = IF Chunked THEN body + n ELSE Least(body + n, app.length)
  BY <1>1 DEF Given
<1> HIDE DEF body
<1>5. CASE Chunked
  BY <1>1, <1>2, <1>3, <1>4, <1>5 DEF WriteBody
<1>6. CASE ~Chunked
  BY <1>1, <1>2, <1>3, <1>4, <1>6 DEF WriteBody, Least
<1> QED  BY <1>5, <1>6

\* The chunk that ends the body is written for an empty record only.
LEMMA EndedOK ==
  ASSUME IInv, Kept, seen < put, seen' = seen + 1,
         ended' \in BOOLEAN,
         ended' => ended \/ app.records[seen + 1].type = "other"
                     \/ (app.records[seen + 1].type = "out" /\ app.records[seen + 1].n = 0)
  PROVE  LastChunkIsTrue'
<1>1. app' = app /\ seen \in Nat
  BY DEF Kept, IInv, TypeOK
<1>2. 1..seen \subseteq 1..(seen + 1) /\ seen + 1 \in 1..(seen + 1)
  BY <1>1
<1>3. seen + 1 \in DOMAIN app.records
  BY NextRecord, Constant DEF IInv, TypeOK
<1>4. SUFFICES ASSUME \A i \in DOMAIN app.records : app.records[i].type # "other", ended'
               PROVE  \E i \in 1..(seen + 1) : app.records[i].type = "out" /\ app.records[i].n = 0
  BY <1>1 DEF LastChunkIsTrue
<1>5. CASE ended
  BY <1>2, <1>4, <1>5 DEF IInv, LastChunkIsTrue
<1>6. CASE app.records[seen + 1].type = "out" /\ app.records[seen + 1].n = 0
  BY <1>2, <1>6
<1> QED  BY <1>3, <1>4, <1>5, <1>6

\* n is what a record counts for: its units, or none for an empty one.
Counts(n) ==
  \/ app.records[seen + 1].type = "out" /\ app.records[seen + 1].n = n
  \/ app.records[seen + 1].type = "other" /\ n = 0

LEMMA StdoutOK ==
  ASSUME IInv, Kept, pc = "read", seen < put, seen' = seen + 1, UNCHANGED requestvars,
         NEW n \in Nat, Counts(n), Stdout(n)
  PROVE  IInv'
<1>1. /\ ans \in Seq({200, 500, 502}) /\ taken \in Nat /\ sent \in Nat /\ state \in {0, 1, 2}
      /\ open \in BOOLEAN /\ ended \in BOOLEAN /\ HeadLen \in Nat \ {0}
  BY Constant DEF IInv, TypeOK
<1>2. /\ UNCHANGED <<job, app, put, got, closed, alive, left, fill, toapp>>
      /\ taken' = taken + n /\ taken' \in Nat
  BY <1>1 DEF Kept, appvars, requestvars, Stdout
<1>3. seen' \in seen..put /\ seen' \in 0..put'
  BY <1>2, Constant DEF IInv, TypeOK
<1>4. /\ Append(ans, 200) \in Seq({200, 500, 502}) /\ (ans = <<>> => Append(ans, 200) = <<200>>)
      /\ Append(ans, 502) \in Seq({200, 500, 502})
  <2>1. 200 \in {200, 500, 502} /\ 502 \in {200, 500, 502}  OBVIOUS
  <2> QED  BY <1>1, <2>1, Answers
<1>5. /\ state = 0 => taken < HeadLen /\ sent = 0 /\ ans = <<>>
      /\ state = 1 => taken >= HeadLen /\ ans = <<200>> /\ sent = Given(taken)
  BY DEF IInv, StateOK, BodyGiven, Given, Over
<1>6. ASSUME pc' \in {"read", "returned"}, ended' \in BOOLEAN, ended' => ended \/ n = 0,
             open' \in BOOLEAN, state' \in {0, 1, 2}, sent' \in Nat,
             ans' \in Seq({200, 500, 502}), StateOK', BodyGiven'
      PROVE  IInv'
  <2>1. LastChunkIsTrue'
    BY <1>6, EndedOK DEF Counts
  <2>2. TypeOK'
    BY <1>2, <1>3, <1>6 DEF IInv, TypeOK
  <2> QED  BY <1>6, <2>1, <2>2 DEF IInv
<1>7. CASE pc' = "died" /\ UNCHANGED <<open, state, sent, ended>>
        /\ (ans' = Append(ans, 502) \/ ans' = ans)
  <2>1. ans' \in Seq({200, 500, 502})
    BY <1>1, <1>4, <1>7
  <2> QED  BY <1>2, <1>3, <1>7, <2>1, DieOK
<1>8. CASE state = 0 /\ (MoreHeaders(n) \/ EmptyGarbage(n))
  <2>1. /\ pc' = "read" /\ UNCHANGED <<open, sent, ended, ans>> /\ state' \in {0, 2}
        /\ state' = 0 => taken + n < HeadLen
    BY <1>8 DEF MoreHeaders, EmptyGarbage, GoOn
  <2>2. StateOK'
    BY <1>1, <1>2, <1>5, <1>8, <2>1 DEF StateOK, Over
  <2>3. BodyGiven'
    BY <1>5, <1>8, <2>1 DEF BodyGiven
  <2> QED  BY <1>1, <1>6, <2>1, <2>2, <2>3
<1>9. CASE state = 0 /\ (RedirectHeaders(n) \/ HeadPage(n))
  <2>1. /\ pc' = "returned" /\ open' \in BOOLEAN /\ UNCHANGED <<state, sent, ended>>
        /\ ans' \in {ans, Append(ans, 200)}
    BY <1>1, <1>9 DEF RedirectHeaders, HeadPage, Return
  <2>2. StateOK' /\ BodyGiven'
    BY <2>1 DEF StateOK, BodyGiven, Over
  <2> QED  BY <1>1, <1>4, <1>6, <2>1, <2>2
<1>10. CASE state = 0 /\ Page(n)
  <2>1. /\ pc' = "read" /\ open' = open /\ state' = 1 /\ ans' = <<200>>
        /\ taken + n >= HeadLen
    BY <1>4, <1>5, <1>10 DEF Page, GoOn
  <2>2. sent' = Given(taken + n) /\ sent' \in Nat /\ ended' \in BOOLEAN /\ (ended' => ended)
    <3>1. Given(HeadLen) = 0
      BY <1>1, Constant DEF Given, Least, IInv
    <3>2. CASE taken + n > HeadLen
      <4> DEFINE m == taken + n - HeadLen
      <4>1. m \in Nat /\ m # 0 /\ HeadLen + m = taken + n  BY <1>1, <3>2
      <4>2. WriteBody(m)  BY <1>10, <3>2 DEF Page
      <4> HIDE DEF m
      <4>3. sent' = Given(HeadLen + m) /\ sent' \in Nat
        BY <1>1, <1>5, <1>10, <3>1, <4>1, <4>2, WriteBodyOK DEF IInv
      <4>4. ended' = ended  BY <1>1, <4>1, <4>2 DEF WriteBody
      <4> QED  BY <1>1, <4>1, <4>3, <4>4
    <3>3. CASE taken + n = HeadLen
      BY <1>1, <1>5, <1>10, <3>1, <3>3 DEF Page
    <3> QED  BY <1>1, <2>1, <3>2, <3>3
  <2>3. StateOK'
    BY <1>2, <2>1 DEF StateOK, Over
  <2>4. BodyGiven'
    BY <1>2, <2>1, <2>2 DEF BodyGiven, Given, Chunked
  <2> QED  BY <1>1, <1>4, <1>5, <1>6, <1>10, <2>1, <2>2, <2>3, <2>4 DEF Page
<1>11. CASE state = 1 /\ Body(n)
  <2>1. /\ pc' = "read" /\ open' = open /\ state' \in {1, 2} /\ ans' = ans /\ WriteBody(n)
    BY <1>11 DEF Body, GoOn
  <2>2. sent' = Given(taken + n) /\ sent' \in Nat
    BY <1>1, <1>5, <1>11, <2>1, WriteBodyOK DEF IInv
  <2>3. ended' \in BOOLEAN /\ (ended' => ended \/ n = 0)
    BY <1>1, <2>1 DEF WriteBody
  <2>4. StateOK'
    BY <1>1, <1>2, <1>5, <1>11, <2>1 DEF StateOK, Over
  <2>5. BodyGiven'
    <3>1. ans' = <<200>> /\ ans' # <<>> /\ state' # 0
      BY <1>5, <1>11, <2>1
    <3>2. taken' = taken + n /\ app' = app
      BY <1>2
    <3> QED  BY <2>2, <3>1, <3>2 DEF BodyGiven, Given, Chunked
  <2> QED  BY <1>1, <1>6, <2>1, <2>2, <2>3, <2>4, <2>5
<1> QED  BY <1>7, <1>8, <1>9, <1>10, <1>11 DEF Stdout, BadHeaders, DieWith, Die

LEMMA ReadRecordOK ==
  ASSUME IInv, Kept, ReadRecord
  PROVE  IInv'
<1> DEFINE record == app.records[seen + 1]
<1>1. /\ pc = "read" /\ seen < put /\ seen' = seen + 1 /\ UNCHANGED requestvars
  BY DEF ReadRecord
<1>2. record \in Record /\ record.n \in Nat
  BY <1>1, NextRecord DEF IInv, Record
<1>3. CASE record.type = "out" /\ Stdout(record.n)
  <2>1. Counts(record.n)  BY <1>3 DEF Counts
  <2> QED  BY <1>1, <1>2, <1>3, <2>1, StdoutOK
<1>4. CASE record.type = "other" /\ Stdout(0)
  <2>1. Counts(0) /\ 0 \in Nat  BY <1>4 DEF Counts
  <2> QED  BY <1>1, <1>4, <2>1, StdoutOK
<1>5. CASE GoOn /\ UNCHANGED <<state, taken, sent, ended, ans>>
  <2>1. UNCHANGED <<job, app, put, got, closed, alive, left, fill, toapp, pc, open,
                    state, taken, sent, ended, ans>>
    BY <1>1, <1>5 DEF Kept, appvars, requestvars, GoOn
  <2>2. LastChunkIsTrue'
    BY <1>1, <2>1, EndedOK DEF IInv, TypeOK
  <2>3. seen' \in 0..put'
    BY <1>1, <2>1, Constant DEF IInv, TypeOK
  <2>4. TypeOK'
    BY <2>1, <2>3 DEF IInv, TypeOK
  <2> QED  BY <2>1, <2>2, <2>4 DEF IInv, StateOK, BodyGiven, Over, Chunked
<1>6. CASE (EndRequest \/ DieWith(502)) /\ UNCHANGED <<state, taken, sent, ended>>
  <2>1. ans \in Seq({200, 500, 502}) /\ taken \in Nat
    BY DEF IInv, TypeOK
  <2>2. pc' = "died" /\ open' = open /\ (ans' = ans \/ ans' = Append(ans, 502))
    BY <1>6 DEF EndRequest, DieWith, Die
  <2>3. ans' \in Seq({200, 500, 502})
    <3>1. 502 \in {200, 500, 502}  OBVIOUS
    <3> QED  BY <2>1, <2>2, <3>1, Answers
  <2>4. seen' \in seen..put
    BY <1>1, Constant DEF IInv, TypeOK
  <2> QED  BY <1>1, <1>6, <2>1, <2>2, <2>3, <2>4, DieOK
<1> QED  BY <1>3, <1>4, <1>5, <1>6 DEF ReadRecord

-----------------------------------------------------------------------------
(* The application and the whole. *)

LEMMA AppOK ==
  ASSUME IInv, AppRuns, UNCHANGED <<job, app>>
  PROVE  IInv'
<1>1. UNCHANGED <<pc, open, left, fill, answervars>>
  BY DEF AppRuns, AppReads, AppWrites, AppEnds, servervars, requestvars, answervars
<1>2. put' \in 0..Len(app.records) /\ seen \in 0..put'
  <2>1. put \in 0..Len(app.records) /\ Len(app.records) \in Nat /\ seen \in 0..put
    BY Constant DEF IInv, TypeOK
  <2>2. put' = put \/ (put # Len(app.records) /\ put' = put + 1)
    BY DEF AppRuns, AppReads, AppWrites, AppEnds, AllSaid
  <2> QED  BY <2>1, <2>2
<1>3. toapp' \in Seq([stream: {"params", "stdin"}, n: Nat])
  <2> DEFINE R == [stream: {"params", "stdin"}, n: Nat]
  <2>1. toapp \in Seq(R)  BY DEF IInv, TypeOK
  <2>2. toapp' = toapp \/ (toapp # <<>> /\ toapp' = Tail(toapp))
    BY DEF AppRuns, AppReads, AppWrites, AppEnds, servervars, requestvars
  <2> HIDE DEF R
  <2>3. toapp' \in Seq(R)  BY <2>1, <2>2
  <2> QED  BY <2>3 DEF R
<1>4. /\ got' \in [{"params", "stdin"} -> Nat] /\ closed' \in Seq({"params", "stdin"})
  <2> DEFINE R == [stream: {"params", "stdin"}, n: Nat]
             S == {"params", "stdin"}
  <2>1. got \in [S -> Nat] /\ closed \in Seq(S) /\ toapp \in Seq(R)  BY DEF IInv, TypeOK
  <2>2. CASE UNCHANGED <<got, closed>>
    BY <2>1, <2>2
  <2>3. CASE AppReads
    <3> DEFINE record == Head(toapp)
    <3>1. /\ toapp # <<>>
          /\ \/ got' = [got EXCEPT ![record.stream] = @ + record.n] /\ closed' = closed
             \/ closed' = Append(closed, record.stream) /\ got' = got
      BY <2>3 DEF AppReads
    <3>2. record \in R
      <4> HIDE DEF R
      <4> QED  BY <2>1, <3>1
    <3>3. record.stream \in S /\ record.n \in Nat
      BY <3>2
    <3> DEFINE stream == record.stream
               n == record.n
    <3>4. /\ stream \in S /\ n \in Nat
          /\ \/ got' = [got EXCEPT ![stream] = @ + n] /\ closed' = closed
             \/ closed' = Append(closed, stream) /\ got' = got
      BY <3>1, <3>3
    <3> HIDE DEF stream, n, S, R
    <3>5. closed' \in Seq(S)
      BY <2>1, <3>4, Appended
    <3>6. got' \in [S -> Nat]
      BY <2>1, <3>4
    <3> QED  BY <3>5, <3>6 DEF S
  <2> QED  BY <2>2, <2>3 DEF AppRuns, AppWrites, AppEnds
<1>5. alive' \in BOOLEAN
  BY DEF IInv, TypeOK, AppRuns, AppReads, AppWrites, AppEnds
<1>6. TypeOK'
  BY <1>1, <1>2, <1>3, <1>4, <1>5 DEF IInv, TypeOK, answervars
<1>7. StateOK' /\ BodyGiven' /\ LastChunkIsTrue'
  BY <1>1 DEF IInv, StateOK, BodyGiven, LastChunkIsTrue, Over, Chunked, answervars
<1> QED  BY <1>6, <1>7 DEF IInv

LEMMA Start == Init => IInv
<1> SUFFICES ASSUME Init PROVE IInv  OBVIOUS
<1>1. /\ job \in Jobs /\ app \in Apps /\ pc = "params" /\ left = job.vars /\ fill = 0
      /\ open = TRUE /\ seen = 0 /\ state = 0 /\ taken = 0 /\ sent = 0 /\ ended = FALSE
      /\ put = 0 /\ alive = TRUE
  BY DEF Init
<1>2. /\ toapp \in Seq([stream: {"params", "stdin"}, n: Nat])
      /\ ans \in Seq({200, 500, 502}) /\ ans = <<>>
      /\ got \in [{"params", "stdin"} -> Nat] /\ closed \in Seq({"params", "stdin"})
  BY DEF Init
<1>3. /\ job.vars \in Nat /\ app.records \in Seq(Record) /\ HeadLen \in Nat \ {0} /\ EnvSize \in Nat
  BY <1>1, FastCgiAssumption DEF Job, App
<1>4. TypeOK
  <2>1. {open, ended, alive} \subseteq BOOLEAN
    BY <1>1
  <2>2. Len(app.records) \in Nat
    BY <1>3
  <2>3. put \in 0..Len(app.records) /\ seen \in 0..put /\ fill \in 0..EnvSize
    BY <1>1, <1>3, <2>2
  <2> QED  BY <1>1, <1>2, <1>3, <2>1, <2>3 DEF TypeOK
<1>5. LastChunkIsTrue
  BY <1>1 DEF LastChunkIsTrue
<1> QED  BY <1>1, <1>2, <1>3, <1>4, <1>5 DEF IInv, StateOK, BodyGiven, Over

\* Every step of do_fastcgi() and of the application keeps the inductive
\* invariant.
THEOREM Step == IInv /\ [Next]_vars => IInv'
<1> SUFFICES ASSUME IInv, [Next]_vars PROVE IInv'  OBVIOUS
<1>1. CASE UNCHANGED <<job, app>> /\ (DoFastcgi \/ ClientFails) /\ UNCHANGED appvars
  BY <1>1, SendRequestOK, FailsOK, ReadRecordOK DEF DoFastcgi, SendRequest, Kept
<1>2. CASE UNCHANGED <<job, app>> /\ AppRuns
  BY <1>2, AppOK
<1>3. CASE UNCHANGED vars
  BY <1>3 DEF vars, servervars, requestvars, answervars, appvars, IInv, TypeOK, StateOK, BodyGiven,
              LastChunkIsTrue, Over, Chunked
<1> QED  BY <1>1, <1>2, <1>3 DEF Next, Stopped, vars

\* The inductive invariant holds of every exchange.
THEOREM Inductive == Spec => []IInv
  BY Start, Step, PTL DEF Spec

\* The variables of do_fastcgi() and of its application keep their types.
THEOREM TypeCorrect == Spec => []TypeOK
<1>1. IInv => TypeOK  BY DEF IInv
<1> QED  BY <1>1, Inductive, PTL

\* However an application cuts its answer into records, the client is given all
\* of the body that was read, once, up to the Content-Length.
\* The last chunk is only written for the end of FCGI_STDOUT, with applications
\* whose protocolStatus exists.
THEOREM WholeAnswer == Spec => []NothingLost
<1>1. IInv => NothingLost  BY DEF IInv, NothingLost
<1> QED  BY <1>1, Inductive, PTL
-----------------------------------------------------------------------------
(***************************************************************************)
(* The request.  What the application has read, and will have read after   *)
(* each of the records on their way, are points on a path that leads to    *)
(* what tipideed has sent.  The path has a point for each record and one   *)
(* before them; that it exists is the invariant, so that no sum over the   *)
(* records is needed.                                                      *)
(***************************************************************************)
Point == [params : Nat, stdin : Nat, ends : {0, 1, 2}]

\* The record r leads from the point a to the point b: an empty one ends its stream,
\* when all of it was in the records before.
Leads(r, a, b) ==
  \/ r.stream = "params" /\ r.n > 0 /\ a.ends = 0 /\ b = [a EXCEPT !.params = @ + r.n]
  \/ r.stream = "params" /\ r.n = 0 /\ a.ends = 0 /\ a.params = job.vars /\ b = [a EXCEPT !.ends = 1]
  \/ r.stream = "stdin" /\ r.n > 0 /\ a.ends = 1 /\ b = [a EXCEPT !.stdin = @ + r.n]
  \/ r.stream = "stdin" /\ r.n = 0 /\ a.ends = 1 /\ a.stdin = job.len /\ b = [a EXCEPT !.ends = 2]

Streams(ends) ==
  IF ends = 0 THEN <<>> ELSE IF ends = 1 THEN <<"params">> ELSE <<"params", "stdin">>

ReadTo(a) == got["params"] = a.params /\ got["stdin"] = a.stdin /\ closed = Streams(a.ends)

SentTo(b) ==
  /\ pc = "params" => b.ends = 0 /\ b.params + fill + left = job.vars /\ b.stdin = 0
  /\ pc = "stdin" => b.ends = 1 /\ b.stdin + left = job.len

Path(w) ==
  /\ w \in [1..(Len(toapp) + 1) -> Point]
  /\ \A i \in 1..Len(toapp) : Leads(toapp[i], w[i], w[i + 1])
  /\ ReadTo(w[1]) /\ SentTo(w[Len(toapp) + 1])

EndsHold == (closed # <<>> => got["params"] = job.vars) /\ (HasRead => got["stdin"] = job.len)
RInv == EndsHold /\ \E w : Path(w)

Packet == [stream : {"params", "stdin"}, n : Nat]

LEMMA PathStart == Init => RInv
<1> SUFFICES ASSUME Init PROVE RInv  OBVIOUS
<1> DEFINE a == [params |-> 0, stdin |-> 0, ends |-> 0]
           w == [i \in 1..1 |-> a]
<1>1. /\ job \in Jobs /\ pc = "params" /\ left = job.vars /\ fill = 0 /\ toapp = <<>> /\ closed = <<>>
      /\ got = [stream \in {"params", "stdin"} |-> 0]
  BY DEF Init
<1>2. job.vars \in Nat  BY <1>1, FastCgiAssumption DEF Job
<1>3. a \in Point /\ a.params = 0 /\ a.stdin = 0 /\ a.ends = 0  BY DEF Point
<1> HIDE DEF a
<1>4. Len(toapp) = 0 /\ w[1] = a /\ w \in [1..1 -> Point]  BY <1>1, <1>3
<1>5. ReadTo(a) /\ SentTo(a)  BY <1>1, <1>2, <1>3 DEF ReadTo, SentTo, Streams
<1>6. Path(w)
  <2> HIDE DEF w
  <2> QED  BY <1>4, <1>5 DEF Path
<1>7. EndsHold  BY <1>1 DEF EndsHold, HasRead
<1> QED  BY <1>6, <1>7 DEF RInv

LEMMA AppendTwo == ASSUME NEW a, NEW b PROVE Append(<<a>>, b) = <<a, b>>
<1>1. Append(<<a>>, b) = [i \in 1..2 |-> IF i = 2 THEN b ELSE <<a>>[i]]  OBVIOUS
<1>2. <<a, b>> = [i \in 1..2 |-> IF i = 2 THEN b ELSE <<a>>[i]]  OBVIOUS
<1> QED  BY <1>1, <1>2

\* A record is put behind the others.
LEMMA PathLonger ==
  ASSUME toapp \in Seq(Packet), EndsHold, NEW w, Path(w), UNCHANGED <<job, got, closed>>,
         NEW r \in Packet, toapp' = Append(toapp, r),
         NEW b \in Point, Leads(r, w[Len(toapp) + 1], b), SentTo(b)'
  PROVE  RInv'
<1> DEFINE n == Len(toapp)
<1>1. /\ n \in Nat /\ Len(toapp') = n + 1 /\ toapp'[n + 1] = r
      /\ \A i \in 1..n : toapp'[i] = toapp[i]
  OBVIOUS
<1>2. /\ w \in [1..(n + 1) -> Point]
      /\ \A i \in 1..n : Leads(toapp[i], w[i], w[i + 1])
      /\ ReadTo(w[1])
  BY DEF Path
<1>3. Leads(r, w[n + 1], b)  OBVIOUS
<1>a. toapp' = Append(toapp, r)  OBVIOUS
<1> HIDE DEF n
<1>4. PICK v : /\ v \in [1..(n + 2) -> Point] /\ v[n + 2] = b
               /\ \A i \in 1..(n + 1) : v[i] = w[i]
  <2> WITNESS [i \in 1..(n + 2) |-> IF i = n + 2 THEN b ELSE w[i]]
  <2> QED  BY <1>1, <1>2
<1>5. \A i \in 1..(n + 1) : Leads(toapp'[i], v[i], v[i + 1])
  <2> SUFFICES ASSUME NEW i \in 1..(n + 1) PROVE Leads(toapp'[i], v[i], v[i + 1])  OBVIOUS
  <2>1. CASE i = n + 1
    <3>1. v[i] = w[n + 1] /\ v[i + 1] = b /\ toapp'[i] = r  BY <1>1, <1>4, <2>1
    <3> QED  BY <1>3, <3>1
  <2>2. CASE i \in 1..n
    <3>1. v[i] = w[i] /\ v[i + 1] = w[i + 1] /\ toapp'[i] = toapp[i]  BY <1>1, <1>4, <2>2
    <3> QED  BY <1>2, <2>2, <3>1
  <2> QED  BY <1>1, <2>1, <2>2
<1>6. ReadTo(v[1])'
  <2>1. v[1] = w[1]  BY <1>1, <1>4
  <2> QED  BY <1>2, <2>1 DEF ReadTo
<1>7. Path(v)'
  <2>1. Len(toapp') + 1 = n + 2 /\ Len(toapp') = n + 1  BY <1>1
  <2>2. v[Len(toapp') + 1] = b  BY <1>4, <2>1
  <2>3. (\A i \in 1..Len(toapp) : Leads(toapp[i], v[i], v[i + 1]))'
    BY <1>5, <2>1 DEF Leads
  <2> QED  BY <1>4, <1>6, <2>1, <2>2, <2>3 DEF Path
<1>8. EndsHold'  BY DEF EndsHold, HasRead
<1> QED  BY <1>7, <1>8 DEF RInv

\* Nothing is sent and nothing read.
LEMMA PathStays ==
  ASSUME RInv, UNCHANGED <<job, got, closed, toapp>>,
         NEW w, Path(w), SentTo(w[Len(toapp) + 1])'
  PROVE  RInv'
<1>1. Path(w)'  BY ZenonT(30) DEF Path, Leads, ReadTo
<1>2. EndsHold'  BY DEF RInv, EndsHold, HasRead
<1> QED  BY <1>1, <1>2 DEF RInv

\* The application takes the first record.
LEMMA PathShorter ==
  ASSUME TypeOK, RInv, UNCHANGED <<job, pc, left, fill>>, AppReads
  PROVE  RInv'
<1> DEFINE n == Len(toapp)
           r == toapp[1]
<1>1. PICK w : Path(w)  BY DEF RInv
<1>2. /\ toapp \in Seq(Packet) /\ n \in Nat \ {0} /\ r \in Packet
      /\ toapp' = Tail(toapp) /\ Head(toapp) = r
  <2>1. toapp \in Seq(Packet) /\ toapp # <<>> /\ toapp' = Tail(toapp)
    BY DEF TypeOK, Packet, AppReads
  <2> HIDE DEF AppReads
  <2> QED  BY <2>1
<1>3. Len(toapp') + 1 = n /\ \A i \in 1..Len(toapp') : toapp'[i] = toapp[i + 1]
  BY <1>2
<1>4. /\ w \in [1..(n + 1) -> Point]
      /\ \A i \in 1..n : Leads(toapp[i], w[i], w[i + 1])
      /\ ReadTo(w[1]) /\ SentTo(w[n + 1])
  BY <1>1 DEF Path
<1>5. Leads(r, w[1], w[2]) /\ w[1] \in Point  BY <1>2, <1>4
<1>6. ReadTo(w[2])' /\ EndsHold'
  <2>1. got \in [{"params", "stdin"} -> Nat]  BY DEF TypeOK
  <2>2. r.stream \in {"params", "stdin"} /\ r.n \in Nat  BY <1>2 DEF Packet
  <2>3. IF r.n > 0 THEN got' = [got EXCEPT ![r.stream] = @ + r.n] /\ closed' = closed
                   ELSE closed' = Append(closed, r.stream) /\ got' = got
    BY <1>2 DEF AppReads
  <2>4. got["params"] = w[1].params /\ got["stdin"] = w[1].stdin /\ closed = Streams(w[1].ends)
    BY <1>4 DEF ReadTo
  <2>5. EndsHold /\ job' = job  BY DEF RInv
  <2> HIDE DEF r
  <2>6. CASE r.n > 0
    <3>1. got' = [got EXCEPT ![r.stream] = @ + r.n] /\ closed' = closed  BY <2>3, <2>6
    <3>2. CASE r.stream = "params"
      <4>1. w[1].ends = 0 /\ w[2] = [w[1] EXCEPT !.params = @ + r.n]
        BY <1>5, <2>6, <3>2, <2>2 DEF Leads
      <4>2. closed = <<>>  BY <2>4, <4>1 DEF Streams
      <4>3. /\ w[2].params = w[1].params + r.n /\ w[2].stdin = w[1].stdin /\ w[2].ends = 0
        BY <1>5, <4>1 DEF Point
      <4> QED  BY <2>1, <2>4, <3>1, <3>2, <4>1, <4>2, <4>3 DEF ReadTo, EndsHold, HasRead
    <3>3. CASE r.stream = "stdin"
      <4>1. w[1].ends = 1 /\ w[2] = [w[1] EXCEPT !.stdin = @ + r.n]
        BY <1>5, <2>6, <3>3, <2>2 DEF Leads
      <4>2. closed = <<"params">>  BY <2>4, <4>1 DEF Streams
      <4>3. /\ w[2].params = w[1].params /\ w[2].stdin = w[1].stdin + r.n /\ w[2].ends = 1
        BY <1>5, <4>1 DEF Point
      <4>4. <<"params">> # <<"params", "stdin">>  OBVIOUS
      <4>5. got'["params"] = got["params"] /\ got'["stdin"] = got["stdin"] + r.n
        BY <2>1, <3>1, <3>3
      <4>6. ReadTo(w[2])'  BY <2>4, <3>1, <4>2, <4>3, <4>5 DEF ReadTo, Streams
      <4> QED  BY <2>5, <3>1, <4>2, <4>4, <4>5, <4>6 DEF EndsHold, HasRead
    <3> QED  BY <2>2, <3>2, <3>3
  <2>7. CASE r.n = 0
    <3>1. closed' = Append(closed, r.stream) /\ got' = got  BY <2>3, <2>7
    <3>2. CASE r.stream = "params"
      <4>1. w[1].ends = 0 /\ w[1].params = job.vars /\ w[2] = [w[1] EXCEPT !.ends = 1]
        BY <1>5, <2>7, <3>2, <2>2 DEF Leads
      <4>2. closed = <<>>  BY <2>4, <4>1 DEF Streams
      <4>3. closed' = <<"params">>  BY <3>1, <3>2, <4>2
      <4>4. /\ w[2].params = w[1].params /\ w[2].stdin = w[1].stdin /\ w[2].ends = 1
        BY <1>5, <4>1 DEF Point
      <4>5. <<"params">> # <<"params", "stdin">>  OBVIOUS
      <4>6. ReadTo(w[2])'
        <5>1. got' = got  BY <3>1
        <5> QED  BY <2>4, <4>3, <4>4, <5>1 DEF ReadTo, Streams
      <4> QED  BY <2>4, <2>5, <3>1, <4>1, <4>3, <4>5, <4>6 DEF EndsHold, HasRead
    <3>3. CASE r.stream = "stdin"
      <4>1. w[1].ends = 1 /\ w[1].stdin = job.len /\ w[2] = [w[1] EXCEPT !.ends = 2]
        BY <1>5, <2>7, <3>3, <2>2 DEF Leads
      <4>2. closed = <<"params">>  BY <2>4, <4>1 DEF Streams
      <4>3. closed' = <<"params", "stdin">>
        <5>1. closed' = Append(<<"params">>, "stdin")  BY <3>1, <3>3, <4>2
        <5> QED  BY <5>1, AppendTwo
      <4>4. /\ w[2].params = w[1].params /\ w[2].stdin = w[1].stdin /\ w[2].ends = 2
        BY <1>5, <4>1 DEF Point
      <4>5. closed # <<>>  BY <4>2
      <4>6. ReadTo(w[2])'
        <5>1. got' = got  BY <3>1
        <5> QED  BY <2>4, <4>3, <4>4, <5>1 DEF ReadTo, Streams
      <4> QED  BY <2>4, <2>5, <3>1, <4>1, <4>3, <4>5, <4>6 DEF EndsHold, HasRead
    <3> QED  BY <2>2, <3>2, <3>3
  <2> QED  BY <2>2, <2>6, <2>7
<1> HIDE DEF n, r
<1>7. PICK v : /\ v \in [1..n -> Point] /\ v[1] = w[2] /\ v[n] = w[n + 1]
               /\ \A i \in 1..n : v[i] = w[i + 1]
  <2> WITNESS [i \in 1..n |-> w[i + 1]]
  <2> QED  BY <1>2, <1>4
<1>8. \A i \in 1..Len(toapp') : Leads(toapp'[i], v[i], v[i + 1])
  <2> SUFFICES ASSUME NEW i \in 1..Len(toapp') PROVE Leads(toapp'[i], v[i], v[i + 1])  OBVIOUS
  <2>1. i \in 1..n /\ i + 1 \in 1..n /\ toapp'[i] = toapp[i + 1]
    BY <1>2, <1>3
  <2>2. v[i] = w[i + 1] /\ v[i + 1] = w[i + 2]  BY <1>7, <2>1
  <2>3. Leads(toapp[i + 1], w[i + 1], w[i + 2])  BY <1>4, <2>1
  <2> QED  BY <2>1, <2>2, <2>3
<1>9. Path(v)'
  <2>1. (\A i \in 1..Len(toapp) : Leads(toapp[i], v[i], v[i + 1]))'
    BY <1>8 DEF Leads
  <2>2. (Len(toapp) + 1)' = n  BY <1>3
  <2>3. SentTo(v[Len(toapp) + 1])'
    <3>1. v[n] = w[n + 1]  BY <1>7
    <3> QED  BY <1>4, <2>2, <3>1 DEF SentTo
  <2>4. ReadTo(v[1])'  BY <1>6, <1>7
  <2>5. v \in [1..(Len(toapp') + 1) -> Point]  BY <1>7, <2>2
  <2> QED  BY <2>1, <2>3, <2>4, <2>5 DEF Path
<1> QED  BY <1>6, <1>9 DEF RInv

\* What is sent is the end of the path.
LEMMA PathSends ==
  ASSUME TypeOK, RInv, Kept, AddEnv \/ EndEnv \/ Stdin
  PROVE  RInv'
<1>1. PICK w : Path(w)  BY DEF RInv
<1>a. PICK a : a = w[Len(toapp) + 1]  OBVIOUS
<1>2. /\ toapp \in Seq(Packet) /\ left \in Nat /\ fill \in Nat /\ EndsHold
      /\ EnvSize \in Nat \ {0} /\ RecordSize \in Nat \ {0} /\ job.vars \in Nat /\ job.len \in Nat
  BY Constant DEF TypeOK, Packet, RInv
<1>3. a \in Point /\ SentTo(a)
  <2>1. Len(toapp) + 1 \in 1..(Len(toapp) + 1)  BY <1>2
  <2> QED  BY <1>1, <1>a, <2>1 DEF Path
<1>4. /\ a.params \in Nat /\ a.stdin \in Nat /\ a.ends \in {0, 1, 2}
      /\ pc = "params" => a.ends = 0 /\ a.params + fill + left = job.vars /\ a.stdin = 0
      /\ pc = "stdin" => a.ends = 1 /\ a.stdin + left = job.len
  BY <1>3 DEF Point, SentTo
<1>5. UNCHANGED <<job, got, closed>>  BY DEF Kept, appvars
<1>6. ASSUME NEW stream \in {"params", "stdin"}, NEW n \in Nat, Send(stream, n),
             NEW b \in Point, Leads([stream |-> stream, n |-> n], a, b), SentTo(b)'
      PROVE  RInv'
  <2> DEFINE r == [stream |-> stream, n |-> n]
  <2>1. r \in Packet /\ toapp' = Append(toapp, r) /\ Leads(r, w[Len(toapp) + 1], b)
    BY <1>a, <1>6 DEF Packet, Send
  <2> HIDE DEF r
  <2> QED  BY <1>1, <1>2, <1>5, <1>6, <2>1, PathLonger
<1>7. CASE AddEnv
  <2>1. /\ pc = "params" /\ pc' = pc /\ left > 0 /\ left' = left - 1
        /\ \/ fill < EnvSize /\ fill' = fill + 1 /\ toapp' = toapp
           \/ fill >= EnvSize /\ fill' = 1 /\ Send("params", fill)
    BY <1>2, <1>7 DEF AddEnv, Sending
  <2>2. CASE fill' = fill + 1 /\ toapp' = toapp
    <3>1. SentTo(a)'  BY <1>2, <1>4, <1>5, <2>1, <2>2 DEF SentTo
    <3>2. SentTo(w[Len(toapp) + 1])'  BY <1>a, <2>2, <3>1
    <3> QED  BY <1>1, <1>5, <2>2, <3>2, PathStays
  <2>3. CASE fill >= EnvSize /\ fill' = 1 /\ Send("params", fill)
    <3>b. PICK b : b = [a EXCEPT !.params = @ + fill]  OBVIOUS
    <3>1. /\ b \in Point /\ b.params = a.params + fill /\ b.stdin = a.stdin /\ b.ends = a.ends
      BY <3>b, <1>2, <1>3 DEF Point
    <3>2. Leads([stream |-> "params", n |-> fill], a, b)
      BY <3>b, <1>2, <1>4, <2>1, <2>3 DEF Leads
    <3>3. SentTo(b)'
      BY <1>2, <1>4, <1>5, <2>1, <2>3, <3>1 DEF SentTo
    <3> QED  BY <1>2, <1>6, <2>3, <3>1, <3>2, <3>3
  <2> QED  BY <2>1, <2>2, <2>3
<1>8. CASE EndEnv
  <2>1. /\ pc = "params" /\ left = 0 /\ fill' = 0 /\ Send("params", fill)
        /\ IF fill > 0 THEN pc' = pc /\ left' = left ELSE pc' = "stdin" /\ left' = job.len
    BY <1>8 DEF EndEnv, Sending
  <2>2. CASE fill > 0
    <3>b. PICK b : b = [a EXCEPT !.params = @ + fill]  OBVIOUS
    <3>1. /\ b \in Point /\ b.params = a.params + fill /\ b.stdin = a.stdin /\ b.ends = a.ends
      BY <3>b, <1>2, <1>3 DEF Point
    <3>2. Leads([stream |-> "params", n |-> fill], a, b)
      BY <3>b, <1>2, <1>4, <2>1, <2>2 DEF Leads
    <3>3. SentTo(b)'
      BY <1>2, <1>4, <1>5, <2>1, <2>2, <3>1 DEF SentTo
    <3> QED  BY <1>2, <1>6, <2>1, <3>1, <3>2, <3>3
  <2>3. CASE fill = 0
    <3>b. PICK b : b = [a EXCEPT !.ends = 1]  OBVIOUS
    <3>1. /\ b \in Point /\ b.params = a.params /\ b.stdin = a.stdin /\ b.ends = 1
      BY <3>b, <1>3 DEF Point
    <3>2. Leads([stream |-> "params", n |-> fill], a, b)
      BY <3>b, <1>2, <1>4, <2>1, <2>3 DEF Leads
    <3>3. SentTo(b)'
      BY <1>2, <1>4, <1>5, <2>1, <2>3, <3>1 DEF SentTo
    <3> QED  BY <1>2, <1>6, <2>1, <3>1, <3>2, <3>3
  <2> QED  BY <1>2, <2>2, <2>3
<1>9. CASE Stdin
  <2> DEFINE n == Least(left, RecordSize)
  <2>1. n \in Nat /\ n <= left /\ (left > 0 => n > 0) /\ (left = 0 => n = 0)
    BY <1>2 DEF Least
  <2>2. /\ pc = "stdin" /\ Send("stdin", n) /\ left' = left - n
        /\ pc' = IF left > 0 THEN "stdin" ELSE "read"
    BY <1>9 DEF Stdin, Sending
  <2> HIDE DEF n
  <2>3. CASE left > 0
    <3>b. PICK b : b = [a EXCEPT !.stdin = @ + n]  OBVIOUS
    <3>1. /\ b \in Point /\ b.params = a.params /\ b.stdin = a.stdin + n /\ b.ends = a.ends
      BY <3>b, <2>1, <1>3 DEF Point
    <3>2. Leads([stream |-> "stdin", n |-> n], a, b)
      BY <3>b, <1>4, <2>1, <2>2, <2>3 DEF Leads
    <3>3. SentTo(b)'
      BY <1>2, <1>4, <1>5, <2>1, <2>2, <2>3, <3>1 DEF SentTo
    <3> QED  BY <1>6, <2>1, <2>2, <3>1, <3>2, <3>3
  <2>4. CASE left = 0
    <3>b. PICK b : b = [a EXCEPT !.ends = 2]  OBVIOUS
    <3>1. /\ b \in Point /\ b.params = a.params /\ b.stdin = a.stdin /\ b.ends = 2
      BY <3>b, <1>3 DEF Point
    <3>2. Leads([stream |-> "stdin", n |-> n], a, b)
      BY <3>b, <1>2, <1>4, <2>1, <2>2, <2>4 DEF Leads
    <3>3. SentTo(b)'
      BY <2>2, <2>4 DEF SentTo
    <3> QED  BY <1>6, <2>1, <2>2, <3>1, <3>2, <3>3
  <2> QED  BY <1>2, <2>3, <2>4
<1> QED  BY <1>7, <1>8, <1>9

\* Behind the request nothing is sent any more.
LEMMA PathNext == TypeOK /\ RInv /\ [Next]_vars => RInv'
<1> SUFFICES ASSUME TypeOK, RInv, [Next]_vars PROVE RInv'  OBVIOUS
<1>1. PICK w : Path(w)  BY DEF RInv
<1>a. PICK a : a = w[Len(toapp) + 1]  OBVIOUS
<1>2. SentTo(a)  BY <1>1, <1>a DEF Path
<1>3. ASSUME UNCHANGED <<job, got, closed, toapp>>,
             pc' \in {"read", "returned", "died"} \/ UNCHANGED <<pc, fill, left>>
      PROVE  RInv'
  <2>1. SentTo(a)'  BY <1>2, <1>3 DEF SentTo
  <2>2. SentTo(w[Len(toapp) + 1])'  BY <1>a, <1>3, <2>1
  <2> QED  BY <1>1, <1>3, <2>2, PathStays
<1>4. CASE UNCHANGED <<job, app>> /\ (DoFastcgi \/ ClientFails) /\ UNCHANGED appvars
  <2>1. CASE AddEnv \/ EndEnv \/ Stdin  BY <1>4, <2>1, PathSends DEF Kept
  <2>2. CASE SendFails \/ ReadFails \/ ClientFails
    <3>1. pc' = "died" /\ toapp' = toapp
      BY <2>2 DEF SendFails, ReadFails, ClientFails, DieWith, Die, requestvars
    <3> QED  BY <1>3, <1>4, <3>1 DEF appvars
  <2>3. CASE ReadRecord
    <3>1. toapp' = toapp /\ pc = "read"  BY <2>3 DEF ReadRecord, requestvars
    <3>2. pc' \in {"read", "returned", "died"}
      <4>1. PICK n : Stdout(n) \/ GoOn \/ EndRequest \/ DieWith(502)
        BY <2>3 DEF ReadRecord
      <4> QED  BY <3>1, <4>1 DEF Stdout, GoOn, EndRequest, DieWith, Die, MoreHeaders, BadHeaders,
                    RedirectHeaders, HeadPage, Page, Body, EmptyGarbage, Return
    <3> QED  BY <1>3, <1>4, <3>1, <3>2 DEF appvars
  <2> QED  BY <1>4, <2>1, <2>2, <2>3 DEF DoFastcgi, SendRequest
<1>5. CASE UNCHANGED <<job, app>> /\ AppRuns
  <2>1. CASE AppReads  BY <1>5, <2>1, PathShorter DEF AppReads
  <2>2. CASE AppWrites \/ AppEnds
    <3>1. UNCHANGED <<job, got, closed, toapp, pc, fill, left>>
      BY <1>5, <2>2 DEF AppWrites, AppEnds, servervars, requestvars
    <3> QED  BY <1>3, <3>1
  <2> QED  BY <1>5, <2>1, <2>2 DEF AppRuns
<1>6. CASE UNCHANGED vars
  <2>1. UNCHANGED <<job, got, closed, toapp, pc, fill, left>>
    BY <1>6 DEF vars, servervars, requestvars, appvars
  <2> QED  BY <1>3, <2>1
<1> QED  BY <1>4, <1>5, <1>6 DEF Next, Stopped, vars

\* For any environment, any body and records of any size, an application that reads the
\* end of a stream has all of it, and the environment comes before the body.
THEOREM WholeRequest == Spec => []RequestIsWhole
<1>1. RInv => RequestIsWhole
  <2> SUFFICES ASSUME RInv PROVE RequestIsWhole  OBVIOUS
  <2>1. PICK w : Path(w)  BY DEF RInv
  <2>2. closed = Streams(w[1].ends)  BY <2>1 DEF Path, ReadTo
  <2> QED  BY <2>2 DEF Streams, RInv, EndsHold, RequestIsWhole
<1>2. TypeOK /\ RInv /\ [Next]_vars => RInv'  BY PathNext
<1> QED  BY <1>1, <1>2, PathStart, TypeCorrect, PTL DEF Spec
=============================================================================
