--------------------------- MODULE SendFile_proofs ---------------------------
(***************************************************************************)
(* Proofs about SendFile, for any requests, files, changes of them, and    *)
(* sizes of the pipe, the buffer and the socket: typing, a client that is  *)
(* given what was promised in its order, all of it when the connection is  *)
(* kept, and a process that does not end without a cause.                  *)
(***************************************************************************)
EXTENDS SendFile, SequenceTheorems, TLAPS

\* The answers with a body of the file, and how long it is.
FileAnswer == ans = 206 \/ (ans = 200 /\ ~req.head)
Amount == IF FileAnswer THEN Length ELSE 0

\* What the client is given in the i-th place when the body starts after the first
\* b units of the file; s is laid from there on when it stands in the places
\* after the first m.
UnitAt(b, i) == IF i = 1 THEN 0 ELSE b + i - 1
Laid(b, s, m) == \A i \in 1..Len(s) : s[i] = UnitAt(b, m + i)

Phase ==
  /\ pc \in {"stat", "open"} => n = 0 /\ hold = <<>> /\ wire = <<>>
  /\ pc = "stat" => ans = 0
  /\ pc \in {"open", "fill", "wait", "send"} => FileAnswer
  /\ pc \in {"fill", "wait", "send"} => n > 0
  /\ pc = "fill" => (build = "splice" => hold = <<>>) /\ Len(hold) <= 1
  /\ pc \in {"wait", "send"} => hold = <<>>
  /\ pc = "returned" => n = 0 /\ hold = <<>>
  /\ edits = 0 /\ pc # "stat" => st = file.size
  /\ ans = 206 => Accepted(req.range, st)

\* What is written, what is held and what is not read yet are the answer; the
\* offset is where what is not read yet starts.
Placed ==
  pc \notin {"stat", "open"} =>
    /\ Len(wire) + Len(hold) + n = 1 + Amount
    /\ Len(wire) + Len(hold) > 0
    /\ Laid(Start, wire, 0)
    /\ Laid(Start, hold, Len(wire))
    /\ n > 0 => pos = Start + Amount - n

\* The inductive invariant.
IInv == TypeOK /\ Phase /\ Placed

-----------------------------------------------------------------------------
(* Ranges. *)

\* A range that tipidee_util_parse_range() accepts lies in the file, for any range
\* and any size: no offset is beyond its end, and no length is negative.
THEOREM RangeInside ==
  ASSUME NEW range \in RangeHeader, NEW size \in Nat, Accepted(range, size)
  PROVE  /\ RangeStart(range, size) \in Nat
         /\ RangeLength(range, size) \in Nat
         /\ RangeStart(range, size) + RangeLength(range, size) <= size
<1>1. range.first \in Nat /\ range.last \in Nat
  BY DEF RangeHeader
<1>2. CASE range.form = "suffix"
  BY <1>1, <1>2 DEF Accepted, RangeStart, RangeLength
<1>3. CASE range.form = "open"
  BY <1>1, <1>3 DEF Accepted, RangeStart, RangeLength
<1>4. CASE range.form = "closed"
  BY <1>1, <1>4 DEF Accepted, RangeStart, RangeLength
<1> QED  BY <1>2, <1>3, <1>4 DEF Accepted

LEMMA Constant ==
  ASSUME TypeOK
  PROVE  /\ req.range \in RangeHeader /\ req.head \in BOOLEAN
         /\ file.size \in Nat
         /\ HoldSize \in Nat /\ HoldSize > 1
  BY SendFileAssumption DEF TypeOK, Request, File

LEMMA LeastIs ==
  ASSUME NEW a \in Nat, NEW b \in Nat
  PROVE  /\ Least(a, b) \in Nat /\ Least(a, b) <= a /\ Least(a, b) <= b
         /\ a > 0 /\ b > 0 => Least(a, b) > 0
  BY DEF Least

\* The body is a part of what stat() saw.
LEMMA BodyInside ==
  ASSUME TypeOK, Phase
  PROVE  /\ Start \in Nat /\ Amount \in Nat
         /\ FileAnswer => Amount = Length /\ Start + Amount <= st
<1>1. CASE ans = 206
  <2>1. Accepted(req.range, st)
    BY <1>1 DEF Phase
  <2> QED  BY <1>1, <2>1, Constant, RangeInside DEF TypeOK, Start, Amount, Length, FileAnswer
<1>2. CASE ans # 206
  BY <1>2 DEF TypeOK, Start, Amount, Length, FileAnswer
<1> QED  BY <1>1, <1>2

\* Promised says the same of the headers as tipidee_util_parse_range() does.
LEMMA PromisedIs ==
  ASSUME TypeOK, Phase, NEW p \in Nat
  PROVE  p \in Promised <=> p > Start /\ p <= Start + Amount
<1>1. st \in Nat /\ req.range.first \in Nat /\ req.range.last \in Nat
  BY Constant DEF TypeOK, RangeHeader
<1>2. CASE ans = 206
  <2>1. Accepted(req.range, st) /\ Start = RangeStart(req.range, st) /\ Amount = RangeLength(req.range, st)
    BY <1>2 DEF Phase, Start, Amount, Length, FileAnswer
  <2>2. p \in Promised <=>
          /\ p \in 1..st
          /\ req.range.form = "suffix" => p + req.range.last > st
          /\ req.range.form # "suffix" => p > req.range.first
          /\ req.range.form = "closed" => p <= req.range.last + 1
    BY <1>2 DEF Promised
  <2>3. CASE req.range.form = "suffix"
    BY <1>1, <2>1, <2>2, <2>3 DEF Accepted, RangeStart, RangeLength
  <2>4. CASE req.range.form = "open"
    BY <1>1, <2>1, <2>2, <2>4 DEF Accepted, RangeStart, RangeLength
  <2>5. CASE req.range.form = "closed"
    BY <1>1, <2>1, <2>2, <2>5 DEF Accepted, RangeStart, RangeLength
  <2> QED  BY <2>1, <2>3, <2>4, <2>5 DEF Accepted
<1>3. CASE ans = 200 /\ ~req.head
  <2>1. Start = 0 /\ Amount = st /\ Promised = 1..st
    BY <1>3 DEF Start, Amount, Length, FileAnswer, Promised
  <2> QED  BY <1>1, <2>1
<1>4. CASE ~(ans = 206 \/ (ans = 200 /\ ~req.head))
  <2>1. Start = 0 /\ Amount = 0 /\ Promised = {}
    BY <1>4 DEF Start, Amount, FileAnswer, Promised
  <2> QED  BY <2>1
<1> QED  BY <1>2, <1>3, <1>4

-----------------------------------------------------------------------------
(* Sequences of units. *)

LEMMA UnitsAre ==
  ASSUME NEW b \in Nat, NEW m \in Nat \ {0}, NEW k \in Nat
  PROVE  /\ Units(b + m - 1, k) \in Seq(Nat)
         /\ Len(Units(b + m - 1, k)) = k
         /\ Laid(b, Units(b + m - 1, k), m)
<1> DEFINE u == Units(b + m - 1, k)
<1>1. u = [i \in 1..k |-> b + m - 1 + i]
  BY DEF Units
<1>2. \A i \in 1..k : b + m - 1 + i \in Nat
  OBVIOUS
<1>3. u \in Seq(Nat) /\ Len(u) = k
  BY <1>1, <1>2
<1>4. \A i \in 1..k : u[i] = UnitAt(b, m + i)
  BY <1>1 DEF UnitAt
<1> QED  BY <1>3, <1>4 DEF Laid

LEMMA Joined ==
  ASSUME NEW b \in Nat, NEW m \in Nat, NEW s \in Seq(Nat), NEW t \in Seq(Nat),
         Laid(b, s, m), Laid(b, t, m + Len(s))
  PROVE  /\ s \o t \in Seq(Nat) /\ Len(s \o t) = Len(s) + Len(t)
         /\ Laid(b, s \o t, m)
<1>1. /\ s \o t \in Seq(Nat) /\ Len(s \o t) = Len(s) + Len(t)
      /\ \A i \in 1..Len(s) + Len(t) : (s \o t)[i] = IF i <= Len(s) THEN s[i] ELSE t[i - Len(s)]
  BY ConcatProperties
<1>2. Len(s) \in Nat /\ Len(t) \in Nat
  OBVIOUS
<1>3. ASSUME NEW i \in 1..Len(s) + Len(t)
      PROVE  (s \o t)[i] = UnitAt(b, m + i)
  <2>1. CASE i <= Len(s)
    BY <1>1, <1>2, <2>1 DEF Laid
  <2>2. CASE i > Len(s)
    <3>1. i - Len(s) \in 1..Len(t) /\ (m + Len(s)) + (i - Len(s)) = m + i
      BY <1>2, <2>2
    <3>2. t[i - Len(s)] = UnitAt(b, (m + Len(s)) + (i - Len(s)))
      BY <3>1 DEF Laid
    <3> QED  BY <1>1, <1>2, <2>2, <3>1, <3>2
  <2> QED  BY <1>2, <2>1, <2>2
<1> QED  BY <1>1, <1>3 DEF Laid

LEMMA Cut ==
  ASSUME NEW b \in Nat, NEW m \in Nat, NEW s \in Seq(Nat), Laid(b, s, m), NEW k \in 1..Len(s)
  PROVE  /\ SubSeq(s, 1, k) \in Seq(Nat) /\ Len(SubSeq(s, 1, k)) = k
         /\ Laid(b, SubSeq(s, 1, k), m)
         /\ SubSeq(s, k + 1, Len(s)) \in Seq(Nat) /\ Len(SubSeq(s, k + 1, Len(s))) = Len(s) - k
         /\ Laid(b, SubSeq(s, k + 1, Len(s)), m + k)
<1> DEFINE h == SubSeq(s, 1, k)
           t == SubSeq(s, k + 1, Len(s))
<1>1. Len(s) \in Nat /\ k \in Nat /\ k <= Len(s)
  OBVIOUS
<1>2. /\ h \in Seq(Nat) /\ Len(h) = k
      /\ \A i \in 1..k : h[i] = s[i]
  BY <1>1
<1>3. /\ t \in Seq(Nat) /\ Len(t) = Len(s) - k
      /\ \A i \in 1..Len(s) - k : t[i] = s[k + i]
  BY <1>1
<1> HIDE DEF h, t
<1>4. Laid(b, h, m)
  <2>1. ASSUME NEW i \in 1..k
        PROVE  h[i] = UnitAt(b, m + i)
    <3>1. i \in 1..Len(s) /\ h[i] = s[i]
      BY <1>1, <1>2
    <3> QED  BY <3>1 DEF Laid
  <2> QED  BY <1>2, <2>1 DEF Laid
<1>5. ASSUME NEW i \in 1..Len(s) - k
      PROVE  t[i] = UnitAt(b, (m + k) + i)
  <2>1. k + i \in 1..Len(s) /\ m + (k + i) = (m + k) + i
    BY <1>1
  <2> QED  BY <1>3, <2>1 DEF Laid
<1>6. Laid(b, t, m + k)
  BY <1>3, <1>5 DEF Laid
<1> QED  BY <1>2, <1>3, <1>4, <1>6 DEF h, t

-----------------------------------------------------------------------------
(* The steps. *)

Others == UNCHANGED <<req, build, file, edits, client>>
SameAnswer == UNCHANGED <<st, ans>>

\* What follows from an answer that does not change.
LEMMA Fixed ==
  ASSUME Others, SameAnswer
  PROVE  /\ Start' = Start /\ Amount' = Amount /\ FileAnswer' = FileAnswer
         /\ ans = 206 /\ Accepted(req.range, st) => Accepted(req.range, st)'
  BY DEF Others, SameAnswer, Start, Amount, Length, FileAnswer, RangeStart, RangeLength, Accepted

LEMMA HeadOnly ==
  ASSUME NEW b \in Nat
  PROVE  /\ <<0>> \in Seq(Nat) /\ Len(<<0>>) = 1 /\ Laid(b, <<0>>, 0)
         /\ Len(<<>>) = 0 /\ Laid(b, <<>>, 0)
  BY DEF Laid, UnitAt

LEMMA RespondOK == IInv /\ Others /\ Respond => IInv'
<1> SUFFICES ASSUME IInv, Others, Respond PROVE IInv'  OBVIOUS
<1>0. pc \in {"stat", "open"}
  BY DEF Respond, Serve, OpenFails, OpenFile
<1>1. /\ TypeOK /\ pc \in {"stat", "open"} /\ n = 0 /\ hold = <<>> /\ wire = <<>>
      /\ file.size \in Nat /\ pos \in Nat
  BY <1>0, Constant DEF IInv, Phase, TypeOK
<1>2. st' \in Nat /\ edits' = edits /\ file' = file /\ req' = req /\ build' = build
      /\ taken' = taken /\ left' = left
  BY <1>1 DEF Others, client, TypeOK, Respond, Serve, OpenFails, OpenFile
<1>3. edits = 0 => st' = file.size
  BY <1>1 DEF IInv, Phase, Respond, Serve, OpenFails, OpenFile
<1>4. ASSUME NEW status \in {200, 304, 403, 404, 416, 500}, Short(status),
             status = 200 => req.head
      PROVE  IInv'
  <2>1. ans' = status /\ hold' = <<0>> /\ pc' = "flush" /\ pos' = pos /\ n' = 0 /\ wire' = <<>>
    BY <1>1, <1>4 DEF Short
  <2>2. ~FileAnswer' /\ Start' = 0 /\ Amount' = 0
    BY <1>2, <1>4, <2>1 DEF FileAnswer, Start, Amount
  <2>3. TypeOK'
    BY <1>1, <1>2, <1>4, <2>1 DEF TypeOK
  <2>4. Phase'
    BY <1>2, <1>3, <1>4, <2>1, <2>2 DEF Phase
  <2>5. Placed'
    BY <2>1, <2>2, HeadOnly DEF Placed
  <2> QED  BY <2>3, <2>4, <2>5 DEF IInv
<1>5. ASSUME NEW status \in {200, 206}, Long(status), st' = file.size,
             status = 200 => ~req.head,
             status = 206 => Accepted(req.range, file.size)
      PROVE  IInv'
  <2>1. ans' = status /\ pc' = "open" /\ UNCHANGED <<pos, n, hold, wire>>
    BY <1>5 DEF Long, sending
  <2>2. FileAnswer'
    BY <1>2, <1>5, <2>1 DEF FileAnswer
  <2>3. TypeOK'
    BY <1>1, <1>2, <1>5, <2>1 DEF TypeOK
  <2>4. status = 206 => Accepted(req.range, st)'
    BY <1>2, <1>5 DEF Accepted
  <2>5. Phase' /\ Placed'
    BY <1>1, <1>2, <1>3, <2>1, <2>2, <2>4 DEF Phase, Placed
  <2> QED  BY <2>3, <2>5 DEF IInv
<1>6. CASE Serve
  BY <1>4, <1>5, <1>6 DEF Serve
<1>7. CASE OpenFails
  BY <1>4, <1>7 DEF OpenFails
<1>8. CASE OpenFile
  <2>1. /\ pos' = Start /\ n' = Length /\ hold' = <<0>> /\ wire' = <<>>
        /\ SameAnswer
        /\ pc' = IF build = "readv" /\ Length > 0 THEN "fill" ELSE "flush"
    BY <1>1, <1>8 DEF OpenFile, SameAnswer
  <2>2. FileAnswer /\ Amount = Length /\ Start \in Nat /\ Amount \in Nat
    BY <1>1, <1>8, BodyInside DEF IInv, Phase, OpenFile
  <2>3. Start' = Start /\ Amount' = Amount /\ FileAnswer'
    BY <2>1, <2>2, Fixed
  <2>4. TypeOK'
    BY <1>1, <1>2, <2>1, <2>2, HeadOnly DEF TypeOK, SameAnswer
  <2>5. ans' = 206 => Accepted(req.range, st)'
    BY <2>1, Fixed DEF IInv, Phase, SameAnswer
  <2>6. Phase'
    BY <1>2, <1>3, <2>1, <2>2, <2>3, <2>5, HeadOnly DEF Phase, SameAnswer, IInv
  <2>7. Placed'
    BY <2>1, <2>2, <2>3, HeadOnly DEF Placed
  <2> QED  BY <2>4, <2>6, <2>7 DEF IInv
<1> QED  BY <1>6, <1>7, <1>8 DEF Respond

\* A step that only goes on, or ends, with all that is to be sent as it was.
LEMMA GoesOn ==
  ASSUME IInv, Others, SameAnswer, UNCHANGED sending, pc \notin {"stat", "open"},
         \/ pc' = "died"
         \/ pc' = "returned" /\ n = 0 /\ hold = <<>>
         \/ pc' \in {"fill", "wait", "send"} /\ n > 0 /\ FileAnswer /\ hold = <<>>
  PROVE  IInv'
<1>1. /\ pc' \in {"died", "returned", "fill", "wait", "send"}
      /\ UNCHANGED <<pos, n, hold, wire, req, build, file, edits, taken, left, st, ans>>
  BY DEF Others, SameAnswer, sending, client
<1>2. Start' = Start /\ Amount' = Amount /\ FileAnswer' = FileAnswer
      /\ (ans' = 206 => Accepted(req.range, st)')
  BY Fixed DEF IInv, Phase, SameAnswer
<1>3. TypeOK'
  BY <1>1 DEF IInv, TypeOK
<1>4. Phase'
  BY <1>1, <1>2, HeadOnly DEF IInv, Phase
<1>5. Placed'
  BY <1>1, <1>2 DEF IInv, Placed, Laid
<1> QED  BY <1>3, <1>4, <1>5 DEF IInv

LEMMA GoingOn ==
  ASSUME IInv, Others,
         Flushed \/ Expires \/ ClientGone \/ Truncated \/ Writable \/ SendfileFails
  PROVE  IInv'
<1>1. SameAnswer /\ UNCHANGED sending /\ pc \notin {"stat", "open"}
  BY DEF Flushed, Expires, Waiting, ClientGone, Truncated, Writable, SendfileFails, SameAnswer
<1>2. CASE Flushed
  <2>1. hold = <<>> /\ n \in Nat /\ Len(hold) = 0
    BY <1>2 DEF Flushed, IInv, TypeOK
  <2>2. n > 0 => FileAnswer
    <3> SUFFICES ASSUME n > 0, ~FileAnswer PROVE FALSE  OBVIOUS
    <3>1. Amount = 0 /\ Len(wire) + Len(hold) + n = 1 + Amount /\ Len(wire) + Len(hold) > 0
      BY <1>1 DEF Amount, IInv, Placed
    <3>2. Len(wire) \in Nat
      BY DEF IInv, TypeOK
    <3> QED  BY <2>1, <3>1, <3>2
  <2>3. \/ pc' = "died"
        \/ pc' = "returned" /\ n = 0
        \/ pc' \in {"fill", "wait"} /\ n > 0
    BY <1>2, <2>1 DEF Flushed
  <2> QED  BY <1>1, <2>1, <2>2, <2>3, GoesOn
<1>3. CASE Expires \/ ClientGone \/ Truncated
  BY <1>1, <1>3, GoesOn DEF Expires, ClientGone, Truncated
<1>4. CASE Writable \/ SendfileFails
  <2>1. n > 0 /\ FileAnswer /\ hold = <<>>
    BY <1>4 DEF IInv, Phase, Writable, SendfileFails
  <2> QED  BY <1>1, <1>4, <2>1, GoesOn DEF Writable, SendfileFails
<1> QED  BY <1>2, <1>3, <1>4

LEMMA FlushOK == IInv /\ Others /\ Flush => IInv'
<1> SUFFICES ASSUME IInv, Others, Flush PROVE IInv'  OBVIOUS
<1>1. PICK k \in 1..Least(Len(hold), Room) :
        /\ wire' = wire \o SubSeq(hold, 1, k)
        /\ hold' = SubSeq(hold, k + 1, Len(hold))
  BY DEF Flush, Write
<1>2. /\ wire \in Seq(Nat) /\ hold \in Seq(Nat) /\ n \in Nat /\ taken \in Nat /\ pos \in Nat
      /\ Len(wire) \in Nat /\ Len(hold) \in Nat /\ Start \in Nat /\ Amount \in Nat
  BY BodyInside DEF IInv, TypeOK
<1>3. k \in 1..Len(hold)
  BY <1>1, <1>2, SendFileAssumption DEF Least, Room
<1>4. /\ UNCHANGED <<pc, pos, n, req, build, file, edits, taken, left, st, ans>>
      /\ SameAnswer /\ pc = "flush"
  BY DEF Flush, Others, SameAnswer, client
<1>5. /\ Laid(Start, wire, 0) /\ Laid(Start, hold, Len(wire))
      /\ Len(wire) + Len(hold) + n = 1 + Amount
      /\ n > 0 => pos = Start + Amount - n
  BY <1>4 DEF IInv, Placed
<1> DEFINE h == SubSeq(hold, 1, k)
           t == SubSeq(hold, k + 1, Len(hold))
<1>6. /\ h \in Seq(Nat) /\ Len(h) = k /\ Laid(Start, h, Len(wire))
      /\ t \in Seq(Nat) /\ Len(t) = Len(hold) - k /\ Laid(Start, t, Len(wire) + k)
  BY <1>2, <1>3, <1>5, Cut
<1>7. wire' = wire \o h /\ hold' = t
  BY <1>1
<1> HIDE DEF h, t
<1>8. /\ wire' \in Seq(Nat) /\ Len(wire') = Len(wire) + k
      /\ Laid(Start, wire', 0)
  <2>1. 0 + Len(wire) = Len(wire)
    BY <1>2
  <2>2. Laid(Start, h, 0 + Len(wire))
    BY <1>6, <2>1
  <2>3. wire \o h \in Seq(Nat) /\ Len(wire \o h) = Len(wire) + Len(h) /\ Laid(Start, wire \o h, 0)
    BY <1>2, <1>5, <1>6, <2>2, Joined
  <2> QED  BY <1>6, <1>7, <2>3
<1>9. Start' = Start /\ Amount' = Amount /\ FileAnswer' = FileAnswer
      /\ (ans' = 206 => Accepted(req.range, st)')
  BY <1>4, Fixed DEF IInv, Phase
<1>10. TypeOK'
  BY <1>4, <1>6, <1>7, <1>8 DEF IInv, TypeOK
<1>11. Phase'
  BY <1>4, <1>9 DEF IInv, Phase
<1>12. Placed'
  <2>1. Laid(Start', hold', Len(wire')) /\ Laid(Start', wire', 0)
    BY <1>6, <1>7, <1>8, <1>9
  <2>2. /\ Len(wire') + Len(hold') + n' = 1 + Amount
        /\ Len(wire') + Len(hold') > 0
        /\ n' > 0 => pos' = Start + Amount - n'
    <3>1. Len(hold') = Len(hold) - k /\ Len(wire') = Len(wire) + k /\ n' = n /\ pos' = pos
          /\ k \in Nat /\ k > 0
      BY <1>2, <1>3, <1>4, <1>6, <1>7, <1>8
    <3> HIDE <1>1, <1>6, <1>7, <1>8
    <3>2. /\ Len(wire) \in Nat /\ Len(hold) \in Nat /\ Start \in Nat /\ Amount \in Nat /\ n \in Nat
          /\ Len(wire) + Len(hold) + n = 1 + Amount /\ (n > 0 => pos = Start + Amount - n)
          /\ k <= Len(hold)
      BY <1>2, <1>3, <1>5
    <3> QED  BY <3>1, <3>2
  <2> QED  BY <1>9, <2>1, <2>2 DEF Placed
<1> QED  BY <1>10, <1>11, <1>12 DEF IInv

\* What the three versions of the loop have in common: before it reads, the next
\* unit of the file is the next that was promised.
LEMMA BeforeReading ==
  ASSUME IInv, pc \in {"fill", "send"}
  PROVE  /\ wire \in Seq(Nat) /\ hold \in Seq(Nat) /\ Len(wire) \in Nat /\ Len(hold) \in Nat
         /\ n \in Nat /\ n > 0 /\ pos \in Nat /\ Start \in Nat /\ Amount \in Nat
         /\ FileAnswer
         /\ Laid(Start, wire, 0) /\ Laid(Start, hold, Len(wire))
         /\ Len(wire) + Len(hold) + n = 1 + Amount
         /\ Len(wire) + Len(hold) > 0
         /\ pos = Start + (Len(wire) + Len(hold)) - 1
         /\ file.size \in Nat /\ HoldSize \in Nat /\ HoldSize > 1 /\ taken \in Nat
<1>1. /\ wire \in Seq(Nat) /\ hold \in Seq(Nat) /\ n \in Nat /\ pos \in Nat /\ taken \in Nat
      /\ Start \in Nat /\ Amount \in Nat
  BY BodyInside DEF IInv, TypeOK
<1>2. Len(wire) \in Nat /\ Len(hold) \in Nat
  BY <1>1
<1>3. n > 0 /\ FileAnswer
  BY DEF IInv, Phase
<1>4. /\ Laid(Start, wire, 0) /\ Laid(Start, hold, Len(wire))
      /\ Len(wire) + Len(hold) + n = 1 + Amount /\ Len(wire) + Len(hold) > 0
      /\ pos = Start + Amount - n
  BY <1>3 DEF IInv, Placed
<1> QED  BY <1>1, <1>2, <1>3, <1>4, Constant DEF IInv

\* The next k units of the file go to the buffer or the pipe.
LEMMA Reads ==
  ASSUME IInv, Others, SameAnswer, pc = "fill", pc' = "flush",
         NEW k \in 1..n, wire' = wire, hold' = hold \o Units(pos, k), n' = n - k,
         pos' \in Nat, n - k > 0 => pos' = pos + k
  PROVE  IInv'
<1>1. Units(pos, k) \in Seq(Nat) /\ Len(Units(pos, k)) = k
      /\ Laid(Start, Units(pos, k), Len(wire) + Len(hold))
  <2> DEFINE m == Len(wire) + Len(hold)
  <2>0. /\ Len(wire) \in Nat /\ Len(hold) \in Nat /\ Len(wire) + Len(hold) > 0 /\ n \in Nat
        /\ pos = Start + (Len(wire) + Len(hold)) - 1 /\ Start \in Nat
    BY BeforeReading
  <2>1. m \in Nat \ {0} /\ pos = Start + m - 1 /\ k \in Nat /\ Start \in Nat
    BY <2>0
  <2> HIDE DEF m
  <2>2. Units(Start + m - 1, k) \in Seq(Nat) /\ Len(Units(Start + m - 1, k)) = k
        /\ Laid(Start, Units(Start + m - 1, k), m)
    BY <2>1, UnitsAre
  <2> QED  BY <2>1, <2>2 DEF m
<1> DEFINE u == Units(pos, k)
<1> HIDE DEF u
<1>2. hold' \in Seq(Nat) /\ Len(hold') = Len(hold) + k /\ Laid(Start, hold', Len(wire))
  <2>1. /\ hold \in Seq(Nat) /\ Len(wire) \in Nat /\ Start \in Nat /\ Laid(Start, hold, Len(wire))
    BY BeforeReading
  <2>2. u \in Seq(Nat) /\ Len(u) = k /\ Laid(Start, u, Len(wire) + Len(hold))
    BY <1>1 DEF u
  <2>3. hold \o u \in Seq(Nat) /\ Len(hold \o u) = Len(hold) + Len(u) /\ Laid(Start, hold \o u, Len(wire))
    BY <2>1, <2>2, Joined
  <2> QED  BY <2>2, <2>3 DEF u
<1>3. Start' = Start /\ Amount' = Amount /\ FileAnswer' = FileAnswer
      /\ (ans' = 206 => Accepted(req.range, st)')
  BY Fixed DEF IInv, Phase, SameAnswer
<1>4. UNCHANGED <<req, build, file, edits, taken, left, st, ans>>
  BY DEF Others, SameAnswer, client
<1>5. n' \in Nat
  <2>1. n \in Nat
    BY BeforeReading
  <2> QED  BY <2>1
<1>6. TypeOK'
  BY <1>2, <1>4, <1>5 DEF IInv, TypeOK
<1>7. Phase'
  BY <1>3, <1>4 DEF IInv, Phase
<1>8. Placed'
  <2>1. Laid(Start', wire', 0) /\ Laid(Start', hold', Len(wire'))
    BY <1>2, <1>3, BeforeReading
  <2>2. /\ Len(wire') + Len(hold') + n' = 1 + Amount
        /\ Len(wire') + Len(hold') > 0
        /\ n' > 0 => pos' = Start + Amount - n'
    <3> DEFINE w == Len(wire)
               h == Len(hold)
               a == Amount
               b == Start
    <3>1. /\ h \in Nat /\ w \in Nat /\ n \in Nat /\ k \in Nat /\ b \in Nat /\ a \in Nat
          /\ w + h > 0 /\ w + h + n = 1 + a /\ pos = b + (w + h) - 1
      BY BeforeReading
    <3>2. Len(hold') = h + k /\ Len(wire') = w /\ n' = n - k /\ (n' > 0 => pos' = pos + k)
      BY <1>2
    <3> HIDE DEF w, h, a, b
    <3>3. w + (h + k) + (n - k) = 1 + a /\ w + (h + k) > 0
      BY <3>1
    <3>4. n' > 0 => pos' = b + a - n'
      BY <3>1, <3>2
    <3>5. Len(wire') + Len(hold') + n' = 1 + a /\ Len(wire') + Len(hold') > 0
      BY <3>2, <3>3
    <3> QED  BY <3>4, <3>5 DEF a, b
  <2> QED  BY <1>3, <2>1, <2>2 DEF Placed
<1> QED  BY <1>6, <1>7, <1>8 DEF IInv

LEMMA SpliceOK == IInv /\ Others /\ Splice => IInv'
<1> SUFFICES ASSUME IInv, Others, Splice PROVE IInv'  OBVIOUS
<1>1. PICK k \in 1..Least(n, Least(HoldSize, file.size - pos)) :
        hold' = Units(pos, k) /\ pos' = pos + k /\ n' = n - k
  BY DEF Splice
<1>2. pc = "fill" /\ pc' = "flush" /\ SameAnswer /\ wire' = wire /\ hold = <<>>
  BY DEF Splice, SameAnswer, IInv, Phase
<1>3. n \in Nat /\ pos \in Nat /\ file.size \in Nat /\ HoldSize \in Nat
  BY <1>2, BeforeReading
<1>4. k \in 1..n
  BY <1>1, <1>3 DEF Least
<1>5. pos' \in Nat
  BY <1>1, <1>3, <1>4
<1>6. Units(pos, k) \in Seq(Nat)
  <2>1. Units(pos, k) = [i \in 1..k |-> pos + i] /\ k \in Nat
    BY <1>4 DEF Units
  <2> QED  BY <1>3, <2>1
<1>7. hold' = hold \o Units(pos, k)
  BY <1>1, <1>2, <1>6
<1> QED  BY <1>1, <1>2, <1>4, <1>5, <1>7, Reads

LEMMA ReadvOK == IInv /\ Others /\ Readv => IInv'
<1> SUFFICES ASSUME IInv, Others, Readv PROVE IInv'  OBVIOUS
<1> DEFINE r == Least(HoldSize - Len(hold), file.size - pos)
           k == Least(r, n)
<1>1. pc = "fill" /\ pc' = "flush" /\ SameAnswer /\ wire' = wire
      /\ hold' = hold \o Units(pos, k) /\ pos' = pos + r /\ n' = n - k
  BY DEF Readv, SameAnswer
<1>2. Len(hold) <= 1 /\ ~(file.size <= pos)
  BY DEF IInv, Phase, Readv, AtEnd
<1>3. n \in Nat /\ n > 0 /\ pos \in Nat /\ file.size \in Nat /\ HoldSize \in Nat /\ HoldSize > 1
      /\ Len(hold) \in Nat
  BY <1>1, BeforeReading
<1>4. r \in Nat /\ r > 0
  <2> DEFINE a == HoldSize - Len(hold)
             b == file.size - pos
  <2>1. a \in Nat /\ b \in Nat /\ a > 0 /\ b > 0
    BY <1>2, <1>3
  <2> HIDE DEF a, b
  <2>2. Least(a, b) \in Nat /\ Least(a, b) > 0
    BY <2>1, LeastIs
  <2> QED  BY <2>2 DEF a, b
<1>5. k \in 1..n /\ (n - k > 0 => r = k)
  BY <1>3, <1>4 DEF Least
<1> HIDE DEF r, k
<1>6. pos' \in Nat /\ (n - k > 0 => pos' = pos + k)
  BY <1>1, <1>3, <1>4, <1>5
<1> QED  BY <1>1, <1>5, <1>6, Reads

LEMMA SendfileOK == IInv /\ Others /\ Sendfile => IInv'
<1> SUFFICES ASSUME IInv, Others, Sendfile PROVE IInv'  OBVIOUS
<1>1. PICK k \in 1..Least(n, Least(Room, file.size - pos)) :
        /\ wire' = wire \o Units(pos, k) /\ pos' = pos + k /\ n' = n - k
        /\ pc' = IF n = k THEN "returned" ELSE "send"
  BY DEF Sendfile, Write
<1>2. pc = "send" /\ SameAnswer /\ hold = <<>> /\ hold' = <<>> /\ Len(hold) = 0
  BY DEF Sendfile, SameAnswer, IInv, Phase
<1>3. /\ n \in Nat /\ n > 0 /\ pos \in Nat /\ file.size \in Nat
      /\ Len(wire) \in Nat /\ Len(wire) > 0 /\ Start \in Nat /\ Amount \in Nat /\ wire \in Seq(Nat)
      /\ Laid(Start, wire, 0) /\ pos = Start + Len(wire) - 1 /\ FileAnswer
      /\ Len(wire) + n = 1 + Amount
  BY <1>2, BeforeReading
<1>4. k \in 1..n
  <2> DEFINE r == Room
             f == file.size - pos
  <2>1. taken \in Nat /\ SocketSize \in Nat
    BY <1>2, BeforeReading, SendFileAssumption
  <2>2. r \in Int /\ f \in Int
    BY <1>3, <2>1 DEF Room
  <2>3. k \in 1..Least(n, Least(r, f))
    BY <1>1
  <2> HIDE DEF r, f
  <2>4. Least(n, Least(r, f)) \in Int /\ Least(n, Least(r, f)) <= n
    BY <1>3, <2>2 DEF Least
  <2> QED  BY <1>3, <2>3, <2>4
<1>5. Units(pos, k) \in Seq(Nat) /\ Len(Units(pos, k)) = k /\ Laid(Start, Units(pos, k), Len(wire))
  <2> DEFINE m == Len(wire)
  <2>1. m \in Nat \ {0} /\ pos = Start + m - 1 /\ k \in Nat
    BY <1>3, <1>4
  <2> HIDE DEF m
  <2>3. Start \in Nat
    BY <1>3
  <2>2. Units(Start + m - 1, k) \in Seq(Nat) /\ Len(Units(Start + m - 1, k)) = k
        /\ Laid(Start, Units(Start + m - 1, k), m)
    BY <2>3, <2>1, UnitsAre
  <2> QED  BY <2>1, <2>2 DEF m
<1>6. wire' \in Seq(Nat) /\ Len(wire') = Len(wire) + k /\ Laid(Start, wire', 0)
  <2> DEFINE u == Units(pos, k)
  <2>1. 0 + Len(wire) = Len(wire)
    BY <1>3
  <2>2. u \in Seq(Nat) /\ Len(u) = k /\ Laid(Start, u, 0 + Len(wire))
    BY <1>5, <2>1
  <2>3. wire' = wire \o u
    BY <1>1
  <2> HIDE DEF u
  <2>4. wire \o u \in Seq(Nat) /\ Len(wire \o u) = Len(wire) + Len(u) /\ Laid(Start, wire \o u, 0)
    BY <1>3, <2>2, Joined
  <2> QED  BY <2>2, <2>3, <2>4
<1>7. Start' = Start /\ Amount' = Amount /\ FileAnswer' = FileAnswer
      /\ (ans' = 206 => Accepted(req.range, st)')
  BY <1>2, Fixed DEF IInv, Phase, SameAnswer
<1>8. UNCHANGED <<req, build, file, edits, taken, left, st, ans>>
  BY <1>2 DEF Others, SameAnswer, client
<1>9. n' \in Nat /\ pos' \in Nat /\ pc' \in {"returned", "send"}
      /\ (pc' = "returned" => n' = 0) /\ (pc' = "send" => n' > 0)
  BY <1>1, <1>3, <1>4
<1>10. TypeOK'
  BY <1>2, <1>6, <1>8, <1>9 DEF IInv, TypeOK
<1>11. Phase'
  BY <1>2, <1>3, <1>7, <1>8, <1>9 DEF IInv, Phase
<1>12. Placed'
  <2>1. Laid(Start', wire', 0) /\ Laid(Start', hold', Len(wire'))
    BY <1>2, <1>6, <1>7 DEF Laid
  <2>2. /\ Len(wire') + Len(hold') + n' = 1 + Amount
        /\ Len(wire') + Len(hold') > 0
        /\ n' > 0 => pos' = Start + Amount - n'
    <3>1. Len(hold') = 0 /\ Len(wire') = Len(wire) + k /\ n' = n - k /\ pos' = pos + k /\ k \in Nat
      BY <1>1, <1>2, <1>3, <1>4, <1>6
    <3>2. /\ Len(wire) \in Nat /\ Start \in Nat /\ Amount \in Nat /\ n \in Nat /\ pos \in Nat
          /\ Len(wire) + n = 1 + Amount /\ pos = Start + Len(wire) - 1 /\ Len(wire) > 0
      BY <1>3
    <3> QED  BY <3>1, <3>2
  <2> QED  BY <1>7, <2>1, <2>2 DEF Placed
<1> QED  BY <1>10, <1>11, <1>12 DEF IInv

LEMMA OthersOK ==
  ASSUME IInv, UNCHANGED <<req, build>>,
         \/ (Takes \/ Leaves) /\ UNCHANGED <<file, edits, server>>
         \/ Edit /\ UNCHANGED <<server, client>>
         \/ UNCHANGED vars
  PROVE  IInv'
<1>1. UNCHANGED <<req, build, pc, st, ans, pos, n, hold, wire>>
  BY DEF vars, server, sending
<1>2. \/ UNCHANGED <<file, edits>>
      \/ edits' = edits + 1 /\ edits < MaxEdits /\ file' \in Files
  BY DEF Edit, vars
<1>3. edits' \in 0..MaxEdits /\ file' \in File /\ (edits' = 0 => edits = 0 /\ file' = file)
  <2>1. edits \in 0..MaxEdits /\ file \in File /\ MaxEdits \in Nat /\ Files \subseteq File
    BY SendFileAssumption DEF IInv, TypeOK
  <2> QED  BY <1>2, <2>1
<1>4. taken' \in Nat /\ left' \in BOOLEAN
  <2>1. taken \in Nat /\ left \in BOOLEAN
    BY DEF IInv, TypeOK
  <2>2. \/ taken' = taken + 1 /\ left' = left
        \/ taken' = taken /\ left' \in {left, TRUE}
    BY DEF Takes, Leaves, vars, client
  <2>3. CASE taken' = taken + 1 /\ left' = left
    BY <2>1, <2>3
  <2>4. CASE taken' = taken /\ left' \in {left, TRUE}
    BY <2>1, <2>4
  <2> QED  BY <2>2, <2>3, <2>4
<1>5. TypeOK'
  BY <1>1, <1>3, <1>4 DEF IInv, TypeOK
<1>6. Phase'
  BY <1>1, <1>3 DEF IInv, Phase, FileAnswer, Accepted
<1>7. Placed'
  BY <1>1 DEF IInv, Placed, Amount, FileAnswer, Start, Length, Laid
<1> QED  BY <1>5, <1>6, <1>7 DEF IInv

LEMMA Initial == Init => IInv
<1> SUFFICES ASSUME Init PROVE IInv  OBVIOUS
<1>1. TypeOK
  <2>1. req \in Request /\ build \in {"sendfile", "splice", "readv"} /\ file \in File /\ edits \in 0..MaxEdits
    BY SendFileAssumption DEF Init
  <2>2. hold \in Seq(Nat) /\ wire \in Seq(Nat)
    BY DEF Init
  <2>3. left \in BOOLEAN
    BY DEF Init
  <2> QED  BY <2>1, <2>2, <2>3 DEF Init, TypeOK
<1> QED  BY <1>1 DEF Init, IInv, Phase, Placed

\* Every step of the server, of its client and of those who change the file keeps
\* the inductive invariant.
THEOREM Step == IInv /\ [Next]_vars => IInv'
<1> SUFFICES ASSUME IInv, [Next]_vars PROVE IInv'  OBVIOUS
<1>1. CASE UNCHANGED <<req, build>> /\ Runs /\ UNCHANGED <<file, edits, client>>
  <2>1. Others
    BY <1>1 DEF Others
  <2> QED  BY <1>1, <2>1, RespondOK, FlushOK, GoingOn, SpliceOK, ReadvOK, SendfileOK
           DEF Runs, SendFileRange
<1>2. CASE /\ UNCHANGED <<req, build>>
           /\ \/ (Takes \/ Leaves) /\ UNCHANGED <<file, edits, server>>
              \/ Edit /\ UNCHANGED <<server, client>>
  BY <1>2, OthersOK
<1>3. CASE UNCHANGED vars
  <2>1. UNCHANGED <<req, build>>
    BY <1>3 DEF vars
  <2> QED  BY <1>3, <2>1, OthersOK
<1> QED  BY <1>1, <1>2, <1>3 DEF Next

\* The inductive invariant holds of every request.
THEOREM Inductive == Spec => []IInv
  BY Initial, Step, PTL DEF Spec

-----------------------------------------------------------------------------
\* The variables keep their types.
THEOREM TypeCorrect == Spec => []TypeOK
<1>1. IInv => TypeOK  BY DEF IInv
<1> QED  BY <1>1, Inductive, PTL

\* For any file, and any changes of it, the client is given the headers and then
\* units of the file that were promised, in order and without a hole.
THEOREM BodyInPlace == Spec => []InPlace
<1>1. ASSUME IInv PROVE InPlace
  <2>1. /\ Len(wire) \in Nat /\ Len(hold) \in Nat /\ n \in Nat /\ Start \in Nat /\ Amount \in Nat
        /\ wire \in Seq(Nat)
    BY <1>1, BodyInside DEF IInv, TypeOK
  <2>2. CASE pc \in {"stat", "open"}
    <3>1. Len(wire) = 0
      BY <1>1, <2>2 DEF IInv, Phase
    <3> QED  BY <3>1 DEF InPlace
  <2>3. CASE pc \notin {"stat", "open"}
    <3>1. Laid(Start, wire, 0) /\ Len(wire) <= 1 + Amount
      BY <1>1, <2>1, <2>3 DEF IInv, Placed
    <3>2. \A i \in 1..Len(wire) : wire[i] = UnitAt(Start, i)
      BY <2>1, <3>1 DEF Laid
    <3>3. ASSUME NEW i \in 1..Len(wire)
          PROVE  /\ i = 1 => wire[i] = 0
                 /\ i > 1 => wire[i] = Start + i - 1
                 /\ i > 2 => wire[i - 1] = Start + i - 2
      BY <2>1, <3>2 DEF UnitAt
    <3>4. ASSUME NEW i \in 1..Len(wire), i > 1
          PROVE  wire[i] \in Promised
      <4>1. wire[i] \in Nat /\ wire[i] > Start /\ wire[i] <= Start + Amount
        BY <2>1, <3>1, <3>3, <3>4
      <4> QED  BY <1>1, <4>1, PromisedIs DEF IInv
    <3>5. ASSUME NEW i \in 1..Len(wire), i > 2
          PROVE  wire[i] = wire[i - 1] + 1
      BY <2>1, <3>3, <3>5
    <3> QED  BY <3>3, <3>4, <3>5 DEF InPlace
  <2> QED  BY <2>2, <2>3
<1> QED  BY <1>1, Inductive, PTL

\* When the connection is kept after a file, or a part of one, all of what the
\* headers promised was written: the next answer starts where the client expects
\* it.
THEOREM WholeWhenKept == Spec => []WholeIfKept
<1>1. ASSUME IInv PROVE WholeIfKept
  <2> SUFFICES ASSUME pc = "returned", NEW p \in Promised
               PROVE  \E i \in 2..Len(wire) : wire[i] = p
    BY DEF WholeIfKept
  <2>1. /\ Len(wire) \in Nat /\ Start \in Nat /\ Amount \in Nat /\ wire \in Seq(Nat)
        /\ n = 0 /\ Len(hold) = 0
    BY <1>1, BodyInside DEF IInv, TypeOK, Phase
  <2>2. Laid(Start, wire, 0) /\ Len(wire) = 1 + Amount
    BY <1>1, <2>1 DEF IInv, Placed
  <2>3. p \in Nat
    BY <1>1 DEF Promised, IInv, TypeOK
  <2>4. p > Start /\ p <= Start + Amount
    BY <1>1, <2>3, PromisedIs DEF IInv
  <2>5. p - Start + 1 \in 2..Len(wire)
    BY <2>1, <2>2, <2>3, <2>4
  <2>6. wire[p - Start + 1] = p
    BY <2>1, <2>2, <2>3, <2>4, <2>5 DEF Laid, UnitAt
  <2> QED  BY <2>5, <2>6
<1> QED  BY <1>1, Inductive, PTL

\* The process does not end in the middle of a file that nobody changed while its
\* client waits for it: what a range announces is always in the file.
THEOREM EndsWithCause == Spec => EndsForCause
<1> DEFINE Cause == ans = 500 \/ left \/ (req.finite /\ Full) \/ edits > 0
<1>1. ASSUME IInv, [Next]_vars
      PROVE  [pc' = "died" /\ pc # "died" => Cause]_vars
  <2> SUFFICES ASSUME Runs, pc' = "died", pc # "died"
               PROVE  Cause
    <3>1. Takes \/ Leaves \/ Edit \/ UNCHANGED vars => (UNCHANGED server => pc' = pc)
      BY DEF server
    <3> QED  BY <1>1, <3>1 DEF Next, server, vars
  <2>1. CASE Truncated
    <3> SUFFICES ASSUME edits = 0 PROVE FALSE
      BY <1>1, SendFileAssumption DEF IInv, TypeOK
    <3>1. pc = "fill" /\ file.size <= pos
      BY <2>1 DEF Truncated, AtEnd
    <3>2. st = file.size /\ FileAnswer /\ n > 0 /\ n \in Nat /\ pos = Start + Amount - n
      BY <1>1, <3>1, BeforeReading DEF IInv, Phase, Placed
    <3>3. Start + Amount <= st /\ Start \in Nat /\ Amount \in Nat /\ st \in Nat
      BY <1>1, <3>2, BodyInside DEF IInv, TypeOK
    <3> QED  BY <3>1, <3>2, <3>3
  <2>2. CASE Flushed
    <3>1. n \in Nat /\ (ans = 500 \/ pc' \in {"returned", "wait", "fill"})
      BY <1>1, <2>2 DEF Flushed, IInv, TypeOK
    <3> QED  BY <3>1
  <2>3. CASE Expires \/ ClientGone \/ SendfileFails
    BY <2>3 DEF Expires, ClientGone, SendfileFails
  <2>4. CASE Respond \/ Flush \/ Splice \/ Readv \/ Writable \/ Sendfile
    BY <2>4 DEF Respond, Serve, OpenFails, OpenFile, Short, Long, Flush, Splice, Readv, Writable, Sendfile
  <2> QED  BY <2>1, <2>2, <2>3, <2>4 DEF Runs, SendFileRange
<1>2. Spec => [][Next]_vars /\ []IInv
  BY Inductive, PTL DEF Spec
<1> QED  BY <1>1, <1>2, PTL DEF EndsForCause
===============================================================================
