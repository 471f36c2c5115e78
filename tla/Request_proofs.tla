---------------------------- MODULE Request_proofs ----------------------------
(***************************************************************************)
(* Proofs about Request and Readings: whatever is sent, the buffers keep   *)
(* what is in them, the headers end with the first empty line, the URI and *)
(* the headers are what was sent, a header is found by its key, and a body *)
(* is what the headers say.                                                *)
(***************************************************************************)
EXTENDS Readings, SequenceTheorems, WellFoundedInduction, TLAPS

(***************************************************************************)
(* The inductive invariant.  How far the URI is written behind its         *)
(* reading: in a host, the scheme before it leaves room for the NUL that   *)
(* ends it.                                                                *)
(***************************************************************************)
Room(state) == IF state \in {"HOST", "HQ", "HQ1", "H1", "PORT", "PORT1"} THEN 1 ELSE 0

UriInv ==
  /\ UriType
  /\ stage = "uri" => uri.w + Room(uri.state) < uri.at /\ uri.mark <= uri.w

\* The headers of a list are in the first len characters, one behind the other.
ListFits(list, len) ==
  /\ \A i \in DOMAIN list : list[i].left + 2 <= list[i].right /\ list[i].right < len
  /\ \A i, j \in DOMAIN list : i < j => list[i].right < list[j].left

EmptyStates == {"V1", "V1?", "V1??"}
BlankStates == {"V2", "V2?", "V2??"}
Idle == {"START", "END?", "END"}

\* The header that is being read, behind those of the list.
Pending(h) ==
  /\ h.state \notin Idle => h.left <= Len(h.buf) /\ ListFits(h.list, h.left)
  /\ h.state \in Idle => ListFits(h.list, Len(h.buf))
  /\ h.state = "K" => h.left < Len(h.buf)
  /\ h.state \in EmptyStates => h.left + 2 <= h.right /\ h.right <= Len(h.buf)
  /\ h.state = "V" => h.left + 2 <= h.right /\ h.right < Len(h.buf)
  /\ h.state \in BlankStates => h.left + 2 <= h.right /\ h.right + 1 < Len(h.buf)

Entry == [left : Nat, right : Nat]
Record ==
  [state : HeaderStates, buf : Seq(Alphabet), list : Seq(Entry), map : SUBSET Nat,
   left : Nat, right : Nat]

Shape(h) ==
  /\ h \in Record
  /\ \A d \in h.map : d < Len(h.list)
  /\ Len(h.buf) <= HdrMax /\ Len(h.list) <= HeadersMax

HdrInv == Shape(hdr) /\ Pending(hdr)

\* What the last characters of the headers were.
At(i) == sent.bytes[i]
LineEnds == {"LF", "CR"}
Behind_(state, n) ==
  /\ state \in {"START", "V1?", "V2?"} => At(n) = "LF"
  /\ state = "END?" => At(n) = "CR" /\ At(n - 1) = "LF" /\ n > 1
  /\ state \in {"K", "V1", "V", "V2"} => At(n) \notin LineEnds
  /\ state \in {"V1??", "V2??"} => At(n) = "CR" /\ At(n - 1) # "LF"

HeadInv ==
  /\ stage \in {"uri", "headers"} => rd \in 1..Len(sent.bytes) /\ LineEnd(0) <= rd
  /\ stage = "uri" => rd = LineEnd(0) /\ hdr = EmptyHeaders /\ At(rd) = "LF"
  /\ stage = "line" => hdr = EmptyHeaders
  /\ stage = "headers" => hdr.state # "END" /\ Behind_(hdr.state, rd)
  /\ HeadIsOver

Inv ==
  /\ sent \in Requests /\ sent.bytes \in Seq(Alphabet)
  /\ rd \in 0..Len(sent.bytes) /\ stage \in Stages /\ code \in Codes
  /\ "length" \in DOMAIN rql /\ rql.length \in Nat
  /\ UriInv /\ HdrInv /\ HeadInv

-----------------------------------------------------------------------------
(* The URI. *)

Writes(row) == {"print", "byte"} \cap row.do # {}

\* What a row does to the room between reading and writing.
LEMMA UriKinds ==
  ASSUME NEW row \in UriRows
  PROVE  /\ row.from \in UriStates /\ row.to \in UriStates
         /\ row = [from |-> row.from, on |-> row.on, do |-> row.do, to |-> row.to]
         /\ "port" \in row.do => "zero" \in row.do
         /\ "zero" \in row.do /\ Writes(row) /\ "port" \notin row.do =>
              Room(row.from) = 1 /\ Room(row.to) = 0
         /\ "zero" \in row.do \/ Writes(row) => Room(row.to) <= Room(row.from)
         /\ Room(row.to) \in {0, 1} /\ Room(row.from) \in {0, 1}
<1>1. row \in SchemeRows \/ row \in HostRows \/ row \in PathRows
  BY DEF UriRows
<1>2. row.from \in UriStates
  BY DEF UriStates
<1>3. CASE row \in SchemeRows
  BY <1>2, <1>3, SMTT(30) DEF SchemeRows, Row, Room, Writes, UriStates, UriRows, HostRows, PathRows
<1>4. CASE row \in HostRows
  BY <1>2, <1>4 DEF SchemeRows, Row, Room, Writes, UriStates, UriRows, HostRows, PathRows
<1>5. CASE row \in PathRows
  BY <1>2, <1>5 DEF SchemeRows, Row, Room, Writes, UriStates, UriRows, HostRows, PathRows
<1> QED BY <1>1, <1>3, <1>4, <1>5

\* A character of the URI: what is written stays behind what is read.
LEMMA ParseUriKeeps ==
  ASSUME UriInv, ParseUri
  PROVE  UriInv'
<1>1. CASE Ends(400) /\ UNCHANGED uri
  BY <1>1 DEF UriInv, UriType, Ends
<1>2. ASSUME NEW row \in UriRows, row.from = uri.state,
             uri' = UriStep(line, uri, row, line[uri.at]), UNCHANGED stage
      PROVE  UriInv'
  <2>1. stage = "uri"
    BY DEF ParseUri
  <2>2. /\ uri.w \in Nat /\ uri.at \in Nat /\ uri.mark \in Nat /\ uri.mark <= uri.w
        /\ uri.w + Room(row.from) < uri.at
        /\ uri.host \in Nat \cup {None} /\ uri.path \in Nat \cup {None} /\ uri.query \in Nat \cup {None}
    BY <1>2, <2>1 DEF UriInv, UriType
  <2> DEFINE w == Behind(uri, row)
             v == IF Writes(row) THEN w + 1 ELSE w
  <2>3. /\ w \in Nat
        /\ "port" \in row.do => w = uri.mark
        /\ "port" \notin row.do /\ "zero" \in row.do => w = uri.w + 1
        /\ "port" \notin row.do /\ "zero" \notin row.do => w = uri.w
    BY <2>2 DEF Behind
  <2>4. /\ uri'.state = row.to /\ uri'.at = uri.at + 1 /\ uri'.w = v
        /\ uri'.mark = IF "mark" \in row.do THEN w ELSE uri.mark
        /\ uri'.host = IF "host" \in row.do THEN w ELSE uri.host
        /\ uri'.path = IF "path" \in row.do THEN w ELSE uri.path
        /\ uri'.query = IF "query" \in row.do THEN w ELSE uri.query
    BY <1>2 DEF UriStep, Writes
  <2> HIDE DEF w
  <2>5. UriType'
    BY <2>2, <2>3, <2>4, UriKinds DEF UriType
  <2>6. uri'.mark <= uri'.w
    BY <2>2, <2>3, <2>4
  <2>7. uri'.w + Room(uri'.state) < uri'.at
    BY <2>2, <2>3, <2>4, UriKinds
  <2> QED BY <2>5, <2>6, <2>7 DEF UriInv
<1> QED BY <1>1, <1>2 DEF ParseUri, Taken

-----------------------------------------------------------------------------
(* The headers. *)

\* What the rows do, by the state that they come from.
LEMMA RowKinds ==
  ASSUME NEW row \in HeaderRows
  PROVE  /\ row.from \in HeaderStates /\ row.from # "END" /\ row.to \in HeaderStates
         /\ \/ row.do = {} /\ row.from \in Idle /\ row.to \in Idle
            \/ row.do = {} /\ row.from \in EmptyStates /\ row.to \in EmptyStates
            \/ row.do = {} /\ row.from \in BlankStates /\ row.to \in BlankStates
            \/ row.do = {"print"} /\ row.from = "K" /\ row.to = "K"
            \/ row.do = {"print"} /\ row.from \in {"V1", "V", "V2"} /\ row.to = "V"
            \/ row.do = {"key", "print"} /\ row.from = "START" /\ row.to = "K"
            \/ row.do = {"zero", "value"} /\ row.from = "K" /\ row.to = "V1"
            \/ row.do = {"space"} /\ row.from = "V" /\ row.to \in BlankStates
            \/ row.do = {"zero", "cut"} /\ row.from = "V1?" /\ row.to \in Idle
            \/ row.do = {"zero", "cut", "key", "print"} /\ row.from = "V1?" /\ row.to = "K"
            \/ row.do = {"back", "zero", "cut"} /\ row.from = "V2?" /\ row.to \in Idle
            \/ row.do = {"back", "zero", "cut", "key", "print"} /\ row.from = "V2?" /\ row.to = "K"
<1>1. row \in KeyRows \/ row \in EmptyValueRows \/ row \in ValueRows
  BY DEF HeaderRows
<1>2. row.from \in HeaderStates
  BY DEF HeaderStates
<1>3. CASE row \in KeyRows
  BY <1>2, <1>3 DEF KeyRows, EmptyValueRows, ValueRows, HeaderRow, HeaderRows, HeaderStates,
       Idle, EmptyStates, BlankStates
<1>4. CASE row \in EmptyValueRows
  BY <1>2, <1>4 DEF KeyRows, EmptyValueRows, ValueRows, HeaderRow, HeaderRows, HeaderStates,
       Idle, EmptyStates, BlankStates
<1>5. CASE row \in ValueRows
  BY <1>2, <1>5 DEF KeyRows, EmptyValueRows, ValueRows, HeaderRow, HeaderRows, HeaderStates,
       Idle, EmptyStates, BlankStates
<1> QED BY <1>1, <1>3, <1>4, <1>5

\* Which characters the rows are for, and when one comes behind a line end.
LEMMA RowClasses ==
  ASSUME NEW row \in HeaderRows, NEW c, HeaderClass(c) \in row.on
  PROVE  /\ c = "LF" => \/ row.from \in {"START", "END?", "V1?", "V2?"} /\ row.to = "END"
                        \/ row.from \in {"V1", "V1??"} /\ row.to = "V1?"
                        \/ row.from \in {"V", "V2", "V2??"} /\ row.to = "V2?"
         /\ c = "CR" => \/ row.from \in {"START", "V1?", "V2?"} /\ row.to = "END?"
                        \/ row.from = "V1" /\ row.to = "V1??"
                        \/ row.from \in {"V", "V2"} /\ row.to = "V2??"
         /\ c \notin LineEnds => row.to \in {"K", "V1", "V", "V2"}
         /\ c # "NUL"
<1>1. HeaderClass(c) \in {"CR", "LF", ":", "8bit", "LWS", "CTL", "special", "normal"}
  BY DEF HeaderClass
<1>2. /\ (c = "LF" <=> HeaderClass(c) = "LF") /\ (c = "CR" <=> HeaderClass(c) = "CR")
      /\ c = "NUL" => HeaderClass(c) = "CTL"
  BY DEF HeaderClass
<1>3. CASE row \in KeyRows
  BY <1>1, <1>2, <1>3 DEF KeyRows, HeaderRow, LineEnds
<1>4. CASE row \in EmptyValueRows
  BY <1>1, <1>2, <1>4 DEF EmptyValueRows, HeaderRow, LineEnds, InValue
<1>5. CASE row \in ValueRows
  BY <1>1, <1>2, <1>5 DEF ValueRows, HeaderRow, LineEnds, InValue
<1> QED BY <1>3, <1>4, <1>5 DEF HeaderRows

\* A list that is grown by the header behind it.
LEMMA ListGrows ==
  ASSUME NEW list \in Seq(Entry), NEW entry \in Entry, NEW len \in Nat,
         ListFits(list, entry.left), entry.left + 2 <= entry.right, entry.right < len
  PROVE  /\ Append(list, entry) \in Seq(Entry) /\ Len(Append(list, entry)) = Len(list) + 1
         /\ ListFits(Append(list, entry), len)
<1> DEFINE new == Append(list, entry)
<1>1. /\ new \in Seq(Entry) /\ Len(new) = Len(list) + 1
      /\ \A i \in 1..Len(list) : new[i] = list[i]
      /\ new[Len(list) + 1] = entry
  BY AppendProperties
<1>2. Len(list) \in Nat /\ DOMAIN list = 1..Len(list) /\ DOMAIN new = 1..Len(new)
  BY <1>1, LenProperties
<1> HIDE DEF new
<1>3. ASSUME NEW i \in DOMAIN new
      PROVE  new[i].left + 2 <= new[i].right /\ new[i].right < len
  <2>1. CASE i = Len(list) + 1
    BY <1>1, <2>1
  <2>2. CASE i \in 1..Len(list)
    <3>1. list[i].left + 2 <= list[i].right /\ list[i].right < entry.left /\ list[i] \in Entry
      BY <1>2, <2>2, ElementOfSeq DEF ListFits
    <3>2. new[i] = list[i]
      BY <1>1, <2>2
    <3> QED BY <3>1, <3>2 DEF Entry
  <2> QED BY <1>1, <1>2, <2>1, <2>2
<1>4. ASSUME NEW i \in DOMAIN new, NEW j \in DOMAIN new, i < j
      PROVE  new[i].right < new[j].left
  <2>1. i \in 1..Len(list) /\ new[i] = list[i]
    BY <1>1, <1>2, <1>4
  <2>2. CASE j = Len(list) + 1
    BY <1>1, <1>2, <2>1, <2>2 DEF ListFits
  <2>3. CASE j \in 1..Len(list)
    <3>1. new[j] = list[j]
      BY <1>1, <2>3
    <3> QED BY <1>2, <1>4, <2>1, <2>3, <3>1 DEF ListFits
  <2> QED BY <1>1, <1>2, <2>2, <2>3
<1> QED BY <1>1, <1>3, <1>4 DEF ListFits, new

\* A list whose headers are moved, when the value of one grows by what is behind the list.
LEMMA ListMoves ==
  ASSUME NEW list \in Seq(Entry), NEW prev \in Nat, prev < Len(list), NEW left \in Nat,
         NEW offset \in Nat \ {0}, ListFits(list, left)
  PROVE  /\ Moved(list, prev, offset) \in Seq(Entry)
         /\ Len(Moved(list, prev, offset)) = Len(list)
         /\ ListFits(Moved(list, prev, offset), left + offset)
<1> DEFINE new == Moved(list, prev, offset)
<1>0. Len(list) \in Nat
  BY LenProperties
<1>1. Len(list) \in Nat /\ DOMAIN list = 1..Len(list) /\ \A i \in 1..Len(list) : list[i] \in Entry
  BY LenProperties, ElementOfSeq
<1>2. ASSUME NEW i \in 1..Len(list)
      PROVE  /\ new[i] \in Entry
             /\ new[i].left = IF i > prev + 1 THEN list[i].left + offset ELSE list[i].left
             /\ new[i].right = IF i > prev + 1 THEN list[i].right + offset ELSE list[i].right
  <2>1. list[i] \in Entry /\ list[i].left \in Nat /\ list[i].right \in Nat
    BY <1>1 DEF Entry
  <2>2. CASE i > prev + 1
    <3>1. new[i] = [left |-> list[i].left + offset, right |-> list[i].right + offset]
      BY <1>1, <2>2 DEF Moved
    <3> HIDE DEF new
    <3> QED BY <2>1, <2>2, <3>1 DEF Entry
  <2>3. CASE ~(i > prev + 1)
    <3>1. new[i] = list[i]
      BY <1>1, <2>3 DEF Moved
    <3> HIDE DEF new
    <3> QED BY <2>1, <2>3, <3>1
  <2> QED BY <2>2, <2>3
<1>4. new = [i \in 1..Len(list) |-> new[i]]
  BY <1>1 DEF Moved
<1> HIDE DEF new
<1>5. new \in [1..Len(list) -> Entry]
  BY <1>2, <1>4
<1>6. new \in Seq(Entry) /\ Len(new) = Len(list) /\ DOMAIN new = 1..Len(list)
  BY <1>1, <1>5, SeqDef, LenProperties
<1>7. ASSUME NEW i \in DOMAIN new
      PROVE  i \in 1..Len(list) /\ i \in Nat /\ list[i].left \in Nat /\ list[i].right \in Nat
  <2>1. i \in 1..Len(list)
    BY <1>6
  <2>2. list[i] \in Entry
    BY <1>1, <2>1
  <2> QED BY <1>0, <2>1, <2>2 DEF Entry
<1>8. ASSUME NEW i \in DOMAIN new
      PROVE  new[i].left + 2 <= new[i].right /\ new[i].right < left + offset
  <2>1. list[i].left + 2 <= list[i].right /\ list[i].right < left
    BY <1>1, <1>7 DEF ListFits
  <2>2. /\ new[i].left = IF i > prev + 1 THEN list[i].left + offset ELSE list[i].left
        /\ new[i].right = IF i > prev + 1 THEN list[i].right + offset ELSE list[i].right
    BY <1>2, <1>7
  <2> QED BY <1>7, <2>1, <2>2, SMTT(30)
<1>9. ASSUME NEW i \in DOMAIN new, NEW j \in DOMAIN new, i < j
      PROVE  new[i].right < new[j].left
  <2>1. i \in DOMAIN list /\ j \in DOMAIN list
    BY <1>1, <1>7
  <2>2. list[i].right < list[j].left
    BY <1>9, <2>1 DEF ListFits
  <2>3. /\ new[i].right = IF i > prev + 1 THEN list[i].right + offset ELSE list[i].right
        /\ new[j].left = IF j > prev + 1 THEN list[j].left + offset ELSE list[j].left
    BY <1>2, <1>7
  <2>4. i \in Nat /\ j \in Nat /\ list[i].right \in Nat /\ list[j].left \in Nat
    BY <1>7
  <2> QED BY <1>9, <2>2, <2>3, <2>4, SMTT(30)
<1> QED BY <1>6, <1>8, <1>9 DEF ListFits, new

\* A sequence of two, and one behind another.
LEMMA Two ==
  ASSUME NEW S, NEW a \in S, NEW b \in S
  PROVE  <<a, b>> \in Seq(S) /\ Len(<<a, b>>) = 2
OBVIOUS

LEMMA Cat ==
  ASSUME NEW S, NEW s \in Seq(S), NEW t \in Seq(S)
  PROVE  s \o t \in Seq(S) /\ Len(s \o t) = Len(s) + Len(t)
<1>1. s \o t \in Seq(S)
  BY ConcatProperties, Zenon
<1>2. Len(s \o t) = Len(s) + Len(t)
  BY ConcatProperties, Zenon
<1> QED BY <1>1, <1>2

\* The text when a value is put behind another one: it is shorter by a key.
LEMMA CollatedFits ==
  ASSUME NEW buf \in Seq(Alphabet), NEW entry \in Entry, NEW start \in Nat, start > 0,
         start <= entry.left, entry.left + 2 <= entry.right, entry.right < Len(buf)
  PROVE  /\ Collated(buf, entry, start) \in Seq(Alphabet)
         /\ Len(Collated(buf, entry, start)) = entry.left + (Len(buf) - entry.right + 1)
<1> DEFINE front == SubSeq(buf, 1, start - 1)
           comma == <<",", " ">>
           value == SubSeq(buf, entry.right + 1, Len(buf))
           between == SubSeq(buf, start + 1, entry.left)
<1>1. entry.left \in Nat /\ entry.right \in Nat /\ Len(buf) \in Nat
  BY LenProperties DEF Entry
<1>2. front \in Seq(Alphabet) /\ Len(front) = start - 1
  <2>1. \A i \in 1..(start - 1) : buf[i] \in Alphabet
    BY <1>1, ElementOfSeq
  <2> QED BY <1>1, <2>1, SubSeqProperties
<1>3. value \in Seq(Alphabet) /\ Len(value) = Len(buf) - entry.right
  <2>1. \A i \in (entry.right + 1)..Len(buf) : buf[i] \in Alphabet
    BY <1>1, ElementOfSeq
  <2> QED BY <1>1, <2>1, SubSeqProperties
<1>4. between \in Seq(Alphabet) /\ Len(between) = entry.left - start
  <2>1. \A i \in (start + 1)..entry.left : buf[i] \in Alphabet
    BY <1>1, ElementOfSeq
  <2> QED BY <1>1, <2>1, SubSeqProperties
<1>5. comma \in Seq(Alphabet) /\ Len(comma) = 2
  <2>1. "," \in Alphabet /\ " " \in Alphabet
    BY DEF Alphabet
  <2> QED BY <2>1, Two
<1> HIDE DEF front, comma, value, between
<1>6. front \o comma \in Seq(Alphabet) /\ Len(front \o comma) = start + 1
  <2>1. front \o comma \in Seq(Alphabet) /\ Len(front \o comma) = Len(front) + Len(comma)
    BY <1>2, <1>5, Cat, Zenon
  <2> QED BY <1>2, <1>5, <2>1
<1>7. /\ (front \o comma) \o value \in Seq(Alphabet)
      /\ Len((front \o comma) \o value) = start + 1 + (Len(buf) - entry.right)
  <2>1. /\ (front \o comma) \o value \in Seq(Alphabet)
        /\ Len((front \o comma) \o value) = Len(front \o comma) + Len(value)
    BY <1>3, <1>6, Cat, Zenon
  <2> QED BY <1>3, <1>6, <2>1
<1>8. /\ ((front \o comma) \o value) \o between \in Seq(Alphabet)
      /\ Len(((front \o comma) \o value) \o between)
           = start + 1 + (Len(buf) - entry.right) + (entry.left - start)
  <2>1. /\ ((front \o comma) \o value) \o between \in Seq(Alphabet)
        /\ Len(((front \o comma) \o value) \o between)
             = Len((front \o comma) \o value) + Len(between)
    BY <1>4, <1>7, Cat, Zenon
  <2> QED BY <1>4, <1>7, <2>1
<1>9. Collated(buf, entry, start) = ((front \o comma) \o value) \o between
  BY DEF Collated, front, comma, value, between
<1>10. start + 1 + (Len(buf) - entry.right) + (entry.left - start)
         = entry.left + (Len(buf) - entry.right + 1)
  <2> DEFINE a == entry.left
             b == entry.right
             n == Len(buf)
  <2>1. a \in Nat /\ b \in Nat /\ n \in Nat
    BY <1>1
  <2> HIDE DEF a, b, n
  <2>2. start + 1 + (n - b) + (a - start) = a + (n - b + 1)
    BY <2>1
  <2> QED BY <2>2 DEF a, b, n
<1> QED BY <1>8, <1>9, <1>10

\* A complete header: the list has it or has it merged, and still fits its text.
LEMMA CutKeeps ==
  ASSUME NEW h \in Record, \A d \in h.map : d < Len(h.list),
         Len(h.list) < HeadersMax, HeadersMax \in Nat,
         ListFits(h.list, h.left), h.left + 2 <= h.right, h.right < Len(h.buf)
  PROVE  /\ Cut(h) \in Record /\ \A d \in Cut(h).map : d < Len(Cut(h).list)
         /\ Len(Cut(h).buf) <= Len(h.buf) /\ Len(Cut(h).list) <= HeadersMax
         /\ ListFits(Cut(h).list, Len(Cut(h).buf))
<1> DEFINE entry == [left |-> h.left, right |-> h.right]
           key == KeyAt(h.buf, entry)
           n == Len(h.list)
           more == [h EXCEPT !.list = Append(@, entry)]
           new == Append(h.list, entry)
<1>1. /\ h.buf \in Seq(Alphabet) /\ h.list \in Seq(Entry) /\ h.map \in SUBSET Nat
      /\ h.left \in Nat /\ h.right \in Nat /\ n \in Nat /\ Len(h.buf) \in Nat
  BY LenProperties DEF Record
<1>2. entry \in Entry /\ entry.left = h.left /\ entry.right = h.right
  BY <1>1 DEF Entry
<1>3. new \in Seq(Entry) /\ Len(new) = n + 1 /\ ListFits(new, Len(h.buf))
  BY <1>1, <1>2, ListGrows
<1>4. more \in Record /\ more.list = new /\ more.buf = h.buf /\ more.map = h.map
  BY <1>1, <1>3 DEF Record
<1>5. CASE Cut(h) = more
  BY <1>1, <1>3, <1>4, <1>5
<1>6. CASE Cut(h) = [more EXCEPT !.map = @ \cup {n}]
  <2> DEFINE c == [more EXCEPT !.map = @ \cup {n}]
  <2>1. h.map \cup {n} \in SUBSET Nat
    BY <1>1
  <2> HIDE DEF n, new, more
  <2>2. c.map = h.map \cup {n} /\ c.list = new /\ c.buf = h.buf /\ c \in Record
    BY <1>4, <2>1 DEF Record
  <2>3. \A d \in c.map : d < n + 1
    <3>1. \A d \in h.map : d < n /\ d \in Nat
      BY <1>1 DEF n
    <3> QED BY <1>1, <2>2, <3>1
  <2> QED BY <1>1, <1>3, <1>6, <2>2, <2>3 DEF n
<1>7. ASSUME NEW prev \in h.map, NEW start, start = new[prev + 2].left,
             NEW offset, offset = Len(h.buf) - h.right + 1,
             Cut(h) = [h EXCEPT !.buf = Collated(@, entry, start), !.list = Moved(@, prev, offset)]
      PROVE  /\ Cut(h) \in Record /\ \A d \in Cut(h).map : d < Len(Cut(h).list)
             /\ Len(Cut(h).buf) <= Len(h.buf) /\ Len(Cut(h).list) <= HeadersMax
             /\ ListFits(Cut(h).list, Len(Cut(h).buf))
  <2>1. prev \in Nat /\ prev < n
    BY <1>1
  <2>2. offset \in Nat \ {0}
    BY <1>1, <1>7
  <2>3. start \in Nat /\ start > 0 /\ start <= h.left
    <3>1. prev + 1 \in DOMAIN new /\ prev + 2 \in DOMAIN new /\ n + 1 \in DOMAIN new
      BY <1>1, <1>3, <2>1, LenProperties
    <3>2. new[n + 1] = entry
      BY <1>1, <1>2, AppendProperties
    <3> HIDE DEF new
    <3>3. new[prev + 2] \in Entry /\ new[prev + 1] \in Entry
      BY <1>3, <3>1, ElementOfSeq
    <3>a. new[prev + 1].left + 2 <= new[prev + 1].right /\ new[prev + 1].right < new[prev + 2].left
      BY <1>3, <2>1, <3>1 DEF ListFits
    <3>b. new[prev + 2].left + 2 <= new[prev + 2].right
      BY <1>3, <3>1 DEF ListFits
    <3>4. start \in Nat /\ start > 0
      BY <1>7, <3>a, <3>3 DEF Entry
    <3>5. start <= h.left
      <4>1. CASE prev + 2 = n + 1
        <5>1. start = entry.left
          BY <1>7, <3>2, <4>1
        <5> QED BY <1>1, <1>2, <5>1
      <4>2. CASE prev + 2 < n + 1
        <5>1. new[prev + 2].right < h.left
          BY <1>2, <1>3, <3>1, <3>2, <4>2 DEF ListFits
        <5> QED BY <1>1, <1>7, <3>b, <3>3, <5>1 DEF Entry
      <4>3. prev + 2 = n + 1 \/ prev + 2 < n + 1
        <5> HIDE DEF n
        <5> QED BY <1>1, <2>1
      <4> QED BY <4>1, <4>2, <4>3
    <3> QED BY <3>4, <3>5
  <2>4. /\ Collated(h.buf, entry, start) \in Seq(Alphabet)
        /\ Len(Collated(h.buf, entry, start)) = h.left + offset
    <3> HIDE DEF entry
    <3>1. start <= entry.left /\ entry.left + 2 <= entry.right /\ entry.right < Len(h.buf)
      BY <1>2, <2>3
    <3>2. /\ Collated(h.buf, entry, start) \in Seq(Alphabet)
          /\ Len(Collated(h.buf, entry, start)) = entry.left + (Len(h.buf) - entry.right + 1)
      BY <1>1, <1>2, <2>3, <3>1, CollatedFits
    <3> QED BY <1>2, <1>7, <3>2
  <2>5. /\ Moved(h.list, prev, offset) \in Seq(Entry)
        /\ Len(Moved(h.list, prev, offset)) = n
        /\ ListFits(Moved(h.list, prev, offset), h.left + offset)
    BY <1>1, <2>1, <2>2, ListMoves
  <2>6. /\ Cut(h).buf = Collated(h.buf, entry, start) /\ Cut(h).list = Moved(h.list, prev, offset)
        /\ Cut(h).map = h.map /\ Cut(h) \in Record
    BY <1>1, <1>7, <2>4, <2>5 DEF Record
  <2>7. h.left + offset <= Len(h.buf)
    BY <1>1, <1>7
  <2> QED BY <1>1, <2>4, <2>5, <2>6, <2>7
<1>8. \/ Cut(h) = more \/ Cut(h) = [more EXCEPT !.map = @ \cup {n}]
      \/ \E prev \in h.map :
           Cut(h) = [h EXCEPT !.buf = Collated(@, entry, new[prev + 2].left),
                              !.list = Moved(@, prev, Len(h.buf) - h.right + 1)]
  <2>1. CASE ~NeedsProcessing(key) \/ Found(h, key) = {}
    BY <2>1 DEF Cut
  <2>2. CASE NeedsProcessing(key) /\ Found(h, key) # {}
    <3> DEFINE prev == CHOOSE d \in Found(h, key) : TRUE
    <3>1. prev \in Found(h, key)
      BY <2>2
    <3>2. prev \in h.map
      BY <3>1 DEF Found
    <3>3. Cut(h) = [h EXCEPT !.buf = Collated(@, entry, more.list[prev + 2].left),
                             !.list = Moved(@, prev, Len(h.buf) - h.right + 1)]
      BY <2>2 DEF Cut
    <3> HIDE DEF prev
    <3> QED BY <1>4, <3>2, <3>3
  <2> QED BY <2>1, <2>2
<1>9. CASE \E prev \in h.map :
             Cut(h) = [h EXCEPT !.buf = Collated(@, entry, new[prev + 2].left),
                                !.list = Moved(@, prev, Len(h.buf) - h.right + 1)]
  <2>1. PICK prev \in h.map :
             Cut(h) = [h EXCEPT !.buf = Collated(@, entry, new[prev + 2].left),
                                !.list = Moved(@, prev, Len(h.buf) - h.right + 1)]
    BY <1>9
  <2> DEFINE start == new[prev + 2].left
             offset == Len(h.buf) - h.right + 1
  <2>2. /\ start = new[prev + 2].left /\ offset = Len(h.buf) - h.right + 1
        /\ Cut(h) = [h EXCEPT !.buf = Collated(@, entry, start), !.list = Moved(@, prev, offset)]
    BY <2>1
  <2> HIDE DEF start, offset, entry, new
  <2> QED BY <1>7, <2>2
<1> QED BY <1>5, <1>6, <1>8, <1>9

One(what, row) == IF what \in row.do THEN 1 ELSE 0

\* The text of a header when it is cut: what precedes the cut in the order of the code.
LEMMA BeforeCutIs ==
  ASSUME NEW h \in Record, NEW row, "back" \in row.do => Len(h.buf) > 0 /\ "space" \notin row.do
  PROVE  /\ BeforeCut(h, row) \in Record
         /\ BeforeCut(h, row).list = h.list /\ BeforeCut(h, row).map = h.map
         /\ BeforeCut(h, row).left = h.left /\ BeforeCut(h, row).right = h.right
         /\ Len(BeforeCut(h, row).buf) = Len(h.buf) + One("space", row)
              - One("back", row) + One("zero", row)
         /\ Len(Back(Spaced(h, row), row).buf) =
              Len(h.buf) + One("space", row) - One("back", row)
<1>b. " " \in Alphabet /\ "NUL" \in Alphabet
  BY DEF Alphabet
<1>0. h.buf \in Seq(Alphabet) /\ Len(h.buf) \in Nat
  BY LenProperties DEF Record
<1> DEFINE sp == One("space", row)
           bk == One("back", row)
           ze == One("zero", row)
<1>a. /\ sp \in {0, 1} /\ bk \in {0, 1} /\ ze \in {0, 1}
      /\ IF "space" \in row.do THEN sp = 1 ELSE sp = 0
      /\ IF "back" \in row.do THEN bk = 1 ELSE bk = 0
      /\ IF "zero" \in row.do THEN ze = 1 ELSE ze = 0
  BY DEF One
<1> HIDE DEF sp, bk, ze
<1> DEFINE s == Spaced(h, row)
           b == Back(s, row)
           z == EndOfString(b, row)
<1>1. /\ s \in Record /\ s.list = h.list /\ s.map = h.map /\ s.left = h.left /\ s.right = h.right
      /\ Len(s.buf) = Len(h.buf) + sp
  <2>1. CASE "space" \in row.do
    <3>1. Append(h.buf, " ") \in Seq(Alphabet) /\ Len(Append(h.buf, " ")) = Len(h.buf) + 1
      BY <1>0, <1>b, AppendProperties, ZenonT(30)
    <3> DEFINE text == Append(h.buf, " ")
    <3>2. s = [h EXCEPT !.buf = text]
      BY <2>1 DEF Spaced
    <3> HIDE DEF text, s
    <3>3. s \in Record /\ s.list = h.list /\ s.map = h.map /\ s.left = h.left /\ s.right = h.right
          /\ s.buf = text
      BY <3>1, <3>2 DEF Record, text
    <3> QED BY <2>1, <3>1, <3>3, <1>a DEF text
  <2>2. CASE "space" \notin row.do
    BY <1>0, <2>2, <1>a DEF Spaced
  <2> QED BY <2>1, <2>2
<1> HIDE DEF s
<1>2. /\ b \in Record /\ b.list = h.list /\ b.map = h.map /\ b.left = h.left /\ b.right = h.right
      /\ Len(b.buf) = Len(h.buf) + sp - bk
  <2>0. s.buf \in Seq(Alphabet) /\ Len(s.buf) \in Nat
    BY <1>1, LenProperties DEF Record
  <2>1. CASE "back" \in row.do
    <3> DEFINE text == SubSeq(s.buf, 1, Len(s.buf) - 1)
    <3>1. text \in Seq(Alphabet) /\ Len(text) = Len(s.buf) - 1
      <4>1. Len(s.buf) > 0
        BY <1>0, <1>1, <2>1, <1>a
      <4>2. \A i \in 1..(Len(s.buf) - 1) : s.buf[i] \in Alphabet
        BY <2>0, ElementOfSeq
      <4> QED BY <2>0, <4>1, <4>2, SubSeqProperties
    <3>2. b = [s EXCEPT !.buf = text]
      BY <2>1 DEF Back
    <3> HIDE DEF text, b
    <3>3. b \in Record /\ b.list = s.list /\ b.map = s.map /\ b.left = s.left /\ b.right = s.right
          /\ b.buf = text
      BY <1>1, <3>1, <3>2 DEF Record
    <3> QED BY <1>0, <1>1, <2>0, <2>1, <3>1, <3>3, <1>a
  <2>2. CASE "back" \notin row.do
    BY <1>0, <1>1, <2>0, <2>2, <1>a DEF Back
  <2> QED BY <2>1, <2>2
<1> HIDE DEF b
<1>3. /\ z \in Record /\ z.list = h.list /\ z.map = h.map /\ z.left = h.left /\ z.right = h.right
      /\ Len(z.buf) = Len(b.buf) + ze
  <2>0. b.buf \in Seq(Alphabet) /\ Len(b.buf) \in Nat
    BY <1>2, LenProperties DEF Record
  <2>1. CASE "zero" \in row.do
    <3> DEFINE text == Append(b.buf, "NUL")
    <3>1. text \in Seq(Alphabet) /\ Len(text) = Len(b.buf) + 1
      BY <1>b, <2>0, AppendProperties, ZenonT(30)
    <3>2. z = [b EXCEPT !.buf = text]
      BY <2>1 DEF EndOfString
    <3> HIDE DEF text, z
    <3>3. z \in Record /\ z.list = b.list /\ z.map = b.map /\ z.left = b.left /\ z.right = b.right
          /\ z.buf = text
      BY <1>2, <3>1, <3>2 DEF Record
    <3> QED BY <1>2, <2>1, <3>1, <3>3, <1>a
  <2>2. CASE "zero" \notin row.do
    BY <1>2, <2>0, <2>2, <1>a DEF EndOfString
  <2> QED BY <2>1, <2>2
<1> HIDE DEF z
<1>4. z = BeforeCut(h, row) /\ b = Back(Spaced(h, row), row)
  BY DEF BeforeCut, z, b, s
<1> QED BY <1>2, <1>3, <1>4 DEF sp, bk, ze

\* And what comes after the cut.
LEMMA AfterCutIs ==
  ASSUME NEW h \in Record, NEW row \in HeaderRows, NEW c \in Alphabet, NEW y \in Record,
         y = CutIf(BeforeCut(h, row), row)
  PROVE  LET x == HeaderStep(h, row, c)
         IN  /\ x \in Record /\ x.state = row.to /\ x.list = y.list /\ x.map = y.map
             /\ x.left = IF "key" \in row.do THEN Len(y.buf) ELSE y.left
             /\ x.right = IF "value" \in row.do THEN Len(y.buf) ELSE y.right
             /\ Len(x.buf) = Len(y.buf) + One("print", row)
             /\ Len(AfterCut(h, row).buf) = Len(y.buf)
<1>0. y.buf \in Seq(Alphabet) /\ Len(y.buf) \in Nat /\ row.to \in HeaderStates
  BY LenProperties, RowKinds DEF Record
<1> DEFINE pr == One("print", row)
<1>a. pr \in {0, 1} /\ (IF "print" \in row.do THEN pr = 1 ELSE pr = 0)
  BY DEF One
<1> HIDE DEF pr
<1> DEFINE a == Marked(y, row)
           p == Copied(a, row, c)
           x == [p EXCEPT !.state = row.to]
<1>1. /\ a \in Record /\ a.list = y.list /\ a.map = y.map /\ a.buf = y.buf
      /\ a.left = IF "key" \in row.do THEN Len(y.buf) ELSE y.left
      /\ a.right = IF "value" \in row.do THEN Len(y.buf) ELSE y.right
  BY <1>0 DEF Marked, Record
<1> HIDE DEF a
<1>2. /\ p \in Record /\ p.list = a.list /\ p.map = a.map /\ p.left = a.left /\ p.right = a.right
      /\ Len(p.buf) = Len(y.buf) + pr
  <2>1. CASE "print" \in row.do
    <3> DEFINE text == Append(y.buf, c)
    <3>1. text \in Seq(Alphabet) /\ Len(text) = Len(y.buf) + 1
      BY <1>0, AppendProperties
    <3>2. p = [a EXCEPT !.buf = text]
      BY <1>1, <2>1 DEF Copied
    <3> HIDE DEF text, p
    <3>3. p \in Record /\ p.list = a.list /\ p.map = a.map /\ p.left = a.left /\ p.right = a.right
          /\ p.buf = text
      BY <1>1, <3>1, <3>2 DEF Record
    <3> QED BY <2>1, <3>1, <3>3, <1>a
  <2>2. CASE "print" \notin row.do
    BY <1>0, <1>1, <2>2, <1>a DEF Copied
  <2> QED BY <2>1, <2>2
<1> HIDE DEF p
<1>3. /\ x \in Record /\ x.list = p.list /\ x.map = p.map /\ x.left = p.left /\ x.right = p.right
      /\ x.buf = p.buf /\ x.state = row.to
  BY <1>0, <1>2 DEF Record
<1> HIDE DEF x
<1>4. x = HeaderStep(h, row, c) /\ a = AfterCut(h, row)
  BY DEF HeaderStep, AfterCut, x, p, a
<1> QED BY <1>1, <1>2, <1>3, <1>4 DEF pr

\* One character of the headers keeps them in their buffer, one behind the other.
LEMMA HeaderStepKeeps ==
  ASSUME NEW h, Shape(h), Pending(h), NEW row \in HeaderRows, row.from = h.state,
         NEW c \in Alphabet, ~HeadersFull(h, row), HdrMax \in Nat, HeadersMax \in Nat
  PROVE  Shape(HeaderStep(h, row, c)) /\ Pending(HeaderStep(h, row, c))
<1> DEFINE z == BeforeCut(h, row)
           y == CutIf(z, row)
           x == HeaderStep(h, row, c)
           len == Len(h.buf)
<1>1. h \in Record /\ len \in Nat /\ h.left \in Nat /\ h.right \in Nat /\ Len(h.list) \in Nat
      /\ len <= HdrMax /\ Len(h.list) <= HeadersMax /\ \A d \in h.map : d < Len(h.list)
  BY LenProperties DEF Shape, Record
<1>2. /\ row.to \in HeaderStates
      /\ "back" \in row.do => len > 0 /\ "space" \notin row.do
  BY <1>1, RowKinds DEF Pending, BlankStates
<1>3. /\ z \in Record /\ z.list = h.list /\ z.map = h.map /\ z.left = h.left /\ z.right = h.right
      /\ Len(z.buf) = len + One("space", row) - One("back", row) + One("zero", row)
      /\ Len(Back(Spaced(h, row), row).buf) = len + One("space", row) - One("back", row)
  BY <1>1, <1>2, BeforeCutIs
<1>4. ASSUME y \in Record
      PROVE  /\ x \in Record /\ x.state = row.to /\ x.list = y.list /\ x.map = y.map
             /\ x.left = IF "key" \in row.do THEN Len(y.buf) ELSE y.left
             /\ x.right = IF "value" \in row.do THEN Len(y.buf) ELSE y.right
             /\ Len(x.buf) = Len(y.buf) + One("print", row)
             /\ Len(AfterCut(h, row).buf) = Len(y.buf)
  BY <1>1, <1>4, AfterCutIs
<1>5. /\ "cut" \notin row.do => y = z
      /\ "cut" \in row.do => y = Cut(z)
  BY DEF CutIf
<1>6. /\ "space" \in row.do => len < HdrMax
      /\ "zero" \in row.do => len + One("space", row) - One("back", row) < HdrMax
      /\ "cut" \in row.do => Len(h.list) < HeadersMax
      /\ "print" \in row.do => ~(Len(AfterCut(h, row).buf) >= HdrMax)
  <2> DEFINE sp == One("space", row)
             bk == One("back", row)
             room == Len(Back(Spaced(h, row), row).buf)
  <2>1. sp \in {0, 1} /\ bk \in {0, 1}
    BY DEF One
  <2>2. room = len + sp - bk
    BY <1>3
  <2>3. /\ "space" \in row.do => ~(len >= HdrMax)
        /\ "zero" \in row.do => ~(room >= HdrMax)
        /\ "cut" \in row.do => ~(Len(h.list) >= HeadersMax)
        /\ "print" \in row.do => ~(Len(AfterCut(h, row).buf) >= HdrMax)
    BY DEF HeadersFull
  <2> HIDE DEF sp, bk, room, len
  <2>4. /\ "space" \in row.do => len < HdrMax
        /\ "zero" \in row.do => len + sp - bk < HdrMax
        /\ "cut" \in row.do => Len(h.list) < HeadersMax
    BY <1>1, <2>1, <2>2, <2>3
  <2> QED BY <2>3, <2>4 DEF sp, bk
<1> HIDE DEF z, y, x, len
<1>k. y \in Record => Len(y.buf) \in Nat /\ Len(y.list) \in Nat
  BY LenProperties DEF Record
<1>7. ASSUME "cut" \notin row.do
      PROVE  /\ x \in Record /\ x.state = row.to /\ x.list = h.list /\ x.map = h.map
             /\ x.left = IF "key" \in row.do THEN Len(z.buf) ELSE h.left
             /\ x.right = IF "value" \in row.do THEN Len(z.buf) ELSE h.right
             /\ Len(x.buf) = Len(z.buf) + One("print", row)
             /\ "print" \in row.do => Len(z.buf) < HdrMax
             /\ Len(z.buf) \in Nat
  BY <1>1, <1>3, <1>4, <1>5, <1>6, <1>7, <1>k
<1>8. ASSUME "cut" \notin row.do
      PROVE  Shape(x) /\ Pending(x)
  <2>1. Len(x.buf) <= HdrMax => Shape(x)
    BY <1>1, <1>7, <1>8 DEF Shape
  <2>2. CASE row.do = {}
    <3>1. Len(x.buf) = len /\ x.left = h.left /\ x.right = h.right /\ x.list = h.list
      BY <1>1, <1>3, <1>7, <1>8, <2>2 DEF One
    <3>2. /\ x.state = row.to
          /\ \/ row.from \in Idle /\ row.to \in Idle
             \/ row.from \in EmptyStates /\ row.to \in EmptyStates
             \/ row.from \in BlankStates /\ row.to \in BlankStates
      BY <1>7, <1>8, <2>2, RowKinds
    <3>3. Pending(x)
      BY <3>1, <3>2 DEF Pending, Idle, EmptyStates, BlankStates, len
    <3> QED BY <1>1, <2>1, <3>1, <3>3
  <2>3. CASE row.do = {"print"}
    <3>1. /\ Len(x.buf) = len + 1 /\ x.left = h.left /\ x.right = h.right /\ x.list = h.list
          /\ len + 1 <= HdrMax
      BY <1>1, <1>3, <1>7, <1>8, <2>3 DEF One
    <3>2. /\ x.state = row.to
          /\ \/ row.from = "K" /\ row.to = "K"
             \/ row.from \in {"V1", "V", "V2"} /\ row.to = "V"
      BY <1>7, <1>8, <2>3, RowKinds
    <3>3. Pending(x)
      BY <1>1, <3>1, <3>2, SMTT(30) DEF Pending, Idle, EmptyStates, BlankStates, len
    <3> QED BY <1>1, <2>1, <3>1, <3>3
  <2>4. CASE row.do = {"key", "print"}
    <3>1. /\ Len(x.buf) = len + 1 /\ x.left = len /\ x.list = h.list
          /\ len + 1 <= HdrMax
      BY <1>1, <1>3, <1>7, <1>8, <2>4 DEF One
    <3>0. row.from = "START" /\ row.to = "K"
      BY <2>4, RowKinds
    <3>2. x.state = "K" /\ h.state \in Idle
      BY <1>7, <1>8, <3>0 DEF Idle
    <3>3. Pending(x)
      BY <1>1, <3>1, <3>2 DEF Pending, Idle, EmptyStates, BlankStates, len
    <3> QED BY <1>1, <2>1, <3>1, <3>3
  <2>5. CASE row.do = {"zero", "value"}
    <3>1. /\ Len(x.buf) = len + 1 /\ x.left = h.left /\ x.right = len + 1 /\ x.list = h.list
          /\ len + 1 <= HdrMax
      BY <1>1, <1>3, <1>6, <1>7, <1>8, <2>5 DEF One
    <3>2. x.state = "V1" /\ h.state = "K"
      BY <1>7, <1>8, <2>5, RowKinds
    <3>3. Pending(x)
      BY <1>1, <3>1, <3>2 DEF Pending, Idle, EmptyStates, BlankStates, len
    <3> QED BY <1>1, <2>1, <3>1, <3>3
  <2>6. CASE row.do = {"space"}
    <3>1. /\ Len(x.buf) = len + 1 /\ x.left = h.left /\ x.right = h.right /\ x.list = h.list
          /\ len + 1 <= HdrMax
      BY <1>1, <1>3, <1>6, <1>7, <1>8, <2>6 DEF One
    <3>2. x.state = row.to /\ row.to \in BlankStates /\ h.state = "V"
      BY <1>7, <1>8, <2>6, RowKinds
    <3>3. Pending(x)
      BY <1>1, <3>1, <3>2, SMTT(30) DEF Pending, Idle, EmptyStates, BlankStates, len
    <3> QED BY <1>1, <2>1, <3>1, <3>3
  <2>7. \/ row.do = {} \/ row.do = {"print"} \/ row.do = {"key", "print"}
        \/ row.do = {"zero", "value"} \/ row.do = {"space"}
    BY <1>8, RowKinds
  <2> QED BY <2>2, <2>3, <2>4, <2>5, <2>6, <2>7
<1>9. ASSUME "cut" \in row.do
      PROVE  Shape(x) /\ Pending(x)
  <2>1. /\ "zero" \in row.do /\ "space" \notin row.do /\ "value" \notin row.do
        /\ IF "key" \in row.do THEN "print" \in row.do /\ row.to = "K"
           ELSE "print" \notin row.do /\ row.to \in Idle
        /\ IF "back" \in row.do THEN h.state = "V2?" ELSE h.state = "V1?"
    BY <1>9, RowKinds
  <2>2. Len(z.buf) = IF "back" \in row.do THEN len ELSE len + 1
    BY <1>1, <1>3, <2>1 DEF One
  <2>3. Len(z.buf) <= HdrMax
    BY <1>1, <1>6, <2>1, <2>2 DEF One
  <2>4. ListFits(h.list, h.left)
    BY <2>1 DEF Pending, Idle
  <2>5. h.left + 2 <= h.right /\ h.right < Len(z.buf)
    BY <1>1, <2>1, <2>2 DEF Pending, EmptyStates, BlankStates, len
  <2>6. Len(h.list) < HeadersMax
    BY <1>6, <1>9
  <2>7. /\ Cut(z) \in Record /\ \A d \in Cut(z).map : d < Len(Cut(z).list)
        /\ Len(Cut(z).buf) <= Len(z.buf) /\ Len(Cut(z).list) <= HeadersMax
        /\ ListFits(Cut(z).list, Len(Cut(z).buf))
    BY <1>1, <1>3, <2>4, <2>5, <2>6, CutKeeps
  <2>8. y = Cut(z)
    BY <1>5, <1>9
  <2>9. /\ y \in Record /\ \A d \in y.map : d < Len(y.list)
        /\ Len(y.buf) <= Len(z.buf) /\ Len(y.list) <= HeadersMax
        /\ ListFits(y.list, Len(y.buf)) /\ Len(y.buf) \in Nat
    BY <1>k, <2>7, <2>8
  <2>10. /\ x \in Record /\ x.state = row.to /\ x.list = y.list /\ x.map = y.map
         /\ "key" \in row.do => x.left = Len(y.buf)
         /\ Len(x.buf) = IF "key" \in row.do THEN Len(y.buf) + 1 ELSE Len(y.buf)
         /\ "key" \in row.do => ~(Len(y.buf) >= HdrMax)
    <3>1. /\ x \in Record /\ x.state = row.to /\ x.list = y.list /\ x.map = y.map
          /\ x.left = IF "key" \in row.do THEN Len(y.buf) ELSE y.left
          /\ Len(x.buf) = Len(y.buf) + One("print", row)
          /\ Len(AfterCut(h, row).buf) = Len(y.buf)
      BY <1>4, <2>9
    <3>2. One("print", row) = IF "key" \in row.do THEN 1 ELSE 0
      BY <2>1 DEF One
    <3>3. Len(x.buf) = IF "key" \in row.do THEN Len(y.buf) + 1 ELSE Len(y.buf)
      BY <2>9, <3>1, <3>2
    <3> QED BY <1>6, <2>1, <3>1, <3>3
  <2>11. Len(x.buf) <= HdrMax
    <3>1. Len(z.buf) \in Nat
      BY <1>1, <2>2
    <3> QED BY <2>3, <2>9, <2>10, <3>1
  <2>12. Shape(x)
    BY <2>9, <2>10, <2>11 DEF Shape
  <2>13. Pending(x)
    <3>1. CASE "key" \in row.do
      BY <2>1, <2>9, <2>10, <3>1 DEF Pending, Idle, EmptyStates, BlankStates
    <3>2. CASE "key" \notin row.do
      BY <2>1, <2>9, <2>10, <3>2 DEF Pending, Idle, EmptyStates, BlankStates
    <3> QED BY <3>1, <3>2
  <2> QED BY <2>12, <2>13
<1> QED BY <1>8, <1>9 DEF x

-----------------------------------------------------------------------------
(* The actions. *)

\* Where a line ends.
LEMMA LineEndIs ==
  ASSUME NEW at \in Nat, sent.bytes \in Seq(Alphabet), LineEnd(at) # 0
  PROVE  LineEnd(at) \in (at + 1)..Len(sent.bytes) /\ At(LineEnd(at)) = "LF"
<1> DEFINE ends == {i \in (at + 1)..Len(sent.bytes) :
                      sent.bytes[i] = "LF" /\ \A j \in (at + 1)..(i - 1) : sent.bytes[j] # "LF"}
<1>1. ends # {} /\ LineEnd(at) = CHOOSE i \in ends : TRUE
  BY DEF LineEnd
<1>2. LineEnd(at) \in ends
  <2> HIDE DEF ends
  <2> QED BY <1>1
<1> QED BY <1>2 DEF At

\* The room there is, and what is sent.
LEMMA Limits == HdrMax \in Nat /\ HeadersMax \in Nat /\ \A r \in Requests : r.bytes \in Seq(Alphabet)
  BY RequestAssumption

LEMMA EmptyHeadersFit ==
  ASSUME HdrMax \in Nat, HeadersMax \in Nat
  PROVE  Shape(EmptyHeaders) /\ Pending(EmptyHeaders) /\ EmptyHeaders.state = "START"
<1>1. "START" \in HeaderStates
  <2> DEFINE row == HeaderRow("START", {"LF"}, {}, "END")
  <2>1. row \in HeaderRows
    BY DEF HeaderRows, KeyRows
  <2>2. row.from = "START"
    BY DEF HeaderRow
  <2> HIDE DEF row
  <2> QED BY <2>1, <2>2 DEF HeaderStates
<1>2. <<>> \in Seq(Alphabet) /\ <<>> \in Seq(Entry) /\ Len(<<>>) = 0
  OBVIOUS
<1>3. EmptyHeaders \in Record /\ EmptyHeaders.buf = <<>> /\ EmptyHeaders.list = <<>>
      /\ EmptyHeaders.map = {} /\ EmptyHeaders.state = "START"
  BY <1>1, <1>2 DEF EmptyHeaders, Record
<1>4. Shape(EmptyHeaders)
  BY <1>2, <1>3 DEF Shape
<1>5. ListFits(<<>>, 0)
  BY DEF ListFits
<1> QED BY <1>2, <1>3, <1>4, <1>5 DEF Pending, Idle, EmptyStates, BlankStates

LEMMA UriStarts == "START" \in UriStates
<1> DEFINE row == Row("START", {"h"}, {}, "H")
<1>1. row \in UriRows
  BY DEF UriRows, SchemeRows
<1>2. row.from = "START"
  BY DEF Row
<1> HIDE DEF row
<1> QED BY <1>1, <1>2 DEF UriStates

\* Behind a CR.
LEMMA BehindCR ==
  ASSUME NEW state, NEW n \in Nat, n > 1, At(n) = "CR",
         \/ state = "END?" /\ At(n - 1) = "LF"
         \/ state \in {"V1??", "V2??"} /\ At(n - 1) # "LF"
  PROVE  Behind_(state, n)
BY DEF Behind_

\* One character of the headers: they end with the first empty line.
LEMMA ParseHeaderKeeps ==
  ASSUME Inv, ParseHeader
  PROVE  Inv'
<1>0. HdrMax \in Nat /\ HeadersMax \in Nat
  BY Limits
<1>1. /\ sent \in Requests /\ sent.bytes \in Seq(Alphabet) /\ Len(sent.bytes) \in Nat
      /\ rd \in 1..Len(sent.bytes) /\ rql.length \in Nat /\ "length" \in DOMAIN rql /\ stage = "headers"
      /\ Shape(hdr) /\ Pending(hdr) /\ HeadInv /\ UriInv
  BY LenProperties DEF Inv, ParseHeader, HdrInv, HeadInv
<1>2. UNCHANGED <<sent, line, uri, rql, body>>
  BY DEF ParseHeader
<1>3. rd' \in 0..Len(sent.bytes) /\ rd' = IF rd < Len(sent.bytes) THEN rd + 1 ELSE rd
  BY <1>1 DEF ParseHeader
<1> DEFINE c == IF rd < Len(sent.bytes) THEN sent.bytes[rd + 1] ELSE "NUL"
<1>4. CASE \E e \in {400, 413} : Ends(e) /\ UNCHANGED hdr
  BY <1>1, <1>2, <1>3, <1>4
     DEF Inv, Ends, UriInv, UriType, HdrInv, HeadInv, HeadIsOver, Stages, Codes
<1>5. ASSUME NEW row \in HeaderRows, row.from = hdr.state, HeaderClass(c) \in row.on,
             ~HeadersFull(hdr, row), hdr' = HeaderStep(hdr, row, c),
             stage' = IF row.to = "END" THEN "request" ELSE "headers", UNCHANGED code
      PROVE  Inv'
  <2>1. rd < Len(sent.bytes) /\ c = At(rd + 1) /\ c \in Alphabet
    <3>1. c # "NUL"
      BY <1>5, RowClasses
    <3>2. rd < Len(sent.bytes)
      BY <3>1
    <3> QED BY <1>1, <3>2, ElementOfSeq DEF At
  <2> HIDE DEF c
  <2>2. rd' = rd + 1
    BY <1>3, <2>1
  <2>3. Shape(hdr') /\ Pending(hdr')
    BY <1>0, <1>1, <1>5, <2>1, HeaderStepKeeps
  <2>4. hdr'.state = row.to
    BY <1>5 DEF HeaderStep
  <2>5. /\ c = "LF" => \/ row.from \in {"START", "END?", "V1?", "V2?"} /\ row.to = "END"
                       \/ row.from \in {"V1", "V1??"} /\ row.to = "V1?"
                       \/ row.from \in {"V", "V2", "V2??"} /\ row.to = "V2?"
        /\ c = "CR" => \/ row.from \in {"START", "V1?", "V2?"} /\ row.to = "END?"
                       \/ row.from = "V1" /\ row.to = "V1??"
                       \/ row.from \in {"V", "V2"} /\ row.to = "V2??"
        /\ c \notin LineEnds => row.to \in {"K", "V1", "V", "V2"}
    BY <1>5, RowClasses
  <2>6. /\ row.from \in {"START", "V1?", "V2?"} => At(rd) = "LF"
        /\ row.from = "END?" => At(rd) = "CR" /\ At(rd - 1) = "LF" /\ rd > 1
        /\ row.from \in {"K", "V1", "V", "V2"} => At(rd) # "LF" /\ At(rd) # "CR"
        /\ row.from \in {"V1??", "V2??"} => At(rd) = "CR" /\ At(rd - 1) # "LF"
    BY <1>1, <1>5 DEF HeadInv, Behind_, LineEnds
  <2>7. /\ LineEnd(0) \in Nat /\ LineEnd(0) <= rd
        /\ \A i \in (LineEnd(0) + 1)..rd : ~EmptyLine(i)
    BY <1>1, LineEndIs DEF HeadInv, HeadIsOver
  <2>8. EmptyLine(rd + 1) <=> row.to = "END"
    <3>1. EmptyLine(rd + 1) <=>
            c = "LF" /\ (At(rd) = "LF" \/ (rd > 1 /\ At(rd) = "CR" /\ At(rd - 1) = "LF"))
      BY <1>1, <2>1 DEF EmptyLine, At
    <3> QED BY <2>5, <2>6, <3>1 DEF LineEnds
  <2>9. Behind_(row.to, rd + 1)
    <3>1. rd + 1 > 1 /\ At(rd + 1 - 1) = At(rd)
      <4>1. rd + 1 - 1 = rd /\ rd + 1 > 1
        BY <1>1
      <4> QED BY <4>1
    <3>2. CASE c = "LF"
      BY <2>1, <2>5, <3>1, <3>2 DEF Behind_, LineEnds
    <3>3. CASE c = "CR"
      <4>1. \/ row.to = "END?" /\ At(rd) = "LF"
            \/ row.to \in {"V1??", "V2??"} /\ At(rd) # "LF"
        BY <2>5, <2>6, <3>3
      <4> DEFINE n == rd + 1
      <4>2. n \in Nat /\ n > 1 /\ n - 1 = rd
        BY <1>1
      <4>3. At(n) = "CR"
        BY <2>1, <3>3
      <4> HIDE DEF n
      <4>4. \/ row.to = "END?" /\ At(n - 1) = "LF"
            \/ row.to \in {"V1??", "V2??"} /\ At(n - 1) # "LF"
        BY <4>1, <4>2
      <4>5. Behind_(row.to, n)
        BY <4>2, <4>3, <4>4, BehindCR
      <4> QED BY <4>5 DEF n
    <3>4. CASE c \notin LineEnds
      <4>1. row.to \in {"K", "V1", "V", "V2"}
        BY <2>5, <3>4
      <4> QED BY <2>1, <3>4, <4>1 DEF Behind_
    <3> QED BY <3>2, <3>3, <3>4 DEF LineEnds
  <2>10. LineEnd(0)' = LineEnd(0) /\ \A i : EmptyLine(i)' = EmptyLine(i)
    BY <1>2 DEF LineEnd, EmptyLine
  <2>11. HeadIsOver'
    <3>1. stage' = "headers" => \A i \in (LineEnd(0) + 1)..(rd + 1) : ~EmptyLine(i)
      BY <1>1, <1>5, <2>7, <2>8
    <3>2. stage' = "request" => EmptyLine(rd + 1) /\ \A i \in (LineEnd(0) + 1)..rd : ~EmptyLine(i)
      BY <1>1, <1>5, <2>7, <2>8
    <3>3. rd' - 1 = rd
      BY <1>1, <2>2
    <3> QED BY <2>2, <2>10, <3>1, <3>2, <3>3 DEF HeadIsOver
  <2>12. stage' = "headers" => hdr'.state # "END" /\ Behind_(hdr.state, rd)'
    <3>1. stage' = "headers" => row.to # "END"
      BY <1>5
    <3>2. Behind_(hdr.state, rd)'
      BY <1>2, <2>2, <2>4, <2>9 DEF Behind_, At
    <3> QED BY <2>4, <3>1, <3>2
  <2>13. HeadInv'
    <3>1. stage' \in {"headers", "request"}
      BY <1>5
    <3>2. rd' \in 1..Len(sent'.bytes) /\ LineEnd(0)' <= rd'
      BY <1>1, <1>2, <2>1, <2>2, <2>7, <2>10
    <3> QED BY <2>11, <2>12, <3>1, <3>2 DEF HeadInv
  <2>14. UriInv'
    BY <1>1, <1>2, <1>5 DEF UriInv, UriType
  <2> QED BY <1>1, <1>2, <1>3, <1>5, <2>3, <2>13, <2>14 DEF Inv, HdrInv, Stages, Codes
<1> QED BY <1>4, <1>5 DEF ParseHeader, HeaderTaken

LEMMA InitHolds ==
  ASSUME Init
  PROVE  Inv
<1>1. HdrMax \in Nat /\ HeadersMax \in Nat /\ sent.bytes \in Seq(Alphabet)
  BY Limits DEF Init
<1>2. Len(sent.bytes) \in Nat
  BY <1>1, LenProperties
<1>3. UriType
  BY UriStarts DEF Init, UriType, UriAt
<1> QED BY <1>1, <1>2, <1>3, EmptyHeadersFit
     DEF Init, Inv, UriInv, HdrInv, HeadInv, HeadIsOver, Stages, Codes, NoRql

\* The request line, where the URI begins behind the method.
LEMMA ReadLineKeeps ==
  ASSUME Inv, ReadLine
  PROVE  Inv'
<1>1. /\ sent \in Requests /\ sent.bytes \in Seq(Alphabet) /\ Len(sent.bytes) \in Nat
      /\ rd \in 0..Len(sent.bytes) /\ rql.length \in Nat /\ "length" \in DOMAIN rql /\ stage = "line"
      /\ hdr = EmptyHeaders /\ HdrInv /\ UriType
  BY LenProperties DEF Inv, ReadLine, HeadInv, UriInv
<1>2. UNCHANGED <<sent, hdr, body>> /\ HdrInv'
  BY <1>1 DEF ReadLine, HdrInv
<1> DEFINE end == LineEnd(0)
           text == LineText
           words == Words(text)
           split == Tokenized(text)
           good == {t \in Split(words) : IsMethod(Word(split, t[1])) /\ IsVersion(Word(split, t[3]))}
<1>3. CASE stage' = "over" /\ code' \in Codes /\ rd' \in 0..Len(sent.bytes) /\ UNCHANGED <<uri, rql>>
  BY <1>1, <1>2, <1>3 DEF Inv, UriInv, UriType, HeadInv, HeadIsOver, Stages
<1>4. ASSUME end \in 1..LineMax, rd' = end, NEW t \in good, NEW method, NEW version, NEW star,
             rql' = [rql EXCEPT !.method = method, !.major = version.major,
                                !.minor = version.minor, !.star = star],
             \/ GoOn(version) /\ UNCHANGED uri
             \/ stage' = "uri" /\ uri' = UriAt(t[2]) /\ UNCHANGED code
      PROVE  Inv'
  <2>1. end \in 1..Len(sent.bytes) /\ At(end) = "LF"
    BY <1>1, <1>4, LineEndIs
  <2>2. end' = end /\ At(rd)' = "LF"
    BY <1>2, <1>4, <2>1 DEF LineEnd, At
  <2>3. rql.length' \in Nat /\ "length" \in DOMAIN rql'
    BY <1>1, <1>4
  <2>4. CASE GoOn(version) /\ UNCHANGED uri
    <3>1. stage' \in {"over", "headers"} /\ code' \in Codes
      BY <1>1, <2>4 DEF GoOn, Ends, Codes, Inv
    <3> DEFINE first == LineEnd(0)
    <3>a. first = end /\ first' = end
      BY <2>2
    <3>b. hdr'.state = "START"
      BY <1>1, <1>2 DEF EmptyHeaders
    <3>c. At(rd)' = "LF" /\ rd' = end /\ rd' \in 1..Len(sent'.bytes)
      BY <1>2, <1>4, <2>1, <2>2
    <3>d. HeadIsOver'
      <4>1. \A i \in (end + 1)..end : FALSE
        BY <2>1
      <4> QED BY <3>1, <3>a, <3>c, <4>1 DEF HeadIsOver
    <3>e. Behind_(hdr.state, rd)'
      BY <3>b, <3>c DEF Behind_, At
    <3>f. LineEnd(0)' <= rd'
      BY <2>1, <3>a, <3>c
    <3> HIDE DEF end
    <3>2. HeadInv'
      BY <3>1, <3>b, <3>c, <3>d, <3>e, <3>f DEF HeadInv
    <3> QED BY <1>1, <1>2, <1>4, <2>1, <2>3, <2>4, <3>1, <3>2 DEF Inv, UriInv, UriType, Stages
  <2>5. CASE stage' = "uri" /\ uri' = UriAt(t[2]) /\ UNCHANGED code
    <3>1. t \in words \X words \X words /\ t[1] < t[2]
      BY DEF Split
    <3>2. t[1] \in words /\ t[2] \in words /\ \A i \in words : i \in 1..Len(text)
      <4> HIDE DEF text
      <4> QED BY <3>1 DEF Words
    <3> HIDE DEF words, text
    <3>3. t[2] \in Nat /\ t[2] > 0
      BY <3>1, <3>2
    <3>4. UriInv'
      BY <2>5, <3>3, UriStarts DEF UriInv, UriType, UriAt, Room
    <3>5. HeadInv'
      BY <1>1, <1>2, <1>4, <2>1, <2>2, <2>5 DEF HeadInv, HeadIsOver
    <3> QED BY <1>1, <1>2, <1>4, <2>1, <2>3, <2>5, <3>4, <3>5 DEF Inv, Stages
  <2> QED BY <1>4, <2>4, <2>5
<1>5. CASE /\ \E e \in {1, 98, 99} : Ends(e)
           /\ UNCHANGED <<rd, line, uri, rql>>
  BY <1>1, <1>3, <1>5 DEF Ends, Codes
<1>6. CASE end \in 1..LineMax /\ rd' = end /\ Ends(400) /\ UNCHANGED <<uri, rql>>
  <2>1. end \in 1..Len(sent.bytes)
    BY <1>1, <1>6, LineEndIs
  <2> QED BY <1>1, <1>3, <1>6, <2>1 DEF Ends, Codes
<1>7. CASE /\ end \in 1..LineMax /\ rd' = end
           /\ \E t \in good :
                LET method == MethodOf(Word(split, t[1]))
                    version == VersionOf(Word(split, t[3]))
                    star == method = "OPTIONS" /\ Word(split, t[2]) = <<"*">>
                IN  /\ rql' = [rql EXCEPT !.method = method, !.major = version.major,
                                          !.minor = version.minor, !.star = star]
                    /\ IF star THEN GoOn(version) /\ UNCHANGED uri
                       ELSE stage' = "uri" /\ uri' = UriAt(t[2]) /\ UNCHANGED code
  <2> HIDE DEF end, good, split
  <2> QED BY <1>4, <1>7
<1> QED BY <1>5, <1>6, <1>7 DEF ReadLine

\* A character of the URI, and its end.
LEMMA UriKeeps ==
  ASSUME Inv, ParseUri \/ UriEnds
  PROVE  Inv'
<1>1. /\ sent \in Requests /\ sent.bytes \in Seq(Alphabet) /\ Len(sent.bytes) \in Nat
      /\ rd \in 0..Len(sent.bytes) /\ rql.length \in Nat /\ "length" \in DOMAIN rql /\ stage = "uri"
      /\ hdr = EmptyHeaders /\ HdrInv /\ UriInv /\ code \in Codes
      /\ rd = LineEnd(0) /\ rd \in 1..Len(sent.bytes) /\ At(rd) = "LF"
  BY LenProperties DEF Inv, ParseUri, UriEnds, HeadInv
<1>2. UNCHANGED <<sent, rd, hdr, rql, body>>
  BY DEF ParseUri, UriEnds
<1>3. HdrInv' /\ LineEnd(0)' = LineEnd(0) /\ At(rd)' = At(rd)
  <2>1. HdrInv'
    BY <1>1, <1>2 DEF HdrInv
  <2>2. LineEnd(0)' = LineEnd(0)
    BY <1>2 DEF LineEnd
  <2>3. At(rd)' = At(rd)
    BY <1>2 DEF At
  <2> QED BY <2>1, <2>2, <2>3
<1>4. stage' \in {"uri", "headers", "over"} /\ code' \in Codes
  BY <1>1 DEF ParseUri, UriEnds, GoOn, Ends, Codes
<1>5. UriInv'
  <2>1. CASE ParseUri
    BY <1>1, <2>1, ParseUriKeeps
  <2>2. CASE UriEnds
    BY <1>1, <2>2 DEF UriEnds, UriInv, UriType, GoOn, Ends
  <2> QED BY <2>1, <2>2
<1>6. HeadInv'
  <2>1. LineEnd(0) \in Nat /\ LineEnd(0)' <= rd'
    BY <1>1, <1>2, <1>3
  <2>2. hdr.state = "START" /\ hdr' = hdr
    BY <1>1, <1>2, EmptyHeadersFit, Limits
  <2>3. Behind_("START", rd)'
    BY <1>1, <1>3 DEF Behind_
  <2>4. HeadIsOver'
    <3>1. (LineEnd(0) + 1)..rd = {}
      BY <1>1, <2>1
    <3> QED BY <1>2, <1>3, <1>4, <3>1 DEF HeadIsOver
  <2>5. rd' \in 1..Len(sent'.bytes) /\ rd' = LineEnd(0)' /\ At(rd)' = "LF" /\ hdr' = EmptyHeaders
    BY <1>1, <1>2, <1>3
  <2> QED BY <1>4, <2>1, <2>2, <2>3, <2>4, <2>5 DEF HeadInv
<1> QED BY <1>1, <1>2, <1>3, <1>4, <1>5, <1>6 DEF Inv, Stages

\* What the headers say, and the body: neither the URI nor the headers are touched.
LEMMA OthersKeep ==
  ASSUME Inv, Interpret \/ ReadFixed \/ ReadChunk \/ ReadTrailer
  PROVE  Inv'
<1>1. /\ sent \in Requests /\ sent.bytes \in Seq(Alphabet) /\ Len(sent.bytes) \in Nat
      /\ rd \in 0..Len(sent.bytes) /\ rql.length \in Nat /\ "length" \in DOMAIN rql
      /\ HdrInv /\ UriType /\ code \in Codes
  BY LenProperties DEF Inv, UriInv
<1>2. UNCHANGED <<sent, line, uri, hdr>>
  BY DEF Interpret, ReadFixed, ReadChunk, ReadTrailer
<1>3. stage' \in {"fixed", "chunk", "trailer", "over"} /\ code' \in Codes
  <2>1. CASE Interpret
    BY <1>1, <2>1 DEF Interpret, Ends, Codes
  <2>2. CASE ReadFixed
    BY <1>1, <2>2 DEF ReadFixed, Ends, Codes
  <2>3. CASE ReadChunk
    <3>1. \/ \E e \in {400, 413, 500} : Ends(e)
          \/ stage' = "trailer" /\ UNCHANGED code
          \/ stage' = stage /\ stage = "chunk" /\ UNCHANGED code
      <4> DEFINE text == SubSeq(sent.bytes, rd + 1, LineEnd(rd))
                 digits == DigitsOf(text)
                 size == NumberOf(digits)
                 data == LineEnd(rd)
                 wrong == \/ ~IsNumber(text, SizeMax)
                          \/ text[Len(digits) + 1] \notin {"CR", "LF", ";", " ", "TAB"}
      <4>1. CASE ~HasLine
        BY <2>3, <4>1 DEF ReadChunk, Stops
      <4>2. CASE HasLine /\ wrong
        BY <2>3, <4>2, ZenonT(30) DEF ReadChunk
      <4>3. CASE HasLine /\ ~wrong /\ size = 0
        BY <2>3, <4>3, ZenonT(30) DEF ReadChunk
      <4>4. CASE HasLine /\ ~wrong /\ size # 0
        <5>1. \/ Ends(413) \/ Stops \/ UNCHANGED <<stage, code>>
          BY <2>3, <4>4 DEF ReadChunk
        <5>2. stage = "chunk"
          BY <2>3 DEF ReadChunk
        <5> HIDE DEF text, digits, size, data, wrong
        <5> QED BY <5>1, <5>2 DEF Stops
      <4> HIDE DEF text, digits, size, data, wrong
      <4> QED BY <4>1, <4>2, <4>3, <4>4
    <3> QED BY <1>1, <3>1 DEF Ends, Codes
  <2>4. CASE ReadTrailer
    BY <1>1, <2>4 DEF ReadTrailer, Stops, Ends, Codes
  <2> QED BY <2>1, <2>2, <2>3, <2>4
<1>4. rql'.length \in Nat /\ "length" \in DOMAIN rql'
  <2>1. CASE Interpret
    <3>1. TransferCoding = "fixed" => ContentLength \in Nat
      BY DEF TransferCoding, ContentLength, IsNumber
    <3> DEFINE length == IF TransferCoding = "fixed" THEN ContentLength ELSE 0
               host == Search(hdr, Chars("Host"))
               named == IF uri.host # None THEN StringAt(line, uri.host)
                        ELSE IF host.there THEN HostOf(host.text) ELSE <<"default">>
               port == IF uri.port # 0 THEN uri.port
                       ELSE IF host.there /\ HostOf(host.text) # host.text
                       THEN NumberOf(PortOf(host.text))
                       ELSE DefaultPort
    <3>2. \/ UNCHANGED rql
          \/ rql' = [rql EXCEPT !.host = named, !.port = port, !.coding = TransferCoding,
                                !.length = length]
      BY <2>1 DEF Interpret
    <3>3. length \in Nat
      BY <3>1
    <3> HIDE DEF length, named, port, host, TransferCoding
    <3> QED BY <1>1, <3>2, <3>3
  <2>2. CASE ~Interpret
    BY <1>1, <2>2 DEF ReadFixed, ReadChunk, ReadTrailer
  <2> QED BY <2>1, <2>2
<1>5. HasLine => LineEnd(rd) \in 1..Len(sent.bytes)
  <2>1. LineEnd(rd) # 0 => LineEnd(rd) \in (rd + 1)..Len(sent.bytes)
    BY <1>1, LineEndIs
  <2> QED BY <1>1, <2>1 DEF HasLine
<1>6. rd' \in 0..Len(sent.bytes)
  <2>1. CASE Interpret
    BY <1>1, <2>1 DEF Interpret
  <2>2. CASE ReadFixed
    BY <1>1, <2>2 DEF ReadFixed
  <2>3. CASE ReadChunk
    <3> DEFINE text == SubSeq(sent.bytes, rd + 1, LineEnd(rd))
               size == NumberOf(DigitsOf(text))
    <3>1. IsNumber(text, SizeMax) => size \in Nat
      BY DEF IsNumber
    <3> HIDE DEF size, text
    <3>2. \/ UNCHANGED rd
          \/ HasLine /\ rd' = LineEnd(rd)
          \/ /\ HasLine /\ IsNumber(text, SizeMax) /\ rd' = LineEnd(rd) + size
             /\ ~(LineEnd(rd) + size > Len(sent.bytes))
      BY <2>3 DEF ReadChunk, Stops, size, text
    <3> QED BY <1>1, <1>5, <3>1, <3>2
  <2>4. CASE ReadTrailer
    BY <1>1, <1>5, <2>4 DEF ReadTrailer, Stops
  <2> QED BY <2>1, <2>2, <2>3, <2>4
<1> QED BY <1>1, <1>2, <1>3, <1>4, <1>6
     DEF Inv, HdrInv, UriInv, UriType, HeadInv, HeadIsOver, Stages

LEMMA Stutters ==
  ASSUME Inv, UNCHANGED vars
  PROVE  Inv'
<1>1. UNCHANGED <<sent, rd, stage, code, line, uri, hdr, rql, body>>
  BY DEF vars
<1>2. UriInv' /\ HdrInv'
  BY <1>1 DEF Inv, UriInv, UriType, HdrInv
<1>3. HeadInv'
  <2>1. LineEnd(0)' = LineEnd(0) /\ \A i : EmptyLine(i)' = EmptyLine(i)
    BY <1>1 DEF LineEnd, EmptyLine
  <2>2. At(rd)' = At(rd) /\ Behind_(hdr.state, rd)' = Behind_(hdr.state, rd)
    BY <1>1 DEF At, Behind_
  <2>3. HeadIsOver' = HeadIsOver
    BY <1>1, <2>1 DEF HeadIsOver
  <2> QED BY <1>1, <2>1, <2>2, <2>3 DEF Inv, HeadInv
<1> QED BY <1>1, <1>2, <1>3 DEF Inv

THEOREM Invariance == Spec => []Inv
<1>1. Init => Inv
  BY InitHolds
<1>2. Inv /\ [Next]_vars => Inv'
  BY ReadLineKeeps, UriKeeps, ParseHeaderKeeps, OthersKeep, Stutters DEF Next
<1> QED BY <1>1, <1>2, PTL DEF Spec

\* Whatever is sent, the variables keep their types, the URI is not written before it is
\* read, and the headers are in their buffer, whole (tipidee_uri_parse.c, tipidee_headers_parse.c).
THEOREM TypeCorrect == Spec => []TypeOK
<1>1. Inv => TypeOK
  <2> SUFFICES ASSUME Inv PROVE TypeOK
    OBVIOUS
  <2>1. /\ hdr \in Record /\ Len(hdr.buf) \in Nat /\ Len(hdr.list) \in Nat
        /\ hdr.buf \in Seq(Alphabet) /\ hdr.list \in Seq(Entry)
        /\ hdr.left \in Nat /\ hdr.right \in Nat /\ hdr.map \subseteq Nat /\ hdr.state \in HeaderStates
    BY LenProperties DEF Inv, HdrInv, Shape, Record
  <2>2. HeadersType
    BY <2>1 DEF HeadersType, Entry
  <2>3. NeverAhead
    <3>1. stage = "uri" => uri.w + Room(uri.state) < uri.at
      BY DEF Inv, UriInv
    <3> QED BY <3>1 DEF Inv, UriInv, UriType, NeverAhead, Room
  <2>4. ListFits(hdr.list, Len(hdr.buf))
    <3>1. CASE hdr.state \in Idle
      BY <3>1 DEF Inv, HdrInv, Pending
    <3>2. CASE hdr.state \notin Idle
      <4>1. hdr.left <= Len(hdr.buf) /\ ListFits(hdr.list, hdr.left)
        BY <3>2 DEF Inv, HdrInv, Pending
      <4>2. ASSUME NEW i \in DOMAIN hdr.list
            PROVE  hdr.list[i].right < Len(hdr.buf)
        <5>1. hdr.list[i] \in Entry
          BY <2>1, ElementOfSeq, LenProperties
        <5>2. hdr.list[i].right < hdr.left
          BY <4>1 DEF ListFits
        <5> QED BY <2>1, <4>1, <5>1, <5>2 DEF Entry
      <4> QED BY <4>1, <4>2 DEF ListFits
    <3> QED BY <3>1, <3>2
  <2>5. HeadersFit
    <3>1. ASSUME NEW i \in DOMAIN hdr.list
          PROVE  /\ hdr.list[i].left + 2 <= hdr.list[i].right
                 /\ hdr.list[i].right <
                      IF i < Len(hdr.list) THEN hdr.list[i + 1].left ELSE Len(hdr.buf)
      <4>1. DOMAIN hdr.list = 1..Len(hdr.list)
        BY <2>1, LenProperties
      <4>2. CASE i < Len(hdr.list)
        <5>1. i + 1 \in DOMAIN hdr.list /\ i < i + 1
          BY <2>1, <4>1, <4>2
        <5> QED BY <2>4, <4>2, <5>1 DEF ListFits
      <4>3. CASE ~(i < Len(hdr.list))
        BY <2>4, <4>3 DEF ListFits
      <4> QED BY <4>2, <4>3
    <3> QED BY <3>1 DEF Inv, HdrInv, Shape, HeadersFit
  <2> QED BY <2>2, <2>3, <2>5 DEF Inv, UriInv, TypeOK
<1> QED BY <1>1, Invariance, PTL

\* Whatever is sent, the headers end with the first empty line
\* (tipidee_headers_parse_with()).
THEOREM HeadEnds == Spec => []HeadIsOver
<1>1. Inv => HeadIsOver
  BY DEF Inv, HeadInv
<1> QED BY <1>1, Invariance, PTL

-----------------------------------------------------------------------------
(* Induction, for what a recursive function is. *)

\* A set of numbers that is not empty has a least one.
LEMMA LeastOf ==
  ASSUME NEW S \in SUBSET Nat, S # {}
  PROVE  \E m \in S : \A k \in S : m <= k
<1>1. PICK m \in S : \A k \in S : ~(<<k, m>> \in OpToRel(<, Nat))
  BY NatLessThanWellFounded, WFMin
<1>2. \A k \in S : k \in Nat /\ m \in Nat /\ ~(k < m)
  BY <1>1 DEF OpToRel
<1> QED BY <1>2

\* What holds of 0, and of each number when it does of the one before, holds up to n.
LEMMA Upwards ==
  ASSUME NEW n \in Nat, NEW T, 0 \in T, \A k \in 1..n : k - 1 \in T => k \in T
  PROVE  \A k \in 0..n : k \in T
<1> DEFINE Missed == {k \in 0..n : k \notin T}
<1> SUFFICES ASSUME Missed # {} PROVE FALSE
  OBVIOUS
<1>0. Missed \in SUBSET Nat
  OBVIOUS
<1>1. PICK m \in Missed : \A k \in Missed : m <= k
  BY <1>0, LeastOf
<1>2. m \in 1..n /\ m - 1 \in 0..n /\ ~(m <= m - 1)
  <2>1. m \in 0..n /\ m # 0
    OBVIOUS
  <2> QED BY <2>1
<1>3. m - 1 \in T
  BY <1>1, <1>2
<1> QED BY <1>2, <1>3

-----------------------------------------------------------------------------
(* Characters and their classes. *)

\* A character that has a number other than 0 is not NUL.
LEMMA CharacterIs ==
  ASSUME NEW n
  PROVE  Character(n) \in Alphabet /\ (n \in 1..255 => Character(n) # "NUL")
<1>1. DOMAIN Printable = 1..95 /\ \A i \in 1..95 : Printable[i] # "NUL"
  BY DEF Printable
<1>2. CASE n \in 32..126
  <2>1. n - 31 \in 1..95 /\ Character(n) = Printable[n - 31]
    BY <1>2 DEF Character
  <2>2. Printable[n - 31] \in Alphabet
    BY <1>1, <2>1 DEF Alphabet
  <2> QED BY <1>1, <2>1, <2>2
<1>3. CASE n \notin 32..126
  <2>1. Character(n) \in {"8bit", "NUL", "TAB", "LF", "CR", "CTL"}
    BY <1>3 DEF Character
  <2>2. n \in 1..255 => Character(n) # "NUL"
    BY <1>3 DEF Character
  <2> QED BY <2>1, <2>2 DEF Alphabet
<1> QED BY <1>2, <1>3

\* What one digit is worth.
LEMMA ValueIs ==
  ASSUME NEW c \in Hexadecimals
  PROVE  Value[c] \in 0..15
<1>1. \E n \in 1..22 : HexDigit[n] = c
  BY DEF Hexadecimals
<1> DEFINE i == CHOOSE n \in 1..22 : HexDigit[n] = c
<1>2. i \in 1..22
  BY <1>1
<1>3. Value[c] = IF i > 16 THEN i - 7 ELSE i - 1
  BY DEF Value
<1> HIDE DEF i
<1> QED BY <1>2, <1>3

Marks == {"NUL", "%", "?", "/", ":"}

\* The marks of an URI have classes of their own, and its digits those of digits.
LEMMA Classes ==
  ASSUME NEW c
  PROVE  /\ UriClass(c) \in Marks \cup {"h", "t", "p", "s"} => UriClass(c) = c
         /\ c \in Marks => UriClass(c) = c
         /\ UriClass(c) = "digit" => c \in Digits
         /\ UriClass(c) \in HexDigits => c \in Hexadecimals
         /\ UriClass(c) \in Letters \cup {"mark", "delimiter"} => c \notin Marks
<1>1. Digits \cap Marks = {} /\ Hexadecimals \cap Marks = {}
  BY DEF Digits, Hexadecimals, HexDigit, Marks
<1>2. Digits \subseteq Hexadecimals
  BY DEF Digits, Hexadecimals
<1>3. Hexadecimals \cap {"h", "t", "p", "s"} = {}
  BY DEF Digits, Hexadecimals, HexDigit
<1> QED BY <1>1, <1>2, <1>3, SMTT(60) DEF UriClass, Letters, HexDigits, Marks

-----------------------------------------------------------------------------
(* What a text with % stands for. *)

\* What it stands for from its character i on, by what it does behind that.
Unquote(raw, from, i) ==
  IF i > Len(raw) THEN <<>>
  ELSE IF raw[i] # "%" THEN <<raw[i]>> \o from[i + 1]
  ELSE IF i + 1 <= Len(raw) /\ raw[i + 1] = "%" THEN <<"%">> \o from[i + 2]
  ELSE IF i + 2 <= Len(raw)
  THEN <<Character(16 * Value[raw[i + 1]] + Value[raw[i + 2]])>> \o from[i + 3]
  ELSE <<>>

Unquotes(raw, m, f) == f = [i \in m..(Len(raw) + 1) |-> Unquote(raw, f, i)]

\* One step of the decoding gives a text, when those behind it do.
LEMMA UnquoteIn ==
  ASSUME NEW raw \in Seq(Alphabet), NEW i \in 1..(Len(raw) + 1), NEW f,
         \A j \in (i + 1)..(Len(raw) + 1) : f[j] \in Seq(Alphabet)
  PROVE  Unquote(raw, f, i) \in Seq(Alphabet)
<1> DEFINE n == Len(raw)
           c == Character(16 * Value[raw[i + 1]] + Value[raw[i + 2]])
<1>0. n \in Nat /\ i \in Nat
  BY LenProperties
<1>1. "%" \in Alphabet
  <2>1. "%" = Printable[6] /\ 6 \in DOMAIN Printable
    BY DEF Printable
  <2> HIDE DEF c
  <2> QED BY <2>1, Zenon DEF Alphabet
<1>2. c \in Alphabet
  BY CharacterIs
<1> HIDE DEF c
<1>3. ASSUME NEW d \in Alphabet, NEW s \in Seq(Alphabet)
      PROVE  <<d>> \o s \in Seq(Alphabet)
  <2>1. <<d>> \in Seq(Alphabet)
    OBVIOUS
  <2> QED BY <2>1, ConcatProperties
<1>4. <<>> \in Seq(Alphabet)
  OBVIOUS
<1>5. CASE i > n
  BY <1>4, <1>5 DEF Unquote
<1>6. CASE i <= n
  <2>1. raw[i] \in Alphabet
    BY <1>0, <1>6, ElementOfSeq
  <2>2. /\ f[i + 1] \in Seq(Alphabet)
        /\ i + 1 <= n => f[i + 2] \in Seq(Alphabet)
        /\ i + 2 <= n => f[i + 3] \in Seq(Alphabet)
    <3>1. i + 1 \in (i + 1)..(n + 1)
      BY <1>0, <1>6
    <3>2. i + 1 <= n => i + 2 \in (i + 1)..(n + 1)
      BY <1>0
    <3>3. i + 2 <= n => i + 3 \in (i + 1)..(n + 1)
      BY <1>0
    <3> QED BY <3>1, <3>2, <3>3
  <2>3. /\ <<raw[i]>> \o f[i + 1] \in Seq(Alphabet)
        /\ i + 1 <= n => <<"%">> \o f[i + 2] \in Seq(Alphabet)
        /\ i + 2 <= n => <<c>> \o f[i + 3] \in Seq(Alphabet)
    BY <1>1, <1>2, <1>3, <2>1, <2>2
  <2> QED BY <1>0, <1>4, <1>6, <2>3 DEF Unquote, c
<1> QED BY <1>0, <1>5, <1>6

\* A decoding that is defined from a character on is defined from the one before.
LEMMA UnquotesBefore ==
  ASSUME NEW raw \in Seq(Alphabet), NEW m \in 1..Len(raw), NEW f, Unquotes(raw, m + 1, f)
  PROVE  \E g : Unquotes(raw, m, g)
<1> DEFINE n == Len(raw)
           g == [i \in m..(n + 1) |-> IF i = m THEN Unquote(raw, f, m) ELSE f[i]]
<1>0. n \in Nat /\ m \in Nat /\ m + 1 \in Nat
  BY LenProperties
<1>1. f = [i \in (m + 1)..(n + 1) |-> Unquote(raw, f, i)]
  BY DEF Unquotes
<1>2. \A i \in (m + 1)..(n + 1) : g[i] = f[i]
  BY <1>0
<1>3. ASSUME NEW i \in m..(n + 1)
      PROVE  Unquote(raw, g, i) = Unquote(raw, f, i)
  <2>1. i <= n => i + 1 \in (m + 1)..(n + 1)
    BY <1>0
  <2>2. i + 1 <= n => i + 2 \in (m + 1)..(n + 1)
    BY <1>0
  <2>3. i + 2 <= n => i + 3 \in (m + 1)..(n + 1)
    BY <1>0
  <2> HIDE DEF g
  <2>4. /\ i <= n => g[i + 1] = f[i + 1]
        /\ i + 1 <= n => g[i + 2] = f[i + 2]
        /\ i + 2 <= n => g[i + 3] = f[i + 3]
    BY <1>2, <2>1, <2>2, <2>3
  <2>5. i > n \/ i <= n
    BY <1>0
  <2> QED BY <2>4, <2>5 DEF Unquote
<1>4. ASSUME NEW i \in m..(n + 1)
      PROVE  g[i] = Unquote(raw, g, i)
  <2>1. CASE i = m
    BY <1>3, <2>1
  <2>2. CASE i # m
    <3>1. i \in (m + 1)..(n + 1)
      BY <1>0, <2>2
    <3>2. f[i] = Unquote(raw, f, i)
      BY <1>1, <3>1
    <3> QED BY <1>2, <1>3, <3>1, <3>2
  <2> QED BY <2>1, <2>2
<1>5. g = [i \in m..(n + 1) |-> g[i]]
  OBVIOUS
<1> HIDE DEF g
<1> QED BY <1>4, <1>5 DEF Unquotes

\* So it is defined from the first one on: what Unquoting says of itself is true of it.
LEMMA UnquotingIs ==
  ASSUME NEW raw \in Seq(Alphabet)
  PROVE  /\ Unquoted(raw) = Unquoting(raw)[1]
         /\ \A i \in 1..(Len(raw) + 1) :
              /\ Unquoting(raw)[i] = Unquote(raw, Unquoting(raw), i)
              /\ Unquoting(raw)[i] \in Seq(Alphabet)
<1> DEFINE n == Len(raw)
           T == {k \in Nat : \E f : Unquotes(raw, n + 1 - k, f)}
<1>0. n \in Nat
  BY LenProperties
<1>1. 0 \in T
  <2> DEFINE f == [i \in (n + 1)..(n + 1) |-> <<>>]
  <2>1. \A i \in (n + 1)..(n + 1) : i > n /\ f[i] = <<>>
    BY <1>0
  <2>2. f = [i \in (n + 1)..(n + 1) |-> Unquote(raw, f, i)]
    <3>1. f = [i \in (n + 1)..(n + 1) |-> f[i]]
      OBVIOUS
    <3> HIDE DEF f
    <3>2. \A i \in (n + 1)..(n + 1) : f[i] = Unquote(raw, f, i)
      BY <2>1 DEF Unquote
    <3> QED BY <3>1, <3>2
  <2>3. Unquotes(raw, n + 1, f)
    BY <2>1, <2>2 DEF Unquotes
  <2> QED BY <1>0, <2>3
<1>2. ASSUME NEW k \in 1..n, k - 1 \in T PROVE k \in T
  <2>1. PICK f : Unquotes(raw, n + 1 - (k - 1), f)
    BY <1>2
  <2>2. n + 1 - k \in 1..n /\ n + 1 - (k - 1) = (n + 1 - k) + 1
    BY <1>0
  <2>3. \E g : Unquotes(raw, n + 1 - k, g)
    BY <2>1, <2>2, UnquotesBefore
  <2> QED BY <1>0, <2>3
<1> HIDE DEF T
<1>3. n \in T
  <2>1. \A k \in 1..n : k - 1 \in T => k \in T
    BY <1>2
  <2>2. n \in 0..n
    BY <1>0
  <2> QED BY <1>0, <1>1, <2>1, <2>2, Upwards, Zenon
<1>4. PICK f : Unquotes(raw, 1, f)
  <2>1. n + 1 - n = 1
    BY <1>0
  <2> QED BY <1>3, <2>1 DEF T
<1> DEFINE Is(g) == g = [i \in 1..(n + 1) |-> Unquote(raw, g, i)]
           u == CHOOSE g : Is(g)
<1>5. Unquoting(raw) = u
  BY DEF Unquoting, Unquote
<1>6. Is(f)
  BY <1>4 DEF Unquotes
<1>7. Is(u)
  BY <1>6
<1> HIDE DEF u
<1>8. \A i \in 1..(n + 1) : u[i] = Unquote(raw, u, i)
  BY <1>7
<1> DEFINE S == {k \in 0..n : \A j \in (n + 1 - k)..(n + 1) : u[j] \in Seq(Alphabet)}
<1>9. 0 \in S
  <2>1. n + 1 \in 1..(Len(raw) + 1) /\ \A j \in (n + 1 + 1)..(Len(raw) + 1) : FALSE
    BY <1>0
  <2>2. Unquote(raw, u, n + 1) \in Seq(Alphabet)
    BY <2>1, UnquoteIn
  <2>3. \A j \in (n + 1 - 0)..(n + 1) : j = n + 1
    BY <1>0
  <2> QED BY <1>0, <1>8, <2>1, <2>2, <2>3
<1>10. ASSUME NEW k \in 1..n, k - 1 \in S PROVE k \in S
  <2> DEFINE i == n + 1 - k
  <2>1. i \in 1..(n + 1) /\ k \in 0..n /\ n + 1 - (k - 1) = i + 1
    BY <1>0
  <2>2. \A j \in (i + 1)..(n + 1) : u[j] \in Seq(Alphabet)
    BY <1>10, <2>1
  <2>3. u[i] \in Seq(Alphabet)
    BY <1>8, <2>1, <2>2, UnquoteIn
  <2>4. \A j \in i..(n + 1) : j = i \/ j \in (i + 1)..(n + 1)
    BY <2>1
  <2> QED BY <2>1, <2>2, <2>3, <2>4
<1> HIDE DEF S
<1>11. n \in S
  <2>1. \A k \in 1..n : k - 1 \in S => k \in S
    BY <1>10
  <2>2. n \in 0..n
    BY <1>0
  <2> QED BY <1>0, <1>9, <2>1, <2>2, Upwards, Zenon
<1>12. \A i \in 1..(n + 1) : u[i] \in Seq(Alphabet)
  <2>1. n + 1 - n = 1
    BY <1>0
  <2> QED BY <1>11, <2>1 DEF S
<1> QED BY <1>5, <1>8, <1>12 DEF Unquoted

-----------------------------------------------------------------------------
(* Parts of a text. *)

\* What is behind the first a characters, up to the b-th.
Part(s, a, b) == SubSeq(s, a + 1, b)

\* The characters of a part.
LEMMA PartIs ==
  ASSUME NEW S, NEW s \in Seq(S), NEW a \in Nat, NEW b \in a..Len(s)
  PROVE  /\ Part(s, a, b) \in Seq(S) /\ Len(Part(s, a, b)) = b - a
         /\ \A i \in 1..(b - a) : Part(s, a, b)[i] = s[a + i]
<1>0. Len(s) \in Nat /\ b \in Nat /\ a + 1 \in Int /\ b \in Int
  BY LenProperties
<1>1. \A i \in (a + 1)..b : s[i] \in S
  BY <1>0, ElementOfSeq
<1>2. /\ Part(s, a, b) \in Seq(S)
      /\ Len(Part(s, a, b)) = IF a + 1 <= b THEN b - (a + 1) + 1 ELSE 0
      /\ \A i \in 1..(b - (a + 1) + 1) : Part(s, a, b)[i] = s[(a + 1) + i - 1]
  BY <1>0, <1>1, SubSeqProperties DEF Part
<1>3. b - (a + 1) + 1 = b - a /\ \A i \in 1..(b - a) : (a + 1) + i - 1 = a + i
  BY <1>0
<1> QED BY <1>0, <1>2, <1>3

\* The first of them.
LEMMA PartFirst ==
  ASSUME NEW S, NEW s \in Seq(S), NEW a \in Nat, NEW b \in a..Len(s), 1 \in 1..(b - a)
  PROVE  Part(s, a, b)[1] = s[a + 1]
BY PartIs

\* A text is a part when it has its characters.
LEMMA PartEqual ==
  ASSUME NEW S, NEW s \in Seq(S), NEW a \in Nat, NEW b \in a..Len(s),
         NEW t \in Seq(S), Len(t) = b - a, \A i \in 1..(b - a) : t[i] = s[a + i]
  PROVE  t = Part(s, a, b)
<1>1. /\ Part(s, a, b) \in Seq(S) /\ Len(Part(s, a, b)) = Len(t)
      /\ \A i \in 1..Len(t) : t[i] = Part(s, a, b)[i]
  BY PartIs
<1> QED BY <1>1, SeqEqual, Zenon

\* A part of a part is a part of the whole.
LEMMA PartOfPart ==
  ASSUME NEW S, NEW s \in Seq(S), NEW a \in Nat, NEW b \in a..Len(s),
         NEW c \in Nat, NEW d \in c..(b - a)
  PROVE  Part(Part(s, a, b), c, d) = Part(s, a + c, a + d)
<1> DEFINE t == Part(s, a, b)
           u == Part(t, c, d)
<1>0. Len(s) \in Nat
  BY LenProperties
<1>1. t \in Seq(S) /\ Len(t) = b - a /\ \A i \in 1..(b - a) : t[i] = s[a + i]
  BY PartIs
<1> HIDE DEF t
<1>2. d \in c..Len(t)
  BY <1>1
<1>3. u \in Seq(S) /\ Len(u) = d - c /\ \A i \in 1..(d - c) : u[i] = t[c + i]
  BY <1>1, <1>2, PartIs, ZenonT(30)
<1> HIDE DEF u
<1>4. a + c \in Nat /\ a + d \in (a + c)..Len(s) /\ (a + d) - (a + c) = d - c
  BY <1>0
<1>5. \A i \in 1..(d - c) : u[i] = s[(a + c) + i]
  <2>1. \A i \in 1..(d - c) : c + i \in 1..(b - a) /\ a + (c + i) = (a + c) + i
    BY <1>0
  <2> QED BY <1>1, <1>3, <2>1
<1>6. u = Part(s, a + c, a + d)
  <2> DEFINE e == a + c
             f == a + d
  <2>1. e \in Nat /\ f \in e..Len(s) /\ f - e = d - c
    BY <1>4
  <2>2. u \in Seq(S) /\ Len(u) = f - e /\ \A i \in 1..(f - e) : u[i] = s[e + i]
    <3> HIDE DEF f
    <3>1. Len(u) = f - e
      BY <1>3, <2>1, Zenon
    <3>2. 1..(f - e) = 1..(d - c)
      BY <2>1, Zenon
    <3> QED BY <1>3, <1>5, <3>1, <3>2, Zenon
  <2> HIDE DEF e, f
  <2>3. u = Part(s, e, f)
    BY <2>1, <2>2, PartEqual, Zenon
  <2> QED BY <2>3 DEF e, f
<1> QED BY <1>6 DEF t, u

\* All of a text is a part of it.
LEMMA PartWhole ==
  ASSUME NEW S, NEW s \in Seq(S)
  PROVE  Part(s, 0, Len(s)) = s
BY SubSeqFull DEF Part

\* What is before the first of some characters, when that is known.
LEMMA BeforeIs ==
  ASSUME NEW S, NEW s \in Seq(S), NEW set, NEW p \in 0..Len(s),
         \A j \in 1..p : s[j] \notin set, p = Len(s) \/ s[p + 1] \in set
  PROVE  Before(s, set) = Part(s, 0, p)
<1> DEFINE ends == {i \in 1..Len(s) : s[i] \in set}
<1>0. Len(s) \in Nat
  BY LenProperties
<1>1. CASE p = Len(s)
  <2>1. ends = {}
    BY <1>1
  <2> QED BY <1>1, <2>1, PartWhole DEF Before
<1>2. CASE p # Len(s)
  <2>1. p + 1 \in ends
    BY <1>0, <1>2
  <2>2. \A j \in ends : p + 1 <= j
    BY <1>0
  <2>3. \A i \in ends : (\A j \in ends : i <= j) => i = p + 1
    BY <1>0, <2>1, <2>2
  <2> HIDE DEF ends
  <2>4. (CHOOSE i \in ends : \A j \in ends : i <= j) = p + 1
    BY <2>1, <2>2, <2>3
  <2>5. Before(s, set) = SubSeq(s, 1, (p + 1) - 1)
    BY <2>1, <2>4 DEF Before, ends
  <2> QED BY <1>0, <2>5 DEF Part
<1> QED BY <1>1, <1>2

\* What is before the first of some characters in a part.
LEMMA BeforeInPart ==
  ASSUME NEW S, NEW s \in Seq(S), NEW set, NEW a \in Nat, NEW b \in a..Len(s), NEW p \in a..b,
         \A j \in (a + 1)..p : s[j] \notin set, p = b \/ s[p + 1] \in set
  PROVE  Before(Part(s, a, b), set) = Part(s, a, p)
<1> DEFINE t == Part(s, a, b)
           q == p - a
<1>0. Len(s) \in Nat
  BY LenProperties
<1>1. t \in Seq(S) /\ Len(t) = b - a /\ \A i \in 1..(b - a) : t[i] = s[a + i]
  BY PartIs, Zenon
<1> HIDE DEF t
<1>2. q \in 0..Len(t) /\ a + 0 = a /\ a + q = p
  BY <1>0, <1>1
<1>3. \A j \in 1..q : t[j] \notin set
  <2>1. \A j \in 1..q : j \in 1..(b - a) /\ a + j \in (a + 1)..p
    BY <1>0
  <2> QED BY <1>1, <2>1
<1>4. q = Len(t) \/ t[q + 1] \in set
  <2>1. p # b => q + 1 \in 1..(b - a) /\ a + (q + 1) = p + 1
    BY <1>0
  <2> QED BY <1>0, <1>1, <2>1
<1>5. Before(t, set) = Part(t, 0, q)
  BY <1>1, <1>2, <1>3, <1>4, BeforeIs
<1>6. Part(t, 0, q) = Part(s, a, p)
  <2>1. 0 \in Nat /\ q \in 0..(b - a)
    BY <1>1, <1>2
  <2>2. Part(Part(s, a, b), 0, q) = Part(s, a + 0, a + q)
    BY <2>1, PartOfPart
  <2> QED BY <1>2, <2>2 DEF t
<1> QED BY <1>5, <1>6 DEF t

\* What is behind the first characters of a part.
LEMMA RestOfPart ==
  ASSUME NEW S, NEW s \in Seq(S), NEW a \in Nat, NEW b \in a..Len(s), NEW c \in 0..(b - a)
  PROVE  Rest(Part(s, a, b), c) = Part(s, a + c, b)
<1>1. Len(Part(s, a, b)) = b - a /\ c \in Nat /\ b - a \in c..(b - a) /\ a + (b - a) = b
  <2>1. PICK n \in Nat : n = Len(s)
    BY LenProperties
  <2>2. Len(Part(s, a, b)) = b - a
    BY PartIs, Zenon
  <2>3. c \in Nat /\ b - a \in c..(b - a) /\ a + (b - a) = b
    BY <2>1
  <2> QED BY <2>2, <2>3
<1>2. Part(Part(s, a, b), c, b - a) = Part(s, a + c, a + (b - a))
  BY <1>1, PartOfPart
<1> QED BY <1>1, <1>2 DEF Rest, Part

\* The string in a buffer, when the NUL that ends it is known.
LEMMA StringIs ==
  ASSUME NEW S, NEW s \in Seq(S), NEW a \in Nat, NEW b \in a..Len(s), b < Len(s),
         s[b + 1] = "NUL", \A j \in (a + 1)..b : s[j] # "NUL"
  PROVE  StringAt(s, a) = Part(s, a, b)
<1> DEFINE Ends_(i) == s[i] = "NUL" /\ \A j \in (a + 1)..(i - 1) : s[j] # "NUL"
<1>0. Len(s) \in Nat
  BY LenProperties
<1>1. b + 1 \in (a + 1)..Len(s) /\ (b + 1) - 1 = b
  BY <1>0
<1>2. Ends_(b + 1)
  BY <1>1
<1>3. \A i \in (a + 1)..Len(s) : Ends_(i) => i = b + 1
  <2> SUFFICES ASSUME NEW i \in (a + 1)..Len(s), Ends_(i), i # b + 1 PROVE FALSE
    OBVIOUS
  <2>1. CASE i < b + 1
    <3>1. i \in (a + 1)..b
      BY <1>0, <2>1
    <3> QED BY <3>1
  <2>2. CASE i > b + 1
    <3>1. b + 1 \in (a + 1)..(i - 1)
      BY <1>0, <2>2
    <3> QED BY <3>1
  <2> QED BY <1>0, <2>1, <2>2
<1>4. (CHOOSE i \in (a + 1)..Len(s) : Ends_(i)) = b + 1
  <2> HIDE DEF Ends_
  <2> QED BY <1>1, <1>2, <1>3
<1> QED BY <1>1, <1>4 DEF StringAt, Part

\* Where some character comes first behind the first a, by the characters before it.
Stop(s, a, set) ==
  CHOOSE p \in a..Len(s) : (p = Len(s) \/ s[p + 1] \in set) /\ \A j \in (a + 1)..p : s[j] \notin set

\* The first of some characters from a place on, or the end.
LEMMA StopIs ==
  ASSUME NEW S, NEW s \in Seq(S), NEW set, NEW a \in 0..Len(s)
  PROVE  /\ Stop(s, a, set) \in a..Len(s)
         /\ Stop(s, a, set) = Len(s) \/ s[Stop(s, a, set) + 1] \in set
         /\ \A j \in (a + 1)..Stop(s, a, set) : s[j] \notin set
<1> DEFINE Is(p) == (p = Len(s) \/ s[p + 1] \in set) /\ \A j \in (a + 1)..p : s[j] \notin set
           T == {p \in a..Len(s) : p = Len(s) \/ s[p + 1] \in set}
<1>0. Len(s) \in Nat
  BY LenProperties
<1>1. PICK p \in T : \A q \in T : p <= q
  <2>1. T \in SUBSET Nat /\ Len(s) \in T
    BY <1>0
  <2> QED BY <2>1, LeastOf
<1>2. \A j \in (a + 1)..p : s[j] \notin set
  <2> SUFFICES ASSUME NEW j \in (a + 1)..p, s[j] \in set PROVE FALSE
    OBVIOUS
  <2>1. j - 1 \in a..Len(s) /\ (j - 1) + 1 = j /\ ~(p <= j - 1)
    BY <1>0
  <2>2. j - 1 \in T
    BY <2>1
  <2> QED BY <1>1, <2>1, <2>2
<1>3. p \in a..Len(s) /\ Is(p)
  BY <1>1, <1>2
<1>4. Stop(s, a, set) = CHOOSE q \in a..Len(s) : Is(q)
  BY DEF Stop
<1> HIDE DEF Is
<1>5. Stop(s, a, set) \in a..Len(s) /\ Is(Stop(s, a, set))
  BY <1>3, <1>4
<1> QED BY <1>5 DEF Is

-----------------------------------------------------------------------------
(* The line, and the URI in it. *)

\* What is before the first of some characters has none of them.
LEMMA BeforeFree ==
  ASSUME NEW S, NEW s \in Seq(S), NEW set
  PROVE  Before(s, set) \in Seq(S) /\ \A i \in 1..Len(Before(s, set)) : Before(s, set)[i] \notin set
<1> DEFINE p == Stop(s, 0, set)
<1>0. Len(s) \in Nat /\ 0 \in 0..Len(s)
  BY LenProperties
<1>1. /\ p \in 0..Len(s) /\ (p = Len(s) \/ s[p + 1] \in set)
      /\ \A j \in (0 + 1)..p : s[j] \notin set
  BY <1>0, StopIs
<1> HIDE DEF p
<1>2. \A j \in 1..p : s[j] \notin set
  BY <1>1
<1>3. Before(s, set) = Part(s, 0, p)
  BY <1>1, <1>2, BeforeIs
<1>4. /\ Part(s, 0, p) \in Seq(S) /\ Len(Part(s, 0, p)) = p - 0
      /\ \A i \in 1..(p - 0) : Part(s, 0, p)[i] = s[0 + i]
  <2>1. 0 \in Nat /\ p \in 0..Len(s)
    BY <1>1
  <2> QED BY <2>1, PartIs, Zenon
<1> QED BY <1>1, <1>2, <1>3, <1>4

\* The first characters of a text are a text.
LEMMA SubSeqIn ==
  ASSUME NEW S, NEW s \in Seq(S), NEW b \in Int, b <= Len(s)
  PROVE  SubSeq(s, 1, b) \in Seq(S)
<1>1. \A i \in 1..b : s[i] \in S
  <2>1. Len(s) \in Nat
    BY LenProperties
  <2> QED BY <2>1, ElementOfSeq
<1> QED BY <1>1, SubSeqProperties

\* The request line, which ends before a NUL.
LEMMA LineTextIs ==
  ASSUME sent.bytes \in Seq(Alphabet)
  PROVE  LineText \in Seq(Alphabet) /\ \A i \in 1..Len(LineText) : LineText[i] # "NUL"
<1> DEFINE s == SubSeq(sent.bytes, 1, LineEnd(0))
           text == SubSeq(s, 1, Len(s) - 1)
<1>1. s \in Seq(Alphabet)
  <2>1. LineEnd(0) \in Int /\ LineEnd(0) <= Len(sent.bytes) /\ Len(sent.bytes) \in Nat
    BY LenProperties, LineEndIs
  <2> QED BY <2>1, SubSeqIn
<1> HIDE DEF s
<1>2. Len(s) \in Nat
  BY <1>1, LenProperties
<1>3. text \in Seq(Alphabet)
  BY <1>1, <1>2, SubSeqIn
<1>4. Stripped(s) = IF text # <<>> /\ text[Len(text)] = "CR"
                    THEN SubSeq(text, 1, Len(text) - 1) ELSE text
  BY DEF Stripped
<1> HIDE DEF text
<1>5. Len(text) \in Nat
  BY <1>3, LenProperties
<1>6. SubSeq(text, 1, Len(text) - 1) \in Seq(Alphabet)
  BY <1>3, <1>5, SubSeqIn
<1>7. Stripped(s) \in Seq(Alphabet)
  BY <1>3, <1>4, <1>6
<1>8. LineText = Before(Stripped(s), {"NUL"})
  BY DEF LineText, s
<1> QED BY <1>7, <1>8, BeforeFree

\* The line with its words cut: as long as it was with a NUL behind, and words are kept.
LEMMA TokenizedIs ==
  ASSUME NEW text \in Seq(Alphabet)
  PROVE  /\ Tokenized(text) \in Seq(Alphabet) /\ Len(Tokenized(text)) = Len(text) + 1
         /\ Tokenized(text)[Len(text) + 1] = "NUL"
         /\ \A i \in Words(text) : i \in 1..Len(text) /\ Tokenized(text)[i] = text[i]
<1> DEFINE n == Len(text)
           L == Tokenized(text)
<1>0. n \in Nat /\ \A i \in 1..n : text[i] \in Alphabet
  BY LenProperties, ElementOfSeq
<1>1. L = [i \in 1..(n + 1) |->
             IF i = n + 1 \/ (i > 1 /\ text[i] \in Blank /\ text[i - 1] \notin Blank)
             THEN "NUL" ELSE text[i]]
  BY DEF Tokenized
<1>2. "NUL" \in Alphabet
  BY DEF Alphabet
<1>3. \A i \in 1..(n + 1) : L[i] \in Alphabet
  BY <1>0, <1>1, <1>2
<1>4. L[n + 1] = "NUL"
  BY <1>0, <1>1
<1>5. ASSUME NEW i \in Words(text) PROVE i \in 1..n /\ L[i] = text[i]
  <2>1. i \in 1..n /\ text[i] \notin Blank
    BY DEF Words
  <2> QED BY <1>0, <1>1, <2>1
<1>6. L \in [1..(n + 1) -> Alphabet]
  BY <1>1, <1>3
<1> HIDE DEF L
<1>7. L \in Seq(Alphabet) /\ Len(L) = n + 1
  <2>1. n + 1 \in Nat
    BY <1>0
  <2>2. L \in Seq(Alphabet)
    BY <1>6, <2>1, SeqDef
  <2> QED BY <1>6, <2>1, <2>2, LenProperties
<1> QED BY <1>4, <1>5, <1>7 DEF L

\* A line is split in one way only.
LEMMA OneSplit ==
  ASSUME NEW words \in SUBSET Nat, NEW t \in Split(words)
  PROVE  (CHOOSE u \in Split(words) : TRUE) = t
<1> DEFINE u == CHOOSE u \in Split(words) : TRUE
<1>1. u \in Split(words)
  OBVIOUS
<1> HIDE DEF u
<1>2. /\ t \in words \X words \X words /\ t[1] < t[2] /\ t[2] < t[3] /\ words = {t[1], t[2], t[3]}
      /\ u \in words \X words \X words /\ u[1] < u[2] /\ u[2] < u[3] /\ words = {u[1], u[2], u[3]}
  BY <1>1 DEF Split
<1>3. t[1] = u[1] /\ t[2] = u[2] /\ t[3] = u[3]
  BY <1>2
<1>4. t = <<t[1], t[2], t[3]>> /\ u = <<u[1], u[2], u[3]>>
  BY <1>2
<1> QED BY <1>3, <1>4 DEF u

\* The target is in the line, from the second word on, and NUL ends it.
Holds(buf, start, target) ==
  /\ start \in Nat \ {0} /\ start + Len(target) <= Len(buf)
  /\ \A j \in 1..Len(target) : buf[start - 1 + j] = target[j] /\ target[j] # "NUL"
  /\ buf[start + Len(target)] = "NUL"

\* The second word is in the buffer, from where the URI is read.
LEMMA TargetIs ==
  ASSUME sent.bytes \in Seq(Alphabet), NEW t \in Split(Words(LineText))
  PROVE  /\ Tokenized(LineText) \in Seq(Alphabet)
         /\ RawTarget \in Seq(Alphabet) /\ Len(RawTarget) \in Nat \ {0}
         /\ Holds(Tokenized(LineText), t[2], RawTarget)
<1> DEFINE L == Tokenized(LineText)
           a == t[2] - 1
           b == Stop(L, a, {"NUL"})
<1>1. /\ L \in Seq(Alphabet) /\ Len(L) = Len(LineText) + 1 /\ L[Len(LineText) + 1] = "NUL"
      /\ \A i \in Words(LineText) : i \in 1..Len(LineText) /\ L[i] = LineText[i]
  BY LineTextIs, TokenizedIs
<1>2. t[2] \in Words(LineText) /\ Words(LineText) \in SUBSET Nat
  BY DEF Split, Words
<1>3. L[t[2]] # "NUL" /\ t[2] \in 1..Len(LineText) /\ Len(LineText) \in Nat
  BY <1>1, <1>2, LineTextIs, LenProperties
<1>4. RawTarget = StringAt(L, a)
  BY <1>2, OneSplit DEF RawTarget, Word
<1> HIDE DEF L
<1>5. a \in 0..Len(L) /\ a + 1 = t[2] /\ Len(L) \in Nat
  BY <1>1, <1>3
<1>6. /\ b \in a..Len(L) /\ (b = Len(L) \/ L[b + 1] \in {"NUL"})
      /\ \A j \in (a + 1)..b : L[j] \notin {"NUL"}
  BY <1>1, <1>5, StopIs
<1>a. a \in Nat
  BY <1>5
<1> HIDE DEF a, b
<1>7. b < Len(L) /\ L[b + 1] = "NUL"
  <2>1. b # Len(L)
    <3> SUFFICES ASSUME b = Len(L) PROVE FALSE
      OBVIOUS
    <3>1. Len(L) \in (a + 1)..b
      BY <1>1, <1>3, <1>5
    <3> QED BY <1>1, <1>6, <3>1
  <2> QED BY <1>5, <1>6, <2>1
<1>8. b >= a + 1
  <2>1. b # a
    BY <1>3, <1>5, <1>7
  <2> QED BY <1>5, <1>6, <2>1
<1>9. RawTarget = Part(L, a, b)
  <2>1. \A j \in (a + 1)..b : L[j] # "NUL"
    BY <1>6
  <2> QED BY <1>1, <1>4, <1>a, <1>6, <1>7, <2>1, StringIs
<1>10. /\ RawTarget \in Seq(Alphabet) /\ Len(RawTarget) = b - a
       /\ \A i \in 1..(b - a) : RawTarget[i] = L[a + i]
  <2>1. L \in Seq(Alphabet) /\ b \in a..Len(L)
    BY <1>1, <1>6
  <2>2. /\ Part(L, a, b) \in Seq(Alphabet) /\ Len(Part(L, a, b)) = b - a
        /\ \A i \in 1..(b - a) : Part(L, a, b)[i] = L[a + i]
    BY <1>a, <2>1, PartIs
  <2> QED BY <1>9, <2>2, Zenon
<1>11. Len(RawTarget) \in Nat \ {0} /\ t[2] + Len(RawTarget) = b + 1
  BY <1>3, <1>5, <1>6, <1>8, <1>10
<1>12. \A j \in 1..Len(RawTarget) : L[t[2] - 1 + j] = RawTarget[j] /\ RawTarget[j] # "NUL"
  <2>1. \A j \in 1..(b - a) : a + j \in (a + 1)..b /\ t[2] - 1 + j = a + j
    BY <1>5, <1>6
  <2>2. \A j \in 1..(b - a) : L[t[2] - 1 + j] = L[a + j] /\ L[a + j] # "NUL"
    BY <1>6, <2>1
  <2> QED BY <1>10, <2>2
<1>13. Holds(L, t[2], RawTarget)
  BY <1>3, <1>5, <1>6, <1>7, <1>11, <1>12 DEF Holds
<1> QED BY <1>1, <1>10, <1>11, <1>13 DEF L

-----------------------------------------------------------------------------
(* A text that is copied with its % undone. *)

\* The first m characters of a text are written behind the first base characters of a buffer.
Copies(buf, base, w, raw, m) ==
  /\ base \in 0..w /\ m \in 0..Len(raw)
  /\ \A j \in (base + 1)..w : buf[j] # "NUL"
  /\ Part(buf, base, w) \o Unquoting(raw)[m + 1] = Unquoted(raw)

\* A string that is in a buffer, in its first characters.
Ended(buf, base, text, limit) ==
  /\ base \in Nat /\ base + Len(text) + 1 <= limit
  /\ buf[base + Len(text) + 1] = "NUL"
  /\ \A j \in 1..Len(text) : buf[base + j] = text[j] /\ text[j] # "NUL"

\* A buffer with other characters, but not in its beginning.
Agree(buf, new, m) ==
  /\ new \in Seq(Alphabet) /\ Len(new) = Len(buf)
  /\ \A j \in 1..m : new[j] = buf[j]

\* A part that is not overwritten stays.
LEMMA PartStays ==
  ASSUME NEW buf \in Seq(Alphabet), NEW b \in 0..Len(buf), NEW new, Agree(buf, new, b),
         NEW a \in 0..b
  PROVE  Part(new, a, b) = Part(buf, a, b)
<1>0. Len(buf) \in Nat /\ a \in Nat /\ b \in a..Len(buf) /\ new \in Seq(Alphabet) /\ b \in a..Len(new)
  BY LenProperties DEF Agree
<1>1. /\ Part(new, a, b) \in Seq(Alphabet) /\ Len(Part(new, a, b)) = b - a
      /\ \A i \in 1..(b - a) : Part(new, a, b)[i] = new[a + i]
  BY <1>0, PartIs
<1>2. \A i \in 1..(b - a) : new[a + i] = buf[a + i]
  <2>1. \A i \in 1..(b - a) : a + i \in 1..b
    BY <1>0
  <2> QED BY <2>1 DEF Agree
<1> DEFINE t == Part(new, a, b)
<1>3. t \in Seq(Alphabet) /\ Len(t) = b - a /\ \A i \in 1..(b - a) : t[i] = buf[a + i]
  BY <1>1, <1>2
<1> HIDE DEF t
<1>4. t = Part(buf, a, b)
  BY <1>0, <1>3, PartEqual
<1> QED BY <1>4 DEF t

\* So does a string,
LEMMA EndedStays ==
  ASSUME NEW buf, NEW base, NEW text \in Seq(Alphabet), NEW limit \in Nat, Ended(buf, base, text, limit),
         NEW new, Agree(buf, new, limit), NEW more \in Nat, limit <= more
  PROVE  Ended(new, base, text, more)
<1>0. Len(text) \in Nat /\ base \in Nat /\ base + Len(text) + 1 <= limit
  BY LenProperties DEF Ended
<1>1. base + Len(text) + 1 \in 1..limit /\ \A j \in 1..Len(text) : base + j \in 1..limit
  BY <1>0
<1>2. new[base + Len(text) + 1] = "NUL"
  BY <1>1 DEF Ended, Agree
<1>3. \A j \in 1..Len(text) : new[base + j] = text[j] /\ text[j] # "NUL"
  BY <1>1 DEF Ended, Agree
<1>4. base + Len(text) + 1 <= more
  BY <1>0
<1> QED BY <1>0, <1>2, <1>3, <1>4 DEF Ended

\* which is what is in the buffer.
LEMMA EndedString ==
  ASSUME NEW buf \in Seq(Alphabet), NEW base, NEW text \in Seq(Alphabet), Ended(buf, base, text, Len(buf))
  PROVE  StringAt(buf, base) = text
<1> DEFINE b == base + Len(text)
<1>0. Len(text) \in Nat /\ Len(buf) \in Nat /\ base \in Nat /\ b + 1 <= Len(buf)
  BY LenProperties DEF Ended
<1>1. b \in base..Len(buf) /\ b < Len(buf) /\ b - base = Len(text)
  BY <1>0
<1>2. buf[b + 1] = "NUL" /\ \A j \in 1..Len(text) : buf[base + j] = text[j] /\ text[j] # "NUL"
  BY DEF Ended
<1>3. \A j \in (base + 1)..b : buf[j] # "NUL"
  <2>1. \A j \in (base + 1)..b : j - base \in 1..Len(text) /\ base + (j - base) = j
    BY <1>0
  <2> QED BY <1>2, <2>1
<1> HIDE DEF b
<1>4. StringAt(buf, base) = Part(buf, base, b)
  BY <1>0, <1>1, <1>2, <1>3, StringIs
<1>5. text = Part(buf, base, b)
  BY <1>0, <1>1, <1>2, PartEqual
<1> QED BY <1>4, <1>5

\* Texts are put one behind the other in any order.
LEMMA Associates ==
  \A p, q, r \in Seq(Alphabet) : (p \o q) \o r = p \o (q \o r)
BY ConcatAssociative

\* One more character is written, and stands for some of the text.
LEMMA CopyMore ==
  ASSUME NEW buf \in Seq(Alphabet), NEW base, NEW w \in Nat, w + 1 <= Len(buf),
         NEW raw \in Seq(Alphabet), NEW m, Copies(buf, base, w, raw, m),
         NEW new, Agree(buf, new, w), NEW x \in Alphabet, x # "NUL", new[w + 1] = x,
         NEW m2 \in 0..Len(raw), Unquoting(raw)[m + 1] = <<x>> \o Unquoting(raw)[m2 + 1]
  PROVE  Copies(new, base, w + 1, raw, m2)
<1>0. /\ Len(buf) \in Nat /\ base \in 0..w /\ Len(raw) \in Nat /\ w \in 0..Len(buf)
      /\ new \in Seq(Alphabet) /\ Len(new) = Len(buf) /\ base \in Nat
  BY LenProperties DEF Copies, Agree
<1>1. Part(new, base, w) = Part(buf, base, w) /\ Part(new, base, w) \in Seq(Alphabet)
  <2>1. w \in base..Len(new)
    BY <1>0
  <2> QED BY <1>0, <2>1, PartStays, PartIs, SMTT(30)
<1>2. Part(new, base, w + 1) = Part(new, base, w) \o <<x>>
  <2>1. base + 1 \in 1..Len(new) /\ w + 1 \in (base + 1)..Len(new) /\ (w + 1) - 1 = w
    BY <1>0
  <2>2. SubSeq(new, base + 1, w + 1) = SubSeq(new, base + 1, (w + 1) - 1) \o <<new[w + 1]>>
    BY <1>0, <2>1, SubSeqRecursiveSecond
  <2> QED BY <2>1, <2>2 DEF Part
<1>3. Unquoting(raw)[m2 + 1] \in Seq(Alphabet)
  <2>1. m2 + 1 \in 1..(Len(raw) + 1)
    BY <1>0
  <2> QED BY <2>1, UnquotingIs
<1>4. <<x>> \in Seq(Alphabet)
  OBVIOUS
<1>5. Part(new, base, w + 1) \o Unquoting(raw)[m2 + 1]
        = Part(new, base, w) \o (<<x>> \o Unquoting(raw)[m2 + 1])
  <2> DEFINE p == Part(new, base, w)
             o == <<x>>
             u == Unquoting(raw)[m2 + 1]
  <2>1. p \in Seq(Alphabet) /\ o \in Seq(Alphabet) /\ u \in Seq(Alphabet)
    BY <1>1, <1>3, <1>4
  <2> HIDE DEF p, o, u
  <2>2. (p \o o) \o u = p \o (o \o u)
    BY <2>1, Associates, Zenon
  <2> QED BY <1>2, <2>2 DEF p, o, u
<1>6. Part(new, base, w + 1) \o Unquoting(raw)[m2 + 1] = Unquoted(raw)
  BY <1>1, <1>5 DEF Copies
<1>7. \A j \in (base + 1)..(w + 1) : new[j] # "NUL"
  <2>1. \A j \in (base + 1)..(w + 1) : j = w + 1 \/ (j \in (base + 1)..w /\ j \in 1..w)
    BY <1>0
  <2> QED BY <2>1 DEF Copies, Agree
<1>8. base \in 0..(w + 1)
  BY <1>0
<1> QED BY <1>6, <1>7, <1>8 DEF Copies

\* What is copied stays, when it is not overwritten.
LEMMA CopyStays ==
  ASSUME NEW buf \in Seq(Alphabet), NEW base, NEW w \in 0..Len(buf), NEW raw, NEW m,
         Copies(buf, base, w, raw, m), NEW new, Agree(buf, new, w)
  PROVE  Copies(new, base, w, raw, m)
<1>0. base \in 0..w /\ Len(buf) \in Nat
  BY LenProperties DEF Copies
<1>1. Part(new, base, w) = Part(buf, base, w)
  BY <1>0, PartStays
<1>2. \A j \in (base + 1)..w : new[j] = buf[j]
  BY <1>0 DEF Agree
<1> QED BY <1>1, <1>2 DEF Copies

\* A character that stands for itself.
LEMMA CopyPlain ==
  ASSUME NEW buf \in Seq(Alphabet), NEW base, NEW w \in Nat, w + 1 <= Len(buf),
         NEW raw \in Seq(Alphabet), NEW m, Copies(buf, base, w, raw, m),
         NEW new, Agree(buf, new, w), m < Len(raw),
         raw[m + 1] \notin {"%", "NUL"}, new[w + 1] = raw[m + 1]
  PROVE  Copies(new, base, w + 1, raw, m + 1)
<1>0. Len(raw) \in Nat /\ m \in 0..Len(raw)
  BY LenProperties DEF Copies
<1>1. m + 1 \in 1..Len(raw) /\ m + 1 \in 1..(Len(raw) + 1) /\ m + 1 \in 0..Len(raw)
  BY <1>0
<1>2. Unquoting(raw)[m + 1] = Unquote(raw, Unquoting(raw), m + 1)
  BY <1>1, UnquotingIs
<1>3. Unquoting(raw)[m + 1] = <<raw[m + 1]>> \o Unquoting(raw)[(m + 1) + 1]
  BY <1>1, <1>2, SMTT(30) DEF Unquote
<1>4. raw[m + 1] \in Alphabet
  BY <1>1, ElementOfSeq
<1> QED BY <1>1, <1>3, <1>4, CopyMore

\* A % that stands for itself.
LEMMA CopyPercent ==
  ASSUME NEW buf \in Seq(Alphabet), NEW base, NEW w \in Nat, w + 1 <= Len(buf),
         NEW raw \in Seq(Alphabet), NEW m, Copies(buf, base, w, raw, m),
         NEW new, Agree(buf, new, w), m + 1 < Len(raw),
         raw[m + 1] = "%", raw[m + 2] = "%", new[w + 1] = "%"
  PROVE  Copies(new, base, w + 1, raw, m + 2)
<1>0. Len(raw) \in Nat /\ m \in 0..Len(raw)
  BY LenProperties DEF Copies
<1>1. m + 1 \in 1..Len(raw) /\ m + 1 \in 1..(Len(raw) + 1) /\ m + 2 \in 0..Len(raw)
      /\ (m + 1) + 1 = m + 2 /\ (m + 1) + 2 = (m + 2) + 1
  BY <1>0
<1>2. Unquoting(raw)[m + 1] = Unquote(raw, Unquoting(raw), m + 1)
  BY <1>1, UnquotingIs
<1>3. Unquoting(raw)[m + 1] = <<"%">> \o Unquoting(raw)[(m + 1) + 2]
  <2>1. ~(m + 1 > Len(raw)) /\ (m + 1) + 1 <= Len(raw) /\ raw[(m + 1) + 1] = "%"
    BY <1>0, <1>1
  <2> QED BY <1>2, <2>1 DEF Unquote
<1>4. "%" \in Alphabet
  BY <1>1, ElementOfSeq
<1> QED BY <1>1, <1>3, <1>4, CopyMore

\* A % with two digits, for the character that they make.
LEMMA CopyByte ==
  ASSUME NEW buf \in Seq(Alphabet), NEW base, NEW w \in Nat, w + 1 <= Len(buf),
         NEW raw \in Seq(Alphabet), NEW m, Copies(buf, base, w, raw, m),
         NEW new, Agree(buf, new, w), m + 2 < Len(raw), NEW x, x # "NUL", new[w + 1] = x,
         raw[m + 1] = "%", raw[m + 2] # "%", x = Character(16 * Value[raw[m + 2]] + Value[raw[m + 3]])
  PROVE  Copies(new, base, w + 1, raw, m + 3)
<1>0. Len(raw) \in Nat /\ m \in 0..Len(raw)
  BY LenProperties DEF Copies
<1>1. m + 1 \in 1..Len(raw) /\ m + 1 \in 1..(Len(raw) + 1) /\ m + 3 \in 0..Len(raw)
      /\ (m + 1) + 1 = m + 2 /\ (m + 1) + 2 = m + 3 /\ (m + 1) + 3 = (m + 3) + 1
  BY <1>0
<1>2. Unquoting(raw)[m + 1] = Unquote(raw, Unquoting(raw), m + 1)
  BY <1>1, UnquotingIs
<1>3. Unquoting(raw)[m + 1] = <<x>> \o Unquoting(raw)[(m + 1) + 3]
  <2>1. /\ ~(m + 1 > Len(raw)) /\ raw[(m + 1) + 1] # "%" /\ (m + 1) + 2 <= Len(raw)
        /\ x = Character(16 * Value[raw[(m + 1) + 1]] + Value[raw[(m + 1) + 2]])
    BY <1>0, <1>1
  <2> QED BY <1>2, <2>1, Zenon DEF Unquote
<1>4. x \in Alphabet
  BY CharacterIs
<1> QED BY <1>1, <1>3, <1>4, CopyMore

\* All of it, when NUL is written behind.
LEMMA CopyEnds ==
  ASSUME NEW buf \in Seq(Alphabet), NEW base, NEW w \in Nat, w + 1 <= Len(buf),
         NEW raw \in Seq(Alphabet), Copies(buf, base, w, raw, Len(raw)),
         NEW new, Agree(buf, new, w), new[w + 1] = "NUL", NEW limit \in Nat, w + 1 <= limit
  PROVE  Ended(new, base, Unquoted(raw), limit)
<1>0. /\ Len(buf) \in Nat /\ Len(raw) \in Nat /\ base \in 0..w /\ base \in Nat
      /\ w \in base..Len(buf) /\ w \in 0..Len(buf)
  BY LenProperties DEF Copies
<1>1. Len(raw) + 1 \in 1..(Len(raw) + 1) /\ Len(raw) + 1 > Len(raw)
  BY <1>0
<1>2. Unquoting(raw)[Len(raw) + 1] = <<>>
  BY <1>1, UnquotingIs DEF Unquote
<1>3. /\ Part(buf, base, w) \in Seq(Alphabet) /\ Len(Part(buf, base, w)) = w - base
      /\ \A i \in 1..(w - base) : Part(buf, base, w)[i] = buf[base + i]
  BY <1>0, PartIs
<1>4. Unquoted(raw) = Part(buf, base, w)
  <2>1. Part(buf, base, w) \o <<>> = Unquoted(raw)
    BY <1>2 DEF Copies
  <2> QED BY <1>3, <2>1, ConcatEmptySeq
<1>5. \A j \in 1..(w - base) : new[base + j] = buf[base + j] /\ buf[base + j] # "NUL"
  <2>1. \A j \in 1..(w - base) : base + j \in 1..w /\ base + j \in (base + 1)..w
    BY <1>0
  <2> QED BY <2>1 DEF Agree, Copies
<1>6. base + (w - base) + 1 = w + 1
  BY <1>0
<1> QED BY <1>0, <1>3, <1>4, <1>5, <1>6, ZenonT(30) DEF Ended

-----------------------------------------------------------------------------
(* Where the parts of a target are. *)

Scheme(tg) == IF Absolute(tg) THEN IF tg[5] = "s" THEN 8 ELSE 7 ELSE 0
HostEnd(tg) == Stop(tg, Scheme(tg), {":", "/"})
Root(tg) == IF Absolute(tg) THEN Stop(tg, Scheme(tg), {"/"}) ELSE 0
PathEnd(tg) == Stop(tg, Root(tg), {"?"})

Text(tg) ==
  tg \in Seq(Alphabet) /\ Len(tg) \in Nat \ {0} /\ \A j \in 1..Len(tg) : tg[j] # "NUL"
Formed(tg) == Text(tg) /\ Scheme(tg) <= Len(tg)

\* The stops, one behind the other.
LEMMA Places ==
  ASSUME NEW tg, Formed(tg)
  PROVE  /\ Scheme(tg) \in Nat /\ Len(tg) \in Nat /\ Root(tg) \in Scheme(tg)..Len(tg)
         /\ PathEnd(tg) \in Root(tg)..Len(tg) /\ (PathEnd(tg) = Len(tg) \/ tg[PathEnd(tg) + 1] = "?")
         /\ \A j \in (Root(tg) + 1)..PathEnd(tg) : tg[j] # "?"
         /\ Absolute(tg) =>
              /\ HostEnd(tg) \in Scheme(tg)..Root(tg)
              /\ Root(tg) = Len(tg) \/ tg[Root(tg) + 1] = "/"
              /\ \A j \in (Scheme(tg) + 1)..Root(tg) : tg[j] # "/"
              /\ HostEnd(tg) = Root(tg) \/ tg[HostEnd(tg) + 1] = ":"
              /\ \A j \in (Scheme(tg) + 1)..HostEnd(tg) : tg[j] # ":"
<1>0. tg \in Seq(Alphabet) /\ Len(tg) \in Nat /\ Scheme(tg) \in Nat /\ Scheme(tg) \in 0..Len(tg)
  BY DEF Formed, Text, Scheme
<1>1. /\ Root(tg) \in Scheme(tg)..Len(tg)
      /\ Absolute(tg) => /\ Root(tg) = Len(tg) \/ tg[Root(tg) + 1] = "/"
                         /\ \A j \in (Scheme(tg) + 1)..Root(tg) : tg[j] # "/"
  <2>1. CASE Absolute(tg)
    <3> DEFINE p == Stop(tg, Scheme(tg), {"/"})
    <3>1. /\ p \in Scheme(tg)..Len(tg) /\ (p = Len(tg) \/ tg[p + 1] \in {"/"})
          /\ \A j \in (Scheme(tg) + 1)..p : tg[j] \notin {"/"}
      BY <1>0, StopIs
    <3>2. Root(tg) = p
      BY <2>1 DEF Root
    <3> QED BY <3>1, <3>2
  <2>2. CASE ~Absolute(tg)
    BY <1>0, <2>2 DEF Root, Scheme
  <2> QED BY <2>1, <2>2
<1>2. Root(tg) \in 0..Len(tg) /\ Root(tg) \in Nat
  BY <1>0, <1>1
<1>3. /\ PathEnd(tg) \in Root(tg)..Len(tg)
      /\ PathEnd(tg) = Len(tg) \/ tg[PathEnd(tg) + 1] \in {"?"}
      /\ \A j \in (Root(tg) + 1)..PathEnd(tg) : tg[j] \notin {"?"}
  BY <1>0, <1>2, StopIs DEF PathEnd
<1>4. /\ HostEnd(tg) \in Scheme(tg)..Len(tg)
      /\ HostEnd(tg) = Len(tg) \/ tg[HostEnd(tg) + 1] \in {":", "/"}
      /\ \A j \in (Scheme(tg) + 1)..HostEnd(tg) : tg[j] \notin {":", "/"}
  BY <1>0, StopIs DEF HostEnd
<1>5. ASSUME Absolute(tg)
      PROVE  /\ HostEnd(tg) <= Root(tg)
             /\ HostEnd(tg) = Root(tg) \/ tg[HostEnd(tg) + 1] = ":"
  <2>1. HostEnd(tg) <= Root(tg)
    <3> SUFFICES ASSUME Root(tg) < HostEnd(tg) PROVE FALSE
      BY <1>0, <1>1, <1>4
    <3>1. Root(tg) + 1 \in (Scheme(tg) + 1)..HostEnd(tg) /\ Root(tg) # Len(tg)
      BY <1>0, <1>1, <1>4
    <3> QED BY <1>1, <1>4, <1>5, <3>1
  <2>2. HostEnd(tg) < Root(tg) => HostEnd(tg) + 1 \in (Scheme(tg) + 1)..Root(tg)
    BY <1>0, <1>1, <1>4
  <2>3. HostEnd(tg) < Root(tg) => tg[HostEnd(tg) + 1] # "/" /\ HostEnd(tg) # Len(tg)
    BY <1>0, <1>1, <1>4, <1>5, <2>2
  <2> QED BY <1>0, <1>1, <1>4, <2>1, <2>3
<1> QED BY <1>0, <1>1, <1>2, <1>3, <1>4, <1>5

\* Host and port of a target, by the stops.
LEMMA AuthorityIs ==
  ASSUME NEW tg, Formed(tg), Absolute(tg)
  PROVE  /\ Hierarchy(tg) = Part(tg, Scheme(tg), Len(tg))
         /\ RawAuthority(tg) = Part(tg, Scheme(tg), Root(tg))
         /\ RawHost(tg) = Part(tg, Scheme(tg), HostEnd(tg))
         /\ HostEnd(tg) = Root(tg) => RawPort(tg) = <<>>
         /\ HostEnd(tg) < Root(tg) => RawPort(tg) = Part(tg, HostEnd(tg) + 1, Root(tg))
<1> DEFINE n == Len(tg)
           s == Scheme(tg)
           r == Root(tg)
           h == HostEnd(tg)
<1>0. tg \in Seq(Alphabet)
  BY DEF Formed, Text
<1>1. /\ s \in Nat /\ n \in Nat /\ r \in s..n /\ h \in s..r
      /\ r = n \/ tg[r + 1] = "/"
      /\ \A j \in (s + 1)..r : tg[j] # "/"
      /\ h = r \/ tg[h + 1] = ":"
      /\ \A j \in (s + 1)..h : tg[j] # ":"
  BY Places
<1>2. Hierarchy(tg) = Part(tg, s, n)
  <2>1. Hierarchy(tg) = Rest(tg, s)
    BY DEF Hierarchy, Scheme
  <2> QED BY <2>1 DEF Rest, Part
<1>3. RawAuthority(tg) = Before(Part(tg, s, n), {"/"})
  BY <1>2 DEF RawAuthority
<1> HIDE DEF n, s, r, h
<1>4. Before(Part(tg, s, n), {"/"}) = Part(tg, s, r)
  <2>1. n \in s..Len(tg)
    BY <1>1 DEF n
  <2> QED BY <1>0, <1>1, <2>1, BeforeInPart
<1>5. Before(Part(tg, s, r), {":"}) = Part(tg, s, h)
  <2>1. r \in s..Len(tg)
    BY <1>1 DEF n
  <2> QED BY <1>0, <1>1, <2>1, BeforeInPart
<1>6. RawHost(tg) = Part(tg, s, h)
  BY <1>3, <1>4, <1>5 DEF RawHost
<1>7. RawPort(tg) = Rest(Part(tg, s, r), Len(Part(tg, s, h)) + 1)
  BY <1>3, <1>4, <1>6 DEF RawPort
<1>8. Len(Part(tg, s, h)) = h - s /\ Len(Part(tg, s, r)) = r - s /\ Part(tg, s, r) \in Seq(Alphabet)
  <2>1. h \in s..Len(tg) /\ r \in s..Len(tg)
    BY <1>1 DEF n
  <2> QED BY <1>0, <1>1, <2>1, PartIs, ZenonT(30)
<1>9. ASSUME h = r PROVE RawPort(tg) = <<>>
  <2>1. RawPort(tg) = SubSeq(Part(tg, s, r), (h - s) + 1 + 1, h - s)
    BY <1>7, <1>8, <1>9 DEF Rest
  <2>2. (h - s) + 1 + 1 \in Int /\ h - s \in Int /\ (h - s) + 1 + 1 > h - s
    BY <1>1
  <2> HIDE DEF RawPort
  <2> QED BY <2>1, <2>2, SubSeqEmpty
<1>10. ASSUME h < r PROVE RawPort(tg) = Part(tg, h + 1, r)
  <2>1. (h - s) + 1 \in 0..(r - s) /\ r \in s..Len(tg) /\ s + ((h - s) + 1) = h + 1
    BY <1>1, <1>10 DEF n
  <2>2. Rest(Part(tg, s, r), (h - s) + 1) = Part(tg, s + ((h - s) + 1), r)
    BY <1>0, <1>1, <2>1, RestOfPart
  <2> QED BY <1>7, <1>8, <2>1, <2>2
<1> QED BY <1>2, <1>3, <1>4, <1>6, <1>9, <1>10 DEF n, s, r, h

\* Its path and its query.
LEMMA PathIs ==
  ASSUME NEW tg, Formed(tg)
  PROVE  /\ PathAndQuery(tg) = Part(tg, Root(tg), Len(tg))
         /\ RawPath(tg) = Part(tg, Root(tg), PathEnd(tg))
         /\ PathEnd(tg) < Len(tg) => RawQuery(tg) = Part(tg, PathEnd(tg) + 1, Len(tg))
         /\ PathAndQuery(tg) = <<>> <=> Root(tg) = Len(tg)
         /\ Has(PathAndQuery(tg), "?") <=> PathEnd(tg) < Len(tg)
<1> DEFINE n == Len(tg)
           s == Scheme(tg)
           r == Root(tg)
           q == PathEnd(tg)
<1>0. tg \in Seq(Alphabet)
  BY DEF Formed, Text
<1>1. /\ s \in Nat /\ n \in Nat /\ r \in s..n /\ r \in Nat /\ q \in r..n
      /\ q = n \/ tg[q + 1] = "?"
      /\ \A j \in (r + 1)..q : tg[j] # "?"
  BY Places
<1>2. PathAndQuery(tg) = Part(tg, r, n)
  <2>1. CASE Absolute(tg)
    <3>1. PathAndQuery(tg) = Rest(Part(tg, s, n), Len(Part(tg, s, r)))
      BY <2>1, AuthorityIs DEF PathAndQuery
    <3> HIDE DEF s, r, n
    <3>2. n \in s..Len(tg) /\ r \in s..Len(tg) /\ r - s \in 0..(n - s) /\ s + (r - s) = r
      BY <1>1 DEF n
    <3>3. Len(Part(tg, s, r)) = r - s
      BY <1>0, <1>1, <3>2, PartIs
    <3>4. Rest(Part(tg, s, n), r - s) = Part(tg, s + (r - s), n)
      BY <1>0, <1>1, <3>2, RestOfPart
    <3> QED BY <3>1, <3>2, <3>3, <3>4
  <2>2. CASE ~Absolute(tg)
    <3>1. PathAndQuery(tg) = Rest(tg, 0) /\ r = 0
      BY <2>2 DEF PathAndQuery, Hierarchy, RawAuthority, Root
    <3> QED BY <3>1 DEF Rest, Part
  <2> QED BY <2>1, <2>2
<1> HIDE DEF n, s, r, q
<1>3. /\ Part(tg, r, n) \in Seq(Alphabet) /\ Len(Part(tg, r, n)) = n - r
      /\ \A i \in 1..(n - r) : Part(tg, r, n)[i] = tg[r + i]
  <2>1. n \in r..Len(tg)
    BY <1>1 DEF n
  <2> QED BY <1>0, <1>1, <2>1, PartIs
<1>4. RawPath(tg) = Part(tg, r, q)
  <2>1. n \in r..Len(tg)
    BY <1>1 DEF n
  <2>2. Before(Part(tg, r, n), {"?"}) = Part(tg, r, q)
    BY <1>0, <1>1, <2>1, BeforeInPart
  <2> QED BY <1>2, <2>2 DEF RawPath
<1>5. ASSUME q < n PROVE RawQuery(tg) = Part(tg, q + 1, n)
  <2>1. q \in r..Len(tg) /\ n \in r..Len(tg) /\ (q - r) + 1 \in 0..(n - r) /\ r + ((q - r) + 1) = q + 1
    BY <1>1, <1>5 DEF n
  <2>2. Len(Part(tg, r, q)) = q - r
    BY <1>0, <1>1, <2>1, PartIs
  <2>3. Rest(Part(tg, r, n), (q - r) + 1) = Part(tg, r + ((q - r) + 1), n)
    BY <1>0, <1>1, <2>1, RestOfPart
  <2> QED BY <1>2, <1>4, <2>1, <2>2, <2>3 DEF RawQuery
<1>6. Part(tg, r, n) = <<>> <=> r = n
  <2> DEFINE t == Part(tg, r, n)
  <2>1. t \in Seq(Alphabet) /\ Len(t) = n - r
    BY <1>3
  <2> HIDE DEF t
  <2>2. t = <<>> <=> Len(t) = 0
    BY <2>1, EmptySeq
  <2>3. t = <<>> <=> r = n
    BY <1>1, <2>1, <2>2
  <2> QED BY <2>3 DEF t
<1>7. Has(Part(tg, r, n), "?") <=> q < n
  <2> DEFINE t == Part(tg, r, n)
  <2>1. t \in Seq(Alphabet) /\ Len(t) = n - r /\ \A i \in 1..(n - r) : t[i] = tg[r + i]
    BY <1>3
  <2> HIDE DEF t
  <2>2. DOMAIN t = 1..(n - r)
    BY <2>1, LenProperties
  <2>3. ASSUME q < n PROVE Has(t, "?")
    <3>1. (q - r) + 1 \in 1..(n - r) /\ r + ((q - r) + 1) = q + 1 /\ tg[q + 1] = "?"
      BY <1>1, <2>3
    <3>2. t[(q - r) + 1] = "?" /\ (q - r) + 1 \in DOMAIN t
      BY <2>1, <2>2, <3>1
    <3> QED BY <3>2 DEF Has
  <2>4. ASSUME q = n PROVE ~Has(t, "?")
    <3>1. \A i \in 1..(n - r) : r + i \in (r + 1)..q
      BY <1>1, <2>4
    <3>2. \A i \in DOMAIN t : t[i] # "?"
      BY <1>1, <2>1, <2>2, <3>1
    <3> QED BY <3>2 DEF Has
  <2>5. q < n \/ q = n
    BY <1>1
  <2> QED BY <1>1, <2>3, <2>4, <2>5 DEF t
<1> QED BY <1>2, <1>4, <1>5, <1>6, <1>7 DEF n, s, r, q

-----------------------------------------------------------------------------
(* What one character does. *)

\* One character is written.
LEMMA Put ==
  ASSUME NEW buf \in Seq(Alphabet), NEW p \in 1..Len(buf), NEW x \in Alphabet
  PROVE  /\ [buf EXCEPT ![p] = x] \in Seq(Alphabet) /\ Len([buf EXCEPT ![p] = x]) = Len(buf)
         /\ [buf EXCEPT ![p] = x][p] = x
         /\ \A j \in 1..Len(buf) : j # p => [buf EXCEPT ![p] = x][j] = buf[j]
<1>1. DOMAIN buf = 1..Len(buf) /\ Len(buf) \in Nat
  BY LenProperties
<1>2. [buf EXCEPT ![p] = x] \in Seq(Alphabet) /\ Len([buf EXCEPT ![p] = x]) = Len(buf)
  BY ExceptSeq
<1> QED BY <1>1, <1>2

\* The character of the URI with a number, and NUL behind the last one.
Char(tg, j) == IF j > Len(tg) THEN "NUL" ELSE tg[j]

\* What was read of the URI, and that the buffer is as it was behind that.
Passed(u, start) == u.at - start
Unread(buf, start, tg, k) ==
  \A j \in (k + 1)..(Len(tg) + 1) : buf[start - 1 + j] = Char(tg, j)
Frame(buf, u, start, tg) ==
  /\ Text(tg) /\ buf \in Seq(Alphabet) /\ start \in Nat \ {0} /\ start + Len(tg) <= Len(buf)
  /\ u.at \in Nat /\ start <= u.at /\ u.at <= start + Len(tg)
  /\ Unread(buf, start, tg, Passed(u, start))

\* What is behind the reading, of an automaton that has more to read.
Trails(u) ==
  /\ u.at \in Nat /\ u.w \in Nat /\ u.mark \in Nat /\ u.mark <= u.w
  /\ u.w + Room(u.state) < u.at

\* What a row does to the buffer and to the rest.
Did(buf, u, row, c, new, v) ==
  /\ Agree(buf, new, IF "port" \in row.do THEN u.mark ELSE u.w) /\ u.w + 1 <= Len(buf)
  /\ "zero" \in row.do /\ "port" \notin row.do => new[u.w + 1] = "NUL"
  /\ Writes(row) =>
       new[Behind(u, row) + 1] = IF "byte" \in row.do THEN Character(Decoded(u, c)) ELSE c
  /\ v.state = row.to
  /\ v.w = IF Writes(row) THEN Behind(u, row) + 1 ELSE Behind(u, row)
  /\ v.mark = IF "mark" \in row.do THEN Behind(u, row) ELSE u.mark
  /\ v.host = IF "host" \in row.do THEN Behind(u, row) ELSE u.host
  /\ v.path = IF "path" \in row.do THEN Behind(u, row) ELSE u.path
  /\ v.query = IF "query" \in row.do THEN Behind(u, row) ELSE u.query
  /\ "port" \notin row.do => v.port = u.port
  /\ "port" \in row.do =>
       \E z : Agree(buf, z, u.w) /\ z[u.w + 1] = "NUL" /\ v.port = NumberOf(StringAt(z, u.mark))
  /\ v.decoded = IF "byte" \in row.do THEN 0
                 ELSE IF "digit" \in row.do THEN Decoded(u, c) ELSE u.decoded
  /\ "byte" \in row.do => Decoded(u, c) # 0

\* What a row does, for all that is not refused.
LEMMA RowDoes ==
  ASSUME NEW buf \in Seq(Alphabet), NEW u, Trails(u), u.at <= Len(buf),
         NEW row \in UriRows, row.from = u.state,
         ~UriRefuses(buf, u, row, buf[u.at], LineMax)
  PROVE  /\ Did(buf, u, row, buf[u.at], Written(buf, u, row, buf[u.at]), UriStep(buf, u, row, buf[u.at]))
         /\ UriStep(buf, u, row, buf[u.at]).at = u.at + 1
         /\ \A j \in 1..Len(buf) : j > u.at => Written(buf, u, row, buf[u.at])[j] = buf[j]
<1> DEFINE c == buf[u.at]
           z == Zeroed(buf, u, row)
           b == Behind(u, row)
           x == IF "byte" \in row.do THEN Character(Decoded(u, c)) ELSE c
           new == Written(buf, u, row, c)
           m == IF "port" \in row.do THEN u.mark ELSE u.w
<1>0. /\ Len(buf) \in Nat /\ u.at \in Nat /\ u.w \in Nat /\ u.mark \in Nat /\ u.mark <= u.w
      /\ u.w + Room(u.state) < u.at /\ Room(u.state) \in {0, 1} /\ u.at \in 1..Len(buf)
      /\ u.w + 1 \in 1..Len(buf)
  BY LenProperties DEF Trails, Room
<1>1. c \in Alphabet /\ "NUL" \in Alphabet /\ Character(Decoded(u, c)) \in Alphabet
  <2>1. c \in Alphabet
    BY <1>0, ElementOfSeq
  <2>2. "NUL" \in Alphabet
    BY DEF Alphabet
  <2> QED BY <2>1, <2>2, CharacterIs
<1>2. x \in Alphabet
  BY <1>1
<1>3. /\ z \in Seq(Alphabet) /\ Len(z) = Len(buf)
      /\ "zero" \in row.do => z[u.w + 1] = "NUL"
      /\ \A j \in 1..Len(buf) : j # u.w + 1 => z[j] = buf[j]
  <2>1. CASE "zero" \in row.do
    <3>1. z = [buf EXCEPT ![u.w + 1] = "NUL"]
      BY <2>1 DEF Zeroed
    <3> HIDE DEF z
    <3> QED BY <1>0, <1>1, <3>1, Put
  <2>2. CASE "zero" \notin row.do
    BY <2>2 DEF Zeroed
  <2> QED BY <2>1, <2>2
<1>4. /\ "port" \in row.do => b = u.mark /\ "zero" \in row.do
      /\ "port" \notin row.do /\ "zero" \in row.do => b = u.w + 1
      /\ "port" \notin row.do /\ "zero" \notin row.do => b = u.w
      /\ "zero" \in row.do /\ Writes(row) /\ "port" \notin row.do => Room(u.state) = 1
  BY UriKinds DEF Behind
<1>5. b \in Nat /\ (Writes(row) => b + 1 <= u.at /\ b + 1 \in 1..Len(buf)) /\ m <= b /\ m \in Nat
  BY <1>0, <1>4
<1>6. new = IF Writes(row) THEN [z EXCEPT ![b + 1] = x] ELSE z
  BY DEF Written, Writes
<1> HIDE DEF z, new, b, x, m
<1>7. /\ new \in Seq(Alphabet) /\ Len(new) = Len(buf)
      /\ Writes(row) => new[b + 1] = x
      /\ \A j \in 1..Len(buf) : ~Writes(row) \/ j # b + 1 => new[j] = z[j]
  <2>1. CASE Writes(row)
    BY <1>2, <1>3, <1>5, <1>6, <2>1, Put
  <2>2. CASE ~Writes(row)
    BY <1>3, <1>6, <2>2
  <2> QED BY <2>1, <2>2
<1>8. m <= u.w
  BY <1>0 DEF m
<1>9. \A j \in 1..m : new[j] = buf[j]
  <2>1. \A j \in 1..m : j \in 1..Len(buf) /\ j # u.w + 1 /\ j # b + 1
    BY <1>0, <1>5, <1>8
  <2> QED BY <1>3, <1>7, <2>1
<1>10. "zero" \in row.do /\ "port" \notin row.do => new[u.w + 1] = "NUL"
  BY <1>0, <1>3, <1>4, <1>7
<1>11. \A j \in 1..Len(buf) : j > u.at => new[j] = buf[j]
  BY <1>0, <1>3, <1>5, <1>7
<1>12. Agree(buf, new, m)
  BY <1>7, <1>9 DEF Agree
<1>13. "byte" \in row.do => Decoded(u, c) # 0
  BY DEF UriRefuses
<1> DEFINE v == UriStep(buf, u, row, c)
<1>14. /\ v.state = row.to /\ v.at = u.at + 1
       /\ v.w = IF Writes(row) THEN b + 1 ELSE b
       /\ v.mark = IF "mark" \in row.do THEN b ELSE u.mark
       /\ v.host = IF "host" \in row.do THEN b ELSE u.host
       /\ v.path = IF "path" \in row.do THEN b ELSE u.path
       /\ v.query = IF "query" \in row.do THEN b ELSE u.query
       /\ "port" \notin row.do => v.port = u.port
       /\ v.decoded = IF "byte" \in row.do THEN 0
                      ELSE IF "digit" \in row.do THEN Decoded(u, c) ELSE u.decoded
  BY DEF UriStep, Writes, b
<1> HIDE DEF v
<1>16. ASSUME "port" \in row.do
       PROVE  \E y : Agree(buf, y, u.w) /\ y[u.w + 1] = "NUL" /\ v.port = NumberOf(StringAt(y, u.mark))
  <2>1. v.port = NumberOf(StringAt(z, u.mark))
    BY <1>16 DEF v, UriStep, z
  <2>2. Agree(buf, z, u.w) /\ z[u.w + 1] = "NUL"
    <3>1. \A j \in 1..u.w : j \in 1..Len(buf) /\ j # u.w + 1
      BY <1>0
    <3> QED BY <1>3, <1>4, <1>16, <3>1 DEF Agree
  <2> QED BY <2>1, <2>2
<1>15. Did(buf, u, row, c, new, v)
  <2>1. Agree(buf, new, IF "port" \in row.do THEN u.mark ELSE u.w) /\ u.w + 1 <= Len(buf)
    BY <1>0, <1>12 DEF m
  <2>2. Writes(row) => new[Behind(u, row) + 1] = IF "byte" \in row.do THEN Character(Decoded(u, c)) ELSE c
    BY <1>7 DEF b, x
  <2> HIDE DEF c
  <2> QED BY <1>10, <1>13, <1>14, <1>16, <2>1, <2>2 DEF Did, b
<1> QED BY <1>11, <1>14, <1>15 DEF new, v

\* The character that is read, and what there is to read behind it.
LEMMA NextChar ==
  ASSUME NEW buf, NEW u, NEW start, NEW tg, Frame(buf, u, start, tg)
  PROVE  /\ Passed(u, start) \in 0..Len(tg) /\ Len(tg) \in Nat
         /\ buf[u.at] = "NUL" => Passed(u, start) = Len(tg)
         /\ buf[u.at] # "NUL" =>
              Passed(u, start) < Len(tg) /\ buf[u.at] = tg[Passed(u, start) + 1]
<1> DEFINE k == Passed(u, start)
           n == Len(tg)
<1>1. k \in 0..n /\ n \in Nat /\ start - 1 + (k + 1) = u.at /\ k + 1 \in (k + 1)..(n + 1)
  BY SMTT(30) DEF Frame, Passed, Text
<1>2. buf[start - 1 + (k + 1)] = Char(tg, k + 1)
  BY <1>1 DEF Frame, Unread
<1>3. k < n => tg[k + 1] # "NUL"
  <2>1. k < n => k + 1 \in 1..n
    BY <1>1
  <2> QED BY <2>1 DEF Frame, Text
<1> QED BY <1>1, <1>2, <1>3 DEF Char

\* One character further, what is behind it is still to be read.
LEMMA FrameMoves ==
  ASSUME NEW buf, NEW u, NEW start, NEW tg, Frame(buf, u, start, tg),
         NEW new \in Seq(Alphabet), Len(new) = Len(buf), NEW v, v.at = u.at + 1,
         \A j \in 1..Len(buf) : j > u.at => new[j] = buf[j], buf[u.at] # "NUL"
  PROVE  Frame(new, v, start, tg) /\ Passed(v, start) = Passed(u, start) + 1
<1> DEFINE k == Passed(u, start)
           n == Len(tg)
<1>1. k \in 0..n /\ n \in Nat /\ k < n
  BY NextChar
<1>2. /\ Text(tg) /\ start \in Nat \ {0} /\ start + n <= Len(new) /\ u.at \in Nat /\ start <= u.at
      /\ u.at <= start + n /\ u.at = start + k /\ Len(buf) \in Nat
  BY LenProperties DEF Frame, Passed
<1>3. v.at \in Nat /\ start <= v.at /\ v.at <= start + n /\ Passed(v, start) = k + 1
  BY <1>1, <1>2 DEF Passed
<1>4. Unread(new, start, tg, k + 1)
  <2>1. ASSUME NEW j \in (k + 2)..(n + 1)
        PROVE  new[start - 1 + j] = Char(tg, j)
    <3>1. start - 1 + j \in 1..Len(buf) /\ start - 1 + j > u.at /\ j \in (k + 1)..(n + 1)
      BY <1>1, <1>2
    <3> QED BY <3>1 DEF Frame, Unread
  <2>2. (k + 1) + 1 = k + 2
    BY <1>1
  <2> QED BY <2>1, <2>2 DEF Unread
<1> QED BY <1>2, <1>3, <1>4 DEF Frame

-----------------------------------------------------------------------------
(* What was read of the target, and what is in the buffer of it.  In its scheme nothing
   is; then each of its parts is copied, and done with when the next one begins.      *)

InScheme == {"START", "H", "HT", "HTT", "HTTP", "HTTPS", "AUTH", "AUTH/", "HOST"}
InHost == {"HQ", "HQ1", "H1"}
InPort == {"PORT", "PORT1"}
InPath == {"PATH?", "PATH", "Q", "Q1"}

\* How much of a % and two digits is read.
Lag(state) == IF state \in {"Q", "HQ"} THEN 1 ELSE IF state \in {"Q1", "HQ1"} THEN 2 ELSE 0
Quoted(u, tg, k) ==
  /\ Lag(u.state) = 0 => u.decoded = 0
  /\ Lag(u.state) = 1 => tg[k] = "%" /\ u.decoded = 0
  /\ Lag(u.state) = 2 => tg[k - 1] = "%" /\ tg[k] \in Hexadecimals /\ u.decoded = Value[tg[k]]

\* What is read behind some characters of the target is in the buffer as it is.
Verbatim(buf, base, w, tg, from, k) ==
  /\ base \in Nat /\ from <= k /\ w = base + (k - from)
  /\ \A j \in 1..(k - from) : buf[base + j] = tg[from + j]

\* The parts that are done with, in the first characters of the buffer.
HostDone(buf, u, tg, limit) ==
  IF ~Absolute(tg) THEN u.host = None
  ELSE ~Has(RawAuthority(tg), "?") =>
         u.host \in Nat /\ Ended(buf, u.host, Unquoted(RawHost(tg)), limit)
PortDone(u, tg) ==
  u.port = IF Absolute(tg) /\ RawPort(tg) # <<>> THEN NumberOf(RawPort(tg)) ELSE 0
PathDone(buf, u, tg, limit) ==
  IF Root(tg) = Len(tg) THEN u.path = None
  ELSE u.path \in Nat /\ Ended(buf, u.path, Unquoted(RawPath(tg)), limit)
QueryDone(buf, u, tg, limit) ==
  IF PathEnd(tg) = Len(tg) THEN u.query = None
  ELSE u.query \in Nat /\ Ended(buf, u.query, RawQuery(tg), limit)

SchemeRead(u, tg, k) ==
  /\ u.host = None /\ u.path = None /\ u.query = None /\ u.port = 0 /\ u.decoded = 0
  /\ u.state = "START" => k = 0
  /\ u.state # "START" => k > 0 /\ tg[1] = "h"
  /\ u.state = "H" => k = 1
  /\ u.state = "HT" => k = 2
  /\ u.state = "HTT" => k = 3
  /\ u.state = "HTTP" => k = 4
  /\ u.state = "HTTPS" => k = 5 /\ tg[5] = "s"
  /\ u.state = "AUTH" => k + 2 = Scheme(tg)
  /\ u.state = "AUTH/" => k + 1 = Scheme(tg)
  /\ u.state = "HOST" => k = Scheme(tg)
HostRead(buf, u, tg, k) ==
  /\ Formed(tg) /\ Absolute(tg) /\ Scheme(tg) + Lag(u.state) <= k /\ k <= HostEnd(tg)
  /\ Quoted(u, tg, k) /\ u.path = None /\ u.query = None /\ u.port = 0
  /\ ~Has(RawAuthority(tg), "?") =>
       u.host \in Nat /\ Copies(buf, u.host, u.w, RawHost(tg), k - Lag(u.state) - Scheme(tg))
PortRead(buf, u, tg, k) ==
  /\ Formed(tg) /\ Absolute(tg) /\ HostEnd(tg) < Root(tg) /\ k <= Root(tg)
  /\ Verbatim(buf, u.mark, u.w, tg, HostEnd(tg) + 1, k)
  /\ (u.state = "PORT") = (k = HostEnd(tg) + 1)
  /\ HostDone(buf, u, tg, u.mark)
  /\ u.path = None /\ u.query = None /\ u.port = 0 /\ u.decoded = 0
PathRead(buf, u, tg, k) ==
  /\ Formed(tg) /\ Root(tg) < Len(tg) /\ Root(tg) + Lag(u.state) <= k /\ k <= PathEnd(tg)
  /\ Quoted(u, tg, k) /\ u.query = None
  /\ u.path \in Nat /\ Copies(buf, u.path, u.w, RawPath(tg), k - Lag(u.state) - Root(tg))
  /\ HostDone(buf, u, tg, u.path) /\ PortDone(u, tg)
QueryRead(buf, u, tg, k) ==
  /\ Formed(tg) /\ PathEnd(tg) < Len(tg)
  /\ Verbatim(buf, u.query, u.w, tg, PathEnd(tg) + 1, k)
  /\ HostDone(buf, u, tg, u.query) /\ PortDone(u, tg) /\ PathDone(buf, u, tg, u.query)
AllRead(buf, u, tg) ==
  /\ Formed(tg) /\ buf \in Seq(Alphabet)
  /\ HostDone(buf, u, tg, Len(buf)) /\ PortDone(u, tg)
  /\ PathDone(buf, u, tg, Len(buf)) /\ QueryDone(buf, u, tg, Len(buf))

Reads(buf, u, tg, k) ==
  /\ u.state \in InScheme => SchemeRead(u, tg, k)
  /\ u.state \in InHost => HostRead(buf, u, tg, k)
  /\ u.state \in InPort => PortRead(buf, u, tg, k)
  /\ u.state \in InPath => PathRead(buf, u, tg, k)
  /\ u.state = "QUERY" => QueryRead(buf, u, tg, k)
  /\ u.state = "END" => AllRead(buf, u, tg)

\* What is done with stays, when it is not overwritten.
LEMMA DoneStays ==
  ASSUME NEW tg, Formed(tg), NEW buf, NEW new, NEW limit \in Nat, Agree(buf, new, limit),
         NEW more \in Nat, limit <= more, NEW u, NEW v, v.host = u.host
  PROVE  /\ HostDone(buf, u, tg, limit) => HostDone(new, v, tg, more)
         /\ PortDone(u, tg) /\ v.port = u.port => PortDone(v, tg)
         /\ PathDone(buf, u, tg, limit) /\ v.path = u.path => PathDone(new, v, tg, more)
<1>1. Absolute(tg) => Unquoted(RawHost(tg)) \in Seq(Alphabet)
  <2> SUFFICES ASSUME Absolute(tg) PROVE Unquoted(RawHost(tg)) \in Seq(Alphabet)
    OBVIOUS
  <2>1. RawHost(tg) \in Seq(Alphabet)
    <3>1. HostEnd(tg) \in Scheme(tg)..Len(tg) /\ Scheme(tg) \in Nat /\ tg \in Seq(Alphabet)
      BY Places DEF Formed, Text
    <3> QED BY <3>1, AuthorityIs, PartIs
  <2>2. 1 \in 1..(Len(RawHost(tg)) + 1)
    BY <2>1, LenProperties
  <2> QED BY <2>1, <2>2, UnquotingIs
<1>2. Unquoted(RawPath(tg)) \in Seq(Alphabet)
  <2>1. RawPath(tg) \in Seq(Alphabet)
    <3>1. PathEnd(tg) \in Root(tg)..Len(tg) /\ Root(tg) \in Nat /\ tg \in Seq(Alphabet)
      BY Places DEF Formed, Text
    <3> QED BY <3>1, PathIs, PartIs
  <2>2. 1 \in 1..(Len(RawPath(tg)) + 1)
    BY <2>1, LenProperties
  <2> QED BY <2>1, <2>2, UnquotingIs
<1>3. HostDone(buf, u, tg, limit) => HostDone(new, v, tg, more)
  BY <1>1, EndedStays DEF HostDone
<1>4. PathDone(buf, u, tg, limit) /\ v.path = u.path => PathDone(new, v, tg, more)
  BY <1>2, EndedStays DEF PathDone
<1> QED BY <1>3, <1>4 DEF PortDone

\* What the rows do, by what is being read.
LEMMA SchemeKinds ==
  ASSUME NEW row \in UriRows, row.from \in InScheme, NEW c, UriClass(c) \in row.on
  PROVE  \/ row.from = "START" /\ c = "/" /\ row.do = {"path", "print"} /\ row.to = "PATH?"
         \/ row.from = "START" /\ c = "h" /\ row.do = {} /\ row.to = "H"
         \/ row.from = "H" /\ c = "t" /\ row.do = {} /\ row.to = "HT"
         \/ row.from = "HT" /\ c = "t" /\ row.do = {} /\ row.to = "HTT"
         \/ row.from = "HTT" /\ c = "p" /\ row.do = {} /\ row.to = "HTTP"
         \/ row.from = "HTTP" /\ c = ":" /\ row.do = {} /\ row.to = "AUTH"
         \/ row.from = "HTTP" /\ c = "s" /\ row.do = {} /\ row.to = "HTTPS"
         \/ row.from = "HTTPS" /\ c = ":" /\ row.do = {"ssl"} /\ row.to = "AUTH"
         \/ row.from = "AUTH" /\ c = "/" /\ row.do = {} /\ row.to = "AUTH/"
         \/ row.from = "AUTH/" /\ c = "/" /\ row.do = {} /\ row.to = "HOST"
         \/ row.from = "HOST" /\ c = "%" /\ row.do = {"host"} /\ row.to = "HQ"
         \/ row.from = "HOST" /\ c = "?" /\ row.do = {"host", "print"} /\ row.to = "H1"
         \/ row.from = "HOST" /\ c \notin Marks /\ row.do = {"host", "print"} /\ row.to = "H1"
<1>1. CASE row \in SchemeRows
  <2>1. UriClass(c) \in Marks \cup {"h", "t", "p", "s"} => UriClass(c) = c
    BY Classes
  <2>2. /\ row.from \in InScheme \ {"HOST"} /\ row.on \in SUBSET (Marks \cup {"h", "t", "p", "s"})
    BY <1>1 DEF SchemeRows, Row, InScheme, Marks
  <2>3. c \in row.on
    BY <2>1, <2>2
  <2> QED BY <1>1, <2>3 DEF SchemeRows, Row
<1>2. CASE row \in HostRows
  <2>1. \/ row = Row("HOST", {"%"}, {"host"}, "HQ")
        \/ row = Row("HOST", {"?"} \cup Letters, {"host", "print"}, "H1")
    BY <1>2 DEF HostRows, Row, InScheme
  <2>2. CASE row = Row("HOST", {"%"}, {"host"}, "HQ")
    BY <2>2, Classes DEF Row, Marks
  <2>3. CASE row = Row("HOST", {"?"} \cup Letters, {"host", "print"}, "H1")
    <3>1. c = "?" \/ c \notin Marks
      BY <2>3, Classes DEF Row, Marks
    <3> QED BY <2>3, <3>1 DEF Row
  <2> QED BY <2>1, <2>2, <2>3
<1>3. CASE row \in PathRows
  BY <1>3 DEF PathRows, Row, InScheme
<1> QED BY <1>1, <1>2, <1>3 DEF UriRows

\* Those of a host,
LEMMA HostKinds ==
  ASSUME NEW row \in UriRows, row.from \in InHost, NEW c, UriClass(c) \in row.on
  PROVE  \/ row.from = "H1" /\ c = "NUL" /\ row.do = {"print"} /\ row.to = "END"
         \/ row.from = "H1" /\ c = "%" /\ row.do = {} /\ row.to = "HQ"
         \/ row.from = "H1" /\ c = "?" /\ row.do = {} /\ row.to = "H1"
         \/ row.from = "H1" /\ c = "/" /\ row.do = {"zero", "path", "print"} /\ row.to = "PATH"
         \/ row.from = "H1" /\ c = ":" /\ row.do = {"zero", "mark"} /\ row.to = "PORT"
         \/ row.from = "H1" /\ c \notin Marks /\ row.do = {"print"} /\ row.to = "H1"
         \/ row.from = "HQ" /\ c = "%" /\ row.do = {"print"} /\ row.to = "H1"
         \/ row.from = "HQ" /\ c \in Hexadecimals /\ row.do = {"digit"} /\ row.to = "HQ1"
         \/ row.from = "HQ1" /\ c \in Hexadecimals /\ row.do = {"digit", "byte"} /\ row.to = "H1"
<1>1. row \in HostRows
  BY DEF UriRows, SchemeRows, PathRows, Row, InHost
<1>2. \/ row = Row("HQ", {"%"}, {"print"}, "H1")
      \/ row = Row("HQ", HexDigits, {"digit"}, "HQ1")
      \/ row = Row("HQ1", HexDigits, {"digit", "byte"}, "H1")
      \/ row = Row("H1", {"NUL"}, {"print"}, "END")
      \/ row = Row("H1", {"%"}, {}, "HQ")
      \/ row = Row("H1", {"?"}, {}, "H1")
      \/ row = Row("H1", {"/"}, {"zero", "path", "print"}, "PATH")
      \/ row = Row("H1", {":"}, {"zero", "mark"}, "PORT")
      \/ row = Row("H1", Letters, {"print"}, "H1")
  BY <1>1 DEF HostRows, Row, InHost
<1>3. CASE row.on \in SUBSET Marks
  <2>1. UriClass(c) \in Marks /\ UriClass(c) = c
    BY <1>3, Classes
  <2>2. "digit" \notin Marks
    BY DEF Marks
  <2> QED BY <1>2, <1>3, <2>1, <2>2 DEF Row, HexDigits, Letters
<1>4. CASE row.on = HexDigits
  <2>1. c \in Hexadecimals
    BY <1>4, Classes
  <2> QED BY <1>2, <1>4, <2>1 DEF Row, HexDigits, Letters
<1>5. CASE row.on = Letters
  <2>1. c \notin Marks
    BY <1>5, Classes
  <2> QED BY <1>2, <1>5, <2>1 DEF Row, HexDigits, Letters
<1>6. row.on \in SUBSET Marks \/ row.on = HexDigits \/ row.on = Letters
  BY <1>2 DEF Row, Marks
<1> QED BY <1>3, <1>4, <1>5, <1>6

\* of a port,
LEMMA PortKinds ==
  ASSUME NEW row \in UriRows, row.from \in InPort, NEW c, UriClass(c) \in row.on
  PROVE  \/ row.from = "PORT" /\ c = "/" /\ row.do = {"path", "print"} /\ row.to = "PATH"
         \/ row.from \in InPort /\ c \in Digits /\ c \notin Marks /\ row.do = {"print"} /\ row.to = "PORT1"
         \/ row.from = "PORT1" /\ c = "NUL" /\ row.do = {"zero", "port"} /\ row.to = "END"
         \/ row.from = "PORT1" /\ c = "/" /\ row.do = {"zero", "port", "path", "print"} /\ row.to = "PATH"
<1>1. row \in HostRows
  BY DEF UriRows, SchemeRows, PathRows, Row, InPort
<1>2. \/ row = Row("PORT", {"/"}, {"path", "print"}, "PATH")
      \/ row = Row("PORT", {"digit"}, {"print"}, "PORT1")
      \/ row = Row("PORT1", {"NUL"}, {"zero", "port"}, "END")
      \/ row = Row("PORT1", {"/"}, {"zero", "port", "path", "print"}, "PATH")
      \/ row = Row("PORT1", {"digit"}, {"print"}, "PORT1")
  BY <1>1 DEF HostRows, Row, InPort
<1>3. CASE row.on \in SUBSET Marks
  <2>1. UriClass(c) \in Marks /\ UriClass(c) = c
    BY <1>3, Classes
  <2>2. "digit" \notin Marks
    BY DEF Marks
  <2> QED BY <1>2, <1>3, <2>1, <2>2 DEF Row
<1>4. CASE row.on = {"digit"}
  <2>1. c \in Digits /\ c \notin Marks
    BY <1>4, Classes DEF Letters
  <2> QED BY <1>2, <1>4, <2>1 DEF Row, InPort
<1>5. row.on \in SUBSET Marks \/ row.on = {"digit"}
  BY <1>2 DEF Row, Marks
<1> QED BY <1>3, <1>4, <1>5

\* of a path,
LEMMA PathKinds ==
  ASSUME NEW row \in UriRows, row.from \in InPath, NEW c, UriClass(c) \in row.on
  PROVE  \/ row.from \in {"PATH", "PATH?"} /\ c = "NUL" /\ row.do = {"print"} /\ row.to = "END"
         \/ row.from \in {"PATH", "PATH?"} /\ c = "%" /\ row.do = {} /\ row.to = "Q"
         \/ row.from \in {"PATH", "PATH?"} /\ c = "?" /\ row.do = {"zero", "query"} /\ row.to = "QUERY"
         \/ row.from \in {"PATH", "PATH?"} /\ c \notin {"NUL", "%", "?"} /\ row.do = {"print"} /\ row.to = "PATH"
         \/ row.from = "Q" /\ c = "%" /\ row.do = {"print"} /\ row.to = "PATH"
         \/ row.from = "Q" /\ c \in Hexadecimals /\ row.do = {"digit"} /\ row.to = "Q1"
         \/ row.from = "Q1" /\ c \in Hexadecimals /\ row.do = {"digit", "byte"} /\ row.to = "PATH"
<1>1. row \in PathRows
  BY DEF UriRows, SchemeRows, HostRows, Row, InPath
<1>2. \/ row = Row("PATH", {"NUL"}, {"print"}, "END")
      \/ row = Row("PATH", {"%"}, {}, "Q")
      \/ row = Row("PATH", {"?"}, {"zero", "query"}, "QUERY")
      \/ row = Row("PATH", {"/", ":", "mark"} \cup Letters, {"print"}, "PATH")
      \/ row = Row("Q", {"%"}, {"print"}, "PATH")
      \/ row = Row("Q", HexDigits, {"digit"}, "Q1")
      \/ row = Row("Q1", HexDigits, {"digit", "byte"}, "PATH")
      \/ row = Row("PATH?", {"NUL"}, {"print"}, "END")
      \/ row = Row("PATH?", {"%"}, {}, "Q")
      \/ row = Row("PATH?", {"?"}, {"zero", "query"}, "QUERY")
      \/ row = Row("PATH?", {":", "mark"} \cup Letters, {"print"}, "PATH")
  BY <1>1 DEF PathRows, Row, InPath
<1>3. CASE row.on \in SUBSET {"NUL", "%", "?"}
  <2>1. UriClass(c) \in {"NUL", "%", "?"} /\ UriClass(c) = c
    BY <1>3, Classes DEF Marks
  <2> QED BY <1>2, <1>3, <2>1 DEF Row, HexDigits
<1>4. CASE row.on = HexDigits
  <2>1. c \in Hexadecimals
    BY <1>4, Classes
  <2> QED BY <1>2, <1>4, <2>1 DEF Row, HexDigits
<1>5. CASE row.on \in SUBSET ({"/", ":", "mark"} \cup Letters) /\ "mark" \in row.on
  <2>1. c \notin {"NUL", "%", "?"}
    BY <1>5, Classes DEF Marks
  <2> QED BY <1>2, <1>5, <2>1 DEF Row, HexDigits
<1>6. \/ row.on \in SUBSET {"NUL", "%", "?"}
      \/ row.on = HexDigits
      \/ row.on \in SUBSET ({"/", ":", "mark"} \cup Letters) /\ "mark" \in row.on
  BY <1>2 DEF Row
<1> QED BY <1>3, <1>4, <1>5, <1>6

\* and of a query.
LEMMA QueryKinds ==
  ASSUME NEW row \in UriRows, row.from = "QUERY", NEW c, UriClass(c) \in row.on
  PROVE  \/ c = "NUL" /\ row.do = {"print"} /\ row.to = "END"
         \/ c # "NUL" /\ row.do = {"print"} /\ row.to = "QUERY"
<1>1. row \in PathRows
  BY DEF UriRows, SchemeRows, HostRows, Row
<1>2. \/ row = Row("QUERY", {"NUL"}, {"print"}, "END")
      \/ row = Row("QUERY", {"%", "?", "/", ":", "mark", "delimiter"} \cup Letters, {"print"}, "QUERY")
  BY <1>1 DEF PathRows, Row
<1>3. CASE row = Row("QUERY", {"NUL"}, {"print"}, "END")
  BY <1>3, Classes DEF Row, Marks
<1>4. CASE row = Row("QUERY", {"%", "?", "/", ":", "mark", "delimiter"} \cup Letters, {"print"}, "QUERY")
  <2>1. c # "NUL"
    BY <1>4, Classes DEF Row, Marks
  <2> QED BY <1>4, <2>1 DEF Row
<1> QED BY <1>2, <1>3, <1>4

\* The next character, and the stops.
LEMMA StopsAre ==
  ASSUME NEW tg, Formed(tg), NEW k \in Nat, k < Len(tg)
  PROVE  /\ Absolute(tg) /\ Scheme(tg) <= k /\ k <= HostEnd(tg) =>
              /\ tg[k + 1] \notin {":", "/"} => k + 1 <= HostEnd(tg)
              /\ tg[k + 1] = "/" => k = HostEnd(tg) /\ k = Root(tg)
              /\ tg[k + 1] = ":" => k = HostEnd(tg) /\ k + 1 <= Root(tg)
         /\ Absolute(tg) /\ Scheme(tg) <= k /\ k <= Root(tg) =>
              /\ tg[k + 1] # "/" => k + 1 <= Root(tg)
              /\ tg[k + 1] = "/" => k = Root(tg)
         /\ Root(tg) <= k /\ k <= PathEnd(tg) =>
              /\ tg[k + 1] # "?" => k + 1 <= PathEnd(tg)
              /\ tg[k + 1] = "?" => k = PathEnd(tg)
<1> DEFINE n == Len(tg)
           s == Scheme(tg)
           r == Root(tg)
           h == HostEnd(tg)
           q == PathEnd(tg)
<1>1. /\ s \in Nat /\ n \in Nat /\ r \in s..n
      /\ q \in r..n /\ (q = n \/ tg[q + 1] = "?")
      /\ \A j \in (r + 1)..q : tg[j] # "?"
      /\ Absolute(tg) =>
           /\ h \in s..r
           /\ r = n \/ tg[r + 1] = "/"
           /\ \A j \in (s + 1)..r : tg[j] # "/"
           /\ h = r \/ tg[h + 1] = ":"
           /\ \A j \in (s + 1)..h : tg[j] # ":"
  BY Places
<1>2. k < n
  OBVIOUS
<1> HIDE DEF n, s, r, h, q
<1>3. ASSUME Absolute(tg), s <= k, k <= r
      PROVE  /\ tg[k + 1] # "/" => k + 1 <= r
             /\ tg[k + 1] = "/" => k = r
  <2>1. k < r => k + 1 \in (s + 1)..r
    BY <1>1, <1>3
  <2>2. k < r \/ k = r
    BY <1>1, <1>3
  <2> QED BY <1>1, <1>2, <1>3, <2>1, <2>2
<1>4. ASSUME Absolute(tg), s <= k, k <= h
      PROVE  /\ tg[k + 1] \notin {":", "/"} => k + 1 <= h
             /\ tg[k + 1] = "/" => k = h /\ k = r
             /\ tg[k + 1] = ":" => k = h /\ k + 1 <= r
  <2>1. k <= r
    BY <1>1, <1>4
  <2>2. k < h => k + 1 \in (s + 1)..h
    BY <1>1, <1>4
  <2>3. k < h \/ k = h
    BY <1>1, <1>4
  <2>4. h <= r /\ s \in Nat /\ r \in Nat /\ h \in Nat
    BY <1>1, <1>4
  <2> QED BY <1>1, <1>2, <1>3, <1>4, <2>1, <2>2, <2>3, <2>4
<1>5. ASSUME r <= k, k <= q
      PROVE  /\ tg[k + 1] # "?" => k + 1 <= q
             /\ tg[k + 1] = "?" => k = q
  <2>1. k < q => k + 1 \in (r + 1)..q
    BY <1>1, <1>5
  <2>2. k < q \/ k = q
    BY <1>1, <1>5
  <2> QED BY <1>1, <1>2, <1>5, <2>1, <2>2
<1> QED BY <1>3, <1>4, <1>5 DEF s, r, h, q

\* An authority that has no question mark has none at any place.
LEMMA NoQuestion ==
  ASSUME NEW tg, Formed(tg), Absolute(tg), ~Has(RawAuthority(tg), "?"),
         NEW j \in (Scheme(tg) + 1)..Root(tg)
  PROVE  tg[j] # "?"
<1> DEFINE s == Scheme(tg)
           r == Root(tg)
           a == Part(tg, s, r)
<1>1. s \in Nat /\ r \in s..Len(tg) /\ tg \in Seq(Alphabet) /\ Len(tg) \in Nat
  BY Places DEF Formed, Text
<1>2. a \in Seq(Alphabet) /\ Len(a) = r - s /\ \A i \in 1..(r - s) : a[i] = tg[s + i]
  BY <1>1, PartIs
<1>3. RawAuthority(tg) = a
  BY AuthorityIs
<1>4. j \in (s + 1)..r
  OBVIOUS
<1> HIDE DEF s, r, a
<1>5. j - s \in 1..(r - s) /\ s + (j - s) = j /\ DOMAIN a = 1..(r - s)
  BY <1>1, <1>2, <1>4, LenProperties
<1>6. a[j - s] # "?"
  BY <1>3, <1>5 DEF Has
<1> QED BY <1>2, <1>5, <1>6

\* One character is read of a target, and done what a row says.
Step(buf, u, row, c, new, v, tg, k) ==
  /\ Text(tg) /\ k \in 0..Len(tg) /\ Len(tg) \in Nat
  /\ c = "NUL" => k = Len(tg)
  /\ c # "NUL" => k < Len(tg) /\ c = tg[k + 1]
  /\ buf \in Seq(Alphabet) /\ Trails(u) /\ u.at <= Len(buf) /\ Did(buf, u, row, c, new, v)
  /\ row \in UriRows /\ row.from = u.state /\ UriClass(c) \in row.on

\* What is copied of a part: a character, or a % with what it stands for.
Copying(row, c) ==
  \/ Lag(row.from) = 0 /\ c = "%" /\ row.do = {} /\ Lag(row.to) = 1
  \/ Lag(row.from) = 0 /\ c \notin {"%", "NUL"} /\ row.do = {"print"} /\ Lag(row.to) = 0
  \/ Lag(row.from) = 1 /\ c = "%" /\ row.do = {"print"} /\ Lag(row.to) = 0
  \/ Lag(row.from) = 1 /\ c \in Hexadecimals /\ row.do = {"digit"} /\ Lag(row.to) = 2
  \/ Lag(row.from) = 2 /\ c \in Hexadecimals /\ row.do = {"digit", "byte"} /\ Lag(row.to) = 0

\* A digit is no mark, and two of them make a number.
LEMMA DigitIs ==
  ASSUME NEW u, NEW c \in Hexadecimals
  PROVE  /\ c \notin {"%", "NUL", "?", "/", ":"}
         /\ u.decoded = 0 => Decoded(u, c) = Value[c]
         /\ \A d \in Hexadecimals :
              u.decoded = Value[d] => Decoded(u, c) = 16 * Value[d] + Value[c] /\ Decoded(u, c) \in 0..255
<1>1. c \notin {"%", "NUL", "?", "/", ":"}
  BY DEF Hexadecimals, HexDigit
<1>2. Value[c] \in 0..15 /\ \A d \in Hexadecimals : Value[d] \in 0..15
  BY ValueIs
<1>3. 2^8 = 256
  OBVIOUS
<1>4. Decoded(u, c) = (16 * u.decoded + Value[c]) % 256
  BY <1>3 DEF Decoded
<1>5. u.decoded = 0 => Decoded(u, c) = Value[c]
  BY <1>2, <1>4
<1>6. ASSUME NEW d \in Hexadecimals, u.decoded = Value[d]
      PROVE  Decoded(u, c) = 16 * Value[d] + Value[c] /\ Decoded(u, c) \in 0..255
  <2> DEFINE a == Value[d]
             b == Value[c]
  <2>1. a \in 0..15 /\ b \in 0..15 /\ Decoded(u, c) = (16 * a + b) % 256
    BY <1>2, <1>4, <1>6
  <2> HIDE DEF a, b
  <2>2. 16 * a + b \in 0..255 /\ (16 * a + b) % 256 = 16 * a + b
    BY <2>1
  <2> QED BY <2>1, <2>2 DEF a, b
<1> QED BY <1>1, <1>5, <1>6

\* Digits behind a % are remembered,
LEMMA QuotedOn ==
  ASSUME NEW buf, NEW u, NEW row, NEW c, NEW new, NEW v, NEW tg, NEW k,
         Step(buf, u, row, c, new, v, tg, k), Copying(row, c), Quoted(u, tg, k)
  PROVE  Quoted(v, tg, k + 1)
<1>1. Text(tg) /\ k \in 0..Len(tg) /\ Len(tg) \in Nat /\ row.from = u.state /\ c # "NUL"
      /\ k < Len(tg) /\ c = tg[k + 1]
  BY DigitIs DEF Step, Copying
<1>2. /\ v.state = row.to
      /\ v.decoded = IF "byte" \in row.do THEN 0
                     ELSE IF "digit" \in row.do THEN Decoded(u, c) ELSE u.decoded
  BY DEF Step, Did
<1>3. (k + 1) - 1 = k
  BY <1>1
<1> QED BY <1>1, <1>2, <1>3, DigitIs DEF Copying, Quoted

\* and what is copied stands for what has been read.
LEMMA CopiesOn ==
  ASSUME NEW buf, NEW u, NEW row, NEW c, NEW new, NEW v, NEW tg, NEW k,
         Step(buf, u, row, c, new, v, tg, k), Copying(row, c), Quoted(u, tg, k),
         NEW a \in Nat, NEW b \in a..Len(tg), a + Lag(u.state) <= k, k + 1 <= b,
         NEW base, Copies(buf, base, u.w, Part(tg, a, b), k - Lag(u.state) - a)
  PROVE  Copies(new, base, v.w, Part(tg, a, b), (k + 1) - Lag(v.state) - a)
<1> DEFINE raw == Part(tg, a, b)
           lag == Lag(u.state)
           m == k - lag - a
<1>1. /\ tg \in Seq(Alphabet) /\ k \in 0..Len(tg) /\ Len(tg) \in Nat /\ row.from = u.state /\ c # "NUL"
      /\ k < Len(tg) /\ c = tg[k + 1] /\ buf \in Seq(Alphabet)
      /\ u.w \in Nat /\ lag \in Nat /\ m \in Nat
  BY DigitIs DEF Step, Copying, Text, Trails, Lag
<1>2. Did(buf, u, row, c, new, v)
  BY DEF Step
<1>3. /\ raw \in Seq(Alphabet) /\ Len(raw) = b - a
      /\ \A i \in 1..(b - a) : raw[i] = tg[a + i]
  <2>1. tg \in Seq(Alphabet)
    BY <1>1
  <2> QED BY <2>1, PartIs, Zenon
<1>4. Copies(buf, base, u.w, raw, m)
  OBVIOUS
<1> HIDE DEF raw
<1>5. m + lag < Len(raw) /\ m + lag + a = k
  <2>1. PICK n \in Nat : n = Len(tg)
    BY <1>1
  <2>2. k \in Nat /\ k + 1 <= b /\ b \in Nat
    BY <1>1, <2>1
  <2> HIDE DEF lag
  <2>3. m + lag < b - a /\ m + lag + a = k
    BY <1>1, <2>2
  <2> QED BY <1>3, <2>3
<1>6. /\ raw[m + 1] = tg[a + (m + 1)]
      /\ lag >= 1 => raw[m + 2] = tg[a + (m + 2)]
      /\ lag >= 2 => raw[m + 3] = tg[a + (m + 3)]
  <2>1. b - a \in Nat /\ m + lag < b - a
    BY <1>1, <1>3, <1>5
  <2> HIDE DEF lag, m
  <2>2. m + 1 \in 1..(b - a) /\ (lag >= 1 => m + 2 \in 1..(b - a)) /\ (lag >= 2 => m + 3 \in 1..(b - a))
    BY <1>1, <2>1
  <2> QED BY <1>3, <2>2
<1>7. v.state = row.to /\ u.w + 1 <= Len(buf)
  BY <1>2 DEF Did
<1> DEFINE w == u.w
<1>8. Copies(buf, base, w, raw, m) /\ w \in Nat /\ w + 1 <= Len(buf)
  BY <1>1, <1>4, <1>7
<1>a. "port" \notin row.do /\ "zero" \notin row.do
  BY DEF Copying
<1>b. Agree(buf, new, w) /\ Behind(u, row) = w
  BY <1>2, <1>a DEF Did, Behind
<1>9. CASE lag = 0 /\ c = "%" /\ row.do = {} /\ Lag(row.to) = 1
  <2>1. v.w = u.w
    BY <1>2, <1>9, <1>b DEF Did, Writes
  <2>2. w \in 0..Len(buf)
    BY <1>1, <1>8, LenProperties
  <2>3. Copies(new, base, w, raw, m)
    <3> HIDE DEF m, w
    <3> QED BY <1>1, <1>8, <1>b, <2>2, CopyStays
  <2>4. (k + 1) - Lag(v.state) - a = m
    BY <1>1, <1>7, <1>9
  <2> QED BY <2>1, <2>3, <2>4 DEF raw
<1>10. CASE lag = 0 /\ c \notin {"%", "NUL"} /\ row.do = {"print"} /\ Lag(row.to) = 0
  <2>1. v.w = w + 1 /\ new[w + 1] = c
    BY <1>2, <1>10, <1>b DEF Did, Writes
  <2>2. raw[m + 1] = c /\ m < Len(raw)
    BY <1>1, <1>5, <1>6, <1>10
  <2>3. Copies(new, base, w + 1, raw, m + 1)
    <3> HIDE DEF m, w
    <3> QED BY <1>1, <1>3, <1>8, <1>10, <1>b, <2>1, <2>2, CopyPlain
  <2>4. (k + 1) - Lag(v.state) - a = m + 1
    BY <1>1, <1>7, <1>10
  <2> QED BY <2>1, <2>3, <2>4 DEF raw
<1>11. CASE lag = 1 /\ c = "%" /\ row.do = {"print"} /\ Lag(row.to) = 0
  <2>1. v.w = w + 1 /\ new[w + 1] = c
    BY <1>2, <1>11, <1>b DEF Did, Writes
  <2>2. raw[m + 1] = "%" /\ raw[m + 2] = "%" /\ m + 1 < Len(raw)
    <3>1. tg[k] = "%" /\ a + (m + 1) = k /\ a + (m + 2) = k + 1
      BY <1>1, <1>11 DEF Quoted
    <3>2. m + 1 < Len(raw)
      BY <1>5, <1>11
    <3> HIDE DEF m, lag
    <3>3. raw[m + 1] = tg[k]
      BY <1>6, <3>1
    <3>4. raw[m + 2] = tg[k + 1]
      BY <1>6, <1>11, <3>1
    <3> QED BY <1>1, <1>11, <3>1, <3>2, <3>3, <3>4
  <2>3. Copies(new, base, w + 1, raw, m + 2)
    <3> HIDE DEF m, w
    <3> QED BY <1>1, <1>3, <1>8, <1>11, <1>b, <2>1, <2>2, CopyPercent
  <2>4. (k + 1) - Lag(v.state) - a = m + 2
    BY <1>1, <1>7, <1>11
  <2> QED BY <2>1, <2>3, <2>4 DEF raw
<1>12. CASE lag = 1 /\ c \in Hexadecimals /\ row.do = {"digit"} /\ Lag(row.to) = 2
  <2>1. v.w = u.w
    BY <1>2, <1>12, <1>b DEF Did, Writes
  <2>2. w \in 0..Len(buf)
    BY <1>1, <1>8, LenProperties
  <2>3. Copies(new, base, w, raw, m)
    <3> HIDE DEF m, w
    <3> QED BY <1>1, <1>8, <1>b, <2>2, CopyStays
  <2>4. (k + 1) - Lag(v.state) - a = m
    BY <1>1, <1>7, <1>12
  <2> QED BY <2>1, <2>3, <2>4 DEF raw
<1>13. CASE lag = 2 /\ c \in Hexadecimals /\ row.do = {"digit", "byte"} /\ Lag(row.to) = 0
  <2> DEFINE x == Character(Decoded(u, c))
  <2>1. v.w = w + 1 /\ new[w + 1] = x /\ Decoded(u, c) # 0
    BY <1>2, <1>13, <1>b DEF Did, Writes
  <2>2. tg[k - 1] = "%" /\ tg[k] \in Hexadecimals /\ u.decoded = Value[tg[k]]
    BY <1>13 DEF Quoted
  <2>3. Decoded(u, c) = 16 * Value[tg[k]] + Value[c] /\ Decoded(u, c) \in 0..255 /\ tg[k] # "%"
    <3> DEFINE d == tg[k]
    <3>1. d \in Hexadecimals /\ u.decoded = Value[d] /\ c \in Hexadecimals
      BY <1>13, <2>2
    <3> HIDE DEF d
    <3>2. d # "%"
      BY <3>1, DigitIs
    <3>3. Decoded(u, c) = 16 * Value[d] + Value[c] /\ Decoded(u, c) \in 0..255
      BY <3>1, DigitIs
    <3> QED BY <3>2, <3>3 DEF d
  <2>4. a + (m + 1) = k - 1 /\ a + (m + 2) = k /\ a + (m + 3) = k + 1
    BY <1>1, <1>13
  <2>5. raw[m + 1] = "%" /\ raw[m + 2] = tg[k] /\ raw[m + 3] = c /\ m + 2 < Len(raw)
    BY <1>1, <1>5, <1>6, <1>13, <2>2, <2>4
  <2>6. x # "NUL" /\ x = Character(16 * Value[raw[m + 2]] + Value[raw[m + 3]]) /\ raw[m + 2] # "%"
    <3>1. Decoded(u, c) \in 1..255
      BY <2>1, <2>3
    <3>2. x # "NUL"
      BY <3>1, CharacterIs
    <3> QED BY <2>3, <2>5, <3>2
  <2> HIDE DEF x
  <2>7. Copies(new, base, w + 1, raw, m + 3)
    <3> HIDE DEF m, w
    <3> QED BY <1>1, <1>3, <1>8, <1>b, <2>1, <2>5, <2>6, CopyByte
  <2>8. (k + 1) - Lag(v.state) - a = m + 3
    BY <1>1, <1>7, <1>13
  <2> QED BY <2>1, <2>7, <2>8 DEF raw
<1> QED BY <1>1, <1>9, <1>10, <1>11, <1>12, <1>13 DEF Copying

\* A part begins, with nothing of it.
LEMMA CopyBegins ==
  ASSUME NEW buf \in Seq(Alphabet), NEW w \in 0..Len(buf), NEW raw \in Seq(Alphabet)
  PROVE  Copies(buf, w, w, raw, 0)
<1>1. w \in Nat /\ w + 1 > w /\ w \in w..Len(buf) /\ Len(raw) \in Nat /\ w - w = 0
  BY LenProperties
<1>2. Part(buf, w, w) = <<>>
  <2>1. w + 1 \in Int /\ w \in Int /\ w < w + 1
    BY <1>1
  <2> QED BY <2>1, SubSeqEmpty DEF Part
<1>3. Unquoting(raw)[1] \in Seq(Alphabet) /\ Unquoted(raw) = Unquoting(raw)[1]
  <2>1. 1 \in 1..(Len(raw) + 1)
    BY <1>1
  <2> QED BY <2>1, UnquotingIs
<1>4. <<>> \o Unquoting(raw)[1] = Unquoted(raw)
  BY <1>3, ConcatEmptySeq
<1>5. 0 + 1 = 1 /\ 0 \in 0..Len(raw) /\ w \in 0..w /\ \A j \in (w + 1)..w : FALSE
  BY <1>1
<1> QED BY <1>2, <1>4, <1>5 DEF Copies

\* A text that is copied as it is,
LEMMA VerbatimOn ==
  ASSUME NEW buf, NEW base, NEW w \in Nat, NEW tg, NEW from \in Nat, NEW k \in Nat,
         Verbatim(buf, base, w, tg, from, k), NEW new, Agree(buf, new, w), new[w + 1] = tg[k + 1]
  PROVE  Verbatim(new, base, w + 1, tg, from, k + 1)
<1>1. /\ base \in Nat /\ from <= k /\ w = base + (k - from)
      /\ \A j \in 1..(k - from) : buf[base + j] = tg[from + j]
  BY DEF Verbatim
<1>2. from <= k + 1 /\ w + 1 = base + ((k + 1) - from)
  BY <1>1
<1>3. ASSUME NEW j \in 1..((k + 1) - from) PROVE new[base + j] = tg[from + j]
  <2>1. CASE j = (k + 1) - from
    <3>1. base + j = w + 1 /\ from + j = k + 1
      BY <1>1, <2>1
    <3> QED BY <3>1
  <2>2. CASE j # (k + 1) - from
    <3>1. j \in 1..(k - from) /\ base + j \in 1..w
      BY <1>1, <2>2
    <3> QED BY <1>1, <3>1 DEF Agree
  <2> QED BY <2>1, <2>2
<1> QED BY <1>1, <1>2, <1>3 DEF Verbatim

\* and the end of it.
LEMMA VerbatimEnds ==
  ASSUME NEW tg, Text(tg), NEW from \in Nat, NEW k \in from..Len(tg),
         NEW buf, NEW base, NEW w \in Nat, Verbatim(buf, base, w, tg, from, k),
         NEW new, Agree(buf, new, w), new[w + 1] = "NUL", NEW limit \in Nat, w + 1 <= limit
  PROVE  /\ Ended(new, base, Part(tg, from, k), limit)
         /\ Part(tg, from, k) \in Seq(Alphabet) /\ Len(Part(tg, from, k)) = k - from
<1> DEFINE t == Part(tg, from, k)
<1>1. /\ base \in Nat /\ from <= k /\ w = base + (k - from) /\ k \in Nat /\ Len(tg) \in Nat
      /\ \A j \in 1..(k - from) : buf[base + j] = tg[from + j]
  BY DEF Verbatim, Text
<1>2. t \in Seq(Alphabet) /\ Len(t) = k - from /\ \A j \in 1..(k - from) : t[j] = tg[from + j]
  <2>1. tg \in Seq(Alphabet)
    BY DEF Text
  <2> QED BY <2>1, PartIs
<1> HIDE DEF t
<1>3. \A j \in 1..(k - from) : base + j \in 1..w /\ from + j \in 1..Len(tg)
  BY <1>1
<1>4. \A j \in 1..(k - from) : new[base + j] = t[j] /\ t[j] # "NUL"
  BY <1>1, <1>2, <1>3 DEF Agree, Text
<1>5. base + Len(t) + 1 = w + 1
  BY <1>1, <1>2
<1>6. Ended(new, base, t, limit)
  BY <1>1, <1>2, <1>4, <1>5 DEF Ended
<1> QED BY <1>2, <1>6 DEF t

\* Buffers that agree up to a place agree up to any before.
LEMMA AgreeLess ==
  ASSUME NEW buf, NEW new, NEW m \in Nat, Agree(buf, new, m), NEW l \in 0..m
  PROVE  Agree(buf, new, l)
BY DEF Agree

\* The raw parts, as texts.
LEMMA Raw ==
  ASSUME NEW tg, Formed(tg)
  PROVE  /\ RawPath(tg) \in Seq(Alphabet) /\ Len(RawPath(tg)) = PathEnd(tg) - Root(tg)
         /\ Absolute(tg) =>
              RawHost(tg) \in Seq(Alphabet) /\ Len(RawHost(tg)) = HostEnd(tg) - Scheme(tg)
<1>0. tg \in Seq(Alphabet)
  BY DEF Formed, Text
<1>1. RawPath(tg) \in Seq(Alphabet) /\ Len(RawPath(tg)) = PathEnd(tg) - Root(tg)
  <2>1. Root(tg) \in Nat /\ PathEnd(tg) \in Root(tg)..Len(tg)
    BY Places
  <2>2. RawPath(tg) = Part(tg, Root(tg), PathEnd(tg))
    BY PathIs
  <2> QED BY <1>0, <2>1, <2>2, PartIs
<1>2. ASSUME Absolute(tg)
      PROVE  RawHost(tg) \in Seq(Alphabet) /\ Len(RawHost(tg)) = HostEnd(tg) - Scheme(tg)
  <2>1. Scheme(tg) \in Nat /\ HostEnd(tg) \in Scheme(tg)..Len(tg)
    BY <1>2, Places
  <2>2. RawHost(tg) = Part(tg, Scheme(tg), HostEnd(tg))
    BY <1>2, AuthorityIs
  <2> QED BY <1>0, <2>1, <2>2, PartIs
<1> QED BY <1>1, <1>2

\* A path begins, with its first character.
LEMMA PathBegins ==
  ASSUME NEW tg, Formed(tg), NEW k, k = Root(tg), k < Len(tg), tg[k + 1] = "/",
         NEW new \in Seq(Alphabet), NEW p \in Nat, p + 1 <= Len(new), new[p + 1] = "/",
         NEW v, v.path = p, v.w = p + 1, v.decoded = 0, v.query = None, v.state \in {"PATH", "PATH?"},
         HostDone(new, v, tg, p), PortDone(v, tg)
  PROVE  PathRead(new, v, tg, k + 1)
<1> DEFINE raw == RawPath(tg)
<1>1. k \in Nat /\ k <= PathEnd(tg) /\ PathEnd(tg) \in Nat /\ Len(new) \in Nat
  BY Places, LenProperties
<1>2. k + 1 <= PathEnd(tg)
  BY <1>1, StopsAre
<1>3. raw \in Seq(Alphabet) /\ Len(raw) = PathEnd(tg) - k /\ raw[1] = "/"
  <2>1. raw \in Seq(Alphabet) /\ Len(raw) = PathEnd(tg) - k
    BY Raw
  <2>2. raw = Part(tg, k, PathEnd(tg)) /\ PathEnd(tg) \in k..Len(tg) /\ tg \in Seq(Alphabet)
    BY PathIs, Places DEF Formed, Text
  <2>3. 1 \in 1..(PathEnd(tg) - k)
    BY <1>1, <1>2
  <2>4. Part(tg, k, PathEnd(tg))[1] = tg[k + 1]
    <3> DEFINE e == PathEnd(tg)
    <3>1. k \in Nat /\ e \in k..Len(tg) /\ tg \in Seq(Alphabet) /\ 1 \in 1..(e - k)
      BY <1>1, <2>2, <2>3
    <3> HIDE DEF e, raw
    <3>2. Part(tg, k, e)[1] = tg[k + 1]
      BY <3>1, PartFirst
    <3> QED BY <3>2 DEF e
  <2> QED BY <2>1, <2>2, <2>4
<1> HIDE DEF raw
<1>4. Copies(new, p, p, raw, 0)
  <2>1. p \in 0..Len(new)
    BY <1>1
  <2> QED BY <1>3, <2>1, CopyBegins
<1>5. Copies(new, p, p + 1, raw, 0 + 1)
  <2>1. Agree(new, new, p)
    BY DEF Agree
  <2>2. 0 < Len(raw) /\ raw[0 + 1] = "/" /\ raw[0 + 1] \notin {"%", "NUL"}
    BY <1>1, <1>2, <1>3
  <2> QED BY <1>3, <1>4, <2>1, <2>2, CopyPlain
<1>6. Lag(v.state) = 0 /\ Root(tg) + Lag(v.state) <= k + 1 /\ (k + 1) - Lag(v.state) - Root(tg) = 0 + 1
  BY <1>1 DEF Lag
<1>7. Quoted(v, tg, k + 1)
  BY <1>6 DEF Quoted
<1> QED BY <1>2, <1>5, <1>6, <1>7 DEF PathRead, raw

-----------------------------------------------------------------------------
(* One character, by what is being read. *)

\* A step before the host,
LEMMA SchemeStep ==
  ASSUME NEW buf, NEW u, NEW row, NEW c, NEW new, NEW v, NEW tg, NEW k,
         Step(buf, u, row, c, new, v, tg, k), u.state \in InScheme, SchemeRead(u, tg, k)
  PROVE  Reads(new, v, tg, k + 1)
<1>0. /\ Text(tg) /\ tg \in Seq(Alphabet) /\ k \in 0..Len(tg) /\ k \in Nat /\ Len(tg) \in Nat
      /\ (c # "NUL" => k < Len(tg) /\ c = tg[k + 1])
      /\ buf \in Seq(Alphabet) /\ u.w \in Nat /\ Did(buf, u, row, c, new, v)
      /\ row \in UriRows /\ row.from = u.state /\ row.from \in InScheme /\ UriClass(c) \in row.on
      /\ new \in Seq(Alphabet) /\ Len(new) = Len(buf) /\ Len(buf) \in Nat
  BY LenProperties DEF Step, Text, Trails, Did, Agree
<1>1. ASSUME row.do = {} \/ row.do = {"ssl"}
      PROVE  /\ v.state = row.to /\ v.host = u.host /\ v.path = u.path /\ v.query = u.query
             /\ v.port = u.port /\ v.decoded = u.decoded
  BY <1>0, <1>1 DEF Did
<1>2. CASE row.from = "START" /\ c = "/" /\ row.do = {"path", "print"} /\ row.to = "PATH?"
  <2>1. k = 0 /\ u.host = None /\ u.query = None /\ u.port = 0 /\ u.decoded = 0
    BY <1>0, <1>2 DEF SchemeRead
  <2>2. ~Absolute(tg) /\ Root(tg) = 0 /\ Scheme(tg) = 0
    BY <1>0, <1>2, <2>1 DEF Absolute, Root, Scheme
  <2>3. Formed(tg)
    BY <1>0, <2>2 DEF Formed
  <2>4. /\ v.state = "PATH?" /\ v.path = u.w /\ v.w = u.w + 1 /\ v.host = u.host /\ v.query = u.query
        /\ v.port = u.port /\ v.decoded = u.decoded /\ new[u.w + 1] = "/" /\ u.w + 1 <= Len(new)
    BY <1>0, <1>2 DEF Did, Writes, Behind
  <2>5. HostDone(new, v, tg, u.w) /\ PortDone(v, tg)
    BY <2>1, <2>2, <2>4 DEF HostDone, PortDone
  <2>6. PathRead(new, v, tg, k + 1)
    BY <1>0, <1>2, <2>1, <2>2, <2>3, <2>4, <2>5, PathBegins
  <2> QED BY <2>4, <2>6 DEF Reads, InScheme, InHost, InPort, InPath
<1>3. CASE (row.do = {} \/ row.do = {"ssl"}) /\ row.to \in InScheme /\ c # "NUL"
  <2>1. c = tg[k + 1] /\ v.state = row.to
    BY <1>0, <1>1, <1>3
  <2>2. row.to # "START" => tg[1] = "h"
    <3>1. CASE row.from = "START"
      <4>1. c = "h" /\ k = 0
        BY <1>0, <1>3, <3>1, SchemeKinds DEF SchemeRead
      <4> QED BY <1>0, <1>3, <4>1
    <3>2. CASE row.from # "START"
      BY <1>0, <3>2 DEF SchemeRead
    <3> QED BY <3>1, <3>2
  <2>3. row.to # "START" /\ (row.to = "HTTPS" => k + 1 = 5 /\ tg[5] = "s")
    BY <1>0, <1>3, <2>1, SchemeKinds DEF SchemeRead
  <2>4. Absolute(tg) /\ Scheme(tg) = IF tg[5] = "s" THEN 8 ELSE 7
    BY <2>2, <2>3 DEF Absolute, Scheme
  <2>5. row.to = "AUTH" => (k + 1) + 2 = Scheme(tg)
    <3>1. row.to = "AUTH" =>
            \/ row.from = "HTTP" /\ c = ":"
            \/ row.from = "HTTPS" /\ c = ":"
      BY <1>0, <1>3, SchemeKinds
    <3>2. row.from = "HTTP" => k = 4
      BY <1>0 DEF SchemeRead
    <3>3. row.from = "HTTPS" => k = 5 /\ tg[5] = "s"
      BY <1>0 DEF SchemeRead
    <3> QED BY <2>1, <2>4, <3>1, <3>2, <3>3
  <2>6. /\ row.to = "AUTH/" => (k + 1) + 1 = Scheme(tg)
        /\ row.to = "HOST" => k + 1 = Scheme(tg)
    <3>1. /\ row.to = "AUTH/" => row.from = "AUTH"
          /\ row.to = "HOST" => row.from = "AUTH/"
      BY <1>0, <1>3, SchemeKinds
    <3>2. /\ row.from = "AUTH" => k + 2 = Scheme(tg)
          /\ row.from = "AUTH/" => k + 1 = Scheme(tg)
      BY <1>0 DEF SchemeRead
    <3>3. (k + 1) + 1 = k + 2
      BY <1>0
    <3> QED BY <3>1, <3>2, <3>3
  <2>7. /\ row.to = "H" => k + 1 = 1
        /\ row.to = "HT" => k + 1 = 2
        /\ row.to = "HTT" => k + 1 = 3
        /\ row.to = "HTTP" => k + 1 = 4
    BY <1>0, <1>3, SchemeKinds DEF SchemeRead
  <2>8. SchemeRead(v, tg, k + 1)
    <3>1. /\ v.host = None /\ v.path = None /\ v.query = None /\ v.port = 0 /\ v.decoded = 0
      BY <1>1, <1>3 DEF SchemeRead
    <3> QED BY <1>0, <2>1, <2>2, <2>3, <2>5, <2>6, <2>7, <3>1 DEF SchemeRead
  <2> QED BY <1>3, <2>1, <2>8 DEF Reads, InScheme, InHost, InPort, InPath
<1>4. CASE row.from = "HOST" /\ row.to \in {"HQ", "H1"} /\ c # "NUL"
           /\ \/ c = "%" /\ row.do = {"host"} /\ row.to = "HQ"
              \/ c = "?" /\ row.do = {"host", "print"} /\ row.to = "H1"
              \/ c \notin Marks /\ row.do = {"host", "print"} /\ row.to = "H1"
  <2>1. /\ k = Scheme(tg) /\ u.host = None /\ u.path = None /\ u.query = None /\ u.port = 0
        /\ u.decoded = 0 /\ tg[1] = "h"
    BY <1>0, <1>4 DEF SchemeRead
  <2>2. Absolute(tg) /\ k < Len(tg) /\ c = tg[k + 1] /\ Formed(tg)
    BY <1>0, <1>4, <2>1 DEF Absolute, Formed
  <2>3. /\ v.state = row.to /\ v.host = u.w /\ v.path = None /\ v.query = None /\ v.port = 0
        /\ v.decoded = 0 /\ Agree(buf, new, u.w) /\ u.w + 1 <= Len(buf)
        /\ row.to = "HQ" => v.w = u.w
        /\ row.to = "H1" => v.w = u.w + 1 /\ new[u.w + 1] = c
    BY <1>0, <1>4, <2>1 DEF Did, Writes, Behind
  <2>4. k <= HostEnd(tg) /\ HostEnd(tg) \in Nat /\ Root(tg) \in Nat /\ HostEnd(tg) <= Root(tg)
    BY <2>1, <2>2, Places
  <2>5. k + 1 <= HostEnd(tg)
    <3>1. tg[k + 1] \notin {":", "/"}
      BY <1>4, <2>2 DEF Marks
    <3> QED BY <1>0, <2>1, <2>2, <2>4, <3>1, StopsAre
  <2>6. Lag(v.state) = (IF row.to = "HQ" THEN 1 ELSE 0) /\ Quoted(v, tg, k + 1)
    BY <1>0, <1>4, <2>2, <2>3 DEF Lag, Quoted
  <2> DEFINE raw == RawHost(tg)
  <2>7. raw \in Seq(Alphabet) /\ Len(raw) = HostEnd(tg) - k /\ raw[1] = c
    <3>1. raw \in Seq(Alphabet) /\ Len(raw) = HostEnd(tg) - k /\ raw = Part(tg, k, HostEnd(tg))
      BY <2>1, <2>2, Raw, AuthorityIs
    <3> DEFINE e == HostEnd(tg)
    <3>2. e \in k..Len(tg) /\ 1 \in 1..(e - k)
      BY <1>0, <2>2, <2>4, <2>5, Places
    <3> HIDE DEF e, raw
    <3>3. \A i \in 1..(e - k) : Part(tg, k, e)[i] = tg[k + i]
      BY <1>0, <3>2, PartIs, Zenon
    <3>4. Part(tg, k, e)[1] = tg[k + 1]
      BY <3>2, <3>3
    <3> QED BY <2>2, <3>1, <3>4 DEF e
  <2> HIDE DEF raw
  <2>8. Copies(buf, u.w, u.w, raw, 0)
    <3>1. u.w \in 0..Len(buf)
      BY <1>0, <2>3
    <3> QED BY <1>0, <2>7, <3>1, CopyBegins
  <2>9. ~Has(RawAuthority(tg), "?") => Copies(new, u.w, v.w, raw, (k + 1) - Lag(v.state) - Scheme(tg))
    <3>1. CASE row.to = "HQ"
      <4>1. (k + 1) - Lag(v.state) - Scheme(tg) = 0 /\ u.w \in 0..Len(buf)
        BY <1>0, <2>1, <2>3, <2>6, <3>1
      <4>2. Copies(new, u.w, u.w, raw, 0)
        BY <1>0, <2>3, <2>8, <4>1, CopyStays
      <4> QED BY <2>3, <3>1, <4>1, <4>2
    <3>2. CASE row.to = "H1" /\ c = "?"
      <4>1. k + 1 \in (Scheme(tg) + 1)..Root(tg)
        BY <1>0, <2>1, <2>4, <2>5
      <4> QED BY <2>2, <3>2, <4>1, NoQuestion
    <3>3. CASE row.to = "H1" /\ c # "?"
      <4>1. c \notin {"%", "NUL"}
        BY <1>4, <3>3 DEF Marks
      <4>2. 0 < Len(raw) /\ raw[0 + 1] = c
        BY <1>0, <2>4, <2>5, <2>7
      <4>3. Copies(new, u.w, u.w + 1, raw, 0 + 1)
        BY <1>0, <2>3, <2>7, <2>8, <3>3, <4>1, <4>2, CopyPlain
      <4>4. (k + 1) - Lag(v.state) - Scheme(tg) = 0 + 1
        BY <1>0, <2>1, <2>6, <3>3
      <4> QED BY <2>3, <3>3, <4>3, <4>4
    <3> QED BY <1>4, <3>1, <3>2, <3>3
  <2>10. HostRead(new, v, tg, k + 1)
    <3>1. Scheme(tg) + Lag(v.state) <= k + 1
      BY <1>0, <2>1, <2>6
    <3> QED BY <1>0, <2>2, <2>3, <2>5, <2>6, <2>9, <3>1 DEF HostRead, raw
  <2> QED BY <1>4, <2>3, <2>10 DEF Reads, InScheme, InHost, InPort, InPath
<1> QED BY <1>0, <1>2, <1>3, <1>4, SchemeKinds DEF InScheme, Marks

\* What is known of a step in each of the parts.
LEMMA StepIs ==
  ASSUME NEW buf, NEW u, NEW row, NEW c, NEW new, NEW v, NEW tg, NEW k,
         Step(buf, u, row, c, new, v, tg, k)
  PROVE  /\ Text(tg) /\ tg \in Seq(Alphabet) /\ k \in 0..Len(tg) /\ k \in Nat /\ Len(tg) \in Nat
         /\ c = "NUL" => k = Len(tg)
         /\ c # "NUL" => k < Len(tg) /\ c = tg[k + 1]
         /\ buf \in Seq(Alphabet) /\ u.w \in Nat /\ u.w \in 0..Len(buf) /\ u.w + 1 <= Len(buf)
         /\ u.mark \in Nat /\ u.mark <= u.w
         /\ Did(buf, u, row, c, new, v) /\ v.state = row.to
         /\ row \in UriRows /\ row.from = u.state /\ UriClass(c) \in row.on
         /\ new \in Seq(Alphabet) /\ Len(new) = Len(buf) /\ Len(buf) \in Nat
         /\ "port" \notin row.do => Agree(buf, new, u.w) /\ v.port = u.port
<1>1. buf \in Seq(Alphabet) /\ Len(buf) \in Nat /\ Trails(u) /\ Did(buf, u, row, c, new, v)
  BY LenProperties DEF Step
<1>2. u.w + 1 <= Len(buf) /\ u.w \in Nat /\ u.mark \in Nat /\ u.mark <= u.w
  BY <1>1 DEF Did, Trails
<1> QED BY <1>1, <1>2 DEF Step, Text, Did, Agree

\* in the host,
LEMMA HostStep ==
  ASSUME NEW buf, NEW u, NEW row, NEW c, NEW new, NEW v, NEW tg, NEW k,
         Step(buf, u, row, c, new, v, tg, k), u.state \in InHost, HostRead(buf, u, tg, k)
  PROVE  Reads(new, v, tg, k + 1)
<1> DEFINE raw == RawHost(tg)
           s == Scheme(tg)
           h == HostEnd(tg)
           r == Root(tg)
           n == Len(tg)
           silent == ~Has(RawAuthority(tg), "?")
<1>0. /\ tg \in Seq(Alphabet) /\ k \in 0..n /\ k \in Nat /\ n \in Nat
      /\ c = "NUL" => k = n
      /\ c # "NUL" => k < n /\ c = tg[k + 1]
      /\ buf \in Seq(Alphabet) /\ u.w \in Nat /\ u.w \in 0..Len(buf) /\ u.w + 1 <= Len(buf)
      /\ Did(buf, u, row, c, new, v) /\ v.state = row.to
      /\ row \in UriRows /\ row.from = u.state /\ row.from \in InHost /\ UriClass(c) \in row.on
      /\ new \in Seq(Alphabet) /\ Len(new) = Len(buf) /\ Len(buf) \in Nat
      /\ "port" \notin row.do => Agree(buf, new, u.w) /\ v.port = u.port
  BY StepIs
<1>1. /\ Formed(tg) /\ Absolute(tg) /\ s + Lag(u.state) <= k /\ k <= h
      /\ Quoted(u, tg, k) /\ u.path = None /\ u.query = None /\ u.port = 0
      /\ silent => u.host \in Nat /\ Copies(buf, u.host, u.w, raw, k - Lag(u.state) - s)
  BY DEF HostRead
<1>2. /\ s \in Nat /\ r \in Nat /\ h \in Nat /\ s <= h /\ h <= r /\ r <= n /\ Lag(u.state) \in 0..2
      /\ raw \in Seq(Alphabet) /\ Len(raw) = h - s /\ s <= k
  <2>1. /\ s \in Nat /\ r \in Nat /\ h \in Nat /\ s <= h /\ h <= r /\ r <= n
    BY <1>0, <1>1, Places
  <2>2. Lag(u.state) \in 0..2
    BY DEF Lag
  <2>3. raw \in Seq(Alphabet) /\ Len(raw) = h - s
    BY <1>1, Raw
  <2>4. s <= k
    BY <1>0, <1>1, <2>1, <2>2
  <2> QED BY <2>1, <2>2, <2>3, <2>4
<1> HIDE DEF raw, s, h, r, n, silent
<1>3. CASE Copying(row, c) /\ c # "/" /\ c # ":" /\ row.to \in InHost
  <2>1. c # "NUL"
    BY <1>3, DigitIs DEF Copying
  <2>2. k + 1 <= h
    <3>1. k < n /\ tg[k + 1] \notin {":", "/"}
      BY <1>0, <1>3, <2>1
    <3> QED BY <1>0, <1>1, <1>2, <3>1, StopsAre DEF s, h, n
  <2>3. Quoted(v, tg, k + 1)
    BY <1>1, <1>3, QuotedOn
  <2>4. /\ v.host = u.host /\ v.path = u.path /\ v.query = u.query /\ v.port = u.port
    BY <1>0, <1>3 DEF Copying, Did
  <2>5. Lag(v.state) <= Lag(u.state) + 1 /\ Lag(v.state) \in 0..2
    BY <1>0, <1>3 DEF Copying, Lag
  <2>6. s + Lag(v.state) <= k + 1
    BY <1>0, <1>1, <1>2, <2>5
  <2>7. ASSUME silent
        PROVE  Copies(new, u.host, v.w, raw, (k + 1) - Lag(v.state) - s)
    <3>1. raw = Part(tg, s, h) /\ h \in s..Len(tg)
      BY <1>1, <1>2, AuthorityIs DEF raw, s, h, n
    <3>2. Copies(buf, u.host, u.w, Part(tg, s, h), k - Lag(u.state) - s)
      BY <1>1, <2>7, <3>1
    <3>3. s + Lag(u.state) <= k
      BY <1>1
    <3>4. Copies(new, u.host, v.w, Part(tg, s, h), (k + 1) - Lag(v.state) - s)
      BY <1>1, <1>2, <1>3, <2>2, <3>1, <3>2, <3>3, CopiesOn
    <3> QED BY <3>1, <3>4
  <2>8. HostRead(new, v, tg, k + 1)
    BY <1>1, <2>2, <2>3, <2>4, <2>6, <2>7 DEF HostRead, raw, s, h, silent
  <2> QED BY <1>0, <1>3, <2>8 DEF Reads, InScheme, InHost, InPort, InPath
<1>4. CASE row.from = "H1" /\ c = "?" /\ row.do = {} /\ row.to = "H1"
  <2>1. k < n /\ tg[k + 1] = "?"
    BY <1>0, <1>4
  <2>2. k + 1 <= h
    BY <1>0, <1>1, <1>2, <2>1, StopsAre DEF s, h, n
  <2>3. ~silent
    <3>1. k + 1 \in (s + 1)..r
      BY <1>0, <1>2, <2>2
    <3> QED BY <1>1, <2>1, <3>1, NoQuestion DEF silent, s, r
  <2>4. /\ v.host = u.host /\ v.path = u.path /\ v.query = u.query /\ v.port = u.port
        /\ v.decoded = u.decoded
    BY <1>0, <1>4 DEF Did
  <2>5. Lag(v.state) = 0 /\ Lag(u.state) = 0 /\ Quoted(v, tg, k + 1)
    BY <1>0, <1>1, <1>4, <2>4 DEF Lag, Quoted
  <2>6. HostRead(new, v, tg, k + 1)
    <3>1. s + Lag(v.state) <= k + 1
      BY <1>0, <1>2, <2>5
    <3> QED BY <1>1, <2>2, <2>3, <2>4, <2>5, <3>1 DEF HostRead, s, h, silent
  <2> QED BY <1>0, <1>4, <2>6 DEF Reads, InScheme, InHost, InPort, InPath
\* The end of a host, where NUL is written behind it.
<1>5. ASSUME row.from = "H1", k = h, new[u.w + 1] = "NUL", NEW limit \in Nat, u.w + 1 <= limit,
             v.host = u.host, "port" \notin row.do
      PROVE  HostDone(new, v, tg, limit)
  <2>1. Lag(u.state) = 0 /\ k - Lag(u.state) - s = Len(raw)
    BY <1>0, <1>2, <1>5 DEF Lag
  <2>2. ASSUME silent
        PROVE  Ended(new, u.host, Unquoted(raw), limit)
    <3>1. Copies(buf, u.host, u.w, raw, Len(raw))
      BY <1>1, <2>1, <2>2
    <3> QED BY <1>0, <1>2, <1>5, <3>1, CopyEnds
  <2> QED BY <1>1, <1>5, <2>2 DEF HostDone, silent, raw
<1>6. CASE row.from = "H1" /\ c = "NUL" /\ row.do = {"print"} /\ row.to = "END"
  <2>1. /\ v.host = u.host /\ v.path = None /\ v.query = None /\ v.port = 0
        /\ new[u.w + 1] = "NUL"
    BY <1>0, <1>1, <1>6 DEF Did, Writes, Behind
  <2>2. k = n /\ k = h /\ h = r /\ r = n
    BY <1>0, <1>1, <1>2, <1>6
  <2>3. HostDone(new, v, tg, Len(new))
    BY <1>0, <1>5, <1>6, <2>1, <2>2
  <2>4. PortDone(v, tg)
    <3>1. RawPort(tg) = <<>>
      BY <1>1, <2>2, AuthorityIs DEF h, r
    <3> QED BY <2>1, <3>1 DEF PortDone
  <2>5. PathDone(new, v, tg, Len(new))
    BY <2>1, <2>2 DEF PathDone, r, n
  <2>6. QueryDone(new, v, tg, Len(new))
    <3>1. PathEnd(tg) \in Root(tg)..Len(tg) /\ Root(tg) = Len(tg) /\ Len(tg) \in Nat
      BY <1>1, <2>2, Places DEF r, n
    <3>2. PathEnd(tg) = Len(tg)
      BY <3>1
    <3> QED BY <2>1, <3>2 DEF QueryDone
  <2>7. AllRead(new, v, tg)
    BY <1>0, <1>1, <2>3, <2>4, <2>5, <2>6 DEF AllRead
  <2> QED BY <1>0, <1>6, <2>7 DEF Reads, InScheme, InHost, InPort, InPath
<1>7. CASE row.from = "H1" /\ c = "/" /\ row.do = {"zero", "path", "print"} /\ row.to = "PATH"
  <2>1. /\ v.host = u.host /\ v.path = u.w + 1 /\ v.query = None /\ v.port = 0
        /\ v.w = u.w + 2 /\ v.decoded = u.decoded
        /\ new[u.w + 1] = "NUL" /\ new[u.w + 2] = "/"
    <3>1. Behind(u, row) = u.w + 1 /\ Writes(row) /\ (u.w + 1) + 1 = u.w + 2
      BY <1>0, <1>7 DEF Behind, Writes
    <3> QED BY <1>0, <1>1, <1>7, <3>1 DEF Did
  <2>2. k < n /\ tg[k + 1] = "/"
    BY <1>0, <1>7
  <2>3. k = h /\ k = r
    BY <1>0, <1>1, <1>2, <2>2, StopsAre DEF s, h, r, n
  <2>4. u.w + 1 \in Nat /\ (u.w + 1) + 1 = u.w + 2 /\ u.w + 2 <= Len(new)
    <3>1. Trails(u) /\ Room(u.state) = 1 /\ u.at <= Len(buf)
      BY <1>0, <1>7 DEF Step, Room
    <3> QED BY <1>0, <3>1 DEF Trails
  <2>5. HostDone(new, v, tg, u.w + 1)
    BY <1>0, <1>5, <1>7, <2>1, <2>3, <2>4
  <2>6. PortDone(v, tg)
    <3>1. RawPort(tg) = <<>>
      BY <1>1, <2>3, AuthorityIs DEF h, r
    <3> QED BY <2>1, <3>1 DEF PortDone
  <2>7. v.decoded = 0
    BY <1>0, <1>1, <1>7, <2>1 DEF Quoted, Lag
  <2>8. PathRead(new, v, tg, k + 1)
    <3> DEFINE p == u.w + 1
    <3>1. /\ p \in Nat /\ p + 1 <= Len(new) /\ new[p + 1] = "/" /\ v.path = p /\ v.w = p + 1
          /\ HostDone(new, v, tg, p)
      BY <2>1, <2>4, <2>5
    <3> HIDE DEF p
    <3> QED BY <1>0, <1>1, <1>7, <2>1, <2>2, <2>3, <2>6, <2>7, <3>1, PathBegins DEF r, n
  <2> QED BY <1>0, <1>7, <2>8 DEF Reads, InScheme, InHost, InPort, InPath
<1>8. CASE row.from = "H1" /\ c = ":" /\ row.do = {"zero", "mark"} /\ row.to = "PORT"
  <2>1. /\ v.host = u.host /\ v.path = None /\ v.query = None /\ v.port = 0
        /\ v.w = u.w + 1 /\ v.mark = u.w + 1 /\ v.decoded = u.decoded /\ new[u.w + 1] = "NUL"
    <3>1. Behind(u, row) = u.w + 1 /\ ~Writes(row)
      BY <1>0, <1>8 DEF Behind, Writes
    <3> QED BY <1>0, <1>1, <1>8, <3>1 DEF Did
  <2>2. k < n /\ tg[k + 1] = ":"
    BY <1>0, <1>8
  <2>3. k = h /\ k + 1 <= r
    BY <1>0, <1>1, <1>2, <2>2, StopsAre DEF s, h, r, n
  <2>4. u.w + 1 \in Nat
    BY <1>0
  <2>5. HostDone(new, v, tg, u.w + 1)
    BY <1>0, <1>5, <1>8, <2>1, <2>3, <2>4
  <2>6. Verbatim(new, u.w + 1, u.w + 1, tg, h + 1, k + 1)
    <3>1. (k + 1) - (h + 1) = 0 /\ h + 1 <= k + 1 /\ (u.w + 1) + 0 = u.w + 1
      BY <1>0, <1>2, <2>3
    <3> QED BY <2>4, <3>1 DEF Verbatim
  <2>7. v.decoded = 0
    BY <1>0, <1>1, <1>8, <2>1 DEF Quoted, Lag
  <2>8. PortRead(new, v, tg, k + 1)
    <3>1. h < r
      BY <1>0, <1>2, <2>3
    <3> QED BY <1>0, <1>1, <1>8, <2>1, <2>3, <2>5, <2>6, <2>7, <3>1 DEF PortRead, h, r
  <2> QED BY <1>0, <1>8, <2>8 DEF Reads, InScheme, InHost, InPort, InPath
<1>9. \/ Copying(row, c) /\ c # "/" /\ c # ":" /\ row.to \in InHost
      \/ row.from = "H1" /\ c = "?" /\ row.do = {} /\ row.to = "H1"
      \/ row.from = "H1" /\ c = "NUL" /\ row.do = {"print"} /\ row.to = "END"
      \/ row.from = "H1" /\ c = "/" /\ row.do = {"zero", "path", "print"} /\ row.to = "PATH"
      \/ row.from = "H1" /\ c = ":" /\ row.do = {"zero", "mark"} /\ row.to = "PORT"
  <2>1. CASE c \in Hexadecimals
    <3>1. c \notin {"%", "NUL", "?", "/", ":"}
      BY <2>1, DigitIs
    <3> QED BY <1>0, <2>1, <3>1, HostKinds DEF Copying, Lag, Marks, InHost
  <2>2. CASE c \notin Hexadecimals
    BY <1>0, <2>2, HostKinds DEF Copying, Lag, Marks, InHost
  <2> QED BY <2>1, <2>2
<1> QED BY <1>3, <1>4, <1>6, <1>7, <1>8, <1>9

\* in the port,
LEMMA PortStep ==
  ASSUME NEW buf, NEW u, NEW row, NEW c, NEW new, NEW v, NEW tg, NEW k,
         Step(buf, u, row, c, new, v, tg, k), u.state \in InPort, PortRead(buf, u, tg, k)
  PROVE  Reads(new, v, tg, k + 1)
<1> DEFINE h == HostEnd(tg)
           r == Root(tg)
           n == Len(tg)
<1>0. /\ tg \in Seq(Alphabet) /\ k \in 0..n /\ k \in Nat /\ n \in Nat
      /\ c = "NUL" => k = n
      /\ c # "NUL" => k < n /\ c = tg[k + 1]
      /\ buf \in Seq(Alphabet) /\ u.w \in Nat /\ u.w \in 0..Len(buf) /\ u.w + 1 <= Len(buf)
      /\ u.mark \in Nat /\ u.mark <= u.w
      /\ Did(buf, u, row, c, new, v) /\ v.state = row.to
      /\ row \in UriRows /\ row.from = u.state /\ row.from \in InPort /\ UriClass(c) \in row.on
      /\ new \in Seq(Alphabet) /\ Len(new) = Len(buf) /\ Len(buf) \in Nat
      /\ "port" \notin row.do => Agree(buf, new, u.w) /\ v.port = u.port
  BY StepIs
<1>1. /\ Formed(tg) /\ Absolute(tg) /\ h < r /\ k <= r
      /\ Verbatim(buf, u.mark, u.w, tg, h + 1, k)
      /\ (u.state = "PORT") = (k = h + 1)
      /\ HostDone(buf, u, tg, u.mark)
      /\ u.path = None /\ u.query = None /\ u.port = 0 /\ u.decoded = 0
  BY DEF PortRead
<1>2. /\ h \in Nat /\ r \in Nat /\ h + 1 <= k /\ Scheme(tg) \in Nat /\ Scheme(tg) <= k /\ r <= n
      /\ u.w = u.mark + (k - (h + 1))
  <2>1. h \in Nat /\ r \in Nat /\ Scheme(tg) \in Nat /\ Scheme(tg) <= h /\ r <= n
    BY <1>0, <1>1, Places
  <2>2. h + 1 <= k /\ u.w = u.mark + (k - (h + 1))
    BY <1>1 DEF Verbatim
  <2> QED BY <1>0, <2>1, <2>2
<1> HIDE DEF h, r, n
<1>3. CASE row.from = "PORT" /\ c = "/" /\ row.do = {"path", "print"} /\ row.to = "PATH"
  <2>1. k < n /\ tg[k + 1] = "/" /\ k = h + 1 /\ u.mark = u.w
    BY <1>0, <1>1, <1>2, <1>3
  <2>2. k = r
    BY <1>0, <1>1, <1>2, <2>1, StopsAre DEF r, n
  <2>3. /\ v.host = u.host /\ v.path = u.w /\ v.query = None /\ v.port = 0
        /\ v.w = u.w + 1 /\ v.decoded = 0 /\ new[u.w + 1] = "/" /\ Agree(buf, new, u.w)
    <3>1. Behind(u, row) = u.w /\ Writes(row)
      BY <1>0, <1>3 DEF Behind, Writes
    <3> QED BY <1>0, <1>1, <1>3, <3>1 DEF Did
  <2>4. HostDone(new, v, tg, u.w)
    BY <1>0, <1>1, <2>1, <2>3, DoneStays
  <2>5. PortDone(v, tg)
    <3>1. RawPort(tg) = Part(tg, h + 1, r)
      BY <1>1, AuthorityIs DEF h, r
    <3>2. Part(tg, h + 1, r) = <<>>
      <4>1. (h + 1) + 1 \in Int /\ r \in Int /\ r < (h + 1) + 1
        BY <1>2, <2>1, <2>2
      <4> QED BY <4>1, SubSeqEmpty DEF Part
    <3> QED BY <2>3, <3>1, <3>2 DEF PortDone
  <2>6. PathRead(new, v, tg, k + 1)
    BY <1>0, <1>1, <1>3, <2>1, <2>2, <2>3, <2>4, <2>5, PathBegins DEF r, n
  <2> QED BY <1>0, <1>3, <2>6 DEF Reads, InScheme, InHost, InPort, InPath
<1>4. CASE c \in Digits /\ c \notin Marks /\ row.do = {"print"} /\ row.to = "PORT1"
  <2>1. k < n /\ tg[k + 1] = c /\ c # "/"
    BY <1>0, <1>4 DEF Marks
  <2>2. k + 1 <= r
    BY <1>0, <1>1, <1>2, <2>1, StopsAre DEF r, n
  <2>3. /\ v.host = u.host /\ v.path = None /\ v.query = None /\ v.port = 0 /\ v.mark = u.mark
        /\ v.w = u.w + 1 /\ v.decoded = 0 /\ new[u.w + 1] = c /\ Agree(buf, new, u.w)
    <3>1. Behind(u, row) = u.w /\ Writes(row)
      BY <1>0, <1>4 DEF Behind, Writes
    <3> QED BY <1>0, <1>1, <1>4, <3>1 DEF Did
  <2>4. HostDone(new, v, tg, v.mark)
    <3>1. Agree(buf, new, u.mark)
      BY <1>0, <2>3, AgreeLess
    <3> QED BY <1>0, <1>1, <2>3, <3>1, DoneStays
  <2>5. Verbatim(new, u.mark, u.w + 1, tg, h + 1, k + 1)
    <3>1. h + 1 \in Nat
      BY <1>2
    <3> QED BY <1>0, <1>1, <2>1, <2>3, <3>1, VerbatimOn
  <2>6. PortRead(new, v, tg, k + 1)
    <3>1. (v.state = "PORT") = (k + 1 = h + 1)
      <4>1. k + 1 # h + 1
        BY <1>0, <1>2
      <4> QED BY <1>0, <1>4, <4>1
    <3> QED BY <1>0, <1>1, <2>2, <2>3, <2>4, <2>5, <3>1 DEF PortRead, h, r
  <2> QED BY <1>0, <1>4, <2>6 DEF Reads, InScheme, InHost, InPort, InPath
\* The end of a port.
<1>5. ASSUME "port" \in row.do, row.from = "PORT1", k = r
      PROVE  /\ PortDone(v, tg) /\ Agree(buf, new, u.mark)
             /\ v.host = u.host => HostDone(new, v, tg, u.mark)
  <2>1. Agree(buf, new, u.mark)
    BY <1>0, <1>5 DEF Did
  <2>2. PICK z : Agree(buf, z, u.w) /\ z[u.w + 1] = "NUL" /\ v.port = NumberOf(StringAt(z, u.mark))
    BY <1>0, <1>5 DEF Did
  <2> DEFINE t == Part(tg, h + 1, r)
  <2>3. Ended(z, u.mark, t, Len(z)) /\ t \in Seq(Alphabet) /\ Len(t) = r - (h + 1) /\ z \in Seq(Alphabet)
    <3>1. Text(tg) /\ h + 1 \in Nat /\ r \in (h + 1)..Len(tg)
      BY <1>0, <1>1, <1>2, <1>5 DEF Step, n
    <3>2. Len(z) = Len(buf) /\ Len(z) \in Nat /\ u.w + 1 <= Len(z) /\ z \in Seq(Alphabet)
      BY <1>0, <2>2 DEF Agree
    <3>3. Verbatim(buf, u.mark, u.w, tg, h + 1, r)
      BY <1>1, <1>5
    <3> HIDE DEF t
    <3> QED BY <1>0, <2>2, <3>1, <3>2, <3>3, VerbatimEnds DEF t
  <2>4. StringAt(z, u.mark) = t
    <3> HIDE DEF t
    <3> QED BY <2>3, EndedString
  <2>5. RawPort(tg) = t /\ t # <<>>
    <3>1. RawPort(tg) = t
      BY <1>1, AuthorityIs DEF h, r
    <3>2. Len(t) # 0
      <4>1. k # h + 1
        BY <1>0, <1>1, <1>5
      <4> QED BY <1>2, <1>5, <2>3, <4>1
    <3>3. Len(<<>>) = 0
      OBVIOUS
    <3> HIDE DEF t
    <3> QED BY <3>1, <3>2, <3>3
  <2>6. PortDone(v, tg)
    BY <1>1, <2>2, <2>4, <2>5 DEF PortDone
  <2>7. v.host = u.host => HostDone(new, v, tg, u.mark)
    BY <1>0, <1>1, <2>1, DoneStays
  <2> QED BY <2>1, <2>6, <2>7
<1>6. CASE row.from = "PORT1" /\ c = "NUL" /\ row.do = {"zero", "port"} /\ row.to = "END"
  <2>1. /\ v.host = u.host /\ v.path = None /\ v.query = None
    BY <1>0, <1>1, <1>6 DEF Did
  <2>2. k = n /\ k = r
    BY <1>0, <1>1, <1>2, <1>6
  <2>3. PortDone(v, tg) /\ HostDone(new, v, tg, u.mark)
    BY <1>5, <1>6, <2>1, <2>2
  <2>4. HostDone(new, v, tg, Len(new))
    <3>1. Agree(new, new, u.mark) /\ Len(new) \in Nat /\ u.mark <= Len(new)
      BY <1>0 DEF Agree
    <3> QED BY <1>0, <1>1, <2>3, <3>1, DoneStays
  <2>5. PathDone(new, v, tg, Len(new))
    BY <2>1, <2>2 DEF PathDone, r, n
  <2>6. QueryDone(new, v, tg, Len(new))
    <3>1. PathEnd(tg) \in Root(tg)..Len(tg) /\ Root(tg) = Len(tg) /\ Len(tg) \in Nat
      BY <1>1, <2>2, Places DEF r, n
    <3>2. PathEnd(tg) = Len(tg)
      BY <3>1
    <3> QED BY <2>1, <3>2 DEF QueryDone
  <2>7. AllRead(new, v, tg)
    BY <1>0, <1>1, <2>3, <2>4, <2>5, <2>6 DEF AllRead
  <2> QED BY <1>0, <1>6, <2>7 DEF Reads, InScheme, InHost, InPort, InPath
<1>7. CASE row.from = "PORT1" /\ c = "/" /\ row.do = {"zero", "port", "path", "print"} /\ row.to = "PATH"
  <2>1. k < n /\ tg[k + 1] = "/"
    BY <1>0, <1>7
  <2>2. k = r
    BY <1>0, <1>1, <1>2, <2>1, StopsAre DEF r, n
  <2>3. /\ v.host = u.host /\ v.path = u.mark /\ v.query = None
        /\ v.w = u.mark + 1 /\ v.decoded = 0 /\ new[u.mark + 1] = "/"
    <3>1. Behind(u, row) = u.mark /\ Writes(row)
      BY <1>0, <1>7 DEF Behind, Writes
    <3> QED BY <1>0, <1>1, <1>7, <3>1 DEF Did
  <2>4. PortDone(v, tg) /\ HostDone(new, v, tg, u.mark)
    BY <1>5, <1>7, <2>2, <2>3
  <2>5. u.mark + 1 <= Len(new)
    BY <1>0
  <2>6. PathRead(new, v, tg, k + 1)
    BY <1>0, <1>1, <1>7, <2>1, <2>2, <2>3, <2>4, <2>5, PathBegins DEF r, n
  <2> QED BY <1>0, <1>7, <2>6 DEF Reads, InScheme, InHost, InPort, InPath
<1> QED BY <1>0, <1>3, <1>4, <1>6, <1>7, PortKinds

\* in the path,
LEMMA PathStep ==
  ASSUME NEW buf, NEW u, NEW row, NEW c, NEW new, NEW v, NEW tg, NEW k,
         Step(buf, u, row, c, new, v, tg, k), u.state \in InPath, PathRead(buf, u, tg, k)
  PROVE  Reads(new, v, tg, k + 1)
<1> DEFINE raw == RawPath(tg)
           r == Root(tg)
           q == PathEnd(tg)
           n == Len(tg)
<1>0. /\ tg \in Seq(Alphabet) /\ k \in 0..n /\ k \in Nat /\ n \in Nat
      /\ c = "NUL" => k = n
      /\ c # "NUL" => k < n /\ c = tg[k + 1]
      /\ buf \in Seq(Alphabet) /\ u.w \in Nat /\ u.w \in 0..Len(buf) /\ u.w + 1 <= Len(buf)
      /\ Did(buf, u, row, c, new, v) /\ v.state = row.to
      /\ row \in UriRows /\ row.from = u.state /\ row.from \in InPath /\ UriClass(c) \in row.on
      /\ new \in Seq(Alphabet) /\ Len(new) = Len(buf) /\ Len(buf) \in Nat
      /\ "port" \notin row.do => Agree(buf, new, u.w) /\ v.port = u.port
  BY StepIs
<1>1. /\ Formed(tg) /\ r < n /\ r + Lag(u.state) <= k /\ k <= q
      /\ Quoted(u, tg, k) /\ u.query = None
      /\ u.path \in Nat /\ Copies(buf, u.path, u.w, raw, k - Lag(u.state) - r)
      /\ HostDone(buf, u, tg, u.path) /\ PortDone(u, tg)
  BY DEF PathRead
<1>2. /\ r \in Nat /\ q \in Nat /\ r <= q /\ q <= n /\ Lag(u.state) \in 0..2
      /\ raw \in Seq(Alphabet) /\ Len(raw) = q - r /\ r <= k
  <2>1. r \in Nat /\ q \in Nat /\ r <= q /\ q <= n
    BY <1>0, <1>1, Places
  <2>2. Lag(u.state) \in 0..2
    BY DEF Lag
  <2>3. raw \in Seq(Alphabet) /\ Len(raw) = q - r
    BY <1>1, Raw
  <2>4. r <= k
    BY <1>0, <1>1, <2>1, <2>2
  <2> QED BY <2>1, <2>2, <2>3, <2>4
<1> HIDE DEF raw, r, q, n
<1>3. u.path <= u.w
  BY <1>0, <1>1 DEF Copies
\* No row of a path has to do with the host or the port.
<1>4. ASSUME "port" \notin row.do, "host" \notin row.do, NEW limit \in Nat, u.path <= limit
      PROVE  HostDone(new, v, tg, limit) /\ PortDone(v, tg) /\ v.host = u.host /\ v.port = u.port
  <2>1. v.host = u.host /\ v.port = u.port /\ Agree(buf, new, u.path)
    <3>1. v.host = u.host /\ v.port = u.port
      BY <1>0, <1>4 DEF Did
    <3>2. Agree(buf, new, u.path)
      BY <1>0, <1>1, <1>3, <1>4, AgreeLess
    <3> QED BY <3>1, <3>2
  <2> QED BY <1>1, <1>4, <2>1, DoneStays
<1>5. CASE Copying(row, c) /\ c # "?" /\ row.to \in InPath
  <2>1. c # "NUL"
    BY <1>5, DigitIs DEF Copying
  <2>2. k + 1 <= q
    <3>1. k < n /\ tg[k + 1] # "?"
      BY <1>0, <1>5, <2>1
    <3> QED BY <1>0, <1>1, <1>2, <3>1, StopsAre DEF r, q, n
  <2>3. Quoted(v, tg, k + 1)
    BY <1>1, <1>5, QuotedOn
  <2>4. /\ v.path = u.path /\ v.query = u.query /\ "port" \notin row.do /\ "host" \notin row.do
    BY <1>0, <1>5 DEF Copying, Did
  <2>5. Lag(v.state) <= Lag(u.state) + 1 /\ Lag(v.state) \in 0..2
    BY <1>0, <1>5 DEF Copying, Lag
  <2>6. r + Lag(v.state) <= k + 1
    BY <1>0, <1>1, <1>2, <2>5
  <2>7. Copies(new, u.path, v.w, raw, (k + 1) - Lag(v.state) - r)
    <3>1. raw = Part(tg, r, q) /\ q \in r..Len(tg)
      BY <1>1, <1>2, PathIs DEF raw, r, q, n
    <3>2. Copies(buf, u.path, u.w, Part(tg, r, q), k - Lag(u.state) - r)
      BY <1>1, <3>1
    <3>3. r + Lag(u.state) <= k
      BY <1>1
    <3>4. Copies(new, u.path, v.w, Part(tg, r, q), (k + 1) - Lag(v.state) - r)
      BY <1>1, <1>2, <1>5, <2>2, <3>1, <3>2, <3>3, CopiesOn
    <3> QED BY <3>1, <3>4
  <2>8. HostDone(new, v, tg, u.path) /\ PortDone(v, tg)
    BY <1>1, <1>4, <2>4
  <2>9. PathRead(new, v, tg, k + 1)
    BY <1>1, <2>2, <2>3, <2>4, <2>6, <2>7, <2>8 DEF PathRead, raw, r, q, n
  <2> QED BY <1>0, <1>5, <2>9 DEF Reads, InScheme, InHost, InPort, InPath
\* The end of a path, where NUL is written behind it.
<1>6. ASSUME Lag(u.state) = 0, k = q, new[u.w + 1] = "NUL", NEW limit \in Nat, u.w + 1 <= limit,
             v.path = u.path, "port" \notin row.do
      PROVE  PathDone(new, v, tg, limit)
  <2>1. k - Lag(u.state) - r = Len(raw)
    BY <1>0, <1>2, <1>6
  <2>2. Ended(new, u.path, Unquoted(raw), limit)
    <3>1. Copies(buf, u.path, u.w, raw, Len(raw))
      BY <1>1, <2>1
    <3> QED BY <1>0, <1>2, <1>6, <3>1, CopyEnds
  <2> QED BY <1>1, <1>6, <2>2 DEF PathDone, raw, r, n
<1>7. CASE row.from \in {"PATH", "PATH?"} /\ c = "NUL" /\ row.do = {"print"} /\ row.to = "END"
  <2>1. /\ v.path = u.path /\ v.query = None /\ new[u.w + 1] = "NUL" /\ Lag(u.state) = 0
    BY <1>0, <1>1, <1>7 DEF Did, Writes, Behind, Lag
  <2>2. k = n /\ k = q
    BY <1>0, <1>1, <1>2, <1>7
  <2>3. PathDone(new, v, tg, Len(new))
    BY <1>0, <1>6, <1>7, <2>1, <2>2
  <2>4. HostDone(new, v, tg, Len(new)) /\ PortDone(v, tg)
    BY <1>0, <1>1, <1>3, <1>4, <1>7
  <2>5. QueryDone(new, v, tg, Len(new))
    BY <2>1, <2>2 DEF QueryDone, q, n
  <2>6. AllRead(new, v, tg)
    BY <1>0, <1>1, <2>3, <2>4, <2>5 DEF AllRead
  <2> QED BY <1>0, <1>7, <2>6 DEF Reads, InScheme, InHost, InPort, InPath
<1>8. CASE row.from \in {"PATH", "PATH?"} /\ c = "?" /\ row.do = {"zero", "query"} /\ row.to = "QUERY"
  <2>1. /\ v.path = u.path /\ v.query = u.w + 1 /\ v.w = u.w + 1 /\ new[u.w + 1] = "NUL"
        /\ Lag(u.state) = 0
    <3>1. Behind(u, row) = u.w + 1 /\ ~Writes(row)
      BY <1>0, <1>8 DEF Behind, Writes
    <3> QED BY <1>0, <1>1, <1>8, <3>1 DEF Did, Lag
  <2>2. k < n /\ tg[k + 1] = "?"
    BY <1>0, <1>8
  <2>3. k = q
    BY <1>0, <1>1, <1>2, <2>2, StopsAre DEF r, q, n
  <2>4. u.w + 1 \in Nat /\ u.path <= u.w + 1
    BY <1>0, <1>1, <1>3
  <2>5. PathDone(new, v, tg, u.w + 1)
    BY <1>0, <1>6, <1>8, <2>1, <2>3, <2>4
  <2>6. HostDone(new, v, tg, u.w + 1) /\ PortDone(v, tg)
    BY <1>4, <1>8, <2>4
  <2>7. Verbatim(new, u.w + 1, u.w + 1, tg, q + 1, k + 1)
    <3>1. (k + 1) - (q + 1) = 0 /\ q + 1 <= k + 1 /\ (u.w + 1) + 0 = u.w + 1
      BY <1>0, <1>2, <2>3
    <3> QED BY <2>4, <3>1 DEF Verbatim
  <2>8. QueryRead(new, v, tg, k + 1)
    BY <1>1, <2>1, <2>2, <2>3, <2>5, <2>6, <2>7 DEF QueryRead, q, n
  <2> QED BY <1>0, <1>8, <2>8 DEF Reads, InScheme, InHost, InPort, InPath
<1>9. \/ Copying(row, c) /\ c # "?" /\ row.to \in InPath
      \/ row.from \in {"PATH", "PATH?"} /\ c = "NUL" /\ row.do = {"print"} /\ row.to = "END"
      \/ row.from \in {"PATH", "PATH?"} /\ c = "?" /\ row.do = {"zero", "query"} /\ row.to = "QUERY"
  <2>1. CASE c \in Hexadecimals
    <3>1. c \notin {"%", "NUL", "?", "/", ":"}
      BY <2>1, DigitIs
    <3> QED BY <1>0, <2>1, <3>1, PathKinds DEF Copying, Lag, InPath
  <2>2. CASE c \notin Hexadecimals
    BY <1>0, <2>2, PathKinds DEF Copying, Lag, InPath
  <2> QED BY <2>1, <2>2
<1> QED BY <1>5, <1>7, <1>8, <1>9

\* and in the query.
LEMMA QueryStep ==
  ASSUME NEW buf, NEW u, NEW row, NEW c, NEW new, NEW v, NEW tg, NEW k,
         Step(buf, u, row, c, new, v, tg, k), u.state = "QUERY", QueryRead(buf, u, tg, k)
  PROVE  Reads(new, v, tg, k + 1)
<1> DEFINE q == PathEnd(tg)
           n == Len(tg)
<1>0. /\ tg \in Seq(Alphabet) /\ Text(tg) /\ k \in 0..n /\ k \in Nat /\ n \in Nat
      /\ c = "NUL" => k = n
      /\ c # "NUL" => k < n /\ c = tg[k + 1]
      /\ buf \in Seq(Alphabet) /\ u.w \in Nat /\ u.w \in 0..Len(buf) /\ u.w + 1 <= Len(buf)
      /\ Did(buf, u, row, c, new, v) /\ v.state = row.to
      /\ row \in UriRows /\ row.from = u.state /\ row.from = "QUERY" /\ UriClass(c) \in row.on
      /\ new \in Seq(Alphabet) /\ Len(new) = Len(buf) /\ Len(buf) \in Nat
      /\ "port" \notin row.do => Agree(buf, new, u.w) /\ v.port = u.port
  BY StepIs
<1>1. /\ Formed(tg) /\ q < n
      /\ Verbatim(buf, u.query, u.w, tg, q + 1, k)
      /\ HostDone(buf, u, tg, u.query) /\ PortDone(u, tg) /\ PathDone(buf, u, tg, u.query)
  BY DEF QueryRead
<1>2. q \in Nat /\ q + 1 \in Nat /\ q + 1 <= k /\ u.query \in Nat /\ u.query <= u.w
  <2>1. q \in Nat
    BY <1>0, <1>1, Places
  <2>2. u.query \in Nat /\ q + 1 <= k /\ u.w = u.query + (k - (q + 1))
    BY <1>1 DEF Verbatim
  <2> QED BY <1>0, <2>1, <2>2
<1> HIDE DEF q, n
<1>3. row.do = {"print"}
  BY <1>0, QueryKinds
<1>4. /\ v.host = u.host /\ v.path = u.path /\ v.query = u.query /\ v.port = u.port
      /\ v.w = u.w + 1 /\ new[u.w + 1] = c /\ Agree(buf, new, u.w) /\ Agree(buf, new, u.query)
  <2>1. Behind(u, row) = u.w /\ Writes(row) /\ "port" \notin row.do
    BY <1>3 DEF Behind, Writes
  <2>2. Agree(buf, new, u.query)
    BY <1>0, <1>2, <2>1, AgreeLess
  <2> QED BY <1>0, <1>3, <2>1, <2>2 DEF Did
<1>5. ASSUME NEW limit \in Nat, u.query <= limit
      PROVE  HostDone(new, v, tg, limit) /\ PortDone(v, tg) /\ PathDone(new, v, tg, limit)
  BY <1>1, <1>2, <1>4, <1>5, DoneStays
<1>6. CASE c = "NUL" /\ row.to = "END"
  <2>1. k = n /\ k \in (q + 1)..Len(tg)
    BY <1>0, <1>2, <1>6 DEF n
  <2> DEFINE t == Part(tg, q + 1, k)
  <2>2. Ended(new, u.query, t, Len(new))
    <3>1. u.w + 1 <= Len(new) /\ Len(new) \in Nat /\ new[u.w + 1] = "NUL"
      BY <1>0, <1>4, <1>6
    <3> QED BY <1>0, <1>1, <1>2, <1>4, <2>1, <3>1, VerbatimEnds
  <2>3. RawQuery(tg) = t
    BY <1>1, <2>1, PathIs DEF q, n
  <2>4. QueryDone(new, v, tg, Len(new))
    <3> HIDE DEF t
    <3>1. PathEnd(tg) # Len(tg)
      BY <1>0, <1>1, <1>2 DEF q, n
    <3> QED BY <1>2, <1>4, <2>2, <2>3, <3>1 DEF QueryDone
  <2>5. HostDone(new, v, tg, Len(new)) /\ PortDone(v, tg) /\ PathDone(new, v, tg, Len(new))
    <3>1. Len(new) \in Nat /\ u.query <= Len(new)
      BY <1>0, <1>2
    <3> QED BY <1>5, <3>1
  <2>6. AllRead(new, v, tg)
    BY <1>0, <1>1, <2>4, <2>5 DEF AllRead
  <2> QED BY <1>0, <1>6, <2>6 DEF Reads, InScheme, InHost, InPort, InPath
<1>7. CASE c # "NUL" /\ row.to = "QUERY"
  <2>1. Verbatim(new, u.query, u.w + 1, tg, q + 1, k + 1)
    BY <1>0, <1>1, <1>2, <1>4, <1>7, VerbatimOn
  <2>2. HostDone(new, v, tg, u.query) /\ PortDone(v, tg) /\ PathDone(new, v, tg, u.query)
    BY <1>2, <1>5
  <2>3. QueryRead(new, v, tg, k + 1)
    BY <1>1, <1>4, <2>1, <2>2 DEF QueryRead, q, n
  <2> QED BY <1>0, <1>7, <2>3 DEF Reads, InScheme, InHost, InPort, InPath
<1> QED BY <1>0, <1>6, <1>7, QueryKinds

\* One character of an URI: what is read of it goes on, and the buffer behind that is as
\* it was, up to the end.
LEMMA UriGoesOn ==
  ASSUME NEW buf, NEW u, NEW start, NEW tg, Frame(buf, u, start, tg), Trails(u),
         Reads(buf, u, tg, Passed(u, start)), u.state # "END",
         NEW row \in Taken(u, buf[u.at]), ~UriRefuses(buf, u, row, buf[u.at], LineMax),
         NEW new, new = Written(buf, u, row, buf[u.at]),
         NEW v, v = UriStep(buf, u, row, buf[u.at])
  PROVE  /\ Reads(new, v, tg, Passed(u, start) + 1)
         /\ v.state # "END" => Frame(new, v, start, tg) /\ Passed(v, start) = Passed(u, start) + 1
<1> DEFINE c == buf[u.at]
           k == Passed(u, start)
<1>1. row \in UriRows /\ row.from = u.state /\ UriClass(c) \in row.on
  BY DEF Taken
<1>2. /\ buf \in Seq(Alphabet) /\ Text(tg) /\ u.at <= Len(buf) /\ u.at \in Nat
  BY LenProperties DEF Frame, Text
<1>3. /\ Did(buf, u, row, c, new, v) /\ v.at = u.at + 1
      /\ \A j \in 1..Len(buf) : j > u.at => new[j] = buf[j]
  BY <1>1, <1>2, RowDoes
<1>4. /\ k \in 0..Len(tg) /\ Len(tg) \in Nat
      /\ c = "NUL" => k = Len(tg)
      /\ c # "NUL" => k < Len(tg) /\ c = tg[k + 1]
  BY NextChar
<1> HIDE DEF c, k
<1>5. Step(buf, u, row, c, new, v, tg, k)
  BY <1>1, <1>2, <1>3, <1>4 DEF Step
<1>6. u.state \in InScheme \cup InHost \cup InPort \cup InPath \cup {"QUERY"}
  <2>1. u.state \in UriStates
    BY <1>1, UriKinds
  <2> QED BY <2>1 DEF UriStates, UriRows, SchemeRows, HostRows, PathRows, Row, InScheme, InHost, InPort, InPath
<1>7. Reads(new, v, tg, k + 1)
  BY <1>5, <1>6, SchemeStep, HostStep, PortStep, PathStep, QueryStep DEF Reads, k
<1>8. ASSUME v.state # "END" PROVE c # "NUL"
  <2> SUFFICES ASSUME c = "NUL" PROVE FALSE
    OBVIOUS
  <2>1. v.state = row.to
    BY <1>3 DEF Did
  <2>2. "NUL" \in Marks /\ "NUL" \notin Hexadecimals /\ "NUL" \notin Digits
    BY DEF Marks, Hexadecimals, Digits, HexDigit
  <2> QED BY <1>1, <1>6, <1>8, <2>1, <2>2, SchemeKinds, HostKinds, PortKinds, PathKinds, QueryKinds
<1>9. new \in Seq(Alphabet) /\ Len(new) = Len(buf)
  BY <1>3 DEF Did, Agree
<1>10. v.state # "END" => Frame(new, v, start, tg) /\ Passed(v, start) = k + 1
  BY <1>3, <1>8, <1>9, FrameMoves DEF c, k
<1> QED BY <1>7, <1>10 DEF k

\* A path that leads upwards is refused, wherever it does.
LEMMA UpIsRefused ==
  ASSUME NEW path \in Seq(Alphabet), GoesUp(path)
  PROVE  Climbs(path)
<1>0. Len(path) \in Nat /\ DOMAIN path = 1..Len(path)
  BY LenProperties
<1>1. PICK i \in 1..Len(path) :
        /\ i + 2 <= Len(path)
        /\ path[i] = "/" /\ path[i + 1] = "." /\ path[i + 2] = "."
        /\ i + 2 = Len(path) \/ path[i + 3] = "/"
  BY <1>0 DEF GoesUp
<1>2. PICK n \in Nat : n = Len(path)
  BY <1>0
<1>3. i \in Nat /\ i >= 1 /\ i + 2 <= n
  <2>1. i + 2 <= Len(path)
    BY <1>1, Zenon
  <2> QED BY <1>2, <2>1
<1>4. PICK h \in Nat : h + 1 = i
  <2>1. i - 1 \in Nat /\ (i - 1) + 1 = i
    BY <1>3
  <2> QED BY <2>1
<1>5. /\ h + 2 = i + 1 /\ h + 3 = i + 2 /\ h + 4 = i + 3
      /\ h + 3 <= n
  BY <1>3, <1>4
<1>6. /\ path[h + 1] = "/" /\ path[h + 2] = "." /\ path[h + 3] = "."
      /\ h + 3 = n \/ path[h + 4] = "/"
  BY <1>1, <1>2, <1>4, <1>5, Zenon
<1>7. CASE h + 3 = n
  <2> DEFINE t == Part(path, h, n)
  <2>1. n \in h..Len(path) /\ n - h = 3 /\ n - 2 = h + 1
    BY <1>2, <1>7
  <2>2. t \in Seq(Alphabet) /\ Len(t) = 3 /\ \A j \in 1..3 : t[j] = path[h + j]
    <3>1. t \in Seq(Alphabet) /\ Len(t) = n - h /\ \A j \in 1..(n - h) : t[j] = path[h + j]
      BY <2>1, PartIs, Zenon
    <3> QED BY <2>1, <3>1, Zenon
  <2> HIDE DEF t
  <2>3. t[1] = path[h + 1] /\ t[2] = path[h + 2] /\ t[3] = path[h + 3]
    BY <2>2
  <2>4. t[1] = "/" /\ t[2] = "." /\ t[3] = "."
    BY <1>6, <2>3, Zenon
  <2>5. t = <<"/", ".", ".">>
    BY <2>2, <2>4
  <2>6. SubSeq(path, n - 2, n) = <<"/", ".", ".">>
    BY <2>1, <2>5, Zenon DEF t, Part
  <2>7. n >= 3
    BY <1>7
  <2> QED BY <1>2, <2>6, <2>7, Zenon DEF Climbs
<1>8. CASE h + 3 # n
  <2> DEFINE s == Part(path, h, n)
  <2>1. n \in h..Len(path) /\ n - h \in Nat /\ n - h >= 4 /\ 4 \in 0..(n - h)
    BY <1>2, <1>5, <1>8
  <2>0. h + 1 \in Nat /\ h \in 0..Len(path)
    BY <1>2, <1>5
  <2>2. s \in Seq(Alphabet) /\ Len(s) = n - h /\ \A j \in 1..(n - h) : s[j] = path[h + j]
    BY <2>1, PartIs, Zenon
  <2>3. s = SubSeq(path, h + 1, Len(path))
    BY <1>2 DEF Part
  <2> HIDE DEF s
  <2> DEFINE t == Part(s, 0, 4)
  <2>4. t \in Seq(Alphabet) /\ Len(t) = 4 /\ \A j \in 1..4 : t[j] = s[0 + j]
    <3>1. 4 \in 0..Len(s)
      BY <2>1, <2>2
    <3>2. 4 - 0 = 4
      OBVIOUS
    <3>3. t \in Seq(Alphabet) /\ Len(t) = 4 - 0 /\ \A j \in 1..(4 - 0) : t[j] = s[0 + j]
      <4>1. 0 \in Nat
        OBVIOUS
      <4> QED BY <2>2, <3>1, <4>1, PartIs, Zenon
    <3> QED BY <3>2, <3>3, Zenon
  <2>5. SubSeq(s, 1, 4) = t
    BY DEF Part
  <2> HIDE DEF t
  <2>6. t[1] = s[1] /\ t[2] = s[2] /\ t[3] = s[3] /\ t[4] = s[4]
    BY <2>4
  <2>7. 1 \in 1..(n - h) /\ 2 \in 1..(n - h) /\ 3 \in 1..(n - h) /\ 4 \in 1..(n - h)
    BY <2>1
  <2>8. t[1] = path[h + 1] /\ t[2] = path[h + 2] /\ t[3] = path[h + 3] /\ t[4] = path[h + 4]
    BY <2>2, <2>6, <2>7, Zenon
  <2>9. t[1] = "/" /\ t[2] = "." /\ t[3] = "." /\ t[4] = "/"
    BY <1>6, <1>8, <2>8, Zenon
  <2>10. t = UpStep
    BY <2>4, <2>9 DEF UpStep
  <2>11. StartsWith(s, UpStep)
    <3>1. Len(UpStep) = 4
      BY DEF UpStep
    <3> QED BY <2>1, <2>2, <2>5, <2>10, <3>1 DEF StartsWith
  <2> QED BY <2>0, <2>3, <2>11, Zenon DEF Climbs, Occurs
<1> QED BY <1>7, <1>8

\* What is in the buffer of an URI that is read to its end.
LEMMA AllIsWritten ==
  ASSUME AllRead(line, uri, RawTarget)
  PROVE  HostIsWritten /\ PathIsWritten /\ QueryIsWritten /\ PathOf(line, uri) \in Seq(Alphabet)
<1> DEFINE tg == RawTarget
<1>0. /\ Formed(tg) /\ line \in Seq(Alphabet) /\ tg \in Seq(Alphabet)
      /\ HostDone(line, uri, tg, Len(line)) /\ PortDone(uri, tg)
      /\ PathDone(line, uri, tg, Len(line)) /\ QueryDone(line, uri, tg, Len(line))
  BY DEF AllRead, Formed, Text
<1>1. None \notin Nat
  BY RequestAssumption
<1>2. ASSUME NEW raw \in Seq(Alphabet) PROVE Unquoted(raw) \in Seq(Alphabet)
  <2>1. 1 \in 1..(Len(raw) + 1)
    BY LenProperties
  <2> QED BY <2>1, UnquotingIs
<1> HIDE DEF tg
<1>3. HostIsWritten
  <2>1. CASE ~Absolute(tg)
    BY <1>0, <2>1 DEF HostIsWritten, HostDone, PortDone, tg
  <2>2. CASE Absolute(tg)
    <3>1. uri.port = IF RawPort(tg) = <<>> THEN 0 ELSE NumberOf(RawPort(tg))
      BY <1>0, <2>2 DEF PortDone
    <3>2. ASSUME ~Has(RawAuthority(tg), "?")
          PROVE  uri.host # None /\ StringAt(line, uri.host) = Unquoted(RawHost(tg))
      <4>1. uri.host \in Nat /\ Ended(line, uri.host, Unquoted(RawHost(tg)), Len(line))
        BY <1>0, <2>2, <3>2 DEF HostDone
      <4>2. Unquoted(RawHost(tg)) \in Seq(Alphabet)
        BY <1>0, <1>2, <2>2, Raw
      <4> QED BY <1>0, <1>1, <4>1, <4>2, EndedString
    <3> QED BY <2>2, <3>1, <3>2 DEF HostIsWritten, tg
  <2> QED BY <2>1, <2>2
<1>4. PathIsWritten /\ PathOf(line, uri) \in Seq(Alphabet)
  <2>1. PathAndQuery(tg) = <<>> <=> Root(tg) = Len(tg)
    BY <1>0, PathIs
  <2>2. CASE Root(tg) = Len(tg)
    <3>1. uri.path = None
      BY <1>0, <2>2 DEF PathDone
    <3>2. <<"/">> \in Seq(Alphabet)
      <4>1. "/" = Printable[16] /\ 16 \in DOMAIN Printable
        BY DEF Printable
      <4>2. "/" \in Alphabet
        BY <4>1, Zenon DEF Alphabet
      <4> HIDE DEF Alphabet
      <4> QED BY <4>2
    <3> QED BY <2>1, <2>2, <3>1, <3>2 DEF PathIsWritten, PathOf, tg
  <2>3. CASE Root(tg) # Len(tg)
    <3>1. uri.path \in Nat /\ Ended(line, uri.path, Unquoted(RawPath(tg)), Len(line))
      BY <1>0, <2>3 DEF PathDone
    <3>2. Unquoted(RawPath(tg)) \in Seq(Alphabet)
      BY <1>0, <1>2, Raw
    <3>3. uri.path # None /\ StringAt(line, uri.path) = Unquoted(RawPath(tg))
      BY <1>0, <1>1, <3>1, <3>2, EndedString
    <3> QED BY <2>1, <2>3, <3>2, <3>3 DEF PathIsWritten, PathOf, tg
  <2> QED BY <2>2, <2>3
<1>5. QueryIsWritten
  <2>1. Has(PathAndQuery(tg), "?") <=> PathEnd(tg) < Len(tg)
    BY <1>0, PathIs
  <2>2. /\ PathEnd(tg) \in Nat /\ Len(tg) \in Nat /\ PathEnd(tg) <= Len(tg)
    BY <1>0, Places
  <2>3. CASE PathEnd(tg) = Len(tg)
    BY <1>0, <2>1, <2>2, <2>3 DEF QueryIsWritten, QueryDone, tg
  <2>4. CASE PathEnd(tg) # Len(tg)
    <3>1. uri.query \in Nat /\ Ended(line, uri.query, RawQuery(tg), Len(line))
      BY <1>0, <2>4 DEF QueryDone
    <3>2. PathEnd(tg) < Len(tg)
      BY <2>2, <2>4
    <3>3. RawQuery(tg) \in Seq(Alphabet)
      <4>1. RawQuery(tg) = Part(tg, PathEnd(tg) + 1, Len(tg))
        BY <1>0, <3>2, PathIs
      <4>2. PathEnd(tg) + 1 \in Nat /\ Len(tg) \in (PathEnd(tg) + 1)..Len(tg)
        BY <2>2, <3>2
      <4> QED BY <1>0, <4>1, <4>2, PartIs
    <3>4. StringAt(line, uri.query) = RawQuery(tg)
      BY <1>0, <3>1, <3>3, EndedString
    <3> QED BY <1>1, <2>1, <3>1, <3>2, <3>4 DEF QueryIsWritten, tg
  <2> QED BY <2>3, <2>4
<1> QED BY <1>3, <1>4, <1>5

(***************************************************************************)
(* The inductive invariant of the reading of an URI.                       *)
(***************************************************************************)
GoneOn == stage \notin {"line", "uri", "over"} \/ (stage = "over" /\ code = 0)
UriReads ==
  /\ stage = "line" => uri = UriAt(0)
  /\ stage = "uri" /\ uri.state # "END" =>
       \E start \in Nat :
         Frame(line, uri, start, RawTarget) /\ Reads(line, uri, RawTarget, Passed(uri, start))
  /\ uri.state = "END" => AllRead(line, uri, RawTarget)
  /\ GoneOn => uri = UriAt(0) \/ (uri.state = "END" /\ ~Climbs(PathOf(line, uri)))

\* The target is told from what was sent.
LEMMA SameTarget ==
  ASSUME UNCHANGED sent
  PROVE  RawTarget' = RawTarget
<1>1. LineText' = LineText
  BY DEF LineText, LineEnd
<1> QED BY <1>1 DEF RawTarget

\* The line gives an URI of which nothing is read.
LEMMA LineReadsUri ==
  ASSUME Inv, UriReads, ReadLine
  PROVE  UriReads'
<1>1. sent.bytes \in Seq(Alphabet) /\ stage = "line" /\ uri = UriAt(0) /\ UNCHANGED sent
  BY DEF Inv, ReadLine, UriReads
<1>2. RawTarget' = RawTarget
  BY <1>1, SameTarget
<1>3. stage' # "line" /\ ((uri' = uri /\ stage' # "uri") \/
        \E t \in Split(Words(LineText)) :
          stage' = "uri" /\ uri' = UriAt(t[2]) /\ line' = Tokenized(LineText))
  <2> DEFINE split == Tokenized(LineText)
             good == {t \in Split(Words(LineText)) : IsMethod(Word(split, t[1])) /\ IsVersion(Word(split, t[3]))}
             end == LineEnd(0)
  <2>1. CASE /\ end = 0 \/ end > LineMax
             /\ \E c \in IF Len(sent.bytes) >= LineMax THEN {1} ELSE {1, 98, 99} : Ends(c)
             /\ UNCHANGED <<rd, line, uri, rql>>
    BY <2>1 DEF Ends
  <2>2. CASE good = {} /\ Ends(400) /\ UNCHANGED <<uri, rql>>
    BY <2>2 DEF Ends
  <2>3. ASSUME line' = split, NEW t \in good, NEW version, NEW star,
               IF star THEN GoOn(version) /\ UNCHANGED uri
               ELSE stage' = "uri" /\ uri' = UriAt(t[2]) /\ UNCHANGED code
        PROVE  stage' # "line" /\ ((uri' = uri /\ stage' # "uri") \/
                 \E x \in Split(Words(LineText)) :
                   stage' = "uri" /\ uri' = UriAt(x[2]) /\ line' = Tokenized(LineText))
    <3>1. CASE GoOn(version) /\ UNCHANGED uri
      BY <3>1 DEF GoOn, Ends
    <3>2. CASE stage' = "uri" /\ uri' = UriAt(t[2])
      BY <2>3, <3>2
    <3> QED BY <2>3, <3>1, <3>2
  <2>4. CASE /\ line' = split
             /\ \E t \in good :
                  LET method == MethodOf(Word(split, t[1]))
                      version == VersionOf(Word(split, t[3]))
                      star == method = "OPTIONS" /\ Word(split, t[2]) = <<"*">>
                  IN  /\ rql' = [rql EXCEPT !.method = method, !.major = version.major,
                                            !.minor = version.minor, !.star = star]
                      /\ IF star THEN GoOn(version) /\ UNCHANGED uri
                         ELSE stage' = "uri" /\ uri' = UriAt(t[2]) /\ UNCHANGED code
    <3> HIDE DEF split, good, end
    <3> QED BY <2>3, <2>4
  <2> HIDE DEF good, split, end
  <2> QED BY <2>1, <2>2, <2>4 DEF ReadLine, split, good, end
<1>4. CASE uri' = uri /\ stage' # "uri"
  <2>1. uri'.state = "START"
    BY <1>1, <1>4 DEF UriAt
  <2> QED BY <1>1, <1>3, <1>4, <2>1 DEF UriReads
<1>5. ASSUME NEW t \in Split(Words(LineText)), stage' = "uri", uri' = UriAt(t[2]),
             line' = Tokenized(LineText)
      PROVE  UriReads'
  <2> DEFINE tg == RawTarget
             a == t[2]
             buf == Tokenized(LineText)
             v == UriAt(a)
  <2>1. /\ buf \in Seq(Alphabet) /\ tg \in Seq(Alphabet) /\ Len(tg) \in Nat \ {0} /\ Holds(buf, a, tg)
    BY <1>1, TargetIs
  <2>2. /\ v.state = "START" /\ v.at = a /\ v.host = None /\ v.path = None /\ v.query = None
        /\ v.port = 0 /\ v.decoded = 0
    BY DEF UriAt
  <2> HIDE DEF tg, a, buf, v
  <2>3. a \in Nat /\ a \in Nat \ {0} /\ a + Len(tg) <= Len(buf) /\ Passed(v, a) = 0 /\ Len(tg) \in Nat
    BY <2>1, <2>2 DEF Holds, Passed
  <2>4. Text(tg)
    BY <2>1 DEF Text, Holds
  <2>5. Unread(buf, a, tg, 0)
    <3>1. ASSUME NEW j \in (0 + 1)..(Len(tg) + 1)
          PROVE  buf[a - 1 + j] = Char(tg, j)
      <4>1. CASE j = Len(tg) + 1
        <5>1. a - 1 + j = a + Len(tg) /\ j > Len(tg)
          BY <2>3, <4>1
        <5> QED BY <2>1, <5>1 DEF Holds, Char
      <4>2. CASE j # Len(tg) + 1
        <5>1. j \in 1..Len(tg) /\ ~(j > Len(tg))
          BY <2>3, <4>2
        <5> QED BY <2>1, <5>1 DEF Holds, Char
      <4> QED BY <4>1, <4>2
    <3> QED BY <3>1 DEF Unread
  <2>6. Frame(buf, v, a, tg)
    BY <2>1, <2>2, <2>3, <2>4, <2>5 DEF Frame
  <2>7. Reads(buf, v, tg, Passed(v, a))
    <3>1. SchemeRead(v, tg, 0)
      BY <2>2 DEF SchemeRead
    <3> QED BY <2>2, <2>3, <3>1 DEF Reads, InHost, InPort, InPath
  <2>8. line' = buf /\ uri' = v /\ RawTarget' = tg
    BY <1>2, <1>5 DEF tg, a, buf, v
  <2> QED BY <1>5, <2>2, <2>3, <2>6, <2>7, <2>8 DEF UriReads, GoneOn
<1> QED BY <1>3, <1>4, <1>5

\* One character of it.
LEMMA ParseReadsUri ==
  ASSUME Inv, UriReads, ParseUri
  PROVE  UriReads'
<1>1. stage = "uri" /\ uri.state # "END" /\ UNCHANGED sent /\ uri.w + Room(uri.state) < uri.at
      /\ uri.mark <= uri.w /\ uri.at \in Nat /\ uri.w \in Nat /\ uri.mark \in Nat
  BY DEF ParseUri, Inv, UriInv, UriType
<1>2. RawTarget' = RawTarget
  BY <1>1, SameTarget
<1>3. PICK start \in Nat :
        Frame(line, uri, start, RawTarget) /\ Reads(line, uri, RawTarget, Passed(uri, start))
  BY <1>1 DEF UriReads
<1>4. Trails(uri)
  BY <1>1 DEF Trails
<1>5. CASE Ends(400) /\ UNCHANGED <<line, uri>>
  BY <1>1, <1>2, <1>5 DEF Ends, UriReads, GoneOn
<1>6. ASSUME NEW row \in Taken(uri, line[uri.at]), ~UriRefuses(line, uri, row, line[uri.at], LineMax),
             line' = Written(line, uri, row, line[uri.at]),
             uri' = UriStep(line, uri, row, line[uri.at]), UNCHANGED <<stage, code>>
      PROVE  UriReads'
  <2> DEFINE tg == RawTarget
             new == Written(line, uri, row, line[uri.at])
             v == UriStep(line, uri, row, line[uri.at])
             k == Passed(uri, start) + 1
  <2>1. /\ Reads(new, v, tg, k)
        /\ v.state # "END" => Frame(new, v, start, tg) /\ Passed(v, start) = k
    BY <1>1, <1>3, <1>4, <1>6, UriGoesOn
  <2>2. line' = new /\ uri' = v /\ RawTarget' = tg /\ stage' = "uri"
    BY <1>1, <1>2, <1>6
  <2> HIDE DEF tg, new, v, k
  <2>3. v.state = "END" => AllRead(new, v, tg)
    BY <2>1 DEF Reads
  <2>4. v.state # "END" => Frame(new, v, start, tg) /\ Reads(new, v, tg, Passed(v, start))
    BY <2>1
  <2> QED BY <2>2, <2>3, <2>4 DEF UriReads, GoneOn
<1> QED BY <1>5, <1>6 DEF ParseUri

\* The other actions leave the URI and its buffer as they are.
LEMMA OthersReadUri ==
  ASSUME Inv, UriReads,
         UriEnds \/ ParseHeader \/ Interpret \/ ReadFixed \/ ReadChunk \/ ReadTrailer \/ UNCHANGED vars
  PROVE  UriReads'
<1>1. UNCHANGED <<sent, line, uri>>
  BY DEF UriEnds, ParseHeader, Interpret, ReadFixed, ReadChunk, ReadTrailer, vars
<1>2. RawTarget' = RawTarget
  BY <1>1, SameTarget
<1>3. (uri.state = "END" => AllRead(line, uri, RawTarget))'
  BY <1>1, <1>2 DEF UriReads
<1>4. CASE UNCHANGED vars
  BY <1>1, <1>2, <1>4 DEF UriReads, GoneOn, vars
<1>5. CASE UriEnds
  <2>1. stage = "uri" /\ uri.state = "END" /\ stage' \notin {"line", "uri"}
        /\ (GoneOn' => ~Climbs(PathOf(line, uri)))
    BY <1>5 DEF UriEnds, GoOn, Ends, GoneOn
  <2> QED BY <1>1, <1>3, <2>1 DEF UriReads
<1>6. CASE ParseHeader \/ Interpret \/ ReadFixed \/ ReadChunk \/ ReadTrailer
  <2>1. GoneOn
    BY <1>6 DEF GoneOn, ParseHeader, Interpret, ReadFixed, ReadChunk, ReadTrailer
  <2>2. stage' \notin {"line", "uri"}
    BY <1>6, ZenonT(30) DEF ParseHeader, Interpret, ReadFixed, ReadChunk, ReadTrailer, Ends, Stops
  <2> QED BY <1>1, <1>3, <2>1, <2>2 DEF UriReads
<1> QED BY <1>4, <1>5, <1>6

\* Whatever is sent, an URI that is read to its end is what the line says, decoded once, in
\* its parts, and no request goes on with a path that leads upwards (tipidee_uri_parse()).
THEOREM UriRead == Spec => []UriAsWritten
<1>1. Init => UriReads
  BY DEF Init, UriReads, UriAt, GoneOn
<1>2. Inv /\ UriReads /\ [Next]_vars => UriReads'
  BY LineReadsUri, ParseReadsUri, OthersReadUri DEF Next
<1>3. UriReads => UriAsWritten
  <2> SUFFICES ASSUME UriReads PROVE UriAsWritten
    OBVIOUS
  <2>1. uri.state = "END" =>
          HostIsWritten /\ PathIsWritten /\ QueryIsWritten /\ PathOf(line, uri) \in Seq(Alphabet)
    BY AllIsWritten DEF UriReads
  <2>2. ASSUME GoneOn PROVE ~GoesUp(PathOf(line, uri))
    <3>1. CASE uri = UriAt(0)
      <4>1. PathOf(line, uri) = <<"/">>
        BY <3>1 DEF PathOf, UriAt
      <4> QED BY <4>1 DEF GoesUp
    <3>2. CASE uri.state = "END" /\ ~Climbs(PathOf(line, uri))
      BY <2>1, <3>2, UpIsRefused
    <3> QED BY <2>2, <3>1, <3>2 DEF UriReads
  <2> QED BY <2>1, <2>2 DEF UriAsWritten, GoneOn
<1> QED BY <1>1, <1>2, <1>3, Invariance, PTL DEF Spec

-----------------------------------------------------------------------------
(* Strings in a buffer, which stay, move or are joined. *)

\* The string behind the first a characters, up to the NUL that is the b-th.
IsText(s, a, b) ==
  /\ a < b /\ b <= Len(s) /\ s[b] = "NUL"
  /\ \A j \in (a + 1)..(b - 1) : s[j] # "NUL"

\* Its characters.
LEMMA TextIs ==
  ASSUME NEW s \in Seq(Alphabet), NEW a \in Nat, NEW b \in Nat, IsText(s, a, b)
  PROVE  /\ StringAt(s, a) = Part(s, a, b - 1)
         /\ StringAt(s, a) \in Seq(Alphabet) /\ Len(StringAt(s, a)) = b - 1 - a
         /\ \A i \in 1..(b - 1 - a) : StringAt(s, a)[i] = s[a + i]
<1> DEFINE e == b - 1
<1>0. Len(s) \in Nat
  BY LenProperties
<1>1. e \in a..Len(s) /\ e < Len(s) /\ e + 1 = b
  BY <1>0 DEF IsText
<1>2. s[b] = "NUL" /\ \A j \in (a + 1)..e : s[j] # "NUL"
  BY DEF IsText
<1> HIDE DEF e
<1>3. StringAt(s, a) = Part(s, a, e)
  BY <1>1, <1>2, StringIs
<1>4. /\ Part(s, a, e) \in Seq(Alphabet) /\ Len(Part(s, a, e)) = e - a
      /\ \A i \in 1..(e - a) : Part(s, a, e)[i] = s[a + i]
  BY <1>1, PartIs
<1> QED BY <1>3, <1>4, Zenon DEF e

\* What is the same, that many characters further on.
Shifted(s, t, from, to, by) == to + by <= Len(t) /\ \A j \in (from + 1)..to : t[j + by] = s[j]

\* It stays the same when it is moved,
LEMMA TextMoves ==
  ASSUME NEW s \in Seq(Alphabet), NEW t \in Seq(Alphabet), NEW a \in Nat, NEW b \in Nat,
         NEW from \in Nat, NEW to \in Nat, NEW by \in Nat,
         IsText(s, a, b), Shifted(s, t, from, to, by), from <= a, b <= to
  PROVE  IsText(t, a + by, b + by) /\ StringAt(t, a + by) = StringAt(s, a)
<1>0. Len(s) \in Nat /\ Len(t) \in Nat
  BY LenProperties
<1>1. a < b /\ b <= Len(s) /\ s[b] = "NUL" /\ \A j \in (a + 1)..(b - 1) : s[j] # "NUL"
  BY DEF IsText
<1>2. \A j \in (a + 1)..b : t[j + by] = s[j]
  <2>1. \A j \in (a + 1)..b : j \in (from + 1)..to
    OBVIOUS
  <2> QED BY <2>1 DEF Shifted
<1>3. IsText(t, a + by, b + by)
  <2>1. a + by < b + by /\ b + by <= Len(t)
    BY <1>0, <1>1 DEF Shifted
  <2>2. t[b + by] = "NUL"
    <3>1. b \in (a + 1)..b
      BY <1>1
    <3> QED BY <1>1, <1>2, <3>1
  <2>3. ASSUME NEW j \in (a + by + 1)..(b + by - 1) PROVE t[j] # "NUL"
    <3>1. j - by \in (a + 1)..(b - 1) /\ j - by \in (a + 1)..b /\ (j - by) + by = j
      OBVIOUS
    <3> QED BY <1>1, <1>2, <3>1
  <2> QED BY <2>1, <2>2, <2>3 DEF IsText
<1>4. /\ StringAt(s, a) \in Seq(Alphabet) /\ Len(StringAt(s, a)) = b - 1 - a
      /\ \A i \in 1..(b - 1 - a) : StringAt(s, a)[i] = s[a + i]
  BY TextIs
<1>5. /\ StringAt(t, a + by) \in Seq(Alphabet) /\ Len(StringAt(t, a + by)) = (b + by) - 1 - (a + by)
      /\ \A i \in 1..((b + by) - 1 - (a + by)) : StringAt(t, a + by)[i] = t[a + by + i]
  <2>1. a + by \in Nat /\ b + by \in Nat
    OBVIOUS
  <2> QED BY <1>3, <2>1, TextIs
<1>6. (b + by) - 1 - (a + by) = b - 1 - a
  OBVIOUS
<1>7. \A i \in 1..(b - 1 - a) : t[a + by + i] = s[a + i]
  <2>1. \A i \in 1..(b - 1 - a) : a + i \in (a + 1)..b /\ (a + i) + by = a + by + i
    OBVIOUS
  <2> QED BY <1>2, <2>1
<1>8. \A i \in 1..Len(StringAt(s, a)) : StringAt(t, a + by)[i] = StringAt(s, a)[i]
  BY <1>4, <1>5, <1>6, <1>7
<1>9. Len(StringAt(t, a + by)) = Len(StringAt(s, a))
  BY <1>4, <1>5, <1>6
<1> QED BY <1>3, <1>4, <1>5, <1>8, <1>9, SeqEqual

\* What is written behind the end leaves a string as it is.
Kept(s, t, len) == len <= Len(t) /\ \A j \in 1..len : t[j] = s[j]

\* and when what is around it is written.
LEMMA TextStays ==
  ASSUME NEW s \in Seq(Alphabet), NEW t \in Seq(Alphabet), NEW a \in Nat, NEW b \in Nat,
         NEW len \in Nat, IsText(s, a, b), Kept(s, t, len), b <= len
  PROVE  IsText(t, a, b) /\ StringAt(t, a) = StringAt(s, a)
<1>0. Len(t) \in Nat
  BY LenProperties
<1>1. Shifted(s, t, 0, len, 0)
  BY <1>0 DEF Kept, Shifted
<1>2. IsText(t, a + 0, b + 0) /\ StringAt(t, a + 0) = StringAt(s, a)
  BY <1>1, TextMoves
<1>3. a + 0 = a /\ b + 0 = b
  OBVIOUS
<1> QED BY <1>2, <1>3

\* Where the characters of two texts are, one behind the other.
LEMMA CatAt ==
  ASSUME NEW S, NEW s \in Seq(S), NEW t \in Seq(S)
  PROVE  /\ s \o t \in Seq(S) /\ Len(s \o t) = Len(s) + Len(t)
         /\ \A i \in 1..(Len(s) + Len(t)) :
              (s \o t)[i] = IF i <= Len(s) THEN s[i] ELSE t[i - Len(s)]
<1>1. s \o t \in Seq(S) /\ Len(s \o t) = Len(s) + Len(t)
  BY Cat
<1>2. \A i \in 1..(Len(s) + Len(t)) :
        (s \o t)[i] = IF i <= Len(s) THEN s[i] ELSE t[i - Len(s)]
  BY ConcatProperties, Zenon
<1> QED BY <1>1, <1>2

\* What is behind the first r characters up to the n-th is elsewhere.
Follows(s, t, r, n, at) == \A j \in 1..(n - r) : t[at + j] = s[r + j]

Joins(s, t, b, r, n, comma) ==
  /\ Len(comma) = 2
  /\ Kept(s, t, b - 1) /\ t[b] = comma[1] /\ t[b + 1] = comma[2]
  /\ comma[1] # "NUL" /\ comma[2] # "NUL"
  /\ b + 1 + (n - r) <= Len(t) /\ Follows(s, t, r, n, b + 1)

\* Three texts, one behind the other.
Three(u, v, w) == (u \o v) \o w

JoinsIn(s, t, a, b, r, n, comma) ==
  /\ s \in Seq(Alphabet) /\ t \in Seq(Alphabet) /\ comma \in Seq(Alphabet)
  /\ a \in Nat /\ b \in Nat /\ r \in Nat /\ n \in Nat
  /\ IsText(s, a, b) /\ IsText(s, r, n) /\ Joins(s, t, b, r, n, comma)

\* One string put behind another, where that one ends.
LEMMA TextJoins ==
  ASSUME NEW s, NEW t, NEW a, NEW b, NEW r, NEW n, NEW comma, JoinsIn(s, t, a, b, r, n, comma)
  PROVE  /\ IsText(t, a, b + 1 + (n - r))
         /\ StringAt(t, a) = Three(StringAt(s, a), comma, StringAt(s, r))
<1>t. /\ s \in Seq(Alphabet) /\ t \in Seq(Alphabet) /\ comma \in Seq(Alphabet)
      /\ a \in Nat /\ b \in Nat /\ r \in Nat /\ n \in Nat
      /\ IsText(s, a, b) /\ IsText(s, r, n) /\ Joins(s, t, b, r, n, comma)
  BY DEF JoinsIn
<1> USE <1>t
<1> DEFINE e == b + 1 + (n - r)
           u == StringAt(s, a)
           v == StringAt(s, r)
           w == (u \o comma) \o v
<1>b. /\ Len(comma) = 2
      /\ Kept(s, t, b - 1) /\ t[b] = comma[1] /\ t[b + 1] = comma[2]
      /\ comma[1] # "NUL" /\ comma[2] # "NUL"
      /\ b + 1 + (n - r) <= Len(t) /\ Follows(s, t, r, n, b + 1)
  BY DEF Joins
<1>0. Len(s) \in Nat /\ Len(t) \in Nat
  BY LenProperties
<1>1. /\ a < b /\ b <= Len(s) /\ \A j \in (a + 1)..(b - 1) : s[j] # "NUL"
      /\ r < n /\ n <= Len(s) /\ s[n] = "NUL" /\ \A j \in (r + 1)..(n - 1) : s[j] # "NUL"
  BY DEF IsText
<1>2. \A j \in 1..(b - 1) : t[j] = s[j]
  BY <1>b DEF Kept
<1>a. \A j \in 1..(n - r) : t[b + 1 + j] = s[r + j]
  BY <1>b DEF Follows
<1>3. e \in Nat /\ a < e /\ n - r \in Nat /\ n - r >= 1
  BY <1>1
<1>4. t[e] = "NUL"
  <2>1. n - r \in 1..(n - r) /\ r + (n - r) = n
    BY <1>3
  <2> QED BY <1>1, <1>a, <2>1
<1>5. ASSUME NEW j \in (a + 1)..(e - 1) PROVE t[j] # "NUL"
  <2>1. CASE j <= b - 1
    <3>1. j \in (a + 1)..(b - 1) /\ j \in 1..(b - 1)
      BY <2>1
    <3> QED BY <1>1, <1>2, <3>1
  <2>2. CASE j = b \/ j = b + 1
    BY <1>b, <2>2
  <2>3. CASE j > b + 1
    <3>1. j - b - 1 \in 1..(n - r) /\ b + 1 + (j - b - 1) = j /\ r + (j - b - 1) \in (r + 1)..(n - 1)
      BY <1>1, <2>3
    <3>2. t[b + 1 + (j - b - 1)] # "NUL"
      BY <1>1, <1>a, <3>1
    <3> QED BY <3>1, <3>2
  <2>4. j <= b - 1 \/ j = b \/ j = b + 1 \/ j > b + 1
    OBVIOUS
  <2> QED BY <2>1, <2>2, <2>3, <2>4
<1>6. IsText(t, a, e)
  BY <1>b, <1>3, <1>4, <1>5 DEF IsText
<1>7. /\ StringAt(t, a) \in Seq(Alphabet) /\ Len(StringAt(t, a)) = e - 1 - a
      /\ \A i \in 1..(e - 1 - a) : StringAt(t, a)[i] = t[a + i]
  <2> HIDE DEF e
  <2> QED BY <1>3, <1>6, TextIs
<1>8. /\ u \in Seq(Alphabet) /\ Len(u) = b - 1 - a /\ \A i \in 1..(b - 1 - a) : u[i] = s[a + i]
      /\ v \in Seq(Alphabet) /\ Len(v) = n - 1 - r /\ \A i \in 1..(n - 1 - r) : v[i] = s[r + i]
  <2> HIDE DEF e, w
  <2>1. u \in Seq(Alphabet) /\ Len(u) = b - 1 - a /\ \A i \in 1..(b - 1 - a) : u[i] = s[a + i]
    BY TextIs
  <2>2. v \in Seq(Alphabet) /\ Len(v) = n - 1 - r /\ \A i \in 1..(n - 1 - r) : v[i] = s[r + i]
    BY TextIs
  <2> QED BY <2>1, <2>2
<1> HIDE DEF u, v, e
<1>10. /\ u \o comma \in Seq(Alphabet) /\ Len(u \o comma) = Len(u) + 2
       /\ \A i \in 1..(Len(u) + 2) : (u \o comma)[i] = IF i <= Len(u) THEN u[i] ELSE comma[i - Len(u)]
  <2>1. /\ u \o comma \in Seq(Alphabet) /\ Len(u \o comma) = Len(u) + Len(comma)
        /\ \A i \in 1..(Len(u) + Len(comma)) :
             (u \o comma)[i] = IF i <= Len(u) THEN u[i] ELSE comma[i - Len(u)]
    <3> HIDE DEF w
    <3>1. u \in Seq(Alphabet)
      BY <1>8
    <3> QED BY <3>1, CatAt, Zenon
  <2> QED BY <1>b, <2>1, Zenon
<1>11. /\ w \in Seq(Alphabet) /\ Len(w) = Len(u \o comma) + Len(v)
       /\ \A i \in 1..(Len(u \o comma) + Len(v)) :
            w[i] = IF i <= Len(u \o comma) THEN (u \o comma)[i] ELSE v[i - Len(u \o comma)]
  <2>1. PICK x \in Seq(Alphabet) : x = u \o comma
    BY <1>10
  <2>2. v \in Seq(Alphabet)
    BY <1>8
  <2>3. /\ x \o v \in Seq(Alphabet) /\ Len(x \o v) = Len(x) + Len(v)
        /\ \A i \in 1..(Len(x) + Len(v)) :
             (x \o v)[i] = IF i <= Len(x) THEN x[i] ELSE v[i - Len(x)]
    BY <2>2, CatAt, Zenon
  <2> QED BY <2>1, <2>3, Zenon DEF w
<1> HIDE DEF w
<1>12. Len(w) = e - 1 - a
  BY <1>3, <1>8, <1>10, <1>11 DEF e
<1>13. ASSUME NEW i \in 1..(e - 1 - a) PROVE w[i] = t[a + i]
  <2> DEFINE m == b - 1 - a
  <2>0. m \in Nat /\ Len(u) = m /\ Len(v) = n - 1 - r /\ Len(u \o comma) = m + 2
        /\ i \in 1..(m + 2 + (n - 1 - r)) /\ i \in Nat /\ a + m + 1 = b
    BY <1>1, <1>8, <1>10 DEF e
  <2>1. w[i] = IF i <= m + 2 THEN (u \o comma)[i] ELSE v[i - (m + 2)]
    BY <1>11, <2>0
  <2>2. i <= m + 2 => (u \o comma)[i] = IF i <= m THEN u[i] ELSE comma[i - m]
    BY <1>10, <2>0
  <2> HIDE DEF m
  <2>3. CASE i <= m
    <3>1. w[i] = u[i]
      BY <2>0, <2>1, <2>2, <2>3
    <3>2. i \in 1..m /\ a + i \in 1..(b - 1)
      BY <2>0, <2>3
    <3>3. u[i] = s[a + i]
      BY <1>8, <3>2 DEF m
    <3> QED BY <1>2, <3>1, <3>2, <3>3
  <2>4. CASE i = m + 1
    <3>1. ~(i <= m) /\ i <= m + 2 /\ i - m = 1 /\ a + i = b
      BY <2>0, <2>4
    <3> QED BY <1>b, <2>1, <2>2, <3>1
  <2>5. CASE i = m + 2
    <3>1. ~(i <= m) /\ i <= m + 2 /\ i - m = 2 /\ a + i = b + 1
      BY <2>0, <2>5
    <3> QED BY <1>b, <2>1, <2>2, <3>1
  <2>6. CASE i > m + 2
    <3>1. ~(i <= m + 2) /\ i - (m + 2) \in 1..(n - 1 - r) /\ i - (m + 2) \in 1..(n - r)
          /\ b + 1 + (i - (m + 2)) = a + i
      BY <1>1, <2>0, <2>6
    <3>2. w[i] = v[i - (m + 2)]
      BY <2>1, <3>1
    <3>3. v[i - (m + 2)] = s[r + (i - (m + 2))]
      BY <1>8, <3>1
    <3>4. t[b + 1 + (i - (m + 2))] = s[r + (i - (m + 2))]
      BY <1>a, <3>1
    <3> QED BY <3>1, <3>2, <3>3, <3>4
  <2>7. i <= m \/ i = m + 1 \/ i = m + 2 \/ i > m + 2
    BY <2>0
  <2> QED BY <2>3, <2>4, <2>5, <2>6, <2>7
<1>14. StringAt(t, a) = w
  <2>1. \A i \in 1..Len(w) : StringAt(t, a)[i] = w[i]
    BY <1>7, <1>12, <1>13
  <2>2. Len(StringAt(t, a)) = Len(w)
    BY <1>7, <1>12
  <2> QED BY <1>7, <1>11, <2>1, <2>2, SeqEqual
<1> QED BY <1>6, <1>14 DEF e, w, u, v, Three

\* Those of the first,
LEMMA CatFirst ==
  ASSUME NEW S, NEW s \in Seq(S), NEW t \in Seq(S), NEW i \in 1..Len(s)
  PROVE  (s \o t)[i] = s[i]
<1>1. Len(s) \in Nat /\ Len(t) \in Nat
  BY LenProperties
<1>2. i \in 1..(Len(s) + Len(t)) /\ i <= Len(s)
  BY <1>1
<1> QED BY <1>2, CatAt, Zenon

\* and those of the second.
LEMMA CatSecond ==
  ASSUME NEW S, NEW s \in Seq(S), NEW t \in Seq(S), NEW i \in 1..Len(t)
  PROVE  (s \o t)[Len(s) + i] = t[i]
<1>1. Len(s) \in Nat /\ Len(t) \in Nat
  BY LenProperties
<1>2. Len(s) + i \in 1..(Len(s) + Len(t)) /\ ~(Len(s) + i <= Len(s)) /\ (Len(s) + i) - Len(s) = i
  BY <1>1
<1>3. (s \o t)[Len(s) + i] =
        IF Len(s) + i <= Len(s) THEN s[Len(s) + i] ELSE t[(Len(s) + i) - Len(s)]
  BY <1>2, CatAt, Zenon
<1>4. (s \o t)[Len(s) + i] = t[(Len(s) + i) - Len(s)]
  BY <1>2, <1>3, Zenon
<1> QED BY <1>2, <1>4, Zenon

\* Four texts, one behind the other.
LEMMA CatFour ==
  ASSUME NEW S, NEW p \in Seq(S), NEW q \in Seq(S), NEW v \in Seq(S), NEW w \in Seq(S),
         NEW x, x = ((p \o q) \o v) \o w
  PROVE  /\ x \in Seq(S) /\ Len(x) = Len(p) + Len(q) + Len(v) + Len(w)
         /\ \A i \in 1..Len(p) : x[i] = p[i]
         /\ \A i \in 1..Len(q) : x[Len(p) + i] = q[i]
         /\ \A i \in 1..Len(v) : x[Len(p) + Len(q) + i] = v[i]
         /\ \A i \in 1..Len(w) : x[Len(p) + Len(q) + Len(v) + i] = w[i]
<1>0. Len(p) \in Nat /\ Len(q) \in Nat /\ Len(v) \in Nat /\ Len(w) \in Nat
  BY LenProperties
<1>1. PICK y \in Seq(S) : y = p \o q
  BY Cat
<1>2. PICK z \in Seq(S) : z = y \o v
  BY Cat
<1>3. x = z \o w
  BY <1>1, <1>2
<1>4. Len(y) = Len(p) + Len(q)
  BY <1>1, Cat
<1>5. Len(z) = Len(y) + Len(v)
  BY <1>2, Cat
<1>6. x \in Seq(S) /\ Len(x) = Len(z) + Len(w)
  BY <1>3, Cat
<1>7. \A i \in 1..Len(z) : x[i] = z[i]
  BY <1>3, CatFirst
<1>8. \A i \in 1..Len(y) : z[i] = y[i]
  BY <1>2, CatFirst
<1>9. \A i \in 1..Len(p) : y[i] = p[i]
  BY <1>1, CatFirst
<1>10. \A i \in 1..Len(q) : y[Len(p) + i] = q[i]
  BY <1>1, CatSecond
<1>11. \A i \in 1..Len(v) : z[Len(y) + i] = v[i]
  BY <1>2, CatSecond
<1>12. \A i \in 1..Len(w) : x[Len(z) + i] = w[i]
  BY <1>3, CatSecond
<1>13. ASSUME NEW i \in 1..Len(p) PROVE x[i] = p[i]
  <2>1. i \in 1..Len(y) /\ i \in 1..Len(z)
    BY <1>0, <1>4, <1>5
  <2> QED BY <2>1, <1>7, <1>8, <1>9
<1>14. ASSUME NEW i \in 1..Len(q) PROVE x[Len(p) + i] = q[i]
  <2>1. Len(p) + i \in 1..Len(y) /\ Len(p) + i \in 1..Len(z)
    BY <1>0, <1>4, <1>5
  <2> QED BY <2>1, <1>7, <1>8, <1>10
<1>15. ASSUME NEW i \in 1..Len(v) PROVE x[Len(p) + Len(q) + i] = v[i]
  <2>1. Len(y) + i \in 1..Len(z) /\ Len(p) + Len(q) + i = Len(y) + i
    BY <1>0, <1>4, <1>5
  <2> QED BY <2>1, <1>7, <1>11
<1>16. ASSUME NEW i \in 1..Len(w) PROVE x[Len(p) + Len(q) + Len(v) + i] = w[i]
  <2>1. Len(p) + Len(q) + Len(v) + i = Len(z) + i
    BY <1>0, <1>4, <1>5
  <2> QED BY <2>1, <1>12
<1>17. Len(x) = Len(p) + Len(q) + Len(v) + Len(w)
  BY <1>0, <1>4, <1>5, <1>6
<1> QED BY <1>6, <1>13, <1>14, <1>15, <1>16, <1>17

Comma == <<",", " ">>

\* What is put between two values.
LEMMA CommaIs ==
  /\ Comma \in Seq(Alphabet) /\ Len(Comma) = 2
  /\ Comma[1] # "NUL" /\ Comma[2] # "NUL"
<1>1. "," \in Alphabet /\ " " \in Alphabet
  BY DEF Alphabet
<1>2. Comma \in Seq(Alphabet) /\ Len(Comma) = 2
  BY <1>1, Two DEF Comma
<1>3. Comma[1] # "NUL" /\ Comma[2] # "NUL"
  BY DEF Comma
<1> QED BY <1>2, <1>3

\* The text when a value is put behind another one: where its characters are.
LEMMA CollatedIs ==
  ASSUME NEW buf \in Seq(Alphabet), NEW entry \in Entry, NEW start \in Nat, start > 0,
         start <= entry.left, entry.left + 2 <= entry.right, entry.right < Len(buf),
         NEW new, new = Collated(buf, entry, start),
         NEW gain, gain = Len(buf) - entry.right + 1
  PROVE  /\ new \in Seq(Alphabet) /\ Len(new) = entry.left + gain
         /\ Kept(buf, new, start - 1)
         /\ new[start] = Comma[1] /\ new[start + 1] = Comma[2]
         /\ \A j \in 1..(Len(buf) - entry.right) : new[start + 1 + j] = buf[entry.right + j]
         /\ Shifted(buf, new, start, entry.left, gain)
<1> DEFINE a == entry.left
           b == entry.right
           n == Len(buf)
<1>1. a \in Nat /\ b \in Nat /\ n \in Nat /\ start <= a /\ a + 2 <= b /\ b < n
  BY LenProperties DEF Entry
<1>2. gain = n - b + 1 /\ gain \in Nat
  BY <1>1
<1> HIDE DEF a, b, n
<1>3. PICK p : p = Part(buf, 0, start - 1)
  OBVIOUS
<1>4. PICK v : v = Part(buf, b, n)
  OBVIOUS
<1>5. PICK w : w = Part(buf, start, a)
  OBVIOUS
<1>6. /\ p \in Seq(Alphabet) /\ Len(p) = start - 1
      /\ \A i \in 1..(start - 1) : p[i] = buf[i]
  <2>1. 0 \in Nat /\ start - 1 \in 0..Len(buf) /\ (start - 1) - 0 = start - 1
    BY <1>1 DEF n
  <2>2. /\ p \in Seq(Alphabet) /\ Len(p) = (start - 1) - 0
        /\ \A i \in 1..((start - 1) - 0) : p[i] = buf[0 + i]
    BY <1>3, <2>1, PartIs, Zenon
  <2> QED BY <2>1, <2>2
<1>7. /\ v \in Seq(Alphabet) /\ Len(v) = n - b
      /\ \A i \in 1..(n - b) : v[i] = buf[b + i]
  <2>1. b \in Nat /\ n \in b..Len(buf)
    BY <1>1 DEF n
  <2> QED BY <1>4, <2>1, PartIs, Zenon
<1>8. /\ w \in Seq(Alphabet) /\ Len(w) = a - start
      /\ \A i \in 1..(a - start) : w[i] = buf[start + i]
  <2>1. a \in start..Len(buf)
    BY <1>1 DEF n
  <2> QED BY <1>5, <2>1, PartIs, Zenon
<1>9. new = ((p \o Comma) \o v) \o w
  <2>1. 0 + 1 = 1
    OBVIOUS
  <2> QED BY <1>3, <1>4, <1>5, <2>1 DEF Collated, Part, Comma, a, b, n
<1>10. /\ new \in Seq(Alphabet) /\ Len(new) = Len(p) + Len(Comma) + Len(v) + Len(w)
       /\ \A i \in 1..Len(p) : new[i] = p[i]
       /\ \A i \in 1..Len(Comma) : new[Len(p) + i] = Comma[i]
       /\ \A i \in 1..Len(v) : new[Len(p) + Len(Comma) + i] = v[i]
       /\ \A i \in 1..Len(w) : new[Len(p) + Len(Comma) + Len(v) + i] = w[i]
  <2>1. p \in Seq(Alphabet) /\ v \in Seq(Alphabet) /\ w \in Seq(Alphabet)
    BY <1>6, <1>7, <1>8, Zenon
  <2>2. PICK q \in Seq(Alphabet) : q = Comma
    BY CommaIs
  <2>3. new = ((p \o q) \o v) \o w
    BY <1>9, <2>2, Zenon
  <2>4. /\ new \in Seq(Alphabet) /\ Len(new) = Len(p) + Len(q) + Len(v) + Len(w)
        /\ \A i \in 1..Len(p) : new[i] = p[i]
        /\ \A i \in 1..Len(q) : new[Len(p) + i] = q[i]
        /\ \A i \in 1..Len(v) : new[Len(p) + Len(q) + i] = v[i]
        /\ \A i \in 1..Len(w) : new[Len(p) + Len(q) + Len(v) + i] = w[i]
    BY <2>1, <2>3, CatFour, SMTT(30)
  <2> QED BY <2>2, <2>4, Zenon
<1>11. Len(Comma) = 2
  BY CommaIs
<1>a. Len(p) = start - 1 /\ Len(v) = n - b /\ Len(w) = a - start
  BY <1>6, <1>7, <1>8, Zenon
<1>12. Len(new) = a + gain
  <2>1. Len(new) = Len(p) + Len(Comma) + Len(v) + Len(w)
    BY <1>10, Zenon
  <2>2. Len(new) = (start - 1) + 2 + (n - b) + (a - start)
    BY <1>11, <1>a, <2>1, Zenon
  <2> QED BY <1>1, <1>2, <2>2
<1>13. Kept(buf, new, start - 1)
  <2>1. start - 1 <= Len(new)
    BY <1>1, <1>2, <1>12
  <2>2. \A i \in 1..(start - 1) : new[i] = buf[i]
    BY <1>6, <1>10
  <2> QED BY <2>1, <2>2 DEF Kept
<1>14. new[start] = Comma[1] /\ new[start + 1] = Comma[2]
  <2>1. 1 \in 1..Len(Comma) /\ 2 \in 1..Len(Comma) /\ Len(p) + 1 = start /\ Len(p) + 2 = start + 1
    BY <1>6, <1>11
  <2> QED BY <1>10, <2>1
<1>15. ASSUME NEW j \in 1..(n - b) PROVE new[start + 1 + j] = buf[b + j]
  <2>1. Len(p) + Len(Comma) + j = start + 1 + j
    BY <1>6, <1>11
  <2> QED BY <1>7, <1>10, <2>1
<1>16. ASSUME NEW j \in (start + 1)..a PROVE new[j + gain] = buf[j]
  <2>1. j - start \in 1..(a - start) /\ start + (j - start) = j
    BY <1>1
  <2>2. Len(p) + Len(Comma) + Len(v) + (j - start) = j + gain
    <3>1. (start - 1) + 2 + (n - b) + (j - start) = j + gain
      BY <1>1, <1>2, <2>1
    <3> QED BY <1>11, <1>a, <3>1, Zenon
  <2>3. new[Len(p) + Len(Comma) + Len(v) + (j - start)] = w[j - start]
    BY <1>8, <1>10, <2>1
  <2> QED BY <1>8, <2>1, <2>2, <2>3
<1>17. Shifted(buf, new, start, a, gain)
  BY <1>1, <1>2, <1>12, <1>16 DEF Shifted
<1> QED BY <1>10, <1>12, <1>13, <1>14, <1>15, <1>17 DEF a, b, n

-----------------------------------------------------------------------------
(* The headers of a list, and what becomes of them. *)

\* Where the value of a header ends: the next begins there, or what is behind the list.
EndAt(list, limit, i) == IF i < Len(list) THEN list[i + 1].left ELSE limit

Strings(buf, list, limit) ==
  \A i \in DOMAIN list : /\ IsText(buf, list[i].left, list[i].right)
                         /\ IsText(buf, list[i].right, EndAt(list, limit, i))

FieldOf(buf, entry) == [key |-> StringAt(buf, entry.left), value |-> StringAt(buf, entry.right)]
FieldsOf(buf, list) == [i \in DOMAIN list |-> FieldOf(buf, list[i])]
Header == [key : Seq(Alphabet), value : Seq(Alphabet)]

\* The places that a list names are in order, and before its limit.
LEMMA PlacesOf ==
  ASSUME NEW list \in Seq(Entry), NEW limit \in Nat, ListFits(list, limit),
         NEW i \in 1..Len(list)
  PROVE  /\ list[i].left \in Nat /\ list[i].right \in Nat /\ list[i].left < list[i].right
         /\ EndAt(list, limit, i) \in Nat /\ list[i].right < EndAt(list, limit, i)
         /\ EndAt(list, limit, i) <= limit
<1>0. Len(list) \in Nat /\ DOMAIN list = 1..Len(list) /\ \A j \in 1..Len(list) : list[j] \in Entry
  BY LenProperties, ElementOfSeq
<1>1. /\ list[i].left \in Nat /\ list[i].right \in Nat
      /\ list[i].left + 2 <= list[i].right /\ list[i].right < limit
  BY <1>0 DEF ListFits, Entry
<1>2. CASE i < Len(list)
  <2>1. i + 1 \in 1..Len(list) /\ i < i + 1
    BY <1>0, <1>2
  <2>2. /\ list[i + 1].left \in Nat /\ list[i + 1].right \in Nat
        /\ list[i + 1].left + 2 <= list[i + 1].right /\ list[i + 1].right < limit
    BY <1>0, <2>1 DEF ListFits, Entry
  <2>3. list[i].right < list[i + 1].left
    BY <1>0, <2>1 DEF ListFits
  <2>4. EndAt(list, limit, i) = list[i + 1].left
    BY <1>2 DEF EndAt
  <2> QED BY <1>1, <2>2, <2>3, <2>4, SMTT(30)
<1>3. CASE ~(i < Len(list))
  <2>1. EndAt(list, limit, i) = limit
    BY <1>3 DEF EndAt
  <2> QED BY <1>1, <2>1
<1> QED BY <1>2, <1>3

\* The headers of a list, one by one.
LEMMA FieldsIs ==
  ASSUME NEW buf \in Seq(Alphabet), NEW list \in Seq(Entry), NEW limit \in Nat,
         ListFits(list, limit), Strings(buf, list, limit)
  PROVE  /\ FieldsOf(buf, list) \in Seq(Header) /\ Len(FieldsOf(buf, list)) = Len(list)
         /\ DOMAIN FieldsOf(buf, list) = 1..Len(list)
         /\ \A i \in 1..Len(list) : FieldsOf(buf, list)[i] = FieldOf(buf, list[i])
<1> DEFINE F == FieldsOf(buf, list)
<1>0. Len(list) \in Nat /\ DOMAIN list = 1..Len(list)
  BY LenProperties
<1>1. F = [i \in 1..Len(list) |-> FieldOf(buf, list[i])]
  BY <1>0 DEF FieldsOf
<1>2. ASSUME NEW i \in 1..Len(list) PROVE FieldOf(buf, list[i]) \in Header
  <2>1. list[i].left \in Nat /\ list[i].right \in Nat /\ EndAt(list, limit, i) \in Nat
    BY PlacesOf
  <2>2. StringAt(buf, list[i].left) \in Seq(Alphabet) /\ StringAt(buf, list[i].right) \in Seq(Alphabet)
    BY <1>0, <2>1, TextIs DEF Strings
  <2> QED BY <2>2 DEF FieldOf, Header
<1> HIDE DEF F
<1>3. F \in [1..Len(list) -> Header]
  BY <1>1, <1>2
<1>4. F \in Seq(Header)
  BY <1>0, <1>3, SeqDef
<1>5. Len(F) = Len(list) /\ DOMAIN F = 1..Len(list)
  BY <1>0, <1>1, <1>4, LenProperties
<1> QED BY <1>1, <1>4, <1>5 DEF F

\* What is written behind a list leaves its headers as they are.
LEMMA FieldsStay ==
  ASSUME NEW buf \in Seq(Alphabet), NEW t \in Seq(Alphabet), NEW list \in Seq(Entry),
         NEW limit \in Nat, ListFits(list, limit), Strings(buf, list, limit), Kept(buf, t, limit)
  PROVE  Strings(t, list, limit) /\ FieldsOf(t, list) = FieldsOf(buf, list)
<1>0. Len(list) \in Nat /\ DOMAIN list = 1..Len(list)
  BY LenProperties
<1>1. ASSUME NEW i \in 1..Len(list)
      PROVE  /\ IsText(t, list[i].left, list[i].right)
             /\ IsText(t, list[i].right, EndAt(list, limit, i))
             /\ FieldOf(t, list[i]) = FieldOf(buf, list[i])
  <2>1. /\ list[i].left \in Nat /\ list[i].right \in Nat /\ EndAt(list, limit, i) \in Nat
        /\ list[i].right <= limit /\ EndAt(list, limit, i) <= limit
    BY PlacesOf
  <2>2. /\ IsText(buf, list[i].left, list[i].right)
        /\ IsText(buf, list[i].right, EndAt(list, limit, i))
    BY <1>0 DEF Strings
  <2>3. IsText(t, list[i].left, list[i].right) /\ StringAt(t, list[i].left) = StringAt(buf, list[i].left)
    BY <2>1, <2>2, TextStays
  <2>4. /\ IsText(t, list[i].right, EndAt(list, limit, i))
        /\ StringAt(t, list[i].right) = StringAt(buf, list[i].right)
    BY <2>1, <2>2, TextStays
  <2> QED BY <2>3, <2>4 DEF FieldOf
<1>2. Strings(t, list, limit)
  BY <1>0, <1>1 DEF Strings
<1>3. FieldsOf(t, list) = FieldsOf(buf, list)
  BY <1>0, <1>1 DEF FieldsOf
<1> QED BY <1>2, <1>3

\* A list that has one header more.
LEMMA FieldsGrow ==
  ASSUME NEW buf \in Seq(Alphabet), NEW list \in Seq(Entry), NEW entry \in Entry, NEW len \in Nat,
         ListFits(list, entry.left), Strings(buf, list, entry.left),
         entry.left + 2 <= entry.right, entry.right < len,
         IsText(buf, entry.left, entry.right), IsText(buf, entry.right, len)
  PROVE  /\ Strings(buf, Append(list, entry), len)
         /\ FieldsOf(buf, Append(list, entry)) = Append(FieldsOf(buf, list), FieldOf(buf, entry))
<1> DEFINE new == Append(list, entry)
           n == Len(list)
           F == FieldsOf(buf, list)
           f == FieldOf(buf, entry)
           G == FieldsOf(buf, new)
<1>0. n \in Nat /\ DOMAIN list = 1..n /\ entry.left \in Nat /\ entry.right \in Nat
  BY LenProperties DEF Entry
<1>1. new \in Seq(Entry) /\ Len(new) = n + 1 /\ ListFits(new, len)
  BY ListGrows
<1>2. (\A i \in 1..n : new[i] = list[i]) /\ new[n + 1] = entry
  BY AppendProperties
<1>3. DOMAIN new = 1..(n + 1)
  BY <1>1, LenProperties
<1> HIDE DEF new
<1>4. ASSUME NEW i \in 1..n
      PROVE  /\ IsText(buf, new[i].left, new[i].right)
             /\ IsText(buf, new[i].right, EndAt(new, len, i))
  <2>1. /\ IsText(buf, list[i].left, list[i].right)
        /\ IsText(buf, list[i].right, EndAt(list, entry.left, i))
    BY <1>0 DEF Strings
  <2>2. new[i] = list[i] /\ i \in Nat
    BY <1>2
  <2>3. EndAt(new, len, i) = EndAt(list, entry.left, i)
    <3>0. EndAt(new, len, i) = new[i + 1].left
      <4>1. i < Len(new)
        BY <1>0, <1>1
      <4> QED BY <4>1 DEF EndAt
    <3>1. CASE i < n
      <4>1. i + 1 \in 1..n
        BY <1>0, <3>1
      <4> QED BY <1>2, <3>0, <3>1, <4>1 DEF EndAt
    <3>2. CASE ~(i < n)
      <4>1. i + 1 = n + 1
        BY <1>0, <3>2
      <4> QED BY <1>2, <3>0, <3>2, <4>1 DEF EndAt
    <3> QED BY <3>1, <3>2
  <2> QED BY <2>1, <2>2, <2>3
<1>5. IsText(buf, new[n + 1].left, new[n + 1].right) /\ IsText(buf, new[n + 1].right, EndAt(new, len, n + 1))
  <2>1. EndAt(new, len, n + 1) = len
    BY <1>0, <1>1 DEF EndAt
  <2> QED BY <1>2, <2>1
<1>6. Strings(buf, new, len)
  <2>1. \A i \in 1..(n + 1) : i \in 1..n \/ i = n + 1
    BY <1>0
  <2> QED BY <1>3, <1>4, <1>5, <2>1 DEF Strings
<1>7. /\ F \in Seq(Header) /\ Len(F) = n /\ \A i \in 1..n : F[i] = FieldOf(buf, list[i])
  BY <1>0, FieldsIs
<1>8. /\ G \in Seq(Header) /\ Len(G) = n + 1 /\ \A i \in 1..(n + 1) : G[i] = FieldOf(buf, new[i])
  BY <1>1, <1>6, FieldsIs
<1>9. f \in Header
  <2>1. n + 1 \in 1..(n + 1)
    BY <1>0
  <2>2. G[n + 1] = f
    BY <1>2, <1>8, <2>1
  <2>3. G[n + 1] \in Header
    BY <1>8, <2>1, ElementOfSeq
  <2> QED BY <2>2, <2>3
<1> HIDE DEF F, f, G
<1>10. /\ Append(F, f) \in Seq(Header) /\ Len(Append(F, f)) = n + 1
       /\ \A i \in 1..n : Append(F, f)[i] = F[i]
       /\ Append(F, f)[n + 1] = f
  BY <1>7, <1>9, AppendProperties
<1>11. ASSUME NEW i \in 1..(n + 1) PROVE G[i] = Append(F, f)[i]
  <2>1. CASE i \in 1..n
    BY <1>2, <1>7, <1>8, <1>10, <2>1
  <2>2. CASE i = n + 1
    BY <1>2, <1>8, <1>10, <2>2 DEF f
  <2>3. i \in 1..n \/ i = n + 1
    BY <1>0
  <2> QED BY <2>1, <2>2, <2>3
<1>12. G = Append(F, f)
  BY <1>8, <1>10, <1>11, SeqEqual
<1> QED BY <1>6, <1>12 DEF G, F, f, new

\* A header ends before those behind it begin.
LEMMA EndsBefore ==
  ASSUME NEW list \in Seq(Entry), NEW limit \in Nat, ListFits(list, limit),
         NEW i \in 1..Len(list), NEW k \in 1..Len(list), i < k
  PROVE  EndAt(list, limit, i) <= list[k].left
<1>0. Len(list) \in Nat /\ DOMAIN list = 1..Len(list)
  BY LenProperties
<1>1. i + 1 \in 1..Len(list) /\ i < Len(list)
  BY <1>0
<1>2. EndAt(list, limit, i) = list[i + 1].left
  BY <1>1 DEF EndAt
<1>3. /\ list[i + 1].left \in Nat /\ list[i + 1].right \in Nat /\ list[k].left \in Nat
      /\ list[i + 1].left < list[i + 1].right
  BY <1>1, PlacesOf
<1>4. CASE i + 1 = k
  BY <1>2, <1>3, <1>4
<1>5. CASE i + 1 < k
  <2>1. list[i + 1].right < list[k].left
    BY <1>0, <1>1, <1>5 DEF ListFits
  <2> QED BY <1>2, <1>3, <2>1
<1> QED BY <1>0, <1>4, <1>5

\* The value behind right is put at start, before what was there up to left.
Collates(buf, new, left, right, start, gain) ==
  /\ gain = Len(buf) - right + 1 /\ Len(new) = left + gain
  /\ Kept(buf, new, start - 1)
  /\ new[start] = Comma[1] /\ new[start + 1] = Comma[2]
  /\ \A j \in 1..(Len(buf) - right) : new[start + 1 + j] = buf[right + j]
  /\ Shifted(buf, new, start, left, gain)

\* What becomes of a key and a value that end before start, at it, or behind it.
LEMMA StaysPut ==
  ASSUME NEW buf \in Seq(Alphabet), NEW new \in Seq(Alphabet), NEW l \in Nat, NEW r \in Nat,
         NEW e \in Nat, NEW left, NEW right, NEW start \in Nat, NEW gain,
         Collates(buf, new, left, right, start, gain),
         IsText(buf, l, r), IsText(buf, r, e), r < e, e < start
  PROVE  /\ IsText(new, l, r) /\ StringAt(new, l) = StringAt(buf, l)
         /\ IsText(new, r, e) /\ StringAt(new, r) = StringAt(buf, r)
<1> DEFINE len == start - 1
<1>1. len \in Nat /\ r <= len /\ e <= len
  OBVIOUS
<1>2. Kept(buf, new, len)
  BY DEF Collates
<1> HIDE DEF len
<1> QED BY <1>1, <1>2, TextStays

Grown(buf, new, l, r, left, right, start, gain) ==
  /\ buf \in Seq(Alphabet) /\ new \in Seq(Alphabet) /\ l \in Nat /\ r \in Nat
  /\ left \in Nat /\ right \in Nat /\ start \in Nat
  /\ Collates(buf, new, left, right, start, gain) /\ start <= left
  /\ IsText(buf, l, r) /\ IsText(buf, r, start) /\ r < start /\ IsText(buf, right, Len(buf))

\* A header that gets one more value,
LEMMA TakesMore ==
  ASSUME NEW buf, NEW new, NEW l, NEW r, NEW left, NEW right, NEW start, NEW gain,
         Grown(buf, new, l, r, left, right, start, gain)
  PROVE  /\ IsText(new, l, r) /\ StringAt(new, l) = StringAt(buf, l)
         /\ IsText(new, r, start + gain)
         /\ StringAt(new, r) = Three(StringAt(buf, r), Comma, StringAt(buf, right))
<1>0. /\ buf \in Seq(Alphabet) /\ new \in Seq(Alphabet) /\ l \in Nat /\ r \in Nat
      /\ left \in Nat /\ right \in Nat /\ start \in Nat
      /\ Collates(buf, new, left, right, start, gain) /\ start <= left
      /\ IsText(buf, l, r) /\ IsText(buf, r, start) /\ r < start /\ IsText(buf, right, Len(buf))
  BY DEF Grown
<1> USE <1>0
<1>1. start - 1 \in Nat /\ r <= start - 1
  OBVIOUS
<1>2. /\ Kept(buf, new, start - 1)
      /\ new[start] = Comma[1] /\ new[start + 1] = Comma[2]
      /\ \A j \in 1..(Len(buf) - right) : new[start + 1 + j] = buf[right + j]
  BY DEF Collates
<1>3. IsText(new, l, r) /\ StringAt(new, l) = StringAt(buf, l)
  <2>1. PICK len \in Nat : len = start - 1
    BY <1>1
  <2> QED BY <1>1, <1>2, <2>1, TextStays
<1>4. PICK n \in Nat : n = Len(buf)
  BY LenProperties
<1>5. start + 1 + (n - right) = start + gain /\ start + 1 + (n - right) <= Len(new)
  <2>1. gain = n - right + 1 /\ Len(new) = left + gain /\ right < n
    BY <1>4 DEF Collates, IsText
  <2> QED BY <2>1
<1>6. \A j \in 1..(n - right) : new[start + 1 + j] = buf[right + j]
  BY <1>2, <1>4
<1>7. IsText(buf, right, n)
  BY <1>4
<1>8. /\ IsText(new, r, start + 1 + (n - right))
      /\ StringAt(new, r) = Three(StringAt(buf, r), Comma, StringAt(buf, right))
  <2>1. PICK comma \in Seq(Alphabet) : comma = Comma
    BY CommaIs
  <2>2. Len(comma) = 2 /\ comma[1] # "NUL" /\ comma[2] # "NUL"
    BY <2>1, CommaIs
  <2>3. new[start] = comma[1] /\ new[start + 1] = comma[2] /\ Kept(buf, new, start - 1)
    BY <1>2, <2>1
  <2>4. start + 1 + (n - right) <= Len(new)
    BY <1>5
  <2>6. Follows(buf, new, right, n, start + 1)
    BY <1>6 DEF Follows
  <2>5. /\ IsText(new, r, start + 1 + (n - right))
        /\ StringAt(new, r) = Three(StringAt(buf, r), comma, StringAt(buf, right))
    <3>1. Joins(buf, new, start, right, n, comma)
      BY <2>2, <2>3, <2>4, <2>6 DEF Joins
    <3>2. JoinsIn(buf, new, r, start, right, n, comma)
      BY <1>7, <3>1 DEF JoinsIn
    <3> QED BY <3>2, TextJoins
  <2> QED BY <2>1, <2>5
<1> QED BY <1>3, <1>5, <1>8

Carried(buf, new, l, r, e, left, right, start, gain) ==
  /\ buf \in Seq(Alphabet) /\ new \in Seq(Alphabet) /\ l \in Nat /\ r \in Nat /\ e \in Nat
  /\ left \in Nat /\ start \in Nat /\ gain \in Nat
  /\ Collates(buf, new, left, right, start, gain)
  /\ IsText(buf, l, r) /\ IsText(buf, r, e) /\ l < r /\ r < e /\ start <= l /\ e <= left

\* and one that is moved to make room for that.
LEMMA GoesOn ==
  ASSUME NEW buf, NEW new, NEW l, NEW r, NEW e, NEW left, NEW right, NEW start, NEW gain,
         Carried(buf, new, l, r, e, left, right, start, gain)
  PROVE  /\ IsText(new, l + gain, r + gain) /\ StringAt(new, l + gain) = StringAt(buf, l)
         /\ IsText(new, r + gain, e + gain) /\ StringAt(new, r + gain) = StringAt(buf, r)
<1>0. /\ buf \in Seq(Alphabet) /\ new \in Seq(Alphabet) /\ l \in Nat /\ r \in Nat /\ e \in Nat
      /\ left \in Nat /\ start \in Nat /\ gain \in Nat
      /\ Collates(buf, new, left, right, start, gain)
      /\ IsText(buf, l, r) /\ IsText(buf, r, e) /\ l < r /\ r < e /\ start <= l /\ e <= left
  BY DEF Carried
<1> USE <1>0
<1>1. Shifted(buf, new, start, left, gain)
  BY DEF Collates
<1>2. start <= r /\ r <= left
  OBVIOUS
<1> QED BY <1>1, <1>2, TextMoves

\* What a header says when its value has got another one behind it.
Joined(field, value) == [key |-> field.key, value |-> Three(field.value, Comma, value)]

Moves(buf, new, list, left, right, k, start, gain, value) ==
  /\ buf \in Seq(Alphabet) /\ new \in Seq(Alphabet) /\ list \in Seq(Entry)
  /\ left \in Nat /\ right \in Nat /\ k \in 1..Len(list) /\ gain \in Nat \ {0}
  /\ ListFits(list, left) /\ Strings(buf, list, left) /\ IsText(buf, right, Len(buf))
  /\ start = EndAt(list, left, k) /\ Collates(buf, new, left, right, start, gain)
  /\ value = StringAt(buf, right)

\* A header whose value is put behind the one numbered prev: that one says more, and those
\* behind it say what they said, further on.
LEMMA FieldsMove ==
  ASSUME NEW buf, NEW new, NEW list, NEW left, NEW right, NEW k, NEW start, NEW gain, NEW value,
         Moves(buf, new, list, left, right, k, start, gain, value)
  PROVE  /\ Strings(new, Moved(list, k - 1, gain), left + gain)
         /\ FieldsOf(new, Moved(list, k - 1, gain)) =
              [i \in 1..Len(list) |->
                IF i = k THEN Joined(FieldOf(buf, list[i]), value) ELSE FieldOf(buf, list[i])]
<1>a. /\ buf \in Seq(Alphabet) /\ new \in Seq(Alphabet) /\ list \in Seq(Entry)
      /\ left \in Nat /\ right \in Nat /\ k \in 1..Len(list) /\ gain \in Nat \ {0}
      /\ ListFits(list, left) /\ Strings(buf, list, left) /\ IsText(buf, right, Len(buf))
      /\ start = EndAt(list, left, k) /\ Collates(buf, new, left, right, start, gain)
      /\ value = StringAt(buf, right)
  BY DEF Moves
<1> USE <1>a
<1> DEFINE n == Len(list)
           more == Moved(list, k - 1, gain)
<1>0. n \in Nat /\ DOMAIN list = 1..n
  BY LenProperties
<1>1. /\ start \in Nat /\ list[k].right < start /\ list[k].right \in Nat /\ start <= left
  BY PlacesOf
<1>5. /\ more \in Seq(Entry) /\ Len(more) = n /\ DOMAIN more = 1..n
  <2>1. k - 1 \in Nat /\ k - 1 < n
    BY <1>0
  <2>2. more \in Seq(Entry) /\ Len(more) = n
    BY <2>1, ListMoves
  <2> QED BY <2>2, LenProperties
<1>6. ASSUME NEW i \in 1..n
      PROVE  /\ ~(i > k) => more[i] = list[i]
             /\ i > k => /\ more[i].left = list[i].left + gain
                         /\ more[i].right = list[i].right + gain
  <2>1. more[i] = IF i > (k - 1) + 1 THEN [left |-> list[i].left + gain, right |-> list[i].right + gain]
                  ELSE list[i]
    BY <1>0 DEF Moved
  <2>2. (k - 1) + 1 = k
    OBVIOUS
  <2> QED BY <2>1, <2>2
<1> HIDE DEF more
<1>7. ASSUME NEW i \in 1..n
      PROVE  /\ list[i].left \in Nat /\ list[i].right \in Nat /\ list[i].left < list[i].right
             /\ EndAt(list, left, i) \in Nat /\ list[i].right < EndAt(list, left, i)
             /\ EndAt(list, left, i) <= left
             /\ IsText(buf, list[i].left, list[i].right)
             /\ IsText(buf, list[i].right, EndAt(list, left, i))
  <2>1. /\ list[i].left \in Nat /\ list[i].right \in Nat /\ list[i].left < list[i].right
        /\ EndAt(list, left, i) \in Nat /\ list[i].right < EndAt(list, left, i)
        /\ EndAt(list, left, i) <= left
    BY PlacesOf
  <2>2. IsText(buf, list[i].left, list[i].right) /\ IsText(buf, list[i].right, EndAt(list, left, i))
    BY <1>0 DEF Strings
  <2> QED BY <2>1, <2>2
<1>8. ASSUME NEW i \in 1..n
      PROVE  EndAt(more, left + gain, i) =
               IF i < k THEN EndAt(list, left, i) ELSE EndAt(list, left, i) + gain
  <2>0. i \in Nat /\ n \in Nat /\ k \in 1..n
    BY <1>0
  <2>1. CASE i < n
    <3>1. i + 1 \in 1..n
      BY <2>0, <2>1
    <3>2. EndAt(list, left, i) = list[i + 1].left /\ EndAt(more, left + gain, i) = more[i + 1].left
      BY <1>5, <2>1 DEF EndAt
    <3>3. i < k <=> ~(i + 1 > k)
      BY <2>0
    <3> QED BY <1>6, <3>1, <3>2, <3>3
  <2>2. CASE ~(i < n)
    <3>1. EndAt(list, left, i) = left /\ EndAt(more, left + gain, i) = left + gain
      BY <1>5, <2>2 DEF EndAt
    <3>2. ~(i < k)
      BY <2>0, <2>2
    <3> QED BY <3>1, <3>2
  <2> QED BY <2>1, <2>2
<1> DEFINE Says(i) == /\ IsText(new, more[i].left, more[i].right)
                      /\ IsText(new, more[i].right, EndAt(more, left + gain, i))
                      /\ FieldOf(new, more[i]) =
                           IF i = k THEN Joined(FieldOf(buf, list[i]), value) ELSE FieldOf(buf, list[i])
<1>9. ASSUME NEW i \in 1..n PROVE Says(i)
  <2>0. i \in Nat /\ k \in Nat
    BY <1>0
  <2> DEFINE l == list[i].left
             r == list[i].right
             e == EndAt(list, left, i)
  <2>a. /\ l \in Nat /\ r \in Nat /\ e \in Nat /\ l < r /\ r < e /\ e <= left
        /\ IsText(buf, l, r) /\ IsText(buf, r, e)
    BY <1>7
  <2>1. CASE i < k
    <3>1. more[i] = list[i] /\ EndAt(more, left + gain, i) = e /\ i # k
      BY <1>6, <1>8, <2>0, <2>1
    <3>2. e < start
      <4>1. e <= list[k].left
        BY <2>1, EndsBefore
      <4>2. list[k].left \in Nat /\ list[k].left < list[k].right
        BY <1>7
      <4> HIDE DEF e
      <4> QED BY <1>1, <2>a, <4>1, <4>2
    <3> HIDE DEF l, r, e
    <3>3. /\ IsText(new, l, r) /\ StringAt(new, l) = StringAt(buf, l)
          /\ IsText(new, r, e) /\ StringAt(new, r) = StringAt(buf, r)
      BY <1>1, <2>a, <3>2, StaysPut
    <3> QED BY <3>1, <3>3 DEF FieldOf, l, r
  <2>2. CASE i = k
    <3>1. more[i] = list[i] /\ EndAt(more, left + gain, i) = start + gain /\ e = start
      BY <1>6, <1>8, <2>0, <2>2
    <3> HIDE DEF l, r, e
    <3>3. /\ IsText(new, l, r) /\ StringAt(new, l) = StringAt(buf, l)
          /\ IsText(new, r, start + gain)
          /\ StringAt(new, r) = Three(StringAt(buf, r), Comma, StringAt(buf, right))
      <4>1. IsText(buf, r, start) /\ r < start
        BY <2>a, <3>1, Zenon
      <4>2. l \in Nat /\ r \in Nat /\ start \in Nat /\ start <= left /\ IsText(buf, l, r)
        BY <1>1, <2>a, Zenon
      <4>3. Grown(buf, new, l, r, left, right, start, gain)
        BY <4>1, <4>2 DEF Grown
      <4> QED BY <4>3, TakesMore
    <3> QED BY <2>2, <3>1, <3>3 DEF FieldOf, Joined, l, r
  <2>3. CASE i > k
    <3>1. /\ more[i].left = l + gain /\ more[i].right = r + gain
          /\ EndAt(more, left + gain, i) = e + gain /\ i # k
      BY <1>6, <1>8, <2>0, <2>3
    <3>2. start <= l
      BY <2>0, <2>3, EndsBefore
    <3> HIDE DEF l, r, e
    <3>3. /\ IsText(new, l + gain, r + gain) /\ StringAt(new, l + gain) = StringAt(buf, l)
          /\ IsText(new, r + gain, e + gain) /\ StringAt(new, r + gain) = StringAt(buf, r)
      <4>1. gain \in Nat /\ start \in Nat
        BY <1>1
      <4>2. Carried(buf, new, l, r, e, left, right, start, gain)
        BY <2>a, <3>2, <4>1 DEF Carried
      <4> QED BY <4>2, GoesOn
    <3> QED BY <3>1, <3>3 DEF FieldOf, l, r
  <2> QED BY <2>0, <2>1, <2>2, <2>3
<1>10. Strings(new, more, left + gain)
  BY <1>5, <1>9 DEF Strings
<1>11. FieldsOf(new, more) =
         [i \in 1..n |->
           IF i = k THEN Joined(FieldOf(buf, list[i]), value) ELSE FieldOf(buf, list[i])]
  BY <1>5, <1>9 DEF FieldsOf
<1> QED BY <1>10, <1>11 DEF more

-----------------------------------------------------------------------------
(* One more header, or more of one that was there. *)

\* The headers that may be searched, and that none of them has the key of another.
OfKeys(F, map) ==
  \A d \in Nat : d \in map <=> (d + 1 \in DOMAIN F /\ NeedsProcessing(F[d + 1].key))
Unlike(F) == \A i, j \in DOMAIN F : SameKey(F[i], F[j]) => i = j

\* A header that has a key of its own,
LEMMA WithNew ==
  ASSUME NEW F \in Seq(Header), NEW f \in Header, NEW map, map \subseteq Nat,
         \A i \in DOMAIN F : ~SameKey(F[i], f), OfKeys(F, map), Unlike(F)
  PROVE  /\ With(F, f) = Append(F, f) /\ Unlike(Append(F, f))
         /\ OfKeys(Append(F, f), IF NeedsProcessing(f.key) THEN map \cup {Len(F)} ELSE map)
<1> DEFINE G == Append(F, f)
           n == Len(F)
<1>0. n \in Nat /\ DOMAIN F = 1..n
  BY LenProperties
<1>1. /\ G \in Seq(Header) /\ Len(G) = n + 1 /\ G[n + 1] = f /\ \A i \in 1..n : G[i] = F[i]
  BY AppendProperties
<1>2. DOMAIN G = 1..(n + 1)
  BY <1>1, LenProperties
<1>3. With(F, f) = G
  BY DEF With
<1> HIDE DEF G, n
<1>4. Unlike(G)
  <2> SUFFICES ASSUME NEW i \in 1..(n + 1), NEW j \in 1..(n + 1), SameKey(G[i], G[j])
               PROVE  i = j
    BY <1>2 DEF Unlike
  <2>1. (i \in 1..n \/ i = n + 1) /\ (j \in 1..n \/ j = n + 1)
    BY <1>0
  <2>2. CASE i \in 1..n /\ j \in 1..n
    BY <1>0, <1>1, <2>2 DEF Unlike
  <2>3. CASE i \in 1..n /\ j = n + 1
    BY <1>0, <1>1, <2>3
  <2>4. CASE i = n + 1 /\ j \in 1..n
    <3>1. SameKey(F[j], f)
      BY <1>1, <2>4 DEF SameKey
    <3> QED BY <1>0, <2>4, <3>1
  <2> QED BY <2>1, <2>2, <2>3, <2>4
<1>5. OfKeys(G, IF NeedsProcessing(f.key) THEN map \cup {n} ELSE map)
  <2> SUFFICES ASSUME NEW d \in Nat
               PROVE  d \in (IF NeedsProcessing(f.key) THEN map \cup {n} ELSE map) <=>
                        (d + 1 \in 1..(n + 1) /\ NeedsProcessing(G[d + 1].key))
    BY <1>2 DEF OfKeys
  <2>1. CASE d + 1 \in 1..n
    <3>1. d # n /\ d + 1 \in 1..(n + 1)
      BY <1>0, <2>1
    <3> QED BY <1>0, <1>1, <2>1, <3>1 DEF OfKeys
  <2>2. CASE d = n
    <3>1. d + 1 \in 1..(n + 1) /\ d + 1 \notin 1..n
      BY <1>0, <2>2
    <3> QED BY <1>0, <1>1, <2>2, <3>1 DEF OfKeys
  <2>3. CASE d + 1 \notin 1..n /\ d # n
    <3>1. d + 1 \notin 1..(n + 1)
      BY <1>0, <2>3
    <3> QED BY <1>0, <2>3, <3>1 DEF OfKeys
  <2> QED BY <2>1, <2>2, <2>3
<1> QED BY <1>3, <1>4, <1>5 DEF G, n

\* A value is put in the place of another.
LEMMA ValueReplaced ==
  ASSUME NEW g \in Header, NEW x
  PROVE  [g EXCEPT !.value = x] = [key |-> g.key, value |-> x]
BY DEF Header

\* and one that goes behind what its key had.
LEMMA WithOld ==
  ASSUME NEW F \in Seq(Header), NEW f \in Header, NEW map, NEW k \in DOMAIN F,
         SameKey(F[k], f), OfKeys(F, map), Unlike(F),
         NEW G, G = [i \in DOMAIN F |-> IF i = k THEN Joined(F[i], f.value) ELSE F[i]]
  PROVE  With(F, f) = G /\ Unlike(G) /\ OfKeys(G, map)
<1>1. ASSUME NEW i \in DOMAIN F PROVE SameKey(F[i], f) <=> i = k
  <2>1. SameKey(F[i], f) => SameKey(F[i], F[k])
    BY DEF SameKey
  <2> QED BY <2>1 DEF Unlike
<1>2. ASSUME NEW i \in DOMAIN F
      PROVE  [F[i] EXCEPT !.value = @ \o <<",", " ">> \o f.value] = Joined(F[i], f.value)
  <2>1. F[i] \in Header
    BY LenProperties, ElementOfSeq
  <2>2. PICK x : x = (F[i].value \o <<",", " ">>) \o f.value
    OBVIOUS
  <2>3. [F[i] EXCEPT !.value = x] = [key |-> F[i].key, value |-> x]
    BY <2>1, ValueReplaced
  <2>4. x = Three(F[i].value, Comma, f.value)
    BY <2>2 DEF Three, Comma
  <2>5. Joined(F[i], f.value) = [key |-> F[i].key, value |-> x]
    BY <2>4 DEF Joined
  <2> QED BY <2>2, <2>3, <2>5
<1>3. With(F, f) = G
  <2>1. With(F, f) =
          [i \in DOMAIN F |->
            IF SameKey(F[i], f) THEN [F[i] EXCEPT !.value = @ \o <<",", " ">> \o f.value] ELSE F[i]]
    BY DEF With
  <2> QED BY <1>1, <1>2, <2>1
<1>4. DOMAIN G = DOMAIN F /\ \A i \in DOMAIN F : G[i].key = F[i].key
  BY DEF Joined
<1>5. Unlike(G)
  BY <1>4 DEF Unlike, SameKey
<1>6. OfKeys(G, map)
  BY <1>4 DEF OfKeys
<1> QED BY <1>3, <1>5, <1>6

\* The headers are those in the buffer.
LEMMA FieldsAre ==
  ASSUME NEW h
  PROVE  Fields(h) = FieldsOf(h.buf, h.list)
BY DEF Fields, FieldsOf, FieldOf, KeyAt, ValueAt

\* The headers up to a place in the text, each with its strings, and those of them that may
\* be searched.
Listed(h, limit) ==
  /\ Strings(h.buf, h.list, limit)
  /\ OfKeys(Fields(h), h.map) /\ Unlike(Fields(h))

\* A header that is complete is cut.
LEMMA CutReads ==
  ASSUME NEW h \in Record, ListFits(h.list, h.left), h.left + 2 <= h.right, h.right < Len(h.buf),
         Listed(h, h.left), IsText(h.buf, h.left, h.right), IsText(h.buf, h.right, Len(h.buf)),
         NEW y, y = Cut(h),
         NEW field, field = [key |-> StringAt(h.buf, h.left), value |-> StringAt(h.buf, h.right)]
  PROVE  Fields(y) = With(Fields(h), field) /\ Listed(y, Len(y.buf))
<1> DEFINE entry == [left |-> h.left, right |-> h.right]
           list == h.list
           buf == h.buf
           n == Len(list)
           new == Append(list, entry)
           F == FieldsOf(buf, list)
<1>1. /\ buf \in Seq(Alphabet) /\ list \in Seq(Entry) /\ h.map \in SUBSET Nat
      /\ h.left \in Nat /\ h.right \in Nat /\ n \in Nat /\ Len(buf) \in Nat
      /\ DOMAIN list = 1..n
  BY LenProperties DEF Record
<1>2. entry \in Entry /\ entry.left = h.left /\ entry.right = h.right
  BY <1>1 DEF Entry
<1>3. Fields(h) = F /\ Fields(y) = FieldsOf(y.buf, y.list)
  BY FieldsAre
<1>4. /\ F \in Seq(Header) /\ Len(F) = n /\ DOMAIN F = 1..n
      /\ \A i \in 1..n : F[i] = FieldOf(buf, list[i])
  BY <1>1, FieldsIs DEF Listed
<1>5. OfKeys(F, h.map) /\ Unlike(F) /\ Strings(buf, list, h.left)
  BY <1>3 DEF Listed
<1>6. /\ field = FieldOf(buf, entry) /\ field \in Header
      /\ field.key = KeyAt(buf, entry)
  <2>1. StringAt(buf, h.left) \in Seq(Alphabet) /\ StringAt(buf, h.right) \in Seq(Alphabet)
    BY <1>1, TextIs
  <2> QED BY <2>1 DEF FieldOf, Header, KeyAt
<1>7. Strings(buf, new, Len(buf)) /\ FieldsOf(buf, new) = Append(F, field)
  <2> HIDE DEF entry
  <2>1. /\ ListFits(list, entry.left) /\ Strings(buf, list, entry.left)
        /\ entry.left + 2 <= entry.right /\ entry.right < Len(buf)
        /\ IsText(buf, entry.left, entry.right) /\ IsText(buf, entry.right, Len(buf))
    BY <1>2, <1>5
  <2> QED BY <1>1, <1>2, <1>6, <2>1, FieldsGrow
<1> HIDE DEF entry, list, buf, n, F, new
<1>8. ASSUME NEW i \in 1..n
      PROVE  SameKey(F[i], field) <=> NeedsProcessing(field.key) /\ i - 1 \in Found(h, field.key)
  <2>1. i - 1 \in Nat /\ (i - 1) + 1 = i
    OBVIOUS
  <2>2. i - 1 \in h.map <=> NeedsProcessing(F[i].key)
    BY <1>4, <1>5, <2>1 DEF OfKeys
  <2>3. F[i].key = KeyAt(buf, list[i])
    BY <1>4 DEF FieldOf, KeyAt
  <2>4. i - 1 \in Found(h, field.key) <=>
          i - 1 \in h.map /\ Folded(KeyAt(buf, list[i])) = Folded(field.key)
    BY <2>1 DEF Found, buf, list
  <2> QED BY <2>2, <2>3, <2>4 DEF SameKey
<1>9. \A d \in Found(h, field.key) : d \in h.map /\ d \in Nat /\ d + 1 \in 1..n /\ (d + 1) - 1 = d
  <2> SUFFICES ASSUME NEW d \in Found(h, field.key)
               PROVE  d \in h.map /\ d \in Nat /\ d + 1 \in 1..n /\ (d + 1) - 1 = d
    OBVIOUS
  <2>1. d \in h.map /\ d \in Nat
    BY <1>1 DEF Found
  <2>2. d + 1 \in 1..n
    BY <1>4, <1>5, <2>1 DEF OfKeys
  <2> QED BY <2>1, <2>2
<1>10. CASE ~NeedsProcessing(field.key) \/ Found(h, field.key) = {}
  <2>1. /\ y.buf = buf /\ y.list = new
        /\ y.map = IF NeedsProcessing(field.key) THEN h.map \cup {n} ELSE h.map
    <3>1. h = [state |-> h.state, buf |-> buf, list |-> list, map |-> h.map, left |-> h.left, right |-> h.right]
      BY DEF Record, buf, list
    <3>2. CASE ~NeedsProcessing(field.key)
      <4>1. y = [h EXCEPT !.list = Append(@, entry)]
        BY <1>6, <3>2 DEF Cut, entry, buf
      <4> QED BY <3>1, <3>2, <4>1 DEF new, list
    <3>3. CASE NeedsProcessing(field.key) /\ Found(h, field.key) = {}
      <4>1. y = [[h EXCEPT !.list = Append(@, entry)] EXCEPT !.map = @ \cup {n}]
        BY <1>6, <3>3 DEF Cut, entry, buf, n, list
      <4> QED BY <3>1, <3>3, <4>1 DEF new, list
    <3> QED BY <1>10, <3>2, <3>3
  <2>2. \A i \in DOMAIN F : ~SameKey(F[i], field)
    BY <1>4, <1>8, <1>10
  <2>3. /\ With(F, field) = Append(F, field) /\ Unlike(Append(F, field))
        /\ OfKeys(Append(F, field), IF NeedsProcessing(field.key) THEN h.map \cup {Len(F)} ELSE h.map)
    BY <1>1, <1>4, <1>5, <1>6, <2>2, WithNew
  <2>4. Fields(y) = Append(F, field)
    BY <1>3, <1>7, <2>1
  <2> QED BY <1>3, <1>4, <1>7, <2>1, <2>3, <2>4 DEF Listed
<1>11. CASE NeedsProcessing(field.key) /\ Found(h, field.key) # {}
  <2> DEFINE prev == CHOOSE d \in Found(h, field.key) : TRUE
             start == new[prev + 2].left
             gain == Len(buf) - h.right + 1
             k == prev + 1
  <2>1. prev \in Found(h, field.key)
    BY <1>11
  <2>2. y.buf = Collated(buf, entry, start) /\ y.list = Moved(list, prev, gain) /\ y.map = h.map
    <3>1. h = [state |-> h.state, buf |-> buf, list |-> list, map |-> h.map, left |-> h.left, right |-> h.right]
      BY DEF Record, buf, list
    <3>2. [h EXCEPT !.list = Append(@, entry)].list = new
      BY <3>1 DEF new, list
    <3>3. y = [h EXCEPT !.buf = Collated(@, entry, start), !.list = Moved(@, prev, gain)]
      BY <1>6, <1>11, <3>2 DEF Cut, entry, buf
    <3> HIDE DEF start, gain, prev
    <3> QED BY <3>1, <3>3
  <2> HIDE DEF prev
  <2>3. prev \in Nat /\ k \in 1..n /\ k - 1 = prev /\ prev + 2 = k + 1
    BY <1>9, <2>1
  <2>4. start = EndAt(list, h.left, k)
    <3>1. Len(new) = n + 1 /\ new[n + 1] = entry /\ \A i \in 1..n : new[i] = list[i]
      BY <1>1, <1>2, AppendProperties DEF new, n
    <3>2. CASE k < n
      <4>1. k + 1 \in 1..n
        BY <1>1, <2>3, <3>2
      <4>2. EndAt(list, h.left, k) = list[k + 1].left
        BY <3>2 DEF EndAt, n
      <4> QED BY <2>3, <3>1, <4>1, <4>2
    <3>3. CASE ~(k < n)
      <4>1. k + 1 = n + 1
        BY <1>1, <2>3, <3>3
      <4>2. EndAt(list, h.left, k) = h.left
        BY <3>3 DEF EndAt, n
      <4> QED BY <1>2, <2>3, <3>1, <4>1, <4>2
    <3> QED BY <3>2, <3>3
  <2> HIDE DEF start, gain, k
  <2>5. /\ start \in Nat /\ start > 0 /\ start <= h.left
        /\ gain = Len(buf) - h.right + 1 /\ gain \in Nat \ {0}
    <3>1. /\ list[k].right \in Nat /\ start \in Nat /\ list[k].right < start /\ start <= h.left
      BY <1>1, <2>3, <2>4, PlacesOf DEF n, list
    <3>2. gain = Len(buf) - h.right + 1 /\ gain \in Nat \ {0}
      BY <1>1 DEF gain, buf
    <3> QED BY <3>1, <3>2
  <2>6. y.buf \in Seq(Alphabet) /\ Collates(buf, y.buf, h.left, h.right, start, gain)
    <3>1. start <= entry.left /\ entry.left + 2 <= entry.right /\ entry.right < Len(buf)
      BY <1>2, <2>5 DEF buf
    <3>2. gain = Len(buf) - entry.right + 1
      BY <1>2, <2>5
    <3>3. /\ y.buf \in Seq(Alphabet) /\ Len(y.buf) = entry.left + gain
          /\ Kept(buf, y.buf, start - 1)
          /\ y.buf[start] = Comma[1] /\ y.buf[start + 1] = Comma[2]
          /\ \A j \in 1..(Len(buf) - entry.right) : y.buf[start + 1 + j] = buf[entry.right + j]
          /\ Shifted(buf, y.buf, start, entry.left, gain)
      BY <1>1, <1>2, <2>2, <2>5, <3>1, <3>2, CollatedIs
    <3> QED BY <1>2, <2>5, <3>3 DEF Collates
  <2> DEFINE value == StringAt(buf, h.right)
             G == [i \in 1..n |-> IF i = k THEN Joined(FieldOf(buf, list[i]), value)
                                  ELSE FieldOf(buf, list[i])]
  <2>7. /\ Strings(y.buf, Moved(list, k - 1, gain), h.left + gain)
        /\ FieldsOf(y.buf, Moved(list, k - 1, gain)) = G
    <3>1. value = StringAt(buf, h.right) /\ IsText(buf, h.right, Len(buf)) /\ ListFits(list, h.left)
      BY DEF buf, list
    <3>2. /\ buf \in Seq(Alphabet) /\ y.buf \in Seq(Alphabet) /\ list \in Seq(Entry)
          /\ h.left \in Nat /\ h.right \in Nat /\ k \in 1..Len(list) /\ gain \in Nat \ {0}
      BY <1>1, <2>3, <2>5, <2>6 DEF n
    <3>3. /\ Strings(buf, list, h.left) /\ start = EndAt(list, h.left, k)
          /\ Collates(buf, y.buf, h.left, h.right, start, gain)
      BY <1>5, <2>4, <2>6
    <3>4. G = [i \in 1..Len(list) |-> IF i = k THEN Joined(FieldOf(buf, list[i]), value)
                                      ELSE FieldOf(buf, list[i])]
      BY DEF n
    <3> HIDE DEF value, G
    <3>5. /\ Strings(y.buf, Moved(list, k - 1, gain), h.left + gain)
          /\ FieldsOf(y.buf, Moved(list, k - 1, gain)) =
               [i \in 1..Len(list) |-> IF i = k THEN Joined(FieldOf(buf, list[i]), value)
                                       ELSE FieldOf(buf, list[i])]
      <4>1. Moves(buf, y.buf, list, h.left, h.right, k, start, gain, value)
        BY <3>1, <3>2, <3>3 DEF Moves
      <4> QED BY <4>1, FieldsMove
    <3> QED BY <3>4, <3>5
  <2>8. Fields(y) = G /\ Strings(y.buf, y.list, Len(y.buf))
    <3>1. Len(y.buf) = h.left + gain
      BY <2>6 DEF Collates
    <3> QED BY <1>3, <2>2, <2>3, <2>7, <3>1
  <2>9. G = [i \in DOMAIN F |-> IF i = k THEN Joined(F[i], field.value) ELSE F[i]]
    <3>1. field.value = value
      BY DEF buf
    <3> HIDE DEF value
    <3> QED BY <1>4, <3>1
  <2> HIDE DEF G
  <2>10. k \in DOMAIN F /\ SameKey(F[k], field)
    BY <1>4, <1>8, <1>11, <2>1, <2>3
  <2>11. With(F, field) = G /\ Unlike(G) /\ OfKeys(G, h.map)
    BY <1>4, <1>5, <1>6, <2>9, <2>10, WithOld
  <2> QED BY <1>3, <2>2, <2>8, <2>11 DEF Listed
<1> QED BY <1>10, <1>11

-----------------------------------------------------------------------------
(* What a value is, from the characters that were sent. *)

\* What its first k characters are, by what it is before the last of them.
Squeeze(raw, out, k) ==
  IF k = 0 THEN <<>>
  ELSE IF raw[k] \in Whites THEN out[k - 1]
  ELSE IF out[k - 1] # <<>> /\ raw[k - 1] \in Whites THEN out[k - 1] \o <<" ", raw[k]>>
  ELSE Append(out[k - 1], raw[k])

Squeezes(raw, m, f) == f = [k \in 0..m |-> Squeeze(raw, f, k)]

\* A squeezing that is defined up to a character is defined up to the next.
LEMMA SqueezesOn ==
  ASSUME NEW raw, NEW m \in Nat \ {0}, NEW f, Squeezes(raw, m - 1, f)
  PROVE  \E g : Squeezes(raw, m, g)
<1> DEFINE g == [k \in 0..m |-> IF k = m THEN Squeeze(raw, f, m) ELSE f[k]]
<1>1. f = [k \in 0..(m - 1) |-> Squeeze(raw, f, k)]
  BY DEF Squeezes
<1>2. \A k \in 0..(m - 1) : g[k] = f[k]
  OBVIOUS
<1>3. ASSUME NEW k \in 0..m PROVE Squeeze(raw, g, k) = Squeeze(raw, f, k)
  <2>1. k # 0 => k - 1 \in 0..(m - 1)
    OBVIOUS
  <2> HIDE DEF g
  <2>2. k # 0 => g[k - 1] = f[k - 1]
    BY <1>2, <2>1
  <2> QED BY <2>2 DEF Squeeze
<1>4. ASSUME NEW k \in 0..m PROVE g[k] = Squeeze(raw, g, k)
  <2>1. CASE k = m
    BY <1>3, <2>1
  <2>2. CASE k # m
    <3>1. k \in 0..(m - 1)
      BY <2>2
    <3>2. f[k] = Squeeze(raw, f, k)
      BY <1>1, <3>1
    <3> QED BY <1>2, <1>3, <3>1, <3>2
  <2> QED BY <2>1, <2>2
<1>5. g = [k \in 0..m |-> g[k]]
  OBVIOUS
<1> HIDE DEF g
<1>6. g = [k \in 0..m |-> Squeeze(raw, g, k)]
  BY <1>4, <1>5
<1> QED BY <1>6 DEF Squeezes

\* Two more characters.
LEMMA TwoMore ==
  ASSUME NEW s \in Seq(Alphabet), NEW a \in Alphabet, NEW b \in Alphabet
  PROVE  s \o <<a, b>> \in Seq(Alphabet) /\ s \o <<a, b>> = Append(Append(s, a), b)
<1>0. Len(s) \in Nat
  BY LenProperties
<1>1. PICK t \in Seq(Alphabet) : t = <<a, b>> /\ Len(t) = 2 /\ t[1] = a /\ t[2] = b
  <2>1. <<a, b>> \in Seq(Alphabet) /\ Len(<<a, b>>) = 2
    OBVIOUS
  <2>2. <<a, b>>[1] = a /\ <<a, b>>[2] = b
    OBVIOUS
  <2> QED BY <2>1, <2>2, Zenon
<1>2. /\ s \o t \in Seq(Alphabet) /\ Len(s \o t) = Len(s) + Len(t)
      /\ \A i \in 1..Len(s) : (s \o t)[i] = s[i]
      /\ \A i \in 1..Len(t) : (s \o t)[Len(s) + i] = t[i]
  BY Cat, CatFirst, CatSecond
<1>3. PICK u \in Seq(Alphabet) :
        u = Append(s, a) /\ Len(u) = Len(s) + 1 /\ (\A i \in 1..Len(s) : u[i] = s[i]) /\ u[Len(s) + 1] = a
  BY AppendProperties
<1>4. PICK v \in Seq(Alphabet) :
        v = Append(u, b) /\ Len(v) = Len(u) + 1 /\ (\A i \in 1..Len(u) : v[i] = u[i]) /\ v[Len(u) + 1] = b
  BY AppendProperties
<1>5. PICK w \in Seq(Alphabet) : w = s \o t
  BY <1>2
<1>6. Len(w) = Len(s) + 2 /\ w[Len(s) + 1] = a /\ w[Len(s) + 2] = b /\ \A i \in 1..Len(s) : w[i] = s[i]
  <2>1. 1 \in 1..Len(t) /\ 2 \in 1..Len(t)
    BY <1>1
  <2> QED BY <1>1, <1>2, <1>5, <2>1
<1>7. Len(v) = Len(s) + 2 /\ v[Len(s) + 1] = a /\ v[Len(s) + 2] = b /\ \A i \in 1..Len(s) : v[i] = s[i]
  <2>1. Len(s) + 1 \in 1..Len(u) /\ Len(u) + 1 = Len(s) + 2 /\ \A i \in 1..Len(s) : i \in 1..Len(u)
    BY <1>0, <1>3
  <2> QED BY <1>0, <1>3, <1>4, <2>1
<1>8. \A i \in 1..Len(w) : w[i] = v[i]
  <2>1. \A i \in 1..(Len(s) + 2) : i \in 1..Len(s) \/ i = Len(s) + 1 \/ i = Len(s) + 2
    BY <1>0
  <2> QED BY <1>6, <1>7, <2>1
<1>9. w = v
  BY <1>6, <1>7, <1>8, SeqEqual
<1> QED BY <1>1, <1>3, <1>4, <1>5, <1>9

\* So it is defined up to each: what Squeezed says of itself is true of it.
LEMMA SqueezedIs ==
  ASSUME NEW raw \in Seq(Alphabet)
  PROVE  \A k \in 0..Len(raw) :
           Squeezed(raw)[k] = Squeeze(raw, Squeezed(raw), k) /\ Squeezed(raw)[k] \in Seq(Alphabet)
<1> DEFINE n == Len(raw)
           T == {k \in Nat : \E f : Squeezes(raw, k, f)}
<1>0. n \in Nat
  BY LenProperties
<1>1. 0 \in T
  <2> DEFINE f == [k \in 0..0 |-> <<>>]
  <2>1. f = [k \in 0..0 |-> Squeeze(raw, f, k)]
    <3>1. f = [k \in 0..0 |-> f[k]] /\ \A k \in 0..0 : k = 0 /\ f[k] = <<>>
      OBVIOUS
    <3> HIDE DEF f
    <3>2. \A k \in 0..0 : f[k] = Squeeze(raw, f, k)
      BY <3>1 DEF Squeeze
    <3> QED BY <3>1, <3>2
  <2> HIDE DEF f
  <2> QED BY <2>1 DEF Squeezes
<1>2. ASSUME NEW k \in 1..n, k - 1 \in T PROVE k \in T
  <2>1. PICK f : Squeezes(raw, k - 1, f)
    BY <1>2
  <2>2. k \in Nat \ {0}
    BY <1>0
  <2>3. \E g : Squeezes(raw, k, g)
    BY <2>1, <2>2, SqueezesOn
  <2> QED BY <2>2, <2>3
<1> HIDE DEF T
<1>3. n \in T
  <2>1. \A k \in 1..n : k - 1 \in T => k \in T
    BY <1>2
  <2>2. n \in 0..n
    BY <1>0
  <2> QED BY <1>0, <1>1, <2>1, <2>2, Upwards, Zenon
<1>4. PICK f : Squeezes(raw, n, f)
  BY <1>3 DEF T
<1> DEFINE Is(g) == g = [k \in 0..n |-> Squeeze(raw, g, k)]
           u == CHOOSE g : Is(g)
<1>5. Squeezed(raw) = u
  BY DEF Squeezed, Squeeze
<1>6. Is(f)
  BY <1>4 DEF Squeezes
<1>7. Is(u)
  BY <1>6
<1> HIDE DEF u
<1>8. \A k \in 0..n : u[k] = Squeeze(raw, u, k)
  BY <1>7
<1> DEFINE S == {k \in 0..n : u[k] \in Seq(Alphabet)}
<1>9. 0 \in S
  <2>1. 0 \in 0..n /\ <<>> \in Seq(Alphabet)
    BY <1>0
  <2> QED BY <1>8, <2>1 DEF Squeeze
<1>10. ASSUME NEW k \in 1..n, k - 1 \in S PROVE k \in S
  <2>0. " " \in Alphabet
    BY DEF Alphabet
  <2>1. k \in 0..n /\ k # 0 /\ raw[k] \in Alphabet /\ " " \in Alphabet
    <3>1. k \in 0..n /\ k # 0
      BY <1>0
    <3>2. raw[k] \in Alphabet
      BY <1>0, ElementOfSeq
    <3> QED BY <2>0, <3>1, <3>2, Zenon
  <2>2. u[k - 1] \in Seq(Alphabet)
    BY <1>10
  <2>3. /\ u[k - 1] \o <<" ", raw[k]>> \in Seq(Alphabet)
        /\ Append(u[k - 1], raw[k]) \in Seq(Alphabet)
    BY <2>1, <2>2, TwoMore, AppendProperties
  <2>4. Squeeze(raw, u, k) \in Seq(Alphabet)
    BY <2>1, <2>2, <2>3 DEF Squeeze
  <2> QED BY <1>8, <2>1, <2>4
<1> HIDE DEF S
<1>11. \A k \in 0..n : k \in S
  <2>1. \A k \in 1..n : k - 1 \in S => k \in S
    BY <1>10
  <2> QED BY <1>0, <1>9, <2>1, Upwards, Zenon
<1> QED BY <1>5, <1>8, <1>11 DEF S

-----------------------------------------------------------------------------
(* What is being copied into a buffer. *)

\* From behind its first a characters to the b-th, a buffer has a text without NUL.
Spells(buf, a, b, text) ==
  /\ a <= b /\ b <= Len(buf) /\ Part(buf, a, b) = text
  /\ \A j \in (a + 1)..b : buf[j] # "NUL"

\* What a buffer spells stays, when it is not overwritten.
LEMMA SpellsStays ==
  ASSUME NEW s \in Seq(Alphabet), NEW t \in Seq(Alphabet), NEW a \in Nat, NEW b \in Nat,
         NEW text, NEW len \in Nat, Spells(s, a, b, text), Kept(s, t, len), b <= len
  PROVE  Spells(t, a, b, text)
<1>0. Len(s) \in Nat /\ Len(t) \in Nat
  BY LenProperties
<1>1. a <= b /\ b <= Len(s) /\ b <= Len(t)
  BY <1>0 DEF Spells, Kept
<1>2. b \in a..Len(s) /\ b \in a..Len(t)
  BY <1>0, <1>1
<1>3. \A j \in (a + 1)..b : t[j] = s[j] /\ s[j] # "NUL"
  <2>1. \A j \in (a + 1)..b : j \in 1..len
    OBVIOUS
  <2> QED BY <2>1 DEF Spells, Kept
<1>4. /\ text \in Seq(Alphabet) /\ Len(text) = b - a
      /\ \A i \in 1..(b - a) : text[i] = s[a + i]
  BY <1>2, PartIs DEF Spells
<1>5. \A i \in 1..(b - a) : text[i] = t[a + i]
  <2>1. \A i \in 1..(b - a) : a + i \in (a + 1)..b
    OBVIOUS
  <2> QED BY <1>3, <1>4, <2>1
<1>6. text = Part(t, a, b)
  BY <1>2, <1>4, <1>5, PartEqual
<1> QED BY <1>1, <1>3, <1>6 DEF Spells

\* One more character.
LEMMA SpellsMore ==
  ASSUME NEW s \in Seq(Alphabet), NEW a \in Nat, NEW text \in Seq(Alphabet),
         Spells(s, a, Len(s), text), NEW c \in Alphabet, c # "NUL",
         NEW t, t = Append(s, c)
  PROVE  Spells(t, a, Len(t), Append(text, c))
<1> DEFINE n == Len(s)
           u == Append(text, c)
<1>0. n \in Nat /\ a <= n
  BY LenProperties DEF Spells
<1>1. /\ t \in Seq(Alphabet) /\ Len(t) = n + 1 /\ t[n + 1] = c /\ \A i \in 1..n : t[i] = s[i]
  BY AppendProperties
<1>2. /\ Len(text) = n - a /\ \A i \in 1..(n - a) : text[i] = s[a + i]
  <2>1. n \in a..Len(s)
    BY <1>0
  <2> QED BY <2>1, PartIs DEF Spells
<1>3. /\ u \in Seq(Alphabet) /\ Len(u) = (n - a) + 1 /\ u[(n - a) + 1] = c
      /\ \A i \in 1..(n - a) : u[i] = text[i]
  BY <1>2, AppendProperties
<1>4. \A j \in (a + 1)..n : s[j] # "NUL"
  BY DEF Spells
<1> HIDE DEF n, u
<1>5. \A i \in 1..((n + 1) - a) : u[i] = t[a + i]
  <2> TAKE i \in 1..((n + 1) - a)
  <2>1. CASE i \in 1..(n - a)
    <3>1. a + i \in 1..n
      BY <1>0, <2>1
    <3> QED BY <1>1, <1>2, <1>3, <2>1, <3>1
  <2>2. CASE i \notin 1..(n - a)
    <3>1. i = (n - a) + 1 /\ a + i = n + 1
      BY <1>0, <2>2
    <3> QED BY <1>1, <1>3, <3>1
  <2> QED BY <2>1, <2>2
<1>6. u = Part(t, a, n + 1)
  <2>1. n + 1 \in a..Len(t) /\ Len(u) = (n + 1) - a
    BY <1>0, <1>1, <1>3
  <2> QED BY <1>1, <1>3, <1>5, <2>1, PartEqual
<1>7. \A j \in (a + 1)..(n + 1) : t[j] # "NUL"
  <2> TAKE j \in (a + 1)..(n + 1)
  <2>1. CASE j \in (a + 1)..n
    <3>1. j \in 1..n
      BY <1>0, <2>1
    <3> QED BY <1>1, <1>4, <2>1, <3>1
  <2>2. CASE j \notin (a + 1)..n
    <3>1. j = n + 1
      BY <1>0, <2>2
    <3> QED BY <1>1, <3>1
  <2> QED BY <2>1, <2>2
<1> QED BY <1>0, <1>1, <1>6, <1>7 DEF Spells, u

\* And the end of it.
LEMMA SpellsEnds ==
  ASSUME NEW s \in Seq(Alphabet), NEW a \in Nat, NEW b \in Nat, NEW e \in Nat, e = b + 1, NEW text,
         Spells(s, a, b, text), e <= Len(s), s[e] = "NUL"
  PROVE  IsText(s, a, e) /\ StringAt(s, a) = text
<1>0. Len(s) \in Nat
  BY LenProperties
<1>1. a < e /\ e - 1 = b
  BY DEF Spells
<1>2. IsText(s, a, e)
  BY <1>1 DEF Spells, IsText
<1>3. StringAt(s, a) = Part(s, a, b)
  BY <1>1, <1>2, TextIs
<1> QED BY <1>2, <1>3 DEF Spells

\* At its end it spells nothing.
LEMMA SpellsNothing ==
  ASSUME NEW s \in Seq(Alphabet), NEW a \in Nat, a = Len(s)
  PROVE  Spells(s, a, Len(s), <<>>)
<1>1. PICK b \in a..Len(s) : b = a
  OBVIOUS
<1>2. Part(s, a, b) \in Seq(Alphabet) /\ Len(Part(s, a, b)) = b - a
  BY PartIs
<1>3. b - a = 0 /\ (a + 1)..b = {}
  BY <1>1
<1>4. Part(s, a, b) = <<>>
  BY <1>2, <1>3, EmptySeq
<1>5. a <= b /\ b <= Len(s) /\ b = Len(s)
  BY <1>1
<1> QED BY <1>3, <1>4, <1>5 DEF Spells

\* What is appended leaves all that was there.
LEMMA AppendKeeps ==
  ASSUME NEW s \in Seq(Alphabet), NEW c \in Alphabet
  PROVE  Kept(s, Append(s, c), Len(s))
<1>1. /\ Append(s, c) \in Seq(Alphabet) /\ Len(Append(s, c)) = Len(s) + 1
      /\ \A i \in 1..Len(s) : Append(s, c)[i] = s[i]
  BY AppendProperties
<1>2. Len(s) \in Nat
  BY LenProperties
<1> QED BY <1>1, <1>2 DEF Kept

\* One more character makes a text longer by one.
LEMMA OneMore ==
  ASSUME NEW s \in Seq(Alphabet), NEW c \in Alphabet
  PROVE  Append(s, c) \in Seq(Alphabet) /\ Len(Append(s, c)) > 0 /\ Len(Append(s, c)) = Len(s) + 1
<1>1. Append(s, c) \in Seq(Alphabet) /\ Len(Append(s, c)) = Len(s) + 1 /\ Len(s) \in Nat
  BY AppendProperties, LenProperties
<1> QED BY <1>1

\* What is kept up to a place is kept up to any before.
LEMMA KeptLess ==
  ASSUME NEW s, NEW t, NEW len \in Nat, NEW less \in Nat, less <= len, Kept(s, t, len),
         Len(t) \in Nat
  PROVE  Kept(s, t, less)
BY DEF Kept

\* For which characters the rows of a header and of its value are.
LEMMA RowCharacters ==
  ASSUME NEW row \in HeaderRows, NEW c, HeaderClass(c) \in row.on
  PROVE  /\ row.do = {} /\ row.from \notin Idle => c \in Whites
         /\ row.do = {"space"} => c \in Whites
         /\ row.do = {"zero", "value"} => c = ":"
         /\ "print" \in row.do => c \notin Whites
         /\ "key" \in row.do \/ (row.from = "K" /\ "print" \in row.do) => c # ":"
         /\ "cut" \in row.do <=>
              row.from \in {"V1?", "V2?"} /\ row.to \in {"K", "END?", "END"}
<1>1. /\ HeaderClass(c) \in {"CR", "LF", "LWS"} <=> c \in Whites
      /\ HeaderClass(c) = ":" <=> c = ":"
  BY DEF HeaderClass, Whites
<1>2. CASE row \in KeyRows
  BY <1>1, <1>2 DEF KeyRows, HeaderRow, Idle
<1>3. CASE row \in EmptyValueRows
  BY <1>1, <1>3 DEF EmptyValueRows, HeaderRow, InValue, Idle
<1>4. CASE row \in ValueRows
  BY <1>1, <1>4 DEF ValueRows, HeaderRow, InValue, Idle
<1> QED BY <1>2, <1>3, <1>4 DEF HeaderRows

\* What a value is that begins behind the first q characters, up to the n-th.
Out(B, q, n) == Squeezed(Rest(B, q))[n - q]

\* The characters behind the first ones.
LEMMA RestIs ==
  ASSUME NEW B \in Seq(Alphabet), NEW q \in 0..Len(B)
  PROVE  /\ Rest(B, q) \in Seq(Alphabet) /\ Len(Rest(B, q)) = Len(B) - q
         /\ \A i \in 1..(Len(B) - q) : Rest(B, q)[i] = B[q + i]
<1>0. Len(B) \in Nat
  BY LenProperties
<1>1. q \in Nat
  OBVIOUS
<1>2. PICK n \in q..Len(B) : n = Len(B)
  BY <1>0
<1>3. /\ Part(B, q, n) \in Seq(Alphabet) /\ Len(Part(B, q, n)) = n - q
      /\ \A i \in 1..(n - q) : Part(B, q, n)[i] = B[q + i]
  BY <1>1, PartIs
<1>4. Rest(B, q) = Part(B, q, n)
  BY <1>2 DEF Rest, Part
<1> QED BY <1>2, <1>3, <1>4

\* What is squeezed out of a value is a text,
LEMMA OutIs ==
  ASSUME NEW B \in Seq(Alphabet), NEW q \in Nat, NEW n \in q..Len(B)
  PROVE  Out(B, q, n) \in Seq(Alphabet) /\ (n = q => Out(B, q, n) = <<>>)
<1>0. Len(B) \in Nat /\ q \in 0..Len(B)
  BY LenProperties
<1>1. PICK raw \in Seq(Alphabet) : raw = Rest(B, q) /\ Len(raw) = Len(B) - q
  BY <1>0, RestIs
<1>2. PICK k \in 0..Len(raw) : k = n - q
  BY <1>0, <1>1
<1>3. Squeezed(raw)[k] = Squeeze(raw, Squeezed(raw), k) /\ Squeezed(raw)[k] \in Seq(Alphabet)
  BY SqueezedIs
<1>4. Out(B, q, n) = Squeezed(raw)[k]
  BY <1>1, <1>2 DEF Out
<1>5. n = q => k = 0
  BY <1>0, <1>2
<1> QED BY <1>3, <1>4, <1>5 DEF Squeeze

OutMoves(B, q, n, c) ==
  /\ c \in Whites => Out(B, q, n + 1) = Out(B, q, n)
  /\ c \notin Whites /\ (Out(B, q, n) = <<>> \/ B[n] \notin Whites) =>
       Out(B, q, n + 1) = Append(Out(B, q, n), c)
  /\ c \notin Whites /\ Out(B, q, n) # <<>> /\ B[n] \in Whites =>
       Out(B, q, n + 1) = Append(Append(Out(B, q, n), " "), c)

\* and how it goes on with one more character.
LEMMA OutGoesOn ==
  ASSUME NEW B \in Seq(Alphabet), NEW q \in Nat, NEW n \in q..Len(B), n < Len(B),
         NEW c, c = B[n + 1]
  PROVE  OutMoves(B, q, n, c)
<1>0. Len(B) \in Nat /\ q \in 0..Len(B)
  BY LenProperties
<1>1. PICK raw \in Seq(Alphabet) :
        /\ raw = Rest(B, q) /\ Len(raw) = Len(B) - q
        /\ \A i \in 1..(Len(B) - q) : raw[i] = B[q + i]
  BY <1>0, RestIs
<1>2. PICK k \in 1..Len(raw) : k = (n + 1) - q
  BY <1>0, <1>1
<1>3. /\ k - 1 = n - q /\ k # 0 /\ k \in 0..Len(raw) /\ q + k = n + 1 /\ q + (k - 1) = n
      /\ k \in 1..(Len(B) - q) /\ (k - 1 # 0 => k - 1 \in 1..(Len(B) - q))
      /\ (k - 1 = 0 => n = q)
  BY <1>0, <1>1, <1>2
<1>4. raw[k] = c /\ (k - 1 # 0 => raw[k - 1] = B[n])
  BY <1>1, <1>3
<1>5. Out(B, q, n + 1) = Squeezed(raw)[k] /\ Out(B, q, n) = Squeezed(raw)[k - 1]
  BY <1>1, <1>2, <1>3 DEF Out
<1>6. Squeezed(raw)[k] = Squeeze(raw, Squeezed(raw), k)
  BY <1>3, SqueezedIs
<1>7. Out(B, q, n) \in Seq(Alphabet) /\ (n = q => Out(B, q, n) = <<>>)
  BY OutIs
<1> DEFINE o == Out(B, q, n)
<1> HIDE DEF o
<1>8. Out(B, q, n + 1) =
        IF c \in Whites THEN o
        ELSE IF o # <<>> /\ raw[k - 1] \in Whites THEN o \o <<" ", c>>
        ELSE Append(o, c)
  BY <1>3, <1>4, <1>5, <1>6 DEF Squeeze, o
<1>9. o # <<>> => raw[k - 1] = B[n]
  BY <1>3, <1>4, <1>7 DEF o
<1>10. o \o <<" ", c>> = Append(Append(o, " "), c)
  <2>1. " " \in Alphabet
    BY DEF Alphabet
  <2>2. c \in Alphabet
    BY <1>1, <1>2, <1>4, ElementOfSeq
  <2>3. o \in Seq(Alphabet)
    BY <1>7 DEF o
  <2> QED BY <2>1, <2>2, <2>3, TwoMore, Zenon
<1> QED BY <1>8, <1>9, <1>10 DEF o, OutMoves

-----------------------------------------------------------------------------
(* Where a header begins, behind the end of the request line. *)

BeginsAt(B, end, s, n) ==
  /\ s \in (end + 1)..n /\ B[s - 1] = "LF" /\ B[s] \notin Whites
  /\ \A j \in (s + 1)..n : B[j - 1] = "LF" => B[j] \in Whites

\* A header begins behind a line end, with what is no blank,
LEMMA BeginsHere ==
  ASSUME NEW B, NEW end \in Nat, NEW n \in Nat, end <= n, B[n] = "LF", B[n + 1] \notin Whites
  PROVE  BeginsAt(B, end, n + 1, n + 1)
<1>1. n + 1 \in (end + 1)..(n + 1) /\ (n + 1) - 1 = n /\ (n + 1 + 1)..(n + 1) = {}
  OBVIOUS
<1> QED BY <1>1 DEF BeginsAt

\* and is the last that does until another one begins.
LEMMA BeginsStill ==
  ASSUME NEW B, NEW end \in Nat, NEW n \in Nat, NEW s, BeginsAt(B, end, s, n),
         B[n] # "LF" \/ B[n + 1] \in Whites
  PROVE  BeginsAt(B, end, s, n + 1)
<1>1. /\ s \in (end + 1)..n /\ B[s - 1] = "LF" /\ B[s] \notin Whites
      /\ \A j \in (s + 1)..n : B[j - 1] = "LF" => B[j] \in Whites
  BY DEF BeginsAt
<1>2. ASSUME NEW j \in (s + 1)..(n + 1), B[j - 1] = "LF" PROVE B[j] \in Whites
  <2>1. CASE j = n + 1
    <3>1. j - 1 = n
      BY <2>1
    <3> QED BY <1>2, <2>1, <3>1
  <2>2. CASE j # n + 1
    <3>1. j \in (s + 1)..n
      BY <1>1, <2>2
    <3> QED BY <1>1, <1>2, <3>1
  <2> QED BY <2>1, <2>2
<1>3. s \in (end + 1)..(n + 1)
  BY <1>1
<1> QED BY <1>1, <1>2, <1>3 DEF BeginsAt

\* There is one such place, so the header that begins there is the one that is meant.
LEMMA BeginsThere ==
  ASSUME NEW s, NEW n \in Nat, LineEnd(0) \in Nat, BeginsAt(sent.bytes, LineEnd(0), s, n)
  PROVE  HeaderStart(n) = s
<1> DEFINE B == sent.bytes
           e == LineEnd(0)
           Is(i) == /\ B[i - 1] = "LF" /\ B[i] \notin Whites
                    /\ \A j \in (i + 1)..n : B[j - 1] = "LF" => B[j] \in Whites
<1>1. s \in (e + 1)..n /\ Is(s)
  BY DEF BeginsAt
<1>2. ASSUME NEW i \in (e + 1)..n, Is(i), i # s PROVE FALSE
  <2>0. s \in Nat /\ i \in Nat
    BY <1>1
  <2>1. CASE i < s
    <3>1. s \in (i + 1)..n
      BY <1>1, <2>0, <2>1
    <3> QED BY <1>1, <1>2, <3>1
  <2>2. CASE i > s
    <3>1. i \in (s + 1)..n
      BY <1>1, <2>0, <2>2
    <3> QED BY <1>1, <1>2, <3>1
  <2> QED BY <1>2, <2>0, <2>1, <2>2
<1>3. HeaderStart(n) = CHOOSE i \in (e + 1)..n : Is(i)
  BY DEF HeaderStart
<1> HIDE DEF Is, e, B
<1> QED BY <1>1, <1>2, <1>3

-----------------------------------------------------------------------------
(* The header that is being read, and what was sent for it. *)

\* Its key begins at s and has no colon before the q-th character.
Keyed(B, end, s, q, n) ==
  /\ BeginsAt(B, end, s, n) /\ q \in s..n
  /\ \A j \in s..(q - 1) : B[j] # ":"

InKey(h, B, end, n) ==
  \E s \in Nat : /\ Keyed(B, end, s, n, n) /\ B[n] # ":"
                 /\ Spells(h.buf, h.left, Len(h.buf), Part(B, s - 1, n))

\* What is copied of its value.
Valued(h, B, q, n) ==
  /\ h.state \in EmptyStates =>
       Spells(h.buf, h.right, Len(h.buf), <<>>) /\ Out(B, q, n) = <<>>
  /\ h.state = "V" =>
       /\ Spells(h.buf, h.right, Len(h.buf), Out(B, q, n))
       /\ Out(B, q, n) # <<>> /\ B[n] \notin Whites
  /\ h.state \in BlankStates =>
       \E text \in Seq(Alphabet) :
         /\ Len(h.buf) > 0 /\ h.buf = Append(text, " ")
         /\ Spells(text, h.right, Len(text), Out(B, q, n))
         /\ Out(B, q, n) # <<>> /\ B[n] \in Whites

InValueOf(h, B, end, n) ==
  \E s \in Nat, q \in Nat :
    /\ Keyed(B, end, s, q, n) /\ B[q] = ":"
    /\ IsText(h.buf, h.left, h.right) /\ StringAt(h.buf, h.left) = Part(B, s - 1, q - 1)
    /\ Valued(h, B, q, n)

Reading(h, B, end, n) ==
  /\ h.state = "K" => InKey(h, B, end, n)
  /\ h.state \notin Idle \cup {"K"} => InValueOf(h, B, end, n)

\* A colon that is behind a key.
LEMMA ColonAt ==
  ASSUME NEW s \in Nat, NEW q \in Nat, NEW b \in Nat, s >= 1, s <= q, q <= b,
         NEW a \in Nat, NEW p \in Nat, NEW colon \in Nat,
         a = s - 1, p = q - 1, colon = (p - a) + 1
  PROVE  b \in a..b /\ colon \in 0..(b - a) /\ a + colon = q
OBVIOUS

\* The header that was sent, once its key is known.
LEMMA HeaderInIs ==
  ASSUME sent.bytes \in Seq(Alphabet), NEW n \in 0..Len(sent.bytes), LineEnd(0) \in Nat,
         NEW s \in Nat, NEW q \in Nat, Keyed(sent.bytes, LineEnd(0), s, q, n),
         sent.bytes[q] = ":"
  PROVE  HeaderIn(n) = [key |-> Part(sent.bytes, s - 1, q - 1), value |-> Out(sent.bytes, q, n)]
<1> DEFINE B == sent.bytes
<1>0. B \in Seq(Alphabet) /\ Len(B) \in Nat /\ n \in Nat /\ n <= Len(B)
  BY LenProperties
<1>1. HeaderStart(n) = s
  BY <1>0, BeginsThere DEF Keyed
<1>2. s \in 1..n /\ q \in s..n /\ B[q] = ":" /\ \A j \in s..(q - 1) : B[j] # ":"
  BY <1>0 DEF Keyed, BeginsAt
<1> HIDE DEF B
<1>3. PICK b \in Nat : b = Len(B)
  BY <1>0
<1>4. PICK a \in Nat : a = s - 1
  BY <1>2
<1>5. PICK p \in Nat : p = q - 1
  BY <1>2
<1> DEFINE text == Rest(B, a)
           key == Before(text, {":"})
<1>6. text = Part(B, a, b)
  BY <1>3 DEF Rest, Part
<1>7. key = Part(B, a, p)
  <2>1. b \in a..Len(B) /\ p \in a..b /\ p + 1 = q
    BY <1>0, <1>2, <1>3, <1>4, <1>5
  <2>2. \A j \in (a + 1)..p : B[j] \notin {":"}
    BY <1>2, <1>4, <1>5
  <2>3. p = b \/ B[p + 1] \in {":"}
    BY <1>2, <2>1
  <2> HIDE DEF text
  <2>4. Before(Part(B, a, b), {":"}) = Part(B, a, p)
    BY <1>0, <2>1, <2>2, <2>3, BeforeInPart
  <2> QED BY <1>6, <2>4
<1>8. Len(key) = p - a
  <2>1. p \in a..Len(B)
    BY <1>0, <1>2, <1>4, <1>5
  <2> HIDE DEF key
  <2> QED BY <1>0, <1>7, <2>1, PartIs
<1>9. PICK colon \in Nat : colon = Len(key) + 1
  BY <1>2, <1>4, <1>5, <1>8
<1>10. Rest(text, colon) = Rest(B, q)
  <2> HIDE DEF text, key
  <2>1. b \in a..Len(B) /\ colon \in 0..(b - a) /\ a + colon = q
    <3>1. s >= 1 /\ s <= q /\ q <= b
      BY <1>0, <1>2, <1>3
    <3>2. a = s - 1 /\ p = q - 1 /\ colon = (p - a) + 1
      BY <1>4, <1>5, <1>8, <1>9
    <3>3. b \in a..b /\ colon \in 0..(b - a) /\ a + colon = q
      BY <3>1, <3>2, ColonAt
    <3>4. a..b = a..Len(B)
      BY <1>3, Zenon
    <3> QED BY <3>3, <3>4, Zenon
  <2>2. Rest(Part(B, a, b), colon) = Part(B, a + colon, b)
    BY <1>0, <2>1, RestOfPart
  <2>3. Rest(B, q) = Part(B, q, b)
    BY <1>3 DEF Rest, Part
  <2> QED BY <1>6, <2>1, <2>2, <2>3
<1>11. n + 1 - s - colon = n - q
  <2> HIDE DEF key, text
  <2>1. s \in Nat /\ q \in Nat /\ s = a + 1 /\ q = p + 1 /\ colon = (p - a) + 1
    BY <1>2, <1>4, <1>5, <1>8, <1>9
  <2>2. n \in Nat
    BY <1>0
  <2> QED BY <2>1, <2>2
<1>12. HeaderIn(n) = [key |-> key, value |-> Squeezed(Rest(text, colon))[n + 1 - s - colon]]
  BY <1>1, <1>4, <1>9 DEF HeaderIn, B
<1> HIDE DEF key, text
<1>13. HeaderIn(n) = [key |-> Part(B, s - 1, q - 1), value |-> Out(B, q, n)]
  BY <1>4, <1>5, <1>7, <1>10, <1>11, <1>12 DEF Out
<1> QED BY <1>13 DEF B

-----------------------------------------------------------------------------
(* What one character does to the text. *)

\* What a row writes before it cuts,
LEMMA TextBeforeCut ==
  ASSUME NEW h \in Record, NEW row
  PROVE  BeforeCut(h, row).buf =
           LET s == IF "space" \in row.do THEN Append(h.buf, " ") ELSE h.buf
               b == IF "back" \in row.do THEN SubSeq(s, 1, Len(s) - 1) ELSE s
           IN  IF "zero" \in row.do THEN Append(b, "NUL") ELSE b
<1> DEFINE s == Spaced(h, row)
           b == Back(s, row)
           z == EndOfString(b, row)
           t == IF "space" \in row.do THEN Append(h.buf, " ") ELSE h.buf
           u == IF "back" \in row.do THEN SubSeq(t, 1, Len(t) - 1) ELSE t
<1>1. s.buf = t /\ s = [h EXCEPT !.buf = t]
  BY DEF Spaced, Record
<1> HIDE DEF s, t
<1>2. b = [h EXCEPT !.buf = u] /\ b.buf = u
  BY <1>1 DEF Back, Record
<1> HIDE DEF b, u
<1>3. z.buf = IF "zero" \in row.do THEN Append(u, "NUL") ELSE u
  BY <1>2 DEF EndOfString, Record
<1>4. z = BeforeCut(h, row)
  BY DEF BeforeCut, z, b, s
<1> HIDE DEF z
<1> QED BY <1>3, <1>4 DEF t, u

\* and behind that.
LEMMA TextAfterCut ==
  ASSUME NEW h, NEW row, NEW c, NEW y \in Record, y = CutIf(BeforeCut(h, row), row)
  PROVE  HeaderStep(h, row, c).buf = IF "print" \in row.do THEN Append(y.buf, c) ELSE y.buf
<1> DEFINE a == Marked(y, row)
           p == Copied(a, row, c)
           left == IF "key" \in row.do THEN Len(y.buf) ELSE y.left
           right == IF "value" \in row.do THEN Len(y.buf) ELSE y.right
           text == IF "print" \in row.do THEN Append(y.buf, c) ELSE y.buf
<1>1. a = [y EXCEPT !.left = left, !.right = right]
  BY DEF Marked
<1> HIDE DEF left, right
<1>2. a.buf = y.buf /\ a = [state |-> y.state, buf |-> y.buf, list |-> y.list, map |-> y.map,
                            left |-> left, right |-> right]
  BY <1>1 DEF Record
<1> HIDE DEF a
<1>3. p.buf = text /\ p = [state |-> y.state, buf |-> text, list |-> y.list, map |-> y.map,
                            left |-> left, right |-> right]
  BY <1>2 DEF Copied
<1> HIDE DEF p, text
<1>4. [p EXCEPT !.state = row.to].buf = text
  BY <1>3
<1>5. HeaderStep(h, row, c) = [p EXCEPT !.state = row.to]
  BY DEF HeaderStep, AfterCut, p, a
<1> QED BY <1>4, <1>5 DEF text

\* What a step does that completes no header, told by what its row does.
Does(h, row, c, x) ==
  /\ x \in Record /\ x.state = row.to /\ x.list = h.list /\ x.map = h.map
  /\ row.do = {} => x.buf = h.buf /\ x.left = h.left /\ x.right = h.right
  /\ row.do = {"print"} => x.buf = Append(h.buf, c) /\ x.left = h.left /\ x.right = h.right
  /\ row.do = {"key", "print"} => x.buf = Append(h.buf, c) /\ x.left = Len(h.buf)
  /\ row.do = {"zero", "value"} =>
       x.buf = Append(h.buf, "NUL") /\ x.left = h.left /\ x.right = Len(h.buf) + 1
  /\ row.do = {"space"} => x.buf = Append(h.buf, " ") /\ x.left = h.left /\ x.right = h.right

\* What a row does that does not cut.
LEMMA PlainStep ==
  ASSUME NEW h \in Record, NEW row \in HeaderRows, "cut" \notin row.do, NEW c \in Alphabet,
         NEW x, x = HeaderStep(h, row, c)
  PROVE  Does(h, row, c, x)
<1>1. "back" \notin row.do
  BY RowKinds
<1>2. PICK y : y = BeforeCut(h, row)
  OBVIOUS
<1>3. /\ y \in Record /\ y.list = h.list /\ y.map = h.map /\ y.left = h.left /\ y.right = h.right
  BY <1>1, <1>2, BeforeCutIs
<1>4. y = CutIf(BeforeCut(h, row), row)
  BY <1>2 DEF CutIf
<1>5. /\ x \in Record /\ x.state = row.to /\ x.list = y.list /\ x.map = y.map
      /\ x.left = IF "key" \in row.do THEN Len(y.buf) ELSE y.left
      /\ x.right = IF "value" \in row.do THEN Len(y.buf) ELSE y.right
  BY <1>3, <1>4, AfterCutIs
<1>6. x.buf = IF "print" \in row.do THEN Append(y.buf, c) ELSE y.buf
  BY <1>3, <1>4, TextAfterCut
<1>7. y.buf = LET s == IF "space" \in row.do THEN Append(h.buf, " ") ELSE h.buf
              IN  IF "zero" \in row.do THEN Append(s, "NUL") ELSE s
  BY <1>1, <1>2, TextBeforeCut
<1>8. CASE row.do = {}
  BY <1>3, <1>5, <1>6, <1>7, <1>8 DEF Does
<1>9. CASE row.do = {"print"}
  BY <1>3, <1>5, <1>6, <1>7, <1>9 DEF Does
<1>10. CASE row.do = {"key", "print"}
  BY <1>3, <1>5, <1>6, <1>7, <1>10 DEF Does
<1>11. CASE row.do = {"zero", "value"}
  <2>1. y.buf = Append(h.buf, "NUL")
    BY <1>7, <1>11
  <2>2. Len(y.buf) = Len(h.buf) + 1
    <3>1. "NUL" \in Alphabet /\ h.buf \in Seq(Alphabet)
      BY DEF Alphabet, Record
    <3> QED BY <2>1, <3>1, AppendProperties
  <2> QED BY <1>3, <1>5, <1>6, <1>11, <2>1, <2>2 DEF Does
<1>12. CASE row.do = {"space"}
  BY <1>3, <1>5, <1>6, <1>7, <1>12 DEF Does
<1>13. \/ row.do = {} \/ row.do = {"print"} \/ row.do = {"key", "print"}
       \/ row.do = {"zero", "value"} \/ row.do = {"space"}
  BY RowKinds
<1> QED BY <1>8, <1>9, <1>10, <1>11, <1>12, <1>13

\* A part that is one character longer.
LEMMA PartMore ==
  ASSUME NEW B \in Seq(Alphabet), NEW a \in Nat, NEW n \in a..Len(B), n < Len(B)
  PROVE  Part(B, a, n + 1) = Append(Part(B, a, n), B[n + 1])
<1> DEFINE p == Part(B, a, n)
           u == Append(p, B[n + 1])
<1>0. Len(B) \in Nat
  BY LenProperties
<1>1. p \in Seq(Alphabet) /\ Len(p) = n - a /\ \A i \in 1..(n - a) : p[i] = B[a + i]
  BY PartIs
<1>2. B[n + 1] \in Alphabet
  <2>1. n + 1 \in 1..Len(B)
    BY <1>0
  <2> QED BY <2>1, ElementOfSeq
<1> HIDE DEF p
<1>3. /\ u \in Seq(Alphabet) /\ Len(u) = Len(p) + 1 /\ u[Len(p) + 1] = B[n + 1]
      /\ \A i \in 1..Len(p) : u[i] = p[i]
  BY <1>1, <1>2, AppendProperties
<1> HIDE DEF u
<1>4. \A i \in 1..((n + 1) - a) : u[i] = B[a + i]
  <2> TAKE i \in 1..((n + 1) - a)
  <2>1. CASE i \in 1..(n - a)
    BY <1>1, <1>3, <2>1
  <2>2. CASE i \notin 1..(n - a)
    <3>1. i = Len(p) + 1 /\ a + i = n + 1
      BY <1>0, <1>1, <2>2
    <3> QED BY <1>3, <3>1
  <2> QED BY <2>1, <2>2
<1>5. n + 1 \in a..Len(B) /\ Len(u) = (n + 1) - a
  BY <1>0, <1>1, <1>3
<1>6. u = Part(B, a, n + 1)
  BY <1>3, <1>4, <1>5, PartEqual
<1> QED BY <1>6 DEF u, p

\* Headers that are read up to the n-th character.
Follow(h, B, end, n) ==
  /\ h \in Record /\ Pending(h) /\ B \in Seq(Alphabet) /\ end \in Nat /\ n \in Nat /\ Len(B) \in Nat
  /\ end <= n /\ n < Len(B)
  /\ h.state \in {"START", "V1?", "V2?"} => B[n] = "LF"
  /\ h.state \in {"K", "V1", "V", "V2", "V1??", "V2??"} => B[n] # "LF"
  /\ Reading(h, B, end, n)

Stepped(h, row, c, x, B, end, n) ==
  /\ Follow(h, B, end, n) /\ row \in HeaderRows /\ row.from = h.state
  /\ HeaderClass(c) \in row.on /\ c = B[n + 1] /\ c \in Alphabet /\ c # "NUL"
  /\ x = HeaderStep(h, row, c)

\* What is known of a step.
LEMMA SteppedIs ==
  ASSUME NEW h, NEW row, NEW c, NEW x, NEW B, NEW end, NEW n, Stepped(h, row, c, x, B, end, n)
  PROVE  /\ h \in Record /\ h.buf \in Seq(Alphabet) /\ Len(h.buf) \in Nat /\ h.left \in Nat /\ h.right \in Nat
         /\ Pending(h) /\ B \in Seq(Alphabet) /\ end \in Nat /\ n \in Nat /\ Len(B) \in Nat
         /\ end <= n /\ n < Len(B) /\ row \in HeaderRows /\ row.from = h.state
         /\ HeaderClass(c) \in row.on /\ c = B[n + 1] /\ c \in Alphabet /\ c # "NUL"
         /\ x = HeaderStep(h, row, c) /\ Reading(h, B, end, n)
BY LenProperties DEF Stepped, Follow, Record

\* Where a header begins stays the same while it is read.
LEMMA KeyedStays ==
  ASSUME NEW B, NEW end \in Nat, NEW s \in Nat, NEW q \in Nat, NEW n \in Nat,
         Keyed(B, end, s, q, n), B[n] # "LF" \/ B[n + 1] \in Whites
  PROVE  Keyed(B, end, s, q, n + 1)
<1>1. BeginsAt(B, end, s, n + 1)
  BY BeginsStill DEF Keyed
<1>2. q \in s..(n + 1) /\ \A j \in s..(q - 1) : B[j] # ":"
  BY DEF Keyed
<1> QED BY <1>1, <1>2 DEF Keyed

\* A key is one character longer.
LEMMA KeyedMore ==
  ASSUME NEW B, NEW end \in Nat, NEW s \in Nat, NEW n \in Nat,
         Keyed(B, end, s, n, n), B[n] # ":", B[n] # "LF"
  PROVE  Keyed(B, end, s, n + 1, n + 1)
<1>1. BeginsAt(B, end, s, n + 1)
  BY BeginsStill DEF Keyed
<1>2. s <= n /\ \A j \in s..(n - 1) : B[j] # ":"
  BY DEF Keyed
<1>3. ASSUME NEW j \in s..((n + 1) - 1) PROVE B[j] # ":"
  <2>1. j \in s..(n - 1) \/ j = n
    OBVIOUS
  <2> QED BY <1>2, <2>1
<1>4. n + 1 \in s..(n + 1)
  BY <1>2
<1> QED BY <1>1, <1>3, <1>4 DEF Keyed

\* The first character of a key.
LEMMA FirstOfKey ==
  ASSUME NEW buf \in Seq(Alphabet), NEW x, NEW B \in Seq(Alphabet), NEW end \in Nat, NEW n \in Nat,
         end <= n, n < Len(B), NEW c \in Alphabet, c = B[n + 1], c # "NUL", c \notin Whites, c # ":",
         B[n] = "LF", x.buf = Append(buf, c), x.left = Len(buf)
  PROVE  InKey(x, B, end, n + 1)
<1>0. Len(buf) \in Nat /\ Len(B) \in Nat
  BY LenProperties
<1>5. BeginsAt(B, end, n + 1, n + 1)
  BY <1>0, BeginsHere
<1>6. Keyed(B, end, n + 1, n + 1, n + 1)
  BY <1>0, <1>5 DEF Keyed
<1>7. Spells(x.buf, x.left, Len(x.buf), Part(B, n, n + 1))
  <2>1. Spells(buf, x.left, Len(buf), <<>>)
    BY <1>0, SpellsNothing
  <2>2. <<>> \in Seq(Alphabet) /\ x.left \in Nat
    BY <1>0
  <2>3. Spells(x.buf, x.left, Len(x.buf), Append(<<>>, c))
    BY <1>0, <2>1, <2>2, SpellsMore
  <2>4. Part(B, n, n + 1) = Append(Part(B, n, n), B[n + 1])
    <3>1. n \in n..Len(B)
      BY <1>0
    <3> QED BY <1>0, <3>1, PartMore
  <2>5. Part(B, n, n) = <<>>
    <3>1. n \in n..Len(B) /\ n - n = 0
      BY <1>0
    <3>2. Part(B, n, n) \in Seq(Alphabet) /\ Len(Part(B, n, n)) = 0
      BY <1>0, <3>1, PartIs
    <3> QED BY <1>0, <3>2, EmptySeq
  <2> QED BY <1>0, <2>3, <2>4, <2>5
<1> QED
  <2>1. (n + 1) - 1 = n /\ n + 1 \in Nat
    BY <1>0
  <2> QED BY <1>0, <1>6, <1>7, <2>1 DEF InKey

\* A key begins,
LEMMA KeyBegins ==
  ASSUME NEW h, NEW row, NEW c, NEW x, NEW B, NEW end, NEW n, Stepped(h, row, c, x, B, end, n),
         row.do = {"key", "print"}
  PROVE  Reading(x, B, end, n + 1)
<1>0. /\ h \in Record /\ h.buf \in Seq(Alphabet) /\ Len(h.buf) \in Nat /\ h.left \in Nat
      /\ h.right \in Nat /\ B \in Seq(Alphabet) /\ end \in Nat /\ n \in Nat /\ Len(B) \in Nat
      /\ end <= n /\ n < Len(B) /\ row \in HeaderRows /\ row.from = h.state
      /\ HeaderClass(c) \in row.on /\ c = B[n + 1] /\ c \in Alphabet /\ c # "NUL"
      /\ x = HeaderStep(h, row, c)
  BY SteppedIs
<1>r. row \in HeaderRows
  BY <1>0
<1>k. "cut" \notin row.do
  OBVIOUS
<1>1. row.from = "START" /\ row.to = "K"
  BY <1>r, RowKinds
<1>2. x.state = "K" /\ x.buf = Append(h.buf, c) /\ x.left = Len(h.buf)
  <2>1. Does(h, row, c, x)
    BY <1>0, <1>k, PlainStep, Zenon
  <2> QED BY <1>1, <2>1 DEF Does
<1>3. c \notin Whites /\ c # ":"
  BY <1>0, RowCharacters
<1>4. B[n] = "LF"
  BY <1>0, <1>1 DEF Stepped, Follow
<1>5. InKey(x, B, end, n + 1)
  BY <1>0, <1>2, <1>3, <1>4, FirstOfKey
<1> QED BY <1>2, <1>5 DEF Reading

\* and goes on.
LEMMA KeyGoesOn ==
  ASSUME NEW h, NEW row, NEW c, NEW x, NEW B, NEW end, NEW n, Stepped(h, row, c, x, B, end, n),
         row.do = {"print"}, row.from = "K"
  PROVE  Reading(x, B, end, n + 1)
<1>0. /\ h \in Record /\ h.buf \in Seq(Alphabet) /\ Len(h.buf) \in Nat /\ h.left \in Nat
      /\ h.right \in Nat /\ B \in Seq(Alphabet) /\ end \in Nat /\ n \in Nat /\ Len(B) \in Nat
      /\ end <= n /\ n < Len(B) /\ row \in HeaderRows /\ row.from = h.state
      /\ HeaderClass(c) \in row.on /\ c = B[n + 1] /\ c \in Alphabet /\ c # "NUL"
      /\ x = HeaderStep(h, row, c)
  BY SteppedIs
<1>r. row \in HeaderRows
  BY <1>0
<1>k. "cut" \notin row.do
  OBVIOUS
<1>1. row.to = "K"
  BY <1>r, RowKinds
<1>2. x.state = "K" /\ x.buf = Append(h.buf, c) /\ x.left = h.left
  <2>1. Does(h, row, c, x)
    BY <1>0, <1>k, PlainStep, Zenon
  <2> QED BY <1>1, <2>1 DEF Does
<1>3. c # ":"
  BY <1>0, RowCharacters
<1>4. B[n] # "LF" /\ InKey(h, B, end, n)
  BY <1>0 DEF Stepped, Follow, Reading
<1>5. PICK s \in Nat : /\ Keyed(B, end, s, n, n) /\ B[n] # ":"
                       /\ Spells(h.buf, h.left, Len(h.buf), Part(B, s - 1, n))
  BY <1>0, <1>4 DEF InKey
<1>6. Keyed(B, end, s, n + 1, n + 1)
  BY <1>0, <1>4, <1>5, KeyedMore
<1>7. PICK a \in Nat : a = s - 1 /\ n \in a..Len(B)
  BY <1>0, <1>5 DEF Keyed, BeginsAt
<1>8. Part(B, a, n) \in Seq(Alphabet) /\ Part(B, a, n + 1) = Append(Part(B, a, n), c)
  BY <1>0, <1>7, PartIs, PartMore
<1>9. Spells(x.buf, x.left, Len(x.buf), Part(B, s - 1, n + 1))
  <2>1. Spells(h.buf, h.left, Len(h.buf), Part(B, a, n))
    BY <1>0, <1>5, <1>7
  <2>2. Spells(x.buf, h.left, Len(x.buf), Append(Part(B, a, n), c))
    BY <1>0, <1>2, <1>8, <2>1, SpellsMore
  <2> QED BY <1>0, <1>2, <1>7, <1>8, <2>2
<1>10. InKey(x, B, end, n + 1)
  BY <1>0, <1>3, <1>6, <1>9 DEF InKey
<1> QED BY <1>0, <1>2, <1>10 DEF Reading

\* The colon.
LEMMA ValueBegins ==
  ASSUME NEW h, NEW row, NEW c, NEW x, NEW B, NEW end, NEW n, Stepped(h, row, c, x, B, end, n),
         row.do = {"zero", "value"}
  PROVE  Reading(x, B, end, n + 1)
<1>0. /\ h \in Record /\ h.buf \in Seq(Alphabet) /\ Len(h.buf) \in Nat /\ h.left \in Nat
      /\ h.right \in Nat /\ B \in Seq(Alphabet) /\ end \in Nat /\ n \in Nat /\ Len(B) \in Nat
      /\ end <= n /\ n < Len(B) /\ row \in HeaderRows /\ row.from = h.state
      /\ HeaderClass(c) \in row.on /\ c = B[n + 1] /\ c \in Alphabet /\ c # "NUL"
      /\ x = HeaderStep(h, row, c)
  BY SteppedIs
<1>r. row \in HeaderRows
  BY <1>0
<1>k. "cut" \notin row.do
  OBVIOUS
<1>1. row.from = "K" /\ row.to = "V1"
  BY <1>r, RowKinds
<1>2. /\ x.state = "V1" /\ x.buf = Append(h.buf, "NUL") /\ x.left = h.left
      /\ x.right = Len(h.buf) + 1
  <2>1. Does(h, row, c, x)
    BY <1>0, <1>k, PlainStep, Zenon
  <2> QED BY <1>1, <2>1 DEF Does
<1>3. c = ":"
  BY <1>0, RowCharacters
<1>4. B[n] # "LF" /\ InKey(h, B, end, n)
  BY <1>0, <1>1 DEF Stepped, Follow, Reading
<1>5. PICK s \in Nat : /\ Keyed(B, end, s, n, n) /\ B[n] # ":"
                       /\ Spells(h.buf, h.left, Len(h.buf), Part(B, s - 1, n))
  BY <1>4 DEF InKey
<1>6. Keyed(B, end, s, n + 1, n + 1)
  BY <1>0, <1>4, <1>5, KeyedMore
<1>7. PICK len \in Nat : len = Len(h.buf)
  BY <1>0
<1>8. "NUL" \in Alphabet
  BY DEF Alphabet
<1>9. /\ x.buf \in Seq(Alphabet) /\ Len(x.buf) = len + 1 /\ x.buf[len + 1] = "NUL"
  BY <1>0, <1>2, <1>7, <1>8, AppendProperties
<1>10. Kept(h.buf, x.buf, len)
  BY <1>0, <1>2, <1>7, <1>8, AppendKeeps
<1>11. Spells(x.buf, h.left, len, Part(B, s - 1, n))
  BY <1>0, <1>5, <1>7, <1>9, <1>10, SpellsStays
<1>12. IsText(x.buf, x.left, x.right) /\ StringAt(x.buf, x.left) = Part(B, s - 1, n)
  <2>1. PICK e \in Nat : e = len + 1
    OBVIOUS
  <2>2. e <= Len(x.buf) /\ x.buf[e] = "NUL"
    BY <1>9, <2>1
  <2>3. IsText(x.buf, h.left, e) /\ StringAt(x.buf, h.left) = Part(B, s - 1, n)
    BY <1>0, <1>9, <1>11, <2>1, <2>2, SpellsEnds
  <2> QED BY <1>2, <1>7, <2>1, <2>3
<1>13. Spells(x.buf, x.right, Len(x.buf), <<>>)
  <2>1. x.right \in Nat /\ x.right = Len(x.buf)
    BY <1>2, <1>7, <1>9
  <2> QED BY <1>9, <2>1, SpellsNothing
<1>14. Out(B, n + 1, n + 1) = <<>>
  BY <1>0, OutIs
<1>15. Valued(x, B, n + 1, n + 1)
  <2>1. x.state \in EmptyStates /\ x.state \notin BlankStates /\ x.state # "V"
    BY <1>2 DEF EmptyStates, BlankStates
  <2> QED BY <1>13, <1>14, <2>1 DEF Valued
<1>16. InValueOf(x, B, end, n + 1)
  <2>1. n + 1 \in Nat /\ (n + 1) - 1 = n
    BY <1>0
  <2>2. StringAt(x.buf, x.left) = Part(B, s - 1, (n + 1) - 1)
    BY <1>12, <2>1
  <2>3. B[n + 1] = ":"
    BY <1>0, <1>3
  <2> QED BY <1>6, <1>12, <1>15, <2>1, <2>2, <2>3 DEF InValueOf
<1> QED BY <1>2, <1>16 DEF Reading

\* Where a value and its header are, when the key has been read.
LEMMA ValueOf ==
  ASSUME NEW h, NEW row, NEW c, NEW x, NEW B, NEW end, NEW n, Stepped(h, row, c, x, B, end, n),
         h.state \notin Idle \cup {"K"},
         NEW t \in Seq(Alphabet), Kept(h.buf, t, h.right)
  PROVE  \E s \in Nat, q \in Nat :
           /\ Keyed(B, end, s, q, n) /\ B[q] = ":" /\ q \in 0..Len(B) /\ n \in q..Len(B)
           /\ IsText(t, h.left, h.right) /\ StringAt(t, h.left) = Part(B, s - 1, q - 1)
           /\ Valued(h, B, q, n)
<1>0. /\ h \in Record /\ h.buf \in Seq(Alphabet) /\ Len(h.buf) \in Nat /\ h.left \in Nat
      /\ h.right \in Nat /\ B \in Seq(Alphabet) /\ end \in Nat /\ n \in Nat /\ Len(B) \in Nat
      /\ end <= n /\ n < Len(B) /\ row \in HeaderRows /\ row.from = h.state
      /\ HeaderClass(c) \in row.on /\ c = B[n + 1] /\ c \in Alphabet /\ c # "NUL"
      /\ x = HeaderStep(h, row, c)
  BY SteppedIs
<1>r. row \in HeaderRows
  BY <1>0
<1>1. InValueOf(h, B, end, n)
  BY DEF Stepped, Follow, Reading
<1>2. PICK s \in Nat, q \in Nat :
        /\ Keyed(B, end, s, q, n) /\ B[q] = ":"
        /\ IsText(h.buf, h.left, h.right) /\ StringAt(h.buf, h.left) = Part(B, s - 1, q - 1)
        /\ Valued(h, B, q, n)
  BY <1>1 DEF InValueOf
<1>3. q \in 0..Len(B) /\ n \in q..Len(B)
  BY <1>0, <1>2 DEF Keyed
<1>4. IsText(t, h.left, h.right) /\ StringAt(t, h.left) = StringAt(h.buf, h.left)
  BY <1>0, <1>2, TextStays, SMTT(30)
<1> QED BY <1>2, <1>3, <1>4

\* A blank, which is not copied or made a space.
LEMMA BlankPassed ==
  ASSUME NEW h, NEW row, NEW c, NEW x, NEW B, NEW end, NEW n, Stepped(h, row, c, x, B, end, n),
         row.do = {} \/ row.do = {"space"}
  PROVE  Reading(x, B, end, n + 1)
<1>0. /\ h \in Record /\ h.buf \in Seq(Alphabet) /\ Len(h.buf) \in Nat /\ h.left \in Nat
      /\ h.right \in Nat /\ B \in Seq(Alphabet) /\ end \in Nat /\ n \in Nat /\ Len(B) \in Nat
      /\ end <= n /\ n < Len(B) /\ row \in HeaderRows /\ row.from = h.state
      /\ HeaderClass(c) \in row.on /\ c = B[n + 1] /\ c \in Alphabet /\ c # "NUL"
      /\ x = HeaderStep(h, row, c)
  BY SteppedIs
<1>r. row \in HeaderRows
  BY <1>0
<1>k. "cut" \notin row.do
  OBVIOUS
<1>1. Does(h, row, c, x)
  BY <1>0, <1>k, PlainStep, Zenon
<1>2. x.state = row.to
  BY <1>1 DEF Does
<1>3. CASE row.from \in Idle
  <2>1. row.to \in Idle
    BY <1>r, <1>3, RowKinds DEF Idle, EmptyStates, BlankStates
  <2> QED BY <1>2, <2>1 DEF Reading, Idle
<1>4. CASE row.from \notin Idle
  <2>1. c \in Whites
    BY <1>0, <1>4, RowCharacters
  <2>2. \/ row.do = {} /\ row.from \in EmptyStates /\ row.to \in EmptyStates
        \/ row.do = {} /\ row.from \in BlankStates /\ row.to \in BlankStates
        \/ row.do = {"space"} /\ row.from = "V" /\ row.to \in BlankStates
    BY <1>r, <1>4, RowKinds
  <2>3. /\ x.left = h.left /\ x.right = h.right
        /\ row.do = {} => x.buf = h.buf
        /\ row.do = {"space"} => x.buf = Append(h.buf, " ")
    BY <1>1 DEF Does
  <2>4. h.state \notin Idle \cup {"K"}
    BY <1>0, <2>2 DEF Idle, EmptyStates, BlankStates
  <2>5. h.right <= Len(h.buf)
    <3>1. Pending(h)
      BY DEF Stepped, Follow
    <3> QED BY <1>0, <2>2, <3>1 DEF Pending, EmptyStates, BlankStates
  <2>6. " " \in Alphabet
    BY DEF Alphabet
  <2>s. Append(h.buf, " ") \in Seq(Alphabet) /\ Len(Append(h.buf, " ")) > 0
    <3>1. h.buf \in Seq(Alphabet)
      BY <1>0
    <3> QED BY <2>6, <3>1, OneMore, Zenon
  <2>7. x.buf \in Seq(Alphabet) /\ Kept(h.buf, x.buf, h.right)
    <3>1. CASE row.do = {}
      BY <1>0, <2>3, <2>5, <3>1 DEF Kept
    <3>2. CASE row.do = {"space"}
      <4>1. x.buf \in Seq(Alphabet) /\ Kept(h.buf, x.buf, Len(h.buf))
        <5>2. Kept(h.buf, Append(h.buf, " "), Len(h.buf))
          BY <1>0, <2>6, AppendKeeps, Zenon
        <5> QED BY <2>3, <2>s, <3>2, <5>2, Zenon
      <4>2. Len(x.buf) \in Nat
        BY <4>1, LenProperties
      <4> QED BY <1>0, <2>5, <4>1, <4>2, KeptLess
    <3> QED BY <3>1, <3>2
  <2>8. PICK s \in Nat, q \in Nat :
           /\ Keyed(B, end, s, q, n) /\ B[q] = ":" /\ q \in 0..Len(B) /\ n \in q..Len(B)
           /\ IsText(x.buf, h.left, h.right) /\ StringAt(x.buf, h.left) = Part(B, s - 1, q - 1)
           /\ Valued(h, B, q, n)
    BY <2>4, <2>7, ValueOf
  <2>9. Keyed(B, end, s, q, n + 1)
    BY <1>0, <2>1, <2>8, KeyedStays
  <2>10. Out(B, q, n + 1) = Out(B, q, n)
    <3>1. OutMoves(B, q, n, c)
      BY <1>0, <2>8, OutGoesOn
    <3> QED BY <2>1, <3>1 DEF OutMoves
  <2>11. Valued(x, B, q, n + 1)
    <3>1. CASE row.do = {} /\ row.from \in EmptyStates /\ row.to \in EmptyStates
      BY <1>0, <1>2, <2>3, <2>8, <2>10, <3>1 DEF Valued, EmptyStates, BlankStates
    <3>2. CASE row.do = {} /\ row.from \in BlankStates /\ row.to \in BlankStates
      BY <1>0, <1>2, <2>1, <2>3, <2>8, <2>10, <3>2 DEF Valued, EmptyStates, BlankStates
    <3>3. CASE row.do = {"space"} /\ row.from = "V" /\ row.to \in BlankStates
      <4>1. /\ Spells(h.buf, h.right, Len(h.buf), Out(B, q, n)) /\ Out(B, q, n) # <<>>
        BY <1>0, <2>8, <3>3 DEF Valued
      <4>2. x.buf = Append(h.buf, " ") /\ x.state \in BlankStates
        BY <1>2, <2>3, <3>3
      <4>3. Len(x.buf) > 0
        BY <2>s, <4>2
      <4>4. x.state \notin EmptyStates /\ x.state # "V"
        BY <4>2 DEF EmptyStates, BlankStates
      <4>5. B[n + 1] \in Whites
        BY <1>0, <2>1
      <4> QED BY <1>0, <2>3, <2>10, <4>1, <4>2, <4>3, <4>4, <4>5 DEF Valued
    <3> QED BY <2>2, <3>1, <3>2, <3>3
  <2>12. InValueOf(x, B, end, n + 1)
    BY <2>3, <2>8, <2>9, <2>11 DEF InValueOf
  <2>13. x.state # "K"
    BY <1>2, <2>2 DEF EmptyStates, BlankStates
  <2> QED BY <2>12, <2>13 DEF Reading
<1> QED BY <1>3, <1>4

\* A character of a value.
LEMMA ValueGoesOn ==
  ASSUME NEW h, NEW row, NEW c, NEW x, NEW B, NEW end, NEW n, Stepped(h, row, c, x, B, end, n),
         row.do = {"print"}, row.from # "K"
  PROVE  Reading(x, B, end, n + 1)
<1>0. /\ h \in Record /\ h.buf \in Seq(Alphabet) /\ Len(h.buf) \in Nat /\ h.left \in Nat
      /\ h.right \in Nat /\ B \in Seq(Alphabet) /\ end \in Nat /\ n \in Nat /\ Len(B) \in Nat
      /\ end <= n /\ n < Len(B) /\ row \in HeaderRows /\ row.from = h.state
      /\ HeaderClass(c) \in row.on /\ c = B[n + 1] /\ c \in Alphabet /\ c # "NUL"
      /\ x = HeaderStep(h, row, c)
  BY SteppedIs
<1>r. row \in HeaderRows
  BY <1>0
<1>k. "cut" \notin row.do
  OBVIOUS
<1>1. row.from \in {"V1", "V", "V2"} /\ row.to = "V"
  BY <1>r, RowKinds
<1>2. x.state = "V" /\ x.left = h.left /\ x.right = h.right /\ x.buf = Append(h.buf, c)
  <2>1. Does(h, row, c, x)
    BY <1>0, <1>k, PlainStep, Zenon
  <2> QED BY <1>1, <2>1 DEF Does
<1>3. c \notin Whites
  BY <1>0, RowCharacters
<1>4. h.state \notin Idle \cup {"K"} /\ B[n] # "LF"
  BY <1>0, <1>1 DEF Idle, Stepped, Follow
<1>5. h.right <= Len(h.buf)
  <2>1. Pending(h)
    BY DEF Stepped, Follow
  <2> QED BY <1>0, <1>1, <2>1 DEF Pending, EmptyStates, BlankStates
<1>6. x.buf \in Seq(Alphabet) /\ Kept(h.buf, x.buf, h.right)
  <2>1. x.buf \in Seq(Alphabet) /\ Kept(h.buf, x.buf, Len(h.buf))
    BY <1>0, <1>2, AppendProperties, AppendKeeps
  <2>2. Len(x.buf) \in Nat
    BY <2>1, LenProperties
  <2> QED BY <1>0, <1>5, <2>1, <2>2, KeptLess
<1>7. PICK s \in Nat, q \in Nat :
         /\ Keyed(B, end, s, q, n) /\ B[q] = ":" /\ q \in 0..Len(B) /\ n \in q..Len(B)
         /\ IsText(x.buf, h.left, h.right) /\ StringAt(x.buf, h.left) = Part(B, s - 1, q - 1)
         /\ Valued(h, B, q, n)
  BY <1>4, <1>6, ValueOf
<1>8. Keyed(B, end, s, q, n + 1)
  BY <1>0, <1>4, <1>7, KeyedStays
<1>9. Out(B, q, n) \in Seq(Alphabet)
  BY <1>0, <1>7, OutIs
<1>10. PICK out \in Seq(Alphabet) : out = Out(B, q, n)
  BY <1>9
<1>11. /\ out = <<>> \/ B[n] \notin Whites => Out(B, q, n + 1) = Append(out, c)
       /\ out # <<>> /\ B[n] \in Whites => Out(B, q, n + 1) = Append(Append(out, " "), c)
  <2>1. OutMoves(B, q, n, c)
    BY <1>0, <1>7, OutGoesOn
  <2> QED BY <1>3, <1>10, <2>1, Zenon DEF OutMoves
<1>12. Append(out, c) \in Seq(Alphabet) /\ Append(out, c) # <<>>
  BY <1>0, AppendProperties
<1>13. Spells(x.buf, x.right, Len(x.buf), Out(B, q, n + 1)) /\ Out(B, q, n + 1) # <<>>
  <2>1. CASE h.state \in EmptyStates
    <3>1. Spells(h.buf, h.right, Len(h.buf), out) /\ out = <<>>
      BY <1>7, <1>10, <2>1 DEF Valued
    <3>2. Spells(x.buf, x.right, Len(x.buf), Append(out, c))
      BY <1>0, <1>2, <3>1, SpellsMore
    <3> QED BY <1>11, <1>12, <3>1, <3>2
  <2>2. CASE h.state = "V"
    <3>1. Spells(h.buf, h.right, Len(h.buf), out) /\ B[n] \notin Whites
      BY <1>7, <1>10, <2>2 DEF Valued
    <3>2. Spells(x.buf, x.right, Len(x.buf), Append(out, c))
      BY <1>0, <1>2, <3>1, SpellsMore
    <3> QED BY <1>11, <1>12, <3>1, <3>2
  <2>3. CASE h.state \in BlankStates
    <3>1. PICK text \in Seq(Alphabet) :
            /\ h.buf = Append(text, " ") /\ Spells(text, h.right, Len(text), out)
            /\ out # <<>> /\ B[n] \in Whites
      BY <1>7, <1>10, <2>3 DEF Valued
    <3>2. " " \in Alphabet /\ " " # "NUL"
      BY DEF Alphabet
    <3>3. PICK more \in Seq(Alphabet) : more = Append(out, " ")
      BY <3>2, AppendProperties
    <3>4. Spells(h.buf, h.right, Len(h.buf), more)
      BY <1>0, <3>1, <3>2, <3>3, SpellsMore
    <3>5. Spells(x.buf, x.right, Len(x.buf), Append(more, c))
      BY <1>0, <1>2, <3>4, SpellsMore
    <3>6. Append(more, c) # <<>>
      BY <1>0
    <3> QED BY <1>11, <3>1, <3>3, <3>5, <3>6
  <2> QED BY <1>0, <1>1, <2>1, <2>2, <2>3 DEF EmptyStates, BlankStates
<1>14. Valued(x, B, q, n + 1)
  <2>1. x.state \notin EmptyStates /\ x.state \notin BlankStates
    BY <1>2 DEF EmptyStates, BlankStates
  <2>2. B[n + 1] \notin Whites
    BY <1>0, <1>3
  <2> QED BY <1>2, <1>13, <2>1, <2>2 DEF Valued
<1>15. InValueOf(x, B, end, n + 1)
  BY <1>2, <1>7, <1>8, <1>14 DEF InValueOf
<1> QED BY <1>2, <1>15 DEF Reading

-----------------------------------------------------------------------------
(* The end of a header. *)

\* A character that is appended and taken back.
LEMMA FrontIs ==
  ASSUME NEW s \in Seq(Alphabet), NEW c \in Alphabet, NEW t, t = Append(s, c)
  PROVE  SubSeq(t, 1, Len(t) - 1) = s /\ Kept(t, s, Len(s))
<1>0. Len(s) \in Nat
  BY LenProperties
<1>1. t \in Seq(Alphabet) /\ Len(t) = Len(s) + 1 /\ \A i \in 1..Len(s) : t[i] = s[i]
  BY AppendProperties
<1>2. PICK n \in 0..Len(t) : n = Len(s)
  BY <1>0, <1>1
<1>3. s = Part(t, 0, n)
  <2>1. 0 \in Nat /\ n \in 0..Len(t) /\ Len(s) = n - 0 /\ \A i \in 1..(n - 0) : s[i] = t[0 + i]
    BY <1>0, <1>1, <1>2
  <2> QED BY <1>1, <2>1, PartEqual
<1>4. Len(t) - 1 = n /\ 0 + 1 = 1
  BY <1>0, <1>1, <1>2
<1>5. SubSeq(t, 1, Len(t) - 1) = s
  <2>1. s = SubSeq(t, 0 + 1, n)
    BY <1>3 DEF Part
  <2> QED BY <1>4, <2>1
<1>6. Kept(t, s, Len(s))
  BY <1>0, <1>1 DEF Kept
<1> QED BY <1>5, <1>6

\* The text that is ended by the NUL of the value.
LEMMA CutText ==
  ASSUME NEW h, NEW row, NEW c, NEW x, NEW B, NEW end, NEW n, Stepped(h, row, c, x, B, end, n),
         "cut" \in row.do
  PROVE  \E base \in Seq(Alphabet) :
           /\ BeforeCut(h, row).buf = Append(base, "NUL") /\ Kept(h.buf, base, h.right)
           /\ \A q : Valued(h, B, q, n) => Spells(base, h.right, Len(base), Out(B, q, n))
<1>0. /\ h \in Record /\ h.buf \in Seq(Alphabet) /\ Len(h.buf) \in Nat /\ h.left \in Nat
      /\ h.right \in Nat /\ B \in Seq(Alphabet) /\ end \in Nat /\ n \in Nat /\ Len(B) \in Nat
      /\ end <= n /\ n < Len(B) /\ row \in HeaderRows /\ row.from = h.state
      /\ HeaderClass(c) \in row.on /\ c = B[n + 1] /\ c \in Alphabet /\ c # "NUL"
      /\ x = HeaderStep(h, row, c)
  BY SteppedIs
<1>r. row \in HeaderRows
  BY <1>0
<1>1. /\ "zero" \in row.do /\ "space" \notin row.do
      /\ \/ "back" \notin row.do /\ row.from = "V1?"
         \/ "back" \in row.do /\ row.from = "V2?"
  BY <1>r, RowKinds
<1>2. Pending(h)
  BY DEF Stepped, Follow
<1>3. BeforeCut(h, row).buf =
        Append(IF "back" \in row.do THEN SubSeq(h.buf, 1, Len(h.buf) - 1) ELSE h.buf, "NUL")
  BY <1>0, <1>1, TextBeforeCut
<1>4. InValueOf(h, B, end, n)
  BY <1>0, <1>1 DEF Stepped, Follow, Reading, Idle
<1>5. PICK s \in Nat, q \in Nat : Valued(h, B, q, n)
  BY <1>4 DEF InValueOf
<1>6. CASE "back" \notin row.do
  <2>1. h.state \in EmptyStates /\ h.right <= Len(h.buf)
    BY <1>0, <1>1, <1>2, <1>6 DEF EmptyStates, Pending
  <2>2. Kept(h.buf, h.buf, h.right)
    BY <1>0, <2>1 DEF Kept
  <2>3. ASSUME NEW p, Valued(h, B, p, n) PROVE Spells(h.buf, h.right, Len(h.buf), Out(B, p, n))
    BY <2>1, <2>3 DEF Valued
  <2> QED BY <1>0, <1>3, <1>6, <2>2, <2>3
<1>7. CASE "back" \in row.do
  <2>1. h.state \in BlankStates /\ h.right + 1 < Len(h.buf)
    BY <1>0, <1>1, <1>2, <1>7 DEF BlankStates, Pending
  <2>2. PICK text \in Seq(Alphabet) : h.buf = Append(text, " ")
    BY <1>5, <2>1 DEF Valued
  <2>3. " " \in Alphabet
    BY DEF Alphabet
  <2>4. SubSeq(h.buf, 1, Len(h.buf) - 1) = text /\ Kept(h.buf, text, Len(text))
    BY <2>2, <2>3, FrontIs, Zenon
  <2>5. Len(h.buf) = Len(text) + 1
    BY <2>2, <2>3, OneMore, Zenon
  <2>6. Len(text) \in Nat
    BY LenProperties
  <2>7. Kept(h.buf, text, h.right)
    <3>1. h.right <= Len(text)
      BY <1>0, <2>1, <2>5, <2>6
    <3> QED BY <1>0, <2>4, <2>6, <3>1, KeptLess
  <2>8. ASSUME NEW p, Valued(h, B, p, n) PROVE Spells(text, h.right, Len(text), Out(B, p, n))
    <3>1. PICK other \in Seq(Alphabet) :
            h.buf = Append(other, " ") /\ Spells(other, h.right, Len(other), Out(B, p, n))
      BY <2>1, <2>8 DEF Valued
    <3>2. SubSeq(h.buf, 1, Len(h.buf) - 1) = other
      BY <2>3, <3>1, FrontIs, Zenon
    <3> QED BY <2>4, <3>1, <3>2
  <2> QED BY <1>3, <1>7, <2>4, <2>7, <2>8
<1> QED BY <1>6, <1>7

\* A step that completes a header: the headers between the cut and what is copied next.
Completed(h, row, c, x, field, y) ==
  /\ y \in Record /\ ListFits(y.list, Len(y.buf)) /\ Listed(y, Len(y.buf))
  /\ Fields(y) = With(Fields(h), field)
  /\ x.state = row.to /\ x.list = y.list /\ x.map = y.map
  /\ x.left = IF "key" \in row.do THEN Len(y.buf) ELSE y.left
  /\ x.buf = IF "print" \in row.do THEN Append(y.buf, c) ELSE y.buf

\* The header that is cut is the one that was sent,
LEMMA CutStep ==
  ASSUME NEW h, NEW row, NEW c, NEW x, NEW B, NEW end, NEW n, Stepped(h, row, c, x, B, end, n),
         "cut" \in row.do, \A d \in h.map : d < Len(h.list),
         Len(h.list) < HeadersMax, HeadersMax \in Nat, Listed(h, h.left)
  PROVE  \E y : \E s \in Nat, q \in Nat :
           /\ Keyed(B, end, s, q, n) /\ B[q] = ":"
           /\ Completed(h, row, c, x, [key |-> Part(B, s - 1, q - 1), value |-> Out(B, q, n)], y)
<1>0. /\ h \in Record /\ h.buf \in Seq(Alphabet) /\ Len(h.buf) \in Nat /\ h.left \in Nat
      /\ h.right \in Nat /\ B \in Seq(Alphabet) /\ end \in Nat /\ n \in Nat /\ Len(B) \in Nat
      /\ end <= n /\ n < Len(B) /\ row \in HeaderRows /\ row.from = h.state
      /\ HeaderClass(c) \in row.on /\ c = B[n + 1] /\ c \in Alphabet /\ c # "NUL"
      /\ x = HeaderStep(h, row, c)
  BY SteppedIs
<1>r. row \in HeaderRows
  BY <1>0
<1>1. /\ row.from \in {"V1?", "V2?"}
      /\ "back" \in row.do => row.from = "V2?" /\ "space" \notin row.do
  BY <1>r, RowKinds
<1>2. /\ ListFits(h.list, h.left) /\ h.left + 2 <= h.right /\ h.right <= Len(h.buf)
      /\ "back" \in row.do => Len(h.buf) > 0
  <2>1. Pending(h)
    BY DEF Stepped, Follow
  <2> QED BY <1>0, <1>1, <2>1 DEF Pending, Idle, EmptyStates, BlankStates
<1>3. PICK z : z = BeforeCut(h, row)
  OBVIOUS
<1>4. /\ z \in Record /\ z.list = h.list /\ z.map = h.map /\ z.left = h.left /\ z.right = h.right
  BY <1>0, <1>1, <1>2, <1>3, BeforeCutIs
<1>5. PICK base \in Seq(Alphabet) :
        /\ z.buf = Append(base, "NUL") /\ Kept(h.buf, base, h.right)
        /\ \A q : Valued(h, B, q, n) => Spells(base, h.right, Len(base), Out(B, q, n))
  BY <1>3, CutText
<1>6. "NUL" \in Alphabet
  BY DEF Alphabet
<1>7. PICK len \in Nat : len = Len(base) /\ h.right <= len
  <2>1. Len(base) \in Nat
    BY LenProperties
  <2> QED BY <1>0, <1>5, <2>1 DEF Kept
<1>8. /\ z.buf \in Seq(Alphabet) /\ Len(z.buf) = len + 1 /\ z.buf[len + 1] = "NUL"
      /\ Kept(base, z.buf, len)
  BY <1>5, <1>6, <1>7, AppendProperties, AppendKeeps
<1>9. Kept(h.buf, z.buf, h.right)
  <2>1. Kept(base, z.buf, h.right)
    BY <1>0, <1>7, <1>8, KeptLess
  <2> QED BY <1>5, <2>1 DEF Kept
<1>10. h.state \notin Idle \cup {"K"}
  BY <1>0, <1>1 DEF Idle
<1>11. PICK s \in Nat, q \in Nat :
         /\ Keyed(B, end, s, q, n) /\ B[q] = ":" /\ q \in 0..Len(B) /\ n \in q..Len(B)
         /\ IsText(z.buf, h.left, h.right) /\ StringAt(z.buf, h.left) = Part(B, s - 1, q - 1)
         /\ Valued(h, B, q, n)
  BY <1>8, <1>9, <1>10, ValueOf
<1>12. Spells(z.buf, h.right, len, Out(B, q, n))
  <2>1. Spells(base, h.right, len, Out(B, q, n))
    BY <1>5, <1>7, <1>11
  <2> QED BY <1>0, <1>7, <1>8, <2>1, SpellsStays
<1>13. IsText(z.buf, h.right, Len(z.buf)) /\ StringAt(z.buf, h.right) = Out(B, q, n)
  <2>1. PICK e \in Nat : e = len + 1
    OBVIOUS
  <2>2. e = Len(z.buf) /\ z.buf[e] = "NUL" /\ e <= Len(z.buf)
    BY <1>8, <2>1
  <2>3. IsText(z.buf, h.right, e) /\ StringAt(z.buf, h.right) = Out(B, q, n)
    BY <1>0, <1>8, <1>12, <2>1, <2>2, SpellsEnds
  <2> QED BY <2>2, <2>3
<1>14. Listed(z, z.left) /\ Fields(z) = Fields(h)
  <2>1. /\ h.list \in Seq(Entry) /\ Strings(h.buf, h.list, h.left)
    BY <1>0 DEF Listed, Record
  <2>2. Kept(h.buf, z.buf, h.left)
    <3>1. h.left <= h.right /\ Len(z.buf) \in Nat
      BY <1>0, <1>2, <1>8
    <3> QED BY <1>0, <1>9, <3>1, KeptLess
  <2>3. Strings(z.buf, h.list, h.left) /\ FieldsOf(z.buf, h.list) = FieldsOf(h.buf, h.list)
    BY <1>0, <1>2, <1>8, <2>1, <2>2, FieldsStay
  <2>4. Fields(z) = Fields(h)
    BY <1>4, <2>3, FieldsAre
  <2> QED BY <1>4, <2>3, <2>4 DEF Listed
<1> DEFINE field == [key |-> Part(B, s - 1, q - 1), value |-> Out(B, q, n)]
<1>15. PICK y : y = Cut(z)
  OBVIOUS
<1>16. Fields(y) = With(Fields(h), field) /\ Listed(y, Len(y.buf))
  <2>1. field = [key |-> StringAt(z.buf, z.left), value |-> StringAt(z.buf, z.right)]
    BY <1>4, <1>11, <1>13
  <2>2. z.right < Len(z.buf) /\ z.left + 2 <= z.right /\ ListFits(z.list, z.left)
    BY <1>0, <1>2, <1>4, <1>7, <1>8
  <2>3. IsText(z.buf, z.left, z.right) /\ IsText(z.buf, z.right, Len(z.buf))
    BY <1>4, <1>11, <1>13
  <2> HIDE DEF field
  <2>4. Fields(y) = With(Fields(z), field) /\ Listed(y, Len(y.buf))
    BY <1>4, <1>14, <1>15, <2>1, <2>2, <2>3, CutReads
  <2> QED BY <1>14, <2>4
<1>17. y \in Record /\ ListFits(y.list, Len(y.buf))
  <2>1. /\ z.right < Len(z.buf) /\ z.left + 2 <= z.right /\ ListFits(z.list, z.left)
        /\ Len(z.list) < HeadersMax /\ \A d \in z.map : d < Len(z.list)
    BY <1>0, <1>2, <1>4, <1>7, <1>8
  <2> QED BY <1>4, <1>15, <2>1, CutKeeps
<1>18. y = CutIf(BeforeCut(h, row), row)
  BY <1>3, <1>15 DEF CutIf
<1>19. /\ x.state = row.to /\ x.list = y.list /\ x.map = y.map
       /\ x.left = IF "key" \in row.do THEN Len(y.buf) ELSE y.left
  BY <1>0, <1>17, <1>18, AfterCutIs
<1>20. x.buf = IF "print" \in row.do THEN Append(y.buf, c) ELSE y.buf
  BY <1>0, <1>17, <1>18, TextAfterCut
<1> HIDE DEF field
<1>21. Completed(h, row, c, x, field, y)
  BY <1>16, <1>17, <1>19, <1>20 DEF Completed
<1> QED BY <1>11, <1>21 DEF field

\* Up to where the headers of the list are.
Limit(h) == IF h.state \in Idle THEN Len(h.buf) ELSE h.left

\* and the list has it, behind what its key had.
LEMMA CutGoesOn ==
  ASSUME NEW h, NEW row, NEW c, NEW x, NEW B, NEW end, NEW n, Stepped(h, row, c, x, B, end, n),
         "cut" \in row.do, NEW field, NEW y, Completed(h, row, c, x, field, y)
  PROVE  Reading(x, B, end, n + 1) /\ Listed(x, Limit(x)) /\ Fields(x) = With(Fields(h), field)
<1>0. /\ h \in Record /\ h.buf \in Seq(Alphabet) /\ Len(h.buf) \in Nat /\ h.left \in Nat
      /\ h.right \in Nat /\ B \in Seq(Alphabet) /\ end \in Nat /\ n \in Nat /\ Len(B) \in Nat
      /\ end <= n /\ n < Len(B) /\ row \in HeaderRows /\ row.from = h.state
      /\ HeaderClass(c) \in row.on /\ c = B[n + 1] /\ c \in Alphabet /\ c # "NUL"
      /\ x = HeaderStep(h, row, c)
  BY SteppedIs
<1>r. row \in HeaderRows
  BY <1>0
<1>1. /\ row.from \in {"V1?", "V2?"}
      /\ \/ "key" \in row.do /\ "print" \in row.do /\ row.to = "K"
         \/ "key" \notin row.do /\ "print" \notin row.do /\ row.to \in Idle
  BY <1>r, RowKinds
<1>2. /\ y \in Record /\ ListFits(y.list, Len(y.buf)) /\ Listed(y, Len(y.buf))
      /\ Fields(y) = With(Fields(h), field)
      /\ x.state = row.to /\ x.list = y.list /\ x.map = y.map
      /\ "key" \in row.do => x.left = Len(y.buf)
      /\ x.buf = IF "print" \in row.do THEN Append(y.buf, c) ELSE y.buf
  BY DEF Completed
<1>3. y.buf \in Seq(Alphabet) /\ y.list \in Seq(Entry) /\ Len(y.buf) \in Nat
  BY <1>2, LenProperties DEF Record
<1>4. CASE "key" \notin row.do
  <2>1. x.state \in Idle /\ x.buf = y.buf /\ Limit(x) = Len(y.buf)
    BY <1>1, <1>2, <1>4 DEF Limit
  <2>2. Fields(x) = Fields(y)
    BY <1>2, <2>1, FieldsAre
  <2>3. Listed(x, Limit(x))
    BY <1>2, <2>1, <2>2 DEF Listed
  <2>4. Reading(x, B, end, n + 1)
    BY <2>1 DEF Reading, Idle
  <2> QED BY <1>2, <2>2, <2>3, <2>4
<1>5. CASE "key" \in row.do
  <2>1. /\ x.state = "K" /\ x.left = Len(y.buf) /\ x.buf = Append(y.buf, c)
        /\ Limit(x) = Len(y.buf)
    BY <1>1, <1>2, <1>5 DEF Limit, Idle
  <2>2. x.buf \in Seq(Alphabet) /\ Kept(y.buf, x.buf, Len(y.buf))
    BY <1>0, <1>3, <2>1, AppendProperties, AppendKeeps
  <2>3. Strings(x.buf, y.list, Len(y.buf)) /\ FieldsOf(x.buf, y.list) = FieldsOf(y.buf, y.list)
    <3>1. Strings(y.buf, y.list, Len(y.buf))
      BY <1>2 DEF Listed
    <3> QED BY <1>2, <1>3, <2>2, <3>1, FieldsStay
  <2>4. Fields(x) = Fields(y)
    BY <1>2, <2>3, FieldsAre
  <2>5. Listed(x, Limit(x))
    BY <1>2, <2>1, <2>3, <2>4 DEF Listed
  <2>6. B[n] = "LF"
    BY <1>0, <1>1 DEF Stepped, Follow
  <2>7. c \notin Whites /\ c # ":"
    BY <1>0, <1>1, <1>5, RowCharacters
  <2>8. InKey(x, B, end, n + 1)
    BY <1>0, <1>3, <2>1, <2>6, <2>7, FirstOfKey
  <2>9. Reading(x, B, end, n + 1)
    BY <2>1, <2>8 DEF Reading
  <2> QED BY <1>2, <2>4, <2>5, <2>9
<1> QED BY <1>4, <1>5

\* Rows that only copy are between the first and the last character of a header;
LEMMA PrintRow ==
  ASSUME NEW row \in HeaderRows, row.do = {"print"}
  PROVE  row.from \notin Idle /\ row.to \notin Idle
<1>1. row.from \in {"K", "V1", "V", "V2"} /\ row.to \in {"K", "V"}
  BY RowKinds
<1> QED BY <1>1 DEF Idle

\* those that begin a key are where a header may begin.
LEMMA KeyRow ==
  ASSUME NEW row \in HeaderRows, row.do = {"key", "print"}
  PROVE  row.from \in Idle /\ row.to \notin Idle
<1>1. row.from = "START" /\ row.to = "K"
  BY RowKinds
<1> QED BY <1>1 DEF Idle

\* A step that completes none leaves those of the list as they are.
LEMMA PlainKeeps ==
  ASSUME NEW h, NEW row, NEW c, NEW x, NEW B, NEW end, NEW n, Stepped(h, row, c, x, B, end, n),
         "cut" \notin row.do, Listed(h, Limit(h)), ListFits(h.list, Limit(h)), Limit(h) <= Len(h.buf)
  PROVE  Listed(x, Limit(x)) /\ Fields(x) = Fields(h)
<1>0. /\ h \in Record /\ h.buf \in Seq(Alphabet) /\ Len(h.buf) \in Nat /\ h.left \in Nat
      /\ h.right \in Nat /\ B \in Seq(Alphabet) /\ end \in Nat /\ n \in Nat /\ Len(B) \in Nat
      /\ end <= n /\ n < Len(B) /\ row \in HeaderRows /\ row.from = h.state
      /\ HeaderClass(c) \in row.on /\ c = B[n + 1] /\ c \in Alphabet /\ c # "NUL"
      /\ x = HeaderStep(h, row, c)
  BY SteppedIs
<1>r. row \in HeaderRows
  BY <1>0
<1>1. Does(h, row, c, x)
  BY <1>0, PlainStep, Zenon
<1>2. /\ x.state = row.to /\ x.list = h.list /\ x.map = h.map
  BY <1>1 DEF Does
<1>3. PICK limit \in Nat : limit = Limit(h) /\ limit <= Len(h.buf)
  BY <1>0 DEF Limit
<1>4. "NUL" \in Alphabet /\ " " \in Alphabet
  BY DEF Alphabet
<1>5. x.buf \in Seq(Alphabet) /\ Kept(h.buf, x.buf, Len(h.buf)) /\ Limit(x) = limit
  <2>1. CASE row.do = {}
    <3>1. x.buf = h.buf /\ x.left = h.left
      BY <1>1, <2>1 DEF Does
    <3>2. row.from \in Idle <=> row.to \in Idle
      BY <1>r, <2>1, RowKinds DEF Idle, EmptyStates, BlankStates
    <3>3. Limit(x) = limit
      BY <1>0, <1>2, <1>3, <3>1, <3>2 DEF Limit
    <3> QED BY <1>0, <3>1, <3>3 DEF Kept
  <2>2. CASE row.do = {"print"}
    <3>1. x.buf = Append(h.buf, c) /\ x.left = h.left
      BY <1>1, <2>2 DEF Does
    <3>2. row.from \notin Idle /\ row.to \notin Idle
      BY <1>r, <2>2, PrintRow
    <3>3. Limit(x) = limit
      BY <1>0, <1>2, <1>3, <3>1, <3>2 DEF Limit
    <3> QED BY <1>0, <3>1, <3>3, OneMore, AppendKeeps
  <2>3. CASE row.do = {"key", "print"}
    <3>1. x.buf = Append(h.buf, c) /\ x.left = Len(h.buf)
      BY <1>1, <2>3 DEF Does
    <3>2. row.from \in Idle /\ row.to \notin Idle
      BY <1>r, <2>3, KeyRow
    <3>3. Limit(x) = limit
      BY <1>0, <1>2, <1>3, <3>1, <3>2 DEF Limit
    <3> QED BY <1>0, <3>1, <3>3, OneMore, AppendKeeps
  <2>4. CASE row.do = {"zero", "value"}
    <3>1. x.buf = Append(h.buf, "NUL") /\ x.left = h.left
      BY <1>1, <2>4 DEF Does
    <3>2. row.from \notin Idle /\ row.to \notin Idle
      BY <1>r, <2>4, RowKinds DEF Idle
    <3>3. Limit(x) = limit
      BY <1>0, <1>2, <1>3, <3>1, <3>2 DEF Limit
    <3> QED BY <1>0, <1>4, <3>1, <3>3, OneMore, AppendKeeps, Zenon
  <2>5. CASE row.do = {"space"}
    <3>1. x.buf = Append(h.buf, " ") /\ x.left = h.left
      BY <1>1, <2>5 DEF Does
    <3>2. row.from \notin Idle /\ row.to \notin Idle
      BY <1>r, <2>5, RowKinds DEF Idle, BlankStates
    <3>3. Limit(x) = limit
      BY <1>0, <1>2, <1>3, <3>1, <3>2 DEF Limit
    <3> QED BY <1>0, <1>4, <3>1, <3>3, OneMore, AppendKeeps, Zenon
  <2>6. \/ row.do = {} \/ row.do = {"print"} \/ row.do = {"key", "print"}
        \/ row.do = {"zero", "value"} \/ row.do = {"space"}
    BY <1>r, RowKinds
  <2> QED BY <2>1, <2>2, <2>3, <2>4, <2>5, <2>6
<1>6. Kept(h.buf, x.buf, limit)
  <2>1. Len(x.buf) \in Nat
    BY <1>5, LenProperties
  <2> QED BY <1>0, <1>3, <1>5, <2>1, KeptLess
<1>7. Strings(x.buf, h.list, limit) /\ FieldsOf(x.buf, h.list) = FieldsOf(h.buf, h.list)
  <2>1. h.list \in Seq(Entry) /\ Strings(h.buf, h.list, limit) /\ ListFits(h.list, limit)
    BY <1>0, <1>3 DEF Record, Listed
  <2> QED BY <1>0, <1>5, <1>6, <2>1, FieldsStay
<1>8. Fields(x) = Fields(h)
  BY <1>2, <1>7, FieldsAre
<1>9. Listed(x, limit)
  BY <1>2, <1>7, <1>8 DEF Listed
<1> QED BY <1>5, <1>8, <1>9

\* What is read once a step is done, and what it adds to the headers.
StepDone(h, row, x, B, end, n) ==
  /\ Reading(x, B, end, n + 1) /\ Listed(x, Limit(x))
  /\ "cut" \notin row.do => Fields(x) = Fields(h)
  /\ "cut" \in row.do =>
       \E s \in Nat, q \in Nat :
         /\ Keyed(B, end, s, q, n) /\ B[q] = ":"
         /\ Fields(x) = With(Fields(h), [key |-> Part(B, s - 1, q - 1), value |-> Out(B, q, n)])

\* So each step of the automaton reads on.
LEMMA StepReads ==
  ASSUME NEW h, NEW row, NEW c, NEW x, NEW B, NEW end, NEW n, Stepped(h, row, c, x, B, end, n),
         \A d \in h.map : d < Len(h.list), HeadersMax \in Nat,
         "cut" \in row.do => Len(h.list) < HeadersMax, Listed(h, Limit(h))
  PROVE  StepDone(h, row, x, B, end, n)
<1>0. /\ h \in Record /\ h.buf \in Seq(Alphabet) /\ Len(h.buf) \in Nat /\ h.left \in Nat
      /\ h.right \in Nat /\ B \in Seq(Alphabet) /\ end \in Nat /\ n \in Nat /\ Len(B) \in Nat
      /\ end <= n /\ n < Len(B) /\ row \in HeaderRows /\ row.from = h.state
      /\ HeaderClass(c) \in row.on /\ c = B[n + 1] /\ c \in Alphabet /\ c # "NUL"
      /\ x = HeaderStep(h, row, c)
  BY SteppedIs
<1>r. row \in HeaderRows
  BY <1>0
<1>1. CASE "cut" \in row.do
  <2>1. row.from \in {"V1?", "V2?"}
    BY <1>r, <1>1, RowKinds
  <2>2. Listed(h, h.left)
    BY <1>0, <2>1 DEF Limit, Idle
  <2>3. PICK y : \E s \in Nat, q \in Nat :
           /\ Keyed(B, end, s, q, n) /\ B[q] = ":"
           /\ Completed(h, row, c, x, [key |-> Part(B, s - 1, q - 1), value |-> Out(B, q, n)], y)
    BY <1>1, <2>2, CutStep
  <2>a. PICK s \in Nat, q \in Nat :
           /\ Keyed(B, end, s, q, n) /\ B[q] = ":"
           /\ Completed(h, row, c, x, [key |-> Part(B, s - 1, q - 1), value |-> Out(B, q, n)], y)
    BY <2>3
  <2> DEFINE field == [key |-> Part(B, s - 1, q - 1), value |-> Out(B, q, n)]
  <2>4. Completed(h, row, c, x, field, y)
    BY <2>a
  <2> HIDE DEF field
  <2>5. Reading(x, B, end, n + 1) /\ Listed(x, Limit(x)) /\ Fields(x) = With(Fields(h), field)
    BY <1>1, <2>4, CutGoesOn
  <2> QED BY <1>1, <2>a, <2>5 DEF field, StepDone
<1>2. CASE "cut" \notin row.do
  <2>1. Listed(x, Limit(x)) /\ Fields(x) = Fields(h)
    <3>1. Pending(h)
      BY DEF Stepped, Follow
    <3>2. ListFits(h.list, Limit(h)) /\ Limit(h) <= Len(h.buf)
      BY <1>0, <3>1 DEF Pending, Limit
    <3> QED BY <1>2, <3>2, PlainKeeps
  <2>2. Reading(x, B, end, n + 1)
    <3>1. \/ row.do = {} \/ row.do = {"print"} \/ row.do = {"key", "print"}
          \/ row.do = {"zero", "value"} \/ row.do = {"space"}
      BY <1>r, <1>2, RowKinds
    <3> QED BY <3>1, BlankPassed, ValueGoesOn, KeyGoesOn, KeyBegins, ValueBegins
  <2> QED BY <1>2, <2>1, <2>2 DEF StepDone
<1> QED BY <1>1, <1>2

-----------------------------------------------------------------------------
(* The headers while the request is read. *)

HeadersAreRead ==
  /\ Listed(hdr, Limit(hdr))
  /\ stage = "headers" => Reading(hdr, sent.bytes, LineEnd(0), rd)

\* At first there is none.
LEMMA HeadersStart ==
  ASSUME Init
  PROVE  HeadersAreRead
<1>1. hdr.list = <<>> /\ hdr.map = {} /\ stage = "line"
  BY DEF Init, EmptyHeaders
<1>2. DOMAIN hdr.list = {}
  BY <1>1
<1>3. DOMAIN Fields(hdr) = {}
  BY <1>2 DEF Fields
<1> QED BY <1>1, <1>2, <1>3 DEF HeadersAreRead, Listed, Strings, OfKeys, Unlike

\* One character, which completes a header or does not.
LEMMA ParseReadsHeaders ==
  ASSUME Inv, HeadersAreRead, ParseHeader
  PROVE  /\ HeadersAreRead'
         /\ Fields(hdr') = IF Completes THEN With(Fields(hdr), HeaderIn(rd)) ELSE Fields(hdr)
<1> DEFINE B == sent.bytes
           end == LineEnd(0)
           c == IF rd < Len(B) THEN B[rd + 1] ELSE "NUL"
<1>0. /\ B \in Seq(Alphabet) /\ Len(B) \in Nat /\ rd \in 1..Len(B) /\ end <= rd /\ stage = "headers"
      /\ Shape(hdr) /\ Pending(hdr) /\ hdr.state # "END" /\ Behind_(hdr.state, rd)
  BY LenProperties DEF Inv, HdrInv, HeadInv, ParseHeader
<1>1. end \in Nat
  BY <1>0, LineEndIs
<1>2. UNCHANGED sent /\ LineEnd(0)' = LineEnd(0)
  BY DEF ParseHeader, LineEnd
<1>3. HeadersMax \in Nat
  BY Limits
<1>4. CASE \E e \in {400, 413} : Ends(e) /\ UNCHANGED hdr
  <2>1. ~Completes
    BY <1>4 DEF Completes
  <2>2. stage' # "headers" /\ hdr' = hdr
    BY <1>4 DEF Ends
  <2> QED BY <2>1, <2>2 DEF HeadersAreRead
<1>5. ASSUME NEW row \in HeaderRows, row.from = hdr.state, HeaderClass(c) \in row.on,
             ~HeadersFull(hdr, row), hdr' = HeaderStep(hdr, row, c)
      PROVE  /\ HeadersAreRead'
             /\ Fields(hdr') = IF Completes THEN With(Fields(hdr), HeaderIn(rd)) ELSE Fields(hdr)
  <2>1. c # "NUL"
    BY <1>5, RowClasses
  <2>2. rd < Len(B) /\ c = B[rd + 1] /\ c \in Alphabet
    <3>1. rd < Len(B)
      BY <2>1
    <3>2. rd + 1 \in 1..Len(B)
      BY <1>0, <3>1
    <3> QED BY <1>0, <3>1, <3>2, ElementOfSeq
  <2>3. rd' = rd + 1
    BY <1>0, <2>2 DEF ParseHeader
  <2> HIDE DEF B, end, c
  <2>4. Follow(hdr, B, end, rd)
    <3>1. /\ hdr.state \in {"START", "V1?", "V2?"} => B[rd] = "LF"
          /\ hdr.state \in {"K", "V1", "V", "V2", "V1??", "V2??"} => B[rd] # "LF"
      BY <1>0 DEF Behind_, At, LineEnds, B
    <3>2. Reading(hdr, B, end, rd)
      BY <1>0 DEF HeadersAreRead, B, end
    <3> QED BY <1>0, <1>1, <2>2, <3>1, <3>2 DEF Follow, Shape
  <2>5. PICK x : x = hdr'
    OBVIOUS
  <2>6. Stepped(hdr, row, c, x, B, end, rd)
    BY <1>5, <2>1, <2>2, <2>4, <2>5 DEF Stepped
  <2>7. /\ Reading(x, B, end, rd + 1) /\ Listed(x, Limit(x))
        /\ "cut" \notin row.do => Fields(x) = Fields(hdr)
        /\ "cut" \in row.do =>
             \E s \in Nat, q \in Nat :
               /\ Keyed(B, end, s, q, rd) /\ B[q] = ":"
               /\ Fields(x) =
                    With(Fields(hdr), [key |-> Part(B, s - 1, q - 1), value |-> Out(B, q, rd)])
    <3>1. "cut" \in row.do => Len(hdr.list) < HeadersMax
      <4>1. "cut" \in row.do => ~(Len(hdr.list) >= HeadersMax)
        BY <1>5 DEF HeadersFull
      <4>2. Len(hdr.list) \in Nat
        BY <1>0, LenProperties DEF Shape, Record
      <4> QED BY <1>3, <4>1, <4>2
    <3>2. (\A d \in hdr.map : d < Len(hdr.list)) /\ Listed(hdr, Limit(hdr))
      BY <1>0 DEF Shape, HeadersAreRead
    <3>3. StepDone(hdr, row, x, B, end, rd)
      BY <1>3, <2>6, <3>1, <3>2, StepReads
    <3> QED BY <3>3 DEF StepDone
  <2>8. HeadersAreRead'
    BY <1>2, <2>3, <2>5, <2>7 DEF HeadersAreRead, B, end
  <2>9. Completes <=> "cut" \in row.do
    <3>1. hdr'.state = row.to
      BY <1>5 DEF HeaderStep
    <3>2. "cut" \in row.do <=>
            row.from \in {"V1?", "V2?"} /\ row.to \in {"K", "END?", "END"}
      BY <1>5, RowCharacters
    <3> QED BY <1>5, <3>1, <3>2 DEF Completes
  <2>10. ASSUME "cut" \in row.do PROVE Fields(hdr') = With(Fields(hdr), HeaderIn(rd))
    <3>1. PICK s \in Nat, q \in Nat :
            /\ Keyed(B, end, s, q, rd) /\ B[q] = ":"
            /\ Fields(x) =
                 With(Fields(hdr), [key |-> Part(B, s - 1, q - 1), value |-> Out(B, q, rd)])
      BY <2>7, <2>10
    <3>2. HeaderIn(rd) = [key |-> Part(B, s - 1, q - 1), value |-> Out(B, q, rd)]
      <4>1. rd \in 0..Len(B)
        BY <1>0
      <4> QED BY <1>0, <1>1, <3>1, <4>1, HeaderInIs DEF B, end
    <3> QED BY <2>5, <3>1, <3>2
  <2> QED BY <2>5, <2>7, <2>8, <2>9, <2>10
<1> QED BY <1>4, <1>5 DEF ParseHeader, HeaderTaken

\* The other actions leave the headers as they are, and those before them have none.
LEMMA OthersReadHeaders ==
  ASSUME Inv, HeadersAreRead,
         \/ ReadLine \/ ParseUri \/ UriEnds \/ Interpret \/ ReadFixed \/ ReadChunk \/ ReadTrailer
         \/ UNCHANGED vars
  PROVE  /\ HeadersAreRead'
         /\ Fields(hdr') = IF Completes THEN With(Fields(hdr), HeaderIn(rd)) ELSE Fields(hdr)
<1>1. UNCHANGED <<sent, hdr>>
  BY DEF ReadLine, ParseUri, UriEnds, Interpret, ReadFixed, ReadChunk, ReadTrailer, vars
<1>2. ~Completes
  BY <1>1 DEF Completes
<1>3. Listed(hdr, Limit(hdr))'
  BY <1>1 DEF HeadersAreRead
<1>4. LineEnd(0)' = LineEnd(0)
  BY <1>1 DEF LineEnd
<1>5. CASE ReadLine \/ ParseUri \/ UriEnds
  <2>1. stage \in {"line", "uri"}
    BY <1>5 DEF ReadLine, ParseUri, UriEnds
  <2>2. hdr' = EmptyHeaders
    BY <1>1, <2>1 DEF Inv, HeadInv
  <2>3. hdr'.state = "START"
    BY <2>2 DEF EmptyHeaders
  <2> QED BY <1>1, <1>2, <1>3, <2>3 DEF HeadersAreRead, Reading, Idle
<1>6. CASE Interpret \/ ReadFixed \/ ReadChunk \/ ReadTrailer
  <2>1. stage' # "headers"
    BY <1>6 DEF Interpret, ReadFixed, ReadChunk, ReadTrailer, Ends, Stops
  <2> QED BY <1>1, <1>2, <1>3, <2>1 DEF HeadersAreRead
<1>7. CASE UNCHANGED vars
  BY <1>1, <1>2, <1>3, <1>4, <1>7 DEF HeadersAreRead, vars
<1> QED BY <1>5, <1>6, <1>7

\* Whatever is sent, every header that is complete is listed as it was sent, once its blanks
\* are made one space, behind what its key had, and no step changes another one
\* (tipidee_headers_parse_with()).
THEOREM HeadersRead == Spec => HeadersAsWritten
<1> DEFINE Adds == Fields(hdr') = IF Completes THEN With(Fields(hdr), HeaderIn(rd)) ELSE Fields(hdr)
<1>1. Init => HeadersAreRead
  BY HeadersStart
<1>2. Inv /\ HeadersAreRead /\ [Next]_vars => HeadersAreRead' /\ Adds
  BY ParseReadsHeaders, OthersReadHeaders DEF Next
<1>3. HeadersAsWritten <=> [][Adds]_vars
  BY DEF HeadersAsWritten
<1> HIDE DEF Adds
<1> QED BY <1>1, <1>2, <1>3, Invariance, PTL DEF Spec

-----------------------------------------------------------------------------
(* Finding a header. *)

Capitals ==
  {"A", "B", "C", "D", "E", "F", "G", "H", "I", "J", "K", "L", "M",
   "N", "O", "P", "Q", "R", "S", "T", "U", "V", "W", "X", "Y", "Z"}
Smalls ==
  {"a", "b", "c", "d", "e", "f", "g", "h", "i", "j", "k", "l", "m",
   "n", "o", "p", "q", "r", "s", "t", "u", "v", "w", "x", "y", "z"}

\* A letter that is made small is none that would be.
LEMMA SmallIsSmall ==
  ASSUME NEW c \in DOMAIN SmallLetter
  PROVE  SmallLetter[c] \notin DOMAIN SmallLetter
<1> DEFINE i == CHOOSE k \in 34..59 : Printable[k] = c
           D == {Printable[k] : k \in 34..59}
<1>1. DOMAIN SmallLetter = D /\ SmallLetter[c] = Printable[i + 32]
  BY DEF SmallLetter
<1>2. i \in 34..59
  <2>1. \E k \in 34..59 : Printable[k] = c
    BY <1>1
  <2> QED BY <2>1
<1>3. \A k \in 34..59 : Printable[k] \in Capitals
  <2>1. /\ Printable[34] = "A" /\ Printable[35] = "B" /\ Printable[36] = "C" /\ Printable[37] = "D"
        /\ Printable[38] = "E" /\ Printable[39] = "F" /\ Printable[40] = "G" /\ Printable[41] = "H"
        /\ Printable[42] = "I" /\ Printable[43] = "J" /\ Printable[44] = "K" /\ Printable[45] = "L"
        /\ Printable[46] = "M" /\ Printable[47] = "N" /\ Printable[48] = "O" /\ Printable[49] = "P"
        /\ Printable[50] = "Q" /\ Printable[51] = "R" /\ Printable[52] = "S" /\ Printable[53] = "T"
        /\ Printable[54] = "U" /\ Printable[55] = "V" /\ Printable[56] = "W" /\ Printable[57] = "X"
        /\ Printable[58] = "Y" /\ Printable[59] = "Z"
    BY DEF Printable
  <2> SUFFICES ASSUME NEW k \in 34..59 PROVE Printable[k] \in Capitals
    OBVIOUS
  <2>2. \/ k = 34 \/ k = 35 \/ k = 36 \/ k = 37 \/ k = 38 \/ k = 39 \/ k = 40 \/ k = 41
        \/ k = 42 \/ k = 43 \/ k = 44 \/ k = 45 \/ k = 46 \/ k = 47 \/ k = 48 \/ k = 49
        \/ k = 50 \/ k = 51 \/ k = 52 \/ k = 53 \/ k = 54 \/ k = 55 \/ k = 56 \/ k = 57
        \/ k = 58 \/ k = 59
    OBVIOUS
  <2> QED BY <2>1, <2>2, SMTT(60) DEF Capitals
<1>4. \A k \in 66..91 : Printable[k] \in Smalls
  <2>1. /\ Printable[66] = "a" /\ Printable[67] = "b" /\ Printable[68] = "c" /\ Printable[69] = "d"
        /\ Printable[70] = "e" /\ Printable[71] = "f" /\ Printable[72] = "g" /\ Printable[73] = "h"
        /\ Printable[74] = "i" /\ Printable[75] = "j" /\ Printable[76] = "k" /\ Printable[77] = "l"
        /\ Printable[78] = "m" /\ Printable[79] = "n" /\ Printable[80] = "o" /\ Printable[81] = "p"
        /\ Printable[82] = "q" /\ Printable[83] = "r" /\ Printable[84] = "s" /\ Printable[85] = "t"
        /\ Printable[86] = "u" /\ Printable[87] = "v" /\ Printable[88] = "w" /\ Printable[89] = "x"
        /\ Printable[90] = "y" /\ Printable[91] = "z"
    BY DEF Printable
  <2> SUFFICES ASSUME NEW k \in 66..91 PROVE Printable[k] \in Smalls
    OBVIOUS
  <2>2. \/ k = 66 \/ k = 67 \/ k = 68 \/ k = 69 \/ k = 70 \/ k = 71 \/ k = 72 \/ k = 73
        \/ k = 74 \/ k = 75 \/ k = 76 \/ k = 77 \/ k = 78 \/ k = 79 \/ k = 80 \/ k = 81
        \/ k = 82 \/ k = 83 \/ k = 84 \/ k = 85 \/ k = 86 \/ k = 87 \/ k = 88 \/ k = 89
        \/ k = 90 \/ k = 91
    OBVIOUS
  <2> QED BY <2>1, <2>2, SMTT(60) DEF Smalls
<1> HIDE DEF i
<1>5. Printable[i + 32] \in Smalls
  <2>1. i + 32 \in 66..91
    BY <1>2
  <2> QED BY <1>4, <2>1
<1>6. Capitals \cap Smalls = {}
  BY DEF Capitals, Smalls
<1> QED BY <1>1, <1>3, <1>5, <1>6

\* A key in small letters stays as it is.
LEMMA FoldedTwice ==
  ASSUME NEW s
  PROVE  Folded(Folded(s)) = Folded(s)
<1> DEFINE t == Folded(s)
<1>1. /\ DOMAIN t = DOMAIN s
      /\ \A i \in DOMAIN s : t[i] = IF s[i] \in DOMAIN SmallLetter THEN SmallLetter[s[i]] ELSE s[i]
  BY DEF Folded
<1>2. t = [i \in DOMAIN s |-> t[i]]
  BY DEF Folded
<1>3. \A i \in DOMAIN s : t[i] \notin DOMAIN SmallLetter
  BY <1>1, SmallIsSmall
<1> HIDE DEF t
<1>4. Folded(t) = [i \in DOMAIN s |-> t[i]]
  BY <1>1, <1>3 DEF Folded
<1> QED BY <1>2, <1>4 DEF t

\* Whatever is sent, a header is found by its key in any case, with its own value, unless it
\* is one that is each for itself, and what is found is in the list (tipidee_headers_search()).
THEOREM HeadersFound == Spec => []FoundAsListed
<1>1. Init => HeadersAreRead
  BY HeadersStart
<1>2. Inv /\ HeadersAreRead /\ [Next]_vars => HeadersAreRead'
  BY ParseReadsHeaders, OthersReadHeaders DEF Next
<1>3. Inv /\ HeadersAreRead => FoundAsListed
  <2> SUFFICES ASSUME Inv, HeadersAreRead PROVE FoundAsListed
    OBVIOUS
  <2> DEFINE F == Fields(hdr)
  <2>1. OfKeys(F, hdr.map) /\ Unlike(F)
    BY DEF HeadersAreRead, Listed
  <2>2. hdr.map \subseteq Nat /\ hdr.list \in Seq(Entry)
    BY DEF Inv, HdrInv, Shape, Record
  <2>3. DOMAIN F = DOMAIN hdr.list /\ DOMAIN hdr.list = 1..Len(hdr.list) /\ Len(hdr.list) \in Nat
    BY <2>2, LenProperties DEF Fields
  <2>4. \A i \in DOMAIN hdr.list : F[i].key = KeyAt(hdr.buf, hdr.list[i])
    BY DEF Fields
  <2> HIDE DEF F
  <2>5. ASSUME NEW d \in hdr.map
        PROVE  d + 1 \in DOMAIN hdr.list /\ NeedsProcessing(KeyAt(hdr.buf, hdr.list[d + 1]))
    BY <2>1, <2>2, <2>3, <2>4, <2>5 DEF OfKeys
  <2>6. ASSUME NEW i \in DOMAIN hdr.list, NEW written, written = KeyAt(hdr.buf, hdr.list[i]),
               NeedsProcessing(written), NEW key \in {written, Folded(written)}
        PROVE  Search(hdr, key) = [there |-> TRUE, text |-> ValueAt(hdr, i)]
    <3>1. PICK k \in Nat : k = i - 1 /\ k + 1 = i
      BY <2>3
    <3>2. k \in hdr.map
      BY <2>1, <2>3, <2>4, <2>6, <3>1 DEF OfKeys
    <3>3. Folded(key) = Folded(written)
      BY FoldedTwice
    <3>4. k \in Found(hdr, key)
      BY <2>6, <3>1, <3>2, <3>3 DEF Found
    <3>5. ASSUME NEW d \in Found(hdr, key) PROVE d = k
      <4>1. d \in hdr.map /\ Folded(KeyAt(hdr.buf, hdr.list[d + 1])) = Folded(written)
        BY <3>3 DEF Found
      <4>2. /\ d + 1 \in DOMAIN hdr.list /\ NeedsProcessing(KeyAt(hdr.buf, hdr.list[d + 1]))
            /\ d \in Nat
        BY <2>2, <2>5, <4>1
      <4>3. SameKey(F[d + 1], F[i])
        BY <2>4, <2>6, <4>1, <4>2 DEF SameKey
      <4>4. d + 1 = i
        BY <2>1, <2>3, <4>2, <4>3 DEF Unlike
      <4> QED BY <3>1, <4>2, <4>4
    <3>6. Found(hdr, key) # {} /\ (CHOOSE d \in Found(hdr, key) : TRUE) = k
      BY <3>4, <3>5
    <3> QED BY <3>1, <3>6 DEF Search, ValueAt
  <2> QED BY <2>5, <2>6 DEF FoundAsListed
<1> QED BY <1>1, <1>2, <1>3, Invariance, PTL DEF Spec

-----------------------------------------------------------------------------
(* The body. *)

\* No client sends so much that the size of a body is beyond the largest size_t.
SendsLess == \A r \in Requests : Len(r.bytes) + MaxBody <= SizeMax

Announced == Search(hdr, Chars("Content-Length"))
Writing == {"POST", "PUT", "PATCH"}

\* A place that is behind the headers.
AfterHead(i) ==
  /\ i \in (LineEnd(0) + 1)..Len(sent.bytes)
  /\ EmptyLine(i) /\ \A j \in (LineEnd(0) + 1)..(i - 1) : ~EmptyLine(j)

\* The first size is another one in decimal, or no line end is behind so much data.
Misread ==
  HexSize(HeadEnd) = DecimalSize(HeadEnd) =>
    HexSize(HeadEnd) # 0 /\ ~LineEndBehind(LineEnd(HeadEnd) + HexSize(HeadEnd))

\* Before the first chunk, directly behind it, and further on.
ChunksSoFar ==
  /\ HeadEnd <= rd /\ Len(body) <= rd - HeadEnd
  /\ \/ rd = HeadEnd /\ body = <<>>
     \/ Misread
     \/ HexSize(HeadEnd) # 0 /\ rd = LineEnd(HeadEnd) + HexSize(HeadEnd)

\* Behind a size of 0, and no empty line was since.
LastChunkRead ==
  \E at \in HeadEnd..(rd - 1) :
    /\ NoMore(at) /\ Len(body) <= at - HeadEnd /\ LineEnd(at) <= rd
    /\ \A i \in (LineEnd(at) + 1)..rd : ~EmptyLine(i)
    /\ (at = HeadEnd /\ body = <<>> /\ HexSize(HeadEnd) = 0) \/ Misread

\* The inductive invariant: where the body begins, and what is known of it while it is read.
BodyKnown ==
  /\ {"method", "minor", "star", "coding", "length", "host", "port"} \subseteq DOMAIN rql
  /\ rql.star => rql.method = "OPTIONS"
  /\ LineEnd(0) \in Nat
  /\ body \in Seq(Alphabet) /\ Len(body) <= MaxBody
  /\ stage \in {"line", "uri", "headers", "request", "fixed"} => body = <<>>
  /\ stage \in {"request", "fixed"} => AfterHead(rd)
  /\ stage \in {"fixed", "chunk", "trailer"} => rql.method \in Writing
  /\ stage = "fixed" => TransferCoding = "fixed" /\ rql.length = ContentLength
  /\ stage \in {"chunk", "trailer"} =>
       /\ TransferCoding = "chunked"
       /\ \E i \in 1..rd : AfterHead(i) /\ (i < rd \/ stage = "chunk")
  /\ stage = "chunk" => ChunksSoFar
  /\ stage = "trailer" => sent.bytes[rd] = "LF" /\ LastChunkRead

\* There is one place where the headers end.
LEMMA HeadEndIs ==
  ASSUME NEW i \in Nat, AfterHead(i), LineEnd(0) \in Nat
  PROVE  HeadEnd = i
<1>1. \A k : AfterHead(k) => k \in Nat /\ k > LineEnd(0)
  BY DEF AfterHead
<1>2. ASSUME NEW k, AfterHead(k) PROVE k = i
  <2>1. k \in Nat /\ k > LineEnd(0) /\ i > LineEnd(0)
    BY <1>1, <1>2
  <2>2. ~(k < i)
    BY <1>2, <2>1 DEF AfterHead
  <2>3. ~(i < k)
    BY <1>2, <2>1 DEF AfterHead
  <2> QED BY <2>1, <2>2, <2>3
<1>3. HeadEnd = CHOOSE k \in (LineEnd(0) + 1)..Len(sent.bytes) : AfterHead(k)
  BY DEF HeadEnd, AfterHead
<1>4. i \in (LineEnd(0) + 1)..Len(sent.bytes)
  BY DEF AfterHead
<1> QED BY <1>2, <1>3, <1>4

\* A line that is empty behind the end of another one.
LEMMA EmptyBehind ==
  ASSUME sent.bytes \in Seq(Alphabet), NEW at \in Nat, at > 0, sent.bytes[at] = "LF",
         at <= Len(sent.bytes), LineEnd(at) # 0,
         SubSeq(sent.bytes, at + 1, LineEnd(at)) \in {<<"LF">>, <<"CR", "LF">>}
  PROVE  EmptyLine(LineEnd(at)) /\ LineEnd(at) > at
<1>1. LineEnd(at) \in (at + 1)..Len(sent.bytes) /\ At(LineEnd(at)) = "LF" /\ Len(sent.bytes) \in Nat
  BY LineEndIs, LenProperties
<1>2. PICK e \in Nat : e = LineEnd(at)
  BY <1>1
<1>3. e \in at..Len(sent.bytes) /\ e > at /\ sent.bytes[e] = "LF"
  BY <1>1, <1>2 DEF At
<1> DEFINE part == Part(sent.bytes, at, e)
<1>4. part \in {<<"LF">>, <<"CR", "LF">>}
  BY <1>2 DEF Part
<1>5. Len(part) = e - at /\ \A i \in 1..(e - at) : part[i] = sent.bytes[at + i]
  BY <1>3, PartIs, Zenon
<1> HIDE DEF part
<1>6. CASE part = <<"LF">>
  <2>1. e - at = 1
    BY <1>5, <1>6
  <2>2. e - 1 = at /\ e > 1
    BY <1>3, <2>1
  <2> QED BY <1>2, <1>3, <2>2 DEF EmptyLine
<1>7. CASE part = <<"CR", "LF">>
  <2>1. e - at = 2 /\ part[1] = "CR"
    BY <1>5, <1>7
  <2>2. e - 2 = at /\ e > 2 /\ at + 1 = e - 1 /\ 1 \in 1..(e - at)
    BY <1>3, <2>1
  <2>3. sent.bytes[e - 1] = "CR"
    BY <1>5, <2>1, <2>2
  <2> QED BY <1>2, <1>3, <2>2, <2>3 DEF EmptyLine
<1> QED BY <1>4, <1>6, <1>7

\* What the headers said stays, when they and the version do.
LEMMA SaidStays ==
  ASSUME UNCHANGED <<sent, hdr>>
  PROVE  /\ LineEnd(0)' = LineEnd(0) /\ HeadEnd' = HeadEnd /\ ContentLength' = ContentLength
         /\ rql'.minor = rql.minor => TransferCoding' = TransferCoding
         /\ \A i : AfterHead(i)' <=> AfterHead(i)
         /\ \A i : EmptyLine(i)' <=> EmptyLine(i)
<1>1. LineEnd(0)' = LineEnd(0) /\ \A i : EmptyLine(i)' <=> EmptyLine(i)
  BY DEF LineEnd, EmptyLine
<1>2. HeadEnd' = HeadEnd /\ \A i : AfterHead(i)' <=> AfterHead(i)
  BY <1>1 DEF HeadEnd, AfterHead
<1>3. ContentLength' = ContentLength /\ (rql'.minor = rql.minor => TransferCoding' = TransferCoding)
  BY DEF ContentLength, TransferCoding
<1> QED BY <1>1, <1>2, <1>3

\* So does what sizes there are.
LEMMA SizesStay ==
  ASSUME UNCHANGED <<sent, hdr>>
  PROVE  /\ HeadEnd' = HeadEnd /\ (Misread' <=> Misread)
         /\ \A at : /\ LineEnd(at)' = LineEnd(at) /\ HexSize(at)' = HexSize(at)
                   /\ DecimalSize(at)' = DecimalSize(at) /\ (NoMore(at)' <=> NoMore(at))
                   /\ (EmptyLine(at)' <=> EmptyLine(at))
         /\ UNCHANGED <<rd, body>> => (ChunksSoFar' <=> ChunksSoFar) /\ (LastChunkRead' <=> LastChunkRead)
<1>1. \A at : LineEnd(at)' = LineEnd(at)
  BY DEF LineEnd
<1>2. \A at : SizeLine(at)' = SizeLine(at)
  BY <1>1 DEF SizeLine
<1>3. \A at : /\ HexSize(at)' = HexSize(at) /\ DecimalSize(at)' = DecimalSize(at)
             /\ (NoMore(at)' <=> NoMore(at))
  <2>1. \A at : HexSize(at)' = HexSize(at) /\ DecimalSize(at)' = DecimalSize(at)
    BY <1>2 DEF HexSize, DecimalSize
  <2> QED BY <1>1, <1>2, <2>1 DEF NoMore
<1>4. HeadEnd' = HeadEnd /\ \A i : EmptyLine(i)' <=> EmptyLine(i)
  BY SaidStays
<1>5. Misread' <=> Misread
  <2>1. \A at : LineEndBehind(at)' <=> LineEndBehind(at)
    BY DEF LineEndBehind
  <2> QED BY <1>1, <1>3, <1>4, <2>1 DEF Misread
<1>6. UNCHANGED <<rd, body>> => (ChunksSoFar' <=> ChunksSoFar) /\ (LastChunkRead' <=> LastChunkRead)
  <2>1. UNCHANGED <<rd, body>> => (ChunksSoFar' <=> ChunksSoFar)
    BY <1>1, <1>3, <1>4, <1>5 DEF ChunksSoFar
  <2>2. UNCHANGED <<rd, body>> => (LastChunkRead' <=> LastChunkRead)
    BY <1>1, <1>3, <1>4, <1>5 DEF LastChunkRead
  <2> QED BY <2>1, <2>2
<1> QED BY <1>1, <1>3, <1>4, <1>5, <1>6

\* Between two line ends there is no other, and the line there is empty only if it is all of it.
LEMMA EmptyWithin ==
  ASSUME sent.bytes \in Seq(Alphabet), NEW at \in Nat, at > 0, sent.bytes[at] = "LF",
         at <= Len(sent.bytes), LineEnd(at) # 0,
         NEW j \in (at + 1)..LineEnd(at), EmptyLine(j)
  PROVE  /\ j = LineEnd(at)
         /\ SubSeq(sent.bytes, at + 1, LineEnd(at)) \in {<<"LF">>, <<"CR", "LF">>}
<1> DEFINE ends == {i \in (at + 1)..Len(sent.bytes) :
                      sent.bytes[i] = "LF" /\ \A k \in (at + 1)..(i - 1) : sent.bytes[k] # "LF"}
<1>1. ends # {} /\ LineEnd(at) = CHOOSE i \in ends : TRUE
  BY DEF LineEnd
<1>2. LineEnd(at) \in ends
  <2> HIDE DEF ends
  <2> QED BY <1>1
<1>3. PICK n \in Nat, e \in Nat : n = Len(sent.bytes) /\ e = LineEnd(at)
  <2>1. Len(sent.bytes) \in Nat
    BY LenProperties
  <2> QED BY <1>2, <2>1
<1>4. /\ e \in (at + 1)..n /\ sent.bytes[e] = "LF" /\ \A k \in (at + 1)..(e - 1) : sent.bytes[k] # "LF"
  BY <1>2, <1>3
<1>5. j = e
  BY <1>3, <1>4 DEF EmptyLine
<1>6. e \in at..Len(sent.bytes)
  BY <1>3, <1>4
<1> DEFINE part == Part(sent.bytes, at, e)
<1>7. /\ part \in Seq(Alphabet) /\ Len(part) = e - at /\ \A i \in 1..(e - at) : part[i] = sent.bytes[at + i]
  BY <1>6, PartIs, Zenon
<1>8. part = SubSeq(sent.bytes, at + 1, LineEnd(at))
  BY <1>3 DEF Part
<1> HIDE DEF part
<1>9. CASE sent.bytes[e - 1] = "LF"
  <2>1. e - 1 = at /\ e - at = 1
    BY <1>4, <1>9
  <2>2. Len(part) = 1 /\ part[1] = "LF"
    BY <1>4, <1>7, <2>1
  <2>3. part = <<"LF">>
    BY <1>7, <2>2
  <2> QED BY <1>3, <1>5, <1>8, <2>3
<1>10. CASE e > 2 /\ sent.bytes[e - 1] = "CR" /\ sent.bytes[e - 2] = "LF"
  <2>1. e - 1 # at
    BY <1>10
  <2>2. e - 2 = at /\ e - at = 2 /\ at + 1 = e - 1 /\ at + 2 = e
    BY <1>4, <1>10, <2>1
  <2>3. Len(part) = 2 /\ part[1] = "CR" /\ part[2] = "LF"
    <3>1. 1 \in 1..(e - at) /\ 2 \in 1..(e - at)
      BY <2>2
    <3>2. part[1] = sent.bytes[at + 1] /\ part[2] = sent.bytes[at + 2]
      BY <1>7, <3>1
    <3> QED BY <1>4, <1>7, <1>10, <2>2, <3>2
  <2>4. part = <<"CR", "LF">>
    BY <1>7, <2>3
  <2> QED BY <1>3, <1>5, <1>8, <2>4
<1> QED BY <1>5, <1>9, <1>10 DEF EmptyLine

\* No digit is behind a size.
SizeEnds == {"CR", "LF", ";", " ", "TAB"}
LEMMA NoDigits ==
  ASSUME NEW c \in SizeEnds
  PROVE  c \notin Hexadecimals /\ c \notin Digits
<1> DEFINE digits == {"0", "1", "2", "3", "4", "5", "6", "7", "8", "9", "a", "b", "c", "d", "e", "f",
                      "A", "B", "C", "D", "E", "F"}
<1>1. Hexadecimals \subseteq digits
  <2>1. ASSUME NEW i \in 1..22 PROVE HexDigit[i] \in digits
    BY DEF HexDigit
  <2> QED BY <2>1 DEF Hexadecimals
<1>2. Digits \subseteq Hexadecimals
  BY DEF Digits, Hexadecimals
<1>3. c \notin digits
  BY Zenon DEF SizeEnds
<1> HIDE DEF digits
<1> QED BY <1>1, <1>2, <1>3, Zenon

\* A text with digits at its start begins with one.
LEMMA DigitFirst ==
  ASSUME NEW S, NEW s \in Seq(S), DigitsOf(s) # <<>>
  PROVE  Len(s) > 0 /\ s[1] \in Digits
<1> DEFINE others == {i \in 1..Len(s) : s[i] \notin Digits}
           first == CHOOSE i \in others : \A j \in others : i <= j
<1>0. Len(s) \in Nat
  BY LenProperties
<1>1. CASE others = {}
  <2>1. Len(s) # 0
    BY <1>0, <1>1, EmptySeq DEF DigitsOf
  <2>2. 1 \in 1..Len(s)
    BY <1>0, <2>1
  <2> QED BY <1>0, <1>1, <2>1, <2>2
<1>2. CASE others # {}
  <2>1. DigitsOf(s) = SubSeq(s, 1, first - 1)
    BY <1>2 DEF DigitsOf
  <2>2. SUFFICES ASSUME 1 \in others PROVE FALSE
    <3>1. Len(s) # 0
      BY <1>0, <1>2
    <3> QED BY <1>0, <2>2, <3>1
  <2>3. \A j \in others : 1 <= j
    OBVIOUS
  <2>4. first = 1
    <3>1. first \in others /\ \A j \in others : first <= j
      BY <2>2, <2>3
    <3> QED BY <2>2, <2>3, <3>1
  <2>5. SubSeq(s, 1, 0) = <<>>
    OBVIOUS
  <2>6. first - 1 = 0
    BY <2>4
  <2> HIDE DEF first
  <2> QED BY <2>1, <2>5, <2>6
<1> QED BY <1>1, <1>2

\* What the line makes of a request.
LEMMA LineSays ==
  ASSUME ReadLine
  PROVE  /\ stage' \in {"uri", "headers", "over"} /\ (stage' = "over" => code' # 0)
         /\ \/ UNCHANGED rql
            \/ \E method, major, minor, star :
                 /\ rql' = [rql EXCEPT !.method = method, !.major = major, !.minor = minor, !.star = star]
                 /\ star => method = "OPTIONS"
<1> DEFINE end == LineEnd(0)
           split == Tokenized(LineText)
           good == {t \in Split(Words(LineText)) : IsMethod(Word(split, t[1])) /\ IsVersion(Word(split, t[3]))}
<1>1. CASE (\E c \in IF Len(sent.bytes) >= LineMax THEN {1} ELSE {1, 98, 99} : Ends(c)) /\ UNCHANGED rql
  <2>1. \E c \in {1, 98, 99} : Ends(c)
    BY <1>1
  <2> QED BY <1>1, <2>1 DEF Ends
<1>2. CASE Ends(400) /\ UNCHANGED rql
  BY <1>2 DEF Ends
<1>3. ASSUME NEW t, NEW method, NEW version, NEW star, star => method = "OPTIONS",
             rql' = [rql EXCEPT !.method = method, !.major = version.major,
                                !.minor = version.minor, !.star = star],
             IF star THEN GoOn(version) /\ UNCHANGED uri
             ELSE stage' = "uri" /\ uri' = UriAt(t[2]) /\ UNCHANGED code
      PROVE  /\ stage' \in {"uri", "headers", "over"} /\ (stage' = "over" => code' # 0)
             /\ \E m, major, minor, s :
                  /\ rql' = [rql EXCEPT !.method = m, !.major = major, !.minor = minor, !.star = s]
                  /\ s => m = "OPTIONS"
  <2>1. GoOn(version) \/ stage' = "uri"
    BY <1>3
  <2>2. stage' \in {"uri", "headers", "over"} /\ (stage' = "over" => code' # 0)
    BY <2>1 DEF GoOn, Ends
  <2> QED BY <1>3, <2>2
<1>4. CASE \E t \in good :
             LET method == MethodOf(Word(split, t[1]))
                 version == VersionOf(Word(split, t[3]))
                 star == method = "OPTIONS" /\ Word(split, t[2]) = <<"*">>
             IN  /\ rql' = [rql EXCEPT !.method = method, !.major = version.major,
                                       !.minor = version.minor, !.star = star]
                 /\ IF star THEN GoOn(version) /\ UNCHANGED uri
                    ELSE stage' = "uri" /\ uri' = UriAt(t[2]) /\ UNCHANGED code
  <2> HIDE DEF split, good, end
  <2> QED BY <1>3, <1>4
<1> HIDE DEF good, split, end
<1> QED BY <1>1, <1>2, <1>4 DEF ReadLine, split, good, end

\* Before the headers there is no body.
LEMMA EarlyBody ==
  ASSUME Inv, BodyKnown, ReadLine \/ ParseUri \/ UriEnds
  PROVE  BodyKnown' /\ (stage' = "over" => code' # 0)
<1>1. UNCHANGED <<sent, hdr, body>> /\ body = <<>> /\ stage \in {"line", "uri"}
  BY DEF ReadLine, ParseUri, UriEnds, BodyKnown
<1>2. stage' \in {"uri", "headers", "over"} /\ (stage' = "over" => code' # 0)
  <2>1. CASE ReadLine
    BY <2>1, LineSays
  <2>2. CASE ParseUri
    BY <1>1, <2>2 DEF ParseUri, Ends
  <2>3. CASE UriEnds
    BY <2>3 DEF UriEnds, GoOn, Ends
  <2> QED BY <2>1, <2>2, <2>3
<1>3. LineEnd(0)' = LineEnd(0)
  BY <1>1, SaidStays
<1>4. /\ {"method", "minor", "star", "coding", "length", "host", "port"} \subseteq DOMAIN rql'
      /\ rql'.star => rql'.method = "OPTIONS"
  <2>1. CASE ReadLine
    <3>1. \/ UNCHANGED rql
          \/ \E method, major, minor, star :
               /\ rql' = [rql EXCEPT !.method = method, !.major = major, !.minor = minor, !.star = star]
               /\ star => method = "OPTIONS"
      BY <2>1, LineSays
    <3> QED BY <3>1 DEF BodyKnown
  <2>2. CASE ~ReadLine
    BY <2>2 DEF ParseUri, UriEnds, BodyKnown
  <2> QED BY <2>1, <2>2
<1> QED BY <1>1, <1>2, <1>3, <1>4 DEF BodyKnown

\* The headers end with an empty line, which is the first.
LEMMA HeadersBeforeBody ==
  ASSUME Inv, Inv', BodyKnown, ParseHeader
  PROVE  BodyKnown' /\ (stage' = "over" => code' # 0)
<1>1. UNCHANGED <<sent, rql, body>> /\ body = <<>> /\ stage = "headers"
  BY DEF ParseHeader, BodyKnown
<1>2. stage' \in {"headers", "request", "over"} /\ (stage' = "over" => code' # 0)
  BY DEF ParseHeader, Ends
<1>3. LineEnd(0)' = LineEnd(0) /\ \A i : EmptyLine(i)' <=> EmptyLine(i)
  BY <1>1 DEF LineEnd, EmptyLine
<1>4. ASSUME stage' = "request" PROVE AfterHead(rd)'
  <2>1. LineEnd(0) <= rd /\ rd \in Nat /\ Len(sent.bytes) \in Nat /\ rd <= Len(sent.bytes)
    BY <1>1, LenProperties DEF Inv, HeadInv
  <2>2. rd < Len(sent.bytes)
    <3>1. SUFFICES ASSUME ~(rd < Len(sent.bytes)) PROVE FALSE
      OBVIOUS
    <3>2. PICK row \in HeaderTaken(hdr, "NUL") : TRUE
      BY <1>4, <3>1 DEF ParseHeader, Ends
    <3>3. HeaderClass("NUL") \in row.on /\ row \in HeaderRows
      BY <3>2 DEF HeaderTaken
    <3> QED BY <3>3, RowClasses
  <2>3. rd' = rd + 1
    BY <2>2 DEF ParseHeader
  <2>4. EmptyLine(rd)' /\ \A i \in (LineEnd(0)' + 1)..(rd' - 1) : EmptyLine(i)' <=> FALSE
    BY <1>4 DEF Inv, HeadInv, HeadIsOver
  <2>5. rd' \in (LineEnd(0)' + 1)..Len(sent'.bytes)
    BY <1>1, <1>3, <2>1, <2>2, <2>3 DEF BodyKnown
  <2> QED BY <2>4, <2>5 DEF AfterHead
<1> QED BY <1>1, <1>2, <1>3, <1>4 DEF BodyKnown

\* A request that is served as it is, without a body.
LEMMA NoBody ==
  ASSUME Inv, AfterHead(rd), LineEnd(0) \in Nat, TransferCoding = "none", body = <<>>
  PROVE  /\ ~(Search(hdr, Chars("Transfer-Encoding")).there /\ rql.minor = 1)
         /\ rd = HeadEnd + (IF Announced.there THEN NumberOf(DigitsOf(Announced.text)) ELSE 0)
         /\ body = SubSeq(sent.bytes, HeadEnd + 1, rd) /\ ~(rd > HeadEnd) /\ Len(body) <= MaxBody
<1>1. rd \in Nat /\ HeadEnd = rd /\ rd \in 0..Len(sent.bytes) /\ sent.bytes \in Seq(Alphabet)
  <2>1. rd \in Nat /\ rd \in 0..Len(sent.bytes) /\ sent.bytes \in Seq(Alphabet)
    BY LenProperties DEF Inv
  <2> QED BY <2>1, HeadEndIs
<1>2. /\ ~(Search(hdr, Chars("Transfer-Encoding")).there /\ rql.minor = 1)
      /\ Announced.there => NumberOf(DigitsOf(Announced.text)) = 0
  BY DEF TransferCoding, Announced
<1>3. Part(sent.bytes, rd, rd) = <<>>
  <2>1. rd \in rd..Len(sent.bytes)
    BY <1>1
  <2>2. Part(sent.bytes, rd, rd) \in Seq(Alphabet) /\ Len(Part(sent.bytes, rd, rd)) = rd - rd
    BY <1>1, <2>1, PartIs, Zenon
  <2>3. rd - rd = 0
    BY <1>1
  <2> QED BY <2>2, <2>3, EmptySeq
<1>4. Len(body) <= MaxBody
  BY RequestAssumption
<1> QED BY <1>1, <1>2, <1>3, <1>4 DEF Part

\* What main() makes of the headers.
LEMMA InterpretsBody ==
  ASSUME Inv, BodyKnown, Interpret
  PROVE  BodyKnown' /\ (stage' = "over" /\ code' = 0 => BodyAsAnnounced')
<1>1. /\ UNCHANGED <<sent, rd, hdr, body>> /\ stage = "request" /\ body = <<>> /\ AfterHead(rd)
      /\ LineEnd(0) \in Nat /\ rd \in Nat
  BY DEF Interpret, BodyKnown, Inv
<1>2. \/ stage' = "over" /\ code' # 0 /\ UNCHANGED rql
      \/ /\ stage' = "over" /\ code' = 0 /\ UNCHANGED rql /\ rql.star
         /\ TransferCoding = "none" \/ rql.method \in Writing
      \/ /\ TransferCoding # "bad" /\ (TransferCoding = "none" \/ rql.method \in Writing)
         /\ \E host, port :
              rql' = [rql EXCEPT !.host = host, !.port = port, !.coding = TransferCoding,
                                 !.length = IF TransferCoding = "fixed" THEN ContentLength ELSE 0]
         /\ IF TransferCoding = "none" THEN stage' = "over" /\ code' = 0
            ELSE stage' = IF TransferCoding = "fixed" THEN "fixed" ELSE "chunk"
  <2> DEFINE host == Search(hdr, Chars("Host"))
             named == IF uri.host # None THEN StringAt(line, uri.host)
                      ELSE IF host.there THEN HostOf(host.text) ELSE <<"default">>
             port == IF uri.port # 0 THEN uri.port
                     ELSE IF host.there /\ HostOf(host.text) # host.text
                     THEN NumberOf(PortOf(host.text))
                     ELSE DefaultPort
             refused == \/ TransferCoding = "bad"
                        \/ TransferCoding # "none" /\ rql.method \notin {"POST", "PUT", "PATCH"}
             badhost == IF host.there THEN HostIsBad(host.text) ELSE rql.minor = 1
  <2>1. IF refused THEN Ends(400) /\ UNCHANGED rql
        ELSE IF rql.star THEN Ends(0) /\ UNCHANGED rql
        ELSE IF rql.method \in {"CONNECT", "PRI"} THEN Ends(501) /\ UNCHANGED rql
        ELSE IF badhost THEN Ends(400) /\ UNCHANGED rql
        ELSE /\ rql' = [rql EXCEPT !.host = named, !.port = port, !.coding = TransferCoding,
                                   !.length = IF TransferCoding = "fixed" THEN ContentLength ELSE 0]
             /\ IF TransferCoding = "none" THEN Ends(0)
                ELSE /\ stage' = IF TransferCoding = "fixed" THEN "fixed" ELSE "chunk"
                     /\ UNCHANGED code
    BY DEF Interpret
  <2>2. ~refused => TransferCoding # "bad" /\ (TransferCoding = "none" \/ rql.method \in Writing)
    BY DEF Writing
  <2> HIDE DEF host, named, port, refused, badhost
  <2>3. CASE refused
    BY <2>1, <2>3 DEF Ends
  <2>4. CASE ~refused /\ rql.star
    BY <2>1, <2>2, <2>4 DEF Ends
  <2>5. CASE ~refused /\ ~rql.star
    <3>1. CASE rql.method \in {"CONNECT", "PRI"}
      BY <2>1, <2>5, <3>1 DEF Ends
    <3>2. CASE rql.method \notin {"CONNECT", "PRI"} /\ badhost
      BY <2>1, <2>5, <3>2 DEF Ends
    <3>3. CASE rql.method \notin {"CONNECT", "PRI"} /\ ~badhost
      <4>1. /\ rql' = [rql EXCEPT !.host = named, !.port = port, !.coding = TransferCoding,
                                  !.length = IF TransferCoding = "fixed" THEN ContentLength ELSE 0]
            /\ IF TransferCoding = "none" THEN stage' = "over" /\ code' = 0
               ELSE stage' = IF TransferCoding = "fixed" THEN "fixed" ELSE "chunk"
        BY <2>1, <2>5, <3>3 DEF Ends
      <4> QED BY <2>2, <2>5, <4>1
    <3> QED BY <3>1, <3>2, <3>3
  <2> QED BY <2>3, <2>4, <2>5
<1>3. /\ LineEnd(0)' = LineEnd(0) /\ HeadEnd' = HeadEnd /\ ContentLength' = ContentLength
      /\ rql'.minor = rql.minor => TransferCoding' = TransferCoding
      /\ AfterHead(rd)' <=> AfterHead(rd)
  BY <1>1, SaidStays
<1>4. /\ {"method", "minor", "star", "coding", "length", "host", "port"} \subseteq DOMAIN rql'
      /\ rql'.star = rql.star /\ rql'.method = rql.method /\ rql'.minor = rql.minor
  BY <1>2 DEF BodyKnown
<1>5. TransferCoding \in {"none", "bad", "fixed", "chunked"}
  BY DEF TransferCoding
<1>6. CASE stage' = "over"
  <2>1. BodyKnown'
    BY <1>1, <1>3, <1>4, <1>6 DEF BodyKnown
  <2>2. ASSUME code' = 0 PROVE BodyAsAnnounced'
    <3>1. TransferCoding = "none"
      BY <1>2, <1>5, <1>6, <2>2 DEF BodyKnown, Writing
    <3>2. /\ ~(Search(hdr, Chars("Transfer-Encoding")).there /\ rql.minor = 1)
          /\ rd = HeadEnd + (IF Announced.there THEN NumberOf(DigitsOf(Announced.text)) ELSE 0)
          /\ body = SubSeq(sent.bytes, HeadEnd + 1, rd) /\ ~(rd > HeadEnd) /\ Len(body) <= MaxBody
      BY <1>1, <3>1, NoBody
    <3> QED BY <1>1, <1>3, <1>4, <3>2 DEF BodyAsAnnounced, Announced
  <2> QED BY <2>1, <2>2
<1>7. CASE stage' # "over"
  <2>1. /\ stage' = IF TransferCoding = "fixed" THEN "fixed" ELSE "chunk"
        /\ TransferCoding \in {"fixed", "chunked"} /\ rql.method \in Writing
        /\ TransferCoding = "fixed" => rql'.length = ContentLength
    BY <1>2, <1>5, <1>7 DEF BodyKnown
  <2>2. rd \in 1..rd
    BY <1>1 DEF AfterHead
  <2>3. ChunksSoFar'
    <3>1. HeadEnd = rd
      BY <1>1, HeadEndIs
    <3>2. HeadEnd' = rd' /\ rd' \in Nat /\ body' = <<>>
      BY <1>1, <1>3, <3>1
    <3>3. PICK r \in Nat, l \in Nat : r = rd' /\ r = HeadEnd' /\ l = 0 /\ l = Len(body')
      BY <3>2
    <3>3a. r <= r /\ l <= r - r
      <4>1. \A m \in Nat : m <= m /\ 0 <= m - m
        OBVIOUS
      <4>2. l = 0
        BY <3>3
      <4> QED BY <4>1, <4>2, Zenon
    <3>4. HeadEnd' <= rd' /\ Len(body') <= rd' - HeadEnd' /\ rd' = HeadEnd' /\ body' = <<>>
      BY <3>2, <3>3, <3>3a, Zenon
    <3> QED BY <3>4 DEF ChunksSoFar
  <2> QED BY <1>1, <1>3, <1>4, <1>7, <2>1, <2>2, <2>3 DEF BodyKnown
<1> QED BY <1>6, <1>7

\* A body with a length.
LEMMA FixedBody ==
  ASSUME Inv, BodyKnown, ReadFixed
  PROVE  BodyKnown' /\ (stage' = "over" /\ code' = 0 => BodyAsAnnounced')
<1>1. /\ UNCHANGED <<sent, hdr, rql>> /\ stage = "fixed" /\ body = <<>> /\ AfterHead(rd)
      /\ LineEnd(0) \in Nat /\ rd \in Nat /\ sent.bytes \in Seq(Alphabet) /\ Len(sent.bytes) \in Nat
      /\ rql.length \in Nat /\ rql.length = ContentLength /\ TransferCoding = "fixed"
      /\ rql.method \in Writing /\ MaxBody \in Nat
  BY RequestAssumption, LenProperties DEF ReadFixed, BodyKnown, Inv
<1>2. stage' = "over"
  BY DEF ReadFixed, Ends
<1>3. /\ LineEnd(0)' = LineEnd(0) /\ HeadEnd' = HeadEnd
  BY <1>1, SaidStays
<1>4. CASE UNCHANGED body /\ code' # 0
  BY <1>1, <1>2, <1>3, <1>4 DEF BodyKnown
<1>5. CASE /\ ~(rql.length > MaxBody) /\ ~(rd + rql.length > Len(sent.bytes))
           /\ body' = SubSeq(sent.bytes, rd + 1, rd + rql.length) /\ rd' = rd + rql.length
  <2>1. PICK end \in Nat : end = rd + rql.length
    BY <1>1
  <2>2. end \in rd..Len(sent.bytes) /\ end - rd = rql.length /\ rd' = end
    <3>1. PICK n \in Nat, l \in Nat, r \in Nat : n = Len(sent.bytes) /\ l = rql.length /\ r = rd
      BY <1>1
    <3>2. end = r + l /\ ~(r + l > n)
      BY <1>5, <2>1, <3>1
    <3>3. end \in r..n /\ end - r = l
      BY <3>2
    <3> QED BY <1>5, <2>1, <3>1, <3>3
  <2>3. body' = Part(sent.bytes, rd, end)
    BY <1>5, <2>1 DEF Part
  <2>4. body' \in Seq(Alphabet) /\ Len(body') = rql.length
    BY <1>1, <2>2, <2>3, PartIs
  <2>5. Len(body') <= MaxBody
    BY <1>1, <1>5, <2>4
  <2>6. BodyKnown'
    BY <1>1, <1>2, <1>3, <2>4, <2>5 DEF BodyKnown
  <2>7. HeadEnd = rd
    BY <1>1, HeadEndIs
  <2>8. /\ ~(Search(hdr, Chars("Transfer-Encoding")).there /\ rql.minor = 1)
        /\ Announced.there /\ rql.length = NumberOf(DigitsOf(Announced.text))
    BY <1>1 DEF TransferCoding, ContentLength, Announced
  <2>9. rd' = HeadEnd' + rql.length /\ body' = SubSeq(sent.bytes, HeadEnd' + 1, rd')
    BY <1>3, <2>1, <2>2, <2>3, <2>7 DEF Part
  <2>10. BodyAsAnnounced'
    BY <1>1, <2>5, <2>8, <2>9 DEF BodyAsAnnounced, Announced, Writing
  <2> QED BY <2>6, <2>10
<1>6. \/ UNCHANGED body /\ code' # 0
      \/ /\ ~(rql.length > MaxBody) /\ ~(rd + rql.length > Len(sent.bytes))
         /\ body' = SubSeq(sent.bytes, rd + 1, rd + rql.length) /\ rd' = rd + rql.length
  BY DEF ReadFixed, Ends
<1> QED BY <1>4, <1>5, <1>6

\* A sum that is small enough is not changed by its width.
LEMMA NoWrap ==
  ASSUME NEW m \in Nat, NEW n \in Nat, n < m
  PROVE  n % m = n
OBVIOUS

\* One chunk.
LEMMA ChunkOfBody ==
  ASSUME Inv, BodyKnown, ReadChunk, SendsLess
  PROVE  BodyKnown' /\ (stage' = "over" => code' # 0)
<1>1. /\ UNCHANGED <<sent, hdr, rql>> /\ stage = "chunk" /\ body \in Seq(Alphabet)
      /\ Len(body) \in Nat /\ Len(body) <= MaxBody /\ LineEnd(0) \in Nat /\ rd \in Nat
      /\ sent \in Requests /\ sent.bytes \in Seq(Alphabet) /\ Len(sent.bytes) \in Nat
      /\ TransferCoding = "chunked" /\ rql.method \in Writing /\ MaxBody \in Nat /\ SizeMax \in Nat
      /\ rd <= Len(sent.bytes)
  <2>1. UNCHANGED <<sent, hdr, rql>> /\ stage = "chunk"
    BY DEF ReadChunk
  <2>2. MaxBody \in Nat /\ SizeMax \in Nat
    BY RequestAssumption
  <2>3. /\ rd \in 0..Len(sent.bytes) /\ sent \in Requests /\ sent.bytes \in Seq(Alphabet)
        /\ Len(sent.bytes) \in Nat
    BY LenProperties DEF Inv
  <2>4. /\ body \in Seq(Alphabet) /\ Len(body) <= MaxBody /\ LineEnd(0) \in Nat
        /\ TransferCoding = "chunked" /\ rql.method \in Writing
    BY <2>1 DEF BodyKnown
  <2>5. Len(body) \in Nat
    BY <2>4, LenProperties
  <2> QED BY <2>1, <2>2, <2>3, <2>4, <2>5
<1>2. PICK i \in 1..rd : AfterHead(i)
  BY <1>1 DEF BodyKnown
<1>2a. HeadEnd = i /\ i \in Nat /\ ChunksSoFar
  BY <1>1, <1>2, HeadEndIs DEF BodyKnown
<1>3. /\ LineEnd(0)' = LineEnd(0) /\ TransferCoding' = TransferCoding
      /\ \A k : AfterHead(k)' <=> AfterHead(k)
  BY <1>1, SaidStays
<1> DEFINE text == SubSeq(sent.bytes, rd + 1, LineEnd(rd))
           digits == DigitsOf(text)
           size == NumberOf(digits)
           data == LineEnd(rd)
           wrong == ~IsNumber(text, SizeMax) \/ text[Len(digits) + 1] \notin {"CR", "LF", ";", " ", "TAB"}
           takes == /\ HasLine /\ ~wrong /\ size # 0
                    /\ ~((Len(body) + size) % (SizeMax + 1) > MaxBody) /\ ~(data + size > Len(sent.bytes))
                    /\ body' = body \o SubSeq(sent.bytes, data + 1, data + size)
                    /\ rd' = data + size /\ UNCHANGED <<stage, code>>
<1>4. \/ stage' = "over" /\ code' # 0 /\ UNCHANGED body
      \/ HasLine /\ ~wrong /\ size = 0 /\ stage' = "trailer" /\ rd' = data /\ UNCHANGED body
      \/ takes
  <2>1. IF ~HasLine THEN Stops
        ELSE IF wrong THEN Ends(400) /\ rd' = data /\ UNCHANGED body
        ELSE IF size = 0 THEN stage' = "trailer" /\ rd' = data /\ UNCHANGED <<code, body>>
        ELSE IF (Len(body) + size) % (SizeMax + 1) > MaxBody THEN Ends(413) /\ rd' = data /\ UNCHANGED body
        ELSE IF data + size > Len(sent.bytes) THEN Stops
        ELSE /\ body' = body \o SubSeq(sent.bytes, data + 1, data + size)
             /\ rd' = data + size
             /\ UNCHANGED <<stage, code>>
    BY DEF ReadChunk
  <2>2. Stops => stage' = "over" /\ code' # 0 /\ UNCHANGED body
    BY DEF Stops, Ends
  <2> HIDE DEF text, digits, size, data, wrong
  <2>3. CASE ~HasLine
    BY <2>1, <2>2, <2>3
  <2>4. CASE HasLine /\ wrong
    BY <2>1, <2>4 DEF Ends
  <2>5. CASE HasLine /\ ~wrong
    <3>1. CASE size = 0
      BY <2>1, <2>5, <3>1
    <3>2. CASE size # 0 /\ (Len(body) + size) % (SizeMax + 1) > MaxBody
      <4>1. Ends(413) /\ UNCHANGED body
        BY <2>1, <2>5, <3>2, Zenon
      <4> QED BY <4>1 DEF Ends
    <3>3. CASE size # 0 /\ ~((Len(body) + size) % (SizeMax + 1) > MaxBody)
      <4>1. IF data + size > Len(sent.bytes) THEN Stops
            ELSE /\ body' = body \o SubSeq(sent.bytes, data + 1, data + size)
                 /\ rd' = data + size
                 /\ UNCHANGED <<stage, code>>
        BY <2>1, <2>5, <3>3, Zenon
      <4> QED BY <2>2, <2>5, <3>3, <4>1, Zenon
    <3> QED BY <3>1, <3>2, <3>3
  <2> QED BY <2>3, <2>4, <2>5
<1>5. HasLine => data \in Nat /\ data > rd /\ data <= Len(sent.bytes) /\ sent.bytes[data] = "LF"
  <2>1. HasLine => data # 0
    BY DEF HasLine
  <2>2. data # 0 => data \in (rd + 1)..Len(sent.bytes) /\ At(data) = "LF"
    BY <1>1, LineEndIs
  <2> HIDE DEF data
  <2> QED BY <1>1, <2>1, <2>2 DEF At
<1>6. ~wrong => size \in 0..SizeMax
  BY DEF IsNumber
<1> HIDE DEF text, digits, size, data, wrong
<1>6e. ~wrong => digits # <<>> /\ text[Len(digits) + 1] \in SizeEnds
  BY Zenon DEF wrong, IsNumber, SizeEnds, digits
<1>6a. HasLine /\ ~wrong => ~LineEndBehind(rd)
  <2> SUFFICES ASSUME HasLine, ~wrong PROVE ~LineEndBehind(rd)
    OBVIOUS
  <2>1. data \in rd..Len(sent.bytes) /\ data \in Nat /\ data > rd
    BY <1>1, <1>5
  <2>2. text = Part(sent.bytes, rd, data)
    BY DEF Part, text, data
  <2>3. /\ text \in Seq(Alphabet) /\ Len(text) = data - rd
        /\ \A k \in 1..(data - rd) : text[k] = sent.bytes[rd + k]
    <3>1. sent.bytes \in Seq(Alphabet) /\ rd \in Nat
      BY <1>1
    <3> QED BY <2>1, <2>2, <3>1, PartIs, Zenon
  <2>4. DigitsOf(text) # <<>>
    BY <1>6e DEF digits
  <2>5. text[1] \in Digits
    BY <2>3, <2>4, DigitFirst
  <2>6. 1 \in 1..(data - rd)
    BY <1>1, <2>1
  <2>7. sent.bytes[rd + 1] \in Digits
    BY <2>3, <2>5, <2>6
  <2>8. "CR" \notin Digits /\ "LF" \notin Digits
    <3>1. "CR" \in SizeEnds /\ "LF" \in SizeEnds
      BY Zenon DEF SizeEnds
    <3> QED BY <3>1, NoDigits
  <2> QED BY <2>7, <2>8 DEF LineEndBehind
<1>6b. size = DecimalSize(rd)
  BY DEF DecimalSize, SizeLine, size, digits, text
<1>6c. HasLine /\ ~wrong /\ size = 0 => NoMore(rd)
  <2>1. ~wrong => digits # <<>> /\ text[Len(digits) + 1] \notin Hexadecimals
    BY <1>6e, NoDigits
  <2>2. HasLine => LineEnd(rd) # 0
    BY DEF HasLine
  <2> QED BY <1>6b, <2>1, <2>2 DEF NoMore, SizeLine, text, digits
<1>6d. /\ HeadEnd' = i /\ (Misread' <=> Misread)
       /\ \A at : /\ LineEnd(at)' = LineEnd(at) /\ HexSize(at)' = HexSize(at)
                 /\ DecimalSize(at)' = DecimalSize(at) /\ (NoMore(at)' <=> NoMore(at))
                 /\ (EmptyLine(at)' <=> EmptyLine(at))
  BY <1>1, <1>2a, SizesStay
<1>7. CASE stage' = "over" /\ code' # 0 /\ UNCHANGED body
  BY <1>1, <1>3, <1>7 DEF BodyKnown
<1>8. CASE HasLine /\ ~wrong /\ size = 0 /\ stage' = "trailer" /\ rd' = data /\ UNCHANGED body
  <2>1. i \in 1..data /\ i < data
    BY <1>1, <1>2, <1>5, <1>8
  <2>2. NoMore(rd) /\ DecimalSize(rd) = 0 /\ ~LineEndBehind(rd)
    BY <1>6a, <1>6b, <1>6c, <1>8
  <2>3. (rd = i /\ body = <<>> /\ HexSize(i) = 0) \/ Misread
    <3>1. \/ rd = i /\ body = <<>>
          \/ Misread
          \/ HexSize(i) # 0 /\ rd = LineEnd(i) + HexSize(i)
      BY <1>2a DEF ChunksSoFar
    <3>2. CASE rd = i /\ body = <<>>
      BY <1>2a, <2>2, <3>2 DEF Misread
    <3>3. CASE HexSize(i) # 0 /\ rd = LineEnd(i) + HexSize(i)
      BY <1>2a, <2>2, <3>3 DEF Misread
    <3> QED BY <3>1, <3>2, <3>3
  <2>4. Len(body) <= rd - i /\ i <= rd
    BY <1>2a DEF ChunksSoFar
  <2>5. LastChunkRead'
    <3>1. rd \in i..(rd' - 1) /\ rd' = data /\ data \in Nat
      BY <1>1, <1>5, <1>8, <2>4
    <3>2. LineEnd(rd) = data
      BY DEF data
    <3>3. \A k \in (data + 1)..data : FALSE
      BY <3>1
    <3>4. \E at \in i..(rd' - 1) :
            /\ NoMore(at) /\ Len(body') <= at - i /\ LineEnd(at) <= rd'
            /\ \A k \in (LineEnd(at) + 1)..rd' : ~EmptyLine(k)
            /\ (at = i /\ body' = <<>> /\ HexSize(i) = 0) \/ Misread
      <4>1. /\ NoMore(rd) /\ Len(body') <= rd - i /\ LineEnd(rd) <= rd'
            /\ \A k \in (LineEnd(rd) + 1)..rd' : ~EmptyLine(k)
            /\ (rd = i /\ body' = <<>> /\ HexSize(i) = 0) \/ Misread
        BY <1>1, <1>8, <2>2, <2>3, <2>4, <3>1, <3>2, <3>3
      <4> QED BY <3>1, <4>1
    <3> QED BY <1>6d, <3>4 DEF LastChunkRead
  <2> QED BY <1>1, <1>2, <1>3, <1>5, <1>8, <2>1, <2>5 DEF BodyKnown
<1>9. CASE takes
  <2>0. /\ HasLine /\ ~wrong /\ size # 0 /\ ~(data + size > Len(sent.bytes))
        /\ ~((Len(body) + size) % (SizeMax + 1) > MaxBody)
        /\ body' = body \o SubSeq(sent.bytes, data + 1, data + size)
        /\ rd' = data + size /\ UNCHANGED <<stage, code>>
    BY <1>9
  <2> HIDE DEF takes
  <2>1. /\ data \in Nat /\ data > rd /\ size \in 0..SizeMax /\ data + size <= Len(sent.bytes)
        /\ size \in Nat
    <3>1. data \in Nat /\ data > rd /\ size \in 0..SizeMax
      BY <1>5, <1>6, <2>0
    <3>2. size \in Nat
      BY <1>1, <3>1
    <3>3. ~(data + size > Len(sent.bytes))
      BY <2>0
    <3> QED BY <1>1, <3>1, <3>2, <3>3
  <2>2. Len(sent.bytes) + MaxBody <= SizeMax
    BY <1>1 DEF SendsLess
  <2>3. Len(body) + size \in 0..SizeMax
    BY <1>1, <2>1, <2>2
  <2>4. (Len(body) + size) % (SizeMax + 1) = Len(body) + size
    <3>1. SizeMax + 1 \in Nat /\ Len(body) + size \in Nat /\ Len(body) + size < SizeMax + 1
      BY <1>1, <2>3
    <3> QED BY <3>1, NoWrap, Zenon
  <2>5. Len(body) + size <= MaxBody
    BY <1>1, <2>0, <2>1, <2>4
  <2>6. PICK end \in Nat : end = data + size
    BY <2>1
  <2>7. end \in data..Len(sent.bytes) /\ end - data = size /\ rd' = end /\ end >= rd
    BY <1>1, <2>0, <2>1, <2>6
  <2>8. body' = body \o Part(sent.bytes, data, end)
    BY <2>0, <2>6 DEF Part
  <2>9. Part(sent.bytes, data, end) \in Seq(Alphabet) /\ Len(Part(sent.bytes, data, end)) = size
    <3>1. Part(sent.bytes, data, end) \in Seq(Alphabet) /\ Len(Part(sent.bytes, data, end)) = end - data
      <4>1. sent.bytes \in Seq(Alphabet) /\ data \in Nat /\ end \in data..Len(sent.bytes)
        BY <1>1, <2>1, <2>7
      <4> HIDE DEF data
      <4> QED BY <4>1, PartIs
    <3> QED BY <2>7, <3>1
  <2>10. body' \in Seq(Alphabet) /\ Len(body') = Len(body) + size
    BY <1>1, <2>8, <2>9, CatAt
  <2>11. i \in 1..rd' /\ stage' = "chunk"
    BY <1>1, <1>2, <2>0, <2>7
  <2>12. ChunksSoFar'
    <3>1. /\ i <= rd /\ Len(body) <= rd - i
          /\ \/ rd = i /\ body = <<>>
             \/ Misread
             \/ HexSize(i) # 0 /\ rd = LineEnd(i) + HexSize(i)
      BY <1>2a DEF ChunksSoFar
    <3>2. i <= rd' /\ Len(body') <= rd' - i
      <4>1. PICK b \in Nat : b = Len(body)
        BY <1>1
      <4> QED BY <1>1, <1>2a, <2>1, <2>6, <2>7, <2>10, <3>1, <4>1
    <3>3. ~LineEndBehind(rd) /\ size = DecimalSize(rd)
      BY <1>6a, <1>6b, <2>0
    <3>4. Misread \/ (HexSize(i) # 0 /\ rd' = LineEnd(i) + HexSize(i))
      <4>1. CASE rd = i /\ body = <<>>
        <5>1. HexSize(i) # DecimalSize(i) => Misread
          BY <1>2a DEF Misread
        <5>2. HexSize(i) = DecimalSize(i) => HexSize(i) # 0 /\ rd' = LineEnd(i) + HexSize(i)
          BY <2>0, <3>3, <4>1 DEF data
        <5> QED BY <5>1, <5>2
      <4>2. CASE HexSize(i) # 0 /\ rd = LineEnd(i) + HexSize(i)
        BY <1>2a, <3>3, <4>2 DEF Misread
      <4> QED BY <3>1, <4>1, <4>2
    <3>5. /\ HeadEnd' <= rd' /\ Len(body') <= rd' - HeadEnd'
          /\ Misread' \/ (HexSize(HeadEnd)' # 0 /\ rd' = (LineEnd(HeadEnd) + HexSize(HeadEnd))')
      BY <1>6d, <3>2, <3>4
    <3> QED BY <3>5 DEF ChunksSoFar
  <2> QED BY <1>1, <1>2, <1>3, <2>5, <2>10, <2>11, <2>12 DEF BodyKnown
<1> QED BY <1>4, <1>7, <1>8, <1>9

\* What is behind the last chunk.
LEMMA TrailerOfBody ==
  ASSUME Inv, BodyKnown, ReadTrailer
  PROVE  BodyKnown' /\ (stage' = "over" /\ code' = 0 => BodyAsAnnounced')
<1>1. /\ UNCHANGED <<sent, hdr, rql, body>> /\ stage = "trailer" /\ body \in Seq(Alphabet)
      /\ Len(body) <= MaxBody /\ LineEnd(0) \in Nat /\ rd \in Nat
      /\ sent.bytes \in Seq(Alphabet) /\ Len(sent.bytes) \in Nat /\ rd <= Len(sent.bytes)
      /\ TransferCoding = "chunked" /\ rql.method \in Writing /\ sent.bytes[rd] = "LF"
  BY LenProperties DEF ReadTrailer, Stops, BodyKnown, Inv
<1>2. PICK i \in 1..rd : AfterHead(i) /\ i < rd
  BY <1>1 DEF BodyKnown
<1>3. /\ LineEnd(0)' = LineEnd(0) /\ TransferCoding' = TransferCoding /\ HeadEnd' = HeadEnd
      /\ \A k : AfterHead(k)' <=> AfterHead(k)
      /\ \A k : EmptyLine(k)' <=> EmptyLine(k)
  BY <1>1, SaidStays
<1>3a. PICK at \in i..(rd - 1) :
         /\ NoMore(at) /\ Len(body) <= at - i /\ LineEnd(at) <= rd
         /\ \A k \in (LineEnd(at) + 1)..rd : ~EmptyLine(k)
         /\ (at = i /\ body = <<>> /\ HexSize(i) = 0) \/ Misread
  <2>1. LastChunkRead /\ HeadEnd = i
    BY <1>1, <1>2, HeadEndIs DEF BodyKnown
  <2> QED BY <2>1 DEF LastChunkRead
<1>3b. at \in Nat /\ LineEnd(at) \in Nat /\ HeadEnd = i /\ i \in Nat
  <2>1. at \in Nat /\ i \in Nat /\ HeadEnd = i
    BY <1>1, <1>2, HeadEndIs
  <2>2. LineEnd(at) # 0
    BY <1>3a DEF NoMore
  <2>3. LineEnd(at) \in (at + 1)..Len(sent.bytes)
    BY <1>1, <2>1, <2>2, LineEndIs
  <2> QED BY <1>1, <2>1, <2>3
<1>3c. /\ HeadEnd' = i /\ (Misread' <=> Misread)
       /\ \A k : /\ LineEnd(k)' = LineEnd(k) /\ HexSize(k)' = HexSize(k)
                /\ DecimalSize(k)' = DecimalSize(k) /\ (NoMore(k)' <=> NoMore(k))
                /\ (EmptyLine(k)' <=> EmptyLine(k))
  BY <1>1, <1>3b, SizesStay
<1> DEFINE data == LineEnd(rd)
<1>4. \/ stage' = "over" /\ code' # 0
      \/ /\ HasLine /\ rd' = data /\ stage' = "over"
         /\ SubSeq(sent.bytes, rd + 1, data) \in {<<"LF">>, <<"CR", "LF">>}
      \/ /\ HasLine /\ rd' = data /\ stage' = "trailer"
         /\ SubSeq(sent.bytes, rd + 1, data) \notin {<<"LF">>, <<"CR", "LF">>}
  BY <1>1 DEF ReadTrailer, Stops, Ends
<1>5. HasLine => data \in Nat /\ data > rd /\ data <= Len(sent.bytes) /\ sent.bytes[data] = "LF" /\ data # 0
  <2>1. HasLine => data # 0
    BY DEF HasLine
  <2>2. data # 0 => data \in (rd + 1)..Len(sent.bytes) /\ At(data) = "LF"
    BY <1>1, LineEndIs
  <2> HIDE DEF data
  <2> QED BY <1>1, <2>1, <2>2 DEF At
<1>5a. ASSUME HasLine, NEW k \in (rd + 1)..data, EmptyLine(k)
       PROVE  k = data /\ SubSeq(sent.bytes, rd + 1, data) \in {<<"LF">>, <<"CR", "LF">>}
  BY <1>1, <1>2, <1>5, <1>5a, EmptyWithin
<1> HIDE DEF data
<1>6. CASE stage' = "over" /\ code' # 0
  BY <1>1, <1>3, <1>6 DEF BodyKnown
<1>7. CASE /\ HasLine /\ rd' = data /\ stage' = "over"
           /\ SubSeq(sent.bytes, rd + 1, data) \in {<<"LF">>, <<"CR", "LF">>}
  <2>1. EmptyLine(data)
    BY <1>1, <1>2, <1>5, <1>7, EmptyBehind DEF data
  <2>2. HeadEnd = i
    BY <1>1, <1>2, HeadEndIs
  <2>3. EmptyLine(rd)' /\ rd' > HeadEnd'
    <3>1. PICK e \in Nat : e = data
      BY <1>5, <1>7
    <3>2. rd' = e /\ e > rd /\ i < rd /\ EmptyLine(e)
      BY <1>2, <1>5, <1>7, <2>1, <3>1
    <3>3. EmptyLine(rd)'
      BY <1>1, <3>2 DEF EmptyLine
    <3>4. e > i
      BY <1>1, <1>2, <3>1, <3>2
    <3> QED BY <1>3, <2>2, <3>2, <3>3, <3>4
  <2>4. Search(hdr, Chars("Transfer-Encoding")).there /\ rql.minor = 1
    BY <1>1 DEF TransferCoding
  <2>3a. EndsWithChunks'
    <3>1. PICK e \in Nat, l \in Nat : e = data /\ l = LineEnd(at)
      BY <1>3b, <1>5, <1>7
    <3>2. rd' = e /\ e > rd /\ l <= rd /\ EmptyLine(e)
      BY <1>3a, <1>5, <1>7, <2>1, <3>1
    <3>3. at \in i..(rd' - 1) /\ l < rd'
      BY <1>1, <1>3a, <1>3b, <3>1, <3>2
    <3>4. ASSUME NEW k \in (l + 1)..(e - 1) PROVE ~EmptyLine(k)
      <4>1. CASE k <= rd
        <5>1. k \in (l + 1)..rd
          BY <1>1, <3>1, <3>4, <4>1
        <5> QED BY <1>3a, <3>1, <5>1
      <4>2. CASE ~(k <= rd)
        <5>1. k \in (rd + 1)..e /\ k # e
          BY <1>1, <3>1, <3>4, <4>2
        <5> QED BY <1>5a, <1>7, <3>1, <5>1
      <4> QED BY <4>1, <4>2
    <3>5. HexSize(i) = DecimalSize(i) =>
            IF HexSize(i) = 0 THEN at = i /\ body = <<>>
            ELSE ~LineEndBehind(LineEnd(i) + HexSize(i))
      <4>1. (at = i /\ body = <<>> /\ HexSize(i) = 0) \/ Misread
        BY <1>3a
      <4> QED BY <1>3b, <4>1 DEF Misread
    <3>6. \A k : LineEndBehind(k)' <=> LineEndBehind(k)
      BY <1>1 DEF LineEndBehind
    <3>7. \E from \in i..(rd' - 1) :
            /\ NoMore(from) /\ Len(body) <= from - i /\ LineEnd(from) < rd' /\ EmptyLine(rd)'
            /\ \A k \in (LineEnd(from) + 1)..(rd' - 1) : ~EmptyLine(k)
            /\ HexSize(i) = DecimalSize(i) =>
                 IF HexSize(i) = 0 THEN from = i /\ body = <<>>
                 ELSE ~LineEndBehind(LineEnd(i) + HexSize(i))
      <4>1. /\ NoMore(at) /\ Len(body) <= at - i /\ LineEnd(at) < rd' /\ EmptyLine(rd)'
            /\ \A k \in (LineEnd(at) + 1)..(rd' - 1) : ~EmptyLine(k)
        BY <1>3a, <2>3, <3>1, <3>2, <3>3, <3>4
      <4> QED BY <3>3, <3>5, <4>1
    <3>8. body' = body
      BY <1>1
    <3> QED BY <1>3c, <3>6, <3>7, <3>8 DEF EndsWithChunks
  <2>5. BodyAsAnnounced'
    BY <1>1, <2>3, <2>3a, <2>4 DEF BodyAsAnnounced, Writing
  <2>6. BodyKnown'
    BY <1>1, <1>3, <1>7 DEF BodyKnown
  <2> QED BY <2>5, <2>6
<1>8. CASE /\ HasLine /\ rd' = data /\ stage' = "trailer"
           /\ SubSeq(sent.bytes, rd + 1, data) \notin {<<"LF">>, <<"CR", "LF">>}
  <2>1. i \in 1..data /\ i < data
    BY <1>1, <1>2, <1>5, <1>8
  <2>2. LastChunkRead'
    <3>1. PICK e \in Nat, l \in Nat : e = data /\ l = LineEnd(at)
      BY <1>3b, <1>5, <1>8
    <3>2. rd' = e /\ e > rd /\ l <= rd /\ l <= rd' /\ at \in i..(rd' - 1)
      BY <1>1, <1>3a, <1>3b, <1>5, <1>8, <3>1
    <3>3. ASSUME NEW k \in (l + 1)..e PROVE ~EmptyLine(k)
      <4>1. CASE k <= rd
        <5>1. k \in (l + 1)..rd
          BY <1>1, <3>1, <3>3, <4>1
        <5> QED BY <1>3a, <3>1, <5>1
      <4>2. CASE ~(k <= rd)
        <5>1. k \in (rd + 1)..e
          BY <1>1, <3>1, <3>3, <4>2
        <5> QED BY <1>5a, <1>8, <3>1, <5>1
      <4> QED BY <4>1, <4>2
    <3>4. \E from \in i..(rd' - 1) :
            /\ NoMore(from) /\ Len(body) <= from - i /\ LineEnd(from) <= rd'
            /\ \A k \in (LineEnd(from) + 1)..rd' : ~EmptyLine(k)
            /\ (from = i /\ body = <<>> /\ HexSize(i) = 0) \/ Misread
      BY <1>3a, <3>1, <3>2, <3>3
    <3>5. body' = body
      BY <1>1
    <3> QED BY <1>3c, <3>4, <3>5 DEF LastChunkRead
  <2> QED BY <1>1, <1>2, <1>3, <1>5, <1>8, <2>1, <2>2 DEF BodyKnown
<1> QED BY <1>4, <1>6, <1>7, <1>8

\* Whatever is sent, as long as it is not as long as sizes go, a request that is served ends
\* where its headers say, has the body that is there, and no longer one than is allowed
\* (main(), tipidee_util_chunked_read()).
THEOREM BodyRead == ASSUME SendsLess PROVE Spec => []BodyAsAnnounced
<1>1. Init => BodyKnown /\ BodyAsAnnounced
  <2> SUFFICES ASSUME Init PROVE BodyKnown /\ BodyAsAnnounced
    OBVIOUS
  <2>1. stage = "line" /\ body = <<>> /\ rql = NoRql /\ sent \in Requests
    BY DEF Init
  <2>2. sent.bytes \in Seq(Alphabet) /\ MaxBody \in Nat
    BY <2>1, RequestAssumption
  <2>3. LineEnd(0) \in Nat
    <3>1. LineEnd(0) # 0 => LineEnd(0) \in (0 + 1)..Len(sent.bytes)
      BY <2>2, LineEndIs
    <3>2. Len(sent.bytes) \in Nat
      BY <2>2, LenProperties
    <3> QED BY <3>1, <3>2
  <2>4. body \in Seq(Alphabet) /\ Len(body) = 0
    BY <2>1
  <2> QED BY <2>1, <2>2, <2>3, <2>4 DEF BodyKnown, BodyAsAnnounced, NoRql
<1>2. Inv /\ Inv' /\ BodyKnown /\ BodyAsAnnounced /\ [Next]_vars => BodyKnown' /\ BodyAsAnnounced'
  <2> SUFFICES ASSUME Inv, Inv', BodyKnown, BodyAsAnnounced, [Next]_vars
               PROVE  BodyKnown' /\ BodyAsAnnounced'
    OBVIOUS
  <2>1. CASE Next
    <3>1. BodyKnown' /\ (stage' = "over" /\ code' = 0 => BodyAsAnnounced')
      BY <2>1, EarlyBody, HeadersBeforeBody, InterpretsBody, FixedBody, ChunkOfBody, TrailerOfBody DEF Next
    <3>2. ~(stage' = "over" /\ code' = 0) => BodyAsAnnounced'
      BY DEF BodyAsAnnounced
    <3> QED BY <3>1, <3>2
  <2>2. CASE UNCHANGED vars
    <3>1. UNCHANGED <<sent, rd, stage, code, line, uri, hdr, rql, body>>
      BY <2>2 DEF vars
    <3>2. /\ LineEnd(0)' = LineEnd(0) /\ TransferCoding' = TransferCoding /\ HeadEnd' = HeadEnd
          /\ \A k : AfterHead(k)' <=> AfterHead(k)
          /\ \A k : EmptyLine(k)' <=> EmptyLine(k)
          /\ ContentLength' = ContentLength
      BY <3>1, SaidStays
    <3>2a. /\ (ChunksSoFar' <=> ChunksSoFar) /\ (LastChunkRead' <=> LastChunkRead)
           /\ (EndsWithChunks' <=> EndsWithChunks)
      <4>1. /\ (ChunksSoFar' <=> ChunksSoFar) /\ (LastChunkRead' <=> LastChunkRead)
            /\ \A k : /\ LineEnd(k)' = LineEnd(k) /\ HexSize(k)' = HexSize(k)
                     /\ DecimalSize(k)' = DecimalSize(k) /\ (NoMore(k)' <=> NoMore(k))
        BY <3>1, SizesStay
      <4>2. \A k : LineEndBehind(k)' <=> LineEndBehind(k)
        BY <3>1 DEF LineEndBehind
      <4>3. EndsWithChunks' <=> EndsWithChunks
        BY <3>1, <3>2, <4>1, <4>2 DEF EndsWithChunks
      <4> QED BY <4>1, <4>3
    <3>3. BodyKnown'
      BY <3>1, <3>2, <3>2a DEF BodyKnown
    <3>4. BodyAsAnnounced'
      BY <3>1, <3>2, <3>2a DEF BodyAsAnnounced
    <3> QED BY <3>3, <3>4
  <2> QED BY <2>1, <2>2
<1> QED BY <1>1, <1>2, Invariance, PTL DEF Spec

\* Whatever is sent, as long as it is not as long as sizes go, a request is what its text says:
\* head, URI, headers and body (main()).
THEOREM RequestRead == ASSUME SendsLess PROVE Spec => []RequestAsWritten
<1>1. HeadIsOver /\ UriAsWritten /\ FoundAsListed /\ BodyAsAnnounced => RequestAsWritten
  BY DEF RequestAsWritten
<1> QED BY <1>1, HeadEnds, UriRead, HeadersFound, BodyRead, PTL
===============================================================================
