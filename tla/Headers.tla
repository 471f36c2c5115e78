------------------------------- MODULE Headers --------------------------------
(***************************************************************************)
(* tipidee_headers_parse_with(): an automaton that copies header lines     *)
(* into a buffer as keys and values that NUL ends, blanks made one space,  *)
(* and puts the value of a key that comes again behind the first one's;    *)
(* and tipidee_headers_search(), by which all others find a header.        *)
(***************************************************************************)
EXTENDS Bytes

CONSTANTS
  HdrMax,      \* the room for the text of headers: HDR_BUFSIZE
  HeadersMax   \* TIPIDEE_HEADERS_MAX

HeaderClass(c) ==
  IF c \in {"CR", "LF", ":", "8bit"} THEN c
  ELSE IF c \in {"TAB", " "} THEN "LWS"
  ELSE IF c \in {"NUL", "CTL"} THEN "CTL"
  ELSE IF c \in {"QUOTE", "(", ")", ",", "/", ";", "=", "?", "@", "[", "BACKSLASH", "]", "{", "}"}
  THEN "special"
  ELSE "normal"

\* In a state, for some classes: what is done, and the state that follows.
HeaderRow(from, on, do, to) == [from |-> from, on |-> on, do |-> do, to |-> to]
InValue == {":", "special", "normal", "8bit"}

\* V1 is before a value and V2 in its blanks; ? is behind a line end, ?? behind a CR.
KeyRows_NoLineEnd ==
  {HeaderRow("START", {"CR"}, {}, "END?"),
   HeaderRow("START", {"LF"}, {}, "END"),
   HeaderRow("START", {"normal"}, {"key", "print"}, "K"),
   HeaderRow("END?", {"CR", "LF", "normal"}, {}, "END"),
   HeaderRow("K", {":"}, {"zero", "value"}, "V1"),
   HeaderRow("K", {"normal"}, {"print"}, "K")}

KeyRows ==
  {HeaderRow("START", {"CR"}, {}, "END?"),
   HeaderRow("START", {"LF"}, {}, "END"),
   HeaderRow("START", {"normal"}, {"key", "print"}, "K"),
   HeaderRow("END?", {"LF"}, {}, "END"),
   HeaderRow("K", {":"}, {"zero", "value"}, "V1"),
   HeaderRow("K", {"normal"}, {"print"}, "K")}

EmptyValueRows ==
  {HeaderRow("V1", {"CR"}, {}, "V1??"),
   HeaderRow("V1", {"LF"}, {}, "V1?"),
   HeaderRow("V1", {"LWS"}, {}, "V1"),
   HeaderRow("V1", InValue, {"print"}, "V"),
   HeaderRow("V1??", {"LF"}, {}, "V1?"),
   HeaderRow("V1?", {"CR"}, {"zero", "cut"}, "END?"),
   HeaderRow("V1?", {"LF"}, {"zero", "cut"}, "END"),
   HeaderRow("V1?", {"LWS"}, {}, "V1"),
   HeaderRow("V1?", {"normal"}, {"zero", "cut", "key", "print"}, "K")}

ValueRows ==
  {HeaderRow("V", {"CR"}, {"space"}, "V2??"),
   HeaderRow("V", {"LF"}, {"space"}, "V2?"),
   HeaderRow("V", {"LWS"}, {"space"}, "V2"),
   HeaderRow("V", InValue, {"print"}, "V"),
   HeaderRow("V2", {"CR"}, {}, "V2??"),
   HeaderRow("V2", {"LF"}, {}, "V2?"),
   HeaderRow("V2", {"LWS"}, {}, "V2"),
   HeaderRow("V2", InValue, {"print"}, "V"),
   HeaderRow("V2??", {"LF"}, {}, "V2?"),
   HeaderRow("V2?", {"CR"}, {"back", "zero", "cut"}, "END?"),
   HeaderRow("V2?", {"LF"}, {"back", "zero", "cut"}, "END"),
   HeaderRow("V2?", {"LWS"}, {}, "V2"),
   HeaderRow("V2?", {"normal"}, {"back", "zero", "cut", "key", "print"}, "K")}

HeaderRows == KeyRows \cup EmptyValueRows \cup ValueRows
HeaderStates == {row.from : row \in HeaderRows} \cup {"END"}

(***************************************************************************)
(* A tipidee_headers, with the automaton and its disize header.  The key   *)
(* and the value of a header begin behind left and right characters.  map  *)
(* holds the headers that may be searched, by their place in the list,     *)
(* which counts from 0; their keys are read where the list says.           *)
(***************************************************************************)
EmptyHeaders ==
  [state |-> "START", buf |-> <<>>, list |-> <<>>, map |-> {}, left |-> 0, right |-> 0]

\* The rows that a character takes: one, or none when it is refused.
HeaderTaken(hdr, c) ==
  {row \in HeaderRows : row.from = hdr.state /\ HeaderClass(c) \in row.on}

KeyAt(buf, header) == StringAt(buf, header.left)
Found_ByCase(hdr, key) == {d \in hdr.map : KeyAt(hdr.buf, hdr.list[d + 1]) = key}
Found(hdr, key) ==
  {d \in hdr.map : Folded(KeyAt(hdr.buf, hdr.list[d + 1])) = Folded(key)}

\* needs_processing()
NeedsProcessing(key) == Folded(key) # Chars("set-cookie") /\ ~StartsWith(key, Chars("X-"))

Moved_NotBetween(list, prev, offset) == list

\* The headers behind the one numbered prev, when its value grows.
Moved(list, prev, offset) ==
  [i \in DOMAIN list |->
    IF i > prev + 1 THEN [left |-> list[i].left + offset, right |-> list[i].right + offset]
    ELSE list[i]]

Collated_Unordered(buf, header, start) ==
  SubSeq(buf, 1, start - 1) \o <<",", " ">> \o SubSeq(buf, start + 1, header.left)
  \o SubSeq(buf, header.right + 1, Len(buf))

\* The last value is put behind the one that ends before start, and its key is dropped.
Collated(buf, header, start) ==
  SubSeq(buf, 1, start - 1) \o <<",", " ">> \o SubSeq(buf, header.right + 1, Len(buf))
  \o SubSeq(buf, start + 1, header.left)

\* A header is complete: it is one more, or more of one that was there.
Cut(hdr) ==
  LET header == [left |-> hdr.left, right |-> hdr.right]
      key == KeyAt(hdr.buf, header)
      n == Len(hdr.list)
      more == [hdr EXCEPT !.list = Append(@, header)]
  IN  IF ~NeedsProcessing(key) THEN more
      ELSE IF Found(hdr, key) = {} THEN [more EXCEPT !.map = @ \cup {n}]
      ELSE LET prev == CHOOSE d \in Found(hdr, key) : TRUE
               start == more.list[prev + 2].left
               offset == Len(hdr.buf) - hdr.right + 1
           IN  [hdr EXCEPT !.buf = Collated(@, header, start), !.list = Moved(@, prev, offset)]

-----------------------------------------------------------------------------
(* One character, in the order of the code: space, back, zero, cut, key, value,   *)
(* print.                                                                         *)

Spaced(hdr, row) ==
  IF "space" \in row.do THEN [hdr EXCEPT !.buf = Append(@, " ")] ELSE hdr
Back(hdr, row) ==
  IF "back" \in row.do THEN [hdr EXCEPT !.buf = SubSeq(@, 1, Len(@) - 1)] ELSE hdr
EndOfString(hdr, row) ==
  IF "zero" \in row.do THEN [hdr EXCEPT !.buf = Append(@, "NUL")] ELSE hdr
CutIf(hdr, row) == IF "cut" \in row.do THEN Cut(hdr) ELSE hdr
Marked(hdr, row) ==
  [hdr EXCEPT !.left = IF "key" \in row.do THEN Len(hdr.buf) ELSE @,
              !.right = IF "value" \in row.do THEN Len(hdr.buf) ELSE @]
Copied(hdr, row, c) ==
  IF "print" \in row.do THEN [hdr EXCEPT !.buf = Append(@, c)] ELSE hdr

BeforeCut(hdr, row) == EndOfString(Back(Spaced(hdr, row), row), row)
AfterCut(hdr, row) == Marked(CutIf(BeforeCut(hdr, row), row), row)

HeadersFull_SpaceFree(hdr, row) ==
  \/ "zero" \in row.do /\ Len(Back(Spaced(hdr, row), row).buf) >= HdrMax
  \/ "cut" \in row.do /\ Len(hdr.list) >= HeadersMax
  \/ "print" \in row.do /\ Len(AfterCut(hdr, row).buf) >= HdrMax

\* 413: the text has no more room, or the list.
HeadersFull(hdr, row) ==
  \/ "space" \in row.do /\ Len(hdr.buf) >= HdrMax
  \/ "zero" \in row.do /\ Len(Back(Spaced(hdr, row), row).buf) >= HdrMax
  \/ "cut" \in row.do /\ Len(hdr.list) >= HeadersMax
  \/ "print" \in row.do /\ Len(AfterCut(hdr, row).buf) >= HdrMax

HeaderStep(hdr, row, c) == [Copied(AfterCut(hdr, row), row, c) EXCEPT !.state = row.to]

NoHeader == [there |-> FALSE, text |-> <<>>]

\* tipidee_headers_search(): the value of a key.
Search(hdr, key) ==
  IF Found(hdr, key) = {} THEN NoHeader
  ELSE LET d == CHOOSE i \in Found(hdr, key) : TRUE
       IN  [there |-> TRUE, text |-> StringAt(hdr.buf, hdr.list[d + 1].right)]
===============================================================================
