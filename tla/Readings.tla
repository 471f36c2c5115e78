------------------------------- MODULE Readings -------------------------------
(***************************************************************************)
(* What a request says, told from the text that was sent and not from how  *)
(* it is read: the URI in its parts, decoded once, the headers as keys     *)
(* with values, and the body as they announce it.                          *)
(***************************************************************************)
EXTENDS Request

\* What is behind the first n characters of a text.
Rest(s, n) == SubSeq(s, n + 1, Len(s))
Has(s, c) == c \in {s[i] : i \in DOMAIN s}

-----------------------------------------------------------------------------
(* The URI. *)

\* The second word of the request line.
RawTarget ==
  LET t == CHOOSE words \in Split(Words(LineText)) : TRUE
  IN  Word(Tokenized(LineText), t[2])

\* What a text with % stands for, from each of its characters on: %% is %, and % with two
\* digits is a character.
Unquoting(raw) ==
  LET from[i \in 1..(Len(raw) + 1)] ==
        IF i > Len(raw) THEN <<>>
        ELSE IF raw[i] # "%" THEN <<raw[i]>> \o from[i + 1]
        ELSE IF i + 1 <= Len(raw) /\ raw[i + 1] = "%" THEN <<"%">> \o from[i + 2]
        ELSE IF i + 2 <= Len(raw)
        THEN <<Character(16 * Value[raw[i + 1]] + Value[raw[i + 2]])>> \o from[i + 3]
        ELSE <<>>
  IN  from
Unquoted(raw) == Unquoting(raw)[1]

\* The parts of a target: it is a path and a query, or has http:// or https:// and
\* an authority before them.
Absolute(target) == target[1] # "/"
Hierarchy(target) ==
  IF ~Absolute(target) THEN target ELSE Rest(target, IF target[5] = "s" THEN 8 ELSE 7)
RawAuthority(target) == IF Absolute(target) THEN Before(Hierarchy(target), {"/"}) ELSE <<>>
RawHost(target) == Before(RawAuthority(target), {":"})
RawPort(target) == Rest(RawAuthority(target), Len(RawHost(target)) + 1)
PathAndQuery(target) == Rest(Hierarchy(target), Len(RawAuthority(target)))
RawPath(target) == Before(PathAndQuery(target), {"?"})
RawQuery(target) == Rest(PathAndQuery(target), Len(RawPath(target)) + 1)

\* A path that has .. for one of its names.
GoesUp(path) ==
  \E i \in DOMAIN path :
    /\ i + 2 <= Len(path)
    /\ path[i] = "/" /\ path[i + 1] = "." /\ path[i + 2] = "."
    /\ i + 2 = Len(path) \/ path[i + 3] = "/"

HostIsWritten ==
  IF ~Absolute(RawTarget) THEN uri.host = None /\ uri.port = 0
  ELSE /\ uri.port = IF RawPort(RawTarget) = <<>> THEN 0 ELSE NumberOf(RawPort(RawTarget))
       /\ ~Has(RawAuthority(RawTarget), "?") =>
            uri.host # None /\ StringAt(line, uri.host) = Unquoted(RawHost(RawTarget))

PathIsWritten ==
  IF PathAndQuery(RawTarget) = <<>> THEN uri.path = None
  ELSE uri.path # None /\ StringAt(line, uri.path) = Unquoted(RawPath(RawTarget))

QueryIsWritten ==
  IF Has(PathAndQuery(RawTarget), "?")
  THEN uri.query # None /\ StringAt(line, uri.query) = RawQuery(RawTarget)
  ELSE uri.query = None

\* Whatever is sent, an URI that is read to its end is what the line says, though it is
\* decoded in the buffer that it is read from: host and path without their %, undone once,
\* the query as it is, each of them whole and ended where it ends, and the port; and no
\* request goes on with a path that leads upwards, however that is written
\* (tipidee_uri_parse()).  Left out: the host of an authority with a question mark, which the
\* automaton passes over.
UriAsWritten ==
  /\ uri.state = "END" => HostIsWritten /\ PathIsWritten /\ QueryIsWritten
  /\ stage \notin {"line", "uri", "over"} \/ (stage = "over" /\ code = 0) =>
       ~GoesUp(PathOf(line, uri))

-----------------------------------------------------------------------------
(* The headers. *)

Whites == {" ", "TAB", "CR", "LF"}

\* What the first characters of a text are, by their number, without the blanks at both
\* ends and with one space for blanks between.
Squeezed(raw) ==
  LET out[k \in 0..Len(raw)] ==
        IF k = 0 THEN <<>>
        ELSE IF raw[k] \in Whites THEN out[k - 1]
        ELSE IF out[k - 1] # <<>> /\ raw[k - 1] \in Whites THEN out[k - 1] \o <<" ", raw[k]>>
        ELSE Append(out[k - 1], raw[k])
  IN  out

\* Where the last header begins in the first n characters: behind a line end, with what is
\* no blank.
HeaderStart(n) ==
  CHOOSE i \in (LineEnd(0) + 1)..n :
    /\ sent.bytes[i - 1] = "LF" /\ sent.bytes[i] \notin Whites
    /\ \A j \in (i + 1)..n : sent.bytes[j - 1] = "LF" => sent.bytes[j] \in Whites

\* That header: its key up to the colon, and its value.
HeaderIn(n) ==
  LET text == Rest(sent.bytes, HeaderStart(n) - 1)
      key == Before(text, {":"})
      colon == Len(key) + 1
  IN  [key |-> key, value |-> Squeezed(Rest(text, colon))[n + 1 - HeaderStart(n) - colon]]

\* The headers that are read, as keys with values.
ValueAt(h, i) == StringAt(h.buf, h.list[i].right)
Fields(h) ==
  [i \in DOMAIN h.list |-> [key |-> KeyAt(h.buf, h.list[i]), value |-> ValueAt(h, i)]]

\* What one more header makes of them: it is put behind what was said for its key.
SameKey(f, g) ==
  NeedsProcessing(f.key) /\ NeedsProcessing(g.key) /\ Folded(f.key) = Folded(g.key)
With(fields, field) ==
  IF \E i \in DOMAIN fields : SameKey(fields[i], field)
  THEN [i \in DOMAIN fields |->
         IF SameKey(fields[i], field)
         THEN [fields[i] EXCEPT !.value = @ \o <<",", " ">> \o field.value] ELSE fields[i]]
  ELSE Append(fields, field)

\* The step that has read a header to its end.
Completes == hdr.state \in {"V1?", "V2?"} /\ hdr'.state \in {"K", "END?", "END"}

\* Whatever is sent, a header that is complete is in the list as it was sent, its blanks and
\* folds made one space, and behind what its key had before; and no step changes the key or
\* the value of another one, though its text may move (tipidee_headers_parse_with()).
HeadersAsWritten ==
  [][Fields(hdr') = IF Completes THEN With(Fields(hdr), HeaderIn(rd)) ELSE Fields(hdr)]_vars

\* A header is found by its key, in any case, with its value and no other's, unless it is
\* one that is each for itself; and what is found is in the list (tipidee_headers_search()).
FoundAsListed ==
  /\ \A i \in DOMAIN hdr.list :
       LET written == KeyAt(hdr.buf, hdr.list[i])
       IN  NeedsProcessing(written) =>
             \A key \in {written, Folded(written)} :
               Search(hdr, key) = [there |-> TRUE, text |-> ValueAt(hdr, i)]
  /\ \A d \in hdr.map :
       d + 1 \in DOMAIN hdr.list /\ NeedsProcessing(KeyAt(hdr.buf, hdr.list[d + 1]))
-----------------------------------------------------------------------------
(* The body. *)

\* The first empty line behind the request line.
HeadEnd ==
  CHOOSE i \in (LineEnd(0) + 1)..Len(sent.bytes) :
    EmptyLine(i) /\ \A j \in (LineEnd(0) + 1)..(i - 1) : ~EmptyLine(j)

\* The size of the chunk whose line begins behind a place: as HTTP/1.1 has it, in
\* hexadecimal, and as a decimal number.
HexNumber(s) ==
  LET digits == Before(s, Alphabet \ Hexadecimals)
      upTo[i \in 0..Len(digits)] == IF i = 0 THEN 0 ELSE 16 * upTo[i - 1] + Value[digits[i]]
  IN  upTo[Len(digits)]
SizeLine(at) == SubSeq(sent.bytes, at + 1, LineEnd(at))
HexSize(at) == HexNumber(SizeLine(at))
DecimalSize(at) == NumberOf(DigitsOf(SizeLine(at)))

\* The line behind a place has a size of 0, in both.
NoMore(at) ==
  /\ LineEnd(at) # 0 /\ DigitsOf(SizeLine(at)) # <<>> /\ DecimalSize(at) = 0
  /\ SizeLine(at)[Len(DigitsOf(SizeLine(at))) + 1] \notin Hexadecimals

\* A line end, as it is behind the data of every chunk.
LineEndBehind(at) == at < Len(sent.bytes) /\ sent.bytes[at + 1] \in {"CR", "LF"}

\* A body in chunks ends with the first empty line behind a size of 0, which is behind all
\* of its data.  When its first size is the same in decimal, these are its chunks: there is
\* no data, and that size is the first one; or what was sent is no chunk at all, for no line
\* end is behind its data.
EndsWithChunks ==
  \E at \in HeadEnd..(rd - 1) :
    /\ NoMore(at) /\ Len(body) <= at - HeadEnd
    /\ LineEnd(at) < rd /\ EmptyLine(rd)
    /\ \A i \in (LineEnd(at) + 1)..(rd - 1) : ~EmptyLine(i)
    /\ HexSize(HeadEnd) = DecimalSize(HeadEnd) =>
         IF HexSize(HeadEnd) = 0 THEN at = HeadEnd /\ body = <<>>
         ELSE ~LineEndBehind(LineEnd(HeadEnd) + HexSize(HeadEnd))

\* Whatever is sent, a request that is served ends where its headers say, and the next one
\* is read from there: with chunks, which HTTP/1.0 does not have and which win over a length,
\* where the chunks end, as far as their sizes are the same in decimal; else so many
\* characters behind the headers as they say, which are the body.  No other method than three
\* has a body, and none is longer than max_request_body_length (main(),
\* tipidee_util_chunked_read()).
BodyAsAnnounced ==
  stage = "over" /\ code = 0 =>
    LET te == Search(hdr, Chars("Transfer-Encoding"))
        cl == Search(hdr, Chars("Content-Length"))
        length == IF cl.there THEN NumberOf(DigitsOf(cl.text)) ELSE 0
    IN  /\ IF te.there /\ rql.minor = 1
           THEN EndsWithChunks
           ELSE rd = HeadEnd + length /\ body = SubSeq(sent.bytes, HeadEnd + 1, rd)
        /\ rd > HeadEnd => rql.method \in {"POST", "PUT", "PATCH"}
        /\ Len(body) <= MaxBody

\* A request is what its text says: its head ends with the first empty line, its URI, the
\* headers that are looked for and its body are the ones that were sent, and the next request
\* is read from behind it (main(), tipidee_uri_parse(), tipidee_headers_parse_with(),
\* tipidee_headers_search(), tipidee_util_chunked_read()).
RequestAsWritten == HeadIsOver /\ UriAsWritten /\ FoundAsListed /\ BodyAsAnnounced
===============================================================================
