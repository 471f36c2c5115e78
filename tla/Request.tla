------------------------------- MODULE Request --------------------------------
(***************************************************************************)
(* How tipideed reads one request from what a client sends: the request    *)
(* line (tipidee_rql_read), the URI in the buffer of that line, the        *)
(* headers, what main() makes of them, and the body.  The client may stop  *)
(* anywhere, and what it sends may be anything.                            *)
(***************************************************************************)
EXTENDS Uri, Headers

CONSTANTS
  Requests,      \* what may be sent: records, of which this module reads bytes
  LineMax,       \* the longest request line: URI_BUFSIZE
  ChunkLineMax,  \* the longest line in a chunked body
  MaxBody,       \* max_request_body_length
  SizeMax,       \* the largest size_t
  DefaultPort    \* the port of the server

ASSUME RequestAssumption ==
  /\ \A r \in Requests : r.bytes \in Seq(Alphabet)
  /\ HdrMax \in Nat /\ HeadersMax \in Nat /\ LineMax \in Nat /\ MaxBody \in Nat
  /\ ChunkLineMax \in Nat /\ SizeMax \in Nat
  /\ DefaultPort \in Nat \ {0} /\ DefaultPort < 65536
  /\ None \notin Nat

VARIABLES
  sent,    \* what is sent
  rd,      \* how many characters of it were read
  stage,   \* what is being read, and "over" at the end
  code,    \* how it ended: 0 for a request that is served, the status of an error
           \* answer, or what is no answer: 1 (log_and_exit), 98 (EOF), 99 (timeout)
  line,    \* the request line, in which the URI is decoded
  uri,     \* the automaton of the URI
  hdr,     \* the headers
  rql,     \* what the request turns out to be
  body     \* its body

vars == <<sent, rd, stage, code, line, uri, hdr, rql, body>>

Stages == {"line", "uri", "headers", "request", "fixed", "chunk", "trailer", "over"}

Methods ==
  {"CONNECT", "DELETE", "GET", "HEAD", "OPTIONS", "PATCH", "POST", "PRI", "PUT", "TRACE"}

NoRql ==
  [method |-> "GET", major |-> 0, minor |-> 0, star |-> FALSE, host |-> <<>>, port |-> 0,
   coding |-> "none", length |-> 0]

Init ==
  /\ sent \in Requests
  /\ rd = 0 /\ stage = "line" /\ code = 0
  /\ line = <<>> /\ uri = UriAt(0) /\ hdr = EmptyHeaders /\ rql = NoRql /\ body = <<>>

Ends(c) == stage' = "over" /\ code' = c

-----------------------------------------------------------------------------
(* The request line. *)

\* The end of the line that begins behind the first at characters: 0 when there is none.
LineEnd(at) ==
  LET ends == {i \in (at + 1)..Len(sent.bytes) :
                 sent.bytes[i] = "LF" /\ \A j \in (at + 1)..(i - 1) : sent.bytes[j] # "LF"}
  IN  IF ends = {} THEN 0 ELSE CHOOSE i \in ends : TRUE

\* A line without what ends it.
Stripped(s) ==
  LET text == SubSeq(s, 1, Len(s) - 1)
  IN  IF text # <<>> /\ text[Len(text)] = "CR" THEN SubSeq(text, 1, Len(text) - 1) ELSE text

Blank == {" ", "TAB"}

\* rql_tokenize(): where words begin, and the text with the blank behind a word made NUL.
Words(text) == {i \in 1..Len(text) : text[i] \notin Blank /\ (i = 1 \/ text[i - 1] \in Blank)}
Tokenized(text) ==
  [i \in 1..(Len(text) + 1) |->
    IF i = Len(text) + 1 \/ (i > 1 /\ text[i] \in Blank /\ text[i - 1] \notin Blank)
    THEN "NUL" ELSE text[i]]

\* get_version(): HTTP/, a number, a dot, a number.
IsVersion(s) ==
  /\ StartsWith(s, Chars("HTTP/"))
  /\ LET rest == SubSeq(s, 6, Len(s))
         major == DigitsOf(rest)
         minor == SubSeq(rest, Len(major) + 2, Len(rest))
     IN  /\ major # <<>> /\ minor # <<>> /\ DigitsOf(minor) = minor
         /\ rest[Len(major) + 1] = "."
VersionOf(s) ==
  LET rest == SubSeq(s, 6, Len(s))
      major == DigitsOf(rest)
  IN  [major |-> NumberOf(major), minor |-> NumberOf(SubSeq(rest, Len(major) + 2, Len(rest)))]

\* What main() says of a version before it reads the headers.
GoOn(version) ==
  IF version.major # 1 THEN Ends(1)
  ELSE IF version.minor > 1 THEN Ends(400)
  ELSE stage' = "headers" /\ UNCHANGED code

\* Three words, the places where they begin: a method, an URI and a version.
Split(words) ==
  {t \in words \X words \X words : t[1] < t[2] /\ t[2] < t[3] /\ words = {t[1], t[2], t[3]}}
Word(text, i) == StringAt(text, i - 1)
IsMethod(s) == \E m \in Methods : Chars(m) = s
MethodOf(s) == CHOOSE m \in Methods : Chars(m) = s

\* The line, up to a NUL in it.
LineText == Before(Stripped(SubSeq(sent.bytes, 1, LineEnd(0))), {"NUL"})

\* tipidee_rql_read(), up to the URI.
ReadLine ==
  /\ stage = "line"
  /\ LET end == LineEnd(0)
         split == Tokenized(LineText)
         good == {t \in Split(Words(LineText)) : IsMethod(Word(split, t[1])) /\ IsVersion(Word(split, t[3]))}
     IN  \/ /\ end = 0 \/ end > LineMax
            /\ \E c \in IF Len(sent.bytes) >= LineMax THEN {1} ELSE {1, 98, 99} : Ends(c)
            /\ UNCHANGED <<rd, line, uri, rql>>
         \/ /\ end \in 1..LineMax
            /\ rd' = end /\ line' = split
            /\ \/ good = {} /\ Ends(400) /\ UNCHANGED <<uri, rql>>
               \/ \E t \in good :
                    LET method == MethodOf(Word(split, t[1]))
                        version == VersionOf(Word(split, t[3]))
                        star == method = "OPTIONS" /\ Word(split, t[2]) = <<"*">>
                    IN  /\ rql' = [rql EXCEPT !.method = method, !.major = version.major,
                                              !.minor = version.minor, !.star = star]
                        /\ IF star THEN GoOn(version) /\ UNCHANGED uri
                           ELSE stage' = "uri" /\ uri' = UriAt(t[2]) /\ UNCHANGED code
  /\ UNCHANGED <<sent, hdr, body>>

\* One character of the URI, which is read and written in the same line.
ParseUri ==
  /\ stage = "uri" /\ uri.state # "END"
  /\ LET c == line[uri.at]
     IN  \/ /\ \A row \in Taken(uri, c) : UriRefuses(line, uri, row, c, LineMax)
            /\ Ends(400)
            /\ UNCHANGED <<line, uri>>
         \/ \E row \in Taken(uri, c) :
              /\ ~UriRefuses(line, uri, row, c, LineMax)
              /\ line' = Written(line, uri, row, c)
              /\ uri' = UriStep(line, uri, row, c)
              /\ UNCHANGED <<stage, code>>
  /\ UNCHANGED <<sent, rd, hdr, rql, body>>

\* The end of tipidee_uri_parse() and of tipidee_rql_read().
UriEnds ==
  /\ stage = "uri" /\ uri.state = "END"
  /\ IF Climbs(PathOf(line, uri)) THEN Ends(400) ELSE GoOn(rql)
  /\ UNCHANGED <<sent, rd, line, uri, hdr, rql, body>>

-----------------------------------------------------------------------------
(* The headers. *)

\* One character of the headers.  When no more comes, at the end or at a timeout,
\* what is not read is a NUL for the automaton.
ParseHeader ==
  /\ stage = "headers"
  /\ LET c == IF rd < Len(sent.bytes) THEN sent.bytes[rd + 1] ELSE "NUL"
     IN  \/ HeaderTaken(hdr, c) = {} /\ Ends(400) /\ UNCHANGED hdr
         \/ \E row \in HeaderTaken(hdr, c) :
              IF HeadersFull(hdr, row) THEN Ends(413) /\ UNCHANGED hdr
              ELSE /\ hdr' = HeaderStep(hdr, row, c)
                   /\ stage' = IF row.to = "END" THEN "request" ELSE "headers"
                   /\ UNCHANGED code
  /\ rd' = IF rd < Len(sent.bytes) THEN rd + 1 ELSE rd
  /\ UNCHANGED <<sent, line, uri, rql, body>>

\* Without a look at the version, chunks exist in HTTP/1.0.
TransferCoding_AnyVersion ==
  LET te == Search(hdr, Chars("Transfer-Encoding"))
      cl == Search(hdr, Chars("Content-Length"))
  IN  IF te.there THEN IF Folded(te.text) = Chars("chunked") THEN "chunked" ELSE "bad"
      ELSE IF ~cl.there THEN "none"
      ELSE IF ~IsNumber(cl.text, SizeMax) THEN "bad"
      ELSE IF NumberOf(DigitsOf(cl.text)) = 0 THEN "none" ELSE "fixed"

\* What the headers say of the body.
TransferCoding ==
  LET te == Search(hdr, Chars("Transfer-Encoding"))
      cl == Search(hdr, Chars("Content-Length"))
  IN  IF rql.minor = 1 /\ te.there
      THEN IF Folded(te.text) = Chars("chunked") THEN "chunked" ELSE "bad"
      ELSE IF ~cl.there THEN "none"
      ELSE IF ~IsNumber(cl.text, SizeMax) THEN "bad"
      ELSE IF NumberOf(DigitsOf(cl.text)) = 0 THEN "none" ELSE "fixed"
ContentLength == NumberOf(DigitsOf(Search(hdr, Chars("Content-Length")).text))

\* The host and the port of a Host header.
HostOf(x) == Before(x, {":"})
PortOf(x) == SubSeq(x, Len(HostOf(x)) + 2, Len(x))
HostIsBad(x) ==
  \/ /\ ":" \in {x[i] : i \in DOMAIN x} /\ uri.port = 0
     /\ ~IsPort(PortOf(x)) \/ NumberOf(PortOf(x)) = 0
  \/ HostOf(x) = <<>> \/ HostOf(x)[1] = "."

\* main(), from the headers to the body.  An OPTIONS for * is answered at once.
Interpret ==
  /\ stage = "request"
  /\ LET host == Search(hdr, Chars("Host"))
         named == IF uri.host # None THEN StringAt(line, uri.host)
                  ELSE IF host.there THEN HostOf(host.text) ELSE <<"default">>
         port == IF uri.port # 0 THEN uri.port
                 ELSE IF host.there /\ HostOf(host.text) # host.text THEN NumberOf(PortOf(host.text))
                 ELSE DefaultPort
     IN  IF \/ TransferCoding = "bad"
            \/ TransferCoding # "none" /\ rql.method \notin {"POST", "PUT", "PATCH"}
         THEN Ends(400) /\ UNCHANGED rql
         ELSE IF rql.star THEN Ends(0) /\ UNCHANGED rql
         ELSE IF rql.method \in {"CONNECT", "PRI"} THEN Ends(501) /\ UNCHANGED rql
         ELSE IF IF host.there THEN HostIsBad(host.text) ELSE rql.minor = 1
         THEN Ends(400) /\ UNCHANGED rql
         ELSE /\ rql' = [rql EXCEPT !.host = named, !.port = port, !.coding = TransferCoding,
                                    !.length = IF TransferCoding = "fixed" THEN ContentLength ELSE 0]
              /\ IF TransferCoding = "none" THEN Ends(0)
                 ELSE /\ stage' = IF TransferCoding = "fixed" THEN "fixed" ELSE "chunk"
                      /\ UNCHANGED code
  /\ UNCHANGED <<sent, rd, line, uri, hdr, body>>

-----------------------------------------------------------------------------
(* The body. *)

\* A body with a Content-Length.  A client that stops is told from one that ends.
ReadFixed ==
  /\ stage = "fixed"
  /\ IF rql.length > MaxBody THEN Ends(413) /\ UNCHANGED <<rd, body>>
     ELSE IF rd + rql.length > Len(sent.bytes)
     THEN (\E c \in {400, 408} : Ends(c)) /\ rd' = Len(sent.bytes) /\ UNCHANGED body
     ELSE /\ body' = SubSeq(sent.bytes, rd + 1, rd + rql.length)
          /\ rd' = rd + rql.length
          /\ Ends(0)
  /\ UNCHANGED <<sent, line, uri, hdr, rql>>

HasLine == LineEnd(rd) # 0 /\ LineEnd(rd) - rd <= ChunkLineMax

\* A client that stops: an error that may be temporary is answered with 500.
Stops == (\E c \in {400, 500} : Ends(c)) /\ UNCHANGED <<rd, body>>

\* tipidee_util_chunked_read(): the size of a chunk, as a decimal number, and its
\* data; the line end behind the data is not read.  The length so far and the size are
\* added as size_t.
ReadChunk ==
  /\ stage = "chunk"
  /\ LET text == SubSeq(sent.bytes, rd + 1, LineEnd(rd))
         digits == DigitsOf(text)
         size == NumberOf(digits)
         data == LineEnd(rd)
     IN  IF ~HasLine THEN Stops
         ELSE IF ~IsNumber(text, SizeMax) \/ text[Len(digits) + 1] \notin {"CR", "LF", ";", " ", "TAB"}
         THEN Ends(400) /\ rd' = data /\ UNCHANGED body
         ELSE IF size = 0 THEN stage' = "trailer" /\ rd' = data /\ UNCHANGED <<code, body>>
         ELSE IF (Len(body) + size) % (SizeMax + 1) > MaxBody THEN Ends(413) /\ rd' = data /\ UNCHANGED body
         ELSE IF data + size > Len(sent.bytes) THEN Stops
         ELSE /\ body' = body \o SubSeq(sent.bytes, data + 1, data + size)
              /\ rd' = data + size
              /\ UNCHANGED <<stage, code>>
  /\ UNCHANGED <<sent, line, uri, hdr, rql>>

\* The trailer without a look at lines that end with LF alone.
ReadTrailer_NoBareLF ==
  /\ stage = "trailer"
  /\ IF ~HasLine THEN Stops
     ELSE /\ rd' = LineEnd(rd)
          /\ IF SubSeq(sent.bytes, rd + 1, LineEnd(rd)) = <<"CR", "LF">>
             THEN Ends(0) ELSE UNCHANGED <<stage, code>>
          /\ UNCHANGED body
  /\ UNCHANGED <<sent, line, uri, hdr, rql>>

\* The lines behind the last chunk, up to an empty one.
ReadTrailer ==
  /\ stage = "trailer"
  /\ IF ~HasLine THEN Stops
     ELSE /\ rd' = LineEnd(rd)
          /\ IF SubSeq(sent.bytes, rd + 1, LineEnd(rd)) \in {<<"LF">>, <<"CR", "LF">>}
             THEN Ends(0) ELSE UNCHANGED <<stage, code>>
          /\ UNCHANGED body
  /\ UNCHANGED <<sent, line, uri, hdr, rql>>

-----------------------------------------------------------------------------
Next ==
  \/ ReadLine \/ ParseUri \/ UriEnds \/ ParseHeader \/ Interpret
  \/ ReadFixed \/ ReadChunk \/ ReadTrailer

Spec == Init /\ [][Next]_vars

-----------------------------------------------------------------------------
(* What must hold. *)

Codes == {0, 1, 98, 99, 400, 408, 413, 500, 501}
UriType ==
  /\ uri.state \in UriStates
  /\ uri.at \in Nat /\ uri.w \in Nat /\ uri.mark \in Nat
  /\ {uri.host, uri.path, uri.query} \subseteq Nat \cup {None}
HeadersType ==
  /\ hdr.state \in HeaderStates
  /\ hdr.buf \in Seq(Alphabet) /\ hdr.list \in Seq([left : Nat, right : Nat])
  /\ hdr.map \subseteq Nat /\ hdr.left \in Nat /\ hdr.right \in Nat

\* What is written of the URI is never ahead of what was read.
NeverAhead == stage = "uri" => uri.w < uri.at

\* Every header that is listed is in the text, which is in its buffer, one behind the other.
HeadersFit ==
  /\ Len(hdr.buf) <= HdrMax /\ Len(hdr.list) <= HeadersMax
  /\ \A i \in DOMAIN hdr.list :
       /\ hdr.list[i].left + 2 <= hdr.list[i].right
       /\ hdr.list[i].right < IF i < Len(hdr.list) THEN hdr.list[i + 1].left ELSE Len(hdr.buf)
  /\ \A d \in hdr.map : d < Len(hdr.list)

\* The variables keep their types, and the buffers what is in them: a line is not written
\* before it is read, no header is cut or beyond the end (tipidee_uri_parse.c,
\* tipidee_headers_parse.c).
TypeOK ==
  /\ rd \in 0..Len(sent.bytes) /\ stage \in Stages /\ code \in Codes
  /\ rql.length \in Nat /\ UriType /\ HeadersType
  /\ NeverAhead /\ HeadersFit

\* A line that has nothing but its end: LF, or CR LF.
EmptyLine(i) ==
  /\ i > 1 /\ sent.bytes[i] = "LF"
  /\ \/ sent.bytes[i - 1] = "LF"
     \/ i > 2 /\ sent.bytes[i - 1] = "CR" /\ sent.bytes[i - 2] = "LF"

\* Whatever is sent, the headers are read up to the first empty line: what is accepted has
\* one there, and what is read has none before (tipidee_headers_parse_with()).
HeadIsOver ==
  /\ stage = "headers" => \A i \in (LineEnd(0) + 1)..rd : ~EmptyLine(i)
  /\ stage = "request" =>
       /\ EmptyLine(rd)
       /\ \A i \in (LineEnd(0) + 1)..(rd - 1) : ~EmptyLine(i)
===============================================================================
