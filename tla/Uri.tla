--------------------------------- MODULE Uri ----------------------------------
(***************************************************************************)
(* tipidee_uri_parse(): an automaton that reads an URI and writes its      *)
(* host, path and query, decoded and each ended by NUL, into a buffer,     *)
(* which is for a request the very one that it reads.                      *)
(***************************************************************************)
EXTENDS Bytes

Delimiters == {"&", "'", "(", ")", "*", ",", ";", "<", ">", "[", "]"}
Invalid ==
  {"CTL", "TAB", "CR", "LF", "QUOTE", "BACKQUOTE", "BACKSLASH", "8bit", " ", "#", "{", "|", "}"}

UriClass(c) ==
  IF c \in {"NUL", "%", "?", "/", ":", "h", "t", "p", "s"} THEN c
  ELSE IF c \in Digits THEN "digit"
  ELSE IF c \in Hexadecimals THEN "letter"
  ELSE IF c \in {"!", "$", "@"} THEN "mark"
  ELSE IF c \in Delimiters THEN "delimiter"
  ELSE IF c \in Invalid THEN "invalid"
  ELSE "other"

Letters == {"h", "t", "p", "s", "digit", "letter", "other"}
HexDigits == {"digit", "letter"}

\* In a state, for some classes: what is done, and the state that follows.
Row(from, on, do, to) == [from |-> from, on |-> on, do |-> do, to |-> to]

SchemeRows ==
  {Row("START", {"/"}, {"path", "print"}, "PATH?"),
   Row("START", {"h"}, {}, "H"),
   Row("H", {"t"}, {}, "HT"),
   Row("HT", {"t"}, {}, "HTT"),
   Row("HTT", {"p"}, {}, "HTTP"),
   Row("HTTP", {":"}, {}, "AUTH"),
   Row("HTTP", {"s"}, {}, "HTTPS"),
   Row("HTTPS", {":"}, {"ssl"}, "AUTH"),
   Row("AUTH", {"/"}, {}, "AUTH/"),
   Row("AUTH/", {"/"}, {}, "HOST")}

HostRows ==
  {Row("HOST", {"%"}, {"host"}, "HQ"),
   Row("HOST", {"?"} \cup Letters, {"host", "print"}, "H1"),
   Row("HQ", {"%"}, {"print"}, "H1"),
   Row("HQ", HexDigits, {"digit"}, "HQ1"),
   Row("HQ1", HexDigits, {"digit", "byte"}, "H1"),
   Row("H1", {"NUL"}, {"print"}, "END"),
   Row("H1", {"%"}, {}, "HQ"),
   Row("H1", {"?"}, {}, "H1"),
   Row("H1", {"/"}, {"zero", "path", "print"}, "PATH"),
   Row("H1", {":"}, {"zero", "mark"}, "PORT"),
   Row("H1", Letters, {"print"}, "H1"),
   Row("PORT", {"/"}, {"path", "print"}, "PATH"),
   Row("PORT", {"digit"}, {"print"}, "PORT1"),
   Row("PORT1", {"NUL"}, {"zero", "port"}, "END"),
   Row("PORT1", {"/"}, {"zero", "port", "path", "print"}, "PATH"),
   Row("PORT1", {"digit"}, {"print"}, "PORT1")}

PathRows ==
  {Row("PATH", {"NUL"}, {"print"}, "END"),
   Row("PATH", {"%"}, {}, "Q"),
   Row("PATH", {"?"}, {"zero", "query"}, "QUERY"),
   Row("PATH", {"/", ":", "mark"} \cup Letters, {"print"}, "PATH"),
   Row("Q", {"%"}, {"print"}, "PATH"),
   Row("Q", HexDigits, {"digit"}, "Q1"),
   Row("Q1", HexDigits, {"digit", "byte"}, "PATH"),
   Row("QUERY", {"NUL"}, {"print"}, "END"),
   Row("QUERY", {"%", "?", "/", ":", "mark", "delimiter"} \cup Letters, {"print"}, "QUERY"),
   Row("PATH?", {"NUL"}, {"print"}, "END"),
   Row("PATH?", {"%"}, {}, "Q"),
   Row("PATH?", {"?"}, {"zero", "query"}, "QUERY"),
   Row("PATH?", {":", "mark"} \cup Letters, {"print"}, "PATH")}

UriRows == SchemeRows \cup HostRows \cup PathRows
UriStates == {row.from : row \in UriRows} \cup {"END"}

(***************************************************************************)
(* The automaton: the characters that are read and written, the place of a *)
(* port's digits, and host, path and query by the number of characters     *)
(* before them, None when there is none.                                   *)
(***************************************************************************)
CONSTANT None

UriAt(at) ==
  [state |-> "START", at |-> at, w |-> 0, mark |-> 0, host |-> None, path |-> None,
   query |-> None, port |-> 0, decoded |-> 0, https |-> FALSE]

\* The rows that a character takes: one, or none when it is refused.
Taken(uri, c) == {row \in UriRows : row.from = uri.state /\ UriClass(c) \in row.on}

\* The value that a hexadecimal digit makes.
Decoded(uri, c) == (16 * uri.decoded + Value[c]) % 2^8

Zeroed_NoNul(line, uri, row) == line

\* What a character is for the buffer, and for the rest.
Zeroed(line, uri, row) ==
  IF "zero" \in row.do THEN [line EXCEPT ![uri.w + 1] = "NUL"] ELSE line
Behind(uri, row) ==
  IF "port" \in row.do THEN uri.mark ELSE IF "zero" \in row.do THEN uri.w + 1 ELSE uri.w

UriRefuses(line, uri, row, c, max) ==
  \/ "zero" \in row.do /\ uri.w >= max
  \/ "port" \in row.do /\ LET port == StringAt(Zeroed(line, uri, row), uri.mark)
                          IN  ~IsPort(port) \/ NumberOf(port) = 0
  \/ {"print", "byte"} \cap row.do # {} /\ Behind(uri, row) >= max
  \/ "byte" \in row.do /\ Decoded(uri, c) = 0

Written(line, uri, row, c) ==
  LET zeroed == Zeroed(line, uri, row)
  IN  IF {"print", "byte"} \cap row.do = {} THEN zeroed
      ELSE [zeroed EXCEPT ![Behind(uri, row) + 1] =
             IF "byte" \in row.do THEN Character(Decoded(uri, c)) ELSE c]

UriStep(line, uri, row, c) ==
  LET w == Behind(uri, row)
  IN  [state |-> row.to,
       at |-> uri.at + 1,
       w |-> IF {"print", "byte"} \cap row.do # {} THEN w + 1 ELSE w,
       mark |-> IF "mark" \in row.do THEN w ELSE uri.mark,
       host |-> IF "host" \in row.do THEN w ELSE uri.host,
       path |-> IF "path" \in row.do THEN w ELSE uri.path,
       query |-> IF "query" \in row.do THEN w ELSE uri.query,
       port |-> IF "port" \in row.do
                THEN NumberOf(StringAt(Zeroed(line, uri, row), uri.mark)) ELSE uri.port,
       decoded |-> IF "byte" \in row.do THEN 0
                   ELSE IF "digit" \in row.do THEN Decoded(uri, c) ELSE uri.decoded,
       https |-> uri.https \/ "ssl" \in row.do]

\* The path, once all is read: "/" when there is none.
PathOf(line, uri) == IF uri.path = None THEN <<"/">> ELSE StringAt(line, uri.path)

\* What leads upwards inside a path.
UpStep == <<"/", ".", ".", "/">>

Climbs_Inside(path) == Occurs(UpStep, path)

\* A path that leads upwards is refused.
Climbs(path) ==
  \/ Len(path) >= 3 /\ SubSeq(path, Len(path) - 2, Len(path)) = <<"/", ".", ".">>
  \/ Occurs(UpStep, path)
===============================================================================
