------------------------------ MODULE MCRequest -------------------------------
(***************************************************************************)
(* Requests as a client writes them, with what they mean, and the same     *)
(* ones garbled or cut.                                                    *)
(***************************************************************************)
EXTENDS Readings, SequencesExt

CRLF == <<"CR", "LF">>
UpTo(set, n) == UNION {[1..k -> set] : k \in 0..n}

\* clean: it is a request.  refused: it has to be.  chunks: it has a body in chunks.
Sent(bytes, clean, refused, chunks, uri_, headers, size, text) ==
  [bytes |-> bytes, clean |-> clean, refused |-> refused, chunks |-> chunks, uri |-> uri_,
   headers |-> headers, size |-> size, body |-> text]

\* What follows: another request.
Pipelined(bytes) == bytes \o Chars("GET")

Line(method, target, minor) ==
  Chars(method) \o <<" ">> \o target \o Chars(" HTTP/1.") \o Chars(minor) \o CRLF

Uri_(host, port, path, query) == [host |-> host, port |-> port, path |-> path, query |-> query]
NoQuery == <<"none">>
DefaultHost == <<"default">>

-----------------------------------------------------------------------------
(* URIs, in pieces of which each is written and means something. *)

Piece(raw, means) == [raw |-> Chars(raw), means |-> Chars(means)]
Pieces == {Piece("/", "/"), Piece(".", "."), Piece("a", "a"), Piece("%2F", "/"),
           Piece("%2e", "."), Piece("%%", "%")}
Raw(pieces) == FlattenSeq([i \in DOMAIN pieces |-> pieces[i].raw])
Means(pieces) == FlattenSeq([i \in DOMAIN pieces |-> pieces[i].means])

\* The names in a path that begins with a slash.
Names(path) ==
  LET slashes == {i \in DOMAIN path : path[i] = "/"}
      end(i) == CHOOSE j \in slashes \cup {Len(path) + 1} :
                  j > i /\ \A k \in slashes : k > i => j <= k
  IN  {SubSeq(path, i + 1, end(i) - 1) : i \in slashes}
LeadsUp(path) == Chars("..") \in Names(path)

Query(raw, means) == [raw |-> Chars(raw), means |-> means]
Queries == {Query("", NoQuery), Query("?", <<>>), Query("?a/%2e?b", Chars("a/%2e?b"))}

Target(authority, path, query, refused) ==
  LET means == <<"/">> \o Means(path)
      bytes == Line("GET", authority.raw \o <<"/">> \o Raw(path) \o query.raw, "0") \o CRLF
  IN  Sent(Pipelined(bytes), TRUE, refused \/ LeadsUp(means), FALSE,
           Uri_(authority.host, authority.port, means, query.means), <<>>, Len(bytes), <<>>)

Authority(raw, host, port) == [raw |-> Chars(raw), host |-> Chars(host), port |-> port]
NoAuthority == [raw |-> <<>>, host |-> DefaultHost, port |-> DefaultPort]
Authorities ==
  {Authority("http://h", "h", DefaultPort), Authority("https://h%41:81", "hA", 81),
   Authority("http://%68.t:", "h.t", DefaultPort), Authority("http://h:65535", "h", 65535),
   Authority("http://h:0", "h", 0), Authority("http://h:65536", "h", 65536)}

Targets ==
  {Target(NoAuthority, path, query, path # <<>> /\ path[1].raw = <<"/">>) :
     path \in UpTo(Pieces, 4), query \in Queries}
  \cup {Target(authority, path, query, authority.port \notin 1..65535) :
     authority \in Authorities, path \in UpTo(Pieces, 2), query \in Queries}

\* An absolute URI without a path.
HostOnly ==
  LET bytes == Line("GET", Chars("http://h:81"), "0") \o CRLF
  IN  {Sent(bytes, TRUE, FALSE, FALSE, Uri_(<<"h">>, 81, <<"/">>, NoQuery), <<>>, Len(bytes), <<>>)}

-----------------------------------------------------------------------------
(* Headers: a list of keys and the words of their values, and how it is written. *)

Header(key, words) == [key |-> Chars(key), words |-> words]
Style(end, lead, gap, trail) == [end |-> end, lead |-> lead, gap |-> gap, trail |-> trail]
Plain == Style(CRLF, <<>>, <<" ">>, <<>>)

Joined(words, gap) ==
  FlattenSeq([i \in DOMAIN words |-> IF i = 1 THEN <<words[i]>> ELSE gap \o <<words[i]>>])
Written_(headers, style) ==
  FlattenSeq([i \in DOMAIN headers |->
    headers[i].key \o <<":">> \o style.lead \o Joined(headers[i].words, style.gap)
    \o style.trail \o style.end]) \o style.end

\* What headers mean: one for each key, with all that was said for it; but X- and
\* Set-Cookie headers are each for itself, and are not found.
ForItself(key) == StartsWith(key, Chars("X-")) \/ Folded(key) = Chars("set-cookie")
Same(headers, i) ==
  IF ForItself(headers[i].key) THEN {i}
  ELSE {j \in DOMAIN headers : Folded(headers[j].key) = Folded(headers[i].key)}
AllOf(headers, i) ==
  LET same == SetToSortSeq(Same(headers, i), <)
      value(k) == Joined(headers[same[k]].words, <<" ">>)
  IN  FlattenSeq([k \in DOMAIN same |-> IF k = 1 THEN value(k) ELSE <<",", " ">> \o value(k)])
Merged(headers) ==
  LET first == SetToSortSeq({i \in DOMAIN headers : \A j \in Same(headers, i) : i <= j}, <)
  IN  [k \in DOMAIN first |-> [key |-> headers[first[k]].key, value |-> AllOf(headers, first[k])]]

WithHeaders(headers, style) ==
  LET bytes == Line("GET", <<"/">>, "0") \o Written_(headers, style)
  IN  Sent(Pipelined(bytes), TRUE, FALSE, FALSE,
           Uri_(DefaultHost, DefaultPort, <<"/">>, NoQuery), headers, Len(bytes), <<>>)

\* The words of the header numbered i, so that no two have the same.
Mark(i) == SubSeq("12345", i, i)
Values(i) == {<<>>, <<Mark(i)>>, <<Mark(i), "w">>}
Listed(keys, values) == [i \in DOMAIN keys |-> Header(keys[i], values[i])]
Keys == {"a", "A", "b", "X-a"}

HeaderLists ==
  UNION {{Listed(keys, <<v1, v2, v3>>) : keys \in [1..3 -> Keys],
            v1 \in Values(1), v2 \in Values(2), v3 \in Values(3)},
         {Listed(keys, [i \in 1..n |-> <<Mark(i)>>]) :
            n \in {4}, keys \in [1..4 -> Keys]},
         {Listed(keys, [i \in 1..5 |-> <<Mark(i), "w">>]) :
            keys \in [1..5 -> {"b", "X-b"}]}}

Fold(blank) == CRLF \o blank
Styles ==
  {Style(end, lead, gap, trail) :
     end \in {CRLF, <<"LF">>}, lead \in {<<>>, <<" ">>, <<"TAB", " ">>, <<"LF", " ">>},
     gap \in {<<" ">>, <<" ", "TAB">>, Fold(<<" ">>), <<" ", "LF", "TAB", "TAB">>},
     trail \in {<<>>, <<" ">>, Fold(<<" ", " ">>)}}
StyledLists ==
  {Listed(keys, values) :
     keys \in {<<"a", "b">>, <<"a", "a">>, <<"a", "Set-Cookie">>},
     values \in [1..2 -> {<<>>, <<"v">>, <<"v", "w">>}]}

HeaderRequests ==
  {WithHeaders(headers, Plain) : headers \in HeaderLists}
  \cup {WithHeaders(headers, style) : headers \in StyledLists, style \in Styles}

-----------------------------------------------------------------------------
(* Bodies. *)

WithBody(header, bytes, text, refused, chunks) ==
  LET head == Line("PUT", <<"/">>, "1") \o Chars("Host:h") \o CRLF \o header \o CRLF \o CRLF
  IN  Sent(Pipelined(head \o bytes), TRUE, refused, chunks,
           Uri_(<<"h">>, DefaultPort, <<"/">>, NoQuery), <<>>, Len(head) + Len(bytes), text)

Text(n) == [i \in 1..n |-> SubSeq("12345678", i, i)]
Fixed ==
  {WithBody(Chars("Content-Length: ") \o <<SubSeq("01234567", n + 1, n + 1)>>, Text(n), Text(n),
            n > MaxBody, FALSE) : n \in 0..7}

Chunked == Chars("Transfer-Encoding:chunked")

\* Chunks as RFC 9112 has them, which the documents promise: sizes up to 6 here.
Chunk(n) == <<SubSeq("0123456", n + 1, n + 1)>> \o CRLF \o Text(n) \o CRLF
InChunks(sizes, trailer) ==
  WithBody(Chunked, FlattenSeq([i \in DOMAIN sizes |-> Chunk(sizes[i])]) \o <<"0">> \o CRLF
                    \o trailer \o CRLF,
           FlattenSeq([i \in DOMAIN sizes |-> Text(sizes[i])]), FALSE, sizes # <<>>)
Trailers == {<<>>, Chars("t:v") \o CRLF}
Bodies ==
  Fixed \cup {InChunks(sizes, trailer) : sizes \in {<<>>, <<1>>, <<6>>, <<2, 3>>}, trailer \in Trailers}

\* Chunks of every size from 1 to 27 in hexadecimal, whose data has at some place what a last
\* chunk is, and may have more of them behind.
Hex(n) == IF n < 16 THEN <<HexDigit[n + 1]>> ELSE <<HexDigit[(n \div 16) + 1], HexDigit[(n % 16) + 1]>>
LastChunk == <<"0">> \o CRLF \o CRLF
Data(n, at) == [i \in 1..n |-> IF i - at \in 1..5 THEN LastChunk[i - at] ELSE "a"]
ChunkedRequests ==
  {WithBody(Chunked, Hex(n) \o CRLF \o Data(n, at) \o CRLF \o LastChunk, Data(n, at), n > MaxBody, TRUE) :
     n \in 1..27, at \in 0..22}
  \cup {InChunks(sizes, trailer) : sizes \in UpTo(1..3, 2), trailer \in Trailers}

-----------------------------------------------------------------------------
(* Anything else. *)

Wrong(bytes) == Sent(bytes, FALSE, FALSE, FALSE, Uri_(<<>>, 0, <<>>, <<>>), <<>>, 0, <<>>)

Originals ==
  {Line("GET", Chars("http://h:8/a?b"), "0") \o Chars("a: b") \o CRLF \o Chars("A:c") \o CRLF \o CRLF,
   Line("OPTIONS", <<"*">>, "1") \o Chars("b:c") \o <<"LF", " ", "LF">> \o Chars("b:") \o <<"LF", "LF">>,
   Line("PUT", <<"/">>, "1") \o Chars("Host:h") \o CRLF \o Chunked \o CRLF \o CRLF
     \o <<"2">> \o CRLF \o Chars("xy3;z") \o CRLF \o Chars("6 70") \o CRLF \o CRLF,
   Line("POST", <<"/">>, "1") \o Chars("Host:h:9") \o CRLF \o Chars("Content-Length:2") \o CRLF \o CRLF
     \o Chars("ab")}

Garbled ==
  UNION {{[bytes EXCEPT ![i] = c] : i \in DOMAIN bytes,
            c \in {"CR", "LF", " ", ":", "/", "%", "NUL", "8bit", "1", "a"}} : bytes \in Originals}
CutOff == UNION {{SubSeq(bytes, 1, i) : i \in DOMAIN bytes \cup {0}} : bytes \in Originals}
Shortened == UNION {{RemoveAt(bytes, i) : i \in DOMAIN bytes} : bytes \in Originals}
TooLong == {Line("GET", <<"/">> \o [i \in 1..LineMax |-> "a"], "0") \o CRLF, [i \in 1..LineMax |-> "a"]}
Others ==
  {Line("PRI", <<"/">>, "0") \o CRLF, Line("CONNECT", <<"/">>, "0") \o CRLF,
   Chars("GET / HTTP/2.0") \o CRLF \o CRLF, Chars("GET / HTTP/1.10") \o CRLF \o CRLF,
   Line("PUT", <<"/">>, "0") \o Chars("Content-Length:1234") \o CRLF \o CRLF,
   Line("PUT", <<"/">>, "1") \o Chars("Host:h") \o CRLF \o Chunked \o CRLF \o CRLF
     \o <<"2">> \o CRLF \o Chars("xy999") \o CRLF \o Chars("z"),
   Line("PUT", <<"/">>, "1") \o Chars("Host:h") \o CRLF \o Chunked \o CRLF \o CRLF
     \o <<"0">> \o CRLF \o <<"LF">> \o Chars("GET") \o CRLF \o CRLF,
   Line("PUT", <<"/">>, "0") \o Chunked \o CRLF \o CRLF \o <<"0">> \o CRLF \o CRLF}

MCRequests ==
  Targets \cup HostOnly \cup HeaderRequests \cup Bodies
  \cup {Wrong(bytes) : bytes \in Garbled \cup CutOff \cup Shortened \cup TooLong \cup Others}

-----------------------------------------------------------------------------
\* The headers as the rest of the program finds them.
HeadersAre ==
  LET merged == Merged(sent.headers)
  IN  /\ Len(hdr.list) = Len(merged)
      /\ \A i \in DOMAIN merged :
           /\ KeyAt(hdr.buf, hdr.list[i]) = merged[i].key
           /\ StringAt(hdr.buf, hdr.list[i].right) = merged[i].value
           /\ Search(hdr, merged[i].key) =
                IF ForItself(merged[i].key) THEN NoHeader
                ELSE [there |-> TRUE, text |-> merged[i].value]

UriIs ==
  /\ rql.host = sent.uri.host /\ rql.port = sent.uri.port
  /\ PathOf(line, uri) = sent.uri.path
  /\ (IF uri.query = None THEN NoQuery ELSE StringAt(line, uri.query)) = sent.uri.query

\* A request that is written as it should be is read as it was meant, to its end and not
\* further: its path and host decoded, its headers found and merged whatever their blanks
\* and folds, its body whole.  It is refused when its path leads upwards, when its port is
\* none, and when it is too long; and data in chunks, here of sizes that are the same in
\* decimal, is refused or read whole.
ReadAsSent ==
  stage = "over" /\ sent.clean =>
    /\ code \in {0, 400, 413}
    /\ code = 400 => sent.refused \/ sent.chunks
    /\ sent.refused => code # 0
    /\ code = 413 =>
         \/ Len(sent.body) > MaxBody \/ Len(sent.headers) > HeadersMax
         \/ sent.size - LineEnd(0) > HdrMax
    /\ code = 0 =>
         /\ rd = sent.size
         /\ UriIs
         /\ sent.headers # <<>> => HeadersAre
         /\ body = sent.body

\* A body in chunks that is as HTTP/1.1 has it is read whole, and the next request from
\* behind it, when it is not refused: what doc/index.html says of the mandatory parts.
ChunksAsSent ==
  stage = "over" /\ code = 0 /\ sent.chunks => rd = sent.size /\ body = sent.body
===============================================================================
