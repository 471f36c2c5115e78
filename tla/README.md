# A verification of tipidee

tipidee is a web server made of small programs. `tipideed` serves one
connection per process on its standard input and output, `tipidee-config`
compiles a text configuration into the constant database that tipideed reads,
and a few helpers work around them. This directory holds TLA+ models of that
code, the TLC configurations that check them and proofs that TLAPS checks.

## 1. Inventory

| Part | State it keeps | Operations | What makes it correct |
|---|---|---|---|
| main loop (`tipideed.c`) | `g.cont`, `bodysa`, `localredirs`, the request being read | read line, headers, body; answer or give up; loop | a request is never read out of a body; a body is served with its own request; a close that is announced happens and nothing follows it |
| `serve()` and the answers (`tipideed.c`, `errors.c`, `redirection.c`, `options.c`, `trace.c`, `regular.c`) | none beyond the request | look up, dispatch, answer, log | one answer per request, in order, delimited, paired in the log |
| CGI (`cgi.c`, `process_cgi_headers.c`, `stream.c`) | two pipes, a buffer, a deadline, the child | spawn, feed, parse headers, copy, time out, reap | the answer says where it ends; feeding and reading do not wait for each other; the timeout ends a stuck script |
| NPH and reverse proxy (`cgi.c`, `rproxy.c`) | none: the process becomes the answer | exec, or copy | the connection closes |
| FastCGI (`fastcgi.c`, `tipidee_fcgi_*.c`) | record assembly, read state, bytes written | send the request, read records, frame the answer | the answer is the same wherever its records are cut |
| request parsing (`tipidee_rql_read.c`, `tipidee_headers_parse.c`, `tipidee_uri_parse.c`) | automaton state, collation map | one character at a time | what is accepted is what was meant, and ends where it ends; the buffers hold it |
| ranges, chunked bodies (`tipidee_util_*.c`) | offsets | scan | no offset leaves the file; a body ends where it says |
| static files (`send_file.c`) | file and socket offsets | sendfile, splice or writev | what was announced is sent, or the process ends |
| configuration lookups (`tipidee_conf_*.c`) | the cdb | search by domain and path prefix | the most specific entry wins |
| configuration compiler (`src/config/`) | tree of nodes, the child preprocessor | parse lines, merge, write, rename | the running cdb is replaced whole or not at all |
| configuration preprocessor (`tipidee-config-preprocess.c`) | the files being included, their working directories, what each said of being included again | copy, include, include a directory | every cycle is found; each line is known by its file and number |
| log aggregation (`tipidee-logaggregate.c`) | the address of each process number, the hits of each address | one line at a time | every request is counted for the client that made it |
| `ls.cgi`, `cgiwrapper-nollmcrawler` | none | one page, or one exec | |

How they interact: main calls serve(), again for every local redirection a
script asks for; serve() calls one of the answering parts, which writes on the
connection and in the log and returns, or ends the process. A script is a child
with two pipes, reaped by a SIGCHLD handler; a FastCGI application is a socket.
tipideed only reads the database, which tipidee-config replaces with a rename.
The aggregator reads the log lines of many processes at once.

The hard behaviours: pipelined requests and clients that stop anywhere;
the many ways out of a request, each of which must leave the connection usable
or closed; two pipes and a timeout with one script; records cut anywhere;
a file that shrinks under its announced length; a child that dies while its
output is renamed into place; buffers that are decoded in place; headers that
are moved while a map refers to them; files that include each other; process
numbers that are used again.

## 2. Modules

| Module | Models | Instances and proofs |
|---|---|---|
| `HttpExchange` | abstract: what a client of one connection may count on | implemented by `Connection` (`ExchangeSpec`) |
| `Connection` | `main()` and `serve()` of tipideed with a client, for several requests | `MCConnection`, `Connection_proofs` |
| `Bytes` | characters, and what the parsers take from the C library and skalibs | used by the next three |
| `Uri` | `tipidee_uri_parse()` | used by `Request` |
| `Headers` | `tipidee_headers_parse()` and `tipidee_headers_search()` | used by `Request` |
| `Request` | the reading of one request, by character: line, URI, headers, body | `MCRequest`, `Request_proofs` |
| `Readings` | not code: what a request says, as a function of its text | used by `MCRequest` and `Request_proofs` |
| `Cgi` | `do_cgi()` with its script, for one request | `MCCgi`, `Cgi_proofs` |
| `FastCgi` | `do_fastcgi()` with its application, for one request | `MCFastCgi`, `FastCgi_proofs` |
| `SendFile` | the end of `serve()`, `respond_regular()`, `respond_partial()`, `send_file_range()`, with a file that changes | `MCSendFile`, `SendFile_proofs` |
| `Lookup` | the searches of `tipidee_conf_get_redirection()` and `tipidee_conf_get_resattr()` | used by `Config` |
| `Config` | tipidee-config with its preprocessor, and what tipideed then finds | `MCConfig`, `Config_proofs` |
| `Preprocess` | tipidee-config-preprocess, and the place that `conf_lexparse()` has for each line | `MCPreprocess`, `Preprocess_proofs` |
| `Documents` | not code: what the documents say comes of a configuration, as a function of its texts | used by `MCPreprocess` and `Preprocess_proofs` |
| `LogAggregate` | tipidee-logaggregate, behind the processes whose log it reads | `MCLogAggregate`, `LogAggregate_proofs` |

`Request`, `Cgi`, `FastCgi` and `SendFile` each look into one thing that `main()`
or `serve()` calls; `Connection` sees of it what it does to the connection. They
are not composed into one module, because what passes between them is small. The
constants `Requests`, `CgiRuns` and `FcgiReplies` of `Connection` are their
outcomes, matched by hand: in `Cgi`, `pc = "returned"` with an answer is a
`"page"`, `pc = "died"` after `ans = <<200>>` is `"cut"`, and so on; a request
that `Request` ends with 400 in its headers is one with `headers = "bad"`.

Two conventions hold everywhere. `"returned"` is the return of the C function
and `"died"` the end of the process, by `_exit()`, `strerr_die` or
`log_and_exit()`. An operator whose name has an underscore and a word after the
name of another (`FeedSome_Restarted`) is what a plausible mistake in that code
would make of it; no specification uses it.

### Connection and HttpExchange

`phase` is what `main()` waits for: a request line (`"line"`), the headers, the
body, or a backend (`"serve"`). `cont` is `g.cont`, with the value 2 of
`Connection: keep-alive`. `rql` is the request in progress as the record of the
facts that the code branches on. `body` stands for `bodysa`: the number of the
request whose body it holds, because the hazard is whose body it is. `out` and
`log` are all that was written. `net` is what the client has sent and tipideed
has not read, in parts: a line, a block of headers, a body. What no deadline of
the code ends has a phase of its own: `"blocked"` in a write to a client that
reads nothing, `"copying"` in a copy by `splice()` to such a client,
`"spinning"` in the loop around `sendfile()` for a file that has shrunk, and
`"raw"` when an NPH script or a remote server has the connection. `astray` is a
history variable: a chunked body was taken to end where it does not.

| Action | Code |
|---|---|
| `ReadLine`, `EndOfRequests`, `ReadError` | `tipidee_rql_read_g()` and its cases in `main()` |
| `ReadHeaders`, `HeadersEnd` | the headers, `Connection`, `Transfer-Encoding`, `Content-Length`, `Host`, in the order of `main()` |
| `ReadFixedBody`, `ReadChunkedBody` | the two ways to read a body; a body of `chunks = "short"` is one whose hexadecimal sizes are less in decimal: it is refused, or ends anywhere in what was sent (`ChunkStops`) |
| `Serve` | one disjunct for each thing that the path may lead to |
| `EarlyError`, `ErrorAndLoop`, `ErrorAndExit`, `ErrorAndDie` | `eexit_*`, `exit_*`, `respond_*`, `die*` of `errors.c` and `tipideed-internal.h` |
| `Loop`, `LogAndExit`, `Die` | the end of the loop, `log_and_exit()`, `strerr_die` |
| `Waits`, `Unblocked` | a wait without a deadline, and its end when the client is gone |
| `RawEnds` | the `_exit(0)` of `rproxy()` and the exit of an NPH script, whatever became of the answer |

`serve()` is called again for a local redirection: `LocalRedirect` leaves `phase`
and the body and counts in `redirs`. Each action takes the whole way from one
wait of the process to the next. A part of the answer that cannot be written
(`CannotWrite`) ends the process, because every write is followed by a check
that dies, or without a `write_timeout` waits for a client that reads nothing.
`ReadLine` in what is left of a body may find the bytes of another request there,
counted in `begun` like those that clients mean.

`HttpExchange` is the connection as a client sees it: the server may `Take` a
request when the one before has its answer, `Answer` it, `Refuse` it and close in
one step, or `Close`. After a request that its client called the last, the answer
closes.

### Bytes, Uri, Headers, Request

The stages of `Request` are those of one turn of the loop in `main()`:
`ReadLine` is `tipidee_rql_read()` with its words put into the buffer of the
line, `ParseUri` and `UriEnds` the automaton of the URI, one character at a
time, in that same buffer, `ParseHeader` the automaton of the headers,
`Interpret` what `main()` makes of them, `ReadFixed`, `ReadChunk` and
`ReadTrailer` the body. The two automata are the tables of the C code as sets of
rows: a state, a set of characters, what is done, the next state (`UriRows`,
`HeaderRows`); what is in no row is the error state. `UriStep` and `HeaderStep`
apply a row: they write at `w` where the code writes, decode two digits into a
byte of 8 bits, end strings with NUL, and count the room that is left.

`Cut` is the end of a header: a key that is new gets an entry; one that is known
is put behind the value of the first (`Collated`), and what lies between is moved
with its places in the list (`Moved`); `Set-Cookie` and `X-` headers are left
alone, outside the map in which `Search` finds the others. A timeout or the end
of the input is read as NUL, as `get1_timed()` returns 0.

`Readings` says the same things without the automata: the second word of the
line taken apart and unquoted from its end backwards (`Unquoted`), a header from
its first character to the next line that does not begin with a blank, with its
blanks squeezed (`HeaderIn`), the first empty line (`HeadEnd`). Its definitions
are for texts of every kind, well formed or not, where the code accepts them.

### Cgi

The units of `fed`, `got`, `written`, `taken` and `sent` count bytes on their way
from tipideed to the script and from the script to the client; the contents of a
pipe are differences of them. `Iopause` is one turn of the loop around
`iopause()`: it feeds first and reads the headers then, as the code does. `Feed`
is the rest of the body, written once the headers are read. `ProcessHeaders` is
what follows `process_cgi_headers()`; `StreamFixed`, `StreamAutochunk` and
`StreamInfinite` are the three functions of `stream.c`, in the build with
`splice()`. `CgiTimeout` and `AnswerLate` are the label `cgitimeout`, `AnswerBad`
the 502 for bad headers, `Reap` the SIGCHLD handler. The client takes what it is
given, fails at any write (`ClientFails`), or stays and reads nothing more
(`deaf`, set by `Deafens` at any moment): the writes through `buffer_1` then wait for
the `write_timeout` (`WriteTimeout`), the two splices for nothing that comes.
`ScriptReads`, `ScriptWrites`, `ScriptEnds` and `ChildEnds` are the script and a
child it leaves behind.

### FastCgi

`AddEnv`, `EndEnv` and `Stdin` send the request record by record; nothing is read
until all of it is sent, as in the code. `ReadRecord` is one call of
`tipidee_fcgi_read()` with what the loop of `do_fastcgi()` does of its result, by
`state` (the parser of the headers, the body, and after the end of
FCGI_STDOUT). `sent` is `w`. An application is the records it will send, each
cut as it likes, and when it reads (`reads`).

### SendFile

The file is its size, and the unit number p of it is p, so that `wire` shows
which units were written and in which order; the headers are one unit, 0.
`Serve` is the end of `serve()` after `stat()`; `OpenFile` writes the headers out
of what `stat()` said. Then each of the three builds has its loop: `Writable`,
`Sendfile` and `SendfileFails` for `sendfile()`, `Splice` and `Flush` for
`splice()`, `Readv` and `Flush` for `readv()`. `Edit` replaces, cuts or extends
the file between any two of those steps.

### Lookup and Config

`Lookup` has no variables: a database is a function from keys to values and the
two searches are operators on it. A key has what it is of, the domain and the
path, where the code has one string with a letter in front. `Config` is
`main()` of tipidee-config: `ReadLine` takes any line, and `ProcessLine` has a
disjunct for each kind of node that a directive makes in `tree`; a line that is
refused is the end of the process. `FinishHeaders` is `headers_finish()`,
`AddDefaults` is `conf_defaults()`, `Create`, `WriteAll`, `OutputFails` and
`Rename` are `conf_output()`. `PreprocessorEnds` and `SigchldHandler` happen at
any time. `said` is no variable of the code: it is the set of accepted lines,
with which the tree and the answers of `Lookup` are compared.

### Preprocess

The recursion of `includefromhere()` and `includecwd()` is `stack`: a frame is a
file with the line it is at and its directory (`fdhere`), or a directory with its
entries and `gabase`. `Start` opens the argument; `CopyLine`, `DropLine`,
`BadLine`, `Included` and `Include`, `IncludeDir` are what a line may be;
`NextEntry`, `PastEntries` and `EndOfDir` the loop over a directory; `EndOfFile`
and `Resume` the return to the file that included, with its working directory
and its marker; `SystemCallFails` may come anywhere. A name leads somewhere by
`Cd` and `Entry`, so that links and `..` are names like others, and a file is
known by its real path. `Documents` says what should come of it all without a
stack: a line is a function from what was printed and seen before it to what is
behind it (`LineOn`), a file or a directory the steps of its lines or names
(`Through`), and what a name does in a file depends on what names do when that
file waits, too, of which there are as many levels as files (`Reading`). `md` is the place that `conf_lexparse()` computes from
the markers, kept beside the true place of each printed line in `out`.

### LogAggregate

The processes `Start` for a client, `Get` something, `Speak` of other things,
`Leave` with their exit line or a fatal one, or `Vanish` without a line; then
their number may be used again. `ReadStart`, `ReadGet`, `ReadOther` and `ReadEnd`
are the branches of the aggregator for a line, `EndOfInput` its end. `pidip`,
`storage` and `indices` are its tables; `asked` is what clients really asked
for, which no program knows. A `Stranger` is a process that was there before the
log, or whose address is not of the family that the options make readable.

## 3. What the runs show

A passing run holds for every behaviour of its instance. With two workers each
takes less than three minutes; every action and every disjunct of each next-state
relation is taken in some run, and each property fails when a definition is
replaced by the mistake that `PROJECT.json` names for it under "mutants".

| Run | Distinct states | Run | Distinct states |
|---|---|---|---|
| `conn_full` | 1389194 | `conf_all` | 876344 |
| `conn_kept` | 1312149 | `pre_all` | 667504 |
| `cgi_all` | 674198 | `agg_all` | 1490044 |
| `fcgi_all` | 45576 | `req_all` | 236058 |
| `file_all` | 105018 | | |

Each component has one `TypeOK`; the other properties are these.

### conn_full

Two requests out of 36, with every target, script, application, error page and
both timeouts.

- `NeverInsideBody`: as long as no chunked body was cut by the decimal reading of
  its sizes (`astray`), a request line is never read out of the body of the request
  before. Without that condition (`LineIsLine`) it would not hold: section 5 says
  why. It depends on which methods may have a body, on `OPTIONS *` and TRACE,
  which go back to the loop before bodies are read, and on HTTP/1.0, whose
  chunked body is not read but ends the connection.
- `BodyIsOwn`: what `serve()` has in `bodysa`, again after local redirections,
  was read for the request in progress.
- `CloseIsLast`: once an answer has announced the close, the process is over.

### conn_kept

Three requests on connections whose scripts frame their answers and whose
applications fail before or in the middle of theirs. The other scripts and
applications are left out because of disagreements that section 6 names: with
them the answers are not delimited, or are two, or none.

- `DelimitedWhenKept`: while the process lives each answer is complete and says
  where it ends.
- `CleanExit`: after exit 0 every request that was read has its whole answer, but
  for the last one of a process without an exit line, which was handed over to an
  NPH script or a remote server. Section 6 says why.
- `ErrorCloses`: the last answer of a process that fails says so to its client.
- `LogPaired`: the answer lines of the log have their request lines, one each,
  and between two requests none is missing.
- `ExchangeSpec`: `Connection` implements `HttpExchange`, with
  `taken <- asked`, `answers <-` the numbers of the answers in `out`,
  `last <-` the request in progress is of HTTP/1.0 or says `close`, and
  `open <- phase # "exited"`: one answer at most for each request, in their
  order, and no request is taken after the last.
- `ProcessEnds`: pipelined, cut and abandoned requests and local redirections
  that lead to each other all come to an end, with both timeouts, whatever the
  client does; the exceptions are the copies by `splice()`, the loop around
  `sendfile()`, and what a script or a remote server does with the connection.

### req_all

Requests that are written from what they mean: paths of up to four pieces, plain
and encoded, with queries and authorities; up to five headers with keys that
come again in any case, `X-` and `Set-Cookie` ones between them, in 96 styles of
blanks, folds and line ends; bodies with a length and in chunks. And a few
requests with any character replaced by ten others, removed, or with the rest
cut off; the deadline may pass before any character.

- `ReadAsSent`: what is well written is read as it was meant, to its last byte
  and no further: host, port, path and query decoded, each header found with
  the values of all its lines, the body whole. It is refused only when its path
  leads above the root, its port is none or a limit is met, and also when it has
  data in chunks; those here have sizes below 10, which are the same in decimal, and
  what is served of them is whole. The right-hand side is the meaning that the text
  was made from, not the text read again.
- `RequestAsWritten`: whatever is sent, a request is what its text says, in four
  parts. `HeadIsOver`: headers end at the first empty line. `UriAsWritten`: an URI
  that is accepted is the one of the line, decoded once although it is decoded in
  the buffer that it is read from, and no request goes on with a path that leads
  upwards, however it was encoded. `FoundAsListed`: a header is found by its key,
  in any case, with its own value; those that are each for themselves are not
  found. `BodyAsAnnounced`: a request that is served ends where its headers say, so
  that the next one is read from there: `Transfer-Encoding` before
  `Content-Length`, no chunks in HTTP/1.0, no body for methods that have none, none
  too long. For chunks (`EndsWithChunks`) the end is the first empty line behind a
  size of 0, behind all data; where the first size is the same in decimal this is the
  end of the chunks, or what was sent is none: it has no line end behind the data
  of its first chunk. Where that size is less in decimal the code may stop inside the
  data, and the run `req_chunked` shows that it does.
- `HeadersAsWritten`: whatever is sent, a step that ends a header adds just that
  one to the list, behind what its key had before, and no other step changes the
  text of any header, though texts move in the buffer.
- `TypeOK` has the bounds: the URI is never written ahead of where it is read,
  and texts and places of headers stay inside their buffers.

### cgi_all

Bodies of 0 and 3 units, pipes and a buffer of 2, pages of 0 to 5 units with
headers of 2: a body and a page fit in a pipe, or do not, or end in the buffer,
in the pipe and beyond it. Scripts read first, last, never or at any time, hang,
stop short of their length, or leave a child with their stdout.

- `BodyIsWhole`: a script that reads the end of its stdin has the whole body.
- `PageIsWhole`: `do_cgi()` returns from a page when all of it was sent and
  nothing twice; the last chunk is sent at the end of the page only.
- `OneAnswer`: the timeout does not add a second answer.
- `Served`: while the client reads, a script that reads in time is answered without
  any timeout, others with both timeouts; with both, a client that reads nothing
  holds up `do_cgi()` in no other place than the two splices; no script is left
  waiting for a pipe.

### fcgi_all

Environments of 2 and 3 variables with records of 2, bodies of 0, 2 and 5 units
with records of 2: records filled to the last unit and not, and a request that
the socket of 2 records does not hold. Answers are cut inside the headers, at
their end and behind it, with FCGI_STDERR in between, and end in eight ways.

- `RequestIsWhole`: the environment and the body arrive whole; no record is empty
  before the end of its stream.
- `NothingLost`: wherever the answer is cut, the client has what was read of the
  body, once, up to the Content-Length; a last chunk comes from the end of
  FCGI_STDOUT (stated for applications with a `protocolStatus` that exists:
  section 6).
- `Served`: the exchange ends, and its peer finds out, except after HEAD, where
  the code returns without closing the socket. It takes for granted a client that
  reads, or a finite `write_timeout`, which all writes of `do_fastcgi()` have.

### file_all

Files of 0, 2, 4 and 6 units and every range around the ends of one of 4; two
changes at any moment; a pipe or buffer of 3 and a socket of 2, so that no
answer passes in one piece; the three builds; clients that stop reading or leave.

- `InPlace`: what the client gets are the headers, then the units promised, in
  order and without a hole, whatever happens to the file.
- `WholeIfKept`: when the loop goes on the client has all that Content-Length
  promised.
- `EndsForCause`: the process ends in the middle of an answer only because of
  the client, of the deadline or of a change of the file: no range that
  `tipidee_util_parse_range()` accepts reaches beyond the file.
- `Served`: each answer ends, but for `sendfile()` at the end of a file that was
  cut (section 6).

### conf_all

Every sequence of up to five lines out of nineteen, in the domains `h` and
`h:80`: redirections of `/`, `/a/` and `/a`, a `noredirect`, attributes and types of `/`, `/a/`
and `/a/b.c`, headers, a default, and a line that is wrong. Five lines are two
domains, and three lines of which two may be at odds and one hides another.

- `SaidHolds`: nothing that was accepted is changed by a later line, by a domain
  that is opened again, by a header or by a default.
- `FoundAsSaid` (`RedirectionIs`, `AttributesAre`): what tipideed then finds is what
  the most specific line says, for redirections of the host and its port before those of
  the host. A `noredirect` that is the most specific makes the search fail, which is
  not what it is for (section 6). The right-hand sides are stated on the lines, not
  on the database.
- `AtomicReplace`: whenever the program stops, what is installed is the old
  database or a whole new one, and the old one after its failures.
- `SeenFailureStops`: nothing is installed after the handler has seen that the
  child failed.

### pre_all

Four files in two directories, one of them with a second name, and every choice
of their texts out of a set: a root of up to three lines, with inclusions of a
file, of another one of the same name elsewhere, and of a directory; files that
are unique, multiple, neither or both, that include each other around two
directories, that end without a newline or cannot be read.

- `AsDocumented`: what is printed, and the exit code, are those of the documents'
  definition (`DocumentOf` in `Documents`, written from
  `tipidee-config-preprocess.html` and `tipidee.conf.html`). Left out: files that
  are expanded again and nested directories, for sections 5 and 6.
- `NoFileInItself`: a cycle is found before it is entered again, also by way of
  files that are expanded every time. It is for configurations as `OneDirectory`
  and `StaleIsListed` say (section 7), which this one is: `ConditionsHold`.
- `PlaceIsTrue`: the markers put each line in its file, and at its number unless
  lines before it were not printed.

### agg_all

Two process numbers, two clients and a stranger, three URLs of which two are cut
to the same text, processes that end in every way, in any order.

- `HitsAreTrue`: what is printed for a client is what it asked for, in order, and
  nothing of others, unless a stranger has taken the number of a process that
  ended without a line.
- `ComplainsForCause`: warnings are about processes whose start line is not in
  the log; the aggregator dies only of a number that was used again after its
  process had ended without a line.

The other three runs are in section 5.

## 4. Bounds, fairness, abstractions

Bounds: `MaxRequests` (2 or 3: a request, what it leaves, and the next one),
`MaxRedirs` (1 or 2 in place of 32: one less, at, and above the limit are met),
`MaxLines`, `MaxEdits`, `MaxHits` (2: a text that comes again, and one that does
not), and the sizes of pipes, sockets, buffers and records, which are 2 or 3 so
that every answer goes around them more than once. For `Request` the limits of
the code are made small enough to be met: lines of 48 characters, headers of 39
and 4 of them, lines of 6 in chunks, bodies of 6, sizes up to 999. The theorems
have none of those bounds; `LogAggregate` has its `MaxHits` in a guard there,
for any number.

Fairness: tipideed has weak fairness as a whole, because each of its waits is an
`iopause()` that an event or a deadline ends; a deadline that is infinite is no
action at all. In `Connection` nothing is assumed of clients: they send or not,
leave or not, and read or not, where without a deadline that means `"blocked"`,
`"copying"` or `"raw"` for ever. In `Cgi` a client may turn `deaf` at any moment,
and `Served` says what holds then. In `SendFile` those that are said to read do;
`FastCgi` takes for granted that the client reads or that `write_timeout` is finite.
It is infinite by default. Nothing makes a remote server or an NPH script end. A script or an application that is not said to hang goes on,
because the system schedules it; a child that a script leaves behind need not
end. `Config`, `Preprocess`, `LogAggregate` and `Request` have no liveness: they
run to the end of an input, at the pace of who writes it.

Abstractions: the text of headers and pages, dates and the format of the log are
left out. In `Connection` a request is what the code decides by; its characters
are those of `Request`. TLS and the words of a configuration line are not seen.
`errno` after a failed `write` is either of the client (gone or too slow). All
characters from 128 on are one, as no parser tells them apart.

## 5. Where the code and its documents disagree

Three runs check what a document says and find a behaviour of the code that does
otherwise; each is a finding with its lines in `PROJECT.json`.

| Run | Property | What happens |
|---|---|---|
| `req_chunked` | `ChunksAsSent` | the sizes of chunks, which are hexadecimal, are read as decimal numbers (`tipidee_util_chunked_read.c:23`): of a chunk of size `10` (16 bytes) 10 are read, and if `0` and an empty line are behind them in its data, the body ends there and is served; the next request is read from the rest of it (`ReadChunkedBody` in `Connection`), where `doc/index.html:25-27` has all the mandatory parts of HTTP/1.1 |
| `conf_race` | `ChildFailureFails` | tipidee-config does not wait for its child: it may install a database and exit 0 although the preprocessor has failed |
| `pre_multiple` | `MultipleExpands` | the flag that `!included: multiple` sets outlives the first reading: the second one finds an extra directive and fails |

## 6. Other disagreements, seen and modelled or left out, without a run

Connections and answers:

- `serve()` drops what `fastcgi()` returns (`tipideed.c:249`): a local
  redirection of an application ends its request without an answer and the next
  request is read. `Serve` does so; `conn_kept` leaves that reply out.
- A timeout inside the headers is answered 400, not 408
  (`tipidee_headers_parse.c:95`); `HeadersEnd` and `ParseHeader` do as the code.
- A custom error file is sent without `Connection: close` on a connection that
  will be closed, and as the answer to HEAD (`errors.c:98`): `ErrorAnswer` has
  both, and `conn_kept` leaves custom files out for that.
- `rproxy()` drops what `fd_cat()` returns and calls `_exit(0)` (`rproxy.c:52-53`):
  exit code 0, "a successful series of HTTP exchanges" (`tipideed.html:94-96`),
  comes also of an answer that was cut, and no exit line is logged. `RawEnds` does so,
  and `CleanExit` excepts it.
- `max_cgi_body_length` is stored and never compared (`tipideed.c:385`).
- `If-Modified-Since` with the very time of the file sends the file again
  (`tipideed.c:320`); `bytes=-0` is answered 206 with no byte.
- `sendfile()` returns 0 at the end of a file that was cut, and `s_flush()` calls
  it for ever (`send_file.c:44`), whatever `write_timeout` is
  (`tipidee.conf.html:194-196`). `Spins` is that state in `SendFile`, the exception
  of `Served`; in `Connection` it is `phase = "spinning"`, which `File` and the custom
  error files of `ErrorFails` may lead to.

Scripts and applications:

- `stream_infinite()` has no deadline (`stream.c:86`): a script that stops in a
  page without a length holds the process in spite of `cgi_timeout`
  (`tipidee.conf.html:217-223`). `Served` of `Cgi` leaves those pages out.
- The loop around the `splice()` of `stream_fixed()` waits for the script only
  (`stream.c:44`, `:70-72`): with a client that stays and reads nothing, `splice()`
  fails with EAGAIN, the pipe of the script is readable, and the loop turns without
  a pause and past the deadline, in spite of `write_timeout`
  (`tipidee.conf.html:194-196`). `stream_infinite()` blocks in the same case
  (`:85`). `StreamFixed` and `StreamInfinite` do so, and `phase = "copying"` in
  `Connection`; `Served` and `ProcessEnds` except them (`Spliced`, `Copied`).
- A page of a script without a length and without `autochunk` has no end on a
  connection that is kept (`cgi.c:295`); a 304 with `autochunk` is followed by a
  last chunk (`cgi.c:280`). `CgiPage` has both; `MCGoodRuns` leaves them out.
- The rest of a body is only written before the page is copied (`cgi.c:230`): a
  script that writes a large page first and reads then waits until the timeout.
  `Served` names the scripts that are not in this case.
- After a timeout `kill()` may name a process that the handler has reaped
  (`cgi.c:220`): process numbers are not modelled.
- The helper that writes the body to an NPH script answers 500 itself when it
  cannot, on the connection that the script is writing to (`cgi.c`, `do_nph`).
- FCGI_END_REQUEST after a complete answer takes the branch of unsupported
  streams (`fastcgi.c:295`): the process dies, or adds a 502, where
  `tipideed.html:440-446` has it go on. `ReadRecord` does as the code.
- An unknown `protocolStatus` ends the answer as if it were complete
  (`tipidee_fcgi_read.c:55`); HEAD leaves the socket open (`fastcgi.c:278`); a
  length of 0 is sent as chunks behind a `Content-Length` (`fastcgi.c:242`).

Requests:

- Chunked bodies: the line end after the data of a chunk is not skipped
  (`tipidee_util_chunked_read.c:29`), so that a body with data whose sizes are the
  same in decimal is answered 400, or 413 when a size looks too long; one whose sizes
  are less in decimal (section 5) is refused too, or cut short and served.
  `ReadChunk` and `ReadChunkedBody` do as the code; `ReadAsSent` lets data in chunks
  be refused.
- `X-` and `Set-Cookie` headers are not in the map of `tipidee_headers_search()`,
  so that `tipidee_log_request()` does not find an `X-Forwarded-For` unless it is
  written in small letters. `Search` does as the code.
- In a URI `%%` stands for `%`; `http://host?query` drops the question mark and
  goes on with the host; the characters `& ' ( ) * , ; < > [ ]` are refused in a
  path. `UriRows` has all three.
- An empty request line reads the byte before its buffer and is answered 400
  anyway; `ReadLine` has the answer only. `lastslash` is computed and not used.
- `Content-Length: 12x` is 12 (`size_scan()`); `ContentLength` does as the code.

Configuration and logs:

- The node of `noredirect` has one byte (`lexparse.c:281`) and `get_redir()` takes
  one of less than 5 for a corrupted database (`tipidee_conf_get_redirection.c:31`),
  before it looks at the type: `serve()` answers 500 to requests for a resource that
  is only to be left alone (`tipidee.conf.html:977-980`).
  `FirstRedirection` does as the code and `RedirectionIs` says for which requests.
- `parse_filetype()` copies attributes out of a storage that may move
  (`lexparse.c:460`): `FileType` has the copy, `Killed` a fault.
- `file-type` after `cgi` for the same path is refused, and `cgi` after
  `file-type` is accepted (`lexparse.c`); `FileType` and `Attribute` do as the
  code. More specific lines that name all the attributes hide a `file-type`.
- `nph-prefix` sets the bit of `basic-auth`: `1 << TIPIDEE_RA_FLAG_NPH` takes a
  mask for the number of a bit (`tipidee_conf_get_resattr.c:48`), so that it makes
  no script one with non-parsed headers. `WithPrefix` has the code's bit and
  `AttributesAre` leaves `basic-auth` out.
- A tipidee-config that is killed leaves its temporary file.
- The loop of `includecwd()` counts to the length of `ga` from `gabase`
  (`tipidee-config-preprocess.c:87`): a directory that is included from another
  one reads past its entries. `PastEntries` has what may lie there.
- The flag of an open file is set only when the file is new
  (`tipidee-config-preprocess.c:165`). A file with `!included: multiple` that
  includes `c`, read first in a directory whose `c` is a harmless file and then by
  a link in one whose `c` is a link to the file itself, is read inside itself, and
  another error than the cycle ends it. `Enter` does as the code; `OneDirectory`
  keeps such links out of `NoFileInItself` (section 7).
- Lines that are not printed move the numbers behind them
  (`tipidee-config-preprocess.c:244`): a diagnostic may name an earlier line.
  `PlaceIsTrue` says by how much. A last line without a newline takes the marker
  behind it with it.
- With `host_as_prefix` no request is counted
  (`tipidee-logaggregate.c:427-435`): `ReadGet` does as the code. Its exit code 1
  for a number that is used again is in no document, and all that was aggregated
  is lost then. A path ends at its first double quote (`:247`), and the last line
  of the log is dropped when it has no newline.
- When a process ends without a line, and a stranger has its number next, the
  requests of the stranger are counted for the client of the first one: the
  exception of `HitsAreTrue`.

## 7. Proofs

Each `_proofs` module extends the one it is about and has the same shape. An
inductive invariant (`IInv`, or `Inv`); that `Init` has it; one lemma or step for
each action that keeps it; and that it implies each property, put together in
the last steps with PTL. The constants have the assumptions that the modules
name (`ConnectionAssumption` and so on): sizes are any positive numbers,
requests, scripts, files, lines and records any sets of their types.

| Module | Theorems | Why the properties are not inductive by themselves |
|---|---|---|
| `Connection_proofs` | `TypeCorrect`, `CloseAnnounced`, `OwnBody`, `NeverInside`, `Delimited`, `FailureCloses`, `LogIsPaired`, `Implements`, `AllAnsweredAtExit` | see below |
| `Request_proofs` | `TypeCorrect`, `HeadEnds`, `UriRead`, `HeadersRead`, `HeadersFound`, `BodyRead`, `RequestRead` | `Room`: a scheme leaves the byte that the NUL behind a host needs; `Shape`, `Pending`: the header being read lies behind all others, and what is put together is no longer than what it replaces; `Behind_`: how far the state of the automaton is from the last line end; for what is read see below |
| `Cgi_proofs` | `TypeCorrect`, `WholeBody`, `WholePage`, `AnsweredOnce` | `FeedOK` ties the closing of stdin to the end of the body, `HeadOK` where headers end, `CopyOK` what each of the three copies has sent |
| `FastCgi_proofs` | `TypeCorrect`, `WholeAnswer`, `WholeRequest` | `StateOK` says what was read and answered in each state of the parser; for the request see below |
| `SendFile_proofs` | `TypeCorrect`, `BodyInPlace`, `WholeWhenKept`, `EndsWithCause`, `RangeInside` | `Placed`: written, held and unread units add up to the answer and lie in the file one behind the other, and the offset is where the unread ones start; `Phase` says when the size is the one that `stat()` saw |
| `Config_proofs` | `TypeCorrect`, `NothingOverridden`, `WholeOrOld`, `StoppedWhenSeen`, `RedirectedAsSaid`, `AttributesAsSaid`, `LookupsAsSaid` | `TreeInv` keeps the headers apart from what lines add, `OutputInv` says what is in the tree at each step of the output, `EndInv` how each end came about; for what requests find see below |
| `Preprocess_proofs` | `TypeCorrect`, `NoCycle`, `TruePlace`, `PrintsAsDocumented` | `Framed`: all frames but the last wait, and each frame is of a file with its line in it; `Tracks`: `conf_lexparse()` (`md`) waits for the line that the frame on top is at, and no line printed so far has a wrong place (`TruePlaces`), when all files end in a newline; for cycles, and for what is printed, see below |
| `LogAggregate_proofs` | `TypeCorrect`, `TrueHits`, `CauseOfComplaints` | `Held` ties the address under which a number is registered to the process that has it, or had it and left no line, also while a line is on its way; `Told`: what is counted is what was asked for, but for that line |

The connection. `IInv` has the types, the close and whose body is in `bodysa`.
`WInv` adds the wire: the parts in `net` and `rest` follow each other as a client
sends them (`Follows`), and the first is the one that the phase waits for, as long
as no body was cut (`astray`); from it `NeverInside`. `TInv` counts the answers: between two requests all have
theirs, and in the middle of one all but the last. It gives the simulation of
`HttpExchange` (`Implements`), step by step, and `AllAnsweredAtExit`. `LInv` does
the same for the log (`Paired`, `Even`, `EvenBut`). Some theorems are about part
of the environments, as the code does otherwise for the rest (section 6): they
are stated with an assumption, which is

- `WellBehaved`: no application fails after its headers, or redirects
  (`Implements`, `AllAnsweredAtExit`, `LogIsPaired`, `FailureCloses`);
- `SelfFramed`: no custom error files, and scripts that say where their pages end
  (`Delimited`);
- `Reticent`: no application goes on after a complete answer (`FailureCloses`).

What `Request` reads. `UriReads` ties each state of the automaton to a prefix of
the target: what has been copied stands for it, what is behind is as it was
sent. As one buffer holds both, each row is shown to write behind what it has yet
to read. `Unquoting` and `Squeezed` are recursive functions, and the same was
needed of both: that they exist, and their value at one place from that at the
next. Both are shown by the least place at which it would fail (`LeastOf`,
`UnquotingIs`, `SqueezedIs`). `HeadersAreRead` has two parts: the list is whole
(`Listed`), and of the header being read (`Reading`) it says where it begins, that its key
is copied, and that its value is the squeezed text so far. One that comes again moves
the texts behind it: `FieldsMove` shows that each entry has the text it had.
`HeadersFound` needs of this that no two entries of the map have keys that are
equal in any case. `BodyKnown` keeps where the headers ended (`AfterHead`), and what
of the body has been taken: reading is at the first size, directly behind the data of
the first chunk, or it has gone on from there without a line end, or its size was
another one in decimal (`ChunksSoFar`, `Misread`); and since a size of 0 no empty line
was passed (`LastChunkRead`). `BodyRead` and `RequestRead` have an assumption, `SendsLess`: a
request and the longest body are together no longer than the largest `size_t`,
so that the sum of the sizes of two chunks does not wrap around.

The request of `FastCgi`. What was sent is what was read and what is on the way,
record by record; in place of a sum over the queue the invariant says that a
path exists (`Path`): one point for each record and one before, that leads from
what the application has read (`ReadTo`) to what tipideed has sent (`SentTo`),
each step by what its record has (`Leads`). Sending makes the path longer,
reading drops its first point, and a stream that was ended was ended at the end
of its source.

The redirections of `Config`. The tree has a key of a redirection only when a
line said it (`RedirectsSaid`, by induction), and what a line said holds
(`SaidHolds`). The keys of a chain are numbered by what they leave of the path
(`ChainIs`, `Position`), so the lines for a path are the keys that are found
(`LineFound`, `FoundLine`); the first of them, which exists because numbers are
well founded (`Smallest`), is that of the line that says most (`BestIsFirst`),
for the domain with its port and the one without (`RedirectionFound`).

The attributes of `Config`. Here every key of the chain may add to the answer,
and the search is a recursive function, `Climb`. An induction over it would need
an operator for its statement, which the provers cannot be given, so the proof
takes the least counterexample instead: the keys at which the claim fails are a
set of numbers, and a set has a smallest one (`Smallest`). `SearchStep` and
`TypeStep` are what is known at a key from what is known at the one before:
which attributes are in the mask so far (`KnownIs`), and that each has the value
of the first line that names it (`GivenIs`, `NamedIs`); likewise the type, unless
all attributes were known before it (`NoTypeIs`, `TypeIs`). `AttributesSaid` is
the inductive invariant that a node has an attribute, or a type, only because an
accepted line said so for its key. The three together are `AttributesAsSaid`; with the redirections, `LookupsAsSaid`.

The cycles of `Preprocess`. The flag of an open file cannot be relied on, because
it is set only for a file that is new. What stops a cycle of files that are read
again is their history. `Acyclic` says: the files that were read to their end
have an order in which all that their lines lead to comes lower; on the stack the
files that are read for the first time come first, and behind them those that are
read again, each lower than the one that includes it. So the next one is lower
still, and not on the stack. `OneDirectory` is what makes this true: a line of a
file leads to the same file each time only if the file is always found in the same
directory. Without it the program does read a file inside itself (section 6).
`StaleIsListed` is about the read past the entries of a directory
(`PastEntries`): what lies there must not lead to a file that the directory does
not list; the names left by other directories have no dot in front, so that they
are listed where they lead to a file at all.

What `Preprocess` prints. The documents' function and the program's stack meet in
`Links`: the stack is what is left of the document. For each frame there is a
result `V[k]` of the documents, and a directory `D[k]`; `V[k]` is what the steps
that the frame has still to do (`Onward`) make of `V[k + 1]`, which is that of the
frame behind it. The first is the whole document, and the one behind the last
frame is what the program has (`Sofar`: `out`, and the files in `flags`). Each
action does one step of the last frame (`ThroughNext`, `LineStepped`), puts a frame
with the steps of a name in its place (`NewFile`) or takes one away that has none
left (`EndIs`); when the stack is empty, what the program has is the document. A
failure needs `Kept`: no later step changes a result that has failed, so what
fails now is what the document comes to (`LinksKept`). The flags are tied to the
texts by `Flagged`: "open" for the files on the stack, and what the lines passed so
far declared. That the program and the documents agree on being included again
holds where `Plain` does, and nowhere else: otherwise a file would be read again
(the flags of the first time) or a directory in a directory (`gabase`). The
recursions of `Documents` are functions, of which it has to be shown that they
exist: `LeftsExist` and `LevelsExist`, by the least number for which one would
not. `FilesAreFinite` is the one assumption: it gives the levels of `Reading`
their number, and a configuration has finitely many files.

`EndsWithCause`, `StoppedWhenSeen` and `HeadersAsWritten` are properties of steps, `Implements` is a
refinement; the others are of states. `RangeInside` is about operators alone.

Only model-checked: liveness (`Served`, `ProcessEnds`), which is beyond this
prover; `ReadAsSent`, which is about requests that were written from a meaning.
What is read of them is the theorems' (`UriRead`, `HeadersRead`, `BodyRead`); that
none of them is refused would need an account of how each is written. And the three properties of
section 5 have no theorem because the code does otherwise.

## 8. Not modelled

`PROJECT.json` lists every part. Left out for good: `ls.cgi` and the wrapper
(one page, one exec), the hardening calls made once at the start, the tables of
texts, and the build. Partly modelled: NPH scripts and the reverse proxy, of
which `Connection` has the effect on the connection; responses, their status and
framing without their text; logging, which lines there are and what their reader
makes of them; configuration lookups, the two searches without the plain reads.

## 9. Plan

Done, in this order: `Connection` with `HttpExchange`, `Cgi`, `FastCgi`,
`SendFile`, `Lookup` with `Config`, `Preprocess`, `LogAggregate`, then `Bytes`,
`Uri`, `Headers` and `Request`, and the theorems of section 7. What is left:

1. `Nph`: `do_nph()` with its helper, and `rproxy()`; two writers on one
   connection.
2. `Deadlines`: STAMP, the clock that deadlines are counted from, which only the
   waits bring up to date; a deadline set after a blocking call comes early.
3. Theorems: `Implements` for more applications.
