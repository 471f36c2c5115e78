----------------------------- MODULE LogAggregate -----------------------------
(***************************************************************************)
(* tipidee-logaggregate, behind the tipideed processes whose lines it      *)
(* reads.  It knows a process by its number, from its start line to its    *)
(* exit line, and counts each GET for the address of that start line.      *)
(***************************************************************************)
EXTENDS Naturals, Sequences

CONSTANTS
  Pids,       \* the numbers of processes, which are used again
  Ips,        \* the addresses of clients that -4 or -6 makes readable
  Stranger,   \* a process whose start line is not in the log, or has no such address
  None,
  Urls,       \* what is asked for: a host, a path and a query
  Texts,      \* what add_request() makes of it
  Shown,      \* which: it ends a path at its first double quote, and drops the rest
  MaxHits     \* bound: what is asked for by a client, or counted for it

\* A line, with the process that wrote it: "get" is a request line, "other" any other
\* line: of other methods, resources, answers, and warnings.
LogLine == [kind : {"start", "get", "other", "exit", "fatal"}, pid : Pids,
            from : Ips \cup {Stranger}, url : Urls \cup {None}]

ASSUME AggregateAssumption ==
  /\ None \notin Ips \cup {Stranger} /\ Stranger \notin Ips /\ None \notin LogLine
  /\ Shown \in [Urls -> Texts] /\ MaxHits \in Nat

VARIABLES
  prefixed,   \* tipidee.conf says: log host_as_prefix
  client,     \* whom the process with a number serves, None without a process
  asked,      \* what the clients asked for by GET, each since its start line
  gone,       \* the numbers that are registered and whose process is gone
  taken,      \* those among them that a stranger has taken
  line,       \* the next line of the input, or None
  status,     \* "reading", "done" or "died", of the aggregator
  pidip,      \* pidip_map: the address of a number, None if it is not registered
  storage,    \* the texts in storage, each once
  indices,    \* ipinfo_map: where the hits of an address are in storage
  warned      \* the processes about which it complained

processes == <<prefixed, client, asked, gone, taken>>
tables == <<pidip, storage, indices>>
vars == <<prefixed, client, asked, gone, taken, line, status, pidip, storage, indices, warned>>

MayAsk == \A ip \in Ips : Len(asked[ip]) < MaxHits /\ Len(indices[ip]) < MaxHits

-----------------------------------------------------------------------------
(* The processes write lines when they want; a line is read before the next. *)

Logs(kind, pid, from, url) ==
  /\ status = "reading" /\ line = None
  /\ line' = [kind |-> kind, pid |-> pid, from |-> from, url |-> url]
  /\ UNCHANGED <<prefixed, status, tables, warned>>

\* main() of tipideed: log_start
Start(pid, who) ==
  /\ client[pid] = None
  /\ client' = [client EXCEPT ![pid] = who]
  /\ taken' = IF who = Stranger THEN taken \cup (gone \cap {pid}) ELSE taken
  /\ Logs("start", pid, who, None)
  /\ UNCHANGED <<asked, gone>>

\* log_request, for GET
Get(pid, url) ==
  /\ client[pid] # None
  /\ MayAsk
  /\ asked' = IF client[pid] \in Ips
              THEN [asked EXCEPT ![client[pid]] = Append(@, url)] ELSE asked
  /\ Logs("get", pid, client[pid], url)
  /\ UNCHANGED <<client, gone, taken>>

\* log_request for other methods, log_resource, log_answer, and warnings
Speak(pid) ==
  /\ client[pid] # None
  /\ Logs("other", pid, client[pid], None)
  /\ UNCHANGED <<client, asked, gone, taken>>

\* log_and_exit(), or strerr_dief
Leave(pid, kind) ==
  /\ client[pid] # None
  /\ client' = [client EXCEPT ![pid] = None]
  /\ Logs(kind, pid, client[pid], None)
  /\ UNCHANGED <<asked, gone, taken>>

\* The process execs an NPH script, ends in rproxy(), or is killed.
Vanish(pid) ==
  /\ status = "reading" /\ line = None
  /\ client[pid] # None
  /\ client' = [client EXCEPT ![pid] = None]
  /\ gone' = IF pidip[pid] # None THEN gone \cup {pid} ELSE gone
  /\ UNCHANGED <<prefixed, asked, taken, line, status, tables, warned>>

-----------------------------------------------------------------------------
(* main() of the aggregator, by the line that is read. *)

Reads(kinds) == status = "reading" /\ line # None /\ line.kind \in kinds
Done == line' = None /\ UNCHANGED status
Registered == pidip[line.pid] # None
Complain == warned' = warned \cup {line.from}

ReadStart_Kept ==
  /\ Reads({"start"})
  /\ pidip' = IF ~Registered /\ line.from \in Ips
              THEN [pidip EXCEPT ![line.pid] = line.from] ELSE pidip
  /\ Done
  /\ UNCHANGED <<processes, storage, indices, warned>>

\* parse_start, pidip_add
ReadStart ==
  /\ Reads({"start"})
  /\ \/ /\ line.from \notin Ips /\ Complain /\ Done
        /\ UNCHANGED tables
     \/ /\ line.from \in Ips /\ Registered
        /\ status' = "died"
        /\ UNCHANGED <<line, tables, warned>>
     \/ /\ line.from \in Ips /\ ~Registered
        /\ pidip' = [pidip EXCEPT ![line.pid] = line.from]
        /\ Done
        /\ UNCHANGED <<storage, indices, warned>>
  /\ UNCHANGED processes

AddRequest_Again(ip, text) ==
  /\ storage' = Append(storage, text)
  /\ indices' = [indices EXCEPT ![ip] = Append(@, Len(storage) + 1)]

\* add_request: a text that is in storage is not stored again.
AddRequest(ip, text) ==
  \/ \E i \in DOMAIN storage :
       /\ storage[i] = text
       /\ indices' = [indices EXCEPT ![ip] = Append(@, i)]
       /\ UNCHANGED storage
  \/ /\ \A i \in DOMAIN storage : storage[i] # text
     /\ storage' = Append(storage, text)
     /\ indices' = [indices EXCEPT ![ip] = Append(@, Len(storage) + 1)]

\* parse_request.  With a host as prefix main() gives parse() the line with the blank
\* that is behind the host, and no word of parse() begins with a blank.
ReadGet ==
  /\ Reads({"get"})
  /\ \/ prefixed /\ UNCHANGED <<storage, indices, warned>>
     \/ ~prefixed /\ ~Registered /\ Complain /\ UNCHANGED <<storage, indices>>
     \/ /\ ~prefixed /\ Registered
        /\ AddRequest(pidip[line.pid], Shown[line.url])
        /\ UNCHANGED warned
  /\ Done
  /\ UNCHANGED <<processes, pidip>>

ReadOther ==
  /\ Reads({"other"})
  /\ Done
  /\ UNCHANGED <<processes, tables, warned>>

ReadEnd_FatalMissed ==
  /\ Reads({"exit", "fatal"})
  /\ pidip' = IF line.kind = "exit" THEN [pidip EXCEPT ![line.pid] = None] ELSE pidip
  /\ Done
  /\ UNCHANGED <<processes, storage, indices, warned>>

\* pidip_delete, by parse_exit or for a fatal line
ReadEnd ==
  /\ Reads({"exit", "fatal"})
  /\ \/ ~Registered /\ Complain /\ UNCHANGED <<pidip, gone>>
     \/ /\ Registered
        /\ pidip' = [pidip EXCEPT ![line.pid] = None]
        /\ gone' = gone \ {line.pid}
        /\ UNCHANGED warned
  /\ Done
  /\ UNCHANGED <<prefixed, client, asked, taken, storage, indices>>

\* The output is made of the tables.  The last line may have no end: it is left out.
EndOfInput ==
  /\ status = "reading"
  /\ status' = "done"
  /\ UNCHANGED <<processes, line, tables, warned>>

-----------------------------------------------------------------------------
\* The log may begin, and the aggregator with it, when processes are there.
Init ==
  /\ prefixed \in BOOLEAN
  /\ client \in [Pids -> {None, Stranger}]
  /\ asked = [ip \in Ips |-> <<>>] /\ gone = {} /\ taken = {}
  /\ line = None /\ status = "reading"
  /\ pidip = [pid \in Pids |-> None]
  /\ storage = <<>> /\ indices = [ip \in Ips |-> <<>>] /\ warned = {}

Next ==
  \/ \E pid \in Pids : \/ \E who \in Ips \cup {Stranger} : Start(pid, who)
                       \/ \E url \in Urls : Get(pid, url)
                       \/ Speak(pid)
                       \/ \E kind \in {"exit", "fatal"} : Leave(pid, kind)
                       \/ Vanish(pid)
  \/ ReadStart \/ ReadGet \/ ReadOther \/ ReadEnd \/ EndOfInput

Spec == Init /\ [][Next]_vars
-----------------------------------------------------------------------------
(* What is checked. *)

\* The types; no text is twice in storage, and each hit is of a text that is there.
TypeOK ==
  /\ prefixed \in BOOLEAN /\ client \in [Pids -> Ips \cup {None, Stranger}]
  /\ asked \in [Ips -> Seq(Urls)] /\ gone \subseteq Pids /\ taken \subseteq Pids
  /\ line \in LogLine \cup {None} /\ status \in {"reading", "done", "died"}
  /\ pidip \in [Pids -> Ips \cup {None}] /\ warned \subseteq Ips \cup {Stranger}
  /\ storage \in Seq(Texts)
  /\ \A i, j \in DOMAIN storage : storage[i] = storage[j] => i = j
  /\ indices \in [Ips -> Seq(DOMAIN storage)]

\* The hits of an address, as print_iter prints them.
Printed(ip) == [k \in DOMAIN indices[ip] |-> storage[indices[ip][k]]]

\* Unless a stranger has taken the number of a process that is still registered, the
\* aggregator prints for each client, in the order of the log, what its processes were
\* asked for since their start lines: nothing of others, and nothing less (pidip_add,
\* add_request).
HitsAreTrue ==
  line = None /\ ~prefixed /\ taken = {} =>
    \A ip \in Ips : Printed(ip) = [k \in DOMAIN asked[ip] |-> Shown[asked[ip][k]]]

\* A warning is only about a process whose start line is not in the log, and the
\* aggregator only dies of a number that is used again after its process ended without
\* a line (pidip_search, pidip_add).
ComplainsForCause ==
  /\ warned \subseteq {Stranger}
  /\ status = "died" => line.pid \in gone
===============================================================================
