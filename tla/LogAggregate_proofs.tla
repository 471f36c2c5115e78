-------------------------- MODULE LogAggregate_proofs --------------------------
(***************************************************************************)
(* Proofs about LogAggregate, for any numbers, clients and URLs: typing,   *)
(* that each hit is printed for the client it is of, and that a complaint  *)
(* has its cause.  They rest on who holds which number, in Held.           *)
(***************************************************************************)
EXTENDS LogAggregate, SequenceTheorems, TLAPS

Who == Ips \cup {Stranger}

\* The address under which a process is registered.
Under(who) == IF who \in Ips THEN who ELSE None

Types ==
  /\ prefixed \in BOOLEAN /\ client \in [Pids -> Ips \cup {None, Stranger}]
  /\ asked \in [Ips -> Seq(Urls)] /\ gone \subseteq Pids /\ taken \subseteq Pids
  /\ line \in LogLine \cup {None} /\ status \in {"reading", "done", "died"}
  /\ pidip \in [Pids -> Ips \cup {None}] /\ warned \subseteq Who
  /\ line # None /\ line.kind = "get" => line.url \in Urls

Stored ==
  /\ storage \in Seq(Texts)
  /\ \A i, j \in DOMAIN storage : storage[i] = storage[j] => i = j
  /\ indices \in [Ips -> Seq(DOMAIN storage)]

-----------------------------------------------------------------------------
(* Typing, and the texts in storage. *)

LEMMA LineFields ==
  ASSUME NEW l \in LogLine
  PROVE  /\ l.kind \in {"start", "get", "other", "exit", "fatal"} /\ l.pid \in Pids
         /\ l.from \in Who /\ l.url \in Urls \cup {None} /\ l # None
  BY AggregateAssumption DEF LogLine, Who

LEMMA AppendIs ==
  ASSUME NEW S, NEW s \in Seq(S), NEW x \in S
  PROVE  Append(s, x) = [k \in 1..(Len(s) + 1) |-> IF k = Len(s) + 1 THEN x ELSE s[k]]
<1> DEFINE t == Append(s, x)
           n == Len(s)
<1>1. /\ n \in Nat /\ t \in [1..(n + 1) -> S]
      /\ t[n + 1] = x /\ \A k \in 1..n : t[k] = s[k]
  <2>1. /\ t \in Seq(S) /\ Len(t) = n + 1 /\ t[n + 1] = x
        /\ \A k \in 1..n : t[k] = s[k]
    BY AppendProperties
  <2>2. n \in Nat  OBVIOUS
  <2> HIDE DEF t, n
  <2>3. t \in [1..Len(t) -> S]  BY <2>1
  <2> QED  BY <2>1, <2>2, <2>3
<1> HIDE DEF t, n
<1>2. ASSUME NEW k \in 1..(n + 1) PROVE t[k] = IF k = n + 1 THEN x ELSE s[k]
  BY <1>1
<1>3. t = [k \in 1..(n + 1) |-> IF k = n + 1 THEN x ELSE s[k]]  BY <1>1, <1>2
<1> QED  BY <1>3 DEF t, n

LEMMA InitTypes == Init => Types /\ Stored
<1> SUFFICES ASSUME Init PROVE Types /\ Stored  OBVIOUS
<1>1. asked \in [Ips -> Seq(Urls)]
  <2>1. <<>> \in Seq(Urls)  OBVIOUS
  <2> QED  BY <2>1 DEF Init
<1>2. indices \in [Ips -> Seq(DOMAIN storage)] /\ storage \in Seq(Texts)
  <2>1. <<>> \in Seq(DOMAIN storage) /\ <<>> \in Seq(Texts)  OBVIOUS
  <2> QED  BY <2>1 DEF Init
<1>3. \A i, j \in DOMAIN storage : storage[i] = storage[j] => i = j  BY DEF Init
<1>4. client \in [Pids -> Ips \cup {None, Stranger}]  BY DEF Init
<1>5. pidip \in [Pids -> Ips \cup {None}]  BY DEF Init
<1> QED  BY <1>1, <1>2, <1>3, <1>4, <1>5 DEF Init, Types, Stored

\* A line that is written.
LEMMA LogsTypes ==
  ASSUME Types, NEW kind \in {"start", "get", "other", "exit", "fatal"}, NEW pid \in Pids,
         NEW from \in Who, NEW url \in Urls \cup {None}, kind = "get" => url \in Urls,
         Logs(kind, pid, from, url)
  PROVE  /\ line' \in LogLine /\ line' # None
         /\ line'.kind = kind /\ line'.pid = pid /\ line'.from = from /\ line'.url = url
         /\ line = None /\ status = "reading"
         /\ UNCHANGED <<prefixed, status, pidip, storage, indices, warned>>
         /\ line'.kind = "get" => line'.url \in Urls
<1>1. line' = [kind |-> kind, pid |-> pid, from |-> from, url |-> url]  BY DEF Logs
<1>2. line' \in LogLine  BY <1>1 DEF LogLine, Who
<1> QED  BY <1>1, <1>2, LineFields DEF Logs, tables

\* What is added to storage, and to the hits of an address.
LEMMA Added ==
  ASSUME Stored, NEW ip \in Ips, NEW text \in Texts, AddRequest(ip, text)
  PROVE  /\ Stored'
         /\ Printed(ip)' = Append(Printed(ip), text)
         /\ \A other \in Ips : other # ip => Printed(other)' = Printed(other)
<1> DEFINE n == Len(storage)
<1>0. n \in Nat /\ DOMAIN storage = 1..n  BY DEF Stored
<1>1. PICK i \in Nat : /\ i \in DOMAIN storage'
                       /\ storage'[i] = text
                       /\ indices' = [indices EXCEPT ![ip] = Append(@, i)]
                       /\ storage' \in Seq(Texts)
                       /\ DOMAIN storage \subseteq DOMAIN storage'
                       /\ \A j \in DOMAIN storage : storage'[j] = storage[j]
                       /\ \A j, k \in DOMAIN storage' : storage'[j] = storage'[k] => j = k
  <2>1. CASE \E i \in DOMAIN storage :
               /\ storage[i] = text
               /\ indices' = [indices EXCEPT ![ip] = Append(@, i)]
               /\ UNCHANGED storage
    <3>1. PICK i \in DOMAIN storage : /\ storage[i] = text
                                      /\ indices' = [indices EXCEPT ![ip] = Append(@, i)]
                                      /\ UNCHANGED storage
      BY <2>1
    <3>2. i \in Nat  BY <1>0
    <3> WITNESS i \in Nat
    <3> QED  BY <3>1 DEF Stored
  <2>2. CASE /\ \A i \in DOMAIN storage : storage[i] # text
             /\ storage' = Append(storage, text)
             /\ indices' = [indices EXCEPT ![ip] = Append(@, Len(storage) + 1)]
    <3>1. /\ DOMAIN storage' = 1..(n + 1) /\ storage' \in Seq(Texts)
          /\ storage'[n + 1] = text /\ \A j \in 1..n : storage'[j] = storage[j]
      BY <1>0, <2>2 DEF Stored
    <3> HIDE DEF n
    <3>2. n + 1 \in Nat /\ n + 1 \in DOMAIN storage' /\ DOMAIN storage \subseteq DOMAIN storage'
      BY <1>0, <3>1
    <3>3. ASSUME NEW j \in DOMAIN storage', NEW k \in DOMAIN storage', storage'[j] = storage'[k]
          PROVE  j = k
      <4>1. CASE j = n + 1 /\ k = n + 1  BY <4>1
      <4>2. CASE j = n + 1 /\ k # n + 1
        <5>1. k \in 1..n  BY <1>0, <3>1, <4>2
        <5> QED  BY <1>0, <2>2, <3>1, <3>3, <4>2, <5>1
      <4>3. CASE j # n + 1 /\ k = n + 1
        <5>1. j \in 1..n  BY <1>0, <3>1, <4>3
        <5> QED  BY <1>0, <2>2, <3>1, <3>3, <4>3, <5>1
      <4>4. CASE j # n + 1 /\ k # n + 1
        <5>1. j \in 1..n /\ k \in 1..n  BY <1>0, <3>1, <4>4
        <5> QED  BY <1>0, <3>1, <3>3, <5>1 DEF Stored
      <4> QED  BY <4>1, <4>2, <4>3, <4>4
    <3>4. indices' = [indices EXCEPT ![ip] = Append(@, n + 1)]  BY <2>2 DEF n
    <3>5. n + 1 \in Nat  BY <3>2
    <3> WITNESS n + 1 \in Nat
    <3> QED  BY <1>0, <3>1, <3>2, <3>3, <3>4
  <2> QED  BY <2>1, <2>2 DEF AddRequest
<1>2. ASSUME NEW a \in Ips
      PROVE  /\ indices[a] \in Seq(DOMAIN storage)
             /\ indices[a] \in Seq(DOMAIN storage')
             /\ DOMAIN indices[a] = 1..Len(indices[a]) /\ Len(indices[a]) \in Nat
             /\ \A k \in DOMAIN indices[a] : storage'[indices[a][k]] = storage[indices[a][k]]
  <2>1. indices[a] \in Seq(DOMAIN storage)  BY DEF Stored
  <2>2. \A k \in DOMAIN indices[a] : indices[a][k] \in DOMAIN storage  BY <2>1
  <2>3. indices[a] \in Seq(DOMAIN storage')  BY <1>1, <2>1
  <2> QED  BY <1>1, <2>1, <2>2, <2>3
<1>3. /\ indices'[ip] = Append(indices[ip], i)
      /\ \A a \in Ips : a # ip => indices'[a] = indices[a]
      /\ DOMAIN indices' = Ips
  BY <1>1 DEF Stored
<1>4. indices' \in [Ips -> Seq(DOMAIN storage')]
  <2>1. indices'[ip] \in Seq(DOMAIN storage')  BY <1>1, <1>2, <1>3
  <2>2. ASSUME NEW a \in Ips PROVE indices'[a] \in Seq(DOMAIN storage')  BY <1>2, <1>3, <2>1
  <2>3. indices' = [a \in Ips |-> indices'[a]]  BY <1>1 DEF Stored
  <2> QED  BY <2>2, <2>3
<1>5. Stored'  BY <1>1, <1>4 DEF Stored
<1>6. Printed(ip)' = Append(Printed(ip), text)
  <2> DEFINE m == Len(indices[ip])
             new == Append(indices[ip], i)
             old == Printed(ip)
  <2>1. m \in Nat /\ DOMAIN indices[ip] = 1..m  BY <1>2
  <2>2. DOMAIN new = 1..(m + 1) /\ new[m + 1] = i /\ \A k \in 1..m : new[k] = indices[ip][k]
    BY <1>2
  <2>3. old = [k \in 1..m |-> storage[indices[ip][k]]]  BY <2>1 DEF Printed
  <2>4. Printed(ip)' = [k \in 1..(m + 1) |-> storage'[new[k]]]  BY <1>3, <2>2 DEF Printed
  <2>5. ASSUME NEW k \in 1..m PROVE storage'[new[k]] = old[k]  BY <1>2, <2>1, <2>2, <2>3
  <2>6. storage'[new[m + 1]] = text  BY <1>1, <2>2
  <2>7. old \in Seq(Texts) /\ Len(old) = m
    <3>1. ASSUME NEW k \in 1..m PROVE storage[indices[ip][k]] \in Texts
      BY <1>2, <2>1, <3>1 DEF Stored
    <3> HIDE DEF m
    <3> QED  BY <2>1, <2>3, <3>1
  <2>a. text \in Texts  OBVIOUS
  <2> HIDE DEF m, new, old
  <2>8. Append(old, text) = [k \in 1..(m + 1) |-> IF k = m + 1 THEN text ELSE old[k]]
    BY <2>7, <2>a, AppendIs
  <2>9. ASSUME NEW k \in 1..(m + 1)
        PROVE  storage'[new[k]] = IF k = m + 1 THEN text ELSE old[k]
    BY <2>1, <2>5, <2>6
  <2> QED  BY <2>4, <2>8, <2>9 DEF old
<1>7. ASSUME NEW a \in Ips, a # ip PROVE Printed(a)' = Printed(a)
  BY <1>2, <1>3, <1>7 DEF Printed
<1> QED  BY <1>5, <1>6, <1>7

\* What a client asked for, in the texts of the aggregator.
Wanted(ip) == [k \in DOMAIN asked[ip] |-> Shown[asked[ip][k]]]

LEMMA Wants ==
  ASSUME Types, NEW ip \in Ips, NEW url \in Urls, asked' = [asked EXCEPT ![ip] = Append(@, url)]
  PROVE  /\ asked' \in [Ips -> Seq(Urls)]
         /\ Wanted(ip)' = Append(Wanted(ip), Shown[url])
         /\ \A other \in Ips : other # ip => Wanted(other)' = Wanted(other)
<1> DEFINE q == asked[ip]
           m == Len(q)
           old == Wanted(ip)
<1>1. q \in Seq(Urls) /\ m \in Nat /\ DOMAIN q = 1..m /\ DOMAIN asked = Ips  BY DEF Types
<1>2. /\ asked'[ip] = Append(q, url)
      /\ \A a \in Ips : a # ip => asked'[a] = asked[a]
  BY <1>1
<1>3. asked' \in [Ips -> Seq(Urls)]  BY <1>1, <1>2 DEF Types
<1>4. old = [k \in 1..m |-> Shown[q[k]]]  BY <1>1 DEF Wanted
<1>5. \A k \in 1..m : Shown[q[k]] \in Texts  BY <1>1, AggregateAssumption
<1>6. Wanted(ip)' = [k \in 1..(m + 1) |-> Shown[Append(q, url)[k]]]  BY <1>1, <1>2 DEF Wanted
<1>7. \A k \in 1..m : Append(q, url)[k] = q[k]  BY <1>1
<1>8. Append(q, url)[m + 1] = url  BY <1>1
<1>9. \A a \in Ips : a # ip => Wanted(a)' = Wanted(a)  BY <1>2 DEF Wanted
<1> HIDE DEF q, m, old
<1>10. old \in Seq(Texts) /\ Len(old) = m  BY <1>1, <1>4, <1>5
<1>11. Shown[url] \in Texts  BY AggregateAssumption
<1>12. Append(old, Shown[url]) = [k \in 1..(m + 1) |-> IF k = m + 1 THEN Shown[url] ELSE old[k]]
  BY <1>1, <1>10, <1>11
<1>13. ASSUME NEW k \in 1..(m + 1)
       PROVE  Shown[Append(q, url)[k]] = IF k = m + 1 THEN Shown[url] ELSE old[k]
  BY <1>1, <1>4, <1>7, <1>8
<1>14. Wanted(ip)' = Append(old, Shown[url])  BY <1>6, <1>12, <1>13
<1> QED  BY <1>3, <1>9, <1>14 DEF old
-----------------------------------------------------------------------------
(* Who holds which number. *)

About(pid) == line # None /\ line.pid = pid

\* A number whose process left without a line is registered until a start line of it
\* is read; any other one that no line is about is registered for whom it serves.
HeldGone(pid) ==
  pid \in gone =>
    /\ pidip[pid] # None
    /\ client[pid] \in Ips => About(pid) /\ line.kind = "start" /\ line.from \in Ips
    /\ client[pid] = Stranger => pid \in taken

HeldQuiet(pid) == pid \notin gone /\ ~About(pid) => pidip[pid] = Under(client[pid])

\* The line that is about to be read.
HeldLine ==
  line # None =>
    /\ line.pid \notin gone =>
         /\ line.kind = "start" => pidip[line.pid] = None /\ client[line.pid] = line.from
         /\ line.kind \in {"get", "other"} => client[line.pid] = line.from
         /\ line.kind \in {"exit", "fatal"} => client[line.pid] = None
         /\ line.kind # "start" => pidip[line.pid] = Under(line.from)
    /\ line.pid \in gone => \/ line.kind = "start" /\ client[line.pid] = line.from
                            \/ line.from = Stranger /\ line.pid \in taken
                               /\ client[line.pid] \in {None, Stranger}

HeldComplaints ==
  /\ warned \subseteq {Stranger}
  /\ status = "died" => line # None /\ line.kind = "start" /\ line.pid \in gone

Held == (\A pid \in Pids : HeldGone(pid) /\ HeldQuiet(pid)) /\ HeldLine /\ HeldComplaints

Same(pid) == client'[pid] = client[pid] /\ pidip'[pid] = pidip[pid]

LEMMA NoneIs == None \notin Ips /\ None # Stranger /\ Stranger \notin Ips
  BY AggregateAssumption

\* A line is written about pid: the others are as they were.
LEMMA OthersWritten ==
  ASSUME Types, Held, line = None, NEW pid \in Pids, About(pid)', UNCHANGED <<pidip, gone>>,
         taken \subseteq taken',
         NEW other \in Pids, other # pid, client'[other] = client[other]
  PROVE  HeldGone(other)' /\ HeldQuiet(other)'
<1>1. HeldGone(other) /\ HeldQuiet(other) /\ ~About(other)  BY DEF Held, About
<1>2. ~About(other)'  BY DEF About
<1>3. HeldGone(other)'  BY <1>1, <1>2 DEF HeldGone, About
<1>4. HeldQuiet(other)'  BY <1>1, <1>2 DEF HeldQuiet, Under
<1> QED  BY <1>3, <1>4

\* A line about pid is read: the others are as they were.
LEMMA OthersRead ==
  ASSUME Types, Held, line # None, line' = None, taken' = taken, gone' \subseteq gone,
         gone \subseteq gone' \cup {line.pid},
         NEW other \in Pids, other # line.pid, client' = client, pidip'[other] = pidip[other]
  PROVE  HeldGone(other)' /\ HeldQuiet(other)'
<1>1. HeldGone(other) /\ HeldQuiet(other) /\ ~About(other)  BY DEF Held, About
<1>2. other \in gone' <=> other \in gone  OBVIOUS
<1>3. HeldGone(other)'  BY <1>1, <1>2 DEF HeldGone, About
<1>4. HeldQuiet(other)'  BY <1>1, <1>2 DEF HeldQuiet, Under, About
<1> QED  BY <1>3, <1>4

LEMMA InitHeld == Init => Held
<1> SUFFICES ASSUME Init PROVE Held  OBVIOUS
<1>1. ASSUME NEW pid \in Pids PROVE HeldGone(pid) /\ HeldQuiet(pid)
  <2>1. client[pid] \in {None, Stranger} /\ pidip[pid] = None /\ pid \notin gone  BY DEF Init
  <2> QED  BY <2>1, NoneIs DEF HeldGone, HeldQuiet, Under
<1> QED  BY <1>1 DEF Init, Held, HeldLine, HeldComplaints

-----------------------------------------------------------------------------
(* The hits. *)

\* What is wanted is printed, but for the line that is about to be read.
Told(ip) ==
  IF line # None /\ line.kind = "get" /\ line.from = ip
  THEN Wanted(ip) = Append(Printed(ip), Shown[line.url])
  ELSE Wanted(ip) = Printed(ip)

Tells == ~prefixed /\ taken = {} => \A ip \in Ips : Told(ip)

LEMMA InitTells == Init => Tells
<1> SUFFICES ASSUME Init, NEW ip \in Ips PROVE Told(ip)  BY DEF Tells
<1>1. asked[ip] = <<>> /\ indices[ip] = <<>> /\ line = None  BY DEF Init
<1> QED  BY <1>1 DEF Told, Wanted, Printed

\* A step about no hit.
LEMMA TellsStay ==
  ASSUME Tells, UNCHANGED <<prefixed, asked, storage, indices>>, taken \subseteq taken',
         line # None => line.kind # "get", line' # None => line'.kind # "get"
  PROVE  Tells'
<1> SUFFICES ASSUME ~prefixed', taken' = {}, NEW ip \in Ips PROVE Told(ip)'  BY DEF Tells
<1>1. Told(ip)  BY DEF Tells
<1> QED  BY <1>1 DEF Told, Wanted, Printed

-----------------------------------------------------------------------------
(* The steps. *)

Inv == Types /\ Stored /\ Held /\ Tells

LEMMA StoredStays == Stored /\ UNCHANGED <<storage, indices>> => Stored'
  BY DEF Stored

LEMMA StartInv ==
  ASSUME Inv, NEW pid \in Pids, NEW who \in Who, Start(pid, who)
  PROVE  Inv'
<1>0. Types /\ Stored /\ Held /\ Tells  BY DEF Inv
<1>1. /\ client[pid] = None /\ client' = [client EXCEPT ![pid] = who]
      /\ taken' = IF who = Stranger THEN taken \cup (gone \cap {pid}) ELSE taken
      /\ Logs("start", pid, who, None) /\ UNCHANGED <<asked, gone>>
  BY DEF Start
<1>2. /\ line' \in LogLine /\ line' # None
      /\ line'.kind = "start" /\ line'.pid = pid /\ line'.from = who
      /\ line = None /\ status = "reading"
      /\ UNCHANGED <<prefixed, status, pidip, storage, indices, warned>>
  BY <1>0, <1>1, LogsTypes
<1>3. /\ client' \in [Pids -> Ips \cup {None, Stranger}] /\ client'[pid] = who
      /\ \A other \in Pids : other # pid => client'[other] = client[other]
  BY <1>0, <1>1 DEF Types, Who
<1>4. Types'  BY <1>0, <1>1, <1>2, <1>3 DEF Types
<1>5. Held'
  <2>1. About(pid)' /\ taken \subseteq taken'  BY <1>1, <1>2 DEF About
  <2>2. HeldGone(pid) /\ HeldQuiet(pid) /\ ~About(pid)  BY <1>0, <1>2 DEF Held, About
  <2>3. HeldGone(pid)'
    <3> SUFFICES ASSUME pid \in gone'
                 PROVE  /\ pidip'[pid] # None
                        /\ client'[pid] \in Ips => About(pid)' /\ line'.kind = "start" /\ line'.from \in Ips
                        /\ client'[pid] = Stranger => pid \in taken'
      BY DEF HeldGone
    <3> QED  BY <1>1, <1>2, <1>3, <2>1, <2>2 DEF HeldGone
  <2>4. HeldQuiet(pid)'  BY <2>1 DEF HeldQuiet
  <2>5. \A other \in Pids : other # pid => HeldGone(other)' /\ HeldQuiet(other)'
    BY <1>0, <1>1, <1>2, <1>3, <2>1, OthersWritten
  <2>6. HeldLine'
    <3>1. pid \notin gone => pidip[pid] = None  BY <1>1, <2>2, NoneIs DEF HeldQuiet, Under
    <3>2. client'[line'.pid] = line'.from /\ line'.kind \notin {"get", "other", "exit", "fatal"}
      BY <1>2, <1>3
    <3>3. line'.pid \notin gone' => pidip'[line'.pid] = None  BY <1>1, <1>2, <3>1
    <3>4. pid \in gone' => line'.kind = "start"  BY <1>2
    <3> QED  BY <1>2, <3>2, <3>3, <3>4 DEF HeldLine, Under
  <2>7. HeldComplaints'  BY <1>0, <1>2 DEF Held, HeldComplaints
  <2> QED  BY <2>3, <2>4, <2>5, <2>6, <2>7 DEF Held
<1>6. Tells'
  <2>1. taken \subseteq taken'  BY <1>1
  <2> QED  BY <1>0, <1>1, <1>2, <2>1, TellsStay
<1> QED  BY <1>0, <1>2, <1>4, <1>5, <1>6, StoredStays DEF Inv

\* A process that is there says something.
LEMMA SaidHeld ==
  ASSUME Types, Held, NEW pid \in Pids, client[pid] # None, line = None, status = "reading",
         line' # None, line'.kind \in {"get", "other"}, line'.pid = pid, line'.from = client[pid],
         UNCHANGED <<client, gone, taken, pidip, warned, status>>
  PROVE  Held'
<1>1. About(pid)' /\ taken \subseteq taken'  BY DEF About
<1>2. HeldGone(pid) /\ HeldQuiet(pid) /\ ~About(pid)  BY DEF Held, About
<1>3. client[pid] \in Who  BY DEF Types, Who
<1>4. pid \in gone => client[pid] = Stranger /\ pid \in taken
  BY <1>2, <1>3 DEF HeldGone, Who
<1>5. HeldGone(pid)'  BY <1>2, <1>4, NoneIs DEF HeldGone
<1>6. HeldQuiet(pid)'  BY <1>1 DEF HeldQuiet
<1>7. \A other \in Pids : other # pid => HeldGone(other)' /\ HeldQuiet(other)'
  BY <1>1, OthersWritten
<1>8. HeldLine'
  <2>1. pid \notin gone => pidip[pid] = Under(client[pid])  BY <1>2 DEF HeldQuiet
  <2>2. pid \notin gone' => pidip'[pid] = Under(line'.from)  BY <2>1 DEF Under
  <2> QED  BY <1>4, <2>2 DEF HeldLine, Under
<1>9. HeldComplaints'  BY DEF Held, HeldComplaints
<1> QED  BY <1>5, <1>6, <1>7, <1>8, <1>9 DEF Held

LEMMA GetInv ==
  ASSUME Inv, NEW pid \in Pids, NEW url \in Urls, Get(pid, url)
  PROVE  Inv'
<1>0. Types /\ Stored /\ Held /\ Tells  BY DEF Inv
<1>1. /\ client[pid] # None
      /\ asked' = IF client[pid] \in Ips
                  THEN [asked EXCEPT ![client[pid]] = Append(@, url)] ELSE asked
      /\ Logs("get", pid, client[pid], url) /\ UNCHANGED <<client, gone, taken>>
  BY DEF Get
<1>2. client[pid] \in Who  BY <1>0, <1>1 DEF Types, Who
<1>3. /\ line' \in LogLine /\ line' # None
      /\ line'.kind = "get" /\ line'.pid = pid /\ line'.from = client[pid] /\ line'.url = url
      /\ line = None /\ status = "reading"
      /\ UNCHANGED <<prefixed, status, pidip, storage, indices, warned>>
  BY <1>0, <1>1, <1>2, LogsTypes
<1>4. asked' \in [Ips -> Seq(Urls)]  BY <1>0, <1>1, Wants DEF Types
<1>5. Types'  BY <1>0, <1>1, <1>3, <1>4 DEF Types
<1>6. Held'  BY <1>0, <1>1, <1>3, SaidHeld
<1>7. Tells'
  <2> SUFFICES ASSUME ~prefixed', taken' = {}, NEW ip \in Ips PROVE Told(ip)'  BY DEF Tells
  <2>1. Wanted(ip) = Printed(ip)  BY <1>0, <1>1, <1>3 DEF Tells, Told
  <2>2. Printed(ip)' = Printed(ip)  BY <1>3 DEF Printed
  <2>3. CASE client[pid] = ip
    <3>1. asked' = [asked EXCEPT ![ip] = Append(@, url)]  BY <1>1, <2>3
    <3>2. Wanted(ip)' = Append(Wanted(ip), Shown[url])  BY <1>0, <3>1, Wants
    <3> QED  BY <1>3, <2>1, <2>2, <2>3, <3>2 DEF Told
  <2>4. CASE client[pid] # ip
    <3>1. Wanted(ip)' = Wanted(ip)
      <4>1. CASE client[pid] \in Ips
        <5> DEFINE who == client[pid]
        <5>1. who \in Ips /\ asked' = [asked EXCEPT ![who] = Append(@, url)] /\ who # ip
          BY <1>1, <2>4, <4>1
        <5> HIDE DEF who
        <5> QED  BY <1>0, <5>1, Wants
      <4>2. CASE client[pid] \notin Ips  BY <1>1, <4>2 DEF Wanted
      <4> QED  BY <4>1, <4>2
    <3> QED  BY <1>3, <2>1, <2>2, <2>4, <3>1 DEF Told
  <2> QED  BY <2>3, <2>4
<1> QED  BY <1>0, <1>3, <1>5, <1>6, <1>7, StoredStays DEF Inv

LEMMA SpeakInv ==
  ASSUME Inv, NEW pid \in Pids, Speak(pid)
  PROVE  Inv'
<1>0. Types /\ Stored /\ Held /\ Tells  BY DEF Inv
<1>1. /\ client[pid] # None /\ Logs("other", pid, client[pid], None)
      /\ UNCHANGED <<client, asked, gone, taken>>
  BY DEF Speak
<1>2. client[pid] \in Who  BY <1>0, <1>1 DEF Types, Who
<1>3. /\ line' \in LogLine /\ line' # None
      /\ line'.kind = "other" /\ line'.pid = pid /\ line'.from = client[pid]
      /\ line = None /\ status = "reading"
      /\ UNCHANGED <<prefixed, status, pidip, storage, indices, warned>>
  BY <1>0, <1>1, <1>2, LogsTypes
<1>4. Types'  BY <1>0, <1>1, <1>3 DEF Types
<1>5. Held'  BY <1>0, <1>1, <1>3, SaidHeld
<1>6. Tells'  BY <1>0, <1>1, <1>3, TellsStay
<1> QED  BY <1>0, <1>3, <1>4, <1>5, <1>6, StoredStays DEF Inv

LEMMA LeaveInv ==
  ASSUME Inv, NEW pid \in Pids, NEW kind \in {"exit", "fatal"}, Leave(pid, kind)
  PROVE  Inv'
<1>0. Types /\ Stored /\ Held /\ Tells  BY DEF Inv
<1>1. /\ client[pid] # None /\ client' = [client EXCEPT ![pid] = None]
      /\ Logs(kind, pid, client[pid], None) /\ UNCHANGED <<asked, gone, taken>>
  BY DEF Leave
<1>2. client[pid] \in Who  BY <1>0, <1>1 DEF Types, Who
<1>3. /\ line' \in LogLine /\ line' # None
      /\ line'.kind = kind /\ line'.pid = pid /\ line'.from = client[pid]
      /\ line = None /\ status = "reading"
      /\ UNCHANGED <<prefixed, status, pidip, storage, indices, warned>>
  BY <1>0, <1>1, <1>2, LogsTypes
<1>4. /\ client' \in [Pids -> Ips \cup {None, Stranger}] /\ client'[pid] = None
      /\ \A other \in Pids : other # pid => client'[other] = client[other]
  BY <1>0, <1>1 DEF Types
<1>5. Types'  BY <1>0, <1>1, <1>3, <1>4 DEF Types
<1>6. Held'
  <2>1. About(pid)' /\ taken \subseteq taken'  BY <1>1, <1>3 DEF About
  <2>2. HeldGone(pid) /\ HeldQuiet(pid) /\ ~About(pid)  BY <1>0, <1>3 DEF Held, About
  <2>3. pid \in gone => client[pid] = Stranger /\ pid \in taken
    BY <1>2, <2>2 DEF HeldGone, Who
  <2>4. HeldGone(pid)'  BY <1>1, <1>3, <1>4, <2>2, NoneIs DEF HeldGone
  <2>5. HeldQuiet(pid)'  BY <2>1 DEF HeldQuiet
  <2>6. \A other \in Pids : other # pid => HeldGone(other)' /\ HeldQuiet(other)'
    BY <1>0, <1>1, <1>3, <1>4, <2>1, OthersWritten
  <2>7. HeldLine'
    <3>1. pid \notin gone => pidip[pid] = Under(client[pid])  BY <2>2 DEF HeldQuiet
    <3>2. pid \notin gone' => pidip'[pid] = Under(line'.from)  BY <1>1, <1>3, <3>1 DEF Under
    <3> QED  BY <1>1, <1>3, <1>4, <2>3, <3>2 DEF HeldLine, Under
  <2>8. HeldComplaints'  BY <1>0, <1>3 DEF Held, HeldComplaints
  <2> QED  BY <2>4, <2>5, <2>6, <2>7, <2>8 DEF Held
<1>7. Tells'  BY <1>0, <1>1, <1>3, TellsStay
<1> QED  BY <1>0, <1>3, <1>5, <1>6, <1>7, StoredStays DEF Inv

LEMMA VanishInv ==
  ASSUME Inv, NEW pid \in Pids, Vanish(pid)
  PROVE  Inv'
<1>0. Types /\ Stored /\ Held /\ Tells  BY DEF Inv
<1>1. /\ status = "reading" /\ line = None /\ client[pid] # None
      /\ client' = [client EXCEPT ![pid] = None]
      /\ gone' = IF pidip[pid] # None THEN gone \cup {pid} ELSE gone
      /\ UNCHANGED <<prefixed, asked, taken, line, status, pidip, storage, indices, warned>>
  BY DEF Vanish, tables
<1>2. /\ client' \in [Pids -> Ips \cup {None, Stranger}] /\ client'[pid] = None
      /\ \A other \in Pids : other # pid => client'[other] = client[other]
  BY <1>0, <1>1 DEF Types
<1>3. Types'  BY <1>0, <1>1, <1>2 DEF Types
<1>4. Held'
  <2>1. ASSUME NEW other \in Pids PROVE HeldGone(other)' /\ HeldQuiet(other)'
    <3>1. HeldGone(other) /\ HeldQuiet(other) /\ ~About(other) /\ ~About(other)'
      BY <1>0, <1>1 DEF Held, About
    <3>2. CASE other = pid
      <4>1. HeldGone(other)'  BY <1>1, <1>2, <3>1, <3>2, NoneIs DEF HeldGone
      <4>2. HeldQuiet(other)'  BY <1>1, <1>2, <3>1, <3>2, NoneIs DEF HeldQuiet, Under
      <4> QED  BY <4>1, <4>2
    <3>3. CASE other # pid
      <4>1. other \in gone' <=> other \in gone  BY <1>1, <3>3
      <4>2. HeldGone(other)'  BY <1>1, <1>2, <3>1, <3>3, <4>1 DEF HeldGone, About
      <4>3. HeldQuiet(other)'  BY <1>1, <1>2, <3>1, <3>3, <4>1 DEF HeldQuiet, Under
      <4> QED  BY <4>2, <4>3
    <3> QED  BY <3>2, <3>3
  <2>2. HeldLine' /\ HeldComplaints'  BY <1>0, <1>1 DEF Held, HeldLine, HeldComplaints
  <2> QED  BY <2>1, <2>2 DEF Held
<1>5. Tells'  BY <1>0, <1>1, TellsStay
<1> QED  BY <1>0, <1>1, <1>3, <1>4, <1>5, StoredStays DEF Inv

\* The line that is read, by its kind.
LEMMA LineIs ==
  ASSUME Types, Held, line # None
  PROVE  /\ line \in LogLine /\ line.pid \in Pids /\ line.from \in Who
         /\ line.kind \in {"start", "get", "other", "exit", "fatal"}
         /\ HeldGone(line.pid) /\ HeldQuiet(line.pid) /\ HeldLine
  BY LineFields DEF Types, Held

LEMMA ReadStartInv == Inv /\ ReadStart => Inv'
<1> SUFFICES ASSUME Inv, ReadStart PROVE Inv'  OBVIOUS
<1>0. Types /\ Stored /\ Held /\ Tells  BY DEF Inv
<1>1. /\ status = "reading" /\ line # None /\ line.kind = "start"
      /\ UNCHANGED <<prefixed, client, asked, gone, taken>>
  BY DEF ReadStart, Reads, processes
<1> PICK pid \in Pids : pid = line.pid  BY <1>0, <1>1, LineIs
<1>2. /\ line \in LogLine /\ pid \in Pids /\ line.from \in Who
      /\ HeldGone(pid) /\ HeldLine
  BY <1>0, <1>1, LineIs
<1>3. CASE /\ line.from \notin Ips /\ Complain /\ Done /\ UNCHANGED tables
  <2>1. /\ line' = None /\ UNCHANGED <<status, pidip, storage, indices>>
        /\ warned' = warned \cup {Stranger} /\ line.from = Stranger
    BY <1>2, <1>3 DEF Done, tables, Complain, Who
  <2>2. Types'  BY <1>0, <1>1, <2>1 DEF Types, Who
  <2>3. Held'
    <3>1. HeldGone(pid)'
      <4>1. pid \in gone => client[pid] = Stranger \/ client[pid] = None
        BY <1>1, <1>2, <2>1 DEF HeldLine
      <4> QED  BY <1>1, <1>2, <2>1, <4>1, NoneIs DEF HeldGone, About
    <3>2. HeldQuiet(pid)'
      <4>1. pid \notin gone => pidip[pid] = None /\ client[pid] = Stranger
        BY <1>1, <1>2, <2>1 DEF HeldLine
      <4> QED  BY <1>1, <2>1, <4>1, NoneIs DEF HeldQuiet, Under
    <3>3. \A other \in Pids : other # pid => HeldGone(other)' /\ HeldQuiet(other)'
      BY <1>0, <1>1, <2>1, OthersRead
    <3>4. HeldLine' /\ HeldComplaints'
      BY <1>0, <1>1, <2>1 DEF Held, HeldLine, HeldComplaints
    <3> QED  BY <3>1, <3>2, <3>3, <3>4 DEF Held
  <2>4. Tells'  BY <1>0, <1>1, <2>1, TellsStay
  <2> QED  BY <1>0, <2>1, <2>2, <2>3, <2>4, StoredStays DEF Inv
<1>4. CASE /\ line.from \in Ips /\ Registered /\ status' = "died"
           /\ UNCHANGED <<line, tables, warned>>
  <2>1. /\ status' = "died" /\ UNCHANGED <<line, pidip, storage, indices, warned>>
        /\ pidip[pid] # None
    BY <1>4 DEF tables, Registered
  <2>2. Types'  BY <1>0, <1>1, <2>1 DEF Types
  <2>3. pid \in gone  BY <1>1, <1>2, <2>1 DEF HeldLine
  <2>4. HeldComplaints'  BY <1>0, <1>1, <2>1, <2>3 DEF Held, HeldComplaints
  <2>5. \A other \in Pids : HeldGone(other)' /\ HeldQuiet(other)'
    BY <1>0, <1>1, <2>1 DEF Held, HeldGone, HeldQuiet, About, Under
  <2>6. HeldLine'  BY <1>0, <1>1, <2>1 DEF Held, HeldLine, Under
  <2>7. Held'  BY <2>4, <2>5, <2>6 DEF Held
  <2>8. Tells'  BY <1>0, <1>1, <2>1, TellsStay
  <2> QED  BY <1>0, <2>1, <2>2, <2>7, <2>8, StoredStays DEF Inv
<1>5. CASE /\ line.from \in Ips /\ ~Registered
           /\ pidip' = [pidip EXCEPT ![line.pid] = line.from]
           /\ Done /\ UNCHANGED <<storage, indices, warned>>
  <2>1. /\ line' = None /\ UNCHANGED <<status, storage, indices, warned>>
        /\ pidip[pid] = None /\ line.from \in Ips
    BY <1>5 DEF Done, Registered
  <2>2. /\ pidip' \in [Pids -> Ips \cup {None}] /\ pidip'[pid] = line.from
        /\ \A other \in Pids : other # pid => pidip'[other] = pidip[other]
    BY <1>0, <1>2, <1>5 DEF Types
  <2>3. Types'  BY <1>0, <1>1, <2>1, <2>2 DEF Types
  <2>4. pid \notin gone  BY <1>2, <2>1 DEF HeldGone
  <2>5. Held'
    <3>1. HeldGone(pid)'  BY <1>1, <2>4 DEF HeldGone
    <3>2. HeldQuiet(pid)'
      <4>1. client[pid] = line.from  BY <1>1, <1>2, <2>4 DEF HeldLine
      <4> QED  BY <1>1, <2>1, <2>2, <4>1 DEF HeldQuiet, Under
    <3>3. \A other \in Pids : other # pid => HeldGone(other)' /\ HeldQuiet(other)'
      BY <1>0, <1>1, <2>1, <2>2, OthersRead
    <3>4. HeldLine' /\ HeldComplaints'
      BY <1>0, <1>1, <2>1 DEF Held, HeldLine, HeldComplaints
    <3> QED  BY <3>1, <3>2, <3>3, <3>4 DEF Held
  <2>6. Tells'  BY <1>0, <1>1, <2>1, TellsStay
  <2> QED  BY <1>0, <2>1, <2>3, <2>5, <2>6, StoredStays DEF Inv
<1> QED  BY <1>3, <1>4, <1>5 DEF ReadStart

\* A line that changes no registration is read.
LEMMA ReadHeld ==
  ASSUME Types, Held, status = "reading", line # None, line.kind \in {"get", "other"},
         line' = None, UNCHANGED <<client, gone, taken, pidip, status>>,
         warned' \subseteq {Stranger}
  PROVE  Held'
<1> PICK pid \in Pids : pid = line.pid  BY LineIs
<1>1. /\ line \in LogLine /\ pid \in Pids /\ line.from \in Who
      /\ HeldGone(pid) /\ HeldLine
  BY LineIs
<1>2. HeldGone(pid)'
  <2>1. pid \in gone => client[pid] \notin Ips  BY <1>1, NoneIs DEF HeldLine
  <2> QED  BY <1>1, <2>1 DEF HeldGone
<1>3. HeldQuiet(pid)'
  <2>1. pid \notin gone => pidip[pid] = Under(line.from) /\ client[pid] = line.from
    BY <1>1 DEF HeldLine
  <2> QED  BY <2>1 DEF HeldQuiet, Under
<1>4. \A other \in Pids : other # pid => HeldGone(other)' /\ HeldQuiet(other)'
  BY OthersRead
<1>5. HeldLine' /\ HeldComplaints'  BY DEF HeldLine, HeldComplaints
<1> QED  BY <1>2, <1>3, <1>4, <1>5 DEF Held

LEMMA ReadGetInv == Inv /\ ReadGet => Inv'
<1> SUFFICES ASSUME Inv, ReadGet PROVE Inv'  OBVIOUS
<1>0. Types /\ Stored /\ Held /\ Tells  BY DEF Inv
<1>1. /\ status = "reading" /\ line # None /\ line.kind = "get" /\ line' = None
      /\ UNCHANGED <<prefixed, client, asked, gone, taken, pidip, status>>
  BY DEF ReadGet, Reads, processes, Done
<1> PICK pid \in Pids : pid = line.pid  BY <1>0, <1>1, LineIs
<1>2. /\ line \in LogLine /\ pid \in Pids /\ line.from \in Who /\ line.url \in Urls
      /\ HeldGone(pid) /\ HeldLine
  BY <1>0, <1>1, LineIs DEF Types
<1>3. \/ line.from = Stranger /\ (taken = {} => pidip[pid] = None)
      \/ line.from \in Ips /\ pidip[pid] = line.from
  BY <1>1, <1>2, NoneIs DEF HeldLine, Who, Under
<1>4. CASE prefixed /\ UNCHANGED <<storage, indices, warned>>
  <2>1. Types'  BY <1>0, <1>1, <1>4 DEF Types
  <2>2. Held'  BY <1>0, <1>1, <1>4, ReadHeld DEF Held, HeldComplaints
  <2>3. Tells'  BY <1>1, <1>4 DEF Tells
  <2> QED  BY <1>0, <1>4, <2>1, <2>2, <2>3, StoredStays DEF Inv
<1>5. CASE ~prefixed /\ ~Registered /\ Complain /\ UNCHANGED <<storage, indices>>
  <2>1. line.from = Stranger  BY <1>3, <1>5, NoneIs DEF Registered
  <2>2. warned' = warned \cup {Stranger}  BY <1>5, <2>1 DEF Complain
  <2>3. Types'  BY <1>0, <1>1, <1>5, <2>2 DEF Types, Who
  <2>4. Held'
    <3>1. warned' \subseteq {Stranger}  BY <1>0, <2>2 DEF Held, HeldComplaints
    <3> QED  BY <1>0, <1>1, <3>1, ReadHeld
  <2>5. Tells'
    <3> SUFFICES ASSUME ~prefixed', taken' = {}, NEW ip \in Ips PROVE Told(ip)'  BY DEF Tells
    <3>1. Wanted(ip) = Printed(ip)  BY <1>0, <1>1, <2>1, NoneIs DEF Tells, Told
    <3> QED  BY <1>1, <1>5, <3>1 DEF Told, Wanted, Printed
  <2> QED  BY <1>0, <1>5, <2>3, <2>4, <2>5, StoredStays DEF Inv
<1>6. CASE /\ ~prefixed /\ Registered
           /\ AddRequest(pidip[line.pid], Shown[line.url]) /\ UNCHANGED warned
  <2>0. pidip[line.pid] \in Ips /\ Shown[line.url] \in Texts
    BY <1>0, <1>2, <1>6, AggregateAssumption DEF Types, Registered
  <2> PICK who \in Ips : who = pidip[line.pid]  BY <2>0
  <2> PICK t \in Texts : t = Shown[line.url]  BY <2>0
  <2>1. who \in Ips /\ t \in Texts /\ AddRequest(who, t)  BY <1>6
  <2>2. /\ Stored' /\ Printed(who)' = Append(Printed(who), t)
        /\ \A other \in Ips : other # who => Printed(other)' = Printed(other)
    BY <1>0, <2>1, Added
  <2>3. Types'  BY <1>0, <1>1, <1>6 DEF Types
  <2>4. Held'  BY <1>0, <1>1, <1>6, ReadHeld DEF Held, HeldComplaints
  <2>5. Tells'
    <3> SUFFICES ASSUME ~prefixed', taken' = {}, NEW ip \in Ips PROVE Told(ip)'  BY DEF Tells
    <3>1. who = line.from  BY <1>1, <1>3, <2>1, NoneIs
    <3>2. Told(ip)  BY <1>0, <1>1 DEF Tells
    <3>3. Wanted(ip)' = Wanted(ip)  BY <1>1 DEF Wanted
    <3>4. CASE ip = who
      <4>1. Wanted(ip) = Append(Printed(ip), t)  BY <1>1, <3>1, <3>2, <3>4 DEF Told
      <4>2. Printed(ip)' = Append(Printed(ip), t)  BY <2>2, <3>4
      <4> QED  BY <1>1, <3>3, <4>1, <4>2 DEF Told
    <3>5. CASE ip # who
      <4>1. Wanted(ip) = Printed(ip)  BY <3>1, <3>2, <3>5 DEF Told
      <4>2. Printed(ip)' = Printed(ip)  BY <2>2, <3>5
      <4> QED  BY <1>1, <3>3, <4>1, <4>2 DEF Told
    <3> QED  BY <3>4, <3>5
  <2> QED  BY <2>2, <2>3, <2>4, <2>5 DEF Inv
<1> QED  BY <1>4, <1>5, <1>6 DEF ReadGet

LEMMA ReadOtherInv == Inv /\ ReadOther => Inv'
<1> SUFFICES ASSUME Inv, ReadOther PROVE Inv'  OBVIOUS
<1>0. Types /\ Stored /\ Held /\ Tells  BY DEF Inv
<1>1. /\ status = "reading" /\ line # None /\ line.kind = "other" /\ line' = None
      /\ UNCHANGED <<prefixed, client, asked, gone, taken, pidip, storage, indices, warned, status>>
  BY DEF ReadOther, Reads, processes, tables, Done
<1>2. Types'  BY <1>0, <1>1 DEF Types
<1>3. Held'  BY <1>0, <1>1, ReadHeld DEF Held, HeldComplaints
<1>4. Tells'  BY <1>0, <1>1, TellsStay
<1> QED  BY <1>0, <1>1, <1>2, <1>3, <1>4, StoredStays DEF Inv

LEMMA ReadEndInv == Inv /\ ReadEnd => Inv'
<1> SUFFICES ASSUME Inv, ReadEnd PROVE Inv'  OBVIOUS
<1>0. Types /\ Stored /\ Held /\ Tells  BY DEF Inv
<1>1. /\ status = "reading" /\ line # None /\ line.kind \in {"exit", "fatal"} /\ line' = None
      /\ UNCHANGED <<prefixed, client, asked, taken, storage, indices, status>>
  BY DEF ReadEnd, Reads, Done
<1> PICK pid \in Pids : pid = line.pid  BY <1>0, <1>1, LineIs
<1>2. /\ line \in LogLine /\ pid \in Pids /\ line.from \in Who
      /\ HeldGone(pid) /\ HeldLine
  BY <1>0, <1>1, LineIs
<1>3. Tells'  BY <1>0, <1>1, TellsStay
<1>4. CASE ~Registered /\ Complain /\ UNCHANGED <<pidip, gone>>
  <2>1. pidip[pid] = None  BY <1>4 DEF Registered
  <2>2. pid \notin gone  BY <1>2, <2>1 DEF HeldGone
  <2>3. line.from = Stranger /\ client[pid] = None
    BY <1>1, <1>2, <2>1, <2>2, NoneIs DEF HeldLine, Under, Who
  <2>4. warned' = warned \cup {Stranger}  BY <1>4, <2>3 DEF Complain
  <2>5. Types'  BY <1>0, <1>1, <1>4, <2>4 DEF Types, Who
  <2>6. Held'
    <3>1. HeldGone(pid)'  BY <1>4, <2>2 DEF HeldGone
    <3>2. HeldQuiet(pid)'  BY <1>1, <1>4, <2>1, <2>3, NoneIs DEF HeldQuiet, Under
    <3>3. \A other \in Pids : other # pid => HeldGone(other)' /\ HeldQuiet(other)'
      BY <1>0, <1>1, <1>4, OthersRead
    <3>4. HeldLine' /\ HeldComplaints'
      BY <1>0, <1>1, <2>4 DEF Held, HeldLine, HeldComplaints
    <3> QED  BY <3>1, <3>2, <3>3, <3>4 DEF Held
  <2> QED  BY <1>0, <1>1, <1>3, <2>5, <2>6, StoredStays DEF Inv
<1>5. CASE /\ Registered /\ pidip' = [pidip EXCEPT ![line.pid] = None]
           /\ gone' = gone \ {line.pid} /\ UNCHANGED warned
  <2>1. /\ pidip' \in [Pids -> Ips \cup {None}] /\ pidip'[pid] = None
        /\ \A other \in Pids : other # pid => pidip'[other] = pidip[other]
    BY <1>0, <1>2, <1>5 DEF Types
  <2>2. Types'  BY <1>0, <1>1, <1>5, <2>1 DEF Types
  <2>3. client[pid] \in {None, Stranger}  BY <1>1, <1>2 DEF HeldLine
  <2>4. Held'
    <3>1. HeldGone(pid)'  BY <1>5 DEF HeldGone
    <3>2. HeldQuiet(pid)'  BY <1>1, <2>1, <2>3, NoneIs DEF HeldQuiet, Under
    <3>3. \A other \in Pids : other # pid => HeldGone(other)' /\ HeldQuiet(other)'
      BY <1>0, <1>1, <1>5, <2>1, OthersRead
    <3>4. HeldLine' /\ HeldComplaints'
      BY <1>0, <1>1, <1>5 DEF Held, HeldLine, HeldComplaints
    <3> QED  BY <3>1, <3>2, <3>3, <3>4 DEF Held
  <2> QED  BY <1>0, <1>1, <1>3, <2>2, <2>4, StoredStays DEF Inv
<1> QED  BY <1>4, <1>5 DEF ReadEnd

LEMMA StillInv ==
  ASSUME Inv, UNCHANGED <<prefixed, client, asked, gone, taken, line, pidip, storage, indices, warned>>,
         status' = status \/ status' = "done"
  PROVE  Inv'
<1>0. Types /\ Stored /\ Held /\ Tells  BY DEF Inv
<1>1. Types'  BY <1>0 DEF Types
<1>2. Held'
  BY <1>0 DEF Held, HeldGone, HeldQuiet, HeldLine, HeldComplaints, About, Under
<1>3. Tells'  BY <1>0 DEF Tells, Told, Wanted, Printed
<1> QED  BY <1>0, <1>1, <1>2, <1>3, StoredStays DEF Inv

LEMMA NextInv == Inv /\ [Next]_vars => Inv'
<1> SUFFICES ASSUME Inv, [Next]_vars PROVE Inv'  OBVIOUS
<1>1. ASSUME NEW pid \in Pids, NEW who \in Ips \cup {Stranger}, Start(pid, who) PROVE Inv'
  BY <1>1, StartInv DEF Who
<1>2. ASSUME NEW pid \in Pids, NEW url \in Urls, Get(pid, url) PROVE Inv'  BY <1>2, GetInv
<1>3. ASSUME NEW pid \in Pids, Speak(pid) PROVE Inv'  BY <1>3, SpeakInv
<1>4. ASSUME NEW pid \in Pids, NEW kind \in {"exit", "fatal"}, Leave(pid, kind) PROVE Inv'
  BY <1>4, LeaveInv
<1>5. ASSUME NEW pid \in Pids, Vanish(pid) PROVE Inv'  BY <1>5, VanishInv
<1>6. CASE ReadStart  BY <1>6, ReadStartInv
<1>7. CASE ReadGet  BY <1>7, ReadGetInv
<1>8. CASE ReadOther  BY <1>8, ReadOtherInv
<1>9. CASE ReadEnd  BY <1>9, ReadEndInv
<1>10. CASE EndOfInput  BY <1>10, StillInv DEF EndOfInput, processes, tables
<1>11. CASE UNCHANGED vars  BY <1>11, StillInv DEF vars
<1> QED  BY <1>1, <1>2, <1>3, <1>4, <1>5, <1>6, <1>7, <1>8, <1>9, <1>10, <1>11 DEF Next

LEMMA SpecInv == Spec => []Inv
<1>1. Init => Inv  BY InitTypes, InitHeld, InitTells DEF Inv
<1> QED  BY <1>1, NextInv, PTL DEF Spec

-----------------------------------------------------------------------------
\* The tables of the aggregator keep their types, whatever is in the log: no text is
\* stored twice, and no hit is of a text that is not there.
THEOREM TypeCorrect == Spec => []TypeOK
<1>1. Inv => TypeOK  BY DEF Inv, Types, Stored, TypeOK, Who
<1> QED  BY <1>1, SpecInv, PTL

\* For any processes, clients and logs, each client is printed with what it was asked
\* for, in order, unless a stranger has a registered number.
THEOREM TrueHits == Spec => []HitsAreTrue
<1>1. Inv => HitsAreTrue
  <2> SUFFICES ASSUME Inv, line = None, ~prefixed, taken = {}, NEW ip \in Ips
               PROVE  Printed(ip) = [k \in DOMAIN asked[ip] |-> Shown[asked[ip][k]]]
    BY DEF HitsAreTrue
  <2>1. Told(ip)  BY DEF Inv, Tells
  <2> QED  BY <2>1 DEF Told, Wanted
<1> QED  BY <1>1, SpecInv, PTL

\* A warning is about a stranger, and the aggregator dies of a number that is used again.
THEOREM CauseOfComplaints == Spec => []ComplainsForCause
<1>1. Inv => ComplainsForCause  BY DEF Inv, Held, HeldComplaints, ComplainsForCause
<1> QED  BY <1>1, SpecInv, PTL

===============================================================================
