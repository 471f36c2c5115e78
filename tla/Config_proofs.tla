----------------------------- MODULE Config_proofs -----------------------------
(***************************************************************************)
(* What every configuration, of any lines and any length, is made into,    *)
(* and which redirection, which attributes and which type a request finds  *)
(* in it: the theorems about Config.                                       *)
(***************************************************************************)
EXTENDS Config, SequenceTheorems, WellFoundedInduction, TLAPS

Parsed == {"defaults", "create", "write", "rename", "renamed", "done"}
Completing == {"create", "write", "rename", "renamed", "done"}
Ended == {"renamed", "done", "died", "killed"}

\* Everything that the tree holds but the headers has a key that is not theirs.
TreeInv ==
  /\ \A key \in DOMAIN tree :
       key.of = "attribute" => tree[key] \in Node /\ tree[key].flags \subseteq tree[key].mask
  /\ \A s \in said : s.line \in Lines
  /\ pc = "parse" => HeadersKey \notin DOMAIN tree

\* How far the tree is from what is written.
OutputInv ==
  /\ pc \in Parsed =>
       /\ HeadersKey \in DOMAIN tree /\ tree[HeadersKey] = headers
       /\ DOMAIN Builtin \subseteq DOMAIN headers
  /\ pc \in Completing => DOMAIN Defaults \subseteq DOMAIN tree
  /\ pc = "rename" => temporary = "whole"
  /\ pc \notin Ended => installed = Old
  /\ installed # Old =>
       /\ installed = [whole |-> TRUE, db |-> tree]
       /\ HeadersKey \in DOMAIN tree /\ tree[HeadersKey] = headers
       /\ DOMAIN Builtin \subseteq DOMAIN headers
       /\ DOMAIN Defaults \subseteq DOMAIN tree

\* How the process ends.
EndInv ==
  /\ code # 0 => pc = "died"
  /\ code # 0 /\ preprocessor # "failed" => installed = Old
  /\ reaped => preprocessor # "running"
  /\ reaped /\ preprocessor = "failed" => pc = "died"

IInv == TypeOK /\ TreeInv /\ SaidHolds /\ OutputInv /\ EndInv

-----------------------------------------------------------------------------
(* What is added to a database leaves what it has. *)

\* With() adds one key, and changes no other (conftree_add, conftree_update).
LEMMA WithKeeps ==
  ASSUME NEW db, NEW key, NEW node
  PROVE  /\ DOMAIN With(db, key, node) = DOMAIN db \cup {key}
         /\ With(db, key, node)[key] = node
         /\ \A k \in DOMAIN db : k # key => With(db, key, node)[k] = db[k]
  BY DEF With

\* Completed() leaves what is there (conf_defaults, headers_defaults).
LEMMA CompletedKeeps ==
  ASSUME NEW db, NEW more
  PROVE  /\ DOMAIN Completed(db, more) = DOMAIN db \cup DOMAIN more
         /\ \A k \in DOMAIN db : Completed(db, more)[k] = db[k]
         /\ \A k \in DOMAIN more \ DOMAIN db : Completed(db, more)[k] = more[k]
  BY DEF Completed

\* The keys of the directives are apart from each other: what may be there once is
\* never an attribute, nor the headers (the first letter of a key, lexparse.c).
LEMMA KeysApart ==
  ASSUME NEW d, NEW e, NEW line, NEW other, line.kind \in Valued \cup {"redirect"}
  PROVE  /\ UniqueKey(d, line) # AttributeKey(e, other)
         /\ UniqueKey(d, line).of # "attribute"
         /\ UniqueKey(d, line) # HeadersKey
         /\ AttributeKey(e, other) # HeadersKey
         /\ AttributeKey(e, other).of = "attribute"
         /\ HeadersKey.of # "attribute"
  BY DEF UniqueKey, AttributeKey, HeadersKey, Key, Valued

\* What holds of a line holds of a database and of headers that agree with the first
\* where they are defined (Has).
LEMMA HasKept ==
  ASSUME NEW db, NEW hs, NEW db2, NEW hs2, NEW s, Has(db, hs, s),
         DOMAIN db \subseteq DOMAIN db2, \A k \in DOMAIN db : db2[k] = db[k],
         DOMAIN hs \subseteq DOMAIN hs2, \A k \in DOMAIN hs : hs2[k] = hs[k]
  PROVE  Has(db2, hs2, s)
<1> DEFINE u == UniqueKey(s.dom, s.line)
           a == AttributeKey(s.dom, s.line)
           n == Canonical[s.line.name]
           v == Value(s.line)
<1> HIDE DEF u, a, n, v
<1>1. ASSUME s.line.kind \in Valued \cup {"redirect"} PROVE u \in DOMAIN db2 /\ db2[u] = v
  BY <1>1 DEF Has, u, v
<1>2. ASSUME s.line.kind = "attribute"
      PROVE /\ a \in DOMAIN db2
            /\ s.line.flag \in db2[a].mask
            /\ s.line.flag \in db2[a].flags <=> s.line.on
  <2>1. a \in DOMAIN db /\ s.line.flag \in db[a].mask /\ (s.line.flag \in db[a].flags <=> s.line.on)
    BY <1>2 DEF Has, a
  <2> QED BY <2>1
<1>3. ASSUME s.line.kind = "file-type" PROVE a \in DOMAIN db2 /\ db2[a].ctype = s.line.ctype
  BY <1>3 DEF Has, a
<1>4. ASSUME s.line.kind = "custom-header" PROVE n \in DOMAIN hs2 /\ hs2[n] = s.line.value
  BY <1>4 DEF Has, n
<1> QED BY <1>1, <1>2, <1>3, <1>4 DEF Has, u, a, n, v

-----------------------------------------------------------------------------
(* The initial states, and one line. *)

\* The empty tree has no key.
LEMMA NoKeys == DOMAIN <<>> = {}
  BY SMT

\* The tree is empty when tipidee-config starts, and nothing is said.
LEMMA Initially == Init => IInv
<1> SUFFICES ASSUME Init PROVE IInv
  OBVIOUS
<1>0. \A k : k \notin DOMAIN tree
  BY NoKeys DEF Init
<1>1. TypeOK
  <2>0. MaxLines \in Nat
    BY ConfigAssumption
  <2>1. 0 \in 0..MaxLines
    BY <2>0
  <2> QED BY <1>0, <2>1 DEF TypeOK, Init
<1>2. TreeInv /\ SaidHolds
  BY <1>0 DEF TreeInv, SaidHolds, Init
<1>3. OutputInv /\ EndInv
  BY DEF OutputInv, EndInv, Parsed, Completing, Ended, Init
<1> QED BY <1>1, <1>2, <1>3 DEF IInv

\* A directive that may be there once adds a node for a key that has none, and takes
\* nothing from what was said (add_unique).
LEMMA UniqueKeeps ==
  ASSUME IInv, NEW line \in Lines, pc = "parse", Unique(line)
  PROVE  TreeInv' /\ SaidHolds'
<1> DEFINE u == UniqueKey(domain, line)
<1>1. /\ u \notin DOMAIN tree /\ tree' = With(tree, u, Value(line))
      /\ said' = said \cup {[dom |-> domain, line |-> line]}
      /\ pc' = pc /\ headers' = headers
      /\ line.kind \in Valued \cup {"redirect"}
  BY DEF Unique, Accept, GoOn, progress
<1>2. u.of # "attribute" /\ u # HeadersKey
  BY <1>1, KeysApart
<1> DEFINE v == Value(line)
           new == With(tree, u, v)
<1> HIDE DEF u, v
<1>a. /\ DOMAIN new = DOMAIN tree \cup {u} /\ new[u] = v
      /\ \A k \in DOMAIN tree : k # u => new[k] = tree[k]
  BY DEF With
<1>b. tree' = new
  BY <1>1 DEF v
<1> HIDE DEF new
<1>3. /\ DOMAIN tree' = DOMAIN tree \cup {u} /\ tree'[u] = Value(line)
      /\ \A k \in DOMAIN tree : tree'[k] = tree[k]
  BY <1>a, <1>b, <1>1 DEF v
<1>4. TreeInv'
  BY <1>1, <1>2, <1>3 DEF IInv, TreeInv, Node
<1>5. \A s \in said : Has(tree', headers', s)
  BY <1>1, <1>3, HasKept DEF IInv, SaidHolds
<1>6. Has(tree', headers', [dom |-> domain, line |-> line])
  BY <1>1, <1>3 DEF Has, u, Valued
<1> QED BY <1>1, <1>4, <1>5, <1>6 DEF SaidHolds

\* The node that a line for attributes or types finds.
LEMMA OldNodeIsNode ==
  ASSUME IInv, NEW line
  PROVE  OldNode(line) \in Node /\ OldNode(line).flags \subseteq OldNode(line).mask
<1>1. AttributeKey(domain, line).of = "attribute"
  BY DEF AttributeKey, Key
<1>2. NewNode \in Node /\ NewNode.flags \subseteq NewNode.mask
  <2>1. {} \in SUBSET Flags /\ "" \in Types
    BY DEF Types
  <2>2. NewNode \in Node
    BY <2>1 DEF NewNode, Node
  <2>3. NewNode.flags = {}
    BY DEF NewNode
  <2> QED BY <2>2, <2>3
<1> QED BY <1>1, <1>2 DEF OldNode, IInv, TreeInv

\* A line for attributes or types changes one node: if the new one has what the old
\* one said, what the others said still holds (parse_bitattr, parse_filetype).
LEMMA UpdateKeeps ==
  ASSUME IInv, NEW line \in Lines, pc = "parse", NEW node, Update(line, node),
         node \in Node, node.flags \subseteq node.mask,
         pc' = pc, headers' = headers,
         said' = said \cup {[dom |-> domain, line |-> line]},
         line.kind \in {"attribute", "file-type"},
         OldNode(line).mask \subseteq node.mask,
         \A f \in OldNode(line).mask : f \in node.flags <=> f \in OldNode(line).flags,
         OldNode(line).ctype \in {"", node.ctype},
         Has(tree', headers', [dom |-> domain, line |-> line])
  PROVE  TreeInv' /\ SaidHolds'
<1> DEFINE a == AttributeKey(domain, line)
<1>1. a.of = "attribute" /\ a # HeadersKey
  BY DEF AttributeKey, HeadersKey, Key
<1>2. tree' = With(tree, a, node)
  BY DEF Update
<1>3. a \in DOMAIN tree => OldNode(line) = tree[a]
  BY DEF OldNode
<1> HIDE DEF a
<1> DEFINE new == With(tree, a, node)
<1>c. /\ DOMAIN new = DOMAIN tree \cup {a} /\ new[a] = node
      /\ \A k \in DOMAIN tree : k # a => new[k] = tree[k]
  BY DEF With
<1> HIDE DEF new
<1>4. /\ DOMAIN tree' = DOMAIN tree \cup {a} /\ tree'[a] = node
      /\ \A k \in DOMAIN tree : k # a => tree'[k] = tree[k]
  BY <1>2, <1>c DEF new
<1>5. TreeInv'
  <2>1. \A key \in DOMAIN tree' :
          key.of = "attribute" => tree'[key] \in Node /\ tree'[key].flags \subseteq tree'[key].mask
    BY <1>1, <1>4 DEF IInv, TreeInv
  <2>a. ASSUME NEW s \in said' PROVE s \in said \/ s = [dom |-> domain, line |-> line]
    OBVIOUS
  <2>b. \A s \in said : s.line \in Lines
    BY DEF IInv, TreeInv
  <2>c. [dom |-> domain, line |-> line].line = line
    OBVIOUS
  <2>2. \A s \in said' : s.line \in Lines
    <3>1. ASSUME NEW s \in said' PROVE s.line \in Lines
      <4>1. CASE s \in said
        BY <4>1, <2>b
      <4>2. CASE s = [dom |-> domain, line |-> line]
        BY <4>2, <2>c
      <4> QED BY <4>1, <4>2, <2>a
    <3> QED BY <3>1
  <2>3. HeadersKey \notin DOMAIN tree'
    BY <1>1, <1>4 DEF IInv, TreeInv
  <2> QED BY <2>1, <2>2, <2>3 DEF TreeInv
<1>6. ASSUME NEW s \in said PROVE Has(tree', headers', s)
  <2> DEFINE u == UniqueKey(s.dom, s.line)
             b == AttributeKey(s.dom, s.line)
  <2>1. Has(tree, headers, s) /\ s.line \in Lines
    BY DEF IInv, SaidHolds, TreeInv
  <2>2. ASSUME s.line.kind \in Valued \cup {"redirect"}
        PROVE  u \in DOMAIN tree' /\ tree'[u] = Value(s.line)
    <3> DEFINE l == s.line
               d == s.dom
    <3>3. l.kind \in Valued \cup {"redirect"}
      BY <2>2
    <3> HIDE DEF l
    <3>4. UniqueKey(d, l) # AttributeKey(domain, line)
      BY <3>3, KeysApart
    <3>1. u # a
      BY <3>4 DEF a, l
    <3>2. u \in DOMAIN tree /\ tree[u] = Value(s.line)
      BY <2>1, <2>2 DEF Has
    <3> HIDE DEF u
    <3> QED BY <3>1, <3>2, <1>4
  <2>3. ASSUME s.line.kind = "attribute"
        PROVE  /\ b \in DOMAIN tree'
               /\ s.line.flag \in tree'[b].mask
               /\ s.line.flag \in tree'[b].flags <=> s.line.on
    <3>1. /\ b \in DOMAIN tree /\ s.line.flag \in tree[b].mask
          /\ s.line.flag \in tree[b].flags <=> s.line.on
      BY <2>1, <2>3 DEF Has
    <3> HIDE DEF b
    <3>2. CASE b = a
      BY <3>1, <3>2, <1>3, <1>4
    <3>3. CASE b # a
      BY <3>1, <3>3, <1>4
    <3> QED BY <3>2, <3>3
  <2>4. ASSUME s.line.kind = "file-type"
        PROVE  b \in DOMAIN tree' /\ tree'[b].ctype = s.line.ctype
    <3>1. b \in DOMAIN tree /\ tree[b].ctype = s.line.ctype
      BY <2>1, <2>4 DEF Has
    <3>2. s.line.ctype # ""
      BY <2>1, <2>4, ConfigAssumption
    <3> HIDE DEF b
    <3> QED BY <3>1, <3>2, <1>3, <1>4
  <2>5. s.line.kind = "custom-header" =>
          /\ Canonical[s.line.name] \in DOMAIN headers'
          /\ headers'[Canonical[s.line.name]] = s.line.value
    BY <2>1 DEF Has
  <2> QED BY <2>2, <2>3, <2>4, <2>5 DEF Has
<1> QED BY <1>5, <1>6 DEF SaidHolds

\* A line for an attribute leaves what is known of the others (parse_bitattr).
LEMMA AttributeKeeps ==
  ASSUME IInv, NEW line \in Lines, pc = "parse", Attribute(line), line.flag \notin OldNode(line).mask
  PROVE  TreeInv' /\ SaidHolds'
<1> DEFINE old == OldNode(line)
           flags == IF line.on THEN old.flags \cup {line.flag} ELSE old.flags \ {line.flag}
           node == [flags |-> flags, mask |-> old.mask \cup {line.flag}, ctype |-> old.ctype]
<1>1. old \in Node /\ old.flags \subseteq old.mask
  BY OldNodeIsNode
<1>2. line.kind = "attribute" /\ line.flag \in Flags /\ line.on \in BOOLEAN
  BY ConfigAssumption DEF Attribute
<1>3. /\ Update(line, node) /\ pc' = pc /\ headers' = headers
      /\ said' = said \cup {[dom |-> domain, line |-> line]}
  BY DEF Attribute, Accept, GoOn, progress
<1>4. line.flag \notin old.mask
  OBVIOUS
<1> HIDE DEF old
<1>5. /\ node.flags = flags /\ node.mask = old.mask \cup {line.flag} /\ node.ctype = old.ctype
  OBVIOUS
<1>6. flags \in SUBSET Flags /\ flags \subseteq old.mask \cup {line.flag}
  BY <1>1, <1>2 DEF Node
<1>7. node \in Node
  <2>1. old.mask \cup {line.flag} \in SUBSET Flags /\ old.ctype \in Types
    BY <1>1, <1>2 DEF Node
  <2> HIDE DEF flags
  <2> QED BY <1>5, <1>6, <2>1 DEF Node
<1>8. \A f \in old.mask : f \in flags <=> f \in old.flags
  BY <1>4
<1>9. line.flag \in flags <=> line.on
  BY <1>2
<1> HIDE DEF flags, node
<1>10. Has(tree', headers', [dom |-> domain, line |-> line])
  <2> DEFINE a == AttributeKey(domain, line)
             new == With(tree, a, node)
  <2>1. a \in DOMAIN new /\ new[a] = node
    BY DEF With
  <2>2. tree' = new
    BY <1>3 DEF Update
  <2> HIDE DEF a, new
  <2>3. /\ a \in DOMAIN tree' /\ line.flag \in tree'[a].mask
        /\ line.flag \in tree'[a].flags <=> line.on
    BY <2>1, <2>2, <1>5, <1>9
  <2> QED BY <2>3, <1>2 DEF Has, Valued, a
<1>11. /\ old.mask \subseteq node.mask
       /\ \A f \in old.mask : f \in node.flags <=> f \in old.flags
       /\ old.ctype \in {"", node.ctype} /\ node.flags \subseteq node.mask
  BY <1>5, <1>6, <1>8
<1> QED BY <1>2, <1>3, <1>7, <1>10, <1>11, UpdateKeeps DEF old

\* A line for a type leaves what is known of the attributes (parse_filetype).
LEMMA FileTypeKeeps ==
  ASSUME IInv, NEW line \in Lines, pc = "parse", FileType(line), OldNode(line).ctype = "",
         pc' = pc, code' = code
  PROVE  TreeInv' /\ SaidHolds'
<1> DEFINE old == OldNode(line)
           node == [flags |-> old.flags, mask |-> old.mask, ctype |-> line.ctype]
<1>1. old \in Node /\ old.flags \subseteq old.mask
  BY OldNodeIsNode
<1>2. line.kind = "file-type" /\ line.ctype \in Types
  BY DEF FileType, Types
<1>3. /\ Update(line, node) /\ headers' = headers
      /\ said' = said \cup {[dom |-> domain, line |-> line]}
  BY DEF FileType, Accept, Refuse, Die
<1>4. old.ctype = ""
  OBVIOUS
<1> HIDE DEF old
<1>5. /\ node.flags = old.flags /\ node.mask = old.mask /\ node.ctype = line.ctype
  OBVIOUS
<1>7. node \in Node
  BY <1>1, <1>2, <1>5 DEF Node
<1> HIDE DEF node
<1>10. Has(tree', headers', [dom |-> domain, line |-> line])
  <2> DEFINE a == AttributeKey(domain, line)
             new == With(tree, a, node)
  <2>1. a \in DOMAIN new /\ new[a] = node
    BY DEF With
  <2>2. tree' = new
    BY <1>3 DEF Update
  <2> HIDE DEF a, new
  <2>3. a \in DOMAIN tree' /\ tree'[a].ctype = line.ctype
    BY <2>1, <2>2, <1>5
  <2> QED BY <2>3, <1>2 DEF Has, Valued, a
<1>11. /\ old.mask \subseteq node.mask
       /\ \A f \in old.mask : f \in node.flags <=> f \in old.flags
       /\ old.ctype \in {"", node.ctype} /\ node.flags \subseteq node.mask
  BY <1>1, <1>4, <1>5
<1> QED BY <1>2, <1>3, <1>7, <1>10, <1>11, UpdateKeeps DEF old

\* What is kept when the tree does not change, and there are only more headers
\* (parse_customheader, domain, a line that is refused).
LEMMA HeadersKeep ==
  ASSUME IInv, tree' = tree, DOMAIN headers \subseteq DOMAIN headers',
         \A h \in DOMAIN headers : headers'[h] = headers[h]
  PROVE  \A s \in said : Has(tree', headers', s)
  BY HasKept DEF IInv, SaidHolds

\* A header is added for a name that has none (parse_customheader).
LEMMA CustomHeaderKeeps ==
  ASSUME IInv, NEW line \in Lines, pc = "parse", CustomHeader(line), pc' = pc, code' = code
  PROVE  TreeInv' /\ SaidHolds'
<1> DEFINE n == Canonical[line.name]
           v == line.value
           new == With(headers, n, v)
<1>0. code = 0
  BY DEF IInv, EndInv
<1>1. /\ line.kind = "custom-header" /\ n \notin DOMAIN headers
      /\ headers' = new /\ tree' = tree
      /\ said' = said \cup {[dom |-> domain, line |-> line]}
  BY <1>0 DEF CustomHeader, Accept, Refuse, Die
<1> HIDE DEF n, v
<1>2. /\ DOMAIN new = DOMAIN headers \cup {n} /\ new[n] = v
      /\ \A h \in DOMAIN headers : h # n => new[h] = headers[h]
  BY DEF With
<1> HIDE DEF new
<1>3. \A s \in said : Has(tree', headers', s)
  <2>1. DOMAIN headers \subseteq DOMAIN headers' /\ \A h \in DOMAIN headers : headers'[h] = headers[h]
    BY <1>1, <1>2
  <2> QED BY <1>1, <2>1, HeadersKeep
<1>4. Has(tree', headers', [dom |-> domain, line |-> line])
  <2>1. n \in DOMAIN headers' /\ headers'[n] = v
    BY <1>1, <1>2
  <2> QED BY <1>1, <2>1 DEF Has, Valued, n, v
<1>5. \A s \in said' : s.line \in Lines
  <2>1. [dom |-> domain, line |-> line].line = line
    OBVIOUS
  <2>2. \A s \in said : s.line \in Lines
    BY DEF IInv, TreeInv
  <2>3. ASSUME NEW s \in said' PROVE s.line \in Lines
    <3>1. s \in said \/ s = [dom |-> domain, line |-> line]
      BY <1>1
    <3>2. CASE s \in said
      BY <3>2, <2>2
    <3>3. CASE s = [dom |-> domain, line |-> line]
      BY <3>3, <2>1
    <3> QED BY <3>1, <3>2, <3>3
  <2> QED BY <2>3
<1>6. TreeInv'
  BY <1>1, <1>5 DEF IInv, TreeInv
<1> QED BY <1>1, <1>3, <1>4, <1>6 DEF SaidHolds

\* Where a line leads: on, or to the end with nothing said and nothing changed.
LEMMA LineControl ==
  ASSUME IInv, NEW line \in Lines, pc = "parse", ProcessLine(line)
  PROVE  \/ pc' = pc /\ code' = code
         \/ pc' = "died" /\ code' = 1 /\ UNCHANGED <<domain, tree, headers, said>>
  BY DEF ProcessLine, Domain, Unique, Duplicate, Attribute, FileType, CustomHeader,
         Accept, Refuse, Die, GoOn, progress

\* Every line keeps what the others said (process_line).
LEMMA LineKeeps ==
  ASSUME IInv, NEW line \in Lines, pc = "parse", ProcessLine(line)
  PROVE  TreeInv' /\ SaidHolds'
<1>0. code = 0
  BY DEF IInv, EndInv
<1>1. CASE UNCHANGED <<tree, headers, said>> /\ pc' \in {pc, "died"}
  BY <1>1 DEF IInv, TreeInv, SaidHolds
<1>2. CASE pc' = pc /\ code' = code
  <2>1. CASE Unique(line)
    BY <2>1, UniqueKeeps
  <2>2. CASE Attribute(line)
    <3>1. line.flag \notin OldNode(line).mask
      BY <1>0, <1>2, <2>2 DEF Attribute, Refuse, Die
    <3> QED BY <2>2, <3>1, AttributeKeeps
  <2>3. CASE FileType(line)
    <3>1. OldNode(line).ctype = ""
      BY <1>0, <1>2, <2>3 DEF FileType, Refuse, Die
    <3> QED BY <1>2, <2>3, <3>1, FileTypeKeeps
  <2>4. CASE CustomHeader(line)
    BY <1>2, <2>4, CustomHeaderKeeps
  <2>5. CASE Domain(line)
    BY <1>1, <1>2, <2>5 DEF Domain
  <2> QED BY <1>0, <1>2, <2>1, <2>2, <2>3, <2>4, <2>5 DEF ProcessLine, Duplicate, Refuse, Die
<1> QED BY <1>1, <1>2, LineControl

\* The whole of ReadLine.
LEMMA ReadLineKeeps == IInv /\ ReadLine => IInv'
<1> SUFFICES ASSUME IInv, ReadLine PROVE IInv'
  OBVIOUS
<1>1. PICK line \in Lines : ProcessLine(line)
  BY DEF ReadLine
<1>2. /\ pc = "parse" /\ count \in Nat /\ count < MaxLines /\ count' = count + 1
      /\ UNCHANGED <<preprocessor, reaped, temporary, installed>>
  BY DEF ReadLine, child, output, IInv, TypeOK
<1>3. TreeInv' /\ SaidHolds'
  BY <1>1, <1>2, LineKeeps
<1>4. code = 0 /\ installed = Old /\ (reaped /\ preprocessor = "failed" => FALSE)
  BY <1>2 DEF IInv, EndInv, OutputInv, Ended
<1>5. \/ pc' = "parse" /\ code' = 0
      \/ pc' = "died" /\ code' = 1
  BY <1>1, <1>2, <1>4, LineControl
<1>6. EndInv'
  BY <1>2, <1>4, <1>5 DEF IInv, EndInv
<1>7. OutputInv'
  BY <1>2, <1>4, <1>5 DEF OutputInv, Parsed, Completing, Ended
<1>8. TypeOK'
  <2>0. MaxLines \in Nat
    BY ConfigAssumption
  <2>1. count' \in 0..MaxLines
    BY <1>2, <2>0
  <2> QED BY <1>2, <1>3, <1>5, <2>1 DEF TypeOK, TreeInv, IInv
<1> QED BY <1>3, <1>6, <1>7, <1>8 DEF IInv

-----------------------------------------------------------------------------
(* The other steps. *)

\* The headers that are built in complete what is customized (headers_finish).
LEMMA FinishHeadersKeeps == IInv /\ FinishHeaders => IInv'
<1> SUFFICES ASSUME IInv, FinishHeaders PROVE IInv'
  OBVIOUS
<1> DEFINE hs == Completed(headers, Builtin)
           new == With(tree, HeadersKey, hs)
<1>1. /\ pc = "parse" /\ pc' = "defaults" /\ headers' = hs /\ tree' = With(tree, HeadersKey, headers')
      /\ UNCHANGED <<code, preprocessor, reaped, count, domain, said, temporary, installed>>
      /\ preprocessor # "running"
  BY DEF FinishHeaders, child, output
<1>2. /\ DOMAIN hs = DOMAIN headers \cup DOMAIN Builtin
      /\ \A h \in DOMAIN headers : hs[h] = headers[h]
  BY DEF Completed
<1> HIDE DEF hs
<1>3. /\ DOMAIN new = DOMAIN tree \cup {HeadersKey} /\ new[HeadersKey] = hs
      /\ \A k \in DOMAIN tree : k # HeadersKey => new[k] = tree[k]
  BY DEF With
<1>4. tree' = new
  BY <1>1
<1> HIDE DEF new
<1>5. HeadersKey \notin DOMAIN tree /\ HeadersKey.of # "attribute"
  BY <1>1 DEF IInv, TreeInv, HeadersKey, Key
<1>6. SaidHolds'
  <2>1. /\ DOMAIN tree \subseteq DOMAIN tree' /\ \A k \in DOMAIN tree : tree'[k] = tree[k]
        /\ DOMAIN headers \subseteq DOMAIN headers' /\ \A h \in DOMAIN headers : headers'[h] = headers[h]
    BY <1>1, <1>2, <1>3, <1>4, <1>5
  <2> QED BY <1>1, <2>1, HasKept DEF IInv, SaidHolds
<1>7. TreeInv'
  BY <1>1, <1>3, <1>4, <1>5 DEF IInv, TreeInv
<1>8. TypeOK'
  BY <1>1, <1>7 DEF IInv, TypeOK, TreeInv
<1>9. OutputInv'
  <2>1. installed' = Old
    BY <1>1 DEF IInv, OutputInv, Ended
  <2>2. HeadersKey \in DOMAIN tree' /\ tree'[HeadersKey] = headers' /\ DOMAIN Builtin \subseteq DOMAIN headers'
    BY <1>1, <1>2, <1>3, <1>4
  <2> QED BY <1>1, <2>1, <2>2 DEF OutputInv, Parsed, Completing, Ended
<1>10. EndInv'
  BY <1>1 DEF IInv, EndInv
<1> QED BY <1>6, <1>7, <1>8, <1>9, <1>10 DEF IInv

\* The defaults complete what is said (conf_defaults).
LEMMA AddDefaultsKeeps == IInv /\ AddDefaults => IInv'
<1> SUFFICES ASSUME IInv, AddDefaults PROVE IInv'
  OBVIOUS
<1> DEFINE new == Completed(tree, Defaults)
<1>1. /\ pc = "defaults" /\ pc' = "create" /\ tree' = new
      /\ UNCHANGED <<code, preprocessor, reaped, count, domain, headers, said, temporary, installed>>
  BY DEF AddDefaults, child, output
<1>2. /\ DOMAIN new = DOMAIN tree \cup DOMAIN Defaults
      /\ \A k \in DOMAIN tree : new[k] = tree[k]
  BY DEF Completed
<1> HIDE DEF new
<1>3. \A k \in DOMAIN Defaults : k.of # "attribute"
  BY ConfigAssumption
<1>4. SaidHolds'
  <2>1. DOMAIN tree \subseteq DOMAIN tree' /\ \A k \in DOMAIN tree : tree'[k] = tree[k]
    BY <1>1, <1>2
  <2> QED BY <1>1, <2>1, HasKept DEF IInv, SaidHolds
<1>5. TreeInv'
  <2>1. \A key \in DOMAIN tree' : key.of = "attribute" => key \in DOMAIN tree /\ tree'[key] = tree[key]
    BY <1>1, <1>2, <1>3
  <2> QED BY <1>1, <2>1 DEF IInv, TreeInv
<1>6. TypeOK'
  BY <1>1, <1>5 DEF IInv, TypeOK, TreeInv
<1>7. OutputInv'
  <2>1. installed' = Old
    BY <1>1 DEF IInv, OutputInv, Ended
  <2>2. /\ HeadersKey \in DOMAIN tree' /\ tree'[HeadersKey] = headers'
        /\ DOMAIN Builtin \subseteq DOMAIN headers' /\ DOMAIN Defaults \subseteq DOMAIN tree'
    BY <1>1, <1>2 DEF IInv, OutputInv, Parsed
  <2> QED BY <1>1, <2>1, <2>2 DEF OutputInv, Parsed, Completing, Ended
<1>8. EndInv'
  BY <1>1 DEF IInv, EndInv
<1> QED BY <1>4, <1>5, <1>6, <1>7, <1>8 DEF IInv

\* What changes neither the tree nor what was said keeps what is said.
LEMMA TreeKept ==
  ASSUME IInv, UNCHANGED <<tree, headers, said>>, pc' = "parse" => pc = "parse"
  PROVE  TreeInv' /\ SaidHolds'
  BY DEF IInv, TreeInv, SaidHolds

\* From the temporary file to its place (conf_output).
LEMMA OutputKeeps == IInv /\ (ConfOutput \/ Exit) => IInv'
<1> SUFFICES ASSUME IInv, ConfOutput \/ Exit PROVE IInv'
  OBVIOUS
<1>1. /\ UNCHANGED <<preprocessor, reaped, count, domain, tree, headers, said>>
      /\ pc \in {"create", "write", "rename", "renamed"}
      /\ pc' \in {"write", "rename", "renamed", "done", "died"}
  BY DEF ConfOutput, Create, WriteAll, OutputFails, Rename, Exit, Die, child, parsed, output
<1>2. TreeInv' /\ SaidHolds'
  BY <1>1, TreeKept
<1>3. code = 0 /\ ~(reaped /\ preprocessor = "failed")
  BY <1>1 DEF IInv, EndInv
<1>4. TypeOK'
  BY <1>1, <1>2 DEF IInv, TypeOK, TreeInv, ConfOutput, Create, WriteAll, OutputFails, Rename, Exit, Die,
                    output
<1>5. /\ HeadersKey \in DOMAIN tree' /\ tree'[HeadersKey] = headers'
      /\ DOMAIN Builtin \subseteq DOMAIN headers' /\ DOMAIN Defaults \subseteq DOMAIN tree'
  BY <1>1 DEF IInv, OutputInv, Parsed, Completing
<1>6. pc = "rename" => temporary = "whole"
  BY DEF IInv, OutputInv
<1>7. pc # "renamed" => installed = Old
  BY <1>1 DEF IInv, OutputInv, Ended
<1>8. installed # Old => installed = [whole |-> TRUE, db |-> tree]
  BY DEF IInv, OutputInv
<1>9. CASE Create \/ WriteAll
  <2>1. code' = code /\ installed' = Old /\ pc' \notin Ended /\ (pc' = "rename" => temporary' = "whole")
    BY <1>7, <1>9 DEF Create, WriteAll, Ended
  <2>2. OutputInv'
    BY <1>5, <2>1 DEF OutputInv
  <2>3. EndInv'
    BY <1>1, <1>3, <2>1 DEF IInv, EndInv
  <2> QED BY <1>2, <1>4, <2>2, <2>3 DEF IInv
<1>10. CASE OutputFails
  <2>1. installed' = Old /\ pc' = "died"
    BY <1>7, <1>10 DEF OutputFails, Die
  <2>2. OutputInv'
    BY <1>5, <2>1 DEF OutputInv, Parsed, Completing
  <2>3. EndInv'
    BY <1>1, <1>3, <2>1 DEF IInv, EndInv
  <2> QED BY <1>2, <1>4, <2>2, <2>3 DEF IInv
<1>11. CASE Rename
  <2>1. installed' = [whole |-> TRUE, db |-> tree'] /\ pc' = "renamed" /\ code' = 0
    BY <1>1, <1>3, <1>6, <1>11 DEF Rename
  <2>2. OutputInv'
    BY <1>5, <2>1 DEF OutputInv, Ended
  <2>3. EndInv'
    BY <1>1, <1>3, <2>1 DEF IInv, EndInv
  <2> QED BY <1>2, <1>4, <2>2, <2>3 DEF IInv
<1>12. CASE Exit
  <2>1. UNCHANGED installed /\ pc' = "done" /\ code' = 0
    BY <1>3, <1>12 DEF Exit, output
  <2>2. OutputInv'
    BY <1>1, <1>5, <1>8, <2>1 DEF OutputInv, Ended
  <2>3. EndInv'
    BY <1>1, <1>3, <2>1 DEF IInv, EndInv
  <2> QED BY <1>2, <1>4, <2>2, <2>3 DEF IInv
<1> QED BY <1>9, <1>10, <1>11, <1>12 DEF ConfOutput

\* The end of the preprocessor, the signal, and what kills the process change neither
\* the tree nor the files (sigchld_handler).
LEMMA OutsideKeeps == IInv /\ (PreprocessorEnds \/ SigchldHandler \/ Killed) => IInv'
<1> SUFFICES ASSUME IInv, PreprocessorEnds \/ SigchldHandler \/ Killed PROVE IInv'
  OBVIOUS
<1>1. /\ UNCHANGED <<count, domain, tree, headers, said, temporary, installed>>
      /\ pc' \in {pc, "died", "killed"} /\ ~Over
  BY DEF PreprocessorEnds, SigchldHandler, Killed, GoOn, Die, progress, child, parsed, output
<1>2. TreeInv' /\ SaidHolds'
  BY <1>1, TreeKept
<1>3. TypeOK'
  <2>1. /\ pc' \in {pc, "died", "killed"} /\ code' \in {code, 2}
        /\ preprocessor' \in {preprocessor, "ok", "failed"} /\ reaped' \in {reaped, TRUE}
    BY <1>1 DEF PreprocessorEnds, SigchldHandler, Killed, GoOn, Die, progress, child
  <2>2. code' \in {0, 1, 2, 111} /\ preprocessor' \in {"running", "ok", "failed"}
    BY <2>1 DEF IInv, TypeOK
  <2>3. reaped' \in BOOLEAN
    BY <2>1 DEF IInv, TypeOK
  <2>4. pc' \in {"parse", "defaults", "create", "write", "rename", "renamed", "done", "died", "killed"}
    BY <2>1 DEF IInv, TypeOK
  <2> QED BY <1>1, <1>2, <2>2, <2>3, <2>4 DEF IInv, TypeOK, TreeInv
<1>4. OutputInv'
  BY <1>1 DEF IInv, OutputInv, Parsed, Completing, Ended
<1>5. code = 0
  BY <1>1 DEF IInv, EndInv, Over
<1>6. EndInv'
  <2>1. CASE PreprocessorEnds
    BY <1>5, <2>1 DEF IInv, EndInv, PreprocessorEnds, progress
  <2>2. CASE SigchldHandler
    BY <1>5, <2>2 DEF IInv, EndInv, SigchldHandler, GoOn, Die, progress
  <2>3. CASE Killed
    BY <1>1, <1>5, <2>3 DEF IInv, EndInv, Killed, Over, child
  <2> QED BY <2>1, <2>2, <2>3
<1> QED BY <1>2, <1>3, <1>4, <1>6 DEF IInv

\* Every step keeps the invariant.
LEMMA Step == IInv /\ [Next]_vars => IInv'
<1>1. IInv /\ UNCHANGED vars => IInv'
  BY DEF vars, progress, child, parsed, output, IInv, TypeOK, TreeInv, SaidHolds, OutputInv, EndInv
<1> QED BY <1>1, ReadLineKeeps, FinishHeadersKeeps, AddDefaultsKeeps, OutputKeeps, OutsideKeeps
        DEF Next, Main

\* At any time the tree has what was said, it is complete when it is written, and the
\* database is replaced at one point only.
THEOREM Inductive == Spec => []IInv
BY Initially, Step, PTL DEF Spec

-----------------------------------------------------------------------------

\* For any lines, of any length, the variables of tipidee-config keep their types, and
\* an attribute that is on is one that is known (lexparse.c).
THEOREM TypeCorrect == Spec => []TypeOK
<1>1. IInv => TypeOK
  BY DEF IInv
<1> QED BY <1>1, Inductive, PTL

\* For any lines, what an accepted line said holds to the end (process_line,
\* headers_finish, conf_defaults).
THEOREM NothingOverridden == Spec => []SaidHolds
<1>1. IInv => SaidHolds
  BY DEF IInv
<1> QED BY <1>1, Inductive, PTL

\* For any lines, and wherever the process is stopped, the database that can be opened
\* is the old one or a whole new one (conf_output).
THEOREM WholeOrOld == Spec => []AtomicReplace
<1>1. IInv => NewIsWhole
  <2> SUFFICES ASSUME IInv, installed # Old PROVE NewIsWhole
    BY DEF NewIsWhole, New
  <2>1. /\ installed = [whole |-> TRUE, db |-> tree]
        /\ HeadersKey \in DOMAIN tree /\ tree[HeadersKey] = headers
        /\ DOMAIN Builtin \subseteq DOMAIN headers
        /\ DOMAIN Defaults \subseteq DOMAIN tree
    BY DEF IInv, OutputInv
  <2>2. installed.whole /\ installed.db = tree
    BY <2>1
  <2>3. \A s \in said : Has(tree, headers, s)
    BY DEF IInv, SaidHolds
  <2> QED BY <2>1, <2>2, <2>3 DEF NewIsWhole
<1>2. IInv => AtomicReplace
  BY <1>1 DEF IInv, EndInv, AtomicReplace
<1> QED BY <1>2, Inductive, PTL

\* For any lines, nothing is installed once the failure of the preprocessor is seen
\* (sigchld_handler).
THEOREM StoppedWhenSeen == Spec => SeenFailureStops
<1>1. IInv /\ [Next]_vars => (reaped /\ preprocessor = "failed" => UNCHANGED installed)
  <2> SUFFICES ASSUME IInv, [Next]_vars, reaped, preprocessor = "failed" PROVE UNCHANGED installed
    OBVIOUS
  <2>1. pc = "died"
    BY DEF IInv, EndInv
  <2> QED BY <2>1 DEF Next, Main, ReadLine, FinishHeaders, AddDefaults, ConfOutput, Create, WriteAll,
             OutputFails, Rename, Exit, PreprocessorEnds, SigchldHandler, Killed, Over, vars, output
<1>2. IInv /\ [Next]_vars => [reaped /\ preprocessor = "failed" => UNCHANGED installed]_vars
  BY <1>1
<1> QED BY <1>2, Inductive, PTL DEF Spec, SeenFailureStops
-----------------------------------------------------------------------------
(***************************************************************************)
(* The search for a redirection.  The keys that it tries are numbered:     *)
(* 1 for the path itself, and Len(path) + 1 - n for its directory of n     *)
(* names; the database has those of the lines that were accepted.          *)
(***************************************************************************)

\* Each key of a redirection was said.
RedirectsSaid ==
  \A key \in DOMAIN tree :
    key.of = "redirect" =>
      \E s \in said : s.line.kind = "redirect" /\ UniqueKey(s.dom, s.line) = key

LEMMA KeyOf ==
  ASSUME NEW of, NEW dir, NEW dom, NEW path
  PROVE  /\ Key(of, dir, dom, path).of = of /\ Key(of, dir, dom, path).dir = dir
         /\ Key(of, dir, dom, path).dom = dom /\ Key(of, dir, dom, path).path = path
  BY DEF Key

LEMMA SaidGrows ==
  ASSUME RedirectsSaid, said \subseteq said',
         \A key \in DOMAIN tree' :
           key \in DOMAIN tree \/ key.of # "redirect"
             \/ \E s \in said' : s.line.kind = "redirect" /\ UniqueKey(s.dom, s.line) = key
  PROVE  RedirectsSaid'
<1> SUFFICES ASSUME NEW key \in DOMAIN tree', key.of = "redirect"
             PROVE  \E s \in said' : s.line.kind = "redirect" /\ UniqueKey(s.dom, s.line) = key
  BY DEF RedirectsSaid, UniqueKey
<1>1. CASE key \in DOMAIN tree
  BY <1>1 DEF RedirectsSaid
<1>2. CASE \E s \in said' : s.line.kind = "redirect" /\ UniqueKey(s.dom, s.line) = key
  BY <1>2
<1> QED BY <1>1, <1>2

\* The directives that add a key for one line.
LEMMA LineSays ==
  ASSUME RedirectsSaid, NEW line \in Lines, ProcessLine(line)
  PROVE  RedirectsSaid'
<1> DEFINE s0 == [dom |-> domain, line |-> line]
<1>1. ASSUME Accept(line) PROVE said \subseteq said' /\ s0 \in said'
  BY <1>1 DEF Accept
<1>2. CASE UNCHANGED <<tree, said>>
  BY <1>2 DEF RedirectsSaid, UniqueKey
<1>3. CASE Unique(line)
  <2> DEFINE key == UniqueKey(domain, line)
  <2>1. /\ line.kind \in Valued \cup {"redirect"}
        /\ DOMAIN tree' = DOMAIN tree \cup {key} /\ Accept(line)
    BY <1>3, WithKeeps DEF Unique
  <2>2. line.kind # "redirect" => key.of # "redirect"
    BY <2>1, KeyOf DEF UniqueKey, Valued
  <2>3. line.kind = "redirect" => \E s \in said' : s.line.kind = "redirect" /\ UniqueKey(s.dom, s.line) = key
    <3>1. s0 \in said' /\ s0.line = line /\ s0.dom = domain
      BY <1>1, <2>1
    <3> HIDE DEF s0
    <3> QED BY <3>1
  <2> HIDE DEF key
  <2> QED BY <1>1, <2>1, <2>2, <2>3, SaidGrows
<1>4. CASE Attribute(line) \/ FileType(line)
  <2>1. CASE UNCHANGED tree /\ said \subseteq said'
    BY <2>1, SaidGrows
  <2>2. CASE Accept(line) /\ DOMAIN tree' = DOMAIN tree \cup {AttributeKey(domain, line)}
    <3>1. AttributeKey(domain, line).of # "redirect"
      BY KeyOf DEF AttributeKey
    <3> QED BY <1>1, <2>2, <3>1, SaidGrows
  <2>3. CASE Refuse
    BY <2>1, <2>3 DEF Refuse
  <2>4. ASSUME NEW node, Update(line, node), Accept(line)
        PROVE  RedirectsSaid'
    BY <2>2, <2>4, WithKeeps DEF Update
  <2>5. Refuse \/ \E node : Update(line, node) /\ Accept(line)
    BY <1>4 DEF Attribute, FileType
  <2> QED BY <2>3, <2>4, <2>5
<1>5. CASE CustomHeader(line)
  <2>1. UNCHANGED tree /\ said \subseteq said'
    BY <1>1, <1>5 DEF CustomHeader, Refuse
  <2> QED BY <2>1, SaidGrows
<1> QED BY <1>2, <1>3, <1>4, <1>5 DEF ProcessLine, Refuse, Domain, Duplicate

LEMMA NextSays == RedirectsSaid /\ [Next]_vars => RedirectsSaid'
<1> SUFFICES ASSUME RedirectsSaid, [Next]_vars PROVE RedirectsSaid'
  OBVIOUS
<1>1. CASE ReadLine
  BY <1>1, LineSays DEF ReadLine
<1>2. CASE FinishHeaders
  <2>1. DOMAIN tree' = DOMAIN tree \cup {HeadersKey} /\ said' = said
    BY <1>2, WithKeeps DEF FinishHeaders
  <2>2. HeadersKey.of # "redirect"
    BY DEF HeadersKey, Key
  <2> QED BY <2>1, <2>2, SaidGrows
<1>3. CASE AddDefaults
  <2>1. DOMAIN tree' = DOMAIN tree \cup DOMAIN Defaults /\ said' = said
    BY <1>3, CompletedKeeps DEF AddDefaults
  <2>2. \A key \in DOMAIN Defaults : key.of # "redirect"
    BY ConfigAssumption
  <2> QED BY <2>1, <2>2, SaidGrows
<1>4. CASE UNCHANGED <<tree, said>>
  BY <1>4 DEF RedirectsSaid, UniqueKey
<1> QED BY <1>1, <1>2, <1>3, <1>4
        DEF Next, Main, ConfOutput, Create, WriteAll, OutputFails, Rename, Exit, PreprocessorEnds,
            SigchldHandler, Killed, vars, parsed

LEMMA Smallest ==
  ASSUME NEW T \in SUBSET Nat, T # {}
  PROVE  \E m \in T : \A n \in T : m <= n
<1>1. PICK m \in T : \A n \in T : ~(<<n, m>> \in OpToRel(<, Nat))
  BY NatLessThanWellFounded, WFMin
<1>2. ASSUME NEW n \in T, n < m PROVE FALSE
  <2>1. n \in Nat /\ m \in Nat
    OBVIOUS
  <2>2. <<n, m>> \in OpToRel(<, Nat)
    BY <1>2, <2>1 DEF OpToRel
  <2> QED BY <1>1, <2>2
<1>3. \A n \in T : m \in Nat /\ n \in Nat /\ ~(n < m)
  BY <1>2
<1> QED BY <1>3

\* A sequence of n elements.
Numbered(s, n) == DOMAIN s = 1..n /\ Len(s) = n

LEMMA ChainIs ==
  ASSUME NEW of, NEW dom, NEW path \in Seq(STRING), NEW slash \in BOOLEAN
  PROVE  /\ Numbered(Chain(of, dom, path, slash), Len(path) + 1)
         /\ ~slash => Chain(of, dom, path, slash)[1] = Key(of, FALSE, dom, path)
         /\ \A i \in 1..(Len(path) + 1) :
              slash \/ i # 1 =>
                Chain(of, dom, path, slash)[i] = Key(of, TRUE, dom, SubSeq(path, 1, Len(path) + 1 - i))
<1> DEFINE n == Len(path)
           top == IF slash THEN n ELSE n - 1
           itself == IF slash THEN <<>> ELSE <<Key(of, FALSE, dom, path)>>
           dirs == [i \in 1..(top + 1) |-> Key(of, TRUE, dom, SubSeq(path, 1, top + 1 - i))]
           S == {dirs[i] : i \in 1..(top + 1)} \cup {Key(of, FALSE, dom, path)}
<1>1. n \in Nat /\ top + 1 \in Nat /\ top \in Int
  OBVIOUS
<1>2. itself \in Seq(S) /\ Len(itself) = IF slash THEN 0 ELSE 1
  <2> DEFINE k == Key(of, FALSE, dom, path)
  <2>1. k \in S /\ itself = IF slash THEN <<>> ELSE <<k>>
    OBVIOUS
  <2> HIDE DEF k, S, itself
  <2>2. <<>> \in Seq(S) /\ Len(<<>>) = 0 /\ <<k>> \in Seq(S) /\ Len(<<k>>) = 1
    BY <2>1
  <2>3. CASE slash
    BY <2>1, <2>2, <2>3
  <2>4. CASE ~slash
    BY <2>1, <2>2, <2>4
  <2> QED BY <2>3, <2>4
<1>3. dirs \in [1..(top + 1) -> S]
  OBVIOUS
<1>4. \A i \in 1..(top + 1) : dirs[i] = Key(of, TRUE, dom, SubSeq(path, 1, top + 1 - i))
  OBVIOUS
<1>5. ~slash => itself[1] = Key(of, FALSE, dom, path)
  OBVIOUS
<1>6. Chain(of, dom, path, slash) = itself \o dirs
  BY DEF Chain
<1>a. top = IF slash THEN n ELSE n - 1
  OBVIOUS
<1> HIDE DEF itself, dirs, S, top, n
<1>7. dirs \in Seq(S) /\ Len(dirs) = top + 1
  BY <1>1, <1>3
<1>8. /\ DOMAIN (itself \o dirs) = 1..(Len(itself) + Len(dirs))
      /\ Len(itself \o dirs) = Len(itself) + Len(dirs)
      /\ \A i \in 1..(Len(itself) + Len(dirs)) :
           (itself \o dirs)[i] = IF i <= Len(itself) THEN itself[i] ELSE dirs[i - Len(itself)]
  <2>1. itself \o dirs \in Seq(S) /\ Len(itself \o dirs) = Len(itself) + Len(dirs)
    BY <1>2, <1>7, ConcatProperties
  <2>2. DOMAIN (itself \o dirs) = 1..(Len(itself) + Len(dirs))
    BY <2>1, LenProperties
  <2> QED BY <1>2, <1>7, <2>1, <2>2, ConcatProperties
<1>9. CASE slash
  <2>1. Len(itself) = 0 /\ Len(dirs) = n + 1 /\ top = n
    BY <1>2, <1>7, <1>9, <1>a
  <2>2. DOMAIN (itself \o dirs) = 1..(n + 1) /\ Len(itself \o dirs) = n + 1
    BY <1>1, <1>8, <2>1
  <2>3. ASSUME NEW i \in 1..(n + 1)
        PROVE  (itself \o dirs)[i] = Key(of, TRUE, dom, SubSeq(path, 1, n + 1 - i))
    <3>1. i - 0 = i /\ i \in 1..(top + 1) /\ top + 1 - i = n + 1 - i
      BY <1>1, <2>1
    <3>2. (itself \o dirs)[i] = dirs[i]
      BY <1>1, <1>8, <2>1, <3>1
    <3> QED BY <1>4, <3>1, <3>2
  <2> QED BY <1>6, <1>9, <2>2, <2>3 DEF n, Numbered
<1>10. CASE ~slash
  <2>1. Len(itself) = 1 /\ Len(dirs) = n /\ top = n - 1
    BY <1>1, <1>2, <1>7, <1>10, <1>a
  <2>2. DOMAIN (itself \o dirs) = 1..(n + 1) /\ Len(itself \o dirs) = n + 1
    BY <1>1, <1>8, <2>1
  <2>3. (itself \o dirs)[1] = Key(of, FALSE, dom, path)
    <3>1. (itself \o dirs)[1] = itself[1]
      BY <1>1, <1>8, <2>1
    <3> QED BY <1>5, <1>10, <3>1
  <2>4. ASSUME NEW i \in 1..(n + 1), i # 1
        PROVE  (itself \o dirs)[i] = Key(of, TRUE, dom, SubSeq(path, 1, n + 1 - i))
    <3>1. (itself \o dirs)[i] = dirs[i - 1]
      BY <1>1, <1>8, <2>1, <2>4
    <3>2. i - 1 \in 1..(top + 1) /\ top + 1 - (i - 1) = n + 1 - i
      BY <1>1, <2>1, <2>4
    <3> QED BY <1>4, <3>1, <3>2
  <2> QED BY <1>6, <1>10, <2>2, <2>3, <2>4 DEF n, Numbered
<1> QED BY <1>9, <1>10

LEMMA ChainFirst ==
  ASSUME NEW of, NEW dom, NEW path \in Seq(STRING), NEW slash \in BOOLEAN, ~slash
  PROVE  Chain(of, dom, path, slash)[1] = Key(of, FALSE, dom, path)
BY ChainIs, Zenon

LEMMA ChainRest ==
  ASSUME NEW of, NEW dom, NEW path \in Seq(STRING), NEW slash \in BOOLEAN,
         NEW i \in 1..(Len(path) + 1), slash \/ i # 1
  PROVE  Chain(of, dom, path, slash)[i] = Key(of, TRUE, dom, SubSeq(path, 1, Len(path) + 1 - i))
BY ChainIs, ZenonT(30)

LEMMA ChainDomain ==
  ASSUME NEW of, NEW dom, NEW path \in Seq(STRING), NEW slash \in BOOLEAN
  PROVE  DOMAIN Chain(of, dom, path, slash) = 1..(Len(path) + 1)
<1>1. Numbered(Chain(of, dom, path, slash), Len(path) + 1)
  BY ChainIs, Zenon
<1> QED BY <1>1, Zenon DEF Numbered

LEMMA ChainLength ==
  ASSUME NEW of, NEW dom, NEW path \in Seq(STRING), NEW slash \in BOOLEAN
  PROVE  Len(Chain(of, dom, path, slash)) = Len(path) + 1
<1>1. Numbered(Chain(of, dom, path, slash), Len(path) + 1)
  BY ChainIs, Zenon
<1> QED BY <1>1, Zenon DEF Numbered

\* Where a line is in the chain of a path that it is for.
Position(line, path) == IF line.dir THEN Len(path) + 1 - Len(line.path) ELSE 1

LEMMA LinePosition ==
  ASSUME NEW of, NEW dom, NEW path \in Seq(STRING), NEW slash \in BOOLEAN,
         NEW line, line.path \in Seq(STRING), line.dir \in BOOLEAN, Covers(line, path, slash)
  PROVE  /\ Position(line, path) \in 1..(Len(path) + 1)
         /\ Chain(of, dom, path, slash)[Position(line, path)] = Key(of, line.dir, dom, line.path)
<1>1. PICK c : c = Chain(of, dom, path, slash)
  OBVIOUS
<1>2. /\ ~slash => c[1] = Key(of, FALSE, dom, path)
      /\ \A i \in 1..(Len(path) + 1) :
           slash \/ i # 1 => c[i] = Key(of, TRUE, dom, SubSeq(path, 1, Len(path) + 1 - i))
  <2>1. ~slash => c[1] = Key(of, FALSE, dom, path)
    BY <1>1, ChainFirst, Zenon
  <2>2. \A i \in 1..(Len(path) + 1) :
          slash \/ i # 1 => c[i] = Key(of, TRUE, dom, SubSeq(path, 1, Len(path) + 1 - i))
    <3> TAKE i \in 1..(Len(path) + 1)
    <3> HAVE slash \/ i # 1
    <3> QED BY <1>1, ChainRest, Zenon
  <2> QED BY <2>1, <2>2, Zenon
<1>3. PICK n \in Nat, k \in Nat : n = Len(path) /\ k = Len(line.path)
  OBVIOUS
<1>4. CASE line.dir
  <2>1. /\ IF slash THEN k <= n ELSE k < n
        /\ SubSeq(path, 1, k) = line.path
    BY <1>3, <1>4 DEF Covers
  <2>2. PICK i \in Nat : i = n + 1 - k /\ i \in 1..(n + 1)
    <3>1. k <= n
      BY <1>3, <2>1
    <3>2. n + 1 - k \in Nat /\ n + 1 - k \in 1..(n + 1)
      BY <3>1
    <3> QED BY <3>2
  <2>3. Position(line, path) = i
    BY <1>3, <1>4, <2>2 DEF Position
  <2>4. (slash \/ i # 1) /\ n + 1 - i = k
    BY <1>3, <2>1, <2>2
  <2>5. c[i] = Key(of, TRUE, dom, line.path)
    BY <1>2, <1>3, <2>1, <2>2, <2>4
  <2>6. line.dir = TRUE
    BY <1>4
  <2>7. Position(line, path) \in 1..(Len(path) + 1)
    BY <1>3, <2>2, <2>3
  <2>8. c[Position(line, path)] = Key(of, line.dir, dom, line.path)
    BY <2>3, <2>5, <2>6
  <2> QED BY <1>1, <2>7, <2>8, Zenon
<1>5. CASE ~line.dir
  <2>1. ~slash /\ line.path = path /\ Position(line, path) = 1 /\ line.dir = FALSE
    BY <1>5 DEF Covers, Position
  <2>2. 1 \in 1..(n + 1)
    BY <1>3
  <2> QED BY <1>1, <1>2, <1>3, <2>1, <2>2
<1> QED BY <1>4, <1>5

LEMMA PositionLine ==
  ASSUME NEW path \in Seq(STRING), NEW slash \in BOOLEAN,
         NEW line, line.path \in Seq(STRING), line.dir \in BOOLEAN,
         NEW i \in 1..(Len(path) + 1),
         ~slash /\ i = 1 => ~line.dir /\ line.path = path,
         slash \/ i # 1 => line.dir /\ line.path = SubSeq(path, 1, Len(path) + 1 - i)
  PROVE  Covers(line, path, slash) /\ Position(line, path) = i
<1>3. PICK n \in Nat : n = Len(path)
  OBVIOUS
<1>4. i \in 1..(n + 1)
  BY <1>3
<1>5. CASE ~slash /\ i = 1
  BY <1>5 DEF Covers, Position
<1>6. CASE slash \/ i # 1
  <2>1. PICK k \in 0..n : k = n + 1 - i
    BY <1>4
  <2>3. line.dir /\ line.path = SubSeq(path, 1, k)
    BY <1>3, <1>6, <2>1
  <2>4. Len(line.path) = k
    BY <1>3, <2>1, <2>3
  <2>5. Position(line, path) = i
    <3>1. Position(line, path) = n + 1 - k
      BY <1>3, <2>3, <2>4 DEF Position
    <3>2. i \in Int /\ n + 1 - k = i
      BY <1>4, <2>1
    <3> QED BY <3>1, <3>2
  <2>6. Covers(line, path, slash)
    <3>1. IF slash THEN Len(line.path) <= n ELSE Len(line.path) < n
      BY <1>4, <1>6, <2>1, <2>4
    <3>2. SubSeq(path, 1, Len(line.path)) = line.path
      BY <2>3, <2>4
    <3> QED BY <1>3, <2>3, <3>1, <3>2 DEF Covers
  <2> QED BY <2>3, <2>5, <2>6
<1> QED BY <1>5, <1>6

LEMMA PositionOf ==
  ASSUME NEW path \in Seq(STRING), NEW slash \in BOOLEAN,
         NEW line, line.path \in Seq(STRING), line.dir \in BOOLEAN, Covers(line, path, slash)
  PROVE  /\ Position(line, path) \in Nat /\ Position(line, path) >= 1
         /\ Len(path) \in Nat /\ Len(line.path) \in Nat
         /\ line.dir => /\ Position(line, path) = Len(path) + 1 - Len(line.path)
                        /\ slash \/ Position(line, path) > 1
         /\ ~line.dir => Position(line, path) = 1 /\ ~slash
<1>1. Len(path) \in Nat /\ Len(line.path) \in Nat
  OBVIOUS
<1>2. CASE line.dir
  <2>1. /\ Position(line, path) = Len(path) + 1 - Len(line.path)
        /\ IF slash THEN Len(line.path) <= Len(path) ELSE Len(line.path) < Len(path)
    BY <1>2 DEF Covers, Position
  <2>2. Len(line.path) <= Len(path) /\ (slash \/ Len(line.path) < Len(path))
    BY <1>1, <2>1
  <2>3. slash \/ Position(line, path) > 1
    <3> SUFFICES ASSUME ~slash PROVE Position(line, path) > 1
      OBVIOUS
    <3>1. Len(line.path) < Len(path)
      BY <2>2
    <3>2. PICK n \in Nat, k \in Nat : n = Len(path) /\ k = Len(line.path)
      BY <1>1
    <3>3. k < n /\ Position(line, path) = n + 1 - k
      BY <2>1, <3>1, <3>2
    <3> QED BY <3>3
  <2>4. Position(line, path) \in Nat /\ Position(line, path) >= 1
    <3>1. PICK n \in Nat, k \in Nat : n = Len(path) /\ k = Len(line.path)
      BY <1>1
    <3>2. k <= n /\ Position(line, path) = n + 1 - k
      BY <2>1, <2>2, <3>1
    <3>3. n + 1 - k \in Nat /\ n + 1 - k >= 1
      BY <3>2
    <3> QED BY <3>2, <3>3
  <2> QED BY <1>1, <1>2, <2>1, <2>3, <2>4, Zenon
<1>3. CASE ~line.dir
  BY <1>1, <1>3 DEF Covers, Position
<1> QED BY <1>2, <1>3

\* Of the lines for a path, the one that says most of it comes first in the chain.
LEMMA BestIsFirst ==
  ASSUME NEW path \in Seq(STRING), NEW slash \in BOOLEAN, NEW lines,
         \A l \in lines : l.path \in Seq(STRING) /\ l.dir \in BOOLEAN /\ Covers(l, path, slash),
         NEW first \in lines,
         \A l \in lines : Position(first, path) <= Position(l, path)
  PROVE  /\ MostSpecific(lines) \in lines
         /\ Position(MostSpecific(lines), path) = Position(first, path)
<1> DEFINE Best(l) == ~l.dir \/ \A k \in lines : k.dir /\ Len(l.path) >= Len(k.path)
<1>1. Best(first)
  <2> SUFFICES ASSUME first.dir, NEW k \in lines PROVE k.dir /\ Len(first.path) >= Len(k.path)
    OBVIOUS
  <2>1. k.dir
    <3> SUFFICES ASSUME ~k.dir PROVE FALSE
      OBVIOUS
    <3>1. Position(k, path) = 1 /\ ~slash
      BY PositionOf
    <3>2. Position(first, path) > 1 /\ Position(first, path) \in Nat
      BY <3>1, PositionOf
    <3>3. Position(first, path) <= Position(k, path)
      OBVIOUS
    <3> QED BY <3>1, <3>2, <3>3
  <2>2. Position(k, path) = Len(path) + 1 - Len(k.path) /\ Len(k.path) \in Nat
    BY <2>1, PositionOf
  <2>3. Position(first, path) = Len(path) + 1 - Len(first.path) /\ Len(first.path) \in Nat
    BY PositionOf
  <2>4. Position(first, path) <= Position(k, path) /\ Len(path) \in Nat
    OBVIOUS
  <2> QED BY <2>1, <2>2, <2>3, <2>4
<1>2. PICK b : b = MostSpecific(lines) /\ b \in lines /\ Best(b)
  BY <1>1 DEF MostSpecific
<1>3. Position(b, path) <= Position(first, path)
  <2>1. CASE ~b.dir
    BY <1>2, <2>1, PositionOf
  <2>2. CASE b.dir
    <3>1. first.dir /\ Len(b.path) >= Len(first.path)
      BY <1>2, <2>2
    <3>2. Position(b, path) = Len(path) + 1 - Len(b.path) /\ Len(b.path) \in Nat
      BY <1>2, <2>2, PositionOf
    <3>3. Position(first, path) = Len(path) + 1 - Len(first.path) /\ Len(first.path) \in Nat
      BY <3>1, PositionOf
    <3> QED BY <3>1, <3>2, <3>3
  <2> QED BY <2>1, <2>2
<1>4. Position(b, path) \in Nat /\ Position(first, path) \in Nat
  BY <1>2, PositionOf
<1>5. Position(first, path) <= Position(b, path)
  BY <1>2
<1> QED BY <1>2, <1>3, <1>4, <1>5

LEMMA LinePaths ==
  \A line \in Lines :
    line.kind = "redirect" =>
      /\ line.path \in Seq(STRING) /\ line.dir \in BOOLEAN
      /\ line.node.type \in {"redirect", "rproxy", "fastcgi", "none"}
BY ConfigAssumption, Zenon

\* The key of a line is that of its place in the chain, in the tree with what it said.
LEMMA LineFound ==
  ASSUME TypeOK, SaidHolds,
         NEW dom, NEW path \in Seq(STRING), NEW slash \in BOOLEAN,
         NEW l \in For("redirect", dom, path, slash)
  PROVE  /\ l \in Lines /\ l.kind = "redirect" /\ Covers(l, path, slash)
         /\ Position(l, path) \in 1..(Len(path) + 1)
         /\ Chain("redirect", dom, path, slash)[Position(l, path)] \in DOMAIN tree
         /\ tree[Chain("redirect", dom, path, slash)[Position(l, path)]] = l.node
<1>1. PICK s \in said :
        s.line = l /\ s.dom = dom /\ l.kind = "redirect" /\ Covers(l, path, slash)
  BY DEF For
<1>2. l \in Lines
  BY <1>1 DEF TypeOK
<1>3. l.path \in Seq(STRING) /\ l.dir \in BOOLEAN
  BY <1>1, <1>2, LinePaths
<1>4. Covers(l, path, slash)
  BY <1>1
<1>5. Position(l, path) \in 1..(Len(path) + 1)
  BY <1>3, <1>4, LinePosition
<1>6. Chain("redirect", dom, path, slash)[Position(l, path)] = Key("redirect", l.dir, dom, l.path)
  BY <1>3, <1>4, LinePosition
<1>7. UniqueKey(dom, l) = Key("redirect", l.dir, dom, l.path) /\ Value(l) = l.node
  BY <1>1 DEF UniqueKey, Value
<1>8. UniqueKey(dom, l) \in DOMAIN tree /\ tree[UniqueKey(dom, l)] = Value(l)
  BY <1>1 DEF SaidHolds, Has
<1> QED BY <1>1, <1>2, <1>5, <1>6, <1>7, <1>8, Zenon

\* A key of the chain that is in the tree is that of a line.
LEMMA FoundLine ==
  ASSUME RedirectsSaid, TypeOK,
         NEW dom, NEW path \in Seq(STRING), NEW slash \in BOOLEAN,
         NEW i \in 1..(Len(path) + 1), Chain("redirect", dom, path, slash)[i] \in DOMAIN tree
  PROVE  \E l \in For("redirect", dom, path, slash) : Position(l, path) = i
<1>1. PICK key : key = Chain("redirect", dom, path, slash)[i] /\ key \in DOMAIN tree
  BY Zenon
<1>a. ~slash /\ i = 1 => key = Key("redirect", FALSE, dom, path)
  BY <1>1, ChainFirst, Zenon
<1>b. slash \/ i # 1 => key = Key("redirect", TRUE, dom, SubSeq(path, 1, Len(path) + 1 - i))
  BY <1>1, ChainRest, Zenon
<1>2. key.of = "redirect"
  BY <1>a, <1>b DEF Key
<1>3. PICK s \in said : s.line.kind = "redirect" /\ UniqueKey(s.dom, s.line) = key
  BY <1>1, <1>2 DEF RedirectsSaid
<1>4. s.line.path \in Seq(STRING) /\ s.line.dir \in BOOLEAN
  BY <1>3, LinePaths DEF TypeOK
<1>5. UniqueKey(s.dom, s.line) = Key("redirect", s.line.dir, s.dom, s.line.path)
  BY <1>3 DEF UniqueKey
<1>6. s.dom = dom
  BY <1>a, <1>b, <1>3, <1>5 DEF Key
<1>7. /\ ~slash /\ i = 1 => ~s.line.dir /\ s.line.path = path
      /\ slash \/ i # 1 =>
           s.line.dir /\ s.line.path = SubSeq(path, 1, Len(path) + 1 - i)
  BY <1>a, <1>b, <1>3, <1>5 DEF Key
<1>8. Covers(s.line, path, slash) /\ Position(s.line, path) = i
  BY <1>4, <1>7, PositionLine
<1> QED BY <1>3, <1>6, <1>8 DEF For

\* A redirection that is found is not the one that is not.
LEMMA AnswersApart ==
  /\ NotRedirected.type = "absent"
  /\ Failed.type = "failed"
<1>1. ASSUME NEW type, NEW to PROVE [type |-> type, to |-> to].type = type
  OBVIOUS
<1>2. NotRedirected.type = "absent"
  BY <1>1, Zenon DEF NotRedirected
<1>3. Failed.type = "failed"
  BY <1>1, Zenon DEF Failed
<1> QED BY <1>2, <1>3

\* What the lines for a path make of it.
Answer(lines) ==
  IF lines = {} THEN NotRedirected
  ELSE IF MostSpecific(lines).node.type = "none" THEN Failed ELSE MostSpecific(lines).node

\* The first key of a chain that is in the tree is that of the line which says most.
LEMMA SearchIs ==
  ASSUME RedirectsSaid, TypeOK, SaidHolds,
         NEW dom, NEW path \in Seq(STRING), NEW slash \in BOOLEAN
  PROVE  /\ FirstRedirection(tree, Chain("redirect", dom, path, slash)) =
              Answer(For("redirect", dom, path, slash))
         /\ For("redirect", dom, path, slash) # {} =>
              Answer(For("redirect", dom, path, slash)) # NotRedirected
<1>1. PICK lines : lines = For("redirect", dom, path, slash)
  BY Zenon
<1>2. PICK chain : chain = Chain("redirect", dom, path, slash)
  BY Zenon
<1>3. PICK found : found = {i \in DOMAIN chain : chain[i] \in DOMAIN tree}
  OBVIOUS
<1>4. DOMAIN chain = 1..(Len(path) + 1)
  BY <1>2, ChainDomain, Zenon
<1>5. ASSUME NEW l \in lines
      PROVE  /\ l \in Lines /\ l.kind = "redirect" /\ Covers(l, path, slash)
             /\ Position(l, path) \in 1..(Len(path) + 1)
             /\ chain[Position(l, path)] \in DOMAIN tree
             /\ tree[chain[Position(l, path)]] = l.node
  BY <1>1, <1>2, LineFound, Zenon
<1>6. ASSUME NEW i \in 1..(Len(path) + 1), chain[i] \in DOMAIN tree
      PROVE  \E l \in lines : Position(l, path) = i
  <2>1. Chain("redirect", dom, path, slash)[i] \in DOMAIN tree
    BY <1>2, <1>6, Zenon
  <2>2. \E l \in For("redirect", dom, path, slash) : Position(l, path) = i
    BY <2>1, FoundLine
  <2> QED BY <1>1, <2>2, Zenon
<1>7. \A l \in lines : Position(l, path) \in found
  BY <1>3, <1>4, <1>5
<1>8. \A i \in found : \E l \in lines : Position(l, path) = i
  BY <1>3, <1>4, <1>6
<1>9. CASE lines = {}
  <2>1. found = {}
    BY <1>8, <1>9
  <2>2. FirstRedirection(tree, chain) = NotRedirected
    BY <1>3, <2>1 DEF FirstRedirection
  <2> QED BY <1>1, <1>2, <1>9, <2>2, Zenon DEF Answer
<1>10. CASE lines # {}
  <2>1. found # {} /\ found \in SUBSET Nat
    BY <1>3, <1>4, <1>7, <1>10
  <2>2. PICK m \in found : \A i \in found : m <= i
    BY <2>1, Smallest
  <2>3. m = CHOOSE i \in found : \A j \in found : i <= j
    <3>1. \A i \in found : (\A j \in found : i <= j) => i = m
      BY <2>1, <2>2
    <3> QED BY <2>2, <3>1
  <2>4. PICK first \in lines : Position(first, path) = m
    BY <1>8
  <2>5. \A l \in lines : Position(first, path) <= Position(l, path)
    BY <1>7, <2>2, <2>4
  <2>6. \A l \in lines : l.path \in Seq(STRING) /\ l.dir \in BOOLEAN /\ Covers(l, path, slash)
    BY <1>5, LinePaths
  <2>7. PICK best \in lines : best = MostSpecific(lines) /\ Position(best, path) = m
    <3>1. MostSpecific(lines) \in lines /\ Position(MostSpecific(lines), path) = Position(first, path)
      BY <2>5, <2>6, BestIsFirst
    <3> QED BY <2>4, <3>1
  <2>8. tree[chain[m]] = best.node
    BY <1>5, <2>7
  <2>9. FirstRedirection(tree, chain) = IF best.node.type = "none" THEN Failed ELSE best.node
    BY <1>3, <2>1, <2>3, <2>8, Zenon DEF FirstRedirection
  <2>10. FirstRedirection(tree, chain) = Answer(lines)
    BY <1>10, <2>7, <2>9, Zenon DEF Answer
  <2>11. best.node.type \in {"redirect", "rproxy", "fastcgi", "none"}
    BY <1>5, LinePaths
  <2>12. Answer(lines).type # "absent"
    <3>1. CASE best.node.type = "none"
      <4>1. Answer(lines) = Failed
        BY <1>10, <2>7, <3>1, Zenon DEF Answer
      <4> QED BY <4>1, AnswersApart
    <3>2. CASE best.node.type # "none"
      <4>1. Answer(lines) = best.node
        BY <1>10, <2>7, <3>2, Zenon DEF Answer
      <4> QED BY <2>11, <4>1
    <3> QED BY <3>1, <3>2
  <2>13. Answer(lines) # NotRedirected
    BY <2>12, AnswersApart
  <2> QED BY <1>1, <1>2, <2>10, <2>13, Zenon
<1> QED BY <1>9, <1>10, Zenon

LEMMA OwnPort ==
  ASSUME NEW dom \in [host : STRING, port : STRING]
  PROVE  [dom EXCEPT !.port = dom.port] = dom
OBVIOUS

LEMMA NoPort ==
  ASSUME NEW dom \in [host : STRING, port : STRING], dom.port = ""
  PROVE  AnyPort(dom) = dom
<1>1. AnyPort(dom) = [dom EXCEPT !.port = dom.port]
  BY Zenon DEF AnyPort
<1> QED BY <1>1, OwnPort, Zenon

\* What the two searches of a request find.
LEMMA RedirectionFound ==
  ASSUME RedirectsSaid, TypeOK, SaidHolds,
         NEW dom \in [host : STRING, port : STRING], NEW path \in Seq(STRING), NEW slash \in BOOLEAN
  PROVE  LET here == For("redirect", dom, path, slash)
         IN  Redirection(tree, dom, path, slash) =
               Answer(IF here # {} THEN here ELSE For("redirect", AnyPort(dom), path, slash))
<1>1. PICK here, there, first, second :
        /\ here = For("redirect", dom, path, slash)
        /\ there = For("redirect", AnyPort(dom), path, slash)
        /\ first = FirstRedirection(tree, Chain("redirect", dom, path, slash))
        /\ second = FirstRedirection(tree, Chain("redirect", AnyPort(dom), path, slash))
  BY Zenon
<1>2. first = Answer(here) /\ (here # {} => Answer(here) # NotRedirected)
  BY <1>1, SearchIs, Zenon
<1>3. second = Answer(there)
  BY <1>1, SearchIs, Zenon
<1>4. Redirection(tree, dom, path, slash) =
        IF first = NotRedirected /\ dom.port # "" THEN second ELSE first
  BY <1>1, Zenon DEF Redirection
<1>5. dom.port = "" => there = here
  BY <1>1, NoPort, Zenon
<1>6. here = {} => first = NotRedirected
  BY <1>2, Zenon DEF Answer
<1>7. Redirection(tree, dom, path, slash) = Answer(IF here # {} THEN here ELSE there)
  BY <1>2, <1>3, <1>4, <1>5, <1>6, Zenon
<1> QED BY <1>1, <1>7, Zenon

\* For any lines, of any length, and any request, the redirection that tipideed finds in
\* the new database is that of the most specific line for its host and port, or else for
\* its host, or an error if that line is a noredirect (add_unique, tipidee_conf_get_redirection).
THEOREM RedirectedAsSaid == Spec => []RedirectionIs
<1>1. Init => RedirectsSaid
  BY NoKeys DEF Init, RedirectsSaid
<1>2. IInv /\ RedirectsSaid => RedirectionIs
  <2> SUFFICES ASSUME IInv, RedirectsSaid, New, NEW r \in Requests
               PROVE  LET lines == Deciding(r)
                          node == MostSpecific(lines).node
                          result == Redirection(installed.db, r.dom, r.path, r.slash)
                      IN  IF lines = {} THEN result = NotRedirected
                          ELSE result = IF node.type = "none" THEN Failed ELSE node
    BY Zenon DEF RedirectionIs
  <2>1. installed.db = tree
    BY DEF IInv, OutputInv, New
  <2>2. r.dom \in [host : STRING, port : STRING] /\ r.path \in Seq(STRING) /\ r.slash \in BOOLEAN
    BY ConfigAssumption, Zenon
  <2>3. Redirection(installed.db, r.dom, r.path, r.slash) = Answer(Deciding(r))
    BY <2>1, <2>2, RedirectionFound, Zenon DEF Deciding, IInv
  <2> QED BY <2>3, Zenon DEF Answer
<1> QED BY <1>1, <1>2, NextSays, Inductive, PTL DEF Spec
-----------------------------------------------------------------------------
(***************************************************************************)
(* The search for attributes.  It goes through the same keys; what it has  *)
(* found after each of them, and what of that is said by which line.  The  *)
(* search is a recursive function of the number of a key: what is shown of *)
(* it for all of them is shown of a smallest one for which it would fail.  *)
(***************************************************************************)

\* What the search for ra makes of the i-th key.
Searched(db, chain, ra, i) ==
  IF ra.mask = Flags \/ chain[i] \notin DOMAIN db THEN ra ELSE Merged(ra, db[chain[i]])

\* The first n steps of a search.
Searches(db, chain, given, n, after) ==
  after = [i \in 0..n |-> IF i = 0 THEN given ELSE Searched(db, chain, after[i - 1], i)]

Search(db, chain, given, n, after) ==
  /\ after[0] = given
  /\ \A i \in 1..n : after[i] = Searched(db, chain, after[i - 1], i)

LEMMA SearchesExist ==
  ASSUME NEW db, NEW chain, NEW given, NEW n \in Nat
  PROVE  \E after : Searches(db, chain, given, n, after)
<1> DEFINE T == {k \in Nat : ~\E after : Searches(db, chain, given, k, after)}
<1> SUFFICES ASSUME T # {} PROVE FALSE
  OBVIOUS
<1>1. PICK m \in T : \A k \in T : m <= k
  BY Smallest
<1>2. m \in Nat /\ ~\E after : Searches(db, chain, given, m, after)
  OBVIOUS
<1>3. CASE m = 0
  <2> DEFINE f == [i \in 0..0 |-> given]
  <2>1. f = [i \in 0..0 |-> IF i = 0 THEN given ELSE Searched(db, chain, f[i - 1], i)]
    OBVIOUS
  <2> QED BY <1>2, <1>3, <2>1 DEF Searches
<1>4. CASE m # 0
  <2>1. m - 1 \in Nat /\ m - 1 \notin T
    BY <1>1, <1>2, <1>4
  <2>2. PICK f : Searches(db, chain, given, m - 1, f)
    BY <2>1
  <2> DEFINE g == [i \in 0..m |-> IF i = m THEN Searched(db, chain, f[m - 1], m) ELSE f[i]]
  <2>3. ASSUME NEW i \in 0..m
        PROVE  g[i] = IF i = 0 THEN given ELSE Searched(db, chain, g[i - 1], i)
    <3>1. \A k \in 0..(m - 1) : f[k] = IF k = 0 THEN given ELSE Searched(db, chain, f[k - 1], k)
      BY <2>2 DEF Searches
    <3>2. CASE i = m
      <4>1. m - 1 \in 0..m /\ m - 1 # m
        BY <1>2, <1>4
      <4>2. g[m - 1] = f[m - 1]
        BY <4>1
      <4> QED BY <1>4, <3>2, <4>2
    <3>3. CASE i # m
      <4>1. i \in 0..(m - 1)
        BY <1>2, <3>3
      <4>2. g[i] = f[i]
        BY <3>3
      <4>3. i # 0 => i - 1 \in 0..m /\ i - 1 # m
        BY <1>2, <4>1
      <4>4. i # 0 => g[i - 1] = f[i - 1]
        BY <4>3
      <4> HIDE DEF g
      <4> QED BY <3>1, <4>1, <4>2, <4>4
    <3> QED BY <3>2, <3>3
  <2>4. DOMAIN g = 0..m /\ g = [i \in 0..m |-> g[i]]
    OBVIOUS
  <2> HIDE DEF g
  <2>5. g = [i \in 0..m |-> IF i = 0 THEN given ELSE Searched(db, chain, g[i - 1], i)]
    BY <2>3, <2>4
  <2> QED BY <1>2, <2>5 DEF Searches
<1> QED BY <1>3, <1>4

LEMMA CollectedIs ==
  ASSUME NEW db, NEW chain, NEW given, Len(chain) \in Nat
  PROVE  \E after : /\ Search(db, chain, given, Len(chain), after)
                    /\ Collected(db, chain, given) = after[Len(chain)]
<1> DEFINE n == Len(chain)
           after == CHOOSE f : Searches(db, chain, given, n, f)
<1>1. Searches(db, chain, given, n, after)
  BY SearchesExist
<1>2. Collected(db, chain, given) = after[n]
  BY DEF Collected, Searches, Searched
<1>3. \A i \in 0..n : after[i] = IF i = 0 THEN given ELSE Searched(db, chain, after[i - 1], i)
  BY <1>1 DEF Searches
<1> HIDE DEF after
<1>4. after[0] = given
  BY <1>3
<1>5. \A i \in 1..n : after[i] = Searched(db, chain, after[i - 1], i)
  BY <1>3
<1> QED BY <1>2, <1>4, <1>5 DEF Search

\* Whether the i-th key of a chain names an attribute, and whether it has a type.
Names(db, chain, i, flag) == chain[i] \in DOMAIN db /\ flag \in db[chain[i]].mask
Untyped(ra) == ra.ctype = ""
SameFlag(ra, other, flag) == flag \in ra.flags <=> flag \in other.flags
SameType(ra, atom) == ra.ctype = atom.ctype
Typed(db, chain, i) == chain[i] \in DOMAIN db /\ ~Untyped(db[chain[i]])

\* What is stored under the keys of a chain.
Nodes(db, chain, n) ==
  \A i \in 1..n : chain[i] \in DOMAIN db =>
    db[chain[i]] \in Node /\ db[chain[i]].flags \subseteq db[chain[i]].mask

LEMMA MergedIs ==
  ASSUME NEW ra, NEW atom
  PROVE  /\ Merged(ra, atom).flags = ((atom.mask \cap atom.flags) \ ra.mask)
                                     \cup (ra.flags \cap (ra.mask \cup (Flags \ atom.mask)))
         /\ Merged(ra, atom).mask = ra.mask \cup atom.mask
         /\ Merged(ra, atom).ctype = IF Untyped(ra) THEN atom.ctype ELSE ra.ctype
<1>1. ASSUME NEW f, NEW m, NEW c
      PROVE  LET r == [flags |-> f, mask |-> m, ctype |-> c]
             IN  r.flags = f /\ r.mask = m /\ r.ctype = c
  OBVIOUS
<1> QED BY <1>1, Zenon DEF Merged, Untyped

LEMMA MergedIsNode ==
  ASSUME NEW ra, NEW atom,
         ra.flags \in SUBSET Flags, ra.mask \in SUBSET Flags, ra.ctype \in Types,
         atom.flags \in SUBSET Flags, atom.mask \in SUBSET Flags, atom.ctype \in Types
  PROVE  Merged(ra, atom) \in Node
<1>1. ASSUME NEW f \in SUBSET Flags, NEW m \in SUBSET Flags, NEW c \in Types
      PROVE  [flags |-> f, mask |-> m, ctype |-> c] \in Node
  BY DEF Node
<1> DEFINE f == ((atom.mask \cap atom.flags) \ ra.mask)
                \cup (ra.flags \cap (ra.mask \cup (Flags \ atom.mask)))
           m == ra.mask \cup atom.mask
           c == IF Untyped(ra) THEN atom.ctype ELSE ra.ctype
<1>2. f \in SUBSET Flags
  OBVIOUS
<1>3. m \in SUBSET Flags
  OBVIOUS
<1>4. c \in Types
  OBVIOUS
<1>5. Merged(ra, atom) = [flags |-> f, mask |-> m, ctype |-> c]
  BY Zenon DEF Merged, Untyped
<1> HIDE DEF f, m, c
<1> QED BY <1>1, <1>2, <1>3, <1>4, <1>5, Zenon

\* One step of the search (the loop of get_resattr).
LEMMA SearchedIs ==
  ASSUME NEW db, NEW chain, NEW i, NEW ra \in Node, NEW flag \in Flags,
         chain[i] \in DOMAIN db =>
           db[chain[i]] \in Node /\ db[chain[i]].flags \subseteq db[chain[i]].mask
  PROVE  LET next == Searched(db, chain, ra, i)
         IN  /\ next \in Node
             /\ flag \in next.mask <=> flag \in ra.mask \/ Names(db, chain, i, flag)
             /\ flag \in ra.mask \/ ~Names(db, chain, i, flag) =>
                  (flag \in next.flags <=> flag \in ra.flags)
             /\ flag \notin ra.mask /\ Names(db, chain, i, flag) =>
                  (flag \in next.flags <=> flag \in db[chain[i]].flags)
             /\ ~Untyped(ra) \/ ~Typed(db, chain, i) => next.ctype = ra.ctype
             /\ Untyped(ra) /\ Typed(db, chain, i) /\ ra.mask # Flags =>
                  next.ctype = db[chain[i]].ctype
<1> DEFINE next == Searched(db, chain, ra, i)
<1>1. CASE chain[i] \notin DOMAIN db
  <2>1. next = ra
    BY <1>1 DEF Searched
  <2> QED BY <1>1, <2>1 DEF Names, Typed
<1>2. CASE ra.mask = Flags
  <2>1. next = ra
    BY <1>2 DEF Searched
  <2> QED BY <1>2, <2>1 DEF Typed
<1>3. CASE chain[i] \in DOMAIN db /\ ra.mask # Flags
  <2>1. PICK atom \in Node : atom = db[chain[i]] /\ atom.flags \subseteq atom.mask
    BY <1>3
  <2>2. next = Merged(ra, atom)
    BY <1>3, <2>1 DEF Searched
  <2>3. /\ next.flags = ((atom.mask \cap atom.flags) \ ra.mask)
                        \cup (ra.flags \cap (ra.mask \cup (Flags \ atom.mask)))
        /\ next.mask = ra.mask \cup atom.mask
        /\ next.ctype = IF Untyped(ra) THEN atom.ctype ELSE ra.ctype
    <3> HIDE DEF next
    <3> QED BY <2>2, MergedIs
  <2>4. next \in Node
    <3>1. /\ ra.flags \in SUBSET Flags /\ ra.mask \in SUBSET Flags /\ ra.ctype \in Types
          /\ atom.flags \in SUBSET Flags /\ atom.mask \in SUBSET Flags /\ atom.ctype \in Types
      BY DEF Node
    <3> QED BY <2>2, <3>1, MergedIsNode
  <2>5. Names(db, chain, i, flag) <=> flag \in atom.mask
    BY <1>3, <2>1 DEF Names
  <2>6. Typed(db, chain, i) <=> ~Untyped(atom)
    BY <1>3, <2>1 DEF Typed
  <2> HIDE DEF next
  <2>7. flag \in next.mask <=> flag \in ra.mask \/ flag \in atom.mask
    BY <2>3
  <2>8. flag \in ra.mask \/ flag \notin atom.mask => (flag \in next.flags <=> flag \in ra.flags)
    BY <2>1, <2>3
  <2>9. flag \notin ra.mask /\ flag \in atom.mask => (flag \in next.flags <=> flag \in atom.flags)
    BY <2>3
  <2>10. ~Untyped(ra) \/ Untyped(atom) => next.ctype = ra.ctype
    <3>1. Untyped(ra) /\ Untyped(atom) => atom.ctype = ra.ctype
      BY Zenon DEF Untyped
    <3> QED BY <2>3, <3>1
  <2>11. Untyped(ra) => next.ctype = atom.ctype
    BY <2>3
  <2> QED BY <2>1, <2>4, <2>5, <2>6, <2>7, <2>8, <2>9, <2>10, <2>11 DEF next
<1> QED BY <1>1, <1>2, <1>3

\* What holds of a number, and of the next one whenever it holds of one.
LEMMA Climb ==
  ASSUME NEW a \in Nat, NEW b \in Nat, NEW T, a \in T,
         \A i \in Nat : a < i /\ i <= b /\ i - 1 \in T => i \in T
  PROVE  \A i \in Nat : a <= i /\ i <= b => i \in T
<1> DEFINE Missed == {i \in Nat : a <= i /\ i <= b /\ i \notin T}
<1> SUFFICES ASSUME Missed # {} PROVE FALSE
  OBVIOUS
<1>1. PICK m \in Missed : \A k \in Missed : m <= k
  BY Smallest
<1>2. m \in Nat /\ a <= m /\ m <= b /\ m \notin T
  OBVIOUS
<1>3. a < m /\ m - 1 \in Nat /\ a <= m - 1 /\ m - 1 <= b
  BY <1>2
<1>4. m - 1 \in T
  BY <1>1, <1>3
<1> QED BY <1>2, <1>3, <1>4

LEMMA SearchNodes ==
  ASSUME NEW db, NEW chain, NEW given \in Node, NEW n \in Nat, NEW after,
         Search(db, chain, given, n, after), Nodes(db, chain, n)
  PROVE  \A i \in 0..n : after[i] \in Node
<1> DEFINE T == {i \in Nat : after[i] \in Node}
<1>1. 0 \in T
  BY DEF Search
<1>2. ASSUME NEW i \in Nat, 0 < i, i <= n, i - 1 \in T PROVE i \in T
  <2>1. i \in 1..n /\ after[i - 1] \in Node
    BY <1>2
  <2>2. after[i] = Searched(db, chain, after[i - 1], i)
    BY <2>1 DEF Search
  <2>3. chain[i] \in DOMAIN db =>
          db[chain[i]] \in Node /\ db[chain[i]].flags \subseteq db[chain[i]].mask
    BY <2>1 DEF Nodes
  <2>4. "cgi" \in Flags
    BY LookupAssumption
  <2>5. Searched(db, chain, after[i - 1], i) \in Node
    BY <2>1, <2>3, <2>4, SearchedIs, Zenon
  <2> QED BY <2>2, <2>5
<1> HIDE DEF T
<1>3. \A i \in Nat : 0 <= i /\ i <= n => i \in T
  BY <1>1, <1>2, Climb
<1> QED BY <1>3 DEF T

\* A step of a whole search.
LEMMA SearchStep ==
  ASSUME NEW db, NEW chain, NEW given \in Node, NEW n \in Nat, NEW after,
         Search(db, chain, given, n, after), Nodes(db, chain, n),
         NEW flag \in Flags, NEW i \in 1..n
  PROVE  /\ flag \in after[i].mask <=> flag \in after[i - 1].mask \/ Names(db, chain, i, flag)
         /\ flag \in after[i - 1].mask \/ ~Names(db, chain, i, flag) =>
              (flag \in after[i].flags <=> flag \in after[i - 1].flags)
         /\ flag \notin after[i - 1].mask /\ Names(db, chain, i, flag) =>
              (flag \in after[i].flags <=> flag \in db[chain[i]].flags)
<1>1. i - 1 \in 0..n
  OBVIOUS
<1>2. after[i - 1] \in Node
  BY <1>1, SearchNodes
<1>3. after[i] = Searched(db, chain, after[i - 1], i)
  BY DEF Search
<1>4. chain[i] \in DOMAIN db =>
        db[chain[i]] \in Node /\ db[chain[i]].flags \subseteq db[chain[i]].mask
  BY DEF Nodes
<1>5. PICK ra, next : ra \in Node /\ ra = after[i - 1] /\ next = after[i]
  BY <1>2
<1>6. next = Searched(db, chain, ra, i)
  BY <1>3, <1>5, Zenon
<1> QED BY <1>4, <1>5, <1>6, SearchedIs

LEMMA TypeStep ==
  ASSUME NEW db, NEW chain, NEW given \in Node, NEW n \in Nat, NEW after,
         Search(db, chain, given, n, after), Nodes(db, chain, n), NEW i \in 1..n
  PROVE  /\ ~Untyped(after[i - 1]) => SameType(after[i], after[i - 1])
         /\ ~Typed(db, chain, i) => SameType(after[i], after[i - 1])
         /\ Untyped(after[i - 1]) /\ Typed(db, chain, i) /\ after[i - 1].mask # Flags =>
              SameType(after[i], db[chain[i]])
<1>1. PICK ra, next : ra = after[i - 1] /\ next = after[i]
  OBVIOUS
<1>2. next = Searched(db, chain, ra, i)
  BY <1>1 DEF Search
<1>3. CASE chain[i] \notin DOMAIN db
  <2>1. next = ra
    BY <1>2, <1>3 DEF Searched
  <2> QED BY <1>1, <1>3, <2>1, Zenon DEF Typed, SameType
<1>4. CASE ra.mask = Flags
  <2>1. next = ra
    BY <1>2, <1>4 DEF Searched
  <2> QED BY <1>1, <1>4, <2>1, Zenon DEF SameType
<1>5. CASE chain[i] \in DOMAIN db /\ ra.mask # Flags
  <2>1. next = Merged(ra, db[chain[i]])
    BY <1>2, <1>5 DEF Searched
  <2>2. next.ctype = IF Untyped(ra) THEN db[chain[i]].ctype ELSE ra.ctype
    BY <2>1, MergedIs
  <2>3. Untyped(ra) /\ ~Typed(db, chain, i) => db[chain[i]].ctype = ra.ctype
    BY <1>5, Zenon DEF Typed, Untyped
  <2> QED BY <1>1, <2>2, <2>3 DEF SameType
<1> QED BY <1>3, <1>4, <1>5

\* What is known after i keys is what they name.
LEMMA KnownIs ==
  ASSUME NEW db, NEW chain, NEW given \in Node, NEW n \in Nat, NEW after,
         Search(db, chain, given, n, after), Nodes(db, chain, n), given.mask = {},
         NEW flag \in Flags
  PROVE  \A i \in 0..n : flag \in after[i].mask <=> \E j \in 1..i : Names(db, chain, j, flag)
<1> DEFINE T == {i \in Nat : flag \in after[i].mask <=> \E j \in 1..i : Names(db, chain, j, flag)}
<1>1. 0 \in T
  <2>1. flag \notin after[0].mask
    BY DEF Search
  <2>2. ~\E j \in 1..0 : Names(db, chain, j, flag)
    OBVIOUS
  <2> QED BY <2>1, <2>2
<1>2. ASSUME NEW i \in Nat, 0 < i, i <= n, i - 1 \in T PROVE i \in T
  <2>1. i \in 1..n
    BY <1>2
  <2>2. flag \in after[i].mask <=> flag \in after[i - 1].mask \/ Names(db, chain, i, flag)
    BY <2>1, SearchStep, Zenon
  <2>3. flag \in after[i - 1].mask <=> \E j \in 1..(i - 1) : Names(db, chain, j, flag)
    BY <1>2
  <2>4. 1..i = 1..(i - 1) \cup {i}
    BY <1>2
  <2>5. flag \in after[i].mask <=> \E j \in 1..i : Names(db, chain, j, flag)
    BY <2>2, <2>3, <2>4, Zenon
  <2> QED BY <2>5
<1> HIDE DEF T
<1>3. \A i \in Nat : 0 <= i /\ i <= n => i \in T
  BY <1>1, <1>2, Climb
<1> QED BY <1>3 DEF T

\* An attribute that no key names is as it was given.
LEMMA GivenIs ==
  ASSUME NEW db, NEW chain, NEW given \in Node, NEW n \in Nat, NEW after,
         Search(db, chain, given, n, after), Nodes(db, chain, n),
         NEW flag \in Flags, \A j \in 1..n : ~Names(db, chain, j, flag)
  PROVE  SameFlag(after[n], given, flag)
<1> DEFINE T == {i \in Nat : flag \in after[i].flags <=> flag \in given.flags}
<1>1. 0 \in T
  BY DEF Search
<1>2. ASSUME NEW i \in Nat, 0 < i, i <= n, i - 1 \in T PROVE i \in T
  <2>1. i \in 1..n
    BY <1>2
  <2>2. flag \in after[i].flags <=> flag \in after[i - 1].flags
    BY <2>1, SearchStep, Zenon
  <2> QED BY <1>2, <2>2
<1> HIDE DEF T
<1>3. n \in T
  BY <1>1, <1>2, Climb
<1> QED BY <1>3 DEF T, SameFlag

\* An attribute is as the first key that names it says.
LEMMA NamedIs ==
  ASSUME NEW db, NEW chain, NEW given \in Node, NEW n \in Nat, NEW after,
         Search(db, chain, given, n, after), Nodes(db, chain, n), given.mask = {},
         NEW flag \in Flags, NEW m \in 1..n, Names(db, chain, m, flag),
         \A j \in 1..n : Names(db, chain, j, flag) => m <= j
  PROVE  flag \in after[n].flags <=> flag \in db[chain[m]].flags
<1> DEFINE T == {i \in Nat : flag \in after[i].flags <=> flag \in db[chain[m]].flags}
<1>1. m \in T
  <2>1. flag \notin after[m - 1].mask
    <3>1. m - 1 \in 0..n
      OBVIOUS
    <3>2. \A j \in 1..(m - 1) : ~Names(db, chain, j, flag)
      OBVIOUS
    <3> QED BY <3>1, <3>2, KnownIs
  <2>2. flag \in after[m].flags <=> flag \in db[chain[m]].flags
    BY <2>1, SearchStep, Zenon
  <2> QED BY <2>2
<1>2. ASSUME NEW i \in Nat, m < i, i <= n, i - 1 \in T PROVE i \in T
  <2>1. i \in 1..n /\ i - 1 \in 0..n /\ m \in 1..(i - 1)
    BY <1>2
  <2>2. flag \in after[i - 1].mask
    BY <2>1, KnownIs
  <2>3. flag \in after[i].flags <=> flag \in after[i - 1].flags
    BY <2>1, <2>2, SearchStep, Zenon
  <2> QED BY <1>2, <2>3
<1> HIDE DEF T
<1>3. n \in T
  <2>1. m \in Nat /\ m <= n
    OBVIOUS
  <2> QED BY <1>1, <1>2, <2>1, Climb
<1> QED BY <1>3 DEF T

\* There is no type when no key has one.
LEMMA NoTypeIs ==
  ASSUME NEW db, NEW chain, NEW given \in Node, NEW n \in Nat, NEW after,
         Search(db, chain, given, n, after), Nodes(db, chain, n), Untyped(given),
         NEW m \in 0..n, \A j \in 1..m : ~Typed(db, chain, j)
  PROVE  Untyped(after[m])
<1>a. \A k \in 1..n : ~Typed(db, chain, k) => SameType(after[k], after[k - 1])
  <2> TAKE k \in 1..n
  <2> QED BY TypeStep
<1> DEFINE T == {i \in Nat : Untyped(after[i])}
<1>1. 0 \in T
  BY DEF Search
<1>2. ASSUME NEW i \in Nat, 0 < i, i <= m, i - 1 \in T PROVE i \in T
  <2>1. i \in 1..n /\ ~Typed(db, chain, i)
    BY <1>2
  <2>3. SameType(after[i], after[i - 1])
    BY <1>a, <2>1
  <2>4. Untyped(after[i - 1])
    BY <1>2
  <2>5. Untyped(after[i])
    BY <2>3, <2>4, Zenon DEF Untyped, SameType
  <2> QED BY <2>5
<1> HIDE DEF T
<1>3. m \in T
  BY <1>1, <1>2, Climb
<1> QED BY <1>3 DEF T

\* The type is that of the first key that has one, if the search goes so far.
LEMMA TypeIs ==
  ASSUME NEW db, NEW chain, NEW given \in Node, NEW n \in Nat, NEW after,
         Search(db, chain, given, n, after), Nodes(db, chain, n), Untyped(given),
         NEW m \in 1..n, Typed(db, chain, m), \A j \in 1..n : Typed(db, chain, j) => m <= j,
         after[m - 1].mask # Flags
  PROVE  SameType(after[n], db[chain[m]])
<1>a. \A k \in 1..n : ~Untyped(after[k - 1]) => SameType(after[k], after[k - 1])
  <2> TAKE k \in 1..n
  <2> QED BY TypeStep
<1> DEFINE T == {i \in Nat : SameType(after[i], db[chain[m]])}
<1>0. ~Untyped(db[chain[m]])
  BY DEF Typed
<1>1. m \in T
  <2>1. m - 1 \in 0..n /\ \A j \in 1..(m - 1) : ~Typed(db, chain, j)
    OBVIOUS
  <2>2. Untyped(after[m - 1])
    BY <2>1, NoTypeIs
  <2>3. SameType(after[m], db[chain[m]])
    BY <1>0, <2>2, TypeStep
  <2> QED BY <2>3
<1>2. ASSUME NEW i \in Nat, m < i, i <= n, i - 1 \in T PROVE i \in T
  <2>1. i \in 1..n
    BY <1>2
  <2>2. SameType(after[i - 1], db[chain[m]])
    BY <1>2
  <2>a. ~Untyped(after[i - 1])
    BY <1>0, <2>2, Zenon DEF Untyped, SameType
  <2>3. SameType(after[i], after[i - 1])
    BY <1>a, <2>1, <2>a
  <2> QED BY <2>2, <2>3 DEF SameType
<1> HIDE DEF T
<1>3. n \in T
  <2>1. m \in Nat /\ m <= n
    OBVIOUS
  <2> QED BY <1>1, <1>2, <2>1, Climb
<1> QED BY <1>3 DEF T

-----------------------------------------------------------------------------
(* Every attribute and every type of the tree was said. *)

SaysFlag(ss, key, flag) ==
  \E s \in ss :
    s.line.kind = "attribute" /\ s.line.flag = flag /\ AttributeKey(s.dom, s.line) = key

SaysType(ss, key) ==
  \E s \in ss : s.line.kind = "file-type" /\ AttributeKey(s.dom, s.line) = key

NodeSaid(ss, key, node) ==
  /\ \A flag \in node.mask : SaysFlag(ss, key, flag)
  /\ ~Untyped(node) => SaysType(ss, key)

AttributesSaid ==
  \A key \in DOMAIN tree : key.of = "attribute" => NodeSaid(said, key, tree[key])

\* More lines say no less.
LEMMA NodeStaysSaid ==
  ASSUME NEW ss, NEW more, ss \subseteq more, NEW key, NEW node, NodeSaid(ss, key, node)
  PROVE  NodeSaid(more, key, node)
BY DEF NodeSaid, SaysFlag, SaysType

LEMMA AttributesGrow ==
  ASSUME AttributesSaid, said \subseteq said',
         \A key \in DOMAIN tree' :
           key.of = "attribute" =>
             \/ key \in DOMAIN tree /\ tree'[key] = tree[key]
             \/ NodeSaid(said', key, tree'[key])
  PROVE  AttributesSaid'
<1> SUFFICES ASSUME NEW key \in DOMAIN tree', key.of = "attribute"
             PROVE  NodeSaid(said', key, tree'[key])
  BY DEF AttributesSaid, NodeSaid, SaysFlag, SaysType, AttributeKey
<1>1. CASE key \in DOMAIN tree /\ tree'[key] = tree[key]
  <2>1. NodeSaid(said, key, tree[key])
    BY <1>1 DEF AttributesSaid
  <2> QED BY <1>1, <2>1, NodeStaysSaid
<1>2. CASE NodeSaid(said', key, tree'[key])
  BY <1>2
<1> QED BY <1>1, <1>2

LEMMA TreeWith ==
  ASSUME NEW key, NEW node, tree' = With(tree, key, node)
  PROVE  /\ DOMAIN tree' = DOMAIN tree \cup {key} /\ tree'[key] = node
         /\ \A k \in DOMAIN tree : k # key => tree'[k] = tree[k]
<1>1. PICK new : new = With(tree, key, node)
  OBVIOUS
<1>2. /\ DOMAIN new = DOMAIN tree \cup {key} /\ new[key] = node
      /\ \A k \in DOMAIN tree : k # key => new[k] = tree[k]
  BY <1>1 DEF With
<1>3. tree' = new
  BY <1>1
<1> QED BY <1>2, <1>3

\* What a line for attributes or types makes of the node that it finds.
LEMMA UpdateSays ==
  ASSUME AttributesSaid, NEW line, NEW node, Update(line, node), Accept(line),
         \A flag \in node.mask :
           flag \in OldNode(line).mask \/ (line.kind = "attribute" /\ line.flag = flag),
         Untyped(node) \/ SameType(node, OldNode(line)) \/ line.kind = "file-type"
  PROVE  AttributesSaid'
<1> DEFINE a == AttributeKey(domain, line)
           s0 == [dom |-> domain, line |-> line]
<1>1. s0 \in said' /\ s0.line = line /\ s0.dom = domain /\ said \subseteq said'
  BY DEF Accept
<1>2. /\ DOMAIN tree' = DOMAIN tree \cup {a} /\ tree'[a] = node
      /\ \A k \in DOMAIN tree : k # a => tree'[k] = tree[k]
  <2>1. tree' = With(tree, a, node)
    BY DEF Update
  <2> HIDE DEF a
  <2> QED BY <2>1, TreeWith
<1>3. AttributeKey(s0.dom, s0.line) = a
  BY <1>1
<1>4. NodeSaid(said, a, OldNode(line))
  <2>1. CASE a \in DOMAIN tree
    <3>1. OldNode(line) = tree[a]
      BY <2>1 DEF OldNode
    <3>2. a.of = "attribute"
      BY KeyOf DEF AttributeKey
    <3> HIDE DEF a
    <3> QED BY <2>1, <3>1, <3>2 DEF AttributesSaid
  <2>2. CASE a \notin DOMAIN tree
    <3>1. OldNode(line) = NewNode
      BY <2>2 DEF OldNode
    <3>2. NewNode.mask = {} /\ Untyped(NewNode)
      <4>1. ASSUME NEW f, NEW m, NEW c
            PROVE  LET r == [flags |-> f, mask |-> m, ctype |-> c]
                   IN  r.mask = m /\ r.ctype = c
        OBVIOUS
      <4>2. NewNode.mask = {}
        BY <4>1, Zenon DEF NewNode
      <4>3. Untyped(NewNode)
        BY <4>1, Zenon DEF NewNode, Untyped
      <4> QED BY <4>2, <4>3
    <3> QED BY <3>1, <3>2 DEF NodeSaid
  <2> QED BY <2>1, <2>2
<1> HIDE DEF a, s0
<1>5. NodeSaid(said', a, node)
  <2>1. NodeSaid(said', a, OldNode(line))
    BY <1>1, <1>4, NodeStaysSaid
  <2>2. ASSUME NEW flag \in node.mask PROVE SaysFlag(said', a, flag)
    <3>1. CASE flag \in OldNode(line).mask
      BY <2>1, <3>1 DEF NodeSaid
    <3>2. CASE line.kind = "attribute" /\ line.flag = flag
      BY <1>1, <1>3, <3>2 DEF SaysFlag
    <3> QED BY <3>1, <3>2
  <2>3. ASSUME ~Untyped(node) PROVE SaysType(said', a)
    <3>1. CASE SameType(node, OldNode(line))
      <4>1. ~Untyped(OldNode(line))
        BY <2>3, <3>1, Zenon DEF Untyped, SameType
      <4> QED BY <2>1, <4>1 DEF NodeSaid
    <3>2. CASE line.kind = "file-type"
      BY <1>1, <1>3, <3>2 DEF SaysType
    <3> QED BY <2>3, <3>1, <3>2
  <2> QED BY <2>2, <2>3 DEF NodeSaid
<1>6. ASSUME NEW key \in DOMAIN tree', key.of = "attribute"
      PROVE  \/ key \in DOMAIN tree /\ tree'[key] = tree[key]
             \/ NodeSaid(said', key, tree'[key])
  BY <1>2, <1>5
<1> QED BY <1>1, <1>6, AttributesGrow

\* The directives that make a node for attributes or types (parse_bitattr,
\* parse_filetype), and those that do not.
LEMMA LineSaysAttributes ==
  ASSUME AttributesSaid, NEW line \in Lines, ProcessLine(line)
  PROVE  AttributesSaid'
<1>1. ASSUME NEW f, NEW m, NEW c
      PROVE  LET r == [flags |-> f, mask |-> m, ctype |-> c]
             IN  r.mask = m /\ r.ctype = c
  OBVIOUS
<1>2. ASSUME tree' = tree, said \subseteq said' PROVE AttributesSaid'
  BY <1>2, AttributesGrow
<1>3. CASE Refuse
  BY <1>2, <1>3 DEF Refuse
<1>4. CASE Unique(line)
  <2>1. /\ line.kind \in Valued \cup {"redirect"}
        /\ DOMAIN tree' = DOMAIN tree \cup {UniqueKey(domain, line)}
        /\ \A k \in DOMAIN tree : k # UniqueKey(domain, line) => tree'[k] = tree[k]
        /\ said \subseteq said'
    <3>1. tree' = With(tree, UniqueKey(domain, line), Value(line))
      BY <1>4 DEF Unique
    <3>2. line.kind \in Valued \cup {"redirect"} /\ said \subseteq said'
      BY <1>4 DEF Unique, Accept
    <3> QED BY <3>1, <3>2, TreeWith
  <2>2. UniqueKey(domain, line).of # "attribute"
    BY <2>1, KeysApart
  <2> QED BY <2>1, <2>2, AttributesGrow
<1>5. CASE Attribute(line)
  <2> DEFINE old == OldNode(line)
             flags == IF line.on THEN old.flags \cup {line.flag} ELSE old.flags \ {line.flag}
             mask == old.mask \cup {line.flag}
             node == [flags |-> flags, mask |-> mask, ctype |-> old.ctype]
  <2>1. CASE Update(line, node) /\ Accept(line) /\ line.kind = "attribute"
    <3>1. node.mask = mask /\ SameType(node, old)
      <4> HIDE DEF flags, mask, old
      <4> QED BY <1>1 DEF SameType
    <3>2. \A flag \in node.mask :
            flag \in OldNode(line).mask \/ (line.kind = "attribute" /\ line.flag = flag)
      <4>1. line.kind = "attribute"
        BY <2>1
      <4> HIDE DEF node
      <4>2. node.mask = OldNode(line).mask \cup {line.flag}
        BY <3>1
      <4> QED BY <4>1, <4>2
    <3> HIDE DEF node
    <3> QED BY <2>1, <3>1, <3>2, UpdateSays, Zenon
  <2> QED BY <1>3, <1>5, <2>1 DEF Attribute
<1>6. CASE FileType(line)
  <2> DEFINE old == OldNode(line)
             node == [flags |-> old.flags, mask |-> old.mask, ctype |-> line.ctype]
  <2>1. CASE Update(line, node) /\ Accept(line) /\ line.kind = "file-type"
    <3>1. node.mask = old.mask
      <4> HIDE DEF old
      <4> QED BY <1>1
    <3>2. \A flag \in node.mask :
            flag \in OldNode(line).mask \/ (line.kind = "attribute" /\ line.flag = flag)
      <4> HIDE DEF node
      <4>1. node.mask = OldNode(line).mask
        BY <3>1
      <4> QED BY <4>1
    <3> HIDE DEF node
    <3> QED BY <2>1, <3>2, UpdateSays, Zenon
  <2> QED BY <1>3, <1>6, <2>1 DEF FileType
<1>7. CASE CustomHeader(line) \/ Domain(line) \/ Duplicate(line)
  BY <1>2, <1>7 DEF CustomHeader, Domain, Duplicate, Refuse, Accept
<1> QED BY <1>3, <1>4, <1>5, <1>6, <1>7 DEF ProcessLine

LEMMA NextSaysAttributes == AttributesSaid /\ [Next]_vars => AttributesSaid'
<1> SUFFICES ASSUME AttributesSaid, [Next]_vars PROVE AttributesSaid'
  OBVIOUS
<1>1. CASE ReadLine
  BY <1>1, LineSaysAttributes DEF ReadLine
<1>2. CASE FinishHeaders
  <2>1. /\ DOMAIN tree' = DOMAIN tree \cup {HeadersKey} /\ said' = said
        /\ \A k \in DOMAIN tree : k # HeadersKey => tree'[k] = tree[k]
    <3>1. tree' = With(tree, HeadersKey, headers') /\ said' = said
      BY <1>2 DEF FinishHeaders
    <3> QED BY <3>1, TreeWith
  <2>2. HeadersKey.of # "attribute"
    BY DEF HeadersKey, Key
  <2> QED BY <2>1, <2>2, AttributesGrow
<1>3. CASE AddDefaults
  <2>1. /\ DOMAIN tree' = DOMAIN tree \cup DOMAIN Defaults /\ said' = said
        /\ \A k \in DOMAIN tree : tree'[k] = tree[k]
    BY <1>3, CompletedKeeps DEF AddDefaults
  <2>2. \A key \in DOMAIN Defaults : key.of # "attribute"
    BY ConfigAssumption
  <2> QED BY <2>1, <2>2, AttributesGrow
<1>4. CASE UNCHANGED <<tree, said>>
  BY <1>4, AttributesGrow
<1> QED BY <1>1, <1>2, <1>3, <1>4
        DEF Next, Main, ConfOutput, Create, WriteAll, OutputFails, Rename, Exit, PreprocessorEnds,
            SigchldHandler, Killed, vars, parsed

-----------------------------------------------------------------------------
(* The lines for a file, and what the search finds of them. *)

LEMMA AttributeLines ==
  \A line \in Lines :
    line.kind \in {"attribute", "file-type"} =>
      /\ line.path \in Seq(STRING) /\ line.dir \in BOOLEAN
      /\ line.kind = "attribute" => line.flag \in Flags /\ line.on \in BOOLEAN
      /\ line.kind = "file-type" => ~Untyped(line)
<1> SUFFICES ASSUME NEW line \in Lines, line.kind \in {"attribute", "file-type"}
             PROVE  /\ line.path \in Seq(STRING) /\ line.dir \in BOOLEAN
                    /\ line.kind = "attribute" => line.flag \in Flags /\ line.on \in BOOLEAN
                    /\ line.kind = "file-type" => ~Untyped(line)
  BY Zenon
<1>1. line.path \in Seq(STRING) /\ line.dir \in BOOLEAN
  BY ConfigAssumption, Zenon
<1>2. line.kind = "attribute" => line.flag \in Flags /\ line.on \in BOOLEAN
  BY ConfigAssumption, Zenon
<1>3. line.kind = "file-type" => ~Untyped(line)
  BY ConfigAssumption, Zenon DEF Untyped
<1> QED BY <1>1, <1>2, <1>3, Zenon

\* The search for a file: its keys, and the lines for it.
FileKeys(dom, path) == Chain("attribute", dom, path, FALSE)
FileLines(kind, dom, path) == For(kind, dom, path, FALSE)
OfFile(line, path) == Covers(line, path, FALSE)

LEMMA FileChain ==
  ASSUME NEW dom, NEW path \in Seq(STRING), NEW i \in 1..(Len(path) + 1)
  PROVE  /\ i = 1 => FileKeys(dom, path)[i] = Key("attribute", FALSE, dom, path)
         /\ i # 1 => FileKeys(dom, path)[i] =
                       Key("attribute", TRUE, dom, SubSeq(path, 1, Len(path) + 1 - i))
<1>1. PICK slash \in BOOLEAN : slash = FALSE
  OBVIOUS
<1>2. FileKeys(dom, path) = Chain("attribute", dom, path, slash)
  BY <1>1, Zenon DEF FileKeys
<1>3. ~slash
  BY <1>1
<1>4. Chain("attribute", dom, path, slash)[1] = Key("attribute", FALSE, dom, path)
  BY <1>3, ChainFirst, Zenon
<1>5. i # 1 => Chain("attribute", dom, path, slash)[i] =
                 Key("attribute", TRUE, dom, SubSeq(path, 1, Len(path) + 1 - i))
  BY ChainRest, Zenon
<1> QED BY <1>2, <1>4, <1>5, Zenon

LEMMA ChainOf ==
  ASSUME NEW dom, NEW path \in Seq(STRING), NEW i \in 1..(Len(path) + 1)
  PROVE  FileKeys(dom, path)[i].of = "attribute"
<1>1. PICK key : key = FileKeys(dom, path)[i]
  BY Zenon
<1>2. i = 1 => key = Key("attribute", FALSE, dom, path)
  BY <1>1, FileChain, Zenon
<1>3. i # 1 => key = Key("attribute", TRUE, dom, SubSeq(path, 1, Len(path) + 1 - i))
  BY <1>1, FileChain, Zenon
<1>4. key.of = "attribute"
  BY <1>2, <1>3 DEF Key
<1> QED BY <1>1, <1>4

LEMMA ChainNodes ==
  ASSUME TypeOK, NEW dom, NEW path \in Seq(STRING)
  PROVE  Nodes(tree, FileKeys(dom, path), Len(path) + 1)
<1>1. PICK chain : chain = FileKeys(dom, path)
  BY Zenon
<1>2. \A i \in 1..(Len(path) + 1) : chain[i].of = "attribute"
  <2> TAKE i \in 1..(Len(path) + 1)
  <2> QED BY <1>1, ChainOf, Zenon
<1>3. Nodes(tree, chain, Len(path) + 1)
  BY <1>2 DEF Nodes, TypeOK
<1> QED BY <1>1, <1>3, Zenon

LEMMA FilePosition ==
  ASSUME NEW dom, NEW path \in Seq(STRING),
         NEW line, line.path \in Seq(STRING), line.dir \in BOOLEAN, OfFile(line, path)
  PROVE  /\ Position(line, path) \in 1..(Len(path) + 1)
         /\ FileKeys(dom, path)[Position(line, path)] = Key("attribute", line.dir, dom, line.path)
<1>1. PICK slash \in BOOLEAN : slash = FALSE
  OBVIOUS
<1>2. Covers(line, path, slash)
  BY <1>1, Zenon DEF OfFile
<1>3. /\ Position(line, path) \in 1..(Len(path) + 1)
      /\ Chain("attribute", dom, path, slash)[Position(line, path)] =
           Key("attribute", line.dir, dom, line.path)
  BY <1>2, LinePosition
<1> QED BY <1>1, <1>3, Zenon DEF FileKeys

LEMMA BestIsFirstOfFile ==
  ASSUME NEW path \in Seq(STRING), NEW lines,
         \A l \in lines : l.path \in Seq(STRING) /\ l.dir \in BOOLEAN /\ OfFile(l, path),
         NEW first \in lines,
         \A l \in lines : Position(first, path) <= Position(l, path)
  PROVE  /\ MostSpecific(lines) \in lines
         /\ Position(MostSpecific(lines), path) = Position(first, path)
<1>1. PICK slash \in BOOLEAN : slash = FALSE
  OBVIOUS
<1>2. \A l \in lines : Covers(l, path, slash)
  BY <1>1, Zenon DEF OfFile
<1> QED BY <1>2, BestIsFirst

\* What comes earlier in the chain says more of the path.
LEMMA Closer ==
  ASSUME NEW path \in Seq(STRING),
         NEW l, l.path \in Seq(STRING), l.dir \in BOOLEAN, OfFile(l, path),
         NEW best, best.path \in Seq(STRING), best.dir \in BOOLEAN, OfFile(best, path),
         Position(l, path) < Position(best, path)
  PROVE  best.dir /\ (~l.dir \/ Len(l.path) > Len(best.path))
<1>1. PICK slash \in BOOLEAN : slash = FALSE
  OBVIOUS
<1>2. Covers(l, path, slash) /\ Covers(best, path, slash)
  BY <1>1, Zenon DEF OfFile
<1>3. /\ Position(l, path) \in Nat /\ Position(l, path) >= 1 /\ Len(l.path) \in Nat
      /\ l.dir => Position(l, path) = Len(path) + 1 - Len(l.path)
  BY <1>2, PositionOf
<1>4. /\ Position(best, path) \in Nat /\ Len(path) \in Nat /\ Len(best.path) \in Nat
      /\ best.dir => Position(best, path) = Len(path) + 1 - Len(best.path)
      /\ ~best.dir => Position(best, path) = 1
  BY <1>2, PositionOf
<1>5. best.dir
  BY <1>3, <1>4
<1>6. PICK a \in Nat, b \in Nat, n \in Nat : a = Len(l.path) /\ b = Len(best.path) /\ n = Len(path)
  BY <1>3, <1>4
<1>7. l.dir => n + 1 - a < n + 1 - b
  BY <1>3, <1>4, <1>5, <1>6
<1>8. l.dir => a > b
  BY <1>7
<1> QED BY <1>5, <1>6, <1>8

LEMMA FilePlace ==
  ASSUME NEW path \in Seq(STRING), NEW line, line.path \in Seq(STRING), line.dir \in BOOLEAN,
         NEW i \in 1..(Len(path) + 1),
         i = 1 => line.dir = FALSE /\ line.path = path,
         i # 1 => line.dir = TRUE /\ line.path = SubSeq(path, 1, Len(path) + 1 - i)
  PROVE  OfFile(line, path) /\ Position(line, path) = i
<1>1. PICK slash \in BOOLEAN : slash = FALSE
  OBVIOUS
<1>2. ~slash
  BY <1>1
<1>3. Covers(line, path, slash) /\ Position(line, path) = i
  BY <1>2, PositionLine
<1> QED BY <1>1, <1>3, Zenon DEF OfFile

\* A line has its place in the chain, where the tree has what it said.
LEMMA AttributeLineFound ==
  ASSUME TypeOK, SaidHolds, NEW dom, NEW path \in Seq(STRING),
         NEW kind \in {"attribute", "file-type"}, NEW l \in FileLines(kind, dom, path)
  PROVE  LET chain == FileKeys(dom, path)
             m == Position(l, path)
         IN  /\ l \in Lines /\ l.kind = kind /\ OfFile(l, path)
             /\ m \in 1..(Len(path) + 1)
             /\ kind = "attribute" =>
                  /\ Names(tree, chain, m, l.flag)
                  /\ l.flag \in tree[chain[m]].flags <=> l.on
             /\ kind = "file-type" => Typed(tree, chain, m) /\ SameType(tree[chain[m]], l)
<1>1. PICK s \in said : s.line = l /\ s.dom = dom /\ l.kind = kind /\ OfFile(l, path)
  BY Zenon DEF FileLines, For, OfFile
<1>2. l \in Lines
  BY <1>1 DEF TypeOK
<1>3. l.path \in Seq(STRING) /\ l.dir \in BOOLEAN
  BY <1>1, <1>2, AttributeLines
<1>4. PICK m, key : m = Position(l, path) /\ key = FileKeys(dom, path)[m]
  OBVIOUS
<1>5. m \in 1..(Len(path) + 1)
  BY <1>1, <1>3, <1>4, FilePosition
<1>6. key = Key("attribute", l.dir, dom, l.path)
  BY <1>1, <1>3, <1>4, FilePosition
<1>7. key = AttributeKey(dom, l)
  BY <1>6, Zenon DEF AttributeKey
<1>8. Has(tree, headers, s)
  BY DEF SaidHolds
<1>9. kind = "attribute" =>
        key \in DOMAIN tree /\ l.flag \in tree[key].mask /\ (l.flag \in tree[key].flags <=> l.on)
  BY <1>1, <1>7, <1>8, Zenon DEF Has
<1>10. kind = "file-type" => key \in DOMAIN tree /\ SameType(tree[key], l)
  BY <1>1, <1>7, <1>8, Zenon DEF Has, SameType
<1>11. kind = "file-type" => ~Untyped(l)
  BY <1>1, <1>2, AttributeLines
<1>12. kind = "file-type" => ~Untyped(tree[key])
  BY <1>10, <1>11, Zenon DEF Untyped, SameType
<1> QED BY <1>1, <1>2, <1>4, <1>5, <1>9, <1>10, <1>12, Zenon DEF Names, Typed

\* A line that was said for a key of the chain is for the file, and in its place.
LEMMA LineOfKey ==
  ASSUME TypeOK, NEW dom, NEW path \in Seq(STRING), NEW kind \in {"attribute", "file-type"},
         NEW i \in 1..(Len(path) + 1), NEW s \in said, s.line.kind = kind,
         NEW key, key = AttributeKey(s.dom, s.line), key = FileKeys(dom, path)[i]
  PROVE  s.line \in FileLines(kind, dom, path) /\ Position(s.line, path) = i
<1>1. s.line.path \in Seq(STRING) /\ s.line.dir \in BOOLEAN
  BY AttributeLines DEF TypeOK
<1>2. key = Key("attribute", s.line.dir, s.dom, s.line.path)
  BY Zenon DEF AttributeKey
<1>3. i = 1 => key = Key("attribute", FALSE, dom, path)
  BY FileChain, Zenon
<1>4. i # 1 => key = Key("attribute", TRUE, dom, SubSeq(path, 1, Len(path) + 1 - i))
  BY FileChain, Zenon
<1>5. s.dom = dom
  BY <1>2, <1>3, <1>4 DEF Key
<1>6. /\ i = 1 => s.line.dir = FALSE /\ s.line.path = path
      /\ i # 1 => s.line.dir = TRUE /\ s.line.path = SubSeq(path, 1, Len(path) + 1 - i)
  BY <1>2, <1>3, <1>4 DEF Key
<1>7. OfFile(s.line, path) /\ Position(s.line, path) = i
  BY <1>1, <1>6, FilePlace
<1> QED BY <1>5, <1>7 DEF FileLines, For, OfFile

LEMMA NamedByLine ==
  ASSUME TypeOK, AttributesSaid, NEW dom, NEW path \in Seq(STRING), NEW flag,
         NEW i \in 1..(Len(path) + 1), Names(tree, FileKeys(dom, path), i, flag)
  PROVE  \E l \in FileLines("attribute", dom, path) : l.flag = flag /\ Position(l, path) = i
<1>1. PICK key : key = FileKeys(dom, path)[i]
  BY Zenon
<1>2. key \in DOMAIN tree /\ flag \in tree[key].mask
  BY <1>1, Zenon DEF Names
<1>3. key.of = "attribute"
  BY <1>1, ChainOf, Zenon
<1>4. PICK s \in said :
        s.line.kind = "attribute" /\ s.line.flag = flag /\ AttributeKey(s.dom, s.line) = key
  BY <1>2, <1>3, Zenon DEF AttributesSaid, NodeSaid, SaysFlag
<1>a. "attribute" \in {"attribute", "file-type"}
  OBVIOUS
<1>b. key = AttributeKey(s.dom, s.line)
  BY <1>4
<1>5. s.line \in FileLines("attribute", dom, path) /\ Position(s.line, path) = i
  BY <1>1, <1>4, <1>a, <1>b, LineOfKey
<1> QED BY <1>4, <1>5

LEMMA TypedByLine ==
  ASSUME TypeOK, AttributesSaid, NEW dom, NEW path \in Seq(STRING),
         NEW i \in 1..(Len(path) + 1), Typed(tree, FileKeys(dom, path), i)
  PROVE  \E l \in FileLines("file-type", dom, path) : Position(l, path) = i
<1>1. PICK key : key = FileKeys(dom, path)[i]
  BY Zenon
<1>2. key \in DOMAIN tree /\ ~Untyped(tree[key])
  BY <1>1, Zenon DEF Typed
<1>3. key.of = "attribute"
  BY <1>1, ChainOf, Zenon
<1>4. PICK s \in said : s.line.kind = "file-type" /\ AttributeKey(s.dom, s.line) = key
  BY <1>2, <1>3, Zenon DEF AttributesSaid, NodeSaid, SaysType
<1>a. "file-type" \in {"attribute", "file-type"}
  OBVIOUS
<1>b. key = AttributeKey(s.dom, s.line)
  BY <1>4
<1>5. s.line \in FileLines("file-type", dom, path) /\ Position(s.line, path) = i
  BY <1>1, <1>4, <1>a, <1>b, LineOfKey
<1> QED BY <1>5

\* The search for a file, in a tree, has as many steps as there are keys.
LEMMA FileSearch ==
  ASSUME TypeOK, NEW dom, NEW path \in Seq(STRING), NEW given \in Node
  PROVE  /\ Nodes(tree, FileKeys(dom, path), Len(path) + 1)
         /\ Len(path) + 1 \in Nat
         /\ \E after : /\ Search(tree, FileKeys(dom, path), given, Len(path) + 1, after)
                       /\ Collected(tree, FileKeys(dom, path), given) = after[Len(path) + 1]
<1>1. PICK slash \in BOOLEAN : slash = FALSE
  OBVIOUS
<1>2. Len(Chain("attribute", dom, path, slash)) = Len(path) + 1
  BY ChainLength, Zenon
<1>3. Len(FileKeys(dom, path)) = Len(path) + 1
  BY <1>1, <1>2, Zenon DEF FileKeys
<1>4. Len(path) + 1 \in Nat
  OBVIOUS
<1>5. PICK chain : chain = FileKeys(dom, path)
  BY Zenon
<1>6. Len(chain) = Len(path) + 1
  BY <1>3, <1>5
<1>7. \E after : /\ Search(tree, chain, given, Len(path) + 1, after)
                 /\ Collected(tree, chain, given) = after[Len(path) + 1]
  BY <1>4, <1>6, CollectedIs
<1> QED BY <1>4, <1>5, <1>7, ChainNodes, Zenon

LEMMA FoundIsNode ==
  ASSUME TypeOK, NEW dom, NEW path \in Seq(STRING), NEW given \in Node
  PROVE  Collected(tree, FileKeys(dom, path), given) \in Node
<1>1. PICK n \in Nat : n = Len(path) + 1 /\ Nodes(tree, FileKeys(dom, path), n)
  BY FileSearch
<1>2. PICK after : /\ Search(tree, FileKeys(dom, path), given, n, after)
                   /\ Collected(tree, FileKeys(dom, path), given) = after[n]
  BY <1>1, FileSearch
<1>3. n \in 0..n
  OBVIOUS
<1> QED BY <1>1, <1>2, <1>3, SearchNodes

\* An attribute is what the most specific line that names it says, or as it was given.
LEMMA FlagFound ==
  ASSUME TypeOK, SaidHolds, AttributesSaid, NEW dom, NEW path \in Seq(STRING),
         NEW given \in Node, given.mask = {}, NEW flag \in Flags,
         NEW lines, lines = {l \in FileLines("attribute", dom, path) : l.flag = flag}
  PROVE  flag \in Collected(tree, FileKeys(dom, path), given).flags <=>
           IF lines = {} THEN flag \in given.flags ELSE MostSpecific(lines).on
<1>1. PICK chain : chain = FileKeys(dom, path)
  BY Zenon
<1>2. PICK n \in Nat : n = Len(path) + 1 /\ Nodes(tree, chain, n)
  BY <1>1, FileSearch
<1>3. PICK after : Search(tree, chain, given, n, after) /\ Collected(tree, chain, given) = after[n]
  BY <1>1, <1>2, FileSearch
<1>4. ASSUME NEW l \in lines
      PROVE  /\ l \in Lines /\ l.kind = "attribute" /\ OfFile(l, path)
             /\ Position(l, path) \in 1..n
             /\ Names(tree, chain, Position(l, path), flag)
             /\ flag \in tree[chain[Position(l, path)]].flags <=> l.on
  <2>1. l \in FileLines("attribute", dom, path) /\ l.flag = flag
    OBVIOUS
  <2>2. "attribute" \in {"attribute", "file-type"}
    OBVIOUS
  <2>3. /\ l \in Lines /\ l.kind = "attribute" /\ OfFile(l, path)
        /\ Position(l, path) \in 1..(Len(path) + 1)
        /\ Names(tree, FileKeys(dom, path), Position(l, path), l.flag)
        /\ l.flag \in tree[FileKeys(dom, path)[Position(l, path)]].flags <=> l.on
    BY <2>1, <2>2, AttributeLineFound, Zenon
  <2> QED BY <1>1, <1>2, <2>1, <2>3, Zenon
<1>5. ASSUME NEW i \in 1..n, Names(tree, chain, i, flag)
      PROVE  \E l \in lines : Position(l, path) = i
  <2>1. \E l \in FileLines("attribute", dom, path) : l.flag = flag /\ Position(l, path) = i
    BY <1>1, <1>2, <1>5, NamedByLine
  <2> QED BY <2>1
<1>6. CASE lines = {}
  <2>1. \A j \in 1..n : ~Names(tree, chain, j, flag)
    BY <1>5, <1>6
  <2>2. SameFlag(after[n], given, flag)
    BY <1>2, <1>3, <2>1, GivenIs
  <2> QED BY <1>1, <1>3, <1>6, <2>2, Zenon DEF SameFlag
<1>7. CASE lines # {}
  <2> DEFINE named == {i \in 1..n : Names(tree, chain, i, flag)}
  <2>1. named # {} /\ named \in SUBSET Nat
    BY <1>4, <1>7
  <2>2. PICK m \in named : \A i \in named : m <= i
    BY <2>1, Smallest
  <2>3. PICK first \in lines : Position(first, path) = m
    BY <1>5, <2>2
  <2>4. \A l \in lines : Position(first, path) <= Position(l, path)
    BY <1>4, <2>2, <2>3
  <2>5. \A l \in lines : l.path \in Seq(STRING) /\ l.dir \in BOOLEAN /\ OfFile(l, path)
    BY <1>4, AttributeLines
  <2>6. MostSpecific(lines) \in lines /\ Position(MostSpecific(lines), path) = m
    BY <2>3, <2>4, <2>5, BestIsFirstOfFile
  <2>7. flag \in tree[chain[m]].flags <=> MostSpecific(lines).on
    BY <1>4, <2>6
  <2>8. flag \in after[n].flags <=> flag \in tree[chain[m]].flags
    BY <1>2, <1>3, <2>2, NamedIs
  <2> QED BY <1>1, <1>3, <1>7, <2>7, <2>8, Zenon
<1> QED BY <1>6, <1>7

TypeOfLines(found, types, best, closer) ==
  IF types = {} THEN Untyped(found)
  ELSE /\ ~Untyped(best)
       /\ {l.flag : l \in closer} # Flags => SameType(found, best)

\* The type is that of the most specific file-type, unless more specific lines name all
\* the attributes.
LEMMA TypeFound ==
  ASSUME TypeOK, SaidHolds, AttributesSaid, NEW dom, NEW path \in Seq(STRING),
         NEW given \in Node, given.mask = {}, Untyped(given),
         NEW types, types = FileLines("file-type", dom, path),
         NEW best, best = MostSpecific(types),
         NEW closer, closer = {l \in FileLines("attribute", dom, path) :
                                 best.dir /\ (~l.dir \/ Len(l.path) > Len(best.path))},
         NEW found, found = Collected(tree, FileKeys(dom, path), given)
  PROVE  TypeOfLines(found, types, best, closer)
<1>1. PICK chain : chain = FileKeys(dom, path)
  BY Zenon
<1>2. PICK n \in Nat : n = Len(path) + 1 /\ Nodes(tree, chain, n)
  BY <1>1, FileSearch
<1>3. PICK after : Search(tree, chain, given, n, after) /\ found = after[n]
  BY <1>1, <1>2, FileSearch
<1>4. ASSUME NEW l \in types
      PROVE  /\ l \in Lines /\ l.kind = "file-type" /\ OfFile(l, path)
             /\ Position(l, path) \in 1..n
             /\ Typed(tree, chain, Position(l, path))
             /\ SameType(tree[chain[Position(l, path)]], l)
  <2>1. "file-type" \in {"attribute", "file-type"}
    OBVIOUS
  <2>2. /\ l \in Lines /\ l.kind = "file-type" /\ OfFile(l, path)
        /\ Position(l, path) \in 1..(Len(path) + 1)
        /\ Typed(tree, FileKeys(dom, path), Position(l, path))
        /\ SameType(tree[FileKeys(dom, path)[Position(l, path)]], l)
    BY <2>1, AttributeLineFound, Zenon
  <2> QED BY <1>1, <1>2, <2>2, Zenon
<1>5. ASSUME NEW i \in 1..n, Typed(tree, chain, i)
      PROVE  \E l \in types : Position(l, path) = i
  BY <1>1, <1>2, <1>5, TypedByLine
<1>6. CASE types = {}
  <2>1. n \in 0..n /\ \A j \in 1..n : ~Typed(tree, chain, j)
    BY <1>5, <1>6
  <2>2. Untyped(after[n])
    BY <1>2, <1>3, <2>1, NoTypeIs
  <2> QED BY <1>1, <1>3, <1>6, <2>2, Zenon DEF TypeOfLines
<1>7. CASE types # {}
  <2> DEFINE typed == {i \in 1..n : Typed(tree, chain, i)}
  <2>1. typed # {} /\ typed \in SUBSET Nat
    BY <1>4, <1>7
  <2>2. PICK m \in typed : \A i \in typed : m <= i
    BY <2>1, Smallest
  <2>3. PICK first \in types : Position(first, path) = m
    BY <1>5, <2>2
  <2>4. \A l \in types : Position(first, path) <= Position(l, path)
    BY <1>4, <2>2, <2>3
  <2>5. \A l \in types :
          l.path \in Seq(STRING) /\ l.dir \in BOOLEAN /\ OfFile(l, path) /\ ~Untyped(l)
    BY <1>4, AttributeLines
  <2>6. best \in types /\ Position(best, path) = m
    BY <2>3, <2>4, <2>5, BestIsFirstOfFile
  <2>7. ~Untyped(best) /\ SameType(tree[chain[m]], best)
    BY <1>4, <2>5, <2>6
  <2>8. ASSUME after[m - 1].mask = Flags PROVE {l.flag : l \in closer} = Flags
    <3>1. ASSUME NEW flag \in Flags PROVE \E l \in closer : l.flag = flag
      <4>1. m - 1 \in 0..n /\ m \in 1..n
        BY <2>2
      <4>2. PICK j \in 1..(m - 1) : Names(tree, chain, j, flag)
        BY <1>2, <1>3, <2>8, <4>1, KnownIs
      <4>3. j \in 1..(Len(path) + 1) /\ j < m
        BY <1>2, <4>1
      <4>4. PICK l \in FileLines("attribute", dom, path) : l.flag = flag /\ Position(l, path) = j
        BY <1>1, <4>2, <4>3, NamedByLine
      <4>5. best.dir /\ (~l.dir \/ Len(l.path) > Len(best.path))
        <5>1. "attribute" \in {"attribute", "file-type"}
          OBVIOUS
        <5>2. l \in Lines /\ l.kind = "attribute" /\ OfFile(l, path)
          BY <5>1, AttributeLineFound, Zenon
        <5>3. l.path \in Seq(STRING) /\ l.dir \in BOOLEAN
          BY <5>2, AttributeLines
        <5>4. best.path \in Seq(STRING) /\ best.dir \in BOOLEAN /\ OfFile(best, path)
          BY <2>5, <2>6
        <5> QED BY <2>6, <4>3, <4>4, <5>2, <5>3, <5>4, Closer
      <4> QED BY <4>4, <4>5
    <3>2. ASSUME NEW l \in closer PROVE l.flag \in Flags
      <4>1. "attribute" \in {"attribute", "file-type"} /\ l \in FileLines("attribute", dom, path)
        OBVIOUS
      <4>2. l \in Lines /\ l.kind = "attribute"
        BY <4>1, AttributeLineFound, Zenon
      <4> QED BY <4>2, AttributeLines
    <3> QED BY <3>1, <3>2
  <2>9. after[m - 1].mask # Flags => SameType(after[n], tree[chain[m]])
    BY <1>2, <1>3, <2>2, TypeIs
  <2>10. {l.flag : l \in closer} # Flags => SameType(found, best)
    BY <1>3, <2>7, <2>8, <2>9 DEF SameType
  <2> QED BY <1>1, <1>3, <1>7, <2>7, <2>10, Zenon DEF TypeOfLines
<1> QED BY <1>6, <1>7

\* What the end of the search makes of what it found: nph-prefix, and the type by the
\* extension (tipidee_conf_get_resattr).
LEMMA AttributesIs ==
  ASSUME NEW db, NEW dom, NEW path, NEW given,
         NEW found, found \in Node, found = Collected(db, FileKeys(dom, path), given),
         NEW result, result = Attributes(db, dom, path, given)
  PROVE  /\ \A flag \in Flags \ {"basic-auth"} : flag \in result.flags <=> flag \in found.flags
         /\ ~Untyped(found) => SameType(result, found)
         /\ "cgi" \notin result.flags /\ Untyped(found) =>
              result.ctype = ByExtension(db, path[Len(path)])
<1>1. PICK prefix, name : prefix = Key("nph-prefix", FALSE, dom, <<>>) /\ name = path[Len(path)]
  BY Zenon
<1>2. PICK all :
        all = IF "nph" \in found.mask \/ prefix \notin DOMAIN db
              THEN found
              ELSE WithPrefix(found, name \in Starts[db[prefix]])
  BY Zenon
<1>3. result = IF "cgi" \in all.flags \/ ~Untyped(all)
               THEN all
               ELSE [all EXCEPT !.ctype = ByExtension(db, name)]
  BY <1>1, <1>2, Zenon DEF Attributes, FileKeys, Untyped
<1>4. /\ all \in [flags : SUBSET (Flags \cup {"basic-auth"}), mask : SUBSET (Flags \cup {"basic-auth"}),
                  ctype : Types]
      /\ \A flag \in Flags \ {"basic-auth"} : flag \in all.flags <=> flag \in found.flags
      /\ all.ctype = found.ctype
  <2>1. CASE all = found
    BY <2>1 DEF Node
  <2>2. CASE all = WithPrefix(found, name \in Starts[db[prefix]])
    BY <2>2 DEF Node, WithPrefix
  <2> QED BY <1>2, <2>1, <2>2, Zenon
<1>5. Untyped(all) <=> Untyped(found)
  BY <1>4, Zenon DEF Untyped
<1>6. CASE "cgi" \in all.flags \/ ~Untyped(all)
  <2>1. result = all
    BY <1>3, <1>6, Zenon
  <2> QED BY <1>4, <1>5, <1>6, <2>1 DEF SameType
<1>7. CASE "cgi" \notin all.flags /\ Untyped(all)
  <2>1. result = [all EXCEPT !.ctype = ByExtension(db, name)]
    BY <1>3, <1>7, Zenon
  <2>2. result.flags = all.flags /\ result.ctype = ByExtension(db, name)
    BY <1>4, <2>1
  <2> QED BY <1>1, <1>4, <1>5, <1>7, <2>2
<1> QED BY <1>6, <1>7

LEMMA GivenIsNode ==
  ASSUME NEW r
  PROVE  /\ Given(r) \in Node /\ Given(r).mask = {} /\ Untyped(Given(r))
<1>1. ASSUME NEW f \in SUBSET Flags, NEW m \in SUBSET Flags, NEW c \in Types
      PROVE  [flags |-> f, mask |-> m, ctype |-> c] \in Node
  BY DEF Node
<1>2. ASSUME NEW f, NEW m, NEW c
      PROVE  /\ [flags |-> f, mask |-> m, ctype |-> c].mask = m
             /\ [flags |-> f, mask |-> m, ctype |-> c].ctype = c
  OBVIOUS
<1> DEFINE f == IF r.executable THEN {"cgi"} ELSE {}
<1>3. f \in SUBSET Flags /\ {} \in SUBSET Flags
  BY LookupAssumption
<1>4. "" \in Types
  BY Zenon DEF Types
<1>5. Given(r) = [flags |-> f, mask |-> {}, ctype |-> ""]
  BY Zenon DEF Given
<1> HIDE DEF f
<1>6. Given(r) \in Node
  BY <1>1, <1>3, <1>4, <1>5, Zenon
<1>a. PICK m, c : m = {} /\ c = ""
  BY Zenon
<1>b. Given(r) = [flags |-> f, mask |-> m, ctype |-> c]
  BY <1>5, <1>a, Zenon
<1>c. Given(r).mask = m /\ Given(r).ctype = c
  BY <1>2, <1>b
<1>7. Given(r).mask = {}
  BY <1>a, <1>c, Zenon
<1>8. Untyped(Given(r))
  BY <1>a, <1>c, Zenon DEF Untyped
<1> QED BY <1>6, <1>7, <1>8

\* For any lines and any request, what tipideed finds in the new database of a file's
\* attributes and of its type is what the most specific lines say of them
\* (parse_bitattr, parse_filetype, tipidee_conf_get_resattr).
THEOREM AttributesAsSaid == Spec => []AttributesAre
<1>1. Init => AttributesSaid
  BY NoKeys DEF Init, AttributesSaid
<1>2. IInv /\ AttributesSaid => AttributesAre
  <2> SUFFICES ASSUME IInv, AttributesSaid, New, NEW r \in FileRequests
               PROVE  /\ \A flag \in Flags \ {"basic-auth"} :
                           LET lines == {l \in For("attribute", r.dom, r.path, FALSE) : l.flag = flag}
                           IN  flag \in Result(r).flags <=>
                                 IF lines = {} THEN flag \in Given(r).flags ELSE MostSpecific(lines).on
                      /\ LET types == For("file-type", r.dom, r.path, FALSE)
                             best == MostSpecific(types)
                             closer == {l \in For("attribute", r.dom, r.path, FALSE) :
                                          best.dir /\ (~l.dir \/ Len(l.path) > Len(best.path))}
                             result == Result(r)
                         IN  "cgi" \notin result.flags =>
                               IF types = {}
                               THEN result.ctype = ByExtension(installed.db, r.path[Len(r.path)])
                               ELSE {l.flag : l \in closer} # Flags => result.ctype = best.ctype
    BY Zenon DEF AttributesAre, FlagsAre, TypesAre
  <2>1. installed.db = tree /\ TypeOK /\ SaidHolds
    BY DEF IInv, OutputInv, New
  <2>2. r.path \in Seq(STRING)
    BY ConfigAssumption, Zenon DEF FileRequests
  <2>3. PICK given, found, result, dom, path :
          /\ given = Given(r) /\ dom = r.dom /\ path = r.path
          /\ found = Collected(tree, FileKeys(dom, path), given)
          /\ result = Attributes(tree, dom, path, given)
    BY Zenon
  <2>4. given \in Node /\ given.mask = {} /\ Untyped(given) /\ path \in Seq(STRING)
    BY <2>2, <2>3, GivenIsNode, Zenon
  <2>5. Result(r) = result
    BY <2>1, <2>3, Zenon DEF Result
  <2>6. found \in Node
    BY <2>1, <2>3, <2>4, FoundIsNode
  <2>7. /\ \A flag \in Flags \ {"basic-auth"} : flag \in result.flags <=> flag \in found.flags
        /\ ~Untyped(found) => SameType(result, found)
        /\ "cgi" \notin result.flags /\ Untyped(found) =>
             result.ctype = ByExtension(tree, path[Len(path)])
    BY <2>3, <2>6, AttributesIs
  <2>8. ASSUME NEW flag \in Flags \ {"basic-auth"}
        PROVE  LET lines == {l \in For("attribute", r.dom, r.path, FALSE) : l.flag = flag}
               IN  flag \in Result(r).flags <=>
                     IF lines = {} THEN flag \in Given(r).flags ELSE MostSpecific(lines).on
    <3>1. PICK lines : lines = {l \in FileLines("attribute", dom, path) : l.flag = flag}
      OBVIOUS
    <3>2. flag \in found.flags <=> IF lines = {} THEN flag \in given.flags ELSE MostSpecific(lines).on
      BY <2>1, <2>3, <2>4, <3>1, FlagFound
    <3>3. flag \in result.flags <=> flag \in found.flags
      BY <2>7
    <3>4. lines = {l \in For("attribute", r.dom, r.path, FALSE) : l.flag = flag}
      BY <2>3, <3>1, Zenon DEF FileLines
    <3>5. flag \in Result(r).flags <=>
            IF lines = {} THEN flag \in Given(r).flags ELSE MostSpecific(lines).on
      BY <2>3, <2>5, <3>2, <3>3, Zenon
    <3> QED BY <3>4, <3>5, Zenon
  <2>9. LET types == For("file-type", r.dom, r.path, FALSE)
            best == MostSpecific(types)
            closer == {l \in For("attribute", r.dom, r.path, FALSE) :
                         best.dir /\ (~l.dir \/ Len(l.path) > Len(best.path))}
            result0 == Result(r)
        IN  "cgi" \notin result0.flags =>
              IF types = {}
              THEN result0.ctype = ByExtension(installed.db, r.path[Len(r.path)])
              ELSE {l.flag : l \in closer} # Flags => result0.ctype = best.ctype
    <3>1. PICK types, best :
            types = FileLines("file-type", dom, path) /\ best = MostSpecific(types)
      BY Zenon
    <3>2. PICK closer : closer = {l \in FileLines("attribute", dom, path) :
                                    best.dir /\ (~l.dir \/ Len(l.path) > Len(best.path))}
      OBVIOUS
    <3>3. TypeOfLines(found, types, best, closer)
      BY <2>1, <2>3, <2>4, <3>1, <3>2, TypeFound
    <3>4. "cgi" \notin result.flags =>
            IF types = {} THEN result.ctype = ByExtension(tree, path[Len(path)])
            ELSE {l.flag : l \in closer} # Flags => result.ctype = best.ctype
      <4>1. ASSUME ~Untyped(best), SameType(found, best) PROVE result.ctype = best.ctype
        <5>1. ~Untyped(found)
          BY <4>1, Zenon DEF Untyped, SameType
        <5> QED BY <2>7, <4>1, <5>1, Zenon DEF SameType
      <4> QED BY <2>7, <3>3, <4>1, Zenon DEF TypeOfLines
    <3>5. /\ types = For("file-type", r.dom, r.path, FALSE)
          /\ closer = {l \in For("attribute", r.dom, r.path, FALSE) :
                         best.dir /\ (~l.dir \/ Len(l.path) > Len(best.path))}
      BY <2>3, <3>1, <3>2, Zenon DEF FileLines
    <3> QED BY <2>1, <2>3, <2>5, <3>1, <3>4, <3>5, Zenon
  <2> QED BY <2>8, <2>9, Zenon
<1> QED BY <1>1, <1>2, NextSaysAttributes, Inductive, PTL DEF Spec

\* For any lines and any request, all that tipideed finds in the new database is what the
\* lines for it say (tipidee_conf_get_redirection, tipidee_conf_get_resattr).
THEOREM LookupsAsSaid == Spec => []FoundAsSaid
<1>1. RedirectionIs /\ AttributesAre => FoundAsSaid
  BY DEF FoundAsSaid
<1> QED BY <1>1, RedirectedAsSaid, AttributesAsSaid, PTL
================================================================================
