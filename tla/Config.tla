-------------------------------- MODULE Config --------------------------------
(***************************************************************************)
(* tipidee-config: it reads the lines of a configuration from a            *)
(* preprocessor, keeps what they say in a tree, adds the defaults, and     *)
(* puts a database in the place of the one that is installed.  The         *)
(* preprocessor is a child, whose end a signal handler sees.               *)
(***************************************************************************)
EXTENDS Lookup

CONSTANTS
  Lines,      \* the lines that a configuration may have
  MaxLines,   \* how many it has at most
  Canonical,  \* the name of a header, from what is written
  Locked,     \* the response headers that cannot be customized
  Builtin,    \* the ones that are always there, from names to values
  Defaults,   \* what conf_defaults() adds, from keys to values
  Old,        \* the database that is installed
  Unset,      \* no value
  Requests    \* what tipideed asks of a database

(***************************************************************************)
(* What a line has, by its kind:                                           *)
(*   malformed      nothing: the arguments are not what they should be     *)
(*   domain         dom, what is left without the slashes and dots at its  *)
(*                  end                                                    *)
(*   redirect       path, dir, node, also for rproxy, fastcgi, noredirect  *)
(*   attribute      path, dir, flag and whether it is on                   *)
(*   file-type      path, dir, ctype                                       *)
(*   nph-prefix, custom-response, content-type, global                     *)
(*                  name, which may be "", and value                       *)
(*   custom-header  name, value                                            *)
(* "global" is for the directives log and index-file, too; a content-type  *)
(* of several extensions is several lines.                                 *)
(***************************************************************************)
Valued == {"nph-prefix", "custom-response", "content-type", "global"}
Local == {"redirect", "attribute", "file-type", "nph-prefix", "custom-response"}
Kinds == {"malformed", "domain", "custom-header"} \cup Valued \cup Local

ASSUME ConfigAssumption ==
  /\ \A line \in Lines : line.kind \in Kinds
  /\ \A line \in Lines : line.kind = "attribute" => line.flag \in Flags /\ line.on \in BOOLEAN
  /\ \A line \in Lines : line.kind = "file-type" => line.ctype # ""
  /\ \A line \in Lines : line.kind \in {"redirect", "attribute", "file-type"} =>
       line.path \in Seq(STRING) /\ line.dir \in BOOLEAN
  /\ \A line \in Lines : line.kind = "redirect" =>
       line.node.type \in {"redirect", "rproxy", "fastcgi", "none"}
  /\ \A r \in Requests :
       r.dom \in [host : STRING, port : STRING] /\ r.path \in Seq(STRING) /\ r.slash \in BOOLEAN
  /\ MaxLines \in Nat
  /\ \A key \in DOMAIN Defaults : key.of \in {"global", "content-type"}

VARIABLES
  pc,         \* what tipidee-config does
  code,       \* its exit code, 0 until it ends
  preprocessor,  \* "running", "ok" or "failed"
  reaped,     \* the handler has seen its end
  count,      \* how many lines were read
  domain,     \* the current one, or Unset
  tree,       \* conftree
  headers,    \* the response headers, from names to values
  temporary,  \* what the new file holds: "none", "partial" or "whole"
  installed,  \* the database that tipideed opens
  said        \* the lines that were accepted, each with its domain

progress == <<pc, code>>
child == <<preprocessor, reaped>>
parsed == <<count, domain, tree, headers, said>>
output == <<temporary, installed>>
vars == <<progress, child, parsed, output>>

Over == pc \in {"done", "died", "killed"}

\* A database with a node more, or in the place of another.
With(db, key, node) == [k \in DOMAIN db \cup {key} |-> IF k = key THEN node ELSE db[k]]

\* A database, and what another has besides.
Completed(db, more) ==
  [k \in DOMAIN db \cup DOMAIN more |-> IF k \in DOMAIN db THEN db[k] ELSE more[k]]

Die(status) == pc' = "died" /\ code' = status

-----------------------------------------------------------------------------
(* One line: conftree_checkunique() and what the directives add. *)

GoOn == UNCHANGED progress
Accept(line) == GoOn /\ said' = said \cup {[dom |-> domain, line |-> line]}
Refuse == Die(1) /\ UNCHANGED <<domain, tree, headers, said>>

\* The key of a line that may be there once.
UniqueKey(dom, line) ==
  CASE line.kind = "redirect" -> Key("redirect", line.dir, dom, line.path)
    [] line.kind = "nph-prefix" -> Key("nph-prefix", FALSE, dom, <<>>)
    [] line.kind = "custom-response" -> Key("custom-response", FALSE, dom, <<line.name>>)
    [] OTHER -> Key(line.kind, FALSE, NoDomain, <<line.name>>)

Value(line) == IF line.kind = "redirect" THEN line.node ELSE line.value

Unique_Replaced(line) ==
  /\ line.kind \in Valued \cup {"redirect"}
  /\ tree' = With(tree, UniqueKey(domain, line), Value(line))
  /\ Accept(line)
  /\ UNCHANGED <<domain, headers>>

\* add_unique(), make_redirect_node()
Unique(line) ==
  /\ line.kind \in Valued \cup {"redirect"}
  /\ UniqueKey(domain, line) \notin DOMAIN tree
  /\ tree' = With(tree, UniqueKey(domain, line), Value(line))
  /\ Accept(line)
  /\ UNCHANGED <<domain, headers>>

Duplicate(line) ==
  /\ line.kind \in Valued \cup {"redirect"}
  /\ UniqueKey(domain, line) \in DOMAIN tree
  /\ Refuse

AttributeKey(dom, line) == Key("attribute", line.dir, dom, line.path)
NewNode == [flags |-> {}, mask |-> {}, ctype |-> ""]
OldNode(line) ==
  LET key == AttributeKey(domain, line)
  IN  IF key \in DOMAIN tree THEN tree[key] ELSE NewNode
Update(line, node) == tree' = With(tree, AttributeKey(domain, line), node)

Attribute_MaskKept(line) ==
  /\ line.kind = "attribute"
  /\ LET old == OldNode(line)
     IN  \/ /\ line.flag \in old.mask
            /\ Refuse
         \/ /\ line.flag \notin old.mask
            /\ Update(line,
                 [flags |-> IF line.on THEN old.flags \cup {line.flag} ELSE old.flags \ {line.flag},
                  mask |-> old.mask,
                  ctype |-> old.ctype])
            /\ Accept(line)
            /\ UNCHANGED <<domain, headers>>

\* parse_bitattr(): a node has the attributes that the lines for it name.
Attribute(line) ==
  /\ line.kind = "attribute"
  /\ LET old == OldNode(line)
     IN  \/ /\ line.flag \in old.mask
            /\ Refuse
         \/ /\ line.flag \notin old.mask
            /\ Update(line,
                 [flags |-> IF line.on THEN old.flags \cup {line.flag} ELSE old.flags \ {line.flag},
                  mask |-> old.mask \cup {line.flag},
                  ctype |-> old.ctype])
            /\ Accept(line)
            /\ UNCHANGED <<domain, headers>>

FileType_Fresh(line) ==
  /\ line.kind = "file-type"
  /\ LET old == OldNode(line)
     IN  \/ /\ old.flags \cap {"cgi", "nph"} # {} \/ old.ctype # ""
            /\ Refuse
         \/ /\ old.flags \cap {"cgi", "nph"} = {} /\ old.ctype = ""
            /\ Update(line, [flags |-> {}, mask |-> {}, ctype |-> line.ctype])
            /\ Accept(line)
            /\ UNCHANGED <<domain, headers>>

\* parse_filetype(): not for what is known to be a script.  The attributes of the
\* node are copied into the one that takes its place, out of a storage that may
\* move meanwhile: if what is left of the old one cannot be read, the process is
\* Killed.
FileType(line) ==
  /\ line.kind = "file-type"
  /\ LET old == OldNode(line)
     IN  \/ /\ old.flags \cap {"cgi", "nph"} # {} \/ old.ctype # ""
            /\ Refuse
         \/ /\ old.flags \cap {"cgi", "nph"} = {} /\ old.ctype = ""
            /\ Update(line, [flags |-> old.flags, mask |-> old.mask, ctype |-> line.ctype])
            /\ Accept(line)
            /\ UNCHANGED <<domain, headers>>

\* parse_customheader()
CustomHeader(line) ==
  /\ line.kind = "custom-header"
  /\ \/ /\ Canonical[line.name] \in Locked \cup DOMAIN headers
        /\ Refuse
     \/ /\ Canonical[line.name] \notin Locked \cup DOMAIN headers
        /\ headers' = With(headers, Canonical[line.name], line.value)
        /\ Accept(line)
        /\ UNCHANGED <<domain, tree>>

Domain(line) ==
  /\ line.kind = "domain"
  /\ domain' = line.dom
  /\ GoOn
  /\ UNCHANGED <<tree, headers, said>>

\* process_line(): the local directives need a domain.
ProcessLine(line) ==
  IF line.kind = "malformed" \/ (line.kind \in Local /\ domain = Unset)
  THEN Refuse
  ELSE \/ Domain(line) \/ Unique(line) \/ Duplicate(line)
       \/ Attribute(line) \/ FileType(line) \/ CustomHeader(line)

\* The pipe still holds lines when the preprocessor has ended.
ReadLine ==
  /\ pc = "parse" /\ count < MaxLines
  /\ count' = count + 1
  /\ \E line \in Lines : ProcessLine(line)
  /\ UNCHANGED <<child, output>>

-----------------------------------------------------------------------------
(* The end of the lines, and the output. *)

HeadersKey == Key("response-headers", FALSE, NoDomain, <<>>)

\* headers_finish(): what is customized takes the place of what is built in.
FinishHeaders ==
  /\ pc = "parse" /\ preprocessor # "running"
  /\ headers' = Completed(headers, Builtin)
  /\ tree' = With(tree, HeadersKey, headers')
  /\ pc' = "defaults"
  /\ UNCHANGED <<code, child, count, domain, said, output>>

AddDefaults_Forced ==
  /\ pc = "defaults"
  /\ tree' = Completed(Defaults, tree)
  /\ pc' = "create"
  /\ UNCHANGED <<code, child, count, domain, headers, said, output>>

\* conf_defaults()
AddDefaults ==
  /\ pc = "defaults"
  /\ tree' = Completed(tree, Defaults)
  /\ pc' = "create"
  /\ UNCHANGED <<code, child, count, domain, headers, said, output>>

Create_InPlace ==
  /\ pc = "create"
  /\ installed' = [whole |-> FALSE, db |-> tree]
  /\ temporary' = "partial"
  /\ pc' = "write"
  /\ UNCHANGED <<code, child, parsed>>

\* mkstemp()
Create ==
  /\ pc = "create"
  /\ temporary' = "partial"
  /\ pc' = "write"
  /\ UNCHANGED <<code, child, parsed, installed>>

WriteAll_Late ==
  /\ pc = "write"
  /\ pc' = "rename"
  /\ UNCHANGED <<code, child, parsed, output>>

\* From cdbmake_start() to fchmod().
WriteAll ==
  /\ pc = "write"
  /\ temporary' = "whole"
  /\ pc' = "rename"
  /\ UNCHANGED <<code, child, parsed, installed>>

\* A full disk, a directory that cannot be written.
OutputFails ==
  /\ pc \in {"create", "write", "rename"}
  /\ temporary' = "none"
  /\ Die(111)
  /\ UNCHANGED <<child, parsed, installed>>

Rename ==
  /\ pc = "rename"
  /\ installed' = [whole |-> temporary = "whole", db |-> tree]
  /\ temporary' = "none"
  /\ pc' = "renamed"
  /\ UNCHANGED <<code, child, parsed>>

Exit ==
  /\ pc = "renamed"
  /\ pc' = "done"
  /\ UNCHANGED <<code, child, parsed, output>>

ConfOutput == Create \/ WriteAll \/ OutputFails \/ Rename

-----------------------------------------------------------------------------
(* The preprocessor, and what comes from outside. *)

PreprocessorEnds ==
  /\ preprocessor = "running" /\ ~Over
  /\ preprocessor' \in {"ok", "failed"}
  /\ UNCHANGED <<reaped, progress, parsed, output>>

SigchldHandler_Deaf ==
  /\ ~Over /\ preprocessor # "running" /\ ~reaped
  /\ reaped' = TRUE
  /\ GoOn
  /\ UNCHANGED <<preprocessor, parsed, output>>

\* sigchld_handler(): it runs at any time after the end of the child, and makes
\* its failure the process's.
SigchldHandler ==
  /\ ~Over /\ preprocessor # "running" /\ ~reaped
  /\ reaped' = TRUE
  /\ IF preprocessor = "failed" THEN Die(2) ELSE GoOn
  /\ UNCHANGED <<preprocessor, parsed, output>>

\* The process is killed, or the machine stops.
Killed ==
  /\ ~Over
  /\ pc' = "killed"
  /\ UNCHANGED <<code, child, parsed, output>>

Init ==
  /\ pc = "parse" /\ code = 0
  /\ preprocessor = "running" /\ reaped = FALSE
  /\ count = 0 /\ domain = Unset /\ tree = <<>> /\ headers = <<>> /\ said = {}
  /\ temporary = "none" /\ installed = Old

Main == ReadLine \/ FinishHeaders \/ AddDefaults \/ ConfOutput \/ Exit

Next == Main \/ PreprocessorEnds \/ SigchldHandler \/ Killed

Spec == Init /\ [][Next]_vars

-----------------------------------------------------------------------------
(* What is checked. *)

Types == {""} \cup {line.ctype : line \in {l \in Lines : l.kind = "file-type"}}
Node == [flags : SUBSET Flags, mask : SUBSET Flags, ctype : Types]

\* The types; an attribute that is on is one that is known.
TypeOK ==
  /\ pc \in {"parse", "defaults", "create", "write", "rename", "renamed", "done", "died", "killed"}
  /\ code \in {0, 1, 2, 111}
  /\ preprocessor \in {"running", "ok", "failed"} /\ reaped \in BOOLEAN
  /\ count \in 0..MaxLines
  /\ temporary \in {"none", "partial", "whole"}
  /\ \A key \in DOMAIN tree :
       key.of = "attribute" => tree[key] \in Node /\ tree[key].flags \subseteq tree[key].mask
  /\ \A s \in said : s.line \in Lines

\* A database has what a line, in the domain that was current, said.
Has(db, hs, s) ==
  LET line == s.line
      unique == UniqueKey(s.dom, line)
      attributes == AttributeKey(s.dom, line)
      name == Canonical[line.name]
  IN  /\ line.kind \in Valued \cup {"redirect"} =>
           unique \in DOMAIN db /\ db[unique] = Value(line)
      /\ line.kind = "attribute" =>
           /\ attributes \in DOMAIN db
           /\ line.flag \in db[attributes].mask
           /\ line.flag \in db[attributes].flags <=> line.on
      /\ line.kind = "file-type" =>
           attributes \in DOMAIN db /\ db[attributes].ctype = line.ctype
      /\ line.kind = "custom-header" => name \in DOMAIN hs /\ hs[name] = line.value

\* What a line said holds until the end: no later line, whatever its directive or
\* its domain, and no default changes it (lexparse.c, headers_finish,
\* conf_defaults).
SaidHolds == \A s \in said : Has(tree, headers, s)

\* A path that a line is for; a file may have the name of a directory.
Covers(line, path, slash) ==
  IF line.dir
  THEN LET len == Len(line.path)
       IN  /\ IF slash THEN len <= Len(path) ELSE len < Len(path)
           /\ SubSeq(path, 1, len) = line.path
  ELSE ~slash /\ line.path = path

\* Of the lines that are for a path, the one that says most of it.
MostSpecific(lines) ==
  CHOOSE l \in lines :
    ~l.dir \/ \A k \in lines : k.dir /\ Len(l.path) >= Len(k.path)

For(kind, dom, path, slash) ==
  {s.line : s \in {t \in said : t.line.kind = kind /\ t.dom = dom /\ Covers(t.line, path, slash)}}

\* The line that decides whether a request is redirected: for the host and its port,
\* else for the host.
Deciding(r) ==
  LET here == For("redirect", r.dom, r.path, r.slash)
  IN  IF here # {} THEN here ELSE For("redirect", AnyPort(r.dom), r.path, r.slash)

\* There is a new database, to which tipideed's requests go.
New == installed # Old

\* A request is redirected, or given to another server, by the most specific line for
\* its host and port, or for its host if there is none, and by no other.  A noredirect
\* keeps the redirections of its directories away, but what it writes is too short for
\* the one who reads it, and the request fails (tipidee_conf_get_redirection).
RedirectionIs ==
  New => \A r \in Requests :
    LET lines == Deciding(r)
        node == MostSpecific(lines).node
        result == Redirection(installed.db, r.dom, r.path, r.slash)
    IN  IF lines = {} THEN result = NotRedirected
        ELSE result = IF node.type = "none" THEN Failed ELSE node

\* What serve() knows of a file by its mode, with executable_means_cgi.
Given(r) == [flags |-> IF r.executable THEN {"cgi"} ELSE {}, mask |-> {}, ctype |-> ""]

Result(r) == Attributes(installed.db, r.dom, r.path, Given(r))
FileRequests == {r \in Requests : ~r.slash}

FlagsAre ==
  New => \A r \in FileRequests, flag \in Flags \ {"basic-auth"} :
    LET lines == {l \in For("attribute", r.dom, r.path, FALSE) : l.flag = flag}
    IN  flag \in Result(r).flags <=>
          IF lines = {} THEN flag \in Given(r).flags ELSE MostSpecific(lines).on

TypesAre ==
  New => \A r \in FileRequests :
    LET types == For("file-type", r.dom, r.path, FALSE)
        best == MostSpecific(types)
        closer == {l \in For("attribute", r.dom, r.path, FALSE) :
                     best.dir /\ (~l.dir \/ Len(l.path) > Len(best.path))}
        result == Result(r)
    IN  "cgi" \notin result.flags =>
          IF types = {} THEN result.ctype = ByExtension(installed.db, r.path[Len(r.path)])
          ELSE {l.flag : l \in closer} # Flags => result.ctype = best.ctype

\* A file has an attribute when the most specific line that names it says so, and
\* when no line names it as the mode of the file says; basic-auth, which is not
\* implemented, is left out.  The type of one that is no script is that of the most
\* specific file-type, or of its extension when there is none; but more specific
\* lines that name all the attributes hide a file-type (tipidee_conf_get_resattr).
AttributesAre == FlagsAre /\ TypesAre

\* What tipideed finds for a request in the new database is what the lines for it say: its
\* redirection, and the attributes and the type of its file.
FoundAsSaid == RedirectionIs /\ AttributesAre

NewIsWhole ==
  New =>
    LET db == installed.db
    IN  /\ installed.whole
        /\ DOMAIN Defaults \subseteq DOMAIN db /\ HeadersKey \in DOMAIN db
        /\ DOMAIN Builtin \subseteq DOMAIN db[HeadersKey]
        /\ \A s \in said : Has(db, db[HeadersKey], s)

\* What tipideed opens is the old database or a whole new one, with every line that was
\* read, every default and every header, whenever tipidee-config is stopped; and the
\* old one if tipidee-config fails, unless it is for its child (conf_output).
AtomicReplace ==
  /\ NewIsWhole
  /\ code # 0 /\ preprocessor # "failed" => installed = Old

\* Nothing is installed once the failure of the preprocessor is seen, wherever it was
\* when the signal came (sigchld_handler).
SeenFailureStops == [][reaped /\ preprocessor = "failed" => UNCHANGED installed]_vars

\* A failure of the preprocessor is that of tipidee-config, which does not succeed
\* (doc/tipidee-config.html, Detailed operation).
ChildFailureFails == pc = "done" => preprocessor # "failed"
===============================================================================
