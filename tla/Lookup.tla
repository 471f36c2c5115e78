-------------------------------- MODULE Lookup --------------------------------
(***************************************************************************)
(* The keys of the configuration database, and the searches that tipideed  *)
(* makes in it for a request: tipidee_conf_get_redirection() and           *)
(* tipidee_conf_get_resattr().  A database is a function from keys to what *)
(* is stored under them; a path is a sequence of names, and a directory    *)
(* ends in a slash.                                                        *)
(***************************************************************************)
EXTENDS Naturals, Sequences

CONSTANTS
  Flags,      \* the attributes that a resource may have
  Extension,  \* the extension of a name, "" for none
  Starts      \* the names that start with a prefix

ASSUME LookupAssumption == {"cgi", "nph", "basic-auth"} \subseteq Flags

\* A domain is a host with a port, or without one, when port is "".
AnyPort(dom) == [dom EXCEPT !.port = ""]
NoDomain == [host |-> "", port |-> ""]

\* The first letter of a key is what it is of; it is a small one for directories.
\* What belongs to no domain has NoDomain.
Key(of, dir, dom, path) == [of |-> of, dir |-> dir, dom |-> dom, path |-> path]

\* The keys that are searched for a path, the most specific first: itself, then
\* the directories that it is in.
Chain(of, dom, path, slash) ==
  LET top == IF slash THEN Len(path) ELSE Len(path) - 1
      itself == IF slash THEN <<>> ELSE <<Key(of, FALSE, dom, path)>>
  IN  itself \o [i \in 1..(top + 1) |-> Key(of, TRUE, dom, SubSeq(path, 1, top + 1 - i))]

-----------------------------------------------------------------------------
(* Redirections. *)

Failed == [type |-> "failed", to |-> ""]
NotRedirected == [type |-> "absent", to |-> ""]

FirstRedirection_Last(db, chain) ==
  LET found == {i \in DOMAIN chain : chain[i] \in DOMAIN db}
  IN  IF found = {}
      THEN NotRedirected
      ELSE LET node == db[chain[CHOOSE i \in found : \A j \in found : i >= j]]
           IN  IF node.type = "none" THEN Failed ELSE node

\* get_redir(): the first key that is there.  A node of less than 5 bytes, as
\* noredirect makes, is an error, which serve() answers with 500.
FirstRedirection(db, chain) ==
  LET found == {i \in DOMAIN chain : chain[i] \in DOMAIN db}
  IN  IF found = {}
      THEN NotRedirected
      ELSE LET node == db[chain[CHOOSE i \in found : \A j \in found : i <= j]]
           IN  IF node.type = "none" THEN Failed ELSE node

\* tipidee_conf_get_redirection(): for the host and its port, then for the host.
Redirection(db, dom, path, slash) ==
  LET here == FirstRedirection(db, Chain("redirect", dom, path, slash))
  IN  IF here = NotRedirected /\ dom.port # ""
      THEN FirstRedirection(db, Chain("redirect", AnyPort(dom), path, slash))
      ELSE here

-----------------------------------------------------------------------------
(* Attributes. *)

Merged_LastWins(ra, atom) ==
  [flags |-> (atom.mask \cap atom.flags) \cup (ra.flags \ atom.mask),
   mask |-> ra.mask \cup atom.mask,
   ctype |-> IF ra.ctype = "" THEN atom.ctype ELSE ra.ctype]

Merged_TypeReplaced(ra, atom) ==
  [flags |-> ((atom.mask \cap atom.flags) \ ra.mask) \cup (ra.flags \cap (ra.mask \cup (Flags \ atom.mask))),
   mask |-> ra.mask \cup atom.mask,
   ctype |-> IF atom.ctype = "" THEN ra.ctype ELSE atom.ctype]

\* What a more specific key says of an attribute holds.
Merged(ra, atom) ==
  [flags |-> ((atom.mask \cap atom.flags) \ ra.mask) \cup (ra.flags \cap (ra.mask \cup (Flags \ atom.mask))),
   mask |-> ra.mask \cup atom.mask,
   ctype |-> IF ra.ctype = "" THEN atom.ctype ELSE ra.ctype]

\* The search stops when all the attributes are known.
Collected(db, chain, given) ==
  LET after[i \in 0..Len(chain)] ==
        IF i = 0 THEN given
        ELSE IF after[i - 1].mask = Flags \/ chain[i] \notin DOMAIN db THEN after[i - 1]
        ELSE Merged(after[i - 1], db[chain[i]])
  IN  after[Len(chain)]

\* "1 << TIPIDEE_RA_FLAG_NPH" is 1 << 2, the bit of basic-auth.
WithPrefix(ra, prefixed) ==
  [ra EXCEPT !.flags = IF prefixed THEN @ \cup {"basic-auth"} ELSE @ \ {"basic-auth"},
             !.mask = @ \cup {"basic-auth"}]

\* tipidee_conf_get_content_type()
ByExtension(db, name) ==
  LET key == Key("content-type", FALSE, NoDomain, <<Extension[name]>>)
  IN  IF key \in DOMAIN db THEN db[key] ELSE "application/octet-stream"

\* tipidee_conf_get_resattr(), for a file; given is what serve() knows of it.
Attributes(db, dom, path, given) ==
  LET found == Collected(db, Chain("attribute", dom, path, FALSE), given)
      prefix == Key("nph-prefix", FALSE, dom, <<>>)
      name == path[Len(path)]
      all == IF "nph" \in found.mask \/ prefix \notin DOMAIN db
             THEN found
             ELSE WithPrefix(found, name \in Starts[db[prefix]])
  IN  IF "cgi" \in all.flags \/ all.ctype # ""
      THEN all
      ELSE [all EXCEPT !.ctype = ByExtension(db, name)]

===============================================================================
