------------------------------- MODULE MCConfig -------------------------------
(***************************************************************************)
(* Values for the constants of Config.                                     *)
(***************************************************************************)
EXTENDS Config

Host == [host |-> "h", port |-> ""]
HostPort == [host |-> "h", port |-> "80"]
DomainLine(d) == [kind |-> "domain", dom |-> d]

Target(t, to) == [type |-> t, to |-> to]
RedirectLine(path, dir, node) == [kind |-> "redirect", path |-> path, dir |-> dir, node |-> node]
AttributeLine(path, dir, flag, on) ==
  [kind |-> "attribute", path |-> path, dir |-> dir, flag |-> flag, on |-> on]
TypeLine(path, dir, ctype) == [kind |-> "file-type", path |-> path, dir |-> dir, ctype |-> ctype]
Valuable(kind, name, value) == [kind |-> kind, name |-> name, value |-> value]

Domains == {DomainLine(Host), DomainLine(HostPort)}

\* The same path as a file and as a directory, one directory in another.
Redirects ==
  {RedirectLine(<<>>, TRUE, Target("fastcgi", "app")),
   RedirectLine(<<"a">>, TRUE, Target("redirect", "there")),
   RedirectLine(<<"a">>, TRUE, Target("rproxy", "back")),
   RedirectLine(<<"a">>, FALSE, Target("redirect", "elsewhere"))}
NoRedirect == RedirectLine(<<"a", "b.c">>, FALSE, Target("none", ""))

AttributeLines ==
  {AttributeLine(<<"a">>, TRUE, "cgi", TRUE),
   AttributeLine(<<"a", "b.c">>, FALSE, "cgi", FALSE),
   AttributeLine(<<"a", "b.c">>, FALSE, "nph", FALSE),
   AttributeLine(<<"a", "b.c">>, FALSE, "basic-auth", TRUE),
   AttributeLine(<<>>, TRUE, "nph", TRUE),
   TypeLine(<<"a">>, TRUE, "text/a"),
   TypeLine(<<"a", "b.c">>, FALSE, "text/b"),
   Valuable("nph-prefix", "", "b"),
   Valuable("content-type", "c", "text/c")}

Others ==
  {Valuable("custom-header", "server", "s"),
   Valuable("custom-header", "date", "d"),
   [kind |-> "malformed"]}

AllLines == Domains \cup Redirects \cup {NoRedirect} \cup AttributeLines \cup Others
FewLines == Domains \cup {Valuable("global", "write_timeout", "9")}

MCFlags == {"cgi", "nph", "basic-auth"}
MCExtension == [n \in {"a", "b.c"} |-> IF n = "b.c" THEN "c" ELSE ""]
MCStarts == [p \in {"b"} |-> {"b.c"}]
MCCanonical == [n \in {"server", "date"} |-> IF n = "date" THEN "Date" ELSE "Server"]
MCLocked == {"Date", "Content-Type"}
MCBuiltin == [n \in {"Date", "Server"} |-> "builtin"]
MCDefaults ==
  [k \in {Key("global", FALSE, NoDomain, <<"write_timeout">>),
          Key("content-type", FALSE, NoDomain, <<"c">>),
          Key("content-type", FALSE, NoDomain, <<"">>)} |-> "default"]

Request(d, p, s, x) == [dom |-> d, path |-> p, slash |-> s, executable |-> x]
MCRequests ==
  {Request(d, p, FALSE, x) : d \in {Host, HostPort}, p \in {<<"a">>, <<"a", "b.c">>}, x \in BOOLEAN}
    \cup {Request(d, <<"a">>, TRUE, FALSE) : d \in {Host, HostPort}}
===============================================================================
