------------------------------ MODULE Documents ------------------------------
(***************************************************************************)
(* What the documents say comes of a configuration: the text in which each *)
(* directive is replaced by what it includes                               *)
(* (doc/tipidee-config-preprocess.html, doc/tipidee.conf.html).  A line is *)
(* a step from what was printed and seen before it to what is behind it,   *)
(* and a file is the steps of its lines.                                   *)
(***************************************************************************)
EXTENDS Preprocess, FiniteSets

ASSUME FilesAreFinite == IsFiniteSet(Files)

\* The exit code, the lines that are printed, the files that were included, whether one
\* with !included: multiple was included again, and whether directories were nested.
Results ==
  [code : {0, 1, 2, 111}, text : Seq(Place), seen : SUBSET Files, again : BOOLEAN, nested : BOOLEAN]

Nothing == [code |-> 0, text |-> <<>>, seen |-> {}, again |-> FALSE, nested |-> FALSE]
Fails(r, e) == [r EXCEPT !.code = e]
Prints(r, f, i) == [r EXCEPT !.text = Append(@, [file |-> f, line |-> i])]
Enters(r, f) == [r EXCEPT !.seen = @ \cup {f}, !.again = @ \/ f \in r.seen]
Nests(r, under) == [r EXCEPT !.nested = @ \/ under]

\* r after the steps from the i-th on.
Through(steps, i, r) ==
  LET left[n \in 0..Len(steps)] ==
        [q \in Results |-> IF n = 0 THEN q ELSE left[n - 1][steps[Len(steps) - n + 1][q]]]
  IN  left[Len(steps) + 1 - i][r]

\* What a file says of being included again, t being the texts.
Declarations(t, f) == {i \in DOMAIN t[f] : t[f][i].kind \in {"unique", "multiple"}}
Says(t, f) ==
  IF Declarations(t, f) = {} THEN "nothing"
  ELSE t[f][CHOOSE i \in Declarations(t, f) : \A j \in Declarations(t, f) : i <= j].kind

\* Where a name is included: the directory, the files that wait, and whether a directory does.
Sites == [dir : Dirs, within : SUBSET Files, under : BOOLEAN]
Site(dir, within, under) == [dir |-> dir, within |-> within, under |-> under]

DirSteps(names, w, reads) == [m \in DOMAIN names |-> reads[w][names[m]]]

\* What the i-th line of f, read in w, makes of r; reads is what each name does at each site.
LineOn(t, f, i, w, reads, r) ==
  LET line == t[f][i]
      to == Cd[w.dir][line.dir]
  IN  CASE line.kind \in {"text", "tail"} -> Prints(r, f, i)
        [] line.kind \in Inclusions /\ to = Missing -> Fails(r, 111)
        [] line.kind = "include" /\ to # Missing ->
             reads[Site(to, w.within, w.under)][line.name][r]
        [] line.kind = "includedir" /\ to # Missing ->
             Through(DirSteps(Listing[to], Site(to, w.within, TRUE), reads), 1, Nests(r, w.under))
        [] line.kind \in {"unique", "multiple"} /\ Declarations(t, f) \cap 1..(i - 1) = {} -> r
        [] line.kind = "dropped" -> r
        [] line.kind = "unreadable" -> Fails(r, 111)
        [] OTHER -> Fails(r, 1)

LineStep(t, f, i, w, reads) ==
  [r \in Results |-> IF r.code # 0 THEN r ELSE LineOn(t, f, i, w, reads, r)]

FileSteps(t, f, w, reads) == [i \in DOMAIN t[f] |-> LineStep(t, f, i, w, reads)]

\* What a name does, when reads is what the names in its file do.
Read(t, reads) ==
  [w \in Sites |-> [name \in Names |-> [r \in Results |->
     LET f == Entry[w.dir][name]
     IN  IF r.code # 0 THEN r
         ELSE IF f = Missing THEN Fails(r, 111)
         ELSE IF f \in w.within \/ (f \in r.seen /\ Says(t, f) = "nothing") THEN Fails(r, 2)
         ELSE IF f \in r.seen /\ Says(t, f) = "unique" THEN r
         ELSE Through(FileSteps(t, f, Site(w.dir, w.within \cup {f}, w.under), reads), 1,
                      Enters(r, f))]]]

\* What a name does when all the files wait: it is one of them.
ReadLast ==
  [w \in Sites |-> [name \in Names |-> [r \in Results |->
     IF r.code # 0 THEN r
     ELSE IF Entry[w.dir][name] = Missing THEN Fails(r, 111) ELSE Fails(r, 2)]]]

\* What each name does at each site, when k more files may wait.
Reading(t, k) ==
  LET reading[n \in 0..Cardinality(Files)] == IF n = 0 THEN ReadLast ELSE Read(t, reading[n - 1])
  IN  reading[k]

DocumentOf(t) == Reading(t, Cardinality(Files))[Site(Top, {}, FALSE)][Main][Nothing]
Documented == DocumentOf(text)
Printed(o) == [k \in DOMAIN o |-> o[k].of]

\* The program prints the text in which directives are replaced by what they include, once
\* for a file that is unique, and fails for the first thing that is wrong: a directive, a
\* cycle, a file that comes twice and does not say that it may
\* (doc/tipidee-config-preprocess.html, Interface and Exit codes).  Left out: files
\* that are included again in full, and directories in directories.
AsDocumented ==
  Over /\ code # 111 =>
    LET doc == Documented
    IN  ~doc.again /\ ~doc.nested => code = doc.code /\ (code = 0 => Printed(out) = doc.text)

\* A file with !included: multiple is expanded every time it is included
\* (doc/tipidee.conf.html, the !included: directive).
MultipleExpands ==
  Over /\ code # 111 =>
    LET doc == Documented
    IN  doc.again /\ ~doc.nested => code = doc.code
===============================================================================
