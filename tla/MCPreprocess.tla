----------------------------- MODULE MCPreprocess -----------------------------
(***************************************************************************)
(* Four files in two directories, with a choice of texts for each.         *)
(***************************************************************************)
EXTENDS Documents

MCFiles == {"R", "A", "B", "C"}
MCDirs == {"top", "sub"}
MCNames == {"r", "a", "l", "c", "here", "in", "up"}
MCCd ==
  [top |-> [n \in MCNames |-> IF n = "here" THEN "top" ELSE IF n = "in" THEN "sub" ELSE Missing],
   sub |-> [n \in MCNames |-> IF n = "here" THEN "sub" ELSE IF n = "up" THEN "top" ELSE Missing]]

\* l is a link to a, and a is another file in sub.
MCEntry ==
  [top |-> [n \in MCNames |-> IF n = "r" THEN "R" ELSE IF n \in {"a", "l"} THEN "A" ELSE Missing],
   sub |-> [n \in MCNames |-> IF n = "a" THEN "B" ELSE IF n = "c" THEN "C" ELSE Missing]]
MCListing == [top |-> <<"a", "l">>, sub |-> <<"a", "c">>]

L(kind) == [kind |-> kind, dir |-> "here", name |-> "r"]
T == L("text")
Inc(dir, name) == [kind |-> "include", dir |-> dir, name |-> name]
Dir(dir) == [kind |-> "includedir", dir |-> dir, name |-> "r"]

UpTo(set, n) == UNION {[1..k -> set] : k \in 0..n}

\* The root: any three of these.
RTexts == UpTo({T, Inc("here", "a"), Inc("in", "a"), Dir("in")}, 3)

ATexts ==
  {<<T>>, <<L("unique"), T>>, <<T, L("multiple")>>, <<L("unique"), Inc("here", "l"), T>>,
   <<Inc("in", "c"), T>>, <<Inc("in", "c"), L("multiple")>>, <<L("unique"), L("dropped"), Inc("in", "a"), T>>, <<Inc("here", "r")>>}

BTexts ==
  {<<T, T>>, <<L("unique"), T>>, <<L("multiple"), T>>, <<L("unique"), Inc("here", "c"), L("dropped"), T>>,
   <<Inc("up", "a"), T>>, <<L("unique"), Dir("up"), T>>, <<T, L("tail")>>, <<L("unique"), L("multiple")>>,
   <<L("unique"), Inc("here", "l")>>, <<L("unreadable")>>}

CTexts == {<<T>>, <<L("unique"), T>>, <<T, L("unique"), Inc("up", "a")>>, <<T, L("multiple")>>, <<L("invalid")>>}

MCContents == [R : RTexts, A : ATexts, B : BTexts, C : CTexts]

\* These files are as the theorem NoCycle wants them.
ASSUME ConditionsHold == OneDirectory /\ StaleIsListed
===============================================================================
