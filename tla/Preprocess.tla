------------------------------ MODULE Preprocess ------------------------------
(***************************************************************************)
(* tipidee-config-preprocess: it copies the lines of a file and of the     *)
(* files that its directives include, and says with lines of its own, the  *)
(* markers, where the next line comes from.  conf_lexparse(), at the other *)
(* end of the pipe, takes the place of a line from them.                   *)
(***************************************************************************)
EXTENDS Naturals, Sequences

CONSTANTS
  Files,      \* the files, each by its real path
  Dirs,       \* the directories
  Names,      \* what a directory is called from another one, or a file in its own
  Missing,    \* where a name leads that leads nowhere
  Cd,         \* where chdir() leads, from a directory and a name
  Entry,      \* the file that has a name in a directory
  Listing,    \* the names in a directory, sorted, without those that begin with a dot
  Top, Main,  \* the directory and the name of the argument
  Contents,   \* what may be in the files: functions from files to sequences of lines
  Stale       \* the names that may lie behind the entries of a directory in ga

(***************************************************************************)
(* A line: "text", "tail" (text that the end of the file ends), "dropped"  *)
(* (one bang or two and no directive), "include" of name in dir,           *)
(* "includedir" of dir, "unique" and "multiple" (!included:), "invalid"    *)
(* (any other directive), and "unreadable", where read() fails.            *)
(***************************************************************************)
Kinds == {"text", "tail", "dropped", "include", "includedir", "unique", "multiple",
          "invalid", "unreadable"}
Line == [kind : Kinds, dir : Names, name : Names]

ASSUME PreprocessAssumption ==
  /\ Missing \notin Files \cup Dirs
  /\ Cd \in [Dirs -> [Names -> Dirs \cup {Missing}]]
  /\ Entry \in [Dirs -> [Names -> Files \cup {Missing}]]
  /\ Listing \in [Dirs -> Seq(Names)]
  /\ Top \in Dirs /\ Main \in Names /\ Entry[Top][Main] # Missing
  /\ Contents \subseteq [Files -> Seq(Line)]
  /\ \A text \in Contents, f \in Files : \A i \in DOMAIN text[f] :
       text[f][i].kind = "tail" => i = Len(text[f])
  /\ Stale \subseteq Names

VARIABLES
  text,     \* what is in the files
  pc,       \* "start", "run", or how it ended: "done", "died"
  code,     \* the exit code
  cwd,      \* the working directory
  ga,       \* the length of ga: the entries of all directories being included
  stack,    \* the calls of includefromhere() and includecwd(), the running one last
  flags,    \* the flags of each file in namemap
  out,      \* the text printed: where each line comes from, and the place that
            \* conf_lexparse() has for it
  md,       \* that place, for the next line
  partial   \* the last line printed has no end yet

vars == <<text, pc, code, cwd, ga, stack, flags, out, md, partial>>
printed == <<out, md, partial>>

Place == [file : Files, line : Nat]
Flag == {"open", "unique", "multiple"}

\* A call of includefromhere(): the line it is at, and whether it waits for an
\* inclusion to return (fdhere is then where it is).
FileFrame == [file : Files, dir : Dirs, at : Nat, calling : BOOLEAN]

\* A call of includecwd(): its entries, the next of them, and gabase.
DirFrame == [names : Seq(Names), next : Nat \ {0}, base : Nat]

Frame(f, dir, at, calling) == [file |-> f, dir |-> dir, at |-> at, calling |-> calling]
DirAt(names, next, base) == [names |-> names, next |-> next, base |-> base]
IsFile(frame) == "file" \in DOMAIN frame
Running == stack[Len(stack)]
InPlace(frame) == [stack EXCEPT ![Len(stack)] = frame]
Returned == SubSeq(stack, 1, Len(stack) - 1)
Over == pc \in {"done", "died"}

Die(e) == pc' = "died" /\ code' = e /\ UNCHANGED <<text, ga, cwd, stack, flags, printed>>

-----------------------------------------------------------------------------
(* What is printed, and what conf_lexparse() makes of it. *)

NextLine == [file |-> md.file, line |-> md.line + 1]

PrintText(place, ended) ==
  /\ out' = Append(out, [of |-> place, as |-> md])
  /\ md' = IF ended THEN NextLine ELSE md
  /\ partial' = ~ended

\* "! line file", the next line's place; behind an unfinished line it is a part of
\* that one.
PrintMarker(f, line) ==
  /\ md' = IF partial THEN NextLine ELSE [file |-> f, line |-> line + 1]
  /\ partial' = FALSE
  /\ UNCHANGED out

-----------------------------------------------------------------------------
(* includefromhere(), up to the first line of the file. *)

\* The frames with those of a file that begins an inclusion or has passed a line.
Calling == InPlace(Frame(Running.file, Running.dir, Running.at, TRUE))
SteppedOver == InPlace(Frame(Running.file, Running.dir, Running.at + 1, FALSE))

Known(f) == f \in DOMAIN flags
WithFlags(f, set) == [g \in DOMAIN flags \cup {f} |-> IF g = f THEN set ELSE flags[g]]

Enter_Reopened(dir, name, callers) ==
  LET f == Entry[dir][name]
  IN  \/ f = Missing /\ Die(111)
      \/ /\ f # Missing /\ Known(f) /\ flags[f] = {"open"}
         /\ Die(2)
      \/ /\ f # Missing
         /\ Known(f) => flags[f] # {"open"}
         /\ cwd' = dir
         /\ flags' = IF Known(f) THEN flags ELSE WithFlags(f, {"open"})
         /\ stack' = Append(callers, Frame(f, dir, 1, FALSE))
         /\ PrintMarker(f, 0)
         /\ UNCHANGED <<text, ga, pc, code>>

\* The file called name in dir, with the frames of its callers.
Enter(dir, name, callers) ==
  LET f == Entry[dir][name]
  IN  \/ f = Missing /\ Die(111)
      \* it is included in a cycle, or twice without a directive
      \/ /\ f # Missing /\ Known(f)
         /\ "open" \in flags[f] \/ flags[f] = {}
         /\ Die(2)
      \/ /\ f # Missing /\ Known(f)
         /\ "open" \notin flags[f] /\ "unique" \in flags[f]
         /\ cwd' = dir
         /\ stack' = callers
         /\ UNCHANGED <<text, ga, pc, code, flags, printed>>
      \* only a file that is new is marked as open
      \/ /\ f # Missing
         /\ Known(f) => flags[f] = {"multiple"}
         /\ cwd' = dir
         /\ flags' = IF Known(f) THEN flags ELSE WithFlags(f, {"open"})
         /\ stack' = Append(callers, Frame(f, dir, 1, FALSE))
         /\ PrintMarker(f, 0)
         /\ UNCHANGED <<text, ga, pc, code>>

\* main(), and the chdir() of include().
Start ==
  /\ pc = "start"
  /\ pc' = "run"
  /\ cwd' = Top
  /\ flags' = WithFlags(Entry[Top][Main], {"open"})
  /\ stack' = <<Frame(Entry[Top][Main], Top, 1, FALSE)>>
  /\ PrintMarker(Entry[Top][Main], 0)
  /\ UNCHANGED <<text, ga, code>>

-----------------------------------------------------------------------------
(* The lines of the running file. *)

AtLine ==
  /\ pc = "run" /\ stack # <<>> /\ IsFile(Running)
  /\ ~Running.calling /\ Running.at <= Len(text[Running.file])

This == text[Running.file][Running.at]
Here == [file |-> Running.file, line |-> Running.at]
StepOver == stack' = SteppedOver

CopyLine ==
  /\ AtLine /\ This.kind \in {"text", "tail"}
  /\ PrintText(Here, This.kind = "text")
  /\ StepOver
  /\ UNCHANGED <<text, ga, pc, code, cwd, flags>>

DropLine ==
  /\ AtLine /\ This.kind = "dropped"
  /\ StepOver
  /\ UNCHANGED <<text, ga, pc, code, cwd, flags, printed>>

BadLine ==
  \/ AtLine /\ This.kind = "invalid" /\ Die(1)
  \/ AtLine /\ This.kind = "unreadable" /\ Die(111)

Included_Unchecked ==
  /\ AtLine /\ This.kind \in {"unique", "multiple"}
  /\ flags' = WithFlags(Running.file, flags[Running.file] \cup {This.kind})
  /\ StepOver
  /\ UNCHANGED <<text, ga, pc, code, cwd, printed>>

\* !included: is allowed once, also in a file that is read again.
Included ==
  /\ AtLine /\ This.kind \in {"unique", "multiple"}
  /\ LET f == Running.file
     IN  \/ flags[f] \cap {"unique", "multiple"} # {} /\ Die(1)
         \/ /\ flags[f] \cap {"unique", "multiple"} = {}
            /\ flags' = WithFlags(f, flags[f] \cup {This.kind})
            /\ StepOver
            /\ UNCHANGED <<text, ga, pc, code, cwd, printed>>

\* include()
Include ==
  /\ AtLine /\ This.kind = "include"
  /\ LET dir == Cd[cwd][This.dir]
     IN  \/ dir = Missing /\ Die(111)
         \/ dir # Missing /\ Enter(dir, This.name, Calling)

\* includecwd(), up to the loop
IncludeDir ==
  /\ AtLine /\ This.kind = "includedir"
  /\ LET dir == Cd[cwd][This.dir]
     IN  \/ dir = Missing /\ Die(111)
         \/ /\ dir # Missing
            /\ cwd' = dir
            /\ ga' = ga + Len(Listing[dir])
            /\ stack' = Append(Calling, DirAt(Listing[dir], 1, ga))
            /\ UNCHANGED <<text, pc, code, flags, printed>>

-----------------------------------------------------------------------------
(* The loop of includecwd(), and what follows a file or a directory. *)

InDir == pc = "run" /\ stack # <<>> /\ ~IsFile(Running)
Advanced == InPlace(DirAt(Running.names, Running.next + 1, Running.base))

NextEntry ==
  /\ InDir /\ Running.next <= Len(Running.names)
  /\ Enter(cwd, Running.names[Running.next], Advanced)

\* The loop counts to the length of ga, from gabase on: it goes as far behind the
\* entries as gabase is from the start.  What is there names nothing, or a file.
PastEntries ==
  /\ InDir
  /\ Running.next > Len(Running.names)
  /\ Running.next <= ga
  /\ \/ Die(111)
     \/ \E name \in Stale : Enter(cwd, name, Advanced)

EndOfDir ==
  /\ InDir /\ Running.next > ga
  /\ stack' = Returned
  /\ ga' = Running.base
  /\ UNCHANGED <<text, pc, code, cwd, flags, printed>>

EndOfFile ==
  /\ pc = "run" /\ stack # <<>> /\ IsFile(Running)
  /\ ~Running.calling /\ Running.at > Len(text[Running.file])
  /\ flags' = WithFlags(Running.file, flags[Running.file] \ {"open"})
  /\ stack' = Returned
  /\ UNCHANGED <<text, ga, pc, code, cwd, printed>>

Resume_Unmarked ==
  /\ pc = "run" /\ stack # <<>> /\ IsFile(Running) /\ Running.calling
  /\ cwd' = Running.dir
  /\ StepOver
  /\ UNCHANGED <<text, ga, pc, code, flags, printed>>

Resume_NoFchdir ==
  /\ pc = "run" /\ stack # <<>> /\ IsFile(Running) /\ Running.calling
  /\ StepOver
  /\ PrintMarker(Running.file, Running.at)
  /\ UNCHANGED <<text, ga, pc, code, cwd, flags>>

\* An inclusion is over: back to the directory of the file.
Resume ==
  /\ pc = "run" /\ stack # <<>> /\ IsFile(Running) /\ Running.calling
  /\ cwd' = Running.dir
  /\ StepOver
  /\ PrintMarker(Running.file, Running.at)
  /\ UNCHANGED <<text, ga, pc, code, flags>>

Finish ==
  /\ pc = "run" /\ stack = <<>>
  /\ pc' = "done"
  /\ UNCHANGED <<text, ga, code, cwd, stack, flags, printed>>

\* Any of open, getcwd, opendir, readdir and write, and every allocation.  The
\* name of an entry is read by open() where it was before sa grew: it may fail
\* for that, too.
SystemCallFails == ~Over /\ Die(111)

-----------------------------------------------------------------------------
Init ==
  /\ text \in Contents
  /\ pc = "start" /\ code = 0 /\ cwd = Top /\ ga = 0
  /\ stack = <<>> /\ flags = <<>>
  /\ out = <<>> /\ partial = FALSE
  /\ md = [file |-> Entry[Top][Main], line |-> 0]

Next ==
  \/ Start \/ CopyLine \/ DropLine \/ BadLine \/ Included \/ Include \/ IncludeDir
  \/ NextEntry \/ PastEntries \/ EndOfDir \/ EndOfFile \/ Resume \/ Finish
  \/ SystemCallFails

Spec == Init /\ [][Next]_vars
-----------------------------------------------------------------------------
(* What is checked. *)

\* Each frame but the last waits for the one behind it.
StackOK ==
  \A i \in DOMAIN stack :
    /\ IsFile(stack[i]) => /\ stack[i].file \in DOMAIN flags
                           /\ stack[i].at \in 1..(Len(text[stack[i].file]) + 1)
    /\ i < Len(stack) => ~IsFile(stack[i]) \/ stack[i].calling

\* The types; a line that is read is in its file, and the flags are those of a
\* file that is read for the first time or was read.
TypeOK ==
  /\ text \in [Files -> Seq(Line)]
  /\ pc \in {"start", "run", "done", "died"} /\ code \in {0, 1, 2, 111}
  /\ cwd \in Dirs /\ ga \in Nat
  /\ stack \in Seq(FileFrame \cup DirFrame) /\ StackOK
  /\ DOMAIN flags \subseteq Files
  /\ \A f \in DOMAIN flags : flags[f] \subseteq Flag /\ ~({"unique", "multiple"} \subseteq flags[f])
  /\ out \in Seq([of : Place, as : Place]) /\ md \in Place /\ partial \in BOOLEAN

\* No file is read inside itself: every cycle of inclusions is found before it is
\* entered again, so that the calls are never deeper than there are files, also
\* when a file is read again whose flag is not set anew (includefromhere).  The
\* documents say that of any files (an invalid inclusion is a cycle, exit code 2);
\* the code does it where the two conditions below hold.
NoFileInItself ==
  \A i, j \in DOMAIN stack :
    IsFile(stack[i]) /\ IsFile(stack[j]) /\ stack[i].file = stack[j].file => i = j

\* The files that are listed in a directory.
ListedIn(dir) == {Entry[dir][Listing[dir][m]] : m \in DOMAIN Listing[dir]}

\* A file has names in one directory only: what its lines lead to is always the same.
OneDirectory ==
  \A d, e \in Dirs : \A n, m \in Names : Entry[d][n] # Missing /\ Entry[d][n] = Entry[e][m] => d = e

\* What lies behind the entries in ga are names left from other directories, without a
\* dot in front as all that are listed: where such a name leads to a file at all, that
\* is one of the listed.  (Memory that was never written may say otherwise.)
StaleIsListed ==
  \A d \in Dirs : \A n \in Stale : Entry[d][n] # Missing => Entry[d][n] \in ListedIn(d)

Unprinted == {"dropped", "unique", "multiple"}
Inclusions == {"include", "includedir"}

\* The lines of a file that are not printed, since the last inclusion before a line.
Lost(place) ==
  LET lines == text[place.file]
  IN  {i \in 1..(place.line - 1) :
         lines[i].kind \in Unprinted
           /\ \A j \in i..(place.line - 1) : lines[j].kind \notin Inclusions}

AllEnded == \A f \in Files : \A i \in DOMAIN text[f] : text[f][i].kind # "tail"

\* conf_lexparse() has the right file for every line, and the right number unless
\* lines were left out since the last marker: it is behind by those.  A line that the
\* end of its file ends takes the marker behind it with it (the markers of
\* includefromhere, process_line of lexparse.c).
PlaceIsTrue ==
  AllEnded =>
    \A k \in DOMAIN out :
      /\ out[k].as.file = out[k].of.file
      /\ Lost(out[k].of) = {} => out[k].as.line = out[k].of.line
      /\ out[k].as.line <= out[k].of.line
===============================================================================
