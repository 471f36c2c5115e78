-------------------------- MODULE Preprocess_proofs --------------------------
(***************************************************************************)
(* Proofs about Preprocess, for any files, directories and texts: typing,  *)
(* the places that conf_lexparse() has for the lines it reads, when every  *)
(* cycle of inclusions is found, and that the program prints what the      *)
(* documents say.                                                          *)
(***************************************************************************)
EXTENDS Documents, SequenceTheorems, FiniteSetTheorems, WellFoundedInduction, TLAPS

Frames == FileFrame \cup DirFrame

-----------------------------------------------------------------------------
(* Frames, and what is done to a stack of them. *)

LEMMA FileFrames ==
  ASSUME NEW f \in Files, NEW dir \in Dirs, NEW at \in Nat, NEW calling \in BOOLEAN
  PROVE  LET frame == Frame(f, dir, at, calling)
         IN  /\ frame \in Frames /\ frame \in FileFrame /\ IsFile(frame)
             /\ frame.file = f /\ frame.dir = dir /\ frame.at = at /\ frame.calling = calling
  BY DEF Frame, Frames, FileFrame, IsFile

LEMMA DirFrames ==
  ASSUME NEW names \in Seq(Names), NEW next \in Nat \ {0}, NEW base \in Nat
  PROVE  LET frame == DirAt(names, next, base)
         IN  /\ frame \in Frames /\ frame \in DirFrame /\ ~IsFile(frame)
             /\ frame.names = names /\ frame.next = next /\ frame.base = base
  BY DEF DirAt, Frames, DirFrame, IsFile

LEMMA FrameKinds ==
  ASSUME NEW frame \in Frames
  PROVE  /\ IsFile(frame) => /\ frame \in FileFrame
                             /\ frame.file \in Files /\ frame.dir \in Dirs
                             /\ frame.at \in Nat /\ frame.calling \in BOOLEAN
         /\ ~IsFile(frame) => /\ frame \in DirFrame
                              /\ frame.names \in Seq(Names)
                              /\ frame.next \in Nat \ {0} /\ frame.base \in Nat
  BY DEF Frames, FileFrame, DirFrame, IsFile

LEMMA Pushed ==
  ASSUME NEW s \in Seq(Frames), NEW x \in Frames
  PROVE  LET t == Append(s, x)
         IN  /\ t \in Seq(Frames) /\ Len(t) = Len(s) + 1 /\ DOMAIN t = 1..(Len(s) + 1)
             /\ \A i \in 1..Len(s) : t[i] = s[i]
             /\ t[Len(s) + 1] = x /\ t # <<>>
  OBVIOUS

LEMMA Replaced ==
  ASSUME stack \in Seq(Frames), stack # <<>>, NEW x \in Frames
  PROVE  LET t == InPlace(x)
         IN  /\ t \in Seq(Frames) /\ Len(t) = Len(stack) /\ DOMAIN t = 1..Len(stack)
             /\ \A i \in 1..Len(stack) : i # Len(stack) => t[i] = stack[i]
             /\ t[Len(stack)] = x /\ t # <<>>
<1>1. Len(stack) \in Nat /\ Len(stack) # 0 /\ Len(stack) \in 1..Len(stack)  OBVIOUS
<1>2. /\ InPlace(x) \in Seq(Frames) /\ Len(InPlace(x)) = Len(stack)
      /\ \A j \in 1..Len(stack) : InPlace(x)[j] = IF j = Len(stack) THEN x ELSE stack[j]
  BY <1>1, ExceptSeq DEF InPlace
<1>3. DOMAIN InPlace(x) = 1..Len(InPlace(x))
  BY <1>2, LenProperties
<1> QED  BY <1>1, <1>2, <1>3

LEMMA Popped ==
  ASSUME stack \in Seq(Frames), stack # <<>>
  PROVE  /\ Returned \in Seq(Frames) /\ Len(Returned) = Len(stack) - 1
         /\ DOMAIN Returned = 1..(Len(stack) - 1)
         /\ \A i \in 1..(Len(stack) - 1) : Returned[i] = stack[i]
<1> DEFINE n == Len(stack) - 1
<1>1. n \in Nat /\ \A i \in 1..n : stack[i] \in Frames  OBVIOUS
<1>2. /\ SubSeq(stack, 1, n) \in Seq(Frames)
      /\ Len(SubSeq(stack, 1, n)) = IF 1 <= n THEN n - 1 + 1 ELSE 0
      /\ \A i \in 1..(n - 1 + 1) : SubSeq(stack, 1, n)[i] = stack[1 + i - 1]
  BY <1>1, SubSeqProperties
<1> HIDE DEF n
<1>3. Len(SubSeq(stack, 1, n)) = n  BY <1>1, <1>2
<1>4. DOMAIN SubSeq(stack, 1, n) = 1..n  BY <1>2, <1>3, LenProperties
<1>5. \A i \in 1..n : SubSeq(stack, 1, n)[i] = stack[i]  BY <1>1, <1>2
<1> QED  BY <1>2, <1>3, <1>4, <1>5 DEF Returned, n

LEMMA Last ==
  ASSUME stack \in Seq(Frames), stack # <<>>
  PROVE  /\ Len(stack) \in Nat \ {0} /\ DOMAIN stack = 1..Len(stack)
         /\ Len(stack) \in DOMAIN stack /\ Running \in Frames
         /\ \A i \in DOMAIN stack : stack[i] \in Frames
  BY DEF Running

-----------------------------------------------------------------------------
(* Typing. *)

\* A file waits at a line that includes something.
FrameOK(frame, fl) ==
  IsFile(frame) =>
    /\ frame.file \in DOMAIN fl
    /\ frame.at \in 1..(Len(text[frame.file]) + 1)
    /\ frame.calling => /\ frame.at \in DOMAIN text[frame.file]
                        /\ text[frame.file][frame.at].kind \in Inclusions

Waits(frame) == IsFile(frame) => frame.calling

FramesOK(s, fl) == \A i \in DOMAIN s : FrameOK(s[i], fl)
AllWait(s) == \A i \in DOMAIN s : Waits(s[i])

Framed ==
  /\ stack \in Seq(Frames) /\ FramesOK(stack, flags)
  /\ \A i \in DOMAIN stack : i < Len(stack) => Waits(stack[i])

FlagsOK ==
  /\ DOMAIN flags \subseteq Files
  /\ \A f \in DOMAIN flags : flags[f] \subseteq Flag /\ ~({"unique", "multiple"} \subseteq flags[f])

PrintedOK == out \in Seq([of : Place, as : Place]) /\ md \in Place /\ partial \in BOOLEAN

Types ==
  /\ text \in [Files -> Seq(Line)]
  /\ pc \in {"start", "run", "done", "died"} /\ code \in {0, 1, 2, 111}
  /\ cwd \in Dirs /\ ga \in Nat
  /\ Framed /\ FlagsOK /\ PrintedOK

LEMMA TypesImply == Types => TypeOK
<1> SUFFICES ASSUME Types PROVE TypeOK  OBVIOUS
<1>1. StackOK
  <2> SUFFICES ASSUME NEW i \in DOMAIN stack
               PROVE  /\ IsFile(stack[i]) => /\ stack[i].file \in DOMAIN flags
                                             /\ stack[i].at \in 1..(Len(text[stack[i].file]) + 1)
                      /\ i < Len(stack) => ~IsFile(stack[i]) \/ stack[i].calling
    BY DEF StackOK
  <2> QED  BY DEF Types, Framed, FramesOK, FrameOK, Waits
<1> QED  BY <1>1 DEF Types, TypeOK, Framed, FlagsOK, PrintedOK, Frames

LEMMA Known1 ==
  ASSUME Types, stack # <<>>, IsFile(Running)
  PROVE  /\ Running \in FileFrame /\ Running.file \in Files /\ Running.dir \in Dirs
         /\ Running.at \in Nat \ {0} /\ Running.calling \in BOOLEAN
         /\ Running.file \in DOMAIN flags
         /\ FrameOK(Running, flags) /\ text[Running.file] \in Seq(Line)
<1>1. Running \in Frames /\ Len(stack) \in DOMAIN stack  BY Last DEF Types, Framed
<1>2. FrameOK(Running, flags)  BY <1>1 DEF Types, Framed, FramesOK, Running
<1> QED  BY <1>1, <1>2, FrameKinds DEF FrameOK, Types, FileFrame

LEMMA Line1 ==
  ASSUME Types, AtLine
  PROVE  /\ Running.at \in DOMAIN text[Running.file] /\ This \in Line
         /\ Running.at \in 1..Len(text[Running.file])
         /\ Running.at + 1 \in 1..(Len(text[Running.file]) + 1)
         /\ stack # <<>> /\ IsFile(Running) /\ ~Running.calling
         /\ Here \in Place /\ Here = [file |-> Running.file, line |-> Running.at]
<1>1. stack # <<>> /\ IsFile(Running) /\ ~Running.calling /\ Running.at <= Len(text[Running.file])
  BY DEF AtLine
<1>2. Running.at \in Nat \ {0} /\ text[Running.file] \in Seq(Line) /\ Running.file \in Files
  BY <1>1, Known1
<1>3. Running.at \in 1..Len(text[Running.file])  BY <1>1, <1>2
<1>4. DOMAIN text[Running.file] = 1..Len(text[Running.file]) /\ This \in Line
  BY <1>2, <1>3, ElementOfSeq DEF This
<1> QED  BY <1>1, <1>2, <1>3, <1>4 DEF Here, Place

LEMMA ReplacedOK ==
  ASSUME Framed, stack # <<>>, NEW x \in Frames, FrameOK(x, flags)
  PROVE  /\ FramesOK(InPlace(x), flags)
         /\ Waits(x) => AllWait(InPlace(x))
<1>1. stack \in Seq(Frames)  BY DEF Framed
<1>2. /\ DOMAIN InPlace(x) = 1..Len(stack) /\ InPlace(x)[Len(stack)] = x
      /\ \A i \in 1..Len(stack) : i # Len(stack) => InPlace(x)[i] = stack[i]
  BY <1>1, Replaced
<1>3. Len(stack) \in Nat  BY <1>1
<1>4. DOMAIN stack = 1..Len(stack)  BY <1>1
<1> SUFFICES ASSUME NEW i \in 1..Len(stack)
             PROVE  FrameOK(InPlace(x)[i], flags) /\ (Waits(x) => Waits(InPlace(x)[i]))
  BY <1>2 DEF FramesOK, AllWait
<1>5. CASE i = Len(stack)  BY <1>2, <1>5
<1>6. CASE i # Len(stack)
  <2>1. InPlace(x)[i] = stack[i]  BY <1>2, <1>6
  <2>2. i < Len(stack)  BY <1>3, <1>6
  <2>3. FrameOK(stack[i], flags) /\ Waits(stack[i])  BY <1>4, <2>2 DEF Framed, FramesOK
  <2> QED  BY <2>1, <2>3
<1> QED  BY <1>5, <1>6

\* The two frames that take the place of a file's.
LEMMA CallingOK ==
  ASSUME Types, AtLine, This.kind \in Inclusions
  PROVE  /\ Calling \in Seq(Frames) /\ Len(Calling) = Len(stack) /\ Calling # <<>>
         /\ DOMAIN Calling = 1..Len(stack)
         /\ \A i \in 1..Len(stack) : i # Len(stack) => Calling[i] = stack[i]
         /\ Calling[Len(stack)] = Frame(Running.file, Running.dir, Running.at, TRUE)
         /\ FramesOK(Calling, flags) /\ AllWait(Calling)
<1> DEFINE x == Frame(Running.file, Running.dir, Running.at, TRUE)
<1>0. Running.file \in Files /\ Running.dir \in Dirs /\ Running.at \in Nat  BY Known1, Line1
<1>1. /\ x \in Frames /\ IsFile(x) /\ x.file = Running.file /\ x.at = Running.at /\ x.calling = TRUE
  BY <1>0 DEF Frame, Frames, FileFrame, IsFile
<1>2. FrameOK(x, flags)  BY <1>1, Line1, Known1 DEF FrameOK, This
<1> HIDE DEF x
<1>3. stack \in Seq(Frames) /\ stack # <<>>  BY Line1 DEF Types, Framed
<1>4. /\ InPlace(x) \in Seq(Frames) /\ Len(InPlace(x)) = Len(stack) /\ DOMAIN InPlace(x) = 1..Len(stack)
      /\ \A i \in 1..Len(stack) : i # Len(stack) => InPlace(x)[i] = stack[i]
      /\ InPlace(x)[Len(stack)] = x /\ InPlace(x) # <<>>
  BY <1>1, <1>3, Replaced
<1>5. Waits(x)  BY <1>1 DEF Waits
<1>6. FramesOK(InPlace(x), flags) /\ AllWait(InPlace(x))
  BY <1>1, <1>2, <1>3, <1>5, ReplacedOK DEF Types
<1> QED  BY <1>4, <1>6 DEF Calling, x

LEMMA SteppedOK ==
  ASSUME Types, stack # <<>>, IsFile(Running), Running.at + 1 \in 1..(Len(text[Running.file]) + 1)
  PROVE  /\ SteppedOver \in Seq(Frames) /\ Len(SteppedOver) = Len(stack) /\ SteppedOver # <<>>
         /\ DOMAIN SteppedOver = 1..Len(stack)
         /\ \A i \in 1..Len(stack) : i # Len(stack) => SteppedOver[i] = stack[i]
         /\ SteppedOver[Len(stack)] = Frame(Running.file, Running.dir, Running.at + 1, FALSE)
         /\ FramesOK(SteppedOver, flags)
<1> DEFINE x == Frame(Running.file, Running.dir, Running.at + 1, FALSE)
<1>1. Running.file \in Files /\ Running.dir \in Dirs /\ Running.at + 1 \in Nat  BY Known1
<1>2. x \in Frames /\ IsFile(x) /\ x.file = Running.file /\ x.at = Running.at + 1 /\ x.calling = FALSE
  BY <1>1 DEF Frame, Frames, FileFrame, IsFile
<1>3. FrameOK(x, flags)  BY <1>2, Known1 DEF FrameOK
<1> HIDE DEF x
<1>4. stack \in Seq(Frames)  BY DEF Types, Framed
<1>5. /\ InPlace(x) \in Seq(Frames) /\ Len(InPlace(x)) = Len(stack) /\ DOMAIN InPlace(x) = 1..Len(stack)
      /\ \A i \in 1..Len(stack) : i # Len(stack) => InPlace(x)[i] = stack[i]
      /\ InPlace(x)[Len(stack)] = x /\ InPlace(x) # <<>>
  BY <1>2, <1>4, Replaced
<1>6. FramesOK(InPlace(x), flags)  BY <1>2, <1>3, ReplacedOK DEF Types
<1> QED  BY <1>5, <1>6 DEF SteppedOver, x

LEMMA AdvancedOK ==
  ASSUME Types, InDir
  PROVE  /\ Advanced \in Seq(Frames) /\ Len(Advanced) = Len(stack) /\ Advanced # <<>>
         /\ DOMAIN Advanced = 1..Len(stack)
         /\ \A i \in 1..Len(stack) : i # Len(stack) => Advanced[i] = stack[i]
         /\ Advanced[Len(stack)] = DirAt(Running.names, Running.next + 1, Running.base)
         /\ FramesOK(Advanced, flags) /\ AllWait(Advanced)
<1> DEFINE x == DirAt(Running.names, Running.next + 1, Running.base)
<1>1. stack \in Seq(Frames) /\ stack # <<>>  BY DEF Types, Framed, InDir
<1>2. Running.names \in Seq(Names) /\ Running.next + 1 \in Nat \ {0} /\ Running.base \in Nat
  BY <1>1, Last, FrameKinds DEF InDir
<1>3. x \in Frames /\ ~IsFile(x)  BY <1>2, DirFrames
<1>4. FrameOK(x, flags) /\ Waits(x)  BY <1>3 DEF FrameOK, Waits
<1> HIDE DEF x
<1>5. /\ InPlace(x) \in Seq(Frames) /\ Len(InPlace(x)) = Len(stack) /\ DOMAIN InPlace(x) = 1..Len(stack)
      /\ \A i \in 1..Len(stack) : i # Len(stack) => InPlace(x)[i] = stack[i]
      /\ InPlace(x)[Len(stack)] = x /\ InPlace(x) # <<>>
  BY <1>1, <1>3, Replaced
<1>6. FramesOK(InPlace(x), flags) /\ AllWait(InPlace(x))
  BY <1>1, <1>3, <1>4, ReplacedOK DEF Types
<1> QED  BY <1>5, <1>6 DEF Advanced, x

LEMMA FramedNext ==
  ASSUME NEW s \in Seq(Frames), stack' = s, text' = text, FramesOK(s, flags'),
         \A i \in DOMAIN s : i < Len(s) => Waits(s[i])
  PROVE  Framed'
<1>1. FramesOK(stack, flags)'
  <2> SUFFICES ASSUME NEW i \in DOMAIN s PROVE FrameOK(s[i], flags)'  BY DEF FramesOK
  <2>1. FrameOK(s[i], flags')  BY DEF FramesOK
  <2> QED  BY <2>1 DEF FrameOK
<1>2. \A i \in DOMAIN stack' : i < Len(stack') => Waits(stack'[i])  OBVIOUS
<1> QED  BY <1>1, <1>2 DEF Framed, Waits

LEMMA MoreFlags ==
  ASSUME NEW s, FramesOK(s, flags), DOMAIN flags \subseteq DOMAIN flags'
  PROVE  FramesOK(s, flags')
<1> SUFFICES ASSUME NEW i \in DOMAIN s PROVE FrameOK(s[i], flags')  BY DEF FramesOK
<1>1. FrameOK(s[i], flags)  BY DEF FramesOK
<1> QED  BY <1>1 DEF FrameOK

LEMMA FlagsNext ==
  ASSUME FlagsOK, NEW f \in Files, NEW set \in SUBSET Flag, ~({"unique", "multiple"} \subseteq set),
         flags' = WithFlags(f, set)
  PROVE  /\ FlagsOK' /\ DOMAIN flags \subseteq DOMAIN flags' /\ f \in DOMAIN flags'
         /\ DOMAIN flags' = DOMAIN flags \cup {f}
         /\ flags'[f] = set
         /\ \A g \in DOMAIN flags : g # f => flags'[g] = flags[g]
  BY DEF FlagsOK, WithFlags

LEMMA OpenFlags ==
  ASSUME FlagsOK, NEW f \in Files, flags' = WithFlags(f, {"open"})
  PROVE  FlagsOK' /\ DOMAIN flags \subseteq DOMAIN flags' /\ f \in DOMAIN flags'
<1> DEFINE set == {"open"}
<1>1. set \in SUBSET Flag /\ ~({"unique", "multiple"} \subseteq set) /\ flags' = WithFlags(f, set)
  BY DEF Flag
<1> HIDE DEF set
<1> QED  BY <1>1, FlagsNext

LEMMA ClosedFlags ==
  ASSUME FlagsOK, NEW f \in DOMAIN flags, flags' = WithFlags(f, flags[f] \ {"open"})
  PROVE  FlagsOK' /\ DOMAIN flags \subseteq DOMAIN flags' /\ f \in DOMAIN flags'
<1> DEFINE set == flags[f] \ {"open"}
<1>1. f \in Files /\ set \in SUBSET Flag /\ ~({"unique", "multiple"} \subseteq set)
  BY DEF FlagsOK
<1>2. flags' = WithFlags(f, set)  OBVIOUS
<1> HIDE DEF set
<1> QED  BY <1>1, <1>2, FlagsNext

LEMMA SameFlags == UNCHANGED flags /\ FlagsOK => FlagsOK' /\ DOMAIN flags \subseteq DOMAIN flags'
  BY DEF FlagsOK

LEMMA MarkerNext ==
  ASSUME PrintedOK, NEW f \in Files, NEW line \in Nat, PrintMarker(f, line)
  PROVE  PrintedOK'
<1>1. out' \in Seq([of : Place, as : Place])  BY DEF PrintedOK, PrintMarker
<1>2. md.file \in Files /\ md.line + 1 \in Nat /\ line + 1 \in Nat  BY DEF PrintedOK, Place
<1>3. NextLine \in Place  BY <1>2 DEF NextLine, Place
<1>4. [file |-> f, line |-> line + 1] \in Place  BY <1>2 DEF Place
<1>5. md' \in Place  BY <1>3, <1>4 DEF PrintMarker
<1>6. partial' \in BOOLEAN  BY DEF PrintMarker
<1> QED  BY <1>1, <1>5, <1>6 DEF PrintedOK

LEMMA TextNext ==
  ASSUME PrintedOK, NEW place \in Place, NEW ended \in BOOLEAN, PrintText(place, ended)
  PROVE  PrintedOK'
<1>1. [of |-> place, as |-> md] \in [of : Place, as : Place]  BY DEF PrintedOK
<1>2. out' \in Seq([of : Place, as : Place])  BY <1>1 DEF PrintedOK, PrintText
<1>3. md' \in Place /\ partial' \in BOOLEAN  BY DEF PrintedOK, PrintText, NextLine, Place
<1> QED  BY <1>2, <1>3 DEF PrintedOK

LEMMA SamePrinted == UNCHANGED printed /\ PrintedOK => PrintedOK'
  BY DEF PrintedOK, printed

\* The ways an inclusion may go.
Skipped(dir, name, callers) ==
  /\ Entry[dir][name] \in DOMAIN flags
  /\ "open" \notin flags[Entry[dir][name]] /\ "unique" \in flags[Entry[dir][name]]
  /\ cwd' = dir /\ stack' = callers
  /\ UNCHANGED <<text, ga, pc, code, flags, printed>>

Entered(dir, name, callers) ==
  LET f == Entry[dir][name]
  IN  /\ cwd' = dir /\ stack' = Append(callers, Frame(f, dir, 1, FALSE))
      /\ PrintMarker(f, 0)
      /\ UNCHANGED <<text, ga, pc, code>>
      /\ \/ f \in DOMAIN flags /\ flags[f] = {"multiple"} /\ flags' = flags
         \/ f \notin DOMAIN flags /\ flags' = WithFlags(f, {"open"})

Died(e) == pc' = "died" /\ code' = e /\ UNCHANGED <<text, ga, cwd, stack, flags, printed>>

LEMMA EnterWays ==
  ASSUME Types, NEW dir \in Dirs, NEW name \in Names, NEW callers, Enter(dir, name, callers)
  PROVE  \/ \E e \in {2, 111} : Died(e)
         \/ Entry[dir][name] \in Files /\ Skipped(dir, name, callers)
         \/ Entry[dir][name] \in Files /\ Entered(dir, name, callers)
<1> DEFINE f == Entry[dir][name]
<1>1. f # Missing => f \in Files  BY PreprocessAssumption
<1>2. CASE f = Missing /\ Die(111)  BY <1>2 DEF Die, Died
<1>3. CASE Die(2)  BY <1>3 DEF Die, Died
<1>4. CASE /\ f # Missing /\ Known(f) /\ "open" \notin flags[f] /\ "unique" \in flags[f]
           /\ cwd' = dir /\ stack' = callers
           /\ UNCHANGED <<text, ga, pc, code, flags, printed>>
  BY <1>1, <1>4 DEF Skipped, Known
<1>5. CASE /\ f # Missing /\ (Known(f) => flags[f] = {"multiple"})
           /\ cwd' = dir
           /\ flags' = IF Known(f) THEN flags ELSE WithFlags(f, {"open"})
           /\ stack' = Append(callers, Frame(f, dir, 1, FALSE))
           /\ PrintMarker(f, 0)
           /\ UNCHANGED <<text, ga, pc, code>>
  BY <1>1, <1>5 DEF Entered, Known
<1> QED  BY <1>2, <1>3, <1>4, <1>5 DEF Enter

LEMMA DiedTypes ==
  ASSUME Types, NEW e \in {1, 2, 111}, Died(e)
  PROVE  Types'
<1>1. UNCHANGED <<text, ga, cwd, stack, flags, printed>>  BY DEF Died
<1>2. Framed'
  <2>1. stack \in Seq(Frames) /\ FramesOK(stack, flags') /\ stack' = stack /\ text' = text
    BY <1>1 DEF Types, Framed
  <2> QED  BY <2>1, FramedNext DEF Types, Framed
<1> QED  BY <1>1, <1>2, SameFlags, SamePrinted DEF Types, Died

LEMMA EnterTypes ==
  ASSUME Types, NEW dir \in Dirs, NEW name \in Names,
         NEW callers \in Seq(Frames), FramesOK(callers, flags), AllWait(callers),
         Enter(dir, name, callers)
  PROVE  Types'
<1> DEFINE f == Entry[dir][name]
<1>1. CASE \E e \in {2, 111} : Died(e)  BY <1>1, DiedTypes
<1>2. CASE f \in Files /\ Skipped(dir, name, callers)
  <2>1. /\ cwd' = dir /\ stack' = callers
        /\ UNCHANGED <<text, ga, pc, code, flags, printed>>
    BY <1>2 DEF Skipped
  <2>2. Framed'
    <3>1. FramesOK(callers, flags')  BY <2>1
    <3> QED  BY <2>1, <3>1, FramedNext DEF AllWait
  <2> QED  BY <2>1, <2>2, SameFlags, SamePrinted DEF Types
<1>3. CASE f \in Files /\ Entered(dir, name, callers)
  <2> DEFINE x == Frame(f, dir, 1, FALSE)
             s == Append(callers, x)
  <2>1. /\ cwd' = dir /\ stack' = s /\ PrintMarker(f, 0) /\ UNCHANGED <<text, ga, pc, code>>
    BY <1>3 DEF Entered
  <2>2. FlagsOK' /\ DOMAIN flags \subseteq DOMAIN flags' /\ f \in DOMAIN flags'
    <3>1. CASE f \in DOMAIN flags /\ flags' = flags  BY <3>1, SameFlags DEF Types
    <3>2. CASE flags' = WithFlags(f, {"open"})
      <4>1. FlagsOK /\ f \in Files  BY <1>3 DEF Types
      <4> HIDE DEF f
      <4> QED  BY <3>2, <4>1, OpenFlags
    <3>3. (f \in DOMAIN flags /\ flags' = flags) \/ flags' = WithFlags(f, {"open"})
      BY <1>3 DEF Entered
    <3> QED  BY <3>1, <3>2, <3>3
  <2>3. x \in Frames /\ IsFile(x) /\ x.file = f /\ x.at = 1 /\ x.calling = FALSE
    BY <1>3 DEF Frame, Frames, FileFrame, IsFile
  <2>4. FrameOK(x, flags')
    <3>1. text[f] \in Seq(Line)  BY <1>3 DEF Types
    <3>2. 1 \in 1..(Len(text[f]) + 1)  BY <3>1
    <3> QED  BY <2>2, <2>3, <3>2 DEF FrameOK
  <2> HIDE DEF x
  <2>5. /\ s \in Seq(Frames) /\ Len(s) = Len(callers) + 1 /\ DOMAIN s = 1..(Len(callers) + 1)
        /\ \A i \in 1..Len(callers) : s[i] = callers[i]
        /\ s[Len(callers) + 1] = x
    BY <2>3, Pushed
  <2>6. FramesOK(callers, flags')  BY <2>2, MoreFlags
  <2>7. Len(callers) \in Nat  OBVIOUS
  <2>a. DOMAIN callers = 1..Len(callers)  OBVIOUS
  <2> HIDE DEF s
  <2>8. FramesOK(s, flags')
    <3> SUFFICES ASSUME NEW i \in DOMAIN s PROVE FrameOK(s[i], flags')  BY DEF FramesOK
    <3>1. CASE i = Len(callers) + 1  BY <2>4, <2>5, <3>1
    <3>2. CASE i # Len(callers) + 1
      <4>1. i \in 1..Len(callers)  BY <2>5, <2>7, <3>2
      <4> QED  BY <2>5, <2>6, <2>a, <4>1 DEF FramesOK
    <3> QED  BY <3>1, <3>2
  <2>9. \A i \in DOMAIN s : i < Len(s) => Waits(s[i])
    <3> SUFFICES ASSUME NEW i \in DOMAIN s, i < Len(s) PROVE Waits(s[i])  OBVIOUS
    <3>1. i \in 1..Len(callers)  BY <2>5, <2>7
    <3> QED  BY <2>5, <2>a, <3>1 DEF AllWait
  <2>10. Framed'  BY <2>1, <2>5, <2>8, <2>9, FramedNext
  <2> QED  BY <1>3, <2>1, <2>2, <2>10, MarkerNext DEF Types
<1> QED  BY <1>1, <1>2, <1>3, EnterWays

LEMMA BadLineDies == BadLine => \E e \in {1, 2, 111} : Died(e)
  BY DEF BadLine, Die, Died

LEMMA IncludedWays ==
  ASSUME Included
  PROVE  \/ Died(1)
         \/ /\ AtLine /\ This.kind \in {"unique", "multiple"}
            /\ flags[Running.file] \cap {"unique", "multiple"} = {}
            /\ flags' = WithFlags(Running.file, flags[Running.file] \cup {This.kind})
            /\ stack' = SteppedOver
            /\ UNCHANGED <<text, ga, pc, code, cwd, printed>>
  BY DEF Included, Die, Died, StepOver

\* A file goes on to its next line.
LEMMA StepTypes ==
  ASSUME Types, stack # <<>>, IsFile(Running), Running.at + 1 \in 1..(Len(text[Running.file]) + 1),
         stack' = SteppedOver, UNCHANGED text, FlagsOK', DOMAIN flags \subseteq DOMAIN flags'
  PROVE  Framed'
<1> DEFINE t == SteppedOver
<1>1. /\ t \in Seq(Frames) /\ Len(t) = Len(stack) /\ DOMAIN t = 1..Len(stack)
      /\ \A i \in 1..Len(stack) : i # Len(stack) => t[i] = stack[i]
      /\ FramesOK(t, flags)
  BY SteppedOK
<1>2. stack' = t /\ text' = text  OBVIOUS
<1> HIDE DEF t
<1>3. FramesOK(t, flags')  BY <1>1, MoreFlags
<1>4. DOMAIN stack = 1..Len(stack) /\ Len(stack) \in Nat  BY Last DEF Types, Framed
<1>5. ASSUME NEW i \in DOMAIN t, i < Len(t)
      PROVE  Waits(t[i])
  <2>0. i \in 1..Len(stack) /\ i < Len(stack)
    <3>1. DOMAIN t = 1..Len(stack) /\ Len(t) = Len(stack)  BY <1>1
    <3> QED  BY <1>5, <3>1
  <2>1. i \in DOMAIN stack /\ i < Len(stack) /\ i # Len(stack)  BY <1>4, <2>0
  <2>2. t[i] = stack[i]  BY <1>1, <1>4, <2>1
  <2> QED  BY <2>1, <2>2 DEF Types, Framed
<1> QED  BY <1>1, <1>2, <1>3, <1>5, FramedNext

LEMMA PopTypes ==
  ASSUME Types, stack # <<>>, stack' = Returned, UNCHANGED text,
         FlagsOK', DOMAIN flags \subseteq DOMAIN flags'
  PROVE  Framed'
<1>1. stack \in Seq(Frames) /\ FramesOK(stack, flags)  BY DEF Types, Framed
<1>2. /\ Returned \in Seq(Frames) /\ Len(Returned) = Len(stack) - 1
      /\ DOMAIN Returned = 1..(Len(stack) - 1)
      /\ \A i \in 1..(Len(stack) - 1) : Returned[i] = stack[i]
  BY <1>1, Popped
<1>3. DOMAIN stack = 1..Len(stack) /\ Len(stack) \in Nat  BY <1>1, Last
<1>4. FramesOK(Returned, flags)  BY <1>1, <1>2, <1>3 DEF FramesOK
<1>5. FramesOK(Returned, flags')  BY <1>4, MoreFlags
<1>6. ASSUME NEW i \in DOMAIN Returned, i < Len(Returned) PROVE Waits(Returned[i])
  <2>0. i \in 1..(Len(stack) - 1)  BY <1>2, <1>6
  <2>1. i \in DOMAIN stack /\ i < Len(stack)  BY <1>3, <2>0
  <2>2. Returned[i] = stack[i]  BY <1>2, <2>0
  <2> QED  BY <2>1, <2>2 DEF Types, Framed
<1>7. UNCHANGED text  OBVIOUS
<1> HIDE DEF Returned
<1> QED  BY <1>2, <1>5, <1>6, <1>7, FramedNext

\* A directory is put on the stack.
LEMMA DirTypes ==
  ASSUME Types, NEW callers \in Seq(Frames), FramesOK(callers, flags), AllWait(callers),
         NEW names \in Seq(Names), NEW base \in Nat,
         stack' = Append(callers, DirAt(names, 1, base)), UNCHANGED <<text, flags>>
  PROVE  Framed'
<1> DEFINE x == DirAt(names, 1, base)
           s == Append(callers, x)
<1>1. x \in Frames /\ ~IsFile(x)  BY DirFrames
<1> HIDE DEF x
<1>2. /\ s \in Seq(Frames) /\ Len(s) = Len(callers) + 1 /\ DOMAIN s = 1..(Len(callers) + 1)
      /\ \A i \in 1..Len(callers) : s[i] = callers[i]
      /\ s[Len(callers) + 1] = x
  BY <1>1, Pushed
<1>3. Len(callers) \in Nat /\ DOMAIN callers = 1..Len(callers)  OBVIOUS
<1>4. stack' = s /\ text' = text /\ flags' = flags  BY DEF x
<1> HIDE DEF s
<1>5. ASSUME NEW i \in DOMAIN s
      PROVE  FrameOK(s[i], flags') /\ (i < Len(s) => Waits(s[i]))
  <2>1. CASE i = Len(callers) + 1  BY <1>1, <1>2, <1>3, <2>1 DEF FrameOK
  <2>2. CASE i # Len(callers) + 1
    <3>1. i \in 1..Len(callers)  BY <1>2, <1>3, <1>5, <2>2
    <3>2. s[i] = callers[i] /\ i \in DOMAIN callers  BY <1>2, <1>3, <3>1
    <3>3. FrameOK(callers[i], flags) /\ Waits(callers[i])  BY <3>2 DEF FramesOK, AllWait
    <3> QED  BY <1>4, <3>2, <3>3
  <2> QED  BY <2>1, <2>2
<1>6. FramesOK(s, flags')  BY <1>5 DEF FramesOK
<1> QED  BY <1>2, <1>4, <1>5, <1>6, FramedNext

LEMMA InitTypes == Init => Types
<1> SUFFICES ASSUME Init PROVE Types  OBVIOUS
<1>1. text \in [Files -> Seq(Line)]  BY PreprocessAssumption DEF Init
<1>2. Top \in Dirs /\ Main \in Names /\ Entry[Top][Main] \in Files
  BY PreprocessAssumption
<1>3. md \in Place  BY <1>2 DEF Init, Place
<1>4. Framed  BY DEF Init, Framed, FramesOK
<1>5. FlagsOK  BY DEF Init, FlagsOK
<1>6. PrintedOK
  <2> DEFINE S == [of : Place, as : Place]
  <2> HIDE DEF S
  <2>1. <<>> \in Seq(S)  OBVIOUS
  <2>2. out \in Seq(S) /\ partial \in BOOLEAN  BY <2>1 DEF Init
  <2> QED  BY <1>3, <2>2 DEF PrintedOK, S
<1> QED  BY <1>1, <1>2, <1>4, <1>5, <1>6 DEF Init, Types

LEMMA StartTypes == Types /\ Start => Types'
<1> SUFFICES ASSUME Types, Start PROVE Types'  OBVIOUS
<1> DEFINE f == Entry[Top][Main]
           x == Frame(f, Top, 1, FALSE)
<1>1. Top \in Dirs /\ f \in Files  BY PreprocessAssumption
<1>2. /\ pc' = "run" /\ cwd' = Top /\ flags' = WithFlags(f, {"open"}) /\ stack' = <<x>>
      /\ PrintMarker(f, 0) /\ UNCHANGED <<text, ga, code>>
  BY DEF Start
<1>3. FlagsOK  BY DEF Types
<1>4. FlagsOK' /\ f \in DOMAIN flags'
  <2> HIDE DEF f
  <2> QED  BY <1>1, <1>2, <1>3, OpenFlags
<1>5. x \in Frames /\ IsFile(x) /\ x.file = f /\ x.at = 1 /\ x.calling = FALSE
  BY <1>1 DEF Frame, Frames, FileFrame, IsFile
<1>6. FrameOK(x, flags')
  <2>1. text[f] \in Seq(Line)  BY <1>1 DEF Types
  <2>2. 1 \in 1..(Len(text[f]) + 1)  BY <2>1
  <2> HIDE DEF x, f
  <2> QED  BY <1>4, <1>5, <2>2 DEF FrameOK
<1> HIDE DEF x, f
<1>7. /\ <<x>> \in Seq(Frames) /\ DOMAIN <<x>> = {1} /\ Len(<<x>>) = 1 /\ <<x>>[1] = x
  BY <1>5
<1>8. FramesOK(<<x>>, flags')  BY <1>6, <1>7 DEF FramesOK
<1>9. \A i \in DOMAIN <<x>> : i < Len(<<x>>) => Waits(<<x>>[i])  BY <1>7
<1>10. Framed'  BY <1>2, <1>7, <1>8, <1>9, FramedNext
<1>11. PrintedOK'  BY <1>1, <1>2, MarkerNext DEF Types
<1> QED  BY <1>1, <1>2, <1>4, <1>10, <1>11 DEF Types

LEMMA CopyLineTypes == Types /\ CopyLine => Types'
<1> SUFFICES ASSUME Types, CopyLine PROVE Types'  OBVIOUS
<1>1. /\ AtLine /\ PrintText(Here, This.kind = "text") /\ stack' = SteppedOver
      /\ UNCHANGED <<text, ga, pc, code, cwd, flags>>
  BY DEF CopyLine, StepOver
<1>2. FlagsOK' /\ DOMAIN flags \subseteq DOMAIN flags'  BY <1>1, SameFlags DEF Types
<1>3. Framed'  BY <1>1, <1>2, Line1, StepTypes
<1>4. PrintedOK'
  <2>1. Here \in Place  BY <1>1, Line1
  <2>2. (This.kind = "text") \in BOOLEAN  OBVIOUS
  <2> QED  BY <1>1, <2>1, <2>2, TextNext DEF Types
<1> QED  BY <1>1, <1>2, <1>3, <1>4 DEF Types

LEMMA DropLineTypes == Types /\ DropLine => Types'
<1> SUFFICES ASSUME Types, DropLine PROVE Types'  OBVIOUS
<1>1. AtLine /\ stack' = SteppedOver /\ UNCHANGED <<text, ga, pc, code, cwd, flags, printed>>
  BY DEF DropLine, StepOver
<1>2. FlagsOK' /\ DOMAIN flags \subseteq DOMAIN flags'  BY <1>1, SameFlags DEF Types
<1>3. Framed'  BY <1>1, <1>2, Line1, StepTypes
<1> QED  BY <1>1, <1>2, <1>3, SamePrinted DEF Types

LEMMA IncludedTypes == Types /\ Included => Types'
<1> SUFFICES ASSUME Types, Included PROVE Types'  OBVIOUS
<1>1. CASE Died(1)  BY <1>1, DiedTypes
<1>2. CASE /\ AtLine /\ This.kind \in {"unique", "multiple"}
           /\ flags[Running.file] \cap {"unique", "multiple"} = {}
           /\ flags' = WithFlags(Running.file, flags[Running.file] \cup {This.kind})
           /\ stack' = SteppedOver
           /\ UNCHANGED <<text, ga, pc, code, cwd, printed>>
  <2> DEFINE f == Running.file
             set == flags[f] \cup {This.kind}
  <2>1. f \in Files /\ f \in DOMAIN flags  BY <1>2, Line1, Known1
  <2>2. set \in SUBSET Flag /\ ~({"unique", "multiple"} \subseteq set)
    BY <1>2, <2>1 DEF Types, FlagsOK, Flag
  <2>3. flags' = WithFlags(f, set)  BY <1>2
  <2>a. FlagsOK  BY DEF Types
  <2> HIDE DEF set, f
  <2>4. FlagsOK' /\ DOMAIN flags \subseteq DOMAIN flags'  BY <2>1, <2>2, <2>3, <2>a, FlagsNext
  <2>5. Framed'  BY <1>2, <2>4, Line1, StepTypes
  <2> QED  BY <1>2, <2>4, <2>5, SamePrinted DEF Types
<1> QED  BY <1>1, <1>2, IncludedWays

LEMMA IncludeTypes == Types /\ Include => Types'
<1> SUFFICES ASSUME Types, Include PROVE Types'  OBVIOUS
<1> DEFINE dir == Cd[cwd][This.dir]
<1>1. AtLine /\ This.kind = "include"  BY DEF Include
<1>2. This \in Line  BY <1>1, Line1
<1>3. dir \in Dirs \cup {Missing} /\ This.name \in Names
  BY <1>2, PreprocessAssumption DEF Line, Types
<1>4. CASE dir = Missing /\ Die(111)
  <2>1. Died(111)  BY <1>4 DEF Die, Died
  <2> QED  BY <2>1, DiedTypes
<1>5. CASE dir # Missing /\ Enter(dir, This.name, Calling)
  <2>1. Calling \in Seq(Frames) /\ FramesOK(Calling, flags) /\ AllWait(Calling)
    BY <1>1, CallingOK DEF Inclusions
  <2>2. dir \in Dirs /\ This.name \in Names /\ Enter(dir, This.name, Calling)  BY <1>3, <1>5
  <2> HIDE DEF dir, Calling
  <2> QED  BY <2>1, <2>2, EnterTypes
<1> QED  BY <1>4, <1>5 DEF Include

LEMMA IncludeDirTypes == Types /\ IncludeDir => Types'
<1> SUFFICES ASSUME Types, IncludeDir PROVE Types'  OBVIOUS
<1> DEFINE dir == Cd[cwd][This.dir]
<1>1. AtLine /\ This.kind = "includedir"  BY DEF IncludeDir
<1>2. This \in Line  BY <1>1, Line1
<1>3. dir \in Dirs \cup {Missing}  BY <1>2, PreprocessAssumption DEF Line, Types
<1>4. CASE dir = Missing /\ Die(111)
  <2>1. Died(111)  BY <1>4 DEF Die, Died
  <2> QED  BY <2>1, DiedTypes
<1>5. CASE /\ dir # Missing /\ cwd' = dir
           /\ ga' = ga + Len(Listing[dir])
           /\ stack' = Append(Calling, DirAt(Listing[dir], 1, ga))
           /\ UNCHANGED <<text, pc, code, flags, printed>>
  <2>1. Calling \in Seq(Frames) /\ FramesOK(Calling, flags) /\ AllWait(Calling)
    BY <1>1, CallingOK DEF Inclusions
  <2>2. dir \in Dirs  BY <1>3, <1>5
  <2>3. Listing[dir] \in Seq(Names) /\ ga \in Nat  BY <2>2, PreprocessAssumption DEF Types
  <2>4. /\ cwd' = dir /\ ga' = ga + Len(Listing[dir])
        /\ stack' = Append(Calling, DirAt(Listing[dir], 1, ga))
        /\ UNCHANGED <<text, pc, code, flags, printed>>
    BY <1>5
  <2> HIDE DEF dir, Calling
  <2>5. Framed'  BY <2>1, <2>3, <2>4, DirTypes
  <2>6. ga' \in Nat  BY <2>3, <2>4
  <2> QED  BY <2>2, <2>4, <2>5, <2>6, SameFlags, SamePrinted DEF Types
<1> QED  BY <1>4, <1>5 DEF IncludeDir

\* The frame of a directory.
LEMMA Dir1 ==
  ASSUME Types, InDir
  PROVE  /\ stack # <<>> /\ ~IsFile(Running) /\ Running.names \in Seq(Names)
         /\ Running.next \in Nat \ {0} /\ Running.base \in Nat
<1>1. stack \in Seq(Frames) /\ stack # <<>> /\ ~IsFile(Running)  BY DEF Types, Framed, InDir
<1> QED  BY <1>1, Last, FrameKinds

LEMMA EnterEntryTypes ==
  ASSUME Types, InDir, NEW name \in Names, Enter(cwd, name, Advanced)
  PROVE  Types'
<1>1. Advanced \in Seq(Frames) /\ FramesOK(Advanced, flags) /\ AllWait(Advanced)
  BY AdvancedOK
<1>2. cwd \in Dirs  BY DEF Types
<1> HIDE DEF Advanced
<1> QED  BY <1>1, <1>2, EnterTypes

LEMMA PopDirTypes == Types /\ EndOfDir => Types'
<1> SUFFICES ASSUME Types, EndOfDir PROVE Types'  OBVIOUS
<1>1. /\ InDir /\ stack' = Returned /\ ga' = Running.base
      /\ UNCHANGED <<text, pc, code, cwd, flags, printed>>
  BY DEF EndOfDir
<1>2. FlagsOK' /\ DOMAIN flags \subseteq DOMAIN flags'  BY <1>1, SameFlags DEF Types
<1>3. Framed'  BY <1>1, <1>2, Dir1, PopTypes
<1>4. ga' \in Nat  BY <1>1, Dir1
<1> QED  BY <1>1, <1>2, <1>3, <1>4, SamePrinted DEF Types

LEMMA PopFileTypes == Types /\ EndOfFile => Types'
<1> SUFFICES ASSUME Types, EndOfFile PROVE Types'  OBVIOUS
<1> DEFINE set == flags[Running.file] \ {"open"}
<1>1. /\ stack # <<>> /\ IsFile(Running) /\ stack' = Returned
      /\ flags' = WithFlags(Running.file, set)
      /\ UNCHANGED <<text, ga, pc, code, cwd, printed>>
  BY DEF EndOfFile
<1>2. Running.file \in Files /\ Running.file \in DOMAIN flags  BY <1>1, Known1
<1>3. FlagsOK  BY DEF Types
<1>4. FlagsOK' /\ DOMAIN flags \subseteq DOMAIN flags'
  <2> DEFINE f == Running.file
  <2>1. f \in DOMAIN flags /\ flags' = WithFlags(f, flags[f] \ {"open"})  BY <1>1, <1>2
  <2> HIDE DEF f
  <2> QED  BY <1>3, <2>1, ClosedFlags
<1>5. Framed'  BY <1>1, <1>4, PopTypes
<1> QED  BY <1>1, <1>4, <1>5, SamePrinted DEF Types

LEMMA ResumeTypes == Types /\ Resume => Types'
<1> SUFFICES ASSUME Types, Resume PROVE Types'  OBVIOUS
<1>1. /\ stack # <<>> /\ IsFile(Running) /\ Running.calling /\ cwd' = Running.dir
      /\ stack' = SteppedOver /\ PrintMarker(Running.file, Running.at)
      /\ UNCHANGED <<text, ga, pc, code, flags>>
  BY DEF Resume, StepOver
<1>2. /\ Running.file \in Files /\ Running.dir \in Dirs /\ Running.at \in Nat
      /\ Running.at \in DOMAIN text[Running.file] /\ text[Running.file] \in Seq(Line)
  BY <1>1, Known1 DEF FrameOK
<1>3. Running.at + 1 \in 1..(Len(text[Running.file]) + 1)  BY <1>2
<1>4. FlagsOK' /\ DOMAIN flags \subseteq DOMAIN flags'  BY <1>1, SameFlags DEF Types
<1>5. Framed'  BY <1>1, <1>3, <1>4, StepTypes
<1>6. PrintedOK'  BY <1>1, <1>2, MarkerNext DEF Types
<1> QED  BY <1>1, <1>2, <1>4, <1>5, <1>6 DEF Types

LEMMA StillTypes == Types /\ UNCHANGED vars => Types'
<1> SUFFICES ASSUME Types, UNCHANGED vars PROVE Types'  OBVIOUS
<1>1. UNCHANGED <<text, pc, code, cwd, ga, stack, flags, out, md, partial>>  BY DEF vars
<1>2. Framed'
  <2>1. stack \in Seq(Frames) /\ FramesOK(stack, flags') /\ stack' = stack /\ text' = text
    BY <1>1 DEF Types, Framed
  <2> QED  BY <2>1, FramedNext DEF Types, Framed
<1>3. FlagsOK'  BY <1>1, SameFlags DEF Types
<1>4. PrintedOK'  BY <1>1, SamePrinted DEF Types, printed
<1> QED  BY <1>1, <1>2, <1>3, <1>4 DEF Types

LEMMA NextTypes == Types /\ [Next]_vars => Types'
<1> SUFFICES ASSUME Types, [Next]_vars PROVE Types'  OBVIOUS
<1>1. CASE Start  BY <1>1, StartTypes
<1>2. CASE CopyLine  BY <1>2, CopyLineTypes
<1>3. CASE DropLine  BY <1>3, DropLineTypes
<1>4. CASE BadLine  BY <1>4, BadLineDies, DiedTypes
<1>5. CASE Included  BY <1>5, IncludedTypes
<1>6. CASE Include  BY <1>6, IncludeTypes
<1>7. CASE IncludeDir  BY <1>7, IncludeDirTypes
<1>8. CASE NextEntry
  <2>1. /\ InDir /\ Running.next <= Len(Running.names)
        /\ Enter(cwd, Running.names[Running.next], Advanced)
    BY <1>8 DEF NextEntry
  <2>2. Running.names \in Seq(Names) /\ Running.next \in Nat \ {0}  BY <2>1, Dir1
  <2>3. Running.names[Running.next] \in Names  BY <2>1, <2>2
  <2> QED  BY <2>1, <2>3, EnterEntryTypes
<1>9. CASE PastEntries
  <2>1. CASE Die(111)
    <3>1. Died(111)  BY <2>1 DEF Die, Died
    <3> QED  BY <3>1, DiedTypes
  <2>2. CASE \E name \in Stale : Enter(cwd, name, Advanced)
    <3>1. PICK name \in Stale : Enter(cwd, name, Advanced)  BY <2>2
    <3>2. InDir /\ name \in Names  BY <1>9, PreprocessAssumption DEF PastEntries
    <3> QED  BY <3>1, <3>2, EnterEntryTypes
  <2> QED  BY <1>9, <2>1, <2>2 DEF PastEntries
<1>10. CASE EndOfDir  BY <1>10, PopDirTypes
<1>11. CASE EndOfFile  BY <1>11, PopFileTypes
<1>12. CASE Resume  BY <1>12, ResumeTypes
<1>13. CASE Finish
  <2>1. Types /\ UNCHANGED <<text, ga, code, cwd, stack, flags, printed>> /\ pc' = "done"
    BY <1>13 DEF Finish
  <2>2. Framed'
    <3>1. stack \in Seq(Frames) /\ FramesOK(stack, flags') /\ stack' = stack /\ text' = text
      BY <2>1 DEF Types, Framed
    <3> QED  BY <3>1, FramedNext DEF Types, Framed
  <2> QED  BY <2>1, <2>2, SameFlags, SamePrinted DEF Types
<1>14. CASE SystemCallFails
  <2>1. Died(111)  BY <1>14 DEF SystemCallFails, Die, Died
  <2> QED  BY <2>1, DiedTypes
<1>15. CASE UNCHANGED vars  BY <1>15, StillTypes
<1> QED  BY <1>1, <1>2, <1>3, <1>4, <1>5, <1>6, <1>7, <1>8, <1>9, <1>10, <1>11, <1>12,
            <1>13, <1>14, <1>15 DEF Next

\* The types hold of tipidee-config-preprocess for any files: no step reads a line
\* that is not in its file, or looks up flags that are not there.
THEOREM TypeCorrect == Spec => []TypeOK
<1>1. Spec => []Types  BY InitTypes, NextTypes, PTL DEF Spec
<1> QED  BY <1>1, TypesImply, PTL
-----------------------------------------------------------------------------
(* The places that conf_lexparse() has. *)

LEMMA LostFirst == ASSUME NEW f PROVE Lost([file |-> f, line |-> 1]) = {}
  BY DEF Lost

\* A printed line loses nothing, one that is not printed does, and the marker behind an
\* inclusion makes good what was lost.
LEMMA LostNext ==
  ASSUME NEW f \in Files, text[f] \in Seq(Line), NEW i \in DOMAIN text[f]
  PROVE  LET next == [file |-> f, line |-> i + 1]
         IN  /\ text[f][i].kind = "text" /\ Lost(next) = {} => Lost([file |-> f, line |-> i]) = {}
             /\ text[f][i].kind \in Unprinted => Lost(next) # {}
             /\ text[f][i].kind \in Inclusions => Lost(next) = {}
<1> DEFINE lines == text[f]
           here == [file |-> f, line |-> i]
           next == [file |-> f, line |-> i + 1]
<1>0. i \in Nat \ {0} /\ DOMAIN lines = 1..Len(lines)  OBVIOUS
<1>1. Lost(next) = {k \in 1..i : lines[k].kind \in Unprinted
                                   /\ \A j \in k..i : lines[j].kind \notin Inclusions}
  <2>1. next.file = f /\ next.line - 1 = i  BY <1>0
  <2> QED  BY <2>1 DEF Lost
<1>2. Lost(here) = {k \in 1..(i - 1) : lines[k].kind \in Unprinted
                                   /\ \A j \in k..(i - 1) : lines[j].kind \notin Inclusions}
  BY DEF Lost
<1>3. ASSUME lines[i].kind = "text", NEW k \in Lost(here) PROVE k \in Lost(next)
  <2>1. k \in 1..(i - 1) /\ lines[k].kind \in Unprinted
        /\ \A j \in k..(i - 1) : lines[j].kind \notin Inclusions
    BY <1>2, <1>3
  <2>2. k \in 1..i  BY <1>0, <2>1
  <2>3. ASSUME NEW j \in k..i PROVE lines[j].kind \notin Inclusions
    <3>1. CASE j = i  BY <1>3, <3>1 DEF Inclusions
    <3>2. CASE j # i
      <4>1. j \in k..(i - 1)  BY <1>0, <2>2, <3>2
      <4> QED  BY <2>1, <4>1
    <3> QED  BY <3>1, <3>2
  <2> QED  BY <1>1, <2>1, <2>2, <2>3
<1>4. ASSUME lines[i].kind \in Unprinted PROVE i \in Lost(next)
  <2>1. i \in 1..i  BY <1>0
  <2>2. ASSUME NEW j \in i..i PROVE lines[j].kind \notin Inclusions
    <3>1. j = i  BY <1>0
    <3> QED  BY <1>4, <3>1 DEF Unprinted, Inclusions
  <2> QED  BY <1>1, <1>4, <2>1, <2>2
<1>5. ASSUME lines[i].kind \in Inclusions, NEW k \in Lost(next) PROVE FALSE
  <2>1. k \in 1..i /\ \A j \in k..i : lines[j].kind \notin Inclusions  BY <1>1, <1>5
  <2>2. i \in k..i  BY <1>0, <2>1
  <2> QED  BY <1>5, <2>1, <2>2
<1> QED  BY <1>3, <1>4, <1>5

\* The place m is that of the line a frame is at.
AtPlace(frame, m) ==
  /\ m.file = frame.file /\ m.line <= frame.at
  /\ Lost([file |-> frame.file, line |-> frame.at]) = {} => m.line = frame.at

\* The frame on top reads lines.
Reads(s) == s # <<>> /\ IsFile(s[Len(s)]) /\ ~s[Len(s)].calling

TruePlaces ==
  \A k \in DOMAIN out :
    /\ out[k].as.file = out[k].of.file
    /\ Lost(out[k].of) = {} => out[k].as.line = out[k].of.line
    /\ out[k].as.line <= out[k].of.line

\* What PlaceIsTrue rests on: conf_lexparse() waits for the line the program is at.
Tracks ==
  AllEnded => /\ ~partial
              /\ Reads(stack) => AtPlace(Running, md)
              /\ TruePlaces

LEMMA TextStays == UNCHANGED text => (AllEnded' = AllEnded)
  BY DEF AllEnded

LEMMA PlaceStays ==
  ASSUME UNCHANGED text, NEW frame, NEW m
  PROVE  AtPlace(frame, m)' = AtPlace(frame, m)
  BY DEF AtPlace, Lost

LEMMA PlacesStay == UNCHANGED <<text, out>> => (TruePlaces' = TruePlaces)
  BY DEF TruePlaces, Lost

\* A step that prints no text.
LEMMA TracksNext ==
  ASSUME Tracks, UNCHANGED <<text, out>>,
         AllEnded /\ ~partial => ~partial',
         AllEnded /\ ~partial /\ (Reads(stack) => AtPlace(Running, md)) =>
           (Reads(stack') => AtPlace(stack'[Len(stack')], md'))
  PROVE  Tracks'
<1> SUFFICES ASSUME AllEnded'
             PROVE  ~partial' /\ (Reads(stack') => AtPlace(Running, md)') /\ TruePlaces'
  BY DEF Tracks, Reads, IsFile
<1>1. AllEnded  BY TextStays
<1>2. ~partial /\ (Reads(stack) => AtPlace(Running, md)) /\ TruePlaces  BY <1>1 DEF Tracks
<1>3. ~partial'  BY <1>1, <1>2
<1>4. TruePlaces'  BY <1>2, PlacesStay
<1>5. ASSUME Reads(stack') PROVE AtPlace(Running, md)'
  <2>1. AtPlace(stack'[Len(stack')], md')  BY <1>1, <1>2, <1>5
  <2> QED  BY <2>1 DEF AtPlace, Lost, Running
<1> QED  BY <1>3, <1>4, <1>5

LEMMA PrintedSame == UNCHANGED printed => UNCHANGED <<out, md, partial>>
  BY DEF printed

\* No stack reads whose last frame waits.
LEMMA NoReader ==
  ASSUME NEW s \in Seq(Frames), s # <<>> => Waits(s[Len(s)])
  PROVE  ~Reads(s)
  BY DEF Reads, Waits

LEMMA DiedTracks ==
  ASSUME Tracks, NEW e, Died(e)
  PROVE  Tracks'
<1>1. UNCHANGED <<text, stack, out, md, partial>>  BY PrintedSame DEF Died
<1> QED  BY <1>1, TracksNext DEF Running

LEMMA EnterTracks ==
  ASSUME Types, Tracks, NEW dir \in Dirs, NEW name \in Names,
         NEW callers \in Seq(Frames), callers # <<>>, AllWait(callers),
         Enter(dir, name, callers)
  PROVE  Tracks'
<1> DEFINE f == Entry[dir][name]
<1>1. CASE \E e \in {2, 111} : Died(e)  BY <1>1, DiedTracks
<1>2. CASE f \in Files /\ Skipped(dir, name, callers)
  <2>1. stack' = callers /\ UNCHANGED <<text, out, md, partial>>
    BY <1>2, PrintedSame DEF Skipped
  <2>2. Len(callers) \in DOMAIN callers  OBVIOUS
  <2>3. ~Reads(callers)  BY <2>2, NoReader DEF AllWait
  <2>4. ~Reads(stack')  BY <2>1, <2>3
  <2> QED  BY <2>1, <2>4, TracksNext
<1>3. CASE f \in Files /\ Entered(dir, name, callers)
  <2> DEFINE x == Frame(f, dir, 1, FALSE)
             s == Append(callers, x)
  <2>1. stack' = s /\ PrintMarker(f, 0) /\ UNCHANGED text  BY <1>3 DEF Entered
  <2>2. x \in Frames /\ x.file = f /\ x.at = 1 /\ IsFile(x)
    BY <1>3 DEF Frame, Frames, FileFrame, IsFile
  <2> HIDE DEF x
  <2>3. Len(s) = Len(callers) + 1 /\ s[Len(callers) + 1] = x  BY <2>2, Pushed
  <2> HIDE DEF s
  <2>4. stack'[Len(stack')] = x  BY <2>1, <2>3
  <2>5. ASSUME ~partial
        PROVE  AtPlace(x, md')
    <3>1. md' = [file |-> f, line |-> 0 + 1]  BY <2>1, <2>5 DEF PrintMarker
    <3>2. md'.file = f /\ md'.line = 1  BY <3>1
    <3> HIDE DEF f
    <3> QED  BY <2>2, <3>2 DEF AtPlace
  <2>6. ~partial' /\ UNCHANGED <<text, out>>  BY <2>1 DEF PrintMarker
  <2> QED  BY <2>4, <2>5, <2>6, TracksNext
<1> QED  BY <1>1, <1>2, <1>3, EnterWays

LEMMA PopTracks ==
  ASSUME Types, Tracks, stack # <<>>, stack' = Returned, UNCHANGED <<text, printed>>
  PROVE  Tracks'
<1>1. stack \in Seq(Frames)  BY DEF Types, Framed
<1>2. /\ Returned \in Seq(Frames) /\ Len(Returned) = Len(stack) - 1
      /\ \A i \in 1..(Len(stack) - 1) : Returned[i] = stack[i]
  BY <1>1, Popped
<1>3. DOMAIN stack = 1..Len(stack) /\ Len(stack) \in Nat  BY <1>1, Last
<1>4. ASSUME Returned # <<>> PROVE Waits(Returned[Len(Returned)])
  <2>1. Len(Returned) \in 1..(Len(stack) - 1) /\ Len(Returned) < Len(stack)
    BY <1>2, <1>3, <1>4
  <2>2. Len(Returned) \in DOMAIN stack  BY <1>3, <2>1
  <2>3. Returned[Len(Returned)] = stack[Len(Returned)]  BY <1>2, <2>1
  <2>4. Waits(stack[Len(Returned)])  BY <2>1, <2>2 DEF Types, Framed
  <2> QED  BY <2>3, <2>4
<1>5. ~Reads(Returned)  BY <1>2, <1>4, NoReader
<1>6. ~Reads(stack') /\ UNCHANGED <<text, out, md, partial>>  BY <1>5, PrintedSame
<1> QED  BY <1>6, TracksNext

LEMMA CopyLineTracks == Types /\ Tracks /\ CopyLine => Tracks'
<1> SUFFICES ASSUME Types, Tracks, CopyLine, AllEnded'
             PROVE  ~partial' /\ (Reads(stack') => AtPlace(Running, md)') /\ TruePlaces'
  BY DEF Tracks, Reads, IsFile
<1> DEFINE f == Running.file
           i == Running.at
           x == Frame(f, Running.dir, i + 1, FALSE)
<1>1. /\ AtLine /\ This.kind \in {"text", "tail"} /\ PrintText(Here, This.kind = "text")
      /\ stack' = SteppedOver /\ UNCHANGED text
  BY DEF CopyLine, StepOver
<1>2. AllEnded  BY <1>1, TextStays
<1>3. /\ i \in DOMAIN text[f] /\ i \in 1..Len(text[f]) /\ i + 1 \in 1..(Len(text[f]) + 1)
      /\ stack # <<>> /\ IsFile(Running) /\ ~Running.calling
      /\ Here = [file |-> f, line |-> i]
  BY <1>1, Line1
<1>4. f \in Files /\ Running.dir \in Dirs /\ i \in Nat \ {0} /\ text[f] \in Seq(Line)
  BY <1>3, Known1
<1>5. text[f][i].kind = "text" /\ This.kind = "text"
  BY <1>1, <1>2, <1>3, <1>4 DEF AllEnded, This
<1>6. ~partial /\ AtPlace(Running, md) /\ TruePlaces
  BY <1>2, <1>3 DEF Tracks, Reads, Running
<1>7. /\ out' = Append(out, [of |-> Here, as |-> md])
      /\ md' = [file |-> md.file, line |-> md.line + 1] /\ ~partial'
  BY <1>1, <1>5 DEF PrintText, NextLine
<1>8. /\ md.file = f /\ md.line <= i /\ md.line \in Nat
      /\ Lost(Here) = {} => md.line = i
  BY <1>3, <1>6 DEF AtPlace, Types, PrintedOK, Place
<1>9. AtPlace(Running, md)'
  <2>1. SteppedOver[Len(stack)] = x /\ Len(SteppedOver) = Len(stack)  BY <1>3, SteppedOK
  <2>2. Running' = x  BY <1>1, <2>1 DEF Running
  <2>3. x.file = f /\ x.at = i + 1  BY DEF Frame
  <2>4. Lost([file |-> f, line |-> i + 1]) = {} => Lost(Here) = {}
    BY <1>3, <1>4, <1>5, LostNext
  <2>5. md'.file = f /\ md'.line = md.line + 1  BY <1>7, <1>8
  <2>6. md'.line <= i + 1 /\ (Lost([file |-> f, line |-> i + 1]) = {} => md'.line = i + 1)
    BY <1>4, <1>8, <2>4, <2>5
  <2> HIDE DEF x, f, i
  <2>7. AtPlace(x, md')  BY <2>3, <2>5, <2>6 DEF AtPlace
  <2> QED  BY <1>1, <2>2, <2>7 DEF AtPlace, Lost
<1>10. TruePlaces'
  <2> DEFINE e == [of |-> Here, as |-> md]
  <2>1. out \in Seq([of : Place, as : Place])  BY DEF Types, PrintedOK
  <2>2. e.as.file = e.of.file /\ (Lost(e.of) = {} => e.as.line = e.of.line) /\ e.as.line <= e.of.line
    BY <1>3, <1>8
  <2>3. out' = Append(out, e)  BY <1>7
  <2> HIDE DEF e
  <2>4. ASSUME NEW k \in DOMAIN out'
        PROVE  /\ out'[k].as.file = out'[k].of.file
               /\ Lost(out'[k].of) = {} => out'[k].as.line = out'[k].of.line
               /\ out'[k].as.line <= out'[k].of.line
    <3>1. DOMAIN out' = 1..(Len(out) + 1) /\ Len(out) \in Nat /\ DOMAIN out = 1..Len(out)
      BY <2>1, <2>3
    <3>2. CASE k = Len(out) + 1
      <4>1. out'[k] = e  BY <2>1, <2>3, <3>2
      <4> QED  BY <2>2, <4>1
    <3>3. CASE k # Len(out) + 1
      <4>1. k \in 1..Len(out)  BY <2>4, <3>1, <3>3
      <4>2. out'[k] = out[k] /\ k \in DOMAIN out  BY <2>1, <2>3, <3>1, <4>1
      <4> QED  BY <1>6, <4>2 DEF TruePlaces
    <3> QED  BY <3>2, <3>3
  <2> QED  BY <1>1, <2>4 DEF TruePlaces, Lost
<1> QED  BY <1>7, <1>9, <1>10

\* A line that is not printed: conf_lexparse() stays behind.
LEMMA StepTracks ==
  ASSUME Types, Tracks, AtLine, This.kind \in Unprinted, stack' = SteppedOver,
         UNCHANGED <<text, printed>>
  PROVE  Tracks'
<1> DEFINE f == Running.file
           i == Running.at
           x == Frame(f, Running.dir, i + 1, FALSE)
<1>1. /\ i \in DOMAIN text[f] /\ i + 1 \in 1..(Len(text[f]) + 1)
      /\ stack # <<>> /\ IsFile(Running) /\ ~Running.calling
  BY Line1
<1>2. f \in Files /\ Running.dir \in Dirs /\ i \in Nat \ {0} /\ text[f] \in Seq(Line)
  BY <1>1, Known1
<1>3. SteppedOver[Len(stack)] = x /\ Len(SteppedOver) = Len(stack)  BY <1>1, SteppedOK
<1>4. stack'[Len(stack')] = x  BY <1>3
<1>5. x.file = f /\ x.at = i + 1  BY DEF Frame
<1>6. Lost([file |-> f, line |-> i + 1]) # {}  BY <1>1, <1>2, LostNext DEF This
<1>7. UNCHANGED <<text, out, md, partial>>  BY PrintedSame
<1>8. Reads(stack)  BY <1>1 DEF Reads, Running
<1> HIDE DEF x, f
<1>9. ASSUME AtPlace(Running, md) PROVE AtPlace(x, md')
  <2>1. md.file = f /\ md.line <= i /\ md' = md  BY <1>7, <1>9 DEF AtPlace, f
  <2>2. md.line \in Nat  BY DEF Types, PrintedOK, Place
  <2>3. md'.line <= i + 1  BY <1>2, <2>1, <2>2
  <2> HIDE DEF i
  <2> QED  BY <1>5, <1>6, <2>1, <2>3 DEF AtPlace
<1> QED  BY <1>4, <1>7, <1>8, <1>9, TracksNext

LEMMA ResumeTracks == Types /\ Tracks /\ Resume => Tracks'
<1> SUFFICES ASSUME Types, Tracks, Resume PROVE Tracks'  OBVIOUS
<1> DEFINE f == Running.file
           i == Running.at
           x == Frame(f, Running.dir, i + 1, FALSE)
<1>1. /\ stack # <<>> /\ IsFile(Running) /\ Running.calling
      /\ stack' = SteppedOver /\ PrintMarker(f, i) /\ UNCHANGED text
  BY DEF Resume, StepOver
<1>2. /\ f \in Files /\ Running.dir \in Dirs /\ i \in Nat \ {0} /\ text[f] \in Seq(Line)
      /\ i \in DOMAIN text[f]
  BY <1>1, Known1 DEF FrameOK
<1>3. i + 1 \in 1..(Len(text[f]) + 1)  BY <1>2
<1>4. SteppedOver[Len(stack)] = x /\ Len(SteppedOver) = Len(stack)  BY <1>1, <1>3, SteppedOK
<1>5. stack'[Len(stack')] = x  BY <1>1, <1>4
<1>6. x.file = f /\ x.at = i + 1  BY DEF Frame
<1>7. ~partial' /\ UNCHANGED <<text, out>>  BY <1>1 DEF PrintMarker
<1>8. ASSUME ~partial PROVE AtPlace(x, md')
  <2>1. md' = [file |-> f, line |-> i + 1]  BY <1>1, <1>8 DEF PrintMarker
  <2>2. md'.file = f /\ md'.line = i + 1  BY <2>1
  <2>3. i + 1 \in Nat /\ i + 1 <= i + 1  BY <1>2
  <2> HIDE DEF x, f, i
  <2> QED  BY <1>6, <2>2, <2>3 DEF AtPlace
<1> QED  BY <1>5, <1>7, <1>8, TracksNext

LEMMA InitTracks == Init => Tracks
  BY DEF Init, Tracks, Reads, TruePlaces

LEMMA NextTracks == Types /\ Tracks /\ [Next]_vars => Tracks'
<1> SUFFICES ASSUME Types, Tracks, [Next]_vars PROVE Tracks'  OBVIOUS
<1>1. CASE Start
  <2> DEFINE f == Entry[Top][Main]
             x == Frame(f, Top, 1, FALSE)
  <2>1. f \in Files /\ Top \in Dirs  BY PreprocessAssumption
  <2>2. stack' = <<x>> /\ PrintMarker(f, 0) /\ UNCHANGED text  BY <1>1 DEF Start
  <2>3. x.file = f /\ x.at = 1  BY DEF Frame
  <2> HIDE DEF x, f
  <2>4. stack'[Len(stack')] = x  BY <2>2
  <2>5. ASSUME ~partial PROVE AtPlace(x, md')
    <3>1. md' = [file |-> f, line |-> 0 + 1]  BY <2>2, <2>5 DEF PrintMarker
    <3>2. md'.file = f /\ md'.line = 1  BY <3>1
    <3> QED  BY <2>3, <3>2 DEF AtPlace
  <2>6. ~partial' /\ UNCHANGED <<text, out>>  BY <2>2 DEF PrintMarker
  <2> QED  BY <2>4, <2>5, <2>6, TracksNext
<1>2. CASE CopyLine  BY <1>2, CopyLineTracks
<1>3. CASE DropLine
  <2>1. This.kind \in Unprinted  BY <1>3 DEF DropLine, Unprinted
  <2> QED  BY <1>3, <2>1, StepTracks DEF DropLine, StepOver
<1>4. CASE BadLine  BY <1>4, BadLineDies, DiedTracks
<1>5. CASE Included
  <2>1. CASE Died(1)  BY <2>1, DiedTracks
  <2>2. CASE /\ AtLine /\ This.kind \in {"unique", "multiple"} /\ stack' = SteppedOver
             /\ UNCHANGED <<text, ga, pc, code, cwd, printed>>
    <3>1. This.kind \in Unprinted  BY <2>2 DEF Unprinted
    <3> QED  BY <2>2, <3>1, StepTracks
  <2> QED  BY <1>5, <2>1, <2>2, IncludedWays
<1>6. CASE Include
  <2> DEFINE dir == Cd[cwd][This.dir]
  <2>1. AtLine /\ This.kind \in Inclusions  BY <1>6 DEF Include, Inclusions
  <2>2. CASE dir = Missing /\ Die(111)
    <3>1. Died(111)  BY <2>2 DEF Die, Died
    <3> QED  BY <3>1, DiedTracks
  <2>3. CASE dir # Missing /\ Enter(dir, This.name, Calling)
    <3>0. This \in Line  BY <2>1, Line1
    <3>1. dir \in Dirs /\ This.name \in Names
      BY <3>0, <2>3, PreprocessAssumption DEF Line, Types
    <3>2. Calling \in Seq(Frames) /\ Calling # <<>> /\ AllWait(Calling)  BY <2>1, CallingOK
    <3>3. Enter(dir, This.name, Calling)  BY <2>3
    <3> HIDE DEF dir, Calling
    <3> QED  BY <3>1, <3>2, <3>3, EnterTracks
  <2> QED  BY <1>6, <2>2, <2>3 DEF Include
<1>7. CASE IncludeDir
  <2> DEFINE dir == Cd[cwd][This.dir]
  <2>1. AtLine /\ This.kind \in Inclusions  BY <1>7 DEF IncludeDir, Inclusions
  <2>2. CASE dir = Missing /\ Die(111)
    <3>1. Died(111)  BY <2>2 DEF Die, Died
    <3> QED  BY <3>1, DiedTracks
  <2>3. CASE /\ dir # Missing
             /\ stack' = Append(Calling, DirAt(Listing[dir], 1, ga))
             /\ UNCHANGED <<text, pc, code, flags, printed>>
    <3> DEFINE x == DirAt(Listing[dir], 1, ga)
    <3>0. This \in Line  BY <2>1, Line1
    <3>1. dir \in Dirs  BY <3>0, <2>3, PreprocessAssumption DEF Line, Types
    <3>2. Listing[dir] \in Seq(Names) /\ ga \in Nat  BY <3>1, PreprocessAssumption DEF Types
    <3>3. x \in Frames /\ ~IsFile(x)  BY <3>2, DirFrames
    <3>4. Calling \in Seq(Frames)  BY <2>1, CallingOK
    <3>5. stack' = Append(Calling, x)  BY <2>3
    <3> HIDE DEF x, Calling
    <3>6. stack'[Len(stack')] = x  BY <3>3, <3>4, <3>5, Pushed
    <3>7. ~Reads(stack')  BY <3>3, <3>6 DEF Reads
    <3>8. UNCHANGED <<text, out, md, partial>>  BY <2>3, PrintedSame
    <3> QED  BY <3>7, <3>8, TracksNext
  <2> QED  BY <1>7, <2>2, <2>3 DEF IncludeDir
<1>8. CASE NextEntry
  <2>1. /\ InDir /\ Running.next <= Len(Running.names)
        /\ Enter(cwd, Running.names[Running.next], Advanced)
    BY <1>8 DEF NextEntry
  <2>2. Running.names \in Seq(Names) /\ Running.next \in Nat \ {0}  BY <2>1, Dir1
  <2>3. Running.names[Running.next] \in Names /\ cwd \in Dirs  BY <2>1, <2>2 DEF Types
  <2>4. Advanced \in Seq(Frames) /\ Advanced # <<>> /\ AllWait(Advanced)  BY <2>1, AdvancedOK
  <2> HIDE DEF Advanced
  <2> QED  BY <2>1, <2>3, <2>4, EnterTracks
<1>9. CASE PastEntries
  <2>1. CASE Die(111)
    <3>1. Died(111)  BY <2>1 DEF Die, Died
    <3> QED  BY <3>1, DiedTracks
  <2>2. CASE \E name \in Stale : Enter(cwd, name, Advanced)
    <3>1. PICK name \in Stale : Enter(cwd, name, Advanced)  BY <2>2
    <3>2. InDir /\ name \in Names /\ cwd \in Dirs
      BY <1>9, PreprocessAssumption DEF PastEntries, Types
    <3>3. Advanced \in Seq(Frames) /\ Advanced # <<>> /\ AllWait(Advanced)
      BY <3>2, AdvancedOK
    <3> HIDE DEF Advanced
    <3> QED  BY <3>1, <3>2, <3>3, EnterTracks
  <2> QED  BY <1>9, <2>1, <2>2 DEF PastEntries
<1>10. CASE EndOfDir
  <2>1. stack # <<>> /\ stack' = Returned /\ UNCHANGED <<text, printed>>
    BY <1>10 DEF EndOfDir, InDir
  <2> QED  BY <2>1, PopTracks
<1>11. CASE EndOfFile
  <2>1. stack # <<>> /\ stack' = Returned /\ UNCHANGED <<text, printed>>
    BY <1>11 DEF EndOfFile
  <2> QED  BY <2>1, PopTracks
<1>12. CASE Resume  BY <1>12, ResumeTracks
<1>13. CASE Finish
  <2>1. UNCHANGED <<text, stack, out, md, partial>>  BY <1>13, PrintedSame DEF Finish
  <2> QED  BY <2>1, TracksNext DEF Running
<1>14. CASE SystemCallFails
  <2>1. Died(111)  BY <1>14 DEF SystemCallFails, Die, Died
  <2> QED  BY <2>1, DiedTracks
<1>15. CASE UNCHANGED vars
  <2>1. UNCHANGED <<text, stack, out, md, partial>>  BY <1>15 DEF vars
  <2> QED  BY <2>1, TracksNext DEF Running
<1> QED  BY <1>1, <1>2, <1>3, <1>4, <1>5, <1>6, <1>7, <1>8, <1>9, <1>10, <1>11, <1>12,
            <1>13, <1>14, <1>15 DEF Next

\* Whatever the files include, an error that conf_lexparse() reports is in the file it
\* names, and at the line it names when no line was left out since the last marker.
THEOREM TruePlace == Spec => []PlaceIsTrue
<1>1. Init => Types /\ Tracks  BY InitTypes, InitTracks
<1>2. Types /\ Tracks /\ [Next]_vars => (Types /\ Tracks)'  BY NextTypes, NextTracks
<1>3. Types /\ Tracks => PlaceIsTrue  BY DEF Tracks, TruePlaces, PlaceIsTrue
<1> QED  BY <1>1, <1>2, <1>3, PTL DEF Spec

-----------------------------------------------------------------------------
(***************************************************************************)
(* Cycles.  A file is closed when it was read to its end: what its lines   *)
(* lead to was closed before it.  So a file that is read again leads to    *)
(* files of a lower rank only, and to none that is open.  Where a line     *)
(* leads depends on the directory that its file was found in.              *)
(***************************************************************************)

Closed(fl, f) == f \in DOMAIN fl /\ "open" \notin fl[f]
AllClosed(fl, set) == \A f \in set : Closed(fl, f)
AsClosed(fl, more) == \A f \in Files : Closed(fl, f) <=> Closed(more, f)
MoreClosed(fl, more) == \A f \in Files : Closed(fl, f) => Closed(more, f)

\* The files that a line leads to, from a directory.
Targets(dir, line) ==
  {f \in Files :
     /\ Cd[dir][line.dir] # Missing
     /\ \/ line.kind = "include" /\ f = Entry[Cd[dir][line.dir]][line.name]
        \/ line.kind = "includedir" /\ f \in ListedIn(Cd[dir][line.dir])}

\* The line that a frame of a file is at, where it leads, and the directory it goes to.
LineOf(x) == text[x.file][x.at]
Aims(x) == Targets(x.dir, LineOf(x))
Below(x) == Cd[x.dir][LineOf(x).dir]

\* What the lines that a file has passed lead to was read.
Passed(fl, x) ==
  /\ \E name \in Names : Entry[x.dir][name] = x.file
  /\ \A i \in 1..(x.at - 1) : AllClosed(fl, Targets(x.dir, text[x.file][i]))

\* The entries of a directory up to the n-th.
EntriesClosed(fl, dir, names, n) ==
  \A m \in DOMAIN names : m <= n /\ Entry[dir][names[m]] \in Files => Closed(fl, Entry[dir][names[m]])

\* The frame of a directory is above that of the file that includes it, w.
DirHas(fl, w, x) == IsFile(w) /\ EntriesClosed(fl, Below(w), x.names, x.next - 2)

FrameHas(s, fl, k) ==
  /\ IsFile(s[k]) => Passed(fl, s[k])
  /\ ~IsFile(s[k]) => k # 1 /\ DirHas(fl, s[k - 1], s[k])

\* What is read for a frame, y: for that of a file, and for that of a directory.
FileWaits(x, y) ==
  /\ IsFile(y) => Aims(x) \subseteq {y.file}
  /\ ~IsFile(y) => /\ LineOf(x).kind = "includedir" /\ Below(x) \in Dirs
                   /\ y.names = Listing[Below(x)]

DirWaits(w, x, y) ==
  /\ IsFile(y) /\ y.dir = Below(w)
  /\ \A m \in DOMAIN x.names : m = x.next - 1 => y.file = Entry[Below(w)][x.names[m]]

FrameWaits(s, k) ==
  /\ IsFile(s[k]) => FileWaits(s[k], s[k + 1])
  /\ ~IsFile(s[k]) => DirWaits(s[k - 1], s[k], s[k + 1])

\* The frame on top: its inclusion is over, and the directory is the one it works in.
TopHas(s, fl, cw) ==
  LET x == s[Len(s)]
  IN  /\ IsFile(x) /\ x.calling => AllClosed(fl, Aims(x))
      /\ IsFile(x) /\ ~x.calling => cw = x.dir
      /\ ~IsFile(x) => /\ cw = Below(s[Len(s) - 1])
                       /\ EntriesClosed(fl, cw, x.names, x.next - 1)

\* The entries of each directory are in ga, one directory behind the other.
GaHas(s, g) ==
  \A j \in DOMAIN s : ~IsFile(s[j]) =>
    /\ s[j].base + Len(s[j].names) <= g
    /\ \A k \in DOMAIN s : ~IsFile(s[k]) /\ j < k => s[j].base + Len(s[j].names) <= s[k].base

\* A closed file leads to files that were closed before it.
Ranked(fl, rank, n) ==
  \A f \in Files : Closed(fl, f) =>
    /\ rank[f] < n
    /\ \A dir \in Dirs : (\E name \in Names : Entry[dir][name] = f) =>
         \A i \in DOMAIN text[f] : \A g \in Targets(dir, text[f][i]) :
           Closed(fl, g) /\ rank[g] < rank[f]

\* Each file that is being read is another one, and the closed ones are the last.
Nested(s, fl, rank) ==
  \A j, k \in DOMAIN s : j < k /\ IsFile(s[j]) /\ IsFile(s[k]) =>
    /\ s[j].file # s[k].file
    /\ Closed(fl, s[j].file) => Closed(fl, s[k].file) /\ rank[s[k].file] < rank[s[j].file]

Ordered(s, fl) ==
  \E rank \in [Files -> Nat], n \in Nat : Ranked(fl, rank, n) /\ Nested(s, fl, rank)

Held(s, fl, g) ==
  /\ \A k \in DOMAIN s : FrameHas(s, fl, k)
  /\ \A k \in DOMAIN s : k < Len(s) => FrameWaits(s, k)
  /\ GaHas(s, g)
  /\ Ordered(s, fl)

Includes(s, fl, cw, g) == Held(s, fl, g) /\ (s # <<>> => TopHas(s, fl, cw))

\* What NoFileInItself rests on.
Acyclic ==
  /\ pc = "start" => stack = <<>> /\ flags = <<>>
  /\ Includes(stack, flags, cwd, ga)

LEMMA MoreAll ==
  ASSUME NEW fl, NEW more, MoreClosed(fl, more), NEW set \in SUBSET Files, AllClosed(fl, set)
  PROVE  AllClosed(more, set)
<1> SUFFICES ASSUME NEW f \in set PROVE Closed(more, f)  BY DEF AllClosed
<1>1. Closed(fl, f) /\ f \in Files  BY DEF AllClosed
<1> QED  BY <1>1 DEF MoreClosed

LEMMA TargetsAreFiles == \A dir, line : Targets(dir, line) \in SUBSET Files
  BY DEF Targets

LEMMA MorePassed ==
  ASSUME NEW fl, NEW more, MoreClosed(fl, more), NEW x, Passed(fl, x)
  PROVE  Passed(more, x)
<1>1. \E name \in Names : Entry[x.dir][name] = x.file  BY DEF Passed
<1>2. ASSUME NEW i \in 1..(x.at - 1) PROVE AllClosed(more, Targets(x.dir, text[x.file][i]))
  <2>1. AllClosed(fl, Targets(x.dir, text[x.file][i]))  BY DEF Passed
  <2> QED  BY <2>1, MoreAll, TargetsAreFiles
<1> QED  BY <1>1, <1>2 DEF Passed

LEMMA MoreEntries ==
  ASSUME NEW fl, NEW more, MoreClosed(fl, more), NEW dir, NEW names, NEW n,
         EntriesClosed(fl, dir, names, n)
  PROVE  EntriesClosed(more, dir, names, n)
  BY DEF EntriesClosed, MoreClosed

LEMMA MoreHas ==
  ASSUME NEW fl, NEW more, MoreClosed(fl, more), NEW s, NEW k, FrameHas(s, fl, k)
  PROVE  FrameHas(s, more, k)
  BY MorePassed, MoreEntries DEF FrameHas, DirHas

LEMMA MoreTop ==
  ASSUME NEW fl, NEW more, MoreClosed(fl, more), NEW s, NEW cw, TopHas(s, fl, cw)
  PROVE  TopHas(s, more, cw)
<1> DEFINE x == s[Len(s)]
<1>1. ASSUME IsFile(x), x.calling PROVE AllClosed(more, Aims(x))
  <2>1. AllClosed(fl, Aims(x))  BY <1>1 DEF TopHas
  <2>2. Aims(x) \in SUBSET Files  BY TargetsAreFiles DEF Aims
  <2> QED  BY <2>1, <2>2, MoreAll
<1>2. ASSUME ~IsFile(x)
      PROVE  cw = Below(s[Len(s) - 1]) /\ EntriesClosed(more, cw, x.names, x.next - 1)
  BY <1>2, MoreEntries DEF TopHas
<1> QED  BY <1>1, <1>2 DEF TopHas

LEMMA OrderedAs ==
  ASSUME NEW s, NEW fl, NEW more, AsClosed(fl, more), Ordered(s, fl),
         \A k \in DOMAIN s : IsFile(s[k]) => s[k].file \in Files
  PROVE  Ordered(s, more)
<1>1. PICK rank \in [Files -> Nat], n \in Nat : Ranked(fl, rank, n) /\ Nested(s, fl, rank)
  BY DEF Ordered
<1>2. Ranked(more, rank, n)
  <2> SUFFICES ASSUME NEW f \in Files, Closed(more, f)
               PROVE  /\ rank[f] < n
                      /\ \A dir \in Dirs : (\E name \in Names : Entry[dir][name] = f) =>
                           \A i \in DOMAIN text[f] : \A g \in Targets(dir, text[f][i]) :
                             Closed(more, g) /\ rank[g] < rank[f]
    BY DEF Ranked
  <2>1. Closed(fl, f)  BY DEF AsClosed
  <2>2. rank[f] < n  BY <1>1, <2>1 DEF Ranked
  <2>3. ASSUME NEW dir \in Dirs, \E name \in Names : Entry[dir][name] = f,
               NEW i \in DOMAIN text[f], NEW g \in Targets(dir, text[f][i])
        PROVE  Closed(more, g) /\ rank[g] < rank[f]
    <3>1. Closed(fl, g) /\ rank[g] < rank[f]  BY <1>1, <2>1, <2>3 DEF Ranked
    <3>2. g \in Files  BY DEF Targets
    <3> QED  BY <3>1, <3>2 DEF AsClosed
  <2> QED  BY <2>2, <2>3
<1>3. Nested(s, more, rank)  BY <1>1 DEF Nested, AsClosed
<1> QED  BY <1>2, <1>3 DEF Ordered

\* A frame in the place of the last one, of the same file or the same directory.
LEMMA HeldReplaced ==
  ASSUME NEW s \in Seq(Frames), NEW t \in Seq(Frames), s # <<>>, Len(t) = Len(s),
         \A i \in 1..Len(s) : i # Len(s) => t[i] = s[i],
         NEW fl, NEW more, AsClosed(fl, more), NEW g, Held(s, fl, g),
         \/ /\ IsFile(s[Len(s)]) /\ IsFile(t[Len(s)])
            /\ t[Len(s)].file = s[Len(s)].file /\ t[Len(s)].dir = s[Len(s)].dir
         \/ /\ ~IsFile(s[Len(s)]) /\ ~IsFile(t[Len(s)])
            /\ t[Len(s)].names = s[Len(s)].names /\ t[Len(s)].base = s[Len(s)].base,
         FrameHas(t, more, Len(s))
  PROVE  Held(t, more, g)
<1> DEFINE n == Len(s)
<1>1. /\ n \in Nat \ {0} /\ DOMAIN s = 1..n /\ DOMAIN t = 1..n /\ Len(t) = n
      /\ \A i \in 1..n : i # n => t[i] = s[i]
      /\ FrameHas(t, more, n)
      /\ \A i \in 1..n : s[i] \in Frames
  OBVIOUS
<1>2. ASSUME NEW i \in 1..n
      PROVE  /\ IsFile(t[i]) <=> IsFile(s[i])
             /\ IsFile(s[i]) => t[i].file = s[i].file /\ t[i].dir = s[i].dir
             /\ ~IsFile(s[i]) => t[i].names = s[i].names /\ t[i].base = s[i].base
  <2>1. CASE i = n  BY <2>1
  <2>2. CASE i # n  BY <1>1, <2>2
  <2> QED  BY <2>1, <2>2
<1>3. MoreClosed(fl, more)  BY DEF AsClosed, MoreClosed
<1>4. ASSUME NEW k \in DOMAIN s, IsFile(s[k]) PROVE s[k].file \in Files
  <2>1. s[k] \in Frames  BY <1>1
  <2> QED  BY <1>4, <2>1, FrameKinds
<1> HIDE DEF n
<1>5. ASSUME NEW k \in 1..n PROVE FrameHas(t, more, k)
  <2>1. CASE k = n  BY <1>1, <2>1
  <2>2. CASE k # n
    <3>1. FrameHas(s, more, k)  BY <1>1, <1>3, MoreHas DEF Held
    <3>2. t[k] = s[k]  BY <1>1, <2>2
    <3>3. CASE k = 1  BY <3>1, <3>2, <3>3 DEF FrameHas
    <3>4. CASE k # 1
      <4>1. k - 1 \in 1..n /\ k - 1 # n  BY <1>1, <3>4
      <4>2. t[k - 1] = s[k - 1]  BY <1>1, <4>1
      <4> QED  BY <3>1, <3>2, <4>2 DEF FrameHas
    <3> QED  BY <3>3, <3>4
  <2> QED  BY <2>1, <2>2
<1>6. ASSUME NEW k \in 1..n, k < n PROVE FrameWaits(t, k)
  <2>0. k \in DOMAIN s /\ k < Len(s)  BY <1>1, <1>6 DEF n
  <2>1. FrameWaits(s, k) /\ FrameHas(s, fl, k)  BY <2>0 DEF Held
  <2>2. t[k] = s[k] /\ k + 1 \in 1..n  BY <1>1, <1>6
  <2>3. ASSUME IsFile(s[k]) PROVE FileWaits(t[k], t[k + 1])
    <3>1. FileWaits(s[k], s[k + 1])  BY <2>1, <2>3 DEF FrameWaits
    <3> QED  BY <1>2, <2>2, <3>1 DEF FileWaits
  <2>4. ASSUME ~IsFile(s[k]) PROVE DirWaits(t[k - 1], t[k], t[k + 1])
    <3>1. DirWaits(s[k - 1], s[k], s[k + 1])  BY <2>1, <2>4 DEF FrameWaits
    <3>2. k # 1  BY <2>1, <2>4 DEF FrameHas
    <3>3. k - 1 \in 1..n /\ k - 1 # n  BY <1>1, <1>6, <3>2
    <3>4. t[k - 1] = s[k - 1]  BY <1>1, <3>3
    <3> QED  BY <1>2, <2>2, <3>1, <3>4 DEF DirWaits
  <2> QED  BY <2>2, <2>3, <2>4 DEF FrameWaits
<1>7. GaHas(t, g)
  <2>1. GaHas(s, g)  BY DEF Held
  <2> QED  BY <1>1, <1>2, <2>1 DEF GaHas
<1>8. Ordered(t, more)
  <2>1. Ordered(s, more)  BY <1>4, OrderedAs DEF Held
  <2>2. PICK rank \in [Files -> Nat], m \in Nat : Ranked(more, rank, m) /\ Nested(s, more, rank)
    BY <2>1 DEF Ordered
  <2>3. Nested(t, more, rank)  BY <1>1, <1>2, <2>2 DEF Nested
  <2> QED  BY <2>2, <2>3 DEF Ordered
<1> QED  BY <1>1, <1>5, <1>6, <1>7, <1>8 DEF Held

\* A frame behind the last one.
LEMMA HeldPushed ==
  ASSUME NEW s \in Seq(Frames), s # <<>>, NEW y \in Frames, NEW t, t = Append(s, y),
         NEW fl, NEW more, MoreClosed(fl, more), NEW g, NEW h, Held(s, fl, g),
         FrameHas(t, more, Len(s) + 1), FrameWaits(t, Len(s)),
         GaHas(t, h), Ordered(t, more)
  PROVE  Held(t, more, h)
<1> DEFINE n == Len(s)
<1>1. /\ n \in Nat \ {0} /\ DOMAIN s = 1..n /\ DOMAIN t = 1..(n + 1) /\ Len(t) = n + 1
      /\ \A i \in 1..n : t[i] = s[i]
      /\ FrameHas(t, more, n + 1) /\ FrameWaits(t, n)
  BY Pushed
<1> HIDE DEF n
<1>2. ASSUME NEW k \in 1..(n + 1) PROVE FrameHas(t, more, k)
  <2>1. CASE k = n + 1  BY <1>1, <2>1
  <2>2. CASE k # n + 1
    <3>1. k \in 1..n  BY <1>1, <2>2
    <3>2. FrameHas(s, more, k) /\ t[k] = s[k]  BY <1>1, <3>1, MoreHas DEF Held
    <3>3. k # 1 => t[k - 1] = s[k - 1]  BY <1>1, <3>1
    <3> QED  BY <3>2, <3>3 DEF FrameHas
  <2> QED  BY <2>1, <2>2
<1>3. ASSUME NEW k \in 1..(n + 1), k < n + 1 PROVE FrameWaits(t, k)
  <2>1. CASE k = n  BY <1>1, <2>1
  <2>2. CASE k # n
    <3>1. k \in 1..n /\ k < n /\ k + 1 \in 1..n  BY <1>1, <1>3, <2>2
    <3>2. FrameWaits(s, k) /\ FrameHas(s, fl, k)  BY <1>1, <3>1 DEF Held, n
    <3>3. t[k] = s[k] /\ t[k + 1] = s[k + 1]  BY <1>1, <3>1
    <3>4. k # 1 => t[k - 1] = s[k - 1]  BY <1>1, <3>1
    <3> QED  BY <3>2, <3>3, <3>4 DEF FrameWaits, FrameHas
  <2> QED  BY <2>1, <2>2
<1> QED  BY <1>1, <1>2, <1>3 DEF Held

\* One frame less.
LEMMA HeldPopped ==
  ASSUME NEW s \in Seq(Frames), NEW t \in Seq(Frames), s # <<>>, Len(t) = Len(s) - 1,
         \A i \in 1..(Len(s) - 1) : t[i] = s[i],
         NEW fl, NEW more, MoreClosed(fl, more), NEW g, NEW h, Held(s, fl, g),
         GaHas(t, h), Ordered(t, more)
  PROVE  Held(t, more, h)
<1> DEFINE n == Len(s) - 1
<1>1. /\ n \in Nat /\ DOMAIN s = 1..(n + 1) /\ DOMAIN t = 1..n /\ Len(t) = n /\ Len(s) = n + 1
      /\ \A i \in 1..n : t[i] = s[i]
  OBVIOUS
<1> HIDE DEF n
<1>2. ASSUME NEW k \in 1..n
      PROVE  FrameHas(t, more, k) /\ (k < n => FrameWaits(t, k))
  <2>1. k \in DOMAIN s /\ k < Len(s) /\ t[k] = s[k]  BY <1>1
  <2>2. FrameHas(s, fl, k) /\ FrameHas(s, more, k) /\ FrameWaits(s, k)  BY <2>1, MoreHas DEF Held
  <2>3. k # 1 => t[k - 1] = s[k - 1]  BY <1>1
  <2>4. k < n => t[k + 1] = s[k + 1]  BY <1>1
  <2> QED  BY <2>1, <2>2, <2>3, <2>4 DEF FrameHas, FrameWaits
<1> QED  BY <1>1, <1>2 DEF Held

LEMMA PassedStays ==
  ASSUME UNCHANGED text, NEW fl, NEW x, Passed(fl, x)
  PROVE  Passed(fl, x)'
<1>1. \A i \in 1..(x.at - 1) : AllClosed(fl, Targets(x.dir, text[x.file][i]))'
  <2> SUFFICES ASSUME NEW i \in 1..(x.at - 1), NEW f \in Targets(x.dir, text'[x.file][i])
               PROVE  Closed(fl, f)
    BY DEF AllClosed, Closed, Targets
  <2>1. f \in Targets(x.dir, text[x.file][i])  OBVIOUS
  <2> QED  BY <2>1 DEF Passed, AllClosed
<1> QED  BY <1>1 DEF Passed

LEMMA HasStays ==
  ASSUME UNCHANGED text, NEW s, NEW fl, NEW k, FrameHas(s, fl, k)
  PROVE  FrameHas(s, fl, k)'
<1>1. IsFile(s[k]) => Passed(fl, s[k])'  BY PassedStays DEF FrameHas
<1>2. ~IsFile(s[k]) => k # 1 /\ DirHas(fl, s[k - 1], s[k])'
  BY DEF FrameHas, DirHas, EntriesClosed, Closed, Below, LineOf
<1> QED  BY <1>1, <1>2 DEF FrameHas

LEMMA AcyclicNext ==
  ASSUME NEW s, NEW fl, NEW cw, NEW g, Includes(s, fl, cw, g),
         stack' = s, flags' = fl, cwd' = cw, ga' = g, text' = text, pc' # "start"
  PROVE  Acyclic'
<1>1. (\A k \in DOMAIN stack : FrameHas(stack, flags, k))'
  <2>1. \A k \in DOMAIN s : FrameHas(s, fl, k)  BY DEF Includes, Held
  <2>2. \A k \in DOMAIN s : FrameHas(s, fl, k)'  BY <2>1, HasStays
  <2> QED  BY <2>2 DEF FrameHas, Passed, DirHas
<1>2. (\A k \in DOMAIN stack : k < Len(stack) => FrameWaits(stack, k))'
  <2>1. \A k \in DOMAIN s : k < Len(s) => FrameWaits(s, k)  BY DEF Includes, Held
  <2> QED  BY <2>1 DEF FrameWaits, FileWaits, DirWaits, Aims, Below, LineOf, Targets
<1>3. GaHas(stack, ga)'  BY DEF Includes, Held, GaHas
<1>4. Ordered(stack, flags)'
  <2>1. Ordered(s, fl)  BY DEF Includes, Held
  <2> QED  BY <2>1 DEF Ordered, Ranked, Nested, Targets, Closed
<1>5. (stack # <<>> => TopHas(stack, flags, cwd))'
  <2>1. s # <<>> => TopHas(s, fl, cw)  BY DEF Includes
  <2> QED  BY <2>1 DEF TopHas, AllClosed, Closed, Aims, Below, LineOf, Targets, EntriesClosed
<1> QED  BY <1>1, <1>2, <1>3, <1>4, <1>5 DEF Acyclic, Includes, Held

LEMMA SameAcyclic ==
  ASSUME Acyclic, UNCHANGED <<text, ga, cwd, stack, flags>>, pc' # "start" \/ pc' = pc
  PROVE  Acyclic'
<1>1. Includes(stack, flags, cwd, ga)  BY DEF Acyclic
<1>2. CASE pc' # "start"  BY <1>1, <1>2, AcyclicNext
<1>3. CASE pc' = pc
  <2>1. CASE pc = "start"
    <3>1. stack = <<>> /\ flags = <<>>  BY <2>1 DEF Acyclic
    <3>2. Ordered(<<>>, <<>>)'
      <4>1. Ordered(<<>>, <<>>)  BY <1>1, <3>1 DEF Includes, Held
      <4> QED  BY <4>1 DEF Ordered, Ranked, Nested, Targets, Closed
    <3>3. Held(stack, flags, ga)'
      BY <3>1, <3>2 DEF Held, GaHas
    <3> QED  BY <1>3, <2>1, <3>1, <3>3 DEF Acyclic, Includes
  <2>2. CASE pc # "start"  BY <1>1, <1>3, <2>2, AcyclicNext
  <2> QED  BY <2>1, <2>2
<1> QED  BY <1>2, <1>3

LEMMA DiedAcyclic ==
  ASSUME Acyclic, NEW e, Died(e)
  PROVE  Acyclic'
  BY SameAcyclic DEF Died

\* A file on top: one that is new, or closed, and that the file below leads to.
LEMMA OrderedPushed ==
  ASSUME NEW c \in Seq(Frames), NEW x \in Frames, IsFile(x), NEW t, t = Append(c, x),
         NEW fl, NEW more, AsClosed(fl, more), Ordered(c, fl),
         Closed(fl, x.file) \/ x.file \notin DOMAIN fl,
         \A j \in DOMAIN c : IsFile(c[j]) => c[j].file \in DOMAIN fl,
         NEW m \in DOMAIN c, IsFile(c[m]), c[m].at \in DOMAIN text[c[m].file],
         Passed(fl, c[m]), x.file \in Aims(c[m]),
         \A j \in DOMAIN c : IsFile(c[j]) => j <= m
  PROVE  Ordered(t, more)
<1>0. /\ Len(c) \in Nat /\ DOMAIN c = 1..Len(c) /\ DOMAIN t = 1..(Len(c) + 1)
      /\ \A i \in 1..Len(c) : t[i] = c[i]
      /\ t[Len(c) + 1] = x
  BY Pushed
<1>1. ASSUME NEW j \in DOMAIN c, IsFile(c[j]) PROVE c[j].file \in Files /\ c[j].dir \in Dirs
  <2>1. c[j] \in Frames  OBVIOUS
  <2> QED  BY <1>1, <2>1, FrameKinds
<1>2. x.file \in Files  BY FrameKinds
<1>3. Ordered(c, more)  BY <1>1, OrderedAs
<1>4. PICK rank \in [Files -> Nat], n \in Nat : Ranked(more, rank, n) /\ Nested(c, more, rank)
  BY <1>3 DEF Ordered
<1>5. ASSUME NEW j \in DOMAIN c, IsFile(c[j]), Closed(more, c[j].file)
      PROVE  Closed(more, x.file) /\ rank[x.file] < rank[c[j].file]
  <2>1. Closed(more, c[m].file) /\ (j # m => rank[c[m].file] < rank[c[j].file])
    <3>1. CASE j = m  BY <1>5, <3>1
    <3>2. CASE j # m
      <4>1. j < m  BY <1>0, <1>5, <3>2
      <4> QED  BY <1>4, <1>5, <4>1 DEF Nested
    <3> QED  BY <3>1, <3>2
  <2>2. c[m].file \in Files /\ c[m].dir \in Dirs  BY <1>1
  <2>3. \E name \in Names : Entry[c[m].dir][name] = c[m].file  BY DEF Passed
  <2>4. x.file \in Targets(c[m].dir, text[c[m].file][c[m].at])  BY DEF Aims, LineOf
  <2>5. Closed(more, x.file) /\ rank[x.file] < rank[c[m].file]
    BY <1>4, <2>1, <2>2, <2>3, <2>4 DEF Ranked
  <2>6. /\ rank[x.file] \in Nat /\ rank[c[m].file] \in Nat
        /\ rank[c[j].file] \in Nat
    BY <1>1, <1>2, <1>5
  <2> QED  BY <2>1, <2>5, <2>6
<1>6. ASSUME NEW j \in DOMAIN c, IsFile(c[j]) PROVE c[j].file # x.file
  <2>1. CASE Closed(fl, x.file)
    <3>1. Closed(more, x.file)  BY <1>2, <2>1 DEF AsClosed
    <3>2. CASE Closed(more, c[j].file)
      <4>1. rank[x.file] < rank[c[j].file] /\ rank[x.file] \in Nat  BY <1>2, <1>5, <1>6, <3>2
      <4> QED  BY <4>1
    <3> QED  BY <3>1, <3>2
  <2>2. CASE x.file \notin DOMAIN fl  BY <1>6, <2>2
  <2> QED  BY <2>1, <2>2
<1>7. Nested(t, more, rank)
  <2> SUFFICES ASSUME NEW j \in DOMAIN t, NEW k \in DOMAIN t, j < k, IsFile(t[j]), IsFile(t[k])
               PROVE  /\ t[j].file # t[k].file
                      /\ Closed(more, t[j].file) =>
                           Closed(more, t[k].file) /\ rank[t[k].file] < rank[t[j].file]
    BY DEF Nested
  <2>1. j \in DOMAIN c /\ t[j] = c[j]  BY <1>0
  <2>2. CASE k = Len(c) + 1
    <3>1. t[k] = x  BY <1>0, <2>2
    <3> QED  BY <1>5, <1>6, <2>1, <3>1
  <2>3. CASE k # Len(c) + 1
    <3>1. k \in DOMAIN c /\ t[k] = c[k]  BY <1>0, <2>3
    <3> QED  BY <1>4, <2>1, <3>1 DEF Nested
  <2> QED  BY <2>2, <2>3
<1> QED  BY <1>4, <1>7 DEF Ordered

\* A directory on top, or nothing.
LEMMA OrderedFewer ==
  ASSUME NEW s, NEW t, NEW fl, Ordered(s, fl),
         \A j \in DOMAIN t : IsFile(t[j]) => j \in DOMAIN s /\ t[j] = s[j]
  PROVE  Ordered(t, fl)
<1>1. PICK rank \in [Files -> Nat], n \in Nat : Ranked(fl, rank, n) /\ Nested(s, fl, rank)
  BY DEF Ordered
<1>2. Nested(t, fl, rank)  BY <1>1 DEF Nested
<1> QED  BY <1>1, <1>2 DEF Ordered

\* What is known of the files of a stack.
LEMMA FileHas ==
  ASSUME NEW c \in Seq(Frames), FramesOK(c, flags), NEW g, Held(c, flags, g),
         NEW m \in DOMAIN c, IsFile(c[m])
  PROVE  /\ c[m].file \in Files /\ c[m].file \in DOMAIN flags /\ c[m].dir \in Dirs
         /\ c[m].calling => c[m].at \in DOMAIN text[c[m].file]
         /\ Passed(flags, c[m])
<1>1. c[m] \in Frames  OBVIOUS
<1>2. FrameOK(c[m], flags) /\ FrameHas(c, flags, m)  BY DEF FramesOK, Held
<1> QED  BY <1>1, <1>2, FrameKinds DEF FrameOK, FrameHas

LEMMA EnterAcyclic ==
  ASSUME Types, Acyclic, pc = "run", NEW dir \in Dirs, NEW name \in Names,
         NEW c \in Seq(Frames), c # <<>>, FramesOK(c, flags), Held(c, flags, ga),
         Enter(dir, name, c),
         NEW m \in DOMAIN c, IsFile(c[m]), c[m].calling,
         \A j \in DOMAIN c : IsFile(c[j]) => j <= m,
         Entry[dir][name] \in Files => Entry[dir][name] \in Aims(c[m]),
         Closed(flags, Entry[dir][name]) => TopHas(c, flags, dir),
         IsFile(c[Len(c)]) => Aims(c[Len(c)]) \subseteq {Entry[dir][name]},
         ~IsFile(c[Len(c)]) =>
           /\ dir = Below(c[Len(c) - 1])
           /\ \A k \in DOMAIN c[Len(c)].names :
                k = c[Len(c)].next - 1 => Entry[dir][name] = Entry[dir][c[Len(c)].names[k]]
  PROVE  Acyclic'
<1> DEFINE f == Entry[dir][name]
           n == Len(c)
<1>1. CASE \E e \in {2, 111} : Died(e)  BY <1>1, DiedAcyclic
<1>2. CASE f \in Files /\ Skipped(dir, name, c)
  <2>1. cwd' = dir /\ stack' = c /\ UNCHANGED <<text, ga, pc, flags>>  BY <1>2 DEF Skipped
  <2>2. TopHas(c, flags, dir)  BY <1>2 DEF Skipped, Closed
  <2>3. Includes(c, flags, dir, ga)  BY <2>2 DEF Includes
  <2>4. pc' # "start"  BY <2>1
  <2> HIDE DEF f, n
  <2> QED  BY <2>1, <2>3, <2>4, AcyclicNext
<1>3. CASE f \in Files /\ Entered(dir, name, c)
  <2> DEFINE x == Frame(f, dir, 1, FALSE)
             t == Append(c, x)
  <2>1. /\ cwd' = dir /\ stack' = t /\ UNCHANGED <<text, ga, pc>>
        /\ \/ f \in DOMAIN flags /\ flags[f] = {"multiple"} /\ flags' = flags
           \/ f \notin DOMAIN flags /\ flags' = WithFlags(f, {"open"})
    BY <1>3 DEF Entered
  <2>2. /\ x \in Frames /\ IsFile(x) /\ x.file = f /\ x.dir = dir /\ x.at = 1 /\ x.calling = FALSE
    BY <1>3 DEF Frame, Frames, FileFrame, IsFile
  <2>3. AsClosed(flags, flags') /\ (Closed(flags, f) \/ f \notin DOMAIN flags)
    <3>1. CASE f \in DOMAIN flags /\ flags[f] = {"multiple"} /\ flags' = flags
      BY <3>1 DEF AsClosed, Closed
    <3>2. CASE f \notin DOMAIN flags /\ flags' = WithFlags(f, {"open"})
      <4>1. /\ DOMAIN flags' = DOMAIN flags \cup {f}
            /\ \A h \in DOMAIN flags' : flags'[h] = IF h = f THEN {"open"} ELSE flags[h]
        BY <3>2 DEF WithFlags
      <4> HIDE DEF f
      <4> QED  BY <3>2, <4>1 DEF AsClosed, Closed
    <3> QED  BY <2>1, <3>1, <3>2
  <2>4. MoreClosed(flags, flags')  BY <2>3 DEF AsClosed, MoreClosed
  <2> HIDE DEF x
  <2>5. /\ n \in Nat \ {0} /\ DOMAIN c = 1..n
        /\ t \in Seq(Frames) /\ Len(t) = n + 1 /\ DOMAIN t = 1..(n + 1) /\ t # <<>>
        /\ \A i \in 1..n : t[i] = c[i]
        /\ t[n + 1] = x
    BY <2>2, Pushed
  <2>6. t = Append(c, x)  OBVIOUS
  <2> HIDE DEF t
  <2>7. FrameHas(t, flags', n + 1)
    <3>1. Entry[x.dir][name] = x.file  BY <2>2
    <3>2. Passed(flags', x)  BY <2>2, <3>1 DEF Passed
    <3> QED  BY <2>2, <2>5, <3>2 DEF FrameHas
  <2>8. FrameWaits(t, n)
    <3>1. n \in 1..n /\ t[n] = c[n] /\ t[n + 1] = x  BY <2>5
    <3>2. ASSUME IsFile(c[n]) PROVE FileWaits(c[n], x)  BY <2>2, <3>2 DEF FileWaits
    <3>3. ASSUME ~IsFile(c[n]) PROVE DirWaits(t[n - 1], c[n], x)
      <4>1. n # 1
        <5>1. FrameHas(c, flags, n)  BY <2>5, <3>1 DEF Held
        <5> QED  BY <3>3, <5>1 DEF FrameHas
      <4>2. t[n - 1] = c[n - 1]  BY <2>5, <4>1
      <4> QED  BY <2>2, <3>3, <4>2 DEF DirWaits
    <3> QED  BY <3>1, <3>2, <3>3 DEF FrameWaits
  <2>9. GaHas(t, ga)
    <3>1. GaHas(c, ga)  BY DEF Held
    <3>2. \A j \in DOMAIN t : ~IsFile(t[j]) => j \in DOMAIN c /\ t[j] = c[j]
      BY <2>2, <2>5
    <3> QED  BY <3>1, <3>2 DEF GaHas
  <2>10. Ordered(t, flags')
    <3>1. Ordered(c, flags)  BY DEF Held
    <3>2. ASSUME NEW j \in DOMAIN c, IsFile(c[j]) PROVE c[j].file \in DOMAIN flags
      BY <3>2, FileHas
    <3>3. c[m].at \in DOMAIN text[c[m].file] /\ Passed(flags, c[m])  BY FileHas
    <3>4. x.file \in Aims(c[m]) /\ (Closed(flags, x.file) \/ x.file \notin DOMAIN flags)
      BY <1>3, <2>2, <2>3
    <3> QED  BY <2>2, <2>3, <2>6, <3>1, <3>2, <3>3, <3>4, OrderedPushed
  <2>11. Held(t, flags', ga)  BY <2>2, <2>4, <2>6, <2>7, <2>8, <2>9, <2>10, HeldPushed
  <2>12. TopHas(t, flags', dir)  BY <2>2, <2>5 DEF TopHas
  <2>13. Includes(t, flags', dir, ga)  BY <2>11, <2>12 DEF Includes
  <2>14. pc' # "start"  BY <2>1
  <2>15. stack' = t /\ cwd' = dir /\ ga' = ga /\ text' = text  BY <2>1
  <2> QED  BY <2>13, <2>14, <2>15, AcyclicNext
<1> QED  BY <1>1, <1>2, <1>3, EnterWays

LEMMA StackIs == Types => stack \in Seq(Frames) /\ FramesOK(stack, flags)
  BY DEF Types, Framed

\* A line that includes something: the file waits.
LEMMA CallingHeld ==
  ASSUME Types, Acyclic, AtLine, This.kind \in Inclusions
  PROVE  LET w == Calling[Len(stack)]
         IN  /\ Held(Calling, flags, ga)
             /\ IsFile(w) /\ w.calling /\ w.dir = cwd /\ LineOf(w) = This
             /\ Below(w) = Cd[cwd][This.dir] /\ Aims(w) = Targets(cwd, This)
<1> DEFINE n == Len(stack)
           w == Frame(Running.file, Running.dir, Running.at, TRUE)
<1>1. /\ Running.file \in Files /\ Running.dir \in Dirs /\ Running.at \in Nat
      /\ stack # <<>> /\ IsFile(Running) /\ ~Running.calling
  BY Known1, Line1
<1>2. /\ IsFile(w) /\ w.file = Running.file /\ w.dir = Running.dir /\ w.at = Running.at
      /\ w.calling = TRUE
  BY <1>1 DEF Frame, FileFrame, IsFile
<1> HIDE DEF w
<1>3. /\ Calling \in Seq(Frames) /\ Len(Calling) = n
      /\ \A i \in 1..n : i # n => Calling[i] = stack[i]
      /\ Calling[n] = w
  BY CallingOK DEF w
<1>4. stack \in Seq(Frames) /\ n \in DOMAIN stack /\ stack[n] = Running
  BY <1>1, StackIs, Last DEF Running
<1>5. Held(stack, flags, ga) /\ TopHas(stack, flags, cwd)
  BY <1>1 DEF Acyclic, Includes
<1>6. cwd = Running.dir  BY <1>1, <1>4, <1>5 DEF TopHas
<1>7. FrameHas(Calling, flags, n)
  <2>1. Passed(flags, Running)  BY <1>1, <1>4, <1>5 DEF Held, FrameHas
  <2>2. Passed(flags, w)  BY <1>2, <2>1 DEF Passed
  <2> QED  BY <1>2, <1>3, <2>2 DEF FrameHas
<1>8. AsClosed(flags, flags)  BY DEF AsClosed
<1>9. Held(Calling, flags, ga)
  <2> HIDE DEF Calling
  <2> QED  BY <1>1, <1>2, <1>3, <1>4, <1>5, <1>7, <1>8, HeldReplaced
<1>10. LineOf(w) = This  BY <1>2 DEF LineOf, This
<1> QED  BY <1>2, <1>3, <1>6, <1>9, <1>10 DEF Below, Aims

LEMMA IncludeAcyclic == Types /\ Acyclic /\ Include => Acyclic'
<1> SUFFICES ASSUME Types, Acyclic, Include PROVE Acyclic'  OBVIOUS
<1> DEFINE dir == Cd[cwd][This.dir]
           f == Entry[dir][This.name]
           n == Len(stack)
<1>1. AtLine /\ This.kind = "include" /\ This.kind \in Inclusions  BY DEF Include, Inclusions
<1>2. CASE dir = Missing /\ Die(111)
  <2>1. Died(111)  BY <1>2 DEF Die, Died
  <2> QED  BY <2>1, DiedAcyclic
<1>3. CASE dir # Missing /\ Enter(dir, This.name, Calling)
  <2>0. This \in Line /\ pc = "run"  BY <1>1, Line1 DEF AtLine
  <2>1. dir \in Dirs /\ This.name \in Names  BY <1>3, <2>0, PreprocessAssumption DEF Line, Types
  <2>2. /\ Calling \in Seq(Frames) /\ Calling # <<>> /\ Len(Calling) = n
        /\ DOMAIN Calling = 1..n /\ FramesOK(Calling, flags)
    BY <1>1, CallingOK
  <2>3. /\ Held(Calling, flags, ga) /\ IsFile(Calling[n]) /\ Calling[n].calling
        /\ Aims(Calling[n]) = Targets(cwd, This)
    BY <1>1, CallingHeld
  <2>4. /\ Targets(cwd, This) \subseteq {f}
        /\ f \in Files => f \in Targets(cwd, This)
    BY <1>1, <1>3 DEF Targets
  <2>5. Enter(dir, This.name, Calling)  BY <1>3
  <2>6. n \in Nat \ {0} /\ n \in DOMAIN Calling /\ \A j \in DOMAIN Calling : j <= n
    BY <2>2
  <2> HIDE DEF dir, Calling, n
  <2>7. Closed(flags, f) => TopHas(Calling, flags, dir)
    <3>1. Closed(flags, f) => AllClosed(flags, Aims(Calling[n]))  BY <2>3, <2>4 DEF AllClosed
    <3> QED  BY <2>2, <2>3, <3>1 DEF TopHas
  <2>8. IsFile(Calling[Len(Calling)]) /\ Aims(Calling[Len(Calling)]) \subseteq {f}
    BY <2>2, <2>3, <2>4
  <2>9. f \in Files => f \in Aims(Calling[n])  BY <2>3, <2>4
  <2> HIDE DEF f
  <2> QED  BY <2>0, <2>1, <2>2, <2>3, <2>5, <2>6, <2>7, <2>8, <2>9, EnterAcyclic DEF f
<1> QED  BY <1>2, <1>3 DEF Include

LEMMA IncludeDirAcyclic == Types /\ Acyclic /\ IncludeDir => Acyclic'
<1> SUFFICES ASSUME Types, Acyclic, IncludeDir PROVE Acyclic'  OBVIOUS
<1> DEFINE dir == Cd[cwd][This.dir]
           n == Len(stack)
<1>1. AtLine /\ This.kind = "includedir" /\ This.kind \in Inclusions  BY DEF IncludeDir, Inclusions
<1>2. CASE dir = Missing /\ Die(111)
  <2>1. Died(111)  BY <1>2 DEF Die, Died
  <2> QED  BY <2>1, DiedAcyclic
<1>3. CASE /\ dir # Missing /\ cwd' = dir
           /\ ga' = ga + Len(Listing[dir])
           /\ stack' = Append(Calling, DirAt(Listing[dir], 1, ga))
           /\ UNCHANGED <<text, pc, code, flags, printed>>
  <2> DEFINE y == DirAt(Listing[dir], 1, ga)
             t == Append(Calling, y)
             names == Listing[dir]
  <2>0. This \in Line /\ pc = "run"  BY <1>1, Line1 DEF AtLine
  <2>1. dir \in Dirs  BY <1>3, <2>0, PreprocessAssumption DEF Line, Types
  <2>2. names \in Seq(Names) /\ ga \in Nat /\ Len(names) \in Nat
    BY <2>1, PreprocessAssumption DEF Types
  <2>3. /\ y \in Frames /\ ~IsFile(y) /\ y.names = names /\ y.next = 1 /\ y.base = ga
    BY <2>2, DirFrames
  <2>4. /\ Calling \in Seq(Frames) /\ Calling # <<>> /\ Len(Calling) = n
        /\ DOMAIN Calling = 1..n /\ n \in Nat \ {0}
    <3>1. n \in Nat \ {0}  BY <1>1, Line1, StackIs
    <3> QED  BY <1>1, <3>1, CallingOK
  <2>5. /\ Held(Calling, flags, ga) /\ IsFile(Calling[n]) /\ LineOf(Calling[n]) = This
        /\ Below(Calling[n]) = dir
    BY <1>1, CallingHeld
  <2>6. /\ stack' = t /\ cwd' = dir /\ ga' = ga + Len(names) /\ text' = text
        /\ flags' = flags /\ pc' # "start"
    BY <1>3, <2>0
  <2>7. t = Append(Calling, y)  OBVIOUS
  <2> HIDE DEF dir, Calling, n, y, names
  <2>8. /\ Len(t) = n + 1 /\ DOMAIN t = 1..(n + 1) /\ t # <<>>
        /\ \A i \in 1..n : t[i] = Calling[i]
        /\ t[n + 1] = y /\ t[n] = Calling[n] /\ t[(n + 1) - 1] = Calling[n]
    BY <2>3, <2>4, Pushed
  <2> HIDE DEF t
  <2>9. FrameHas(t, flags, n + 1)
    <3>1. EntriesClosed(flags, Below(Calling[n]), y.names, y.next - 2)
      <4> SUFFICES ASSUME NEW k \in DOMAIN y.names, k <= y.next - 2 PROVE FALSE
        BY DEF EntriesClosed
      <4>1. k \in Nat \ {0} /\ k <= 1 - 2  BY <2>2, <2>3
      <4> QED  BY <4>1
    <3>2. n + 1 # 1  BY <2>4
    <3> QED  BY <2>3, <2>5, <2>8, <3>1, <3>2 DEF FrameHas, DirHas
  <2>10. FrameWaits(t, n)
    <3>1. FileWaits(Calling[n], y)  BY <1>1, <2>1, <2>3, <2>5 DEF FileWaits, names
    <3> QED  BY <2>4, <2>5, <2>8, <3>1 DEF FrameWaits
  <2>11. GaHas(t, ga + Len(names))
    <3> SUFFICES ASSUME NEW j \in DOMAIN t, ~IsFile(t[j])
                 PROVE  /\ t[j].base + Len(t[j].names) <= ga + Len(names)
                        /\ \A k \in DOMAIN t : ~IsFile(t[k]) /\ j < k =>
                             t[j].base + Len(t[j].names) <= t[k].base
      BY DEF GaHas
    <3>1. CASE j = n + 1
      <4>1. t[j] = y /\ \A k \in DOMAIN t : ~(j < k)  BY <2>4, <2>8, <3>1
      <4> QED  BY <2>2, <2>3, <4>1
    <3>2. CASE j # n + 1
      <4>1. j \in DOMAIN Calling /\ t[j] = Calling[j]  BY <2>4, <2>8, <3>2
      <4>2. /\ t[j].base + Len(t[j].names) <= ga
            /\ \A k \in DOMAIN Calling : ~IsFile(Calling[k]) /\ j < k =>
                 t[j].base + Len(t[j].names) <= Calling[k].base
        BY <2>5, <4>1 DEF Held, GaHas
      <4>3. t[j].base \in Nat /\ Len(t[j].names) \in Nat
        <5>1. Calling[j] \in Frames  BY <2>4, <4>1
        <5>2. t[j].base \in Nat /\ t[j].names \in Seq(Names)  BY <4>1, <5>1, FrameKinds
        <5> QED  BY <5>2
      <4>4. ASSUME NEW k \in DOMAIN t, ~IsFile(t[k]), j < k
            PROVE  t[j].base + Len(t[j].names) <= t[k].base
        <5>1. CASE k = n + 1  BY <2>3, <2>8, <4>2, <5>1
        <5>2. CASE k # n + 1
          <6>1. k \in DOMAIN Calling /\ t[k] = Calling[k]  BY <2>4, <2>8, <5>2
          <6> QED  BY <4>2, <4>4, <6>1
        <5> QED  BY <5>1, <5>2
      <4>5. t[j].base + Len(t[j].names) <= ga + Len(names)  BY <2>2, <4>2, <4>3
      <4> QED  BY <4>4, <4>5
    <3> QED  BY <3>1, <3>2
  <2>12. Ordered(t, flags)
    <3>1. Ordered(Calling, flags)  BY <2>5 DEF Held
    <3>2. \A j \in DOMAIN t : IsFile(t[j]) => j \in DOMAIN Calling /\ t[j] = Calling[j]
      BY <2>3, <2>4, <2>8
    <3> QED  BY <3>1, <3>2, OrderedFewer
  <2>13. MoreClosed(flags, flags)  BY DEF MoreClosed
  <2>14. Held(t, flags, ga + Len(names))
    BY <2>3, <2>4, <2>5, <2>7, <2>9, <2>10, <2>11, <2>12, <2>13, HeldPushed
  <2>15. TopHas(t, flags, dir)
    <3>1. EntriesClosed(flags, dir, y.names, y.next - 1)
      <4> SUFFICES ASSUME NEW k \in DOMAIN y.names, k <= y.next - 1 PROVE FALSE
        BY DEF EntriesClosed
      <4>1. k \in Nat \ {0} /\ k <= 1 - 1  BY <2>2, <2>3
      <4> QED  BY <4>1
    <3> QED  BY <2>3, <2>5, <2>8, <3>1 DEF TopHas
  <2>16. Includes(t, flags, dir, ga + Len(names))  BY <2>14, <2>15 DEF Includes
  <2> QED  BY <2>6, <2>16, AcyclicNext
<1> QED  BY <1>2, <1>3 DEF IncludeDir

\* The frame of a directory goes on to its next entry, whatever is read for this one.
LEMMA AdvancedHeld ==
  ASSUME Types, Acyclic, InDir
  PROVE  LET n == Len(stack)
             w == stack[n - 1]
             y == Advanced[n]
         IN  /\ n - 1 \in 1..n /\ n - 1 # n
             /\ Held(Advanced, flags, ga)
             /\ ~IsFile(y) /\ y.names = Running.names /\ y.next = Running.next + 1
             /\ Advanced[n - 1] = w /\ IsFile(w) /\ w.calling /\ w \in Frames
             /\ LineOf(w).kind = "includedir" /\ Below(w) = cwd
             /\ Running.names = Listing[cwd] /\ Aims(w) = ListedIn(cwd) \cap Files
             /\ EntriesClosed(flags, cwd, Running.names, Running.next - 1)
<1> DEFINE n == Len(stack)
           w == stack[n - 1]
           y == DirAt(Running.names, Running.next + 1, Running.base)
<1>1. /\ stack # <<>> /\ ~IsFile(Running) /\ Running.names \in Seq(Names)
      /\ Running.next \in Nat \ {0} /\ Running.base \in Nat
  BY Dir1
<1>2. ~IsFile(y) /\ y.names = Running.names /\ y.next = Running.next + 1 /\ y.base = Running.base
  BY <1>1, DirFrames
<1>3. /\ stack \in Seq(Frames) /\ n \in DOMAIN stack /\ stack[n] = Running /\ n \in Nat \ {0}
      /\ DOMAIN stack = 1..n /\ \A i \in DOMAIN stack : stack[i] \in Frames
  BY <1>1, StackIs, Last DEF Running
<1> HIDE DEF y
<1>4. /\ Advanced \in Seq(Frames) /\ Len(Advanced) = n
      /\ \A i \in 1..n : i # n => Advanced[i] = stack[i]
      /\ Advanced[n] = y
  BY AdvancedOK DEF y
<1>5. Held(stack, flags, ga) /\ TopHas(stack, flags, cwd)
  BY <1>1 DEF Acyclic, Includes
<1>6. FrameHas(stack, flags, n)  BY <1>3, <1>5 DEF Held
<1>7. n # 1 /\ IsFile(w)  BY <1>1, <1>3, <1>6 DEF FrameHas, DirHas
<1>8. n - 1 \in 1..n /\ n - 1 # n /\ n - 1 < n
  <2>1. n \in Nat \ {0} /\ n # 1  BY <1>3, <1>7
  <2> HIDE DEF n
  <2> QED  BY <2>1
<1>9. cwd = Below(w) /\ EntriesClosed(flags, cwd, Running.names, Running.next - 1)
  BY <1>1, <1>3, <1>5 DEF TopHas
<1>10. FileWaits(w, Running)
  <2>1. FrameWaits(stack, n - 1)  BY <1>3, <1>5, <1>8 DEF Held
  <2>2. stack[(n - 1) + 1] = Running  BY <1>3
  <2> QED  BY <1>7, <2>1, <2>2 DEF FrameWaits
<1>11. LineOf(w).kind = "includedir" /\ Running.names = Listing[cwd] /\ cwd \in Dirs
  BY <1>1, <1>9, <1>10 DEF FileWaits
<1>12. w.calling /\ w \in Frames
  <2>1. n - 1 \in DOMAIN stack /\ n - 1 < Len(stack)  BY <1>3, <1>8
  <2>2. Waits(w)  BY <2>1 DEF Types, Framed
  <2> QED  BY <1>3, <1>7, <2>1, <2>2 DEF Waits
<1>13. Aims(w) = ListedIn(cwd) \cap Files
  <2>1. Cd[w.dir][LineOf(w).dir] = cwd /\ cwd # Missing
    BY <1>9, <1>11, PreprocessAssumption DEF Below
  <2> QED  BY <1>11, <2>1 DEF Aims, Targets
<1>14. Advanced[n - 1] = w  BY <1>4, <1>8
<1> HIDE DEF w
<1>15. FrameHas(Advanced, flags, n)
  <2>1. y.next - 2 = Running.next - 1  BY <1>1, <1>2
  <2>2. DirHas(flags, w, y)  BY <1>2, <1>7, <1>9, <2>1 DEF DirHas
  <2> QED  BY <1>2, <1>4, <1>7, <1>14, <2>2 DEF FrameHas
<1>16. AsClosed(flags, flags)  BY DEF AsClosed
<1>17. Held(Advanced, flags, ga)
  <2> HIDE DEF Advanced
  <2> QED  BY <1>1, <1>2, <1>3, <1>4, <1>5, <1>15, <1>16, HeldReplaced
<1> QED  BY <1>2, <1>4, <1>7, <1>8, <1>9, <1>11, <1>12, <1>13, <1>14, <1>17 DEF w

LEMMA EntryAcyclic ==
  ASSUME Types, Acyclic, InDir, NEW name \in Names, Enter(cwd, name, Advanced),
         Entry[cwd][name] \in Files => Entry[cwd][name] \in ListedIn(cwd),
         \/ Running.next > Len(Running.names)
         \/ Running.next <= Len(Running.names) /\ name = Running.names[Running.next]
  PROVE  Acyclic'
<1> DEFINE n == Len(stack)
           f == Entry[cwd][name]
<1>1. /\ Running.names \in Seq(Names) /\ Running.next \in Nat \ {0} /\ cwd \in Dirs
      /\ pc = "run"
  BY Dir1 DEF Types, InDir
<1>2. /\ Advanced \in Seq(Frames) /\ Len(Advanced) = n /\ Advanced # <<>>
      /\ DOMAIN Advanced = 1..n /\ FramesOK(Advanced, flags)
  BY AdvancedOK
<1>3. /\ n - 1 \in 1..n /\ n - 1 # n /\ Held(Advanced, flags, ga)
      /\ ~IsFile(Advanced[n]) /\ Advanced[n].names = Running.names
      /\ Advanced[n].next = Running.next + 1
      /\ IsFile(Advanced[n - 1]) /\ Advanced[n - 1].calling
      /\ Below(Advanced[n - 1]) = cwd /\ Aims(Advanced[n - 1]) = ListedIn(cwd) \cap Files
      /\ EntriesClosed(flags, cwd, Running.names, Running.next - 1)
  BY AdvancedHeld
<1> HIDE DEF Advanced
<1>4. \A j \in DOMAIN Advanced : IsFile(Advanced[j]) => j <= n - 1
  <2> SUFFICES ASSUME NEW j \in 1..n, IsFile(Advanced[j]) PROVE j <= n - 1  BY <1>2
  <2>1. j # n  BY <1>3
  <2>2. n \in Nat  BY <1>2
  <2> QED  BY <2>1, <2>2
<1>5. DOMAIN Running.names = 1..Len(Running.names) /\ Len(Running.names) \in Nat  BY <1>1
<1>6. \A k \in DOMAIN Running.names :
        k = (Running.next + 1) - 1 => f = Entry[cwd][Running.names[k]]
  <2> SUFFICES ASSUME NEW k \in 1..Len(Running.names), k = (Running.next + 1) - 1
               PROVE  name = Running.names[k]
    BY <1>5
  <2>1. k = Running.next  BY <1>1
  <2> QED  BY <1>1, <1>5, <2>1
<1>7. ASSUME Closed(flags, f) PROVE TopHas(Advanced, flags, cwd)
  <2>1. EntriesClosed(flags, cwd, Running.names, (Running.next + 1) - 1)
    <3> SUFFICES ASSUME NEW k \in DOMAIN Running.names, k <= (Running.next + 1) - 1,
                        Entry[cwd][Running.names[k]] \in Files
                 PROVE  Closed(flags, Entry[cwd][Running.names[k]])
      BY DEF EntriesClosed
    <3>1. CASE k = Running.next  BY <1>1, <1>6, <1>7, <3>1
    <3>2. CASE k # Running.next
      <4>1. k <= Running.next - 1  BY <1>1, <1>5, <3>2
      <4> QED  BY <1>3, <4>1 DEF EntriesClosed
    <3> QED  BY <3>1, <3>2
  <2> QED  BY <1>2, <1>3, <2>1 DEF TopHas
<1>8. f \in Files => f \in Aims(Advanced[n - 1])  BY <1>3
<1>9. n - 1 \in DOMAIN Advanced  BY <1>2, <1>3
<1>10. /\ ~IsFile(Advanced[Len(Advanced)]) /\ cwd = Below(Advanced[Len(Advanced) - 1])
       /\ \A k \in DOMAIN Advanced[Len(Advanced)].names :
            k = Advanced[Len(Advanced)].next - 1 =>
              f = Entry[cwd][Advanced[Len(Advanced)].names[k]]
  <2>1. Len(Advanced) = n  BY <1>2
  <2> HIDE DEF n, f
  <2> QED  BY <1>3, <1>6, <2>1
<1> HIDE DEF n
<1> QED  BY <1>1, <1>2, <1>3, <1>4, <1>7, <1>8, <1>9, <1>10, EnterAcyclic

LEMMA StartAcyclic == Types /\ Acyclic /\ Start => Acyclic'
<1> SUFFICES ASSUME Types, Acyclic, Start PROVE Acyclic'  OBVIOUS
<1> DEFINE f == Entry[Top][Main]
           x == Frame(f, Top, 1, FALSE)
           s == <<x>>
           fl == WithFlags(f, {"open"})
<1>1. Top \in Dirs /\ Main \in Names /\ f \in Files  BY PreprocessAssumption
<1>2. x \in Frames /\ IsFile(x) /\ x.file = f /\ x.dir = Top /\ x.at = 1 /\ x.calling = FALSE
  BY <1>1 DEF Frame, Frames, FileFrame, IsFile
<1>3. /\ stack' = s /\ flags' = fl /\ cwd' = Top /\ ga' = ga /\ text' = text /\ pc' # "start"
  BY DEF Start
<1>4. flags = <<>>  BY DEF Acyclic, Start
<1>5. ASSUME NEW g PROVE ~Closed(fl, g)
  <2>1. DOMAIN fl = {f} /\ fl[f] = {"open"}  BY <1>4 DEF WithFlags
  <2> HIDE DEF fl, f
  <2> QED  BY <2>1 DEF Closed
<1> HIDE DEF fl, x
<1>6. DOMAIN s = {1} /\ Len(s) = 1 /\ s[1] = x  OBVIOUS
<1> HIDE DEF s
<1>7. FrameHas(s, fl, 1)
  <2>1. Entry[x.dir][Main] = x.file  BY <1>2
  <2>2. Passed(fl, x)  BY <1>1, <1>2, <2>1 DEF Passed
  <2> QED  BY <1>2, <1>6, <2>2 DEF FrameHas
<1>8. Ordered(s, fl)
  <2> DEFINE rank == [g \in Files |-> 0]
  <2>1. rank \in [Files -> Nat] /\ 0 \in Nat  OBVIOUS
  <2> HIDE DEF rank
  <2>2. Ranked(fl, rank, 0)  BY <1>5 DEF Ranked
  <2>3. Nested(s, fl, rank)  BY <1>6 DEF Nested
  <2> QED  BY <2>1, <2>2, <2>3 DEF Ordered
<1>9. Held(s, fl, ga)  BY <1>2, <1>6, <1>7, <1>8 DEF Held, GaHas
<1>10. TopHas(s, fl, Top)  BY <1>2, <1>6 DEF TopHas
<1> QED  BY <1>3, <1>9, <1>10, AcyclicNext DEF Includes

\* A file goes on to its next line, with the directory it works in.
LEMMA StepAcyclic ==
  ASSUME Types, Acyclic, pc = "run", stack # <<>>, IsFile(Running),
         Running.at + 1 \in 1..(Len(text[Running.file]) + 1),
         AllClosed(flags, Aims(Running)), AsClosed(flags, flags'),
         stack' = SteppedOver, cwd' = Running.dir, UNCHANGED <<text, ga, pc>>
  PROVE  Acyclic'
<1> DEFINE n == Len(stack)
           x == Frame(Running.file, Running.dir, Running.at + 1, FALSE)
<1>1. /\ Running.file \in Files /\ Running.dir \in Dirs /\ Running.at \in Nat \ {0}
  BY Known1
<1>2. /\ IsFile(x) /\ x.file = Running.file /\ x.dir = Running.dir /\ x.at = Running.at + 1
      /\ x.calling = FALSE
  <2>1. Running.at + 1 \in Nat  BY <1>1
  <2> QED  BY <1>1, <2>1 DEF Frame, FileFrame, IsFile
<1> HIDE DEF x
<1>3. /\ SteppedOver \in Seq(Frames) /\ Len(SteppedOver) = n /\ SteppedOver # <<>>
      /\ \A i \in 1..n : i # n => SteppedOver[i] = stack[i]
      /\ SteppedOver[n] = x
  BY SteppedOK DEF x
<1>4. stack \in Seq(Frames) /\ n \in DOMAIN stack /\ stack[n] = Running
  BY StackIs, Last DEF Running
<1>5. Held(stack, flags, ga)  BY DEF Acyclic, Includes
<1> DEFINE s == SteppedOver
<1>6. stack' = s  OBVIOUS
<1> HIDE DEF s
<1>7. FrameHas(s, flags', n)
  <2>1. Passed(flags, Running)  BY <1>4, <1>5 DEF Held, FrameHas
  <2>2. Passed(flags, x)
    <3>1. ASSUME NEW i \in 1..(x.at - 1) PROVE AllClosed(flags, Targets(x.dir, text[x.file][i]))
      <4>1. i \in 1..Running.at  BY <1>1, <1>2
      <4>2. CASE i = Running.at  BY <1>2, <4>2 DEF Aims, LineOf
      <4>3. CASE i # Running.at
        <5>1. i \in 1..(Running.at - 1)  BY <1>1, <4>1, <4>3
        <5> QED  BY <1>2, <2>1, <5>1 DEF Passed
      <4> QED  BY <4>2, <4>3
    <3> QED  BY <1>2, <2>1, <3>1 DEF Passed
  <2>3. MoreClosed(flags, flags')  BY DEF AsClosed, MoreClosed
  <2>4. Passed(flags', x)  BY <2>2, <2>3, MorePassed
  <2> QED  BY <1>2, <1>3, <2>4 DEF FrameHas, s
<1>8. Held(s, flags', ga)  BY <1>2, <1>3, <1>4, <1>5, <1>7, HeldReplaced DEF s
<1>9. TopHas(s, flags', Running.dir)  BY <1>2, <1>3 DEF TopHas, s
<1>10. Includes(s, flags', Running.dir, ga)  BY <1>8, <1>9 DEF Includes
<1> QED  BY <1>6, <1>10, AcyclicNext

LEMMA LineAcyclic ==
  ASSUME Types, Acyclic, AtLine, This.kind \notin Inclusions, AsClosed(flags, flags'),
         stack' = SteppedOver, UNCHANGED <<text, ga, pc, cwd>>
  PROVE  Acyclic'
<1>1. /\ stack # <<>> /\ IsFile(Running) /\ ~Running.calling /\ pc = "run"
      /\ Running.at + 1 \in 1..(Len(text[Running.file]) + 1)
  BY Line1 DEF AtLine
<1>2. cwd = Running.dir  BY <1>1 DEF Acyclic, Includes, TopHas, Running
<1>3. Aims(Running) = {}  BY DEF Aims, Targets, LineOf, This, Inclusions
<1>4. AllClosed(flags, Aims(Running))  BY <1>3 DEF AllClosed
<1> QED  BY <1>1, <1>2, <1>4, StepAcyclic

LEMMA ResumeAcyclic == Types /\ Acyclic /\ Resume => Acyclic'
<1> SUFFICES ASSUME Types, Acyclic, Resume PROVE Acyclic'  OBVIOUS
<1>1. /\ pc = "run" /\ stack # <<>> /\ IsFile(Running) /\ Running.calling
      /\ cwd' = Running.dir /\ stack' = SteppedOver
      /\ UNCHANGED <<text, ga, pc, flags>>
  BY DEF Resume, StepOver
<1>2. Running.at \in DOMAIN text[Running.file] /\ text[Running.file] \in Seq(Line)
  BY <1>1, Known1 DEF FrameOK, Types
<1>3. Running.at + 1 \in 1..(Len(text[Running.file]) + 1)  BY <1>2
<1>4. AllClosed(flags, Aims(Running))  BY <1>1 DEF Acyclic, Includes, TopHas, Running
<1>5. AsClosed(flags, flags')  BY <1>1 DEF AsClosed
<1> QED  BY <1>1, <1>3, <1>4, <1>5, StepAcyclic

LEMMA IncludedAcyclic == Types /\ Acyclic /\ Included => Acyclic'
<1> SUFFICES ASSUME Types, Acyclic, Included PROVE Acyclic'  OBVIOUS
<1>1. CASE Died(1)  BY <1>1, DiedAcyclic
<1>2. CASE /\ AtLine /\ This.kind \in {"unique", "multiple"}
           /\ flags' = WithFlags(Running.file, flags[Running.file] \cup {This.kind})
           /\ stack' = SteppedOver
           /\ UNCHANGED <<text, ga, pc, code, cwd, printed>>
  <2> DEFINE f == Running.file
             set == flags[f] \cup {This.kind}
  <2>1. f \in DOMAIN flags  BY <1>2, Line1, Known1
  <2>2. "open" \in set <=> "open" \in flags[f]  BY <1>2
  <2>3. /\ DOMAIN flags' = DOMAIN flags
        /\ \A g \in DOMAIN flags : flags'[g] = IF g = f THEN set ELSE flags[g]
    <3>1. flags' = WithFlags(f, set)  BY <1>2
    <3> HIDE DEF f, set
    <3> QED  BY <2>1, <3>1 DEF WithFlags
  <2>4. This.kind \notin Inclusions  BY <1>2 DEF Inclusions
  <2> HIDE DEF f, set
  <2>5. AsClosed(flags, flags')  BY <2>2, <2>3 DEF AsClosed, Closed
  <2> QED  BY <1>2, <2>4, <2>5, LineAcyclic
<1> QED  BY <1>1, <1>2, IncludedWays

\* All entries of a directory were read when its loop is over: it goes to the end of ga.
LEMMA EndOfDirAcyclic == Types /\ Acyclic /\ EndOfDir => Acyclic'
<1> SUFFICES ASSUME Types, Acyclic, EndOfDir PROVE Acyclic'  OBVIOUS
<1> DEFINE n == Len(stack)
           t == Returned
           w == stack[n - 1]
<1>1. /\ InDir /\ Running.next > ga /\ stack' = t /\ ga' = Running.base
      /\ UNCHANGED <<text, pc, cwd, flags>> /\ pc = "run"
  BY DEF EndOfDir, InDir
<1>2. /\ stack # <<>> /\ ~IsFile(Running) /\ Running.names \in Seq(Names)
      /\ Running.next \in Nat \ {0} /\ Running.base \in Nat
  BY <1>1, Dir1
<1>3. /\ stack \in Seq(Frames) /\ n \in DOMAIN stack /\ stack[n] = Running /\ n \in Nat \ {0}
      /\ DOMAIN stack = 1..n
  BY <1>2, StackIs, Last DEF Running
<1>4. /\ n - 1 \in 1..n /\ n - 1 # n /\ IsFile(w) /\ w.calling
      /\ Running.names = Listing[cwd] /\ Aims(w) = ListedIn(cwd) \cap Files
      /\ EntriesClosed(flags, cwd, Running.names, Running.next - 1)
  BY <1>1, AdvancedHeld
<1>5. /\ t \in Seq(Frames) /\ Len(t) = n - 1 /\ DOMAIN t = 1..(n - 1)
      /\ \A i \in 1..(n - 1) : t[i] = stack[i]
  BY <1>2, <1>3, Popped
<1>6. Held(stack, flags, ga)  BY DEF Acyclic, Includes
<1>7. GaHas(stack, ga)  BY <1>6 DEF Held
<1> HIDE DEF t, w
<1>8. AllClosed(flags, Aims(w))
  <2> SUFFICES ASSUME NEW f \in Files, f \in ListedIn(cwd) PROVE Closed(flags, f)
    BY <1>4 DEF AllClosed
  <2>1. PICK m \in DOMAIN Running.names : f = Entry[cwd][Running.names[m]]
    BY <1>4 DEF ListedIn
  <2>2. Running.base + Len(Running.names) <= ga  BY <1>2, <1>3, <1>7 DEF GaHas
  <2>3. m \in 1..Len(Running.names) /\ Len(Running.names) \in Nat /\ ga \in Nat
    BY <1>2 DEF Types
  <2>4. m <= Running.next - 1  BY <1>1, <1>2, <2>2, <2>3
  <2> QED  BY <1>4, <2>1, <2>4 DEF EntriesClosed
<1>9. GaHas(t, Running.base)
  <2> HIDE DEF n
  <2> SUFFICES ASSUME NEW j \in 1..(n - 1), ~IsFile(stack[j])
               PROVE  /\ stack[j].base + Len(stack[j].names) <= Running.base
                      /\ \A k \in 1..(n - 1) : ~IsFile(stack[k]) /\ j < k =>
                           stack[j].base + Len(stack[j].names) <= stack[k].base
    BY <1>5 DEF GaHas
  <2>1. j \in DOMAIN stack /\ j < n  BY <1>3
  <2>2. \A k \in 1..(n - 1) : k \in DOMAIN stack  BY <1>3
  <2> QED  BY <1>2, <1>3, <1>7, <2>1, <2>2 DEF GaHas
<1>10. Ordered(t, flags)
  <2>1. Ordered(stack, flags)  BY <1>6 DEF Held
  <2>2. \A j \in DOMAIN t : j \in DOMAIN stack /\ t[j] = stack[j]
    <3> HIDE DEF n
    <3> QED  BY <1>3, <1>5
  <2> QED  BY <2>1, <2>2, OrderedFewer
<1>11. MoreClosed(flags, flags)  BY DEF MoreClosed
<1>12. Held(t, flags, Running.base)
  BY <1>2, <1>3, <1>5, <1>6, <1>9, <1>10, <1>11, HeldPopped
<1>13. TopHas(t, flags, cwd)
  <2>1. t[Len(t)] = w
    <3>1. n - 1 \in 1..(n - 1)
      <4> HIDE DEF n
      <4> QED  BY <1>3, <1>4
    <3> QED  BY <1>5, <3>1 DEF w
  <2> QED  BY <1>4, <1>8, <2>1 DEF TopHas
<1>14. Includes(t, flags, cwd, Running.base)  BY <1>12, <1>13 DEF Includes
<1>15. /\ stack' = t /\ flags' = flags /\ cwd' = cwd /\ ga' = Running.base /\ text' = text
       /\ pc' # "start"
  BY <1>1
<1> QED  BY <1>14, <1>15, AcyclicNext

\* A file that ends is closed behind all that its lines lead to.
LEMMA OrderedClosed ==
  ASSUME OneDirectory, Types, Acyclic, stack # <<>>, IsFile(Running), NEW t,
         \A j \in DOMAIN t : j \in DOMAIN stack /\ t[j] = stack[j] /\ j < Len(stack),
         Running.at > Len(text[Running.file]), NEW fl,
         \A g \in Files : Closed(fl, g) <=> Closed(flags, g) \/ g = Running.file
  PROVE  Ordered(t, fl)
<1> DEFINE f == Running.file
           n == Len(stack)
<1>1. /\ f \in Files /\ Running.dir \in Dirs /\ Running.at \in Nat /\ text[f] \in Seq(Line)
  BY Known1 DEF Types
<1>2. n \in DOMAIN stack /\ stack[n] = Running /\ \A j \in DOMAIN stack : stack[j] \in Frames
  BY StackIs, Last DEF Running
<1>3. Ordered(stack, flags) /\ Passed(flags, Running)
  BY <1>2 DEF Acyclic, Includes, Held, FrameHas
<1>4. PICK rank \in [Files -> Nat], m \in Nat : Ranked(flags, rank, m) /\ Nested(stack, flags, rank)
  BY <1>3 DEF Ordered
<1>5. CASE Closed(flags, f)
  <2>1. AsClosed(flags, fl)  BY <1>5 DEF AsClosed
  <2>2. ASSUME NEW k \in DOMAIN stack, IsFile(stack[k]) PROVE stack[k].file \in Files
    BY <1>2, <2>2, FrameKinds
  <2>3. Ordered(stack, fl)  BY <1>3, <2>1, <2>2, OrderedAs
  <2> QED  BY <2>3, OrderedFewer
<1>6. CASE ~Closed(flags, f)
  <2> DEFINE up == [rank EXCEPT ![f] = m]
  <2>1. /\ up \in [Files -> Nat] /\ up[f] = m /\ m + 1 \in Nat
        /\ \A g \in Files : g # f => up[g] = rank[g]
    BY <1>1
  <2> HIDE DEF up
  <2>2. Ranked(fl, up, m + 1)
    <3> SUFFICES ASSUME NEW g \in Files, Closed(fl, g)
                 PROVE  /\ up[g] < m + 1
                        /\ \A dir \in Dirs : (\E name \in Names : Entry[dir][name] = g) =>
                             \A i \in DOMAIN text[g] : \A h \in Targets(dir, text[g][i]) :
                               Closed(fl, h) /\ up[h] < up[g]
      BY DEF Ranked
    <3>1. CASE g = f
      <4>1. up[g] < m + 1  BY <2>1, <3>1
      <4>2. ASSUME NEW dir \in Dirs, NEW name \in Names, Entry[dir][name] = f,
                   NEW i \in DOMAIN text[f], NEW h \in Targets(dir, text[f][i])
            PROVE  Closed(fl, h) /\ up[h] < m
        <5>1. PICK other \in Names : Entry[Running.dir][other] = f  BY <1>3 DEF Passed
        <5>2. Entry[dir][name] # Missing /\ Entry[dir][name] = Entry[Running.dir][other]
          BY <1>1, <4>2, <5>1, PreprocessAssumption
        <5>3. dir = Running.dir  BY <1>1, <5>2 DEF OneDirectory
        <5>4. i \in 1..Len(text[f])  BY <1>1
        <5>5. i \in 1..(Running.at - 1)  BY <1>1, <5>4
        <5>6. h \in Files /\ Closed(flags, h)  BY <1>3, <4>2, <5>3, <5>5 DEF Passed, AllClosed, Targets
        <5>7. h # f /\ rank[h] < m  BY <1>4, <1>6, <5>6 DEF Ranked
        <5> QED  BY <2>1, <5>6, <5>7
      <4> QED  BY <2>1, <3>1, <4>1, <4>2
    <3>2. CASE g # f
      <4>1. Closed(flags, g)  BY <3>2
      <4>2. up[g] = rank[g] /\ rank[g] < m /\ rank[g] \in Nat  BY <1>4, <2>1, <3>2, <4>1 DEF Ranked
      <4>3. up[g] < m + 1  BY <4>2
      <4>4. ASSUME NEW dir \in Dirs, \E name \in Names : Entry[dir][name] = g,
                   NEW i \in DOMAIN text[g], NEW h \in Targets(dir, text[g][i])
            PROVE  Closed(fl, h) /\ up[h] < up[g]
        <5>1. Closed(flags, h) /\ rank[h] < rank[g]  BY <1>4, <4>1, <4>4 DEF Ranked
        <5>2. h \in Files /\ h # f  BY <1>6, <5>1 DEF Targets
        <5> QED  BY <2>1, <4>2, <5>1, <5>2
      <4> QED  BY <4>3, <4>4
    <3> QED  BY <3>1, <3>2
  <2>3. Nested(t, fl, up)
    <3> SUFFICES ASSUME NEW j \in DOMAIN t, NEW k \in DOMAIN t, j < k, IsFile(t[j]), IsFile(t[k])
                 PROVE  /\ t[j].file # t[k].file
                        /\ Closed(fl, t[j].file) =>
                             Closed(fl, t[k].file) /\ up[t[k].file] < up[t[j].file]
      BY DEF Nested
    <3>1. /\ j \in DOMAIN stack /\ k \in DOMAIN stack /\ t[j] = stack[j] /\ t[k] = stack[k]
          /\ j < n /\ k < n
      OBVIOUS
    <3>2. stack[j].file \in Files /\ stack[k].file \in Files  BY <1>2, <3>1, FrameKinds
    <3>3. stack[j].file # f /\ stack[k].file # f  BY <1>2, <1>4, <3>1 DEF Nested
    <3>4. /\ stack[j].file # stack[k].file
          /\ Closed(flags, stack[j].file) =>
               Closed(flags, stack[k].file) /\ rank[stack[k].file] < rank[stack[j].file]
      BY <1>4, <3>1 DEF Nested
    <3> QED  BY <2>1, <3>1, <3>2, <3>3, <3>4
  <2> QED  BY <2>1, <2>2, <2>3 DEF Ordered
<1> QED  BY <1>5, <1>6

LEMMA EndOfFileAcyclic == OneDirectory /\ Types /\ Acyclic /\ EndOfFile => Acyclic'
<1> SUFFICES ASSUME OneDirectory, Types, Acyclic, EndOfFile PROVE Acyclic'  OBVIOUS
<1> DEFINE n == Len(stack)
           t == Returned
           f == Running.file
           set == flags[f] \ {"open"}
           z == stack[n - 1]
<1>1. /\ stack # <<>> /\ IsFile(Running) /\ ~Running.calling /\ Running.at > Len(text[f])
      /\ stack' = t /\ flags' = WithFlags(f, set) /\ pc = "run"
      /\ UNCHANGED <<text, ga, pc, cwd>>
  BY DEF EndOfFile
<1>2. f \in Files /\ f \in DOMAIN flags  BY <1>1, Known1
<1>3. /\ stack \in Seq(Frames) /\ n \in DOMAIN stack /\ stack[n] = Running /\ n \in Nat \ {0}
      /\ DOMAIN stack = 1..n
  BY <1>1, StackIs, Last DEF Running
<1>4. /\ t \in Seq(Frames) /\ Len(t) = n - 1 /\ DOMAIN t = 1..(n - 1)
      /\ \A i \in 1..(n - 1) : t[i] = stack[i]
  BY <1>1, <1>3, Popped
<1> HIDE DEF t
<1>5. Held(stack, flags, ga) /\ TopHas(stack, flags, cwd)  BY <1>1 DEF Acyclic, Includes
<1>6. cwd = Running.dir  BY <1>1, <1>3, <1>5 DEF TopHas
<1>7. \A g \in Files : Closed(flags', g) <=> Closed(flags, g) \/ g = f
  <2>1. /\ DOMAIN flags' = DOMAIN flags /\ "open" \notin set
        /\ \A g \in DOMAIN flags : flags'[g] = IF g = f THEN set ELSE flags[g]
    BY <1>1, <1>2 DEF WithFlags
  <2> HIDE DEF f, set
  <2> QED  BY <1>2, <2>1 DEF Closed
<1>8. MoreClosed(flags, flags')  BY <1>7 DEF MoreClosed
<1>9. ASSUME NEW j \in DOMAIN t
      PROVE  j \in DOMAIN stack /\ t[j] = stack[j] /\ j < Len(stack)
  <2> HIDE DEF n
  <2>1. j \in DOMAIN stack /\ t[j] = stack[j] /\ j < n  BY <1>3, <1>4
  <2> QED  BY <2>1 DEF n
<1>10. Ordered(t, flags')  BY <1>1, <1>7, <1>9, OrderedClosed
<1>11. GaHas(t, ga)
  <2>1. GaHas(stack, ga)  BY <1>5 DEF Held
  <2> QED  BY <1>9, <2>1 DEF GaHas
<1>12. Held(t, flags', ga)  BY <1>1, <1>3, <1>4, <1>5, <1>8, <1>10, <1>11, HeldPopped
<1>13. ASSUME t # <<>> PROVE TopHas(t, flags', cwd)
  <2>0. n # 1  BY <1>4, <1>13
  <2>1. n - 1 \in DOMAIN stack /\ n - 1 \in 1..(n - 1) /\ n - 1 < n /\ (n - 1) + 1 = n
    <3> HIDE DEF n
    <3> QED  BY <1>3, <2>0
  <2>2. t[Len(t)] = z  BY <1>4, <2>1
  <2>3. FrameWaits(stack, n - 1) /\ FrameHas(stack, flags, n - 1)  BY <1>5, <2>1 DEF Held
  <2>4. CASE IsFile(z)
    <3>1. z.calling  BY <2>1, <2>4 DEF Types, Framed, Waits
    <3>2. Aims(z) \subseteq {f}  BY <1>1, <1>3, <2>1, <2>3, <2>4 DEF FrameWaits, FileWaits
    <3>3. AllClosed(flags', Aims(z))  BY <1>2, <1>7, <3>2 DEF AllClosed
    <3> QED  BY <2>2, <2>4, <3>1, <3>3 DEF TopHas
  <2>5. CASE ~IsFile(z)
    <3> DEFINE w == stack[(n - 1) - 1]
    <3>1. /\ Running.dir = Below(w)
          /\ \A k \in DOMAIN z.names : k = z.next - 1 => f = Entry[Below(w)][z.names[k]]
      BY <1>3, <2>1, <2>3, <2>5 DEF FrameWaits, DirWaits
    <3>2. n - 1 # 1 /\ EntriesClosed(flags, Below(w), z.names, z.next - 2)
      BY <2>3, <2>5 DEF FrameHas, DirHas
    <3>3. t[Len(t) - 1] = w
      <4>1. (n - 1) - 1 \in 1..(n - 1)
        <5> HIDE DEF n
        <5> QED  BY <1>3, <2>1, <3>2
      <4> QED  BY <1>4, <4>1
    <3>4. z.names \in Seq(Names) /\ z.next \in Nat
      <4>1. z \in Frames  BY <1>3, <2>1
      <4> QED  BY <2>5, <4>1, FrameKinds
    <3> HIDE DEF w, z
    <3>5. EntriesClosed(flags', Below(w), z.names, z.next - 1)
      <4> SUFFICES ASSUME NEW k \in DOMAIN z.names, k <= z.next - 1,
                          Entry[Below(w)][z.names[k]] \in Files
                   PROVE  Closed(flags', Entry[Below(w)][z.names[k]])
        BY DEF EntriesClosed
      <4>1. CASE k = z.next - 1  BY <1>2, <1>7, <3>1, <4>1
      <4>2. CASE k # z.next - 1
        <5>1. k \in Nat  BY <3>4
        <5>2. k <= z.next - 2  BY <3>4, <4>2, <5>1
        <5>3. Closed(flags, Entry[Below(w)][z.names[k]])  BY <3>2, <5>2 DEF EntriesClosed
        <5> QED  BY <1>8, <5>3 DEF MoreClosed
      <4> QED  BY <4>1, <4>2
    <3> QED  BY <1>6, <2>2, <2>5, <3>1, <3>3, <3>5 DEF TopHas
  <2> QED  BY <2>4, <2>5
<1>14. Includes(t, flags', cwd, ga)  BY <1>12, <1>13 DEF Includes
<1>15. stack' = t /\ cwd' = cwd /\ ga' = ga /\ text' = text /\ pc' # "start"  BY <1>1
<1> QED  BY <1>14, <1>15, AcyclicNext

LEMMA InitAcyclic == Init => Acyclic
<1> SUFFICES ASSUME Init PROVE Acyclic  OBVIOUS
<1>1. stack = <<>> /\ flags = <<>>  BY DEF Init
<1>2. \A f : ~Closed(flags, f)  BY <1>1 DEF Closed
<1>3. Ordered(stack, flags)
  <2> DEFINE rank == [g \in Files |-> 0]
  <2>1. rank \in [Files -> Nat] /\ 0 \in Nat  OBVIOUS
  <2> HIDE DEF rank
  <2>2. Ranked(flags, rank, 0)  BY <1>2 DEF Ranked
  <2>3. Nested(stack, flags, rank)  BY <1>1 DEF Nested
  <2> QED  BY <2>1, <2>2, <2>3 DEF Ordered
<1> QED  BY <1>1, <1>3 DEF Acyclic, Includes, Held, GaHas

LEMMA NextAcyclic == OneDirectory /\ StaleIsListed /\ Types /\ Acyclic /\ [Next]_vars => Acyclic'
<1> SUFFICES ASSUME OneDirectory, StaleIsListed, Types, Acyclic, [Next]_vars
             PROVE  Acyclic'
  OBVIOUS
<1>1. CASE Start  BY <1>1, StartAcyclic
<1>2. CASE CopyLine
  <2>1. This.kind \notin Inclusions  BY <1>2 DEF CopyLine, Inclusions
  <2>2. AsClosed(flags, flags')  BY <1>2 DEF CopyLine, AsClosed
  <2> QED  BY <1>2, <2>1, <2>2, LineAcyclic DEF CopyLine, StepOver
<1>3. CASE DropLine
  <2>1. This.kind \notin Inclusions  BY <1>3 DEF DropLine, Inclusions
  <2>2. AsClosed(flags, flags')  BY <1>3 DEF DropLine, AsClosed
  <2> QED  BY <1>3, <2>1, <2>2, LineAcyclic DEF DropLine, StepOver
<1>4. CASE BadLine  BY <1>4, BadLineDies, DiedAcyclic
<1>5. CASE Included  BY <1>5, IncludedAcyclic
<1>6. CASE Include  BY <1>6, IncludeAcyclic
<1>7. CASE IncludeDir  BY <1>7, IncludeDirAcyclic
<1>8. CASE NextEntry
  <2> DEFINE name == Running.names[Running.next]
  <2>1. InDir /\ Running.next <= Len(Running.names) /\ Enter(cwd, name, Advanced)
    BY <1>8 DEF NextEntry
  <2>2. Running.names \in Seq(Names) /\ Running.next \in Nat \ {0}  BY <2>1, Dir1
  <2>3. Running.next \in DOMAIN Running.names /\ name \in Names  BY <2>1, <2>2
  <2>4. Running.names = Listing[cwd]  BY <2>1, AdvancedHeld
  <2>5. Entry[cwd][name] \in ListedIn(cwd)  BY <2>3, <2>4 DEF ListedIn
  <2> HIDE DEF Advanced
  <2> QED  BY <2>1, <2>3, <2>5, EntryAcyclic
<1>9. CASE PastEntries
  <2>1. CASE Die(111)
    <3>1. Died(111)  BY <2>1 DEF Die, Died
    <3> QED  BY <3>1, DiedAcyclic
  <2>2. CASE \E name \in Stale : Enter(cwd, name, Advanced)
    <3>1. PICK name \in Stale : Enter(cwd, name, Advanced)  BY <2>2
    <3>2. InDir /\ Running.next > Len(Running.names) /\ name \in Names /\ cwd \in Dirs
      BY <1>9, PreprocessAssumption DEF PastEntries, Types
    <3>3. Entry[cwd][name] \in Files => Entry[cwd][name] \in ListedIn(cwd)
      BY <3>2, PreprocessAssumption DEF StaleIsListed
    <3> HIDE DEF Advanced
    <3> QED  BY <3>1, <3>2, <3>3, EntryAcyclic
  <2> QED  BY <1>9, <2>1, <2>2 DEF PastEntries
<1>10. CASE EndOfDir  BY <1>10, EndOfDirAcyclic
<1>11. CASE EndOfFile  BY <1>11, EndOfFileAcyclic
<1>12. CASE Resume  BY <1>12, ResumeAcyclic
<1>13. CASE Finish  BY <1>13, SameAcyclic DEF Finish
<1>14. CASE SystemCallFails
  <2>1. Died(111)  BY <1>14 DEF SystemCallFails, Die, Died
  <2> QED  BY <2>1, DiedAcyclic
<1>15. CASE UNCHANGED vars  BY <1>15, SameAcyclic DEF vars
<1> QED  BY <1>1, <1>2, <1>3, <1>4, <1>5, <1>6, <1>7, <1>8, <1>9, <1>10, <1>11, <1>12,
            <1>13, <1>14, <1>15 DEF Next

LEMMA AcyclicImplies == Types /\ Acyclic => NoFileInItself
<1> SUFFICES ASSUME Types, Acyclic, NEW i \in DOMAIN stack, NEW j \in DOMAIN stack,
                    IsFile(stack[i]), IsFile(stack[j]), stack[i].file = stack[j].file
             PROVE  i = j
  BY DEF NoFileInItself
<1>1. \E rank \in [Files -> Nat] : Nested(stack, flags, rank)
  BY DEF Acyclic, Includes, Held, Ordered
<1>2. ~(i < j) /\ ~(j < i)  BY <1>1 DEF Nested
<1>3. i \in Nat /\ j \in Nat  BY StackIs
<1> QED  BY <1>2, <1>3

\* In whatever way files include one another, where a file is reached from one directory
\* only: none is ever read inside itself, though the flag of a file that is read again
\* is not set anew.
THEOREM NoCycle ==
  ASSUME OneDirectory, StaleIsListed
  PROVE  Spec => []NoFileInItself
<1>1. Init => Types /\ Acyclic  BY InitTypes, InitAcyclic
<1>2. Types /\ Acyclic /\ [Next]_vars => (Types /\ Acyclic)'  BY NextTypes, NextAcyclic
<1>3. Types /\ Acyclic => NoFileInItself  BY AcyclicImplies
<1> QED  BY <1>1, <1>2, <1>3, PTL DEF Spec

-----------------------------------------------------------------------------
(***************************************************************************)
(* What the documents say.  Steps, and what is kept by all of them: a      *)
(* failure, and what makes the documents and the program differ.           *)
(***************************************************************************)

LEMMA Smallest ==
  ASSUME NEW T \in SUBSET Nat, T # {}
  PROVE  \E m \in T : \A n \in T : m <= n
<1>1. PICK m \in T : \A n \in T : ~(<<n, m>> \in OpToRel(<, Nat))
  BY NatLessThanWellFounded, WFMin
<1>2. ASSUME NEW n \in T, n < m PROVE FALSE
  <2>1. n \in Nat /\ m \in Nat  OBVIOUS
  <2>2. <<n, m>> \in OpToRel(<, Nat)  BY <1>2, <2>1 DEF OpToRel
  <2> QED  BY <1>1, <2>2
<1>3. \A n \in T : m \in Nat /\ n \in Nat /\ ~(n < m)  BY <1>2
<1> QED  BY <1>3

\* What holds of 0, and of the next number whenever it holds of one, up to n.
LEMMA Climb ==
  ASSUME NEW n \in Nat, NEW T, 0 \in T, \A k \in 1..n : k - 1 \in T => k \in T
  PROVE  \A k \in 0..n : k \in T
<1> DEFINE Missed == {k \in 0..n : k \notin T}
<1> SUFFICES ASSUME Missed # {} PROVE FALSE  OBVIOUS
<1>0. Missed \in SUBSET Nat  OBVIOUS
<1>1. PICK m \in Missed : \A k \in Missed : m <= k  BY <1>0, Smallest
<1>2. m \in 0..n /\ m \notin T /\ m # 0  OBVIOUS
<1>3. m \in 1..n /\ m - 1 \in 0..n /\ ~(m <= m - 1)  BY <1>2
<1>4. m - 1 \notin Missed  BY <1>1, <1>3
<1>5. m - 1 \in T  BY <1>3, <1>4
<1> QED  BY <1>2, <1>3, <1>5

\* The first n results of a recursion that applies, to what it has, the next of a
\* sequence of steps.
Lefts(steps, n, f) ==
  f = [j \in 0..n |-> [q \in Results |-> IF j = 0 THEN q ELSE f[j - 1][steps[Len(steps) - j + 1][q]]]]

\* One more of them.
More(steps, n, f) ==
  [j \in 0..n |-> IF j = n THEN [q \in Results |-> f[n - 1][steps[Len(steps) - n + 1][q]]] ELSE f[j]]

LEMMA LeftsMore ==
  ASSUME NEW steps, NEW n \in Nat \ {0}, NEW f, Lefts(steps, n - 1, f)
  PROVE  Lefts(steps, n, More(steps, n, f))
<1> DEFINE g == More(steps, n, f)
<1>1. \A j \in 0..(n - 1) :
        f[j] = [q \in Results |-> IF j = 0 THEN q ELSE f[j - 1][steps[Len(steps) - j + 1][q]]]
  BY DEF Lefts
<1>2. \A j \in 0..(n - 1) : g[j] = f[j]  BY DEF More
<1>3. g[n] = [q \in Results |-> f[n - 1][steps[Len(steps) - n + 1][q]]]  BY DEF More
<1>4. DOMAIN g = 0..n /\ g = [j \in 0..n |-> g[j]]  BY DEF More
<1> HIDE DEF g
<1>5. ASSUME NEW j \in 0..n
      PROVE  g[j] = [q \in Results |-> IF j = 0 THEN q ELSE g[j - 1][steps[Len(steps) - j + 1][q]]]
  <2>1. CASE j = n
    <3>1. g[n - 1] = f[n - 1] /\ n # 0  BY <1>2
    <3> QED  BY <1>3, <2>1, <3>1
  <2>2. CASE j # n
    <3>1. j \in 0..(n - 1)  BY <2>2
    <3>2. j # 0 => j - 1 \in 0..(n - 1)  BY <3>1
    <3>3. g[j] = f[j] /\ (j # 0 => g[j - 1] = f[j - 1])  BY <1>2, <3>1, <3>2
    <3>4. f[j] = [q \in Results |-> IF j = 0 THEN q ELSE f[j - 1][steps[Len(steps) - j + 1][q]]]
      BY <1>1, <3>1
    <3>5. CASE j = 0  BY <3>3, <3>4, <3>5
    <3>6. CASE j # 0  BY <3>3, <3>4, <3>6
    <3> QED  BY <3>5, <3>6
  <2> QED  BY <2>1, <2>2
<1>6. g = [j \in 0..n |-> [q \in Results |-> IF j = 0 THEN q ELSE g[j - 1][steps[Len(steps) - j + 1][q]]]]
  BY <1>4, <1>5
<1> QED  BY <1>6 DEF Lefts, g

LEMMA LeftsExist ==
  ASSUME NEW steps, NEW n \in Nat
  PROVE  \E f : Lefts(steps, n, f)
<1> DEFINE T == {k \in Nat : \E f : Lefts(steps, k, f)}
<1>1. 0 \in T
  <2> DEFINE f == [j \in 0..0 |-> [q \in Results |-> q]]
  <2>1. f = [j \in 0..0 |-> [q \in Results |-> IF j = 0 THEN q ELSE f[j - 1][steps[Len(steps) - j + 1][q]]]]
    OBVIOUS
  <2>2. Lefts(steps, 0, f)  BY <2>1 DEF Lefts
  <2> QED  BY <2>2
<1>2. ASSUME NEW k \in 1..n, k - 1 \in T PROVE k \in T
  <2>1. PICK f : Lefts(steps, k - 1, f)  BY <1>2
  <2>2. k \in Nat \ {0}  OBVIOUS
  <2>3. Lefts(steps, k, More(steps, k, f))  BY <2>1, <2>2, LeftsMore
  <2> QED  BY <2>2, <2>3
<1> HIDE DEF T
<1>3. n \in T  BY <1>1, <1>2, Climb
<1> QED  BY <1>3 DEF T

\* Through is the recursion that its definition says it is.
LEMMA ThroughIs ==
  ASSUME NEW steps, Len(steps) \in Nat
  PROVE  \E f : /\ \A q \in Results : f[0][q] = q
                /\ \A j \in 1..Len(steps) : \A q \in Results :
                     f[j][q] = f[j - 1][steps[Len(steps) - j + 1][q]]
                /\ \A i, r : Through(steps, i, r) = f[Len(steps) + 1 - i][r]
<1> DEFINE n == Len(steps)
           f == CHOOSE g : Lefts(steps, n, g)
<1>1. Lefts(steps, n, f)  BY LeftsExist
<1>2. \A i, r : Through(steps, i, r) = f[n + 1 - i][r]  BY DEF Through, Lefts
<1> HIDE DEF f
<1>3. \A j \in 0..n :
        f[j] = [q \in Results |-> IF j = 0 THEN q ELSE f[j - 1][steps[n - j + 1][q]]]
  BY <1>1 DEF Lefts
<1>4. \A q \in Results : f[0][q] = q
  <2>1. 0 \in 0..n  OBVIOUS
  <2>2. f[0] = [q \in Results |-> IF 0 = 0 THEN q ELSE f[0 - 1][steps[n - 0 + 1][q]]]
    BY <1>3, <2>1, Zenon
  <2> QED  BY <2>2, Zenon
<1>5. ASSUME NEW j \in 1..n, NEW q \in Results
      PROVE  f[j][q] = f[j - 1][steps[n - j + 1][q]]
  <2>1. j \in 0..n /\ j # 0  OBVIOUS
  <2>2. f[j] = [p \in Results |-> IF j = 0 THEN p ELSE f[j - 1][steps[n - j + 1][p]]]
    BY <1>3, <2>1, Zenon
  <2> QED  BY <2>1, <2>2, Zenon
<1> QED  BY <1>2, <1>4, <1>5

LEMMA ThroughEnd ==
  ASSUME NEW steps, Len(steps) \in Nat, NEW i, i = Len(steps) + 1, NEW r \in Results
  PROVE  Through(steps, i, r) = r
<1>1. PICK f : /\ \A q \in Results : f[0][q] = q
               /\ \A k, q : Through(steps, k, q) = f[Len(steps) + 1 - k][q]
  BY ThroughIs
<1>2. Len(steps) + 1 - i = 0  OBVIOUS
<1> QED  BY <1>1, <1>2

LEMMA ThroughNext ==
  ASSUME NEW steps, Len(steps) \in Nat, NEW i \in 1..Len(steps), NEW r \in Results
  PROVE  Through(steps, i, r) = Through(steps, i + 1, steps[i][r])
<1> DEFINE n == Len(steps)
           j == n + 1 - i
<1>1. PICK f : /\ \A m \in 1..n : \A q \in Results : f[m][q] = f[m - 1][steps[n - m + 1][q]]
               /\ \A k, q : Through(steps, k, q) = f[n + 1 - k][q]
  BY ThroughIs
<1>2. j \in 1..n /\ n - j + 1 = i /\ n + 1 - (i + 1) = j - 1  OBVIOUS
<1> HIDE DEF j
<1>3. f[j][r] = f[j - 1][steps[i][r]]  BY <1>1, <1>2
<1>4. Through(steps, i, r) = f[j][r] /\ Through(steps, i + 1, steps[i][r]) = f[j - 1][steps[i][r]]
  BY <1>1, <1>2 DEF j
<1> QED  BY <1>3, <1>4

\* What later steps do with r: nothing once it has failed, and they forget nothing.
Kept(r, q) ==
  /\ q \in Results
  /\ r.code # 0 => q = r
  /\ r.again => q.again
  /\ r.nested => q.nested
Steps == {s \in [Results -> Results] : \A r \in Results : Kept(r, s[r])}

LEMMA KeptSame == ASSUME NEW r \in Results PROVE Kept(r, r)  BY DEF Kept

LEMMA KeptOn ==
  ASSUME NEW r, NEW p, NEW q, Kept(r, p), Kept(p, q)
  PROVE  Kept(r, q)
  BY DEF Kept

LEMMA ThroughKept ==
  ASSUME NEW steps \in Seq(Steps), NEW i \in 1..(Len(steps) + 1), NEW r \in Results
  PROVE  Kept(r, Through(steps, i, r))
<1> DEFINE n == Len(steps)
           T == {k \in 0..n : \A q \in Results : Kept(q, Through(steps, n + 1 - k, q))}
<1>0. n \in Nat  OBVIOUS
<1>1. 0 \in T
  <2>1. \A q \in Results : Through(steps, n + 1 - 0, q) = q  BY <1>0, ThroughEnd
  <2> QED  BY <1>0, <2>1, KeptSame
<1>2. ASSUME NEW k \in 1..n, k - 1 \in T PROVE k \in T
  <2> SUFFICES ASSUME NEW q \in Results PROVE Kept(q, Through(steps, n + 1 - k, q))  OBVIOUS
  <2>1. n + 1 - k \in 1..n /\ (n + 1 - k) + 1 = n + 1 - (k - 1)  BY <1>0
  <2>2. steps[n + 1 - k] \in Steps  BY <2>1
  <2>3. Kept(q, steps[n + 1 - k][q]) /\ steps[n + 1 - k][q] \in Results  BY <2>2 DEF Steps
  <2>4. Kept(steps[n + 1 - k][q], Through(steps, n + 1 - (k - 1), steps[n + 1 - k][q]))
    BY <1>2, <2>3
  <2>5. Through(steps, n + 1 - k, q) = Through(steps, n + 1 - (k - 1), steps[n + 1 - k][q])
    BY <1>0, <2>1, ThroughNext
  <2> QED  BY <2>3, <2>4, <2>5, KeptOn
<1> HIDE DEF T
<1>3. \A k \in 0..n : k \in T  BY <1>0, <1>1, <1>2, Climb
<1>4. n + 1 - i \in 0..n /\ n + 1 - (n + 1 - i) = i  BY <1>0
<1>5. n + 1 - i \in T  BY <1>3, <1>4
<1> QED  BY <1>4, <1>5 DEF T

-----------------------------------------------------------------------------
(* What lines and names are, as steps. *)

LEMMA FailsIs ==
  ASSUME NEW r \in Results, NEW e \in {1, 2, 111}
  PROVE  /\ Fails(r, e) \in Results /\ Fails(r, e).code = e
         /\ r.code = 0 => Kept(r, Fails(r, e))
  BY DEF Fails, Results, Kept

LEMMA PrintsIs ==
  ASSUME NEW r \in Results, NEW f \in Files, NEW i \in Nat
  PROVE  LET q == Prints(r, f, i)
         IN  /\ q \in Results /\ q.text = Append(r.text, [file |-> f, line |-> i])
             /\ q.code = r.code /\ q.seen = r.seen /\ (q.again <=> r.again) /\ (q.nested <=> r.nested)
             /\ r.code = 0 => Kept(r, q)
<1>1. [file |-> f, line |-> i] \in Place  BY DEF Place
<1>2. Append(r.text, [file |-> f, line |-> i]) \in Seq(Place)  BY <1>1 DEF Results
<1> QED  BY <1>2 DEF Prints, Results, Kept

LEMMA EntersIs ==
  ASSUME NEW r \in Results, NEW f \in Files
  PROVE  LET q == Enters(r, f)
         IN  /\ q \in Results /\ q.seen = r.seen \cup {f} /\ (q.again <=> r.again \/ f \in r.seen)
             /\ q.code = r.code /\ q.text = r.text /\ (q.nested <=> r.nested)
             /\ r.code = 0 => Kept(r, q)
  BY DEF Enters, Results, Kept

LEMMA NestsIs ==
  ASSUME NEW r \in Results, NEW under \in BOOLEAN
  PROVE  LET q == Nests(r, under)
         IN  /\ q \in Results /\ (q.nested <=> r.nested \/ under)
             /\ q.code = r.code /\ q.text = r.text /\ q.seen = r.seen /\ (q.again <=> r.again)
             /\ r.code = 0 => Kept(r, q)
             /\ ~under => q = r
  BY DEF Nests, Results, Kept

Readers == [Sites -> [Names -> Steps]]
Texts == [Files -> Seq(Line)]

LEMMA SiteIs ==
  ASSUME NEW dir \in Dirs, NEW within \in SUBSET Files, NEW under \in BOOLEAN
  PROVE  LET w == Site(dir, within, under)
         IN  w \in Sites /\ w.dir = dir /\ w.within = within /\ (w.under <=> under)
  BY DEF Site, Sites

LEMMA DirStepsAre ==
  ASSUME NEW names \in Seq(Names), NEW w \in Sites, NEW reads \in Readers
  PROVE  /\ DirSteps(names, w, reads) \in Seq(Steps)
         /\ Len(DirSteps(names, w, reads)) = Len(names)
         /\ \A m \in 1..Len(names) : DirSteps(names, w, reads)[m] = reads[w][names[m]]
<1>1. DOMAIN names = 1..Len(names) /\ Len(names) \in Nat  OBVIOUS
<1>2. \A m \in 1..Len(names) : reads[w][names[m]] \in Steps  BY <1>1 DEF Readers
<1>3. DirSteps(names, w, reads) = [m \in 1..Len(names) |-> reads[w][names[m]]]
  BY <1>1 DEF DirSteps
<1> HIDE DEF DirSteps
<1>4. DirSteps(names, w, reads) \in [1..Len(names) -> Steps]  BY <1>2, <1>3
<1> QED  BY <1>1, <1>3, <1>4

\* q is what a line makes of r, for each kind of it.
LineMakes(t, f, i, w, reads, r, q) ==
  LET line == t[f][i]
      to == Cd[w.dir][line.dir]
  IN  /\ line.kind \in {"text", "tail"} => q = Prints(r, f, i)
      /\ line.kind \in Inclusions /\ to = Missing => q = Fails(r, 111)
      /\ line.kind = "include" /\ to # Missing =>
           q = reads[Site(to, w.within, w.under)][line.name][r]
      /\ line.kind = "includedir" /\ to # Missing =>
           q = Through(DirSteps(Listing[to], Site(to, w.within, TRUE), reads), 1, Nests(r, w.under))
      /\ line.kind \in {"unique", "multiple"} =>
           q = IF Declarations(t, f) \cap 1..(i - 1) = {} THEN r ELSE Fails(r, 1)
      /\ line.kind = "dropped" => q = r
      /\ line.kind = "unreadable" => q = Fails(r, 111)
      /\ line.kind = "invalid" => q = Fails(r, 1)

LEMMA LineIs ==
  ASSUME NEW t, NEW f, NEW i, NEW w, NEW reads, NEW r \in Results, r.code = 0
  PROVE  LineMakes(t, f, i, w, reads, r, LineStep(t, f, i, w, reads)[r])
<1>1. LineStep(t, f, i, w, reads)[r] = LineOn(t, f, i, w, reads, r)  BY DEF LineStep
<1>2. LineMakes(t, f, i, w, reads, r, LineOn(t, f, i, w, reads, r))
  BY DEF LineMakes, LineOn, Inclusions
<1> QED  BY <1>1, <1>2

LEMMA LineFailed ==
  ASSUME NEW t, NEW f, NEW i, NEW w, NEW reads, NEW r \in Results, r.code # 0
  PROVE  LineStep(t, f, i, w, reads)[r] = r
  BY DEF LineStep

LEMMA LineLeads ==
  ASSUME NEW t \in Texts, NEW f \in Files, NEW i \in DOMAIN t[f], NEW w \in Sites
  PROVE  /\ t[f][i] \in Line /\ Cd[w.dir][t[f][i].dir] \in Dirs \cup {Missing}
         /\ i \in 1..Len(t[f]) /\ DOMAIN t[f] = 1..Len(t[f]) /\ Len(t[f]) \in Nat
         /\ t[f][i].kind \in Kinds /\ t[f][i].name \in Names
<1>1. t[f] \in Seq(Line)  BY DEF Texts
<1>2. t[f][i] \in Line  BY <1>1
<1>3. t[f][i].dir \in Names /\ w.dir \in Dirs  BY <1>2 DEF Line, Sites
<1>4. Cd[w.dir][t[f][i].dir] \in Dirs \cup {Missing}  BY <1>3, PreprocessAssumption
<1> QED  BY <1>1, <1>2, <1>4 DEF Line

LEMMA LineKept ==
  ASSUME NEW t \in Texts, NEW f \in Files, NEW i \in DOMAIN t[f], NEW w \in Sites,
         NEW reads \in Readers, NEW r \in Results
  PROVE  Kept(r, LineStep(t, f, i, w, reads)[r])
<1> DEFINE line == t[f][i]
           to == Cd[w.dir][line.dir]
           q == LineStep(t, f, i, w, reads)[r]
<1>1. CASE r.code # 0  BY <1>1, LineFailed, KeptSame
<1>2. CASE r.code = 0
  <2>1. i \in Nat /\ line.kind \in Kinds /\ line.name \in Names /\ to \in Dirs \cup {Missing}
    BY LineLeads
  <2>2. w.within \in SUBSET Files /\ w.under \in BOOLEAN /\ TRUE \in BOOLEAN  BY DEF Sites
  <2>0. LineMakes(t, f, i, w, reads, r, q)  BY <1>2, LineIs
  <2> SUFFICES Kept(r, q)  OBVIOUS
  <2> HIDE DEF q
  <2>3. CASE line.kind \in {"text", "tail"}
    <3>1. q = Prints(r, f, i)  BY <2>0, <2>3 DEF LineMakes
    <3> QED  BY <1>2, <2>1, <3>1, PrintsIs
  <2>4. CASE line.kind \in Inclusions /\ to = Missing
    <3>1. q = Fails(r, 111)  BY <2>0, <2>4 DEF LineMakes
    <3> QED  BY <1>2, <3>1, FailsIs
  <2>5. CASE line.kind = "include" /\ to # Missing
    <3>1. q = reads[Site(to, w.within, w.under)][line.name][r]  BY <2>0, <2>5 DEF LineMakes
    <3>2. Site(to, w.within, w.under) \in Sites  BY <2>1, <2>2, <2>5, SiteIs
    <3>3. reads[Site(to, w.within, w.under)][line.name] \in Steps  BY <2>1, <3>2 DEF Readers
    <3> QED  BY <3>1, <3>3 DEF Steps
  <2>6. CASE line.kind = "includedir" /\ to # Missing
    <3> DEFINE steps == DirSteps(Listing[to], Site(to, w.within, TRUE), reads)
    <3>1. q = Through(steps, 1, Nests(r, w.under))  BY <2>0, <2>6 DEF LineMakes
    <3>2. Site(to, w.within, TRUE) \in Sites  BY <2>1, <2>2, <2>6, SiteIs
    <3>3. Listing[to] \in Seq(Names)  BY <2>1, <2>6, PreprocessAssumption
    <3>4. steps \in Seq(Steps)  BY <3>2, <3>3, DirStepsAre
    <3>5. Nests(r, w.under) \in Results /\ Kept(r, Nests(r, w.under))  BY <1>2, <2>2, NestsIs
    <3> HIDE DEF steps
    <3>6. 1 \in 1..(Len(steps) + 1)  BY <3>4
    <3> QED  BY <3>1, <3>4, <3>5, <3>6, ThroughKept, KeptOn
  <2>7. CASE line.kind \in {"unique", "multiple"}
    <3>1. q = r \/ q = Fails(r, 1)  BY <2>0, <2>7 DEF LineMakes
    <3> QED  BY <1>2, <3>1, FailsIs, KeptSame
  <2>8. CASE line.kind = "dropped"
    <3>1. q = r  BY <2>0, <2>8 DEF LineMakes
    <3> QED  BY <3>1, KeptSame
  <2>9. CASE line.kind = "unreadable"
    <3>1. q = Fails(r, 111)  BY <2>0, <2>9 DEF LineMakes
    <3> QED  BY <1>2, <3>1, FailsIs
  <2>10. CASE line.kind = "invalid"
    <3>1. q = Fails(r, 1)  BY <2>0, <2>10 DEF LineMakes
    <3> QED  BY <1>2, <3>1, FailsIs
  <2> QED  BY <2>1, <2>3, <2>4, <2>5, <2>6, <2>7, <2>8, <2>9, <2>10 DEF Kinds, Inclusions
<1>3. r.code \in {0, 1, 2, 111}  BY DEF Results
<1> QED  BY <1>1, <1>2

LEMMA StepIs ==
  ASSUME NEW s, DOMAIN s = Results, s = [r \in Results |-> s[r]], \A r \in Results : Kept(r, s[r])
  PROVE  s \in Steps
<1>1. \A r \in Results : s[r] \in Results  BY DEF Kept
<1>2. s \in [Results -> Results]  BY <1>1
<1> QED  BY <1>2 DEF Steps

LEMMA FileStepsAre ==
  ASSUME NEW t \in Texts, NEW f \in Files, NEW w \in Sites, NEW reads \in Readers
  PROVE  /\ FileSteps(t, f, w, reads) \in Seq(Steps)
         /\ Len(FileSteps(t, f, w, reads)) = Len(t[f])
         /\ \A i \in 1..Len(t[f]) : FileSteps(t, f, w, reads)[i] = LineStep(t, f, i, w, reads)
<1>1. DOMAIN t[f] = 1..Len(t[f]) /\ Len(t[f]) \in Nat  BY DEF Texts
<1>2. ASSUME NEW i \in 1..Len(t[f]) PROVE LineStep(t, f, i, w, reads) \in Steps
  <2> DEFINE s == LineStep(t, f, i, w, reads)
  <2>1. DOMAIN s = Results /\ s = [r \in Results |-> s[r]]  BY DEF LineStep
  <2>2. i \in DOMAIN t[f]  BY <1>1
  <2>3. \A r \in Results : Kept(r, s[r])  BY <2>2, LineKept
  <2> HIDE DEF s
  <2> QED  BY <2>1, <2>3, StepIs DEF s
<1>3. FileSteps(t, f, w, reads) = [i \in 1..Len(t[f]) |-> LineStep(t, f, i, w, reads)]
  BY <1>1 DEF FileSteps
<1>4. FileSteps(t, f, w, reads) \in [1..Len(t[f]) -> Steps]  BY <1>2, <1>3
<1> QED  BY <1>1, <1>3, <1>4

\* q is what a file makes of r where it is named.
ReadMakes(t, reads, w, name, r, q) ==
  LET f == Entry[w.dir][name]
      inner == Site(w.dir, w.within \cup {f}, w.under)
  IN  /\ r.code # 0 => q = r
      /\ r.code = 0 /\ f = Missing => q = Fails(r, 111)
      /\ r.code = 0 /\ f # Missing /\ f \in w.within => q = Fails(r, 2)
      /\ r.code = 0 /\ f # Missing /\ f \notin w.within =>
           /\ f \in r.seen /\ Says(t, f) = "nothing" => q = Fails(r, 2)
           /\ f \in r.seen /\ Says(t, f) = "unique" => q = r
           /\ (f \in r.seen => Says(t, f) \notin {"nothing", "unique"}) =>
                q = Through(FileSteps(t, f, inner, reads), 1, Enters(r, f))

LEMMA ReadIs ==
  ASSUME NEW t, NEW reads, NEW w \in Sites, NEW name \in Names, NEW r \in Results
  PROVE  ReadMakes(t, reads, w, name, r, Read(t, reads)[w][name][r])
  BY DEF Read, ReadMakes

LEMMA FileIs ==
  ASSUME NEW dir \in Dirs, NEW name \in Names, Entry[dir][name] # Missing
  PROVE  Entry[dir][name] \in Files
  BY PreprocessAssumption

LEMMA ReadKept ==
  ASSUME NEW t \in Texts, NEW reads \in Readers, NEW w \in Sites, NEW name \in Names, NEW r \in Results
  PROVE  Kept(r, Read(t, reads)[w][name][r])
<1> DEFINE f == Entry[w.dir][name]
           q == Read(t, reads)[w][name][r]
           inner == Site(w.dir, w.within \cup {f}, w.under)
<1> SUFFICES Kept(r, q)  OBVIOUS
<1>1. CASE q = r  BY <1>1, KeptSame
<1>2. CASE r.code = 0 /\ \E e \in {2, 111} : q = Fails(r, e)  BY <1>2, FailsIs
<1>3. CASE r.code = 0 /\ f # Missing /\ q = Through(FileSteps(t, f, inner, reads), 1, Enters(r, f))
  <2>1. w.dir \in Dirs /\ w.within \in SUBSET Files /\ w.under \in BOOLEAN  BY DEF Sites
  <2>2. f \in Files  BY <1>3, <2>1, FileIs
  <2>3. inner \in Sites  BY <2>1, <2>2, SiteIs
  <2>4. Enters(r, f) \in Results /\ Kept(r, Enters(r, f))  BY <1>3, <2>2, EntersIs
  <2> DEFINE steps == FileSteps(t, f, inner, reads)
  <2>5. steps \in Seq(Steps)  BY <2>2, <2>3, FileStepsAre
  <2> HIDE DEF steps, f, inner
  <2>6. 1 \in 1..(Len(steps) + 1)  BY <2>5
  <2>7. Kept(Enters(r, f), Through(steps, 1, Enters(r, f)))  BY <2>4, <2>5, <2>6, ThroughKept
  <2> QED  BY <1>3, <2>4, <2>7, KeptOn DEF steps
<1>4. ReadMakes(t, reads, w, name, r, q)  BY ReadIs
<1>5. r.code \in {0, 1, 2, 111} /\ (f \in w.within => f # Missing)
  <2>1. w.within \in SUBSET Files  BY DEF Sites
  <2> QED  BY <2>1, PreprocessAssumption DEF Results
<1> HIDE DEF q
<1> QED  BY <1>1, <1>2, <1>3, <1>4, <1>5 DEF ReadMakes

LEMMA ReadReads ==
  ASSUME NEW t \in Texts, NEW reads \in Readers
  PROVE  Read(t, reads) \in Readers
<1> DEFINE R == Read(t, reads)
<1>1. ASSUME NEW w \in Sites, NEW name \in Names PROVE R[w][name] \in Steps
  <2> DEFINE s == R[w][name]
  <2>1. DOMAIN s = Results /\ s = [r \in Results |-> s[r]]  BY DEF Read
  <2>2. \A r \in Results : Kept(r, s[r])  BY ReadKept
  <2> HIDE DEF s
  <2> QED  BY <2>1, <2>2, StepIs DEF s
<1>2. DOMAIN R = Sites /\ R = [w \in Sites |-> R[w]]  BY DEF Read
<1>3. ASSUME NEW w \in Sites PROVE DOMAIN R[w] = Names /\ R[w] = [name \in Names |-> R[w][name]]
  BY DEF Read
<1> HIDE DEF R
<1>4. ASSUME NEW w \in Sites PROVE R[w] \in [Names -> Steps]  BY <1>1, <1>3
<1>5. R \in [Sites -> [Names -> Steps]]  BY <1>2, <1>4
<1> QED  BY <1>5 DEF Readers, R

LEMMA ReadLastIs ==
  ASSUME NEW w \in Sites, NEW name \in Names, NEW r \in Results
  PROVE  LET q == ReadLast[w][name][r]
         IN  /\ r.code # 0 => q = r
             /\ r.code = 0 /\ Entry[w.dir][name] = Missing => q = Fails(r, 111)
             /\ r.code = 0 /\ Entry[w.dir][name] # Missing => q = Fails(r, 2)
  BY DEF ReadLast

LEMMA ReadLastReads == ReadLast \in Readers
<1> DEFINE R == ReadLast
<1>1. ASSUME NEW w \in Sites, NEW name \in Names PROVE R[w][name] \in Steps
  <2> DEFINE s == R[w][name]
  <2>1. DOMAIN s = Results /\ s = [r \in Results |-> s[r]]  BY DEF ReadLast
  <2>2. ASSUME NEW r \in Results PROVE Kept(r, s[r])
    <3>1. s[r] = r \/ (r.code = 0 /\ \E e \in {2, 111} : s[r] = Fails(r, e))  BY ReadLastIs
    <3> QED  BY <3>1, KeptSame, FailsIs
  <2> HIDE DEF s
  <2> QED  BY <2>1, <2>2, StepIs DEF s
<1>2. DOMAIN R = Sites /\ R = [w \in Sites |-> R[w]]  BY DEF ReadLast
<1>3. ASSUME NEW w \in Sites PROVE DOMAIN R[w] = Names /\ R[w] = [name \in Names |-> R[w][name]]
  BY DEF ReadLast
<1> HIDE DEF R
<1>4. ASSUME NEW w \in Sites PROVE R[w] \in [Names -> Steps]  BY <1>1, <1>3
<1>5. R \in [Sites -> [Names -> Steps]]  BY <1>2, <1>4
<1> QED  BY <1>5 DEF Readers, R

\* The first levels of Reading.
Levels(t, n, g) == g = [k \in 0..n |-> IF k = 0 THEN ReadLast ELSE Read(t, g[k - 1])]
Deeper(t, n, g) == [k \in 0..n |-> IF k = n THEN Read(t, g[n - 1]) ELSE g[k]]

LEMMA LevelsDeeper ==
  ASSUME NEW t, NEW n \in Nat \ {0}, NEW g, Levels(t, n - 1, g)
  PROVE  Levels(t, n, Deeper(t, n, g))
<1> DEFINE h == Deeper(t, n, g)
<1>1. \A k \in 0..(n - 1) : g[k] = IF k = 0 THEN ReadLast ELSE Read(t, g[k - 1])
  BY DEF Levels
<1>2. \A k \in 0..(n - 1) : h[k] = g[k]  BY DEF Deeper
<1>3. h[n] = Read(t, g[n - 1])  BY DEF Deeper
<1>4. DOMAIN h = 0..n /\ h = [k \in 0..n |-> h[k]]  BY DEF Deeper
<1> HIDE DEF h
<1>5. ASSUME NEW k \in 0..n PROVE h[k] = IF k = 0 THEN ReadLast ELSE Read(t, h[k - 1])
  <2>1. CASE k = n
    <3>1. h[n - 1] = g[n - 1] /\ n # 0  BY <1>2
    <3> QED  BY <1>3, <2>1, <3>1
  <2>2. CASE k # n
    <3>1. k \in 0..(n - 1) /\ (k # 0 => k - 1 \in 0..(n - 1))  BY <2>2
    <3>2. h[k] = g[k] /\ (k # 0 => h[k - 1] = g[k - 1])  BY <1>2, <3>1
    <3> QED  BY <1>1, <3>1, <3>2
  <2> QED  BY <2>1, <2>2
<1>6. h = [k \in 0..n |-> IF k = 0 THEN ReadLast ELSE Read(t, h[k - 1])]  BY <1>4, <1>5
<1> QED  BY <1>6 DEF Levels, h

LEMMA LevelsExist ==
  ASSUME NEW t, NEW n \in Nat
  PROVE  \E g : Levels(t, n, g)
<1> DEFINE T == {k \in Nat : \E g : Levels(t, k, g)}
<1>1. 0 \in T
  <2> DEFINE g == [k \in 0..0 |-> ReadLast]
  <2>1. g = [k \in 0..0 |-> IF k = 0 THEN ReadLast ELSE Read(t, g[k - 1])]  OBVIOUS
  <2>2. Levels(t, 0, g)  BY <2>1 DEF Levels
  <2> QED  BY <2>2
<1>2. ASSUME NEW k \in 1..n, k - 1 \in T PROVE k \in T
  <2>1. PICK g : Levels(t, k - 1, g)  BY <1>2
  <2>2. k \in Nat \ {0}  OBVIOUS
  <2>3. Levels(t, k, Deeper(t, k, g))  BY <2>1, <2>2, LevelsDeeper
  <2> QED  BY <2>2, <2>3
<1> HIDE DEF T
<1>3. n \in T  BY <1>1, <1>2, Climb
<1> QED  BY <1>3 DEF T

Count == Cardinality(Files)

LEMMA CountIs == Count \in Nat
  BY FilesAreFinite, FS_CardinalityType DEF Count

LEMMA ReadingIs ==
  ASSUME NEW t
  PROVE  /\ Reading(t, 0) = ReadLast
         /\ \A k \in 1..Count : Reading(t, k) = Read(t, Reading(t, k - 1))
<1> DEFINE g == CHOOSE h : Levels(t, Count, h)
<1>1. Levels(t, Count, g)  BY CountIs, LevelsExist
<1>2. \A k : Reading(t, k) = g[k]  BY DEF Reading, Levels, Count
<1> HIDE DEF g
<1>3. \A k \in 0..Count : g[k] = IF k = 0 THEN ReadLast ELSE Read(t, g[k - 1])
  BY <1>1 DEF Levels
<1>4. 0 \in 0..Count /\ \A k \in 1..Count : k \in 0..Count /\ k # 0  BY CountIs
<1> QED  BY <1>2, <1>3, <1>4

LEMMA ReadingReads ==
  ASSUME NEW t \in Texts, NEW k \in 0..Count
  PROVE  Reading(t, k) \in Readers
<1> DEFINE T == {n \in 0..Count : Reading(t, n) \in Readers}
<1>1. 0 \in T  BY ReadingIs, ReadLastReads, CountIs
<1>2. ASSUME NEW n \in 1..Count, n - 1 \in T PROVE n \in T
  <2>1. Reading(t, n) = Read(t, Reading(t, n - 1)) /\ n \in 0..Count  BY ReadingIs, CountIs
  <2> QED  BY <1>2, <2>1, ReadReads
<1> HIDE DEF T
<1>3. k \in T  BY <1>1, <1>2, CountIs, Climb
<1> QED  BY <1>3 DEF T

\* What names do while the files of set wait.
ReadsIn(t, set) == Reading(t, Count - Cardinality(set))

LEMMA Room ==
  ASSUME NEW set \in SUBSET Files
  PROVE  /\ IsFiniteSet(set) /\ Cardinality(set) \in Nat /\ Count - Cardinality(set) \in 0..Count
         /\ \A f \in Files \ set :
              /\ Count - Cardinality(set) \in 1..Count
              /\ Count - Cardinality(set \cup {f}) = (Count - Cardinality(set)) - 1
<1>1. IsFiniteSet(set) /\ Cardinality(set) <= Count
  BY FilesAreFinite, FS_Subset DEF Count
<1>2. Cardinality(set) \in Nat  BY <1>1, FS_CardinalityType
<1>3. ASSUME NEW f \in Files \ set
      PROVE  Cardinality(set \cup {f}) = Cardinality(set) + 1 /\ Cardinality(set \cup {f}) <= Count
  <2>1. set \cup {f} \in SUBSET Files  OBVIOUS
  <2> QED  BY <1>1, <2>1, FilesAreFinite, FS_Subset, FS_AddElement DEF Count
<1> QED  BY <1>1, <1>2, <1>3, CountIs

LEMMA ReadsInIs ==
  ASSUME NEW t \in Texts, NEW set \in SUBSET Files
  PROVE  /\ ReadsIn(t, set) \in Readers
         /\ \A f \in Files \ set : ReadsIn(t, set) = Read(t, ReadsIn(t, set \cup {f}))
<1>1. ReadsIn(t, set) \in Readers  BY Room, ReadingReads DEF ReadsIn
<1>2. ASSUME NEW f \in Files \ set
      PROVE  ReadsIn(t, set) = Read(t, ReadsIn(t, set \cup {f}))
  <2> DEFINE k == Count - Cardinality(set)
  <2>1. k \in 1..Count /\ Count - Cardinality(set \cup {f}) = k - 1  BY Room
  <2> QED  BY <2>1, ReadingIs DEF ReadsIn
<1> QED  BY <1>1, <1>2

\* q is what a name makes of r while the files of w.within wait.
NameMakes(t, w, name, r, q) ==
  LET f == Entry[w.dir][name]
      within == w.within \cup {f}
      inner == Site(w.dir, within, w.under)
  IN  /\ f = Missing => q = Fails(r, 111)
      /\ f # Missing /\ f \in w.within => q = Fails(r, 2)
      /\ f # Missing /\ f \notin w.within =>
           /\ f \in r.seen /\ Says(t, f) = "nothing" => q = Fails(r, 2)
           /\ f \in r.seen /\ Says(t, f) = "unique" => q = r
           /\ (f \in r.seen => Says(t, f) \notin {"nothing", "unique"}) =>
                q = Through(FileSteps(t, f, inner, ReadsIn(t, within)), 1, Enters(r, f))

LEMMA NameIs ==
  ASSUME NEW t \in Texts, NEW w \in Sites, NEW name \in Names, NEW r \in Results, r.code = 0
  PROVE  NameMakes(t, w, name, r, ReadsIn(t, w.within)[w][name][r])
<1> DEFINE f == Entry[w.dir][name]
           k == Count - Cardinality(w.within)
           q == ReadsIn(t, w.within)[w][name][r]
<1> SUFFICES NameMakes(t, w, name, r, q)  OBVIOUS
<1>1. w.dir \in Dirs /\ w.within \in SUBSET Files  BY DEF Sites
<1>2. k \in 0..Count  BY <1>1, Room
<1>3. f # Missing => f \in Files  BY <1>1, FileIs
<1>4. CASE f # Missing /\ f \notin w.within
  <2>1. ReadsIn(t, w.within) = Read(t, ReadsIn(t, w.within \cup {f}))  BY <1>1, <1>3, <1>4, ReadsInIs
  <2> DEFINE reads == ReadsIn(t, w.within \cup {f})
  <2>2. ReadMakes(t, reads, w, name, r, q)  BY <2>1, ReadIs
  <2> HIDE DEF q
  <2> QED  BY <1>4, <2>2 DEF ReadMakes, NameMakes
<1>5. CASE f = Missing \/ f \in w.within
  <2>1. CASE k = 0
    <3>1. ReadsIn(t, w.within) = ReadLast  BY <2>1, ReadingIs DEF ReadsIn
    <3>2. /\ f = Missing => q = Fails(r, 111)
          /\ f # Missing => q = Fails(r, 2)
      BY <3>1, ReadLastIs
    <3> HIDE DEF q
    <3> QED  BY <1>5, <3>2 DEF NameMakes
  <2>2. CASE k # 0
    <3>1. k \in 1..Count  BY <1>2, <2>2, CountIs
    <3>2. ReadsIn(t, w.within) = Read(t, Reading(t, k - 1))  BY <3>1, ReadingIs DEF ReadsIn
    <3>3. ReadMakes(t, Reading(t, k - 1), w, name, r, q)  BY <3>2, ReadIs
    <3> HIDE DEF q
    <3> QED  BY <1>5, <3>3 DEF ReadMakes, NameMakes
  <2> QED  BY <2>1, <2>2
<1> QED  BY <1>4, <1>5

-----------------------------------------------------------------------------
(***************************************************************************)
(* The stack as what is left of the document: what each frame makes of the *)
(* result of the one behind it, up to the whole.                           *)
(***************************************************************************)

\* The files and the directories of the first k frames.
Upto(s, k) == {f \in Files : \E j \in 1..k : IsFile(s[j]) /\ s[j].file = f}
DirUpto(s, k) == \E j \in 1..k : ~IsFile(s[j])
SiteAt(s, k, dir) == Site(dir, Upto(s, k), DirUpto(s, k))

\* The steps of the k-th frame, whose directory is dir, and the next of them.
FrameSteps(t, s, k, dir) ==
  IF IsFile(s[k]) THEN FileSteps(t, s[k].file, SiteAt(s, k, dir), ReadsIn(t, Upto(s, k)))
  ELSE DirSteps(s[k].names, SiteAt(s, k, dir), ReadsIn(t, Upto(s, k)))
Position(x) == IF IsFile(x) THEN IF x.calling THEN x.at + 1 ELSE x.at ELSE x.next
Size(t, x) == IF IsFile(x) THEN Len(t[x.file]) ELSE Len(x.names)
Onward(t, s, k, dir, r) == Through(FrameSteps(t, s, k, dir), Position(s[k]), r)

Linked(t, s, k, V, D) ==
  /\ Position(s[k]) \in 1..(Size(t, s[k]) + 1)
  /\ V[k] = Onward(t, s, k, D[k], V[k + 1])
  /\ IsFile(s[k]) => D[k] = s[k].dir
  /\ k + 1 \in 1..Len(s) /\ ~IsFile(s[k]) => D[k + 1] = D[k]

\* V: the results, of the whole, of each frame, and the one so far; D: the directories.
Links(t, s, V, D) ==
  /\ V \in [1..(Len(s) + 1) -> Results] /\ D \in [1..Len(s) -> Dirs]
  /\ V[1] = DocumentOf(t)
  /\ \A k \in 1..Len(s) : Linked(t, s, k, V, D)

LEMMA UptoIs ==
  ASSUME NEW s, NEW k
  PROVE  Upto(s, k) \in SUBSET Files /\ DirUpto(s, k) \in BOOLEAN
  BY DEF Upto, DirUpto

LEMMA SiteAtIs ==
  ASSUME NEW s, NEW k, NEW dir \in Dirs
  PROVE  LET w == SiteAt(s, k, dir)
         IN  w \in Sites /\ w.dir = dir /\ w.within = Upto(s, k) /\ (w.under <=> DirUpto(s, k))
  BY UptoIs, SiteIs DEF SiteAt

LEMMA FrameStepsAre ==
  ASSUME NEW t \in Texts, NEW s \in Seq(Frames), NEW k \in 1..Len(s), NEW dir \in Dirs
  PROVE  LET steps == FrameSteps(t, s, k, dir)
             w == SiteAt(s, k, dir)
             reads == ReadsIn(t, Upto(s, k))
         IN  /\ steps \in Seq(Steps) /\ Len(steps) = Size(t, s[k]) /\ Size(t, s[k]) \in Nat
             /\ IsFile(s[k]) => \A i \in 1..Size(t, s[k]) : steps[i] = LineStep(t, s[k].file, i, w, reads)
             /\ ~IsFile(s[k]) => \A i \in 1..Size(t, s[k]) : steps[i] = reads[w][s[k].names[i]]
<1> DEFINE w == SiteAt(s, k, dir)
           reads == ReadsIn(t, Upto(s, k))
<1>1. s[k] \in Frames /\ w \in Sites /\ reads \in Readers  BY SiteAtIs, UptoIs, ReadsInIs
<1> HIDE DEF w, reads
<1>2. CASE IsFile(s[k])
  <2>1. s[k].file \in Files  BY <1>1, <1>2, FrameKinds
  <2>2. FrameSteps(t, s, k, dir) = FileSteps(t, s[k].file, w, reads) /\ Size(t, s[k]) = Len(t[s[k].file])
    BY <1>2 DEF FrameSteps, Size, w, reads
  <2>3. Len(t[s[k].file]) \in Nat  BY <2>1 DEF Texts
  <2> QED  BY <1>1, <1>2, <2>1, <2>2, <2>3, FileStepsAre DEF w, reads
<1>3. CASE ~IsFile(s[k])
  <2>1. s[k].names \in Seq(Names)  BY <1>1, <1>3, FrameKinds
  <2>2. FrameSteps(t, s, k, dir) = DirSteps(s[k].names, w, reads) /\ Size(t, s[k]) = Len(s[k].names)
    BY <1>3 DEF FrameSteps, Size, w, reads
  <2>3. Len(s[k].names) \in Nat  BY <2>1
  <2> QED  BY <1>1, <1>3, <2>1, <2>2, <2>3, DirStepsAre DEF w, reads
<1> QED  BY <1>2, <1>3

LEMMA OnwardKept ==
  ASSUME NEW t \in Texts, NEW s \in Seq(Frames), NEW k \in 1..Len(s), NEW dir \in Dirs,
         Position(s[k]) \in 1..(Size(t, s[k]) + 1), NEW r \in Results
  PROVE  Kept(r, Onward(t, s, k, dir, r))
<1>1. FrameSteps(t, s, k, dir) \in Seq(Steps) /\ Len(FrameSteps(t, s, k, dir)) = Size(t, s[k])
  BY FrameStepsAre
<1> QED  BY <1>1, ThroughKept DEF Onward

\* What has failed, or differs, so far, does so in the document.
LEMMA LinksKept ==
  ASSUME NEW t \in Texts, NEW s \in Seq(Frames), NEW V, NEW D, Links(t, s, V, D)
  PROVE  \A k \in 1..(Len(s) + 1) : Kept(V[k], DocumentOf(t))
<1> DEFINE n == Len(s)
           T == {k \in 0..n : Kept(V[k + 1], DocumentOf(t))}
<1>0. n \in Nat  OBVIOUS
<1>1. 0 \in T
  <2>1. V[1] = DocumentOf(t) /\ V[1] \in Results  BY <1>0 DEF Links
  <2>2. V[0 + 1] = V[1] /\ 0 \in 0..n  BY <1>0
  <2> QED  BY <2>1, <2>2, KeptSame
<1>2. ASSUME NEW k \in 1..n, k - 1 \in T PROVE k \in T
  <2>1. Kept(V[k], DocumentOf(t))
    <3>1. (k - 1) + 1 = k  BY <1>0
    <3>2. Kept(V[(k - 1) + 1], DocumentOf(t))  BY <1>2
    <3> QED  BY <3>1, <3>2
  <2>2. V[k + 1] \in Results /\ D[k] \in Dirs  BY <1>0 DEF Links
  <2>3. Linked(t, s, k, V, D)  BY DEF Links
  <2>4. Kept(V[k + 1], V[k])  BY <2>2, <2>3, OnwardKept DEF Linked
  <2>5. Kept(V[k + 1], DocumentOf(t))  BY <2>1, <2>4, KeptOn
  <2>6. k \in 0..n  BY <1>0
  <2> QED  BY <2>5, <2>6
<1> HIDE DEF T
<1>3. \A k \in 0..n : k \in T  BY <1>0, <1>1, <1>2, Climb
<1> SUFFICES ASSUME NEW k \in 1..(n + 1) PROVE Kept(V[k], DocumentOf(t))  OBVIOUS
<1>4. k - 1 \in T /\ (k - 1) + 1 = k  BY <1>0, <1>3
<1>5. Kept(V[(k - 1) + 1], DocumentOf(t))  BY <1>4 DEF T
<1> QED  BY <1>4, <1>5

LEMMA OnwardSame ==
  ASSUME NEW t, NEW s, NEW u, NEW k \in Nat, \A j \in 1..k : s[j] = u[j]
  PROVE  /\ Upto(s, k) = Upto(u, k) /\ DirUpto(s, k) = DirUpto(u, k)
         /\ k # 0 => \A dir, r : Onward(t, s, k, dir, r) = Onward(t, u, k, dir, r)
<1>1. Upto(s, k) = Upto(u, k)  BY DEF Upto
<1>2. DirUpto(s, k) = DirUpto(u, k)  BY DEF DirUpto
<1>3. k # 0 => s[k] = u[k]  OBVIOUS
<1> QED  BY <1>1, <1>2, <1>3 DEF Onward, FrameSteps, SiteAt

LEMMA LinkedSame ==
  ASSUME NEW t, NEW s, NEW u, NEW k \in Nat \ {0}, NEW V, NEW D, NEW W, NEW E,
         Linked(t, s, k, V, D), \A j \in 1..k : s[j] = u[j],
         W[k] = V[k], W[k + 1] = V[k + 1], E[k] = D[k],
         k + 1 \in 1..Len(u) /\ ~IsFile(u[k]) => E[k + 1] = D[k]
  PROVE  Linked(t, u, k, W, E)
<1>1. s[k] = u[k]  OBVIOUS
<1>2. Onward(t, u, k, D[k], V[k + 1]) = Onward(t, s, k, D[k], V[k + 1])  BY OnwardSame
<1> QED  BY <1>1, <1>2 DEF Linked

LEMMA PushLinks ==
  ASSUME NEW t, NEW s \in Seq(Frames), NEW V, NEW D, Links(t, s, V, D),
         NEW x \in Frames, NEW dir \in Dirs, NEW r \in Results,
         Position(x) \in 1..(Size(t, x) + 1), IsFile(x) => dir = x.dir,
         Len(s) # 0 /\ ~IsFile(s[Len(s)]) => dir = D[Len(s)],
         V[Len(s) + 1] = Onward(t, Append(s, x), Len(s) + 1, dir, r)
  PROVE  \E W, E : /\ Links(t, Append(s, x), W, E)
                   /\ W[Len(s) + 2] = r /\ E[Len(s) + 1] = dir
<1> DEFINE n == Len(s)
           u == Append(s, x)
           W == [k \in 1..(n + 2) |-> IF k = n + 2 THEN r ELSE V[k]]
           E == [k \in 1..(n + 1) |-> IF k = n + 1 THEN dir ELSE D[k]]
<1>1. n \in Nat /\ u \in Seq(Frames) /\ Len(u) = n + 1 /\ u[n + 1] = x /\ \A k \in 1..n : u[k] = s[k]
  BY Pushed
<1>2. V \in [1..(n + 1) -> Results] /\ D \in [1..n -> Dirs] /\ V[1] = DocumentOf(t)
  BY DEF Links
<1>3. /\ W \in [1..(n + 2) -> Results] /\ W[n + 2] = r /\ \A k \in 1..(n + 1) : W[k] = V[k]
  <2>1. \A k \in 1..(n + 2) : k # n + 2 => k \in 1..(n + 1)  BY <1>1
  <2>2. n + 2 \in 1..(n + 2) /\ \A k \in 1..(n + 1) : k \in 1..(n + 2) /\ k # n + 2  BY <1>1
  <2> QED  BY <1>2, <2>1, <2>2
<1>4. /\ E \in [1..(n + 1) -> Dirs] /\ E[n + 1] = dir /\ \A k \in 1..n : E[k] = D[k]
  <2>1. \A k \in 1..(n + 1) : k # n + 1 => k \in 1..n  BY <1>1
  <2>2. n + 1 \in 1..(n + 1) /\ \A k \in 1..n : k \in 1..(n + 1) /\ k # n + 1  BY <1>1
  <2> QED  BY <1>2, <2>1, <2>2
<1> HIDE DEF u, W, E
<1>5. ASSUME NEW k \in 1..(n + 1) PROVE Linked(t, u, k, W, E)
  <2>1. CASE k = n + 1
    <3>1. W[k] = V[n + 1] /\ W[k + 1] = r /\ E[k] = dir /\ u[k] = x /\ k + 1 = n + 2
      BY <1>1, <1>3, <1>4, <2>1
    <3>2. k + 1 \notin 1..Len(u)  BY <1>1, <2>1
    <3>3. V[n + 1] = Onward(t, u, k, dir, r)  BY <2>1 DEF u
    <3> QED  BY <3>1, <3>2, <3>3 DEF Linked
  <2>2. CASE k # n + 1
    <3>1. k \in 1..n /\ k \in Nat \ {0} /\ k + 1 \in 1..(n + 1) /\ k \in 1..(n + 1)  BY <1>1, <2>2
    <3>2. Linked(t, s, k, V, D)  BY <3>1 DEF Links
    <3>3. \A j \in 1..k : s[j] = u[j]  BY <1>1, <3>1
    <3>4. W[k] = V[k] /\ W[k + 1] = V[k + 1] /\ E[k] = D[k]  BY <1>3, <1>4, <3>1
    <3>5. ~IsFile(u[k]) => E[k + 1] = D[k]
      <4>1. CASE k = n
        <5>1. u[k] = s[n] /\ n # 0  BY <1>1, <3>1, <4>1
        <5> QED  BY <1>4, <4>1, <5>1
      <4>2. CASE k # n
        <5>1. k + 1 \in 1..n  BY <1>1, <3>1, <4>2
        <5>2. ~IsFile(s[k]) => D[k + 1] = D[k]  BY <3>2, <5>1 DEF Linked
        <5> QED  BY <1>1, <1>4, <3>1, <5>1, <5>2
      <4> QED  BY <4>1, <4>2
    <3> QED  BY <3>1, <3>2, <3>3, <3>4, <3>5, LinkedSame
  <2> QED  BY <2>1, <2>2
<1>6. W[1] = DocumentOf(t)
  <2>1. 1 \in 1..(n + 1)  BY <1>1
  <2> QED  BY <1>2, <1>3, <2>1
<1>7. Links(t, u, W, E)
  <2>1. Len(u) + 1 = n + 2  BY <1>1
  <2> QED  BY <1>1, <1>3, <1>4, <1>5, <1>6, <2>1 DEF Links
<1> QED  BY <1>3, <1>4, <1>7 DEF u

\* u is s without its last frame.
Without(s, u) ==
  /\ s \in Seq(Frames) /\ s # <<>> /\ u \in Seq(Frames) /\ Len(u) = Len(s) - 1
  /\ \A k \in 1..(Len(s) - 1) : u[k] = s[k]

Kin(s, V, D, W, E) == W[Len(s)] = V[Len(s)] /\ \A k \in 1..(Len(s) - 1) : E[k] = D[k]

LEMMA PopLinks ==
  ASSUME NEW t, NEW s, NEW u, Without(s, u), NEW V, NEW D, Links(t, s, V, D)
  PROVE  \E W, E : Links(t, u, W, E) /\ Kin(s, V, D, W, E)
<1> DEFINE n == Len(s)
           W == [k \in 1..n |-> V[k]]
           E == [k \in 1..(n - 1) |-> D[k]]
<1>0. /\ s \in Seq(Frames) /\ s # <<>> /\ u \in Seq(Frames) /\ Len(u) = n - 1
      /\ \A k \in 1..(n - 1) : u[k] = s[k]
  BY DEF Without
<1>1. n \in Nat \ {0} /\ n - 1 \in Nat /\ Len(u) + 1 = n  BY <1>0
<1>2. V \in [1..(n + 1) -> Results] /\ D \in [1..n -> Dirs] /\ V[1] = DocumentOf(t)
  BY DEF Links
<1>3. (\A k \in 1..n : k \in 1..(n + 1)) /\ (\A k \in 1..(n - 1) : k \in 1..n)  BY <1>1
<1>4. W \in [1..n -> Results] /\ \A k \in 1..n : W[k] = V[k]  BY <1>2, <1>3
<1>5. E \in [1..(n - 1) -> Dirs] /\ \A k \in 1..(n - 1) : E[k] = D[k]  BY <1>2, <1>3
<1> HIDE DEF W, E
<1>6. ASSUME NEW k \in 1..(n - 1) PROVE Linked(t, u, k, W, E)
  <2>1. k \in 1..n /\ k + 1 \in 1..n /\ k \in Nat \ {0}  BY <1>1
  <2>2. Linked(t, s, k, V, D)  BY <2>1 DEF Links
  <2>3. \A j \in 1..k : j \in 1..(n - 1)  BY <1>1
  <2>4. \A j \in 1..k : s[j] = u[j]  BY <1>0, <2>3
  <2>5. W[k] = V[k] /\ W[k + 1] = V[k + 1] /\ E[k] = D[k]  BY <1>4, <1>5, <2>1
  <2>6. k + 1 \in 1..Len(u) /\ ~IsFile(u[k]) => E[k + 1] = D[k]
    <3>1. k + 1 \in 1..Len(u) => k + 1 \in 1..(n - 1)  BY <1>1
    <3>2. ~IsFile(s[k]) => D[k + 1] = D[k]  BY <2>1, <2>2 DEF Linked
    <3>3. u[k] = s[k]  BY <1>0
    <3> QED  BY <1>5, <3>1, <3>2, <3>3
  <2> QED  BY <2>1, <2>2, <2>4, <2>5, <2>6, LinkedSame
<1>7. W[1] = DocumentOf(t) /\ n \in 1..n  BY <1>1, <1>2, <1>4
<1>8. Links(t, u, W, E)  BY <1>0, <1>1, <1>4, <1>5, <1>6, <1>7 DEF Links
<1> QED  BY <1>4, <1>5, <1>7, <1>8 DEF Kin

\* The frame on top goes on: to another of its steps.
Same(x, y) ==
  /\ IsFile(x) <=> IsFile(y)
  /\ IsFile(x) => y.file = x.file /\ y.dir = x.dir
  /\ ~IsFile(x) => y.names = x.names

LEMMA ReplaceLinks ==
  ASSUME NEW t, NEW s \in Seq(Frames), NEW V, NEW D, Links(t, s, V, D), s # <<>>,
         NEW u \in Seq(Frames), Len(u) = Len(s), \A k \in 1..(Len(s) - 1) : u[k] = s[k],
         Same(s[Len(s)], u[Len(s)]), Position(u[Len(s)]) \in 1..(Size(t, u[Len(s)]) + 1),
         NEW r \in Results,
         V[Len(s)] = Through(FrameSteps(t, s, Len(s), D[Len(s)]), Position(u[Len(s)]), r)
  PROVE  \E W : /\ Links(t, u, W, D) /\ W[Len(s) + 1] = r
<1> DEFINE n == Len(s)
           W == [k \in 1..(n + 1) |-> IF k = n + 1 THEN r ELSE V[k]]
<1>1. n \in Nat \ {0} /\ n - 1 \in Nat /\ n \in 1..n  OBVIOUS
<1>2. V \in [1..(n + 1) -> Results] /\ D \in [1..n -> Dirs] /\ V[1] = DocumentOf(t)
  BY DEF Links
<1>3. /\ W \in [1..(n + 1) -> Results] /\ W[n + 1] = r /\ \A k \in 1..n : W[k] = V[k]
  <2>1. n + 1 \in 1..(n + 1) /\ \A k \in 1..n : k \in 1..(n + 1) /\ k # n + 1  BY <1>1
  <2> QED  BY <1>2, <2>1
<1> HIDE DEF W
<1>4. ASSUME NEW k \in 1..n, k # n PROVE Linked(t, u, k, W, D)
  <2>1. k \in Nat \ {0} /\ k \in 1..(n - 1) /\ k + 1 \in 1..n  BY <1>1, <1>4
  <2>2. Linked(t, s, k, V, D)  BY DEF Links
  <2>3. \A j \in 1..k : j \in 1..(n - 1)  BY <1>1, <2>1
  <2>4. \A j \in 1..k : s[j] = u[j]  BY <2>3
  <2>5. W[k] = V[k] /\ W[k + 1] = V[k + 1]  BY <1>3, <2>1
  <2>6. ~IsFile(u[k]) => D[k + 1] = D[k]
    <3>1. u[k] = s[k]  BY <2>1
    <3> QED  BY <2>1, <2>2, <3>1 DEF Linked
  <2> QED  BY <2>1, <2>2, <2>4, <2>5, <2>6, LinkedSame
<1>5. Linked(t, u, n, W, D)
  <2>1. Upto(u, n) = Upto(s, n)
    <3>1. ASSUME NEW j \in 1..n
          PROVE  (IsFile(u[j]) <=> IsFile(s[j])) /\ (IsFile(s[j]) => u[j].file = s[j].file)
      <4>1. CASE j = n  BY <4>1 DEF Same
      <4>2. CASE j # n
        <5>1. j \in 1..(n - 1)  BY <1>1, <4>2
        <5> QED  BY <5>1
      <4> QED  BY <4>1, <4>2
    <3> QED  BY <3>1 DEF Upto
  <2>2. DirUpto(u, n) <=> DirUpto(s, n)
    <3>1. ASSUME NEW j \in 1..n PROVE IsFile(u[j]) <=> IsFile(s[j])
      <4>1. CASE j = n  BY <4>1 DEF Same
      <4>2. CASE j # n
        <5>1. j \in 1..(n - 1)  BY <1>1, <4>2
        <5> QED  BY <5>1
      <4> QED  BY <4>1, <4>2
    <3> QED  BY <3>1 DEF DirUpto
  <2>3. SiteAt(u, n, D[n]) = SiteAt(s, n, D[n])
    <3>1. DirUpto(u, n) = DirUpto(s, n)  BY <2>2, UptoIs
    <3> QED  BY <2>1, <3>1 DEF SiteAt
  <2>4. FrameSteps(t, u, n, D[n]) = FrameSteps(t, s, n, D[n])
    BY <2>1, <2>3 DEF FrameSteps, Same
  <2>5. V[n] = Onward(t, u, n, D[n], r)  BY <2>4 DEF Onward
  <2>6. IsFile(u[n]) => D[n] = u[n].dir
    <3>1. Linked(t, s, n, V, D)  BY <1>1 DEF Links
    <3> QED  BY <3>1 DEF Linked, Same
  <2>7. n + 1 \notin 1..Len(u) /\ W[n] = V[n] /\ W[n + 1] = r  BY <1>1, <1>3
  <2> QED  BY <2>5, <2>6, <2>7 DEF Linked
<1>6. W[1] = DocumentOf(t)
  <2>1. 1 \in 1..n  BY <1>1
  <2> QED  BY <1>2, <1>3, <2>1
<1>7. Links(t, u, W, D)  BY <1>1, <1>2, <1>3, <1>4, <1>5, <1>6 DEF Links
<1> QED  BY <1>3, <1>7

-----------------------------------------------------------------------------
(* What the program has, as a result of the documents, and what ties the two. *)

Sofar(o, fl) == [code |-> 0, text |-> Printed(o), seen |-> DOMAIN fl, again |-> FALSE, nested |-> FALSE]

\* What a file has said of being included again, before its n-th line.
Declared(t, f, n) == {t[f][i].kind : i \in Declarations(t, f) \cap 1..(n - 1)}

OpenIn(s, f) == \E k \in 1..Len(s) : IsFile(s[k]) /\ s[k].file = f

Apart(s) ==
  \A i, j \in 1..Len(s) : IsFile(s[i]) /\ IsFile(s[j]) /\ s[i].file = s[j].file => i = j

Flagged(t, s, fl) ==
  /\ \A k \in 1..Len(s) : IsFile(s[k]) =>
       fl[s[k].file] = {"open"} \cup Declared(t, s[k].file, s[k].at)
  /\ \A f \in DOMAIN fl : ~OpenIn(s, f) => fl[f] = Declared(t, f, Len(t[f]) + 1)

\* No directory is included from another one, so that ga has the entries of one.
OneDir(s, g) ==
  /\ \A i, j \in 1..Len(s) : ~IsFile(s[i]) /\ ~IsFile(s[j]) => i = j
  /\ \A k \in 1..Len(s) : ~IsFile(s[k]) => s[k].base = 0 /\ Len(s[k].names) = g
  /\ (\A k \in 1..Len(s) : IsFile(s[k])) => g = 0

Standing(s, D, cw) ==
  Len(s) # 0 /\ (IsFile(s[Len(s)]) => ~s[Len(s)].calling) => cw = D[Len(s)]

Matches(t, s, r, cw) ==
  \E V, D : Links(t, s, V, D) /\ V[Len(s) + 1] = r /\ Standing(s, D, cw)

Agrees(t, s, fl, o, cw, g) ==
  Matches(t, s, Sofar(o, fl), cw) /\ Apart(s) /\ Flagged(t, s, fl) /\ OneDir(s, g)

\* The configurations of which the documents and the program say the same.
Plain(t) == ~DocumentOf(t).again /\ ~DocumentOf(t).nested

Simulates ==
  /\ pc = "start" => stack = <<>> /\ flags = <<>> /\ out = <<>> /\ ga = 0
  /\ pc \in {"start", "run"} => code = 0
  /\ pc = "run" => Agrees(text, stack, flags, out, cwd, ga)
  /\ pc = "done" => code = 0 /\ DocumentOf(text) = Sofar(out, flags)
  /\ pc = "died" => code # 0 /\ (code = 111 \/ DocumentOf(text).code = code)

Follows == Plain(text) => Simulates

LEMMA SameResult ==
  ASSUME NEW q \in Results, NEW r \in Results, q.code = r.code, q.text = r.text, q.seen = r.seen,
         q.again <=> r.again, q.nested <=> r.nested
  PROVE  q = r
<1>1. q.again = r.again /\ q.nested = r.nested  BY DEF Results
<1> QED  BY <1>1 DEF Results

LEMMA PrintedIs ==
  ASSUME NEW o \in Seq([of : Place, as : Place])
  PROVE  /\ Printed(o) \in Seq(Place)
         /\ \A x \in [of : Place, as : Place] : Printed(Append(o, x)) = Append(Printed(o), x.of)
<1>1. DOMAIN o = 1..Len(o) /\ Len(o) \in Nat /\ \A k \in 1..Len(o) : o[k] \in [of : Place, as : Place]
  <2> DEFINE S == [of : Place, as : Place]
  <2>1. o \in Seq(S)  OBVIOUS
  <2> HIDE DEF S
  <2>2. DOMAIN o = 1..Len(o) /\ Len(o) \in Nat  BY <2>1, LenProperties
  <2>3. \A k \in 1..Len(o) : o[k] \in S  BY <2>1, ElementOfSeq
  <2> QED  BY <2>2, <2>3 DEF S
<1>2. Printed(o) = [k \in 1..Len(o) |-> o[k].of]  BY <1>1 DEF Printed
<1>3. \A k \in 1..Len(o) : o[k].of \in Place  BY <1>1
<1> HIDE DEF Printed
<1>4. Printed(o) \in [1..Len(o) -> Place]  BY <1>2, <1>3
<1>5. Printed(o) \in Seq(Place) /\ Len(Printed(o)) = Len(o)  BY <1>1, <1>2, <1>4
<1>6. ASSUME NEW x \in [of : Place, as : Place]
      PROVE  Printed(Append(o, x)) = Append(Printed(o), x.of)
  <2> DEFINE n == Len(o)
             p == Append(o, x)
             q == Append(Printed(o), x.of)
  <2>1. DOMAIN p = 1..(n + 1) /\ p[n + 1] = x /\ \A k \in 1..n : p[k] = o[k]  BY <1>1
  <2>2. x.of \in Place  OBVIOUS
  <2>3. DOMAIN q = 1..(n + 1) /\ q[n + 1] = x.of /\ \A k \in 1..n : q[k] = Printed(o)[k]
    BY <1>1, <1>5, <2>2
  <2>4. \A k \in 1..n : q[k] = o[k].of  BY <1>2, <2>3
  <2>5. q = [k \in 1..(n + 1) |-> q[k]]
    <3>1. q \in Seq(Place)  BY <1>5, <2>2
    <3>2. q = [k \in DOMAIN q |-> q[k]]  BY <3>1
    <3> QED  BY <2>3, <3>2
  <2>6. Printed(p) = [k \in 1..(n + 1) |-> p[k].of]  BY <2>1 DEF Printed
  <2> HIDE DEF p, q
  <2>7. ASSUME NEW k \in 1..(n + 1) PROVE p[k].of = q[k]
    <3>1. CASE k = n + 1  BY <2>1, <2>3, <3>1
    <3>2. CASE k # n + 1
      <4>1. k \in 1..n  BY <1>1, <3>2
      <4> QED  BY <2>1, <2>4, <4>1
    <3> QED  BY <3>1, <3>2
  <2>8. Printed(p) = q  BY <2>5, <2>6, <2>7
  <2> QED  BY <2>8 DEF p, q
<1> QED  BY <1>5, <1>6

LEMMA SofarIs ==
  ASSUME Types
  PROVE  LET r == Sofar(out, flags)
         IN  /\ r \in Results /\ r.code = 0 /\ r.text = Printed(out) /\ r.seen = DOMAIN flags
             /\ ~r.again /\ ~r.nested
<1>1. Printed(out) \in Seq(Place) /\ DOMAIN flags \in SUBSET Files
  BY PrintedIs DEF Types, PrintedOK, FlagsOK
<1> QED  BY <1>1 DEF Sofar, Results

LEMMA DeclaredNext ==
  ASSUME NEW t \in Texts, NEW f \in Files, NEW i \in 1..Len(t[f])
  PROVE  /\ t[f][i].kind \notin {"unique", "multiple"} => Declared(t, f, i + 1) = Declared(t, f, i)
         /\ t[f][i].kind \in {"unique", "multiple"} =>
              Declared(t, f, i + 1) = Declared(t, f, i) \cup {t[f][i].kind}
<1>1. DOMAIN t[f] = 1..Len(t[f]) /\ Len(t[f]) \in Nat  BY DEF Texts
<1>2. 1..((i + 1) - 1) = 1..(i - 1) \cup {i}  BY <1>1
<1>3. i \in Declarations(t, f) <=> t[f][i].kind \in {"unique", "multiple"}
  BY <1>1 DEF Declarations
<1> QED  BY <1>2, <1>3 DEF Declared

LEMMA DeclaredFirst == ASSUME NEW t, NEW f PROVE Declared(t, f, 1) = {}
  BY DEF Declared

LEMMA DeclaredNoFlag ==
  ASSUME NEW t, NEW f, NEW n PROVE Declared(t, f, n) \subseteq {"unique", "multiple"}
  BY DEF Declared, Declarations

\* What a file that was read says of being included again.
LEMMA SaysIs ==
  ASSUME NEW t \in Texts, NEW f \in Files
  PROVE  LET all == Declared(t, f, Len(t[f]) + 1)
         IN  /\ all = {} => Says(t, f) = "nothing"
             /\ all # {} => Says(t, f) \in all
<1>1. DOMAIN t[f] = 1..Len(t[f]) /\ Len(t[f]) \in Nat  BY DEF Texts
<1>2. Declarations(t, f) \in SUBSET Nat /\ Declarations(t, f) \cap 1..((Len(t[f]) + 1) - 1) = Declarations(t, f)
  BY <1>1 DEF Declarations
<1>3. Declared(t, f, Len(t[f]) + 1) = {t[f][i].kind : i \in Declarations(t, f)}
  BY <1>2 DEF Declared
<1>4. CASE Declarations(t, f) = {}  BY <1>3, <1>4 DEF Says
<1>5. CASE Declarations(t, f) # {}
  <2> DEFINE first == CHOOSE i \in Declarations(t, f) : \A j \in Declarations(t, f) : i <= j
  <2>1. first \in Declarations(t, f)  BY <1>2, <1>5, Smallest
  <2>2. Says(t, f) = t[f][first].kind  BY <1>5 DEF Says
  <2> HIDE DEF first
  <2> QED  BY <1>3, <2>1, <2>2
<1> QED  BY <1>4, <1>5

-----------------------------------------------------------------------------
(* The stack, when its last frame is another one of the same file or directory, *)
(* when a frame is put on it, and when one is taken from it.                     *)

\* The frames of the same files and directories.
Alike(s, u) ==
  /\ Len(u) = Len(s)
  /\ \A k \in 1..Len(s) : Same(s[k], u[k]) /\ (~IsFile(s[k]) => u[k].base = s[k].base)

LEMMA AlikeSame ==
  ASSUME NEW s, NEW u, Alike(s, u)
  PROVE  /\ \A k \in 1..Len(s) : Upto(u, k) = Upto(s, k) /\ DirUpto(u, k) = DirUpto(s, k)
         /\ \A f : OpenIn(u, f) <=> OpenIn(s, f)
         /\ Apart(s) => Apart(u)
         /\ \A g : OneDir(s, g) => OneDir(u, g)
<1>1. /\ Len(u) = Len(s)
      /\ \A k \in 1..Len(s) : /\ IsFile(u[k]) <=> IsFile(s[k])
                              /\ IsFile(s[k]) => u[k].file = s[k].file
                              /\ ~IsFile(s[k]) => u[k].names = s[k].names /\ u[k].base = s[k].base
  BY DEF Alike, Same
<1>2. ASSUME NEW k \in 1..Len(s) PROVE Upto(u, k) = Upto(s, k) /\ DirUpto(u, k) = DirUpto(s, k)
  <2>1. CASE Len(s) \in Nat
    <3>1. \A j \in 1..k : j \in 1..Len(s)  BY <2>1
    <3>2. Upto(u, k) = Upto(s, k)  BY <1>1, <3>1 DEF Upto
    <3>3. DirUpto(u, k) <=> DirUpto(s, k)  BY <1>1, <3>1 DEF DirUpto
    <3> QED  BY <3>2, <3>3, UptoIs
  <2> QED  BY <2>1
<1>3. \A f : OpenIn(u, f) <=> OpenIn(s, f)  BY <1>1 DEF OpenIn
<1>4. Apart(s) => Apart(u)  BY <1>1 DEF Apart
<1>5. \A g : OneDir(s, g) => OneDir(u, g)  BY <1>1 DEF OneDir
<1> QED  BY <1>2, <1>3, <1>4, <1>5

LEMMA FlaggedAlike ==
  ASSUME NEW t, NEW s, NEW u, NEW fl, Alike(s, u), Flagged(t, s, fl),
         \A k \in 1..Len(s) : IsFile(s[k]) =>
           Declared(t, s[k].file, u[k].at) = Declared(t, s[k].file, s[k].at)
  PROVE  Flagged(t, u, fl)
<1>1. /\ Len(u) = Len(s)
      /\ \A k \in 1..Len(s) : /\ IsFile(u[k]) <=> IsFile(s[k])
                              /\ IsFile(s[k]) => u[k].file = s[k].file
  BY DEF Alike, Same
<1>2. \A f : OpenIn(u, f) <=> OpenIn(s, f)  BY AlikeSame
<1> QED  BY <1>1, <1>2 DEF Flagged

\* What is left of the running frame, once what is next is done.
NextMakes(V, D, q) ==
  /\ q \in Results /\ Kept(q, DocumentOf(text))
  /\ V[Len(stack)] = Through(FrameSteps(text, stack, Len(stack), D[Len(stack)]), Position(Running) + 1, q)

LEMMA NextIs ==
  ASSUME Types, stack # <<>>, NEW V, NEW D, Links(text, stack, V, D),
         V[Len(stack) + 1] = Sofar(out, flags), Position(Running) # Size(text, Running) + 1
  PROVE  /\ Position(Running) \in 1..Size(text, Running)
         /\ NextMakes(V, D, FrameSteps(text, stack, Len(stack), D[Len(stack)])[Position(Running)][Sofar(out, flags)])
<1> DEFINE n == Len(stack)
           steps == FrameSteps(text, stack, n, D[n])
           i == Position(Running)
           r == Sofar(out, flags)
           q == steps[i][r]
<1>1. stack \in Seq(Frames) /\ n \in Nat \ {0} /\ n \in 1..n /\ text \in Texts /\ Running = stack[n]
  BY Last DEF Types, Framed, Texts, Running
<1>2. Linked(text, stack, n, V, D) /\ D[n] \in Dirs /\ D \in [1..n -> Dirs]  BY <1>1 DEF Links
<1>3. steps \in Seq(Steps) /\ Len(steps) = Size(text, Running) /\ Size(text, Running) \in Nat
  BY <1>1, <1>2, FrameStepsAre
<1>4. i \in 1..(Size(text, Running) + 1)  BY <1>1, <1>2 DEF Linked
<1>5. i \in 1..Len(steps) /\ i + 1 \in 1..(Len(steps) + 1)  BY <1>3, <1>4
<1>6. r \in Results  BY SofarIs
<1>7. V[n] = Through(steps, i, r)  BY <1>1, <1>2 DEF Linked, Onward
<1> HIDE DEF steps, i, r
<1>8. V[n] = Through(steps, i + 1, q)  BY <1>3, <1>5, <1>6, <1>7, ThroughNext
<1>9. steps[i] \in Steps  BY <1>3, <1>5, ElementOfSeq
<1>10. q \in Results  BY <1>6, <1>9 DEF Steps
<1> HIDE DEF q
<1>11. Kept(q, V[n])  BY <1>3, <1>5, <1>8, <1>10, ThroughKept
<1>12. n \in 1..(n + 1)  BY <1>1
<1>13. Kept(V[n], DocumentOf(text))  BY <1>1, <1>12, LinksKept
<1>14. Kept(q, DocumentOf(text))  BY <1>11, <1>13, KeptOn
<1> QED  BY <1>3, <1>5, <1>8, <1>10, <1>14 DEF NextMakes, q, r, i, steps

LEMMA NextLinks ==
  ASSUME Types, stack # <<>>, NEW V, NEW D, Links(text, stack, V, D), NEW q, NextMakes(V, D, q),
         Position(Running) \in 1..Size(text, Running),
         NEW u \in Seq(Frames), Alike(stack, u), \A k \in 1..(Len(stack) - 1) : u[k] = stack[k],
         Position(u[Len(stack)]) = Position(Running) + 1
  PROVE  \E W : Links(text, u, W, D) /\ W[Len(u) + 1] = q
<1> DEFINE n == Len(stack)
<1>1. stack \in Seq(Frames) /\ n \in Nat \ {0} /\ n \in 1..n /\ text \in Texts /\ Running = stack[n]
  BY Last DEF Types, Framed, Texts, Running
<1>2. Len(u) = n /\ Same(stack[n], u[n])  BY <1>1 DEF Alike
<1>3. Size(text, u[n]) = Size(text, Running)  BY <1>1, <1>2 DEF Size, Same
<1>4. D[n] \in Dirs  BY <1>1 DEF Links
<1>5. Size(text, Running) \in Nat  BY <1>1, <1>4, FrameStepsAre
<1>6. Position(u[n]) \in 1..(Size(text, u[n]) + 1)  BY <1>3, <1>5
<1>7. q \in Results /\ V[n] = Through(FrameSteps(text, stack, n, D[n]), Position(u[n]), q)
  BY DEF NextMakes
<1> QED  BY <1>1, <1>2, <1>6, <1>7, ReplaceLinks

LEMMA SteppedAlike ==
  ASSUME Types, stack # <<>>, IsFile(Running), Running.at + 1 \in 1..(Len(text[Running.file]) + 1)
  PROVE  /\ SteppedOver \in Seq(Frames) /\ Alike(stack, SteppedOver) /\ Len(SteppedOver) = Len(stack)
         /\ \A k \in 1..(Len(stack) - 1) : SteppedOver[k] = stack[k]
         /\ SteppedOver[Len(stack)] = Frame(Running.file, Running.dir, Running.at + 1, FALSE)
         /\ IsFile(SteppedOver[Len(stack)]) /\ SteppedOver[Len(stack)].at = Running.at + 1
         /\ ~SteppedOver[Len(stack)].calling /\ Position(SteppedOver[Len(stack)]) = Running.at + 1
<1> DEFINE n == Len(stack)
<1>1. n \in Nat \ {0} /\ Running = stack[n]  BY Last DEF Types, Framed, Running
<1>2. /\ SteppedOver \in Seq(Frames) /\ Len(SteppedOver) = n
      /\ \A i \in 1..n : i # n => SteppedOver[i] = stack[i]
      /\ SteppedOver[n] = Frame(Running.file, Running.dir, Running.at + 1, FALSE)
  BY SteppedOK
<1>3. Running.file \in Files /\ Running.dir \in Dirs /\ Running.at + 1 \in Nat  BY Known1
<1>4. LET x == SteppedOver[n]
      IN  IsFile(x) /\ x.file = Running.file /\ x.dir = Running.dir /\ x.at = Running.at + 1 /\ x.calling = FALSE
  BY <1>2, <1>3 DEF Frame, IsFile
<1>5. \A k \in 1..(n - 1) : k \in 1..n /\ k # n  BY <1>1
<1>6. Alike(stack, SteppedOver)
  <2> SUFFICES ASSUME NEW k \in 1..n
               PROVE  Same(stack[k], SteppedOver[k]) /\ (~IsFile(stack[k]) => SteppedOver[k].base = stack[k].base)
    BY <1>2 DEF Alike
  <2>1. CASE k = n  BY <1>1, <1>4, <2>1 DEF Same
  <2>2. CASE k # n  BY <1>2, <2>2 DEF Same
  <2> QED  BY <2>1, <2>2
<1> QED  BY <1>2, <1>4, <1>5, <1>6 DEF Position

LEMMA CallingAlike ==
  ASSUME Types, AtLine, This.kind \in Inclusions
  PROVE  /\ Calling \in Seq(Frames) /\ Alike(stack, Calling) /\ Len(Calling) = Len(stack)
         /\ \A k \in 1..(Len(stack) - 1) : Calling[k] = stack[k]
         /\ IsFile(Calling[Len(stack)]) /\ Calling[Len(stack)].at = Running.at
         /\ Calling[Len(stack)].calling /\ Position(Calling[Len(stack)]) = Running.at + 1
<1> DEFINE n == Len(stack)
<1>0. stack # <<>> /\ IsFile(Running)  BY Line1
<1>1. n \in Nat \ {0} /\ Running = stack[n]  BY <1>0, Last DEF Types, Framed, Running
<1>2. /\ Calling \in Seq(Frames) /\ Len(Calling) = n
      /\ \A i \in 1..n : i # n => Calling[i] = stack[i]
      /\ Calling[n] = Frame(Running.file, Running.dir, Running.at, TRUE)
  BY CallingOK
<1>3. Running.file \in Files /\ Running.dir \in Dirs /\ Running.at \in Nat  BY <1>0, Known1
<1>4. LET x == Calling[n]
      IN  IsFile(x) /\ x.file = Running.file /\ x.dir = Running.dir /\ x.at = Running.at /\ x.calling = TRUE
  BY <1>2, <1>3 DEF Frame, IsFile
<1>5. \A k \in 1..(n - 1) : k \in 1..n /\ k # n  BY <1>1
<1>6. Alike(stack, Calling)
  <2> SUFFICES ASSUME NEW k \in 1..n
               PROVE  Same(stack[k], Calling[k]) /\ (~IsFile(stack[k]) => Calling[k].base = stack[k].base)
    BY <1>2 DEF Alike
  <2>1. CASE k = n  BY <1>0, <1>1, <1>4, <2>1 DEF Same
  <2>2. CASE k # n  BY <1>2, <2>2 DEF Same
  <2> QED  BY <2>1, <2>2
<1> QED  BY <1>2, <1>4, <1>5, <1>6 DEF Position

LEMMA AdvancedAlike ==
  ASSUME Types, InDir
  PROVE  /\ Advanced \in Seq(Frames) /\ Alike(stack, Advanced) /\ Len(Advanced) = Len(stack)
         /\ \A k \in 1..(Len(stack) - 1) : Advanced[k] = stack[k]
         /\ ~IsFile(Advanced[Len(stack)]) /\ Position(Advanced[Len(stack)]) = Running.next + 1
<1> DEFINE n == Len(stack)
<1>0. stack # <<>> /\ ~IsFile(Running)  BY DEF InDir
<1>1. n \in Nat \ {0} /\ Running = stack[n] /\ Running \in Frames  BY <1>0, Last DEF Types, Framed, Running
<1>2. /\ Advanced \in Seq(Frames) /\ Len(Advanced) = n
      /\ \A i \in 1..n : i # n => Advanced[i] = stack[i]
      /\ Advanced[n] = DirAt(Running.names, Running.next + 1, Running.base)
  BY AdvancedOK
<1>3. Running.names \in Seq(Names) /\ Running.next + 1 \in Nat \ {0} /\ Running.base \in Nat
  BY <1>0, <1>1, FrameKinds
<1>4. LET x == Advanced[n]
      IN  ~IsFile(x) /\ x.names = Running.names /\ x.next = Running.next + 1 /\ x.base = Running.base
  BY <1>2, <1>3, DirFrames
<1>5. \A k \in 1..(n - 1) : k \in 1..n /\ k # n  BY <1>1
<1>6. Alike(stack, Advanced)
  <2> SUFFICES ASSUME NEW k \in 1..n
               PROVE  Same(stack[k], Advanced[k]) /\ (~IsFile(stack[k]) => Advanced[k].base = stack[k].base)
    BY <1>2 DEF Alike
  <2>1. CASE k = n  BY <1>0, <1>1, <1>4, <2>1 DEF Same
  <2>2. CASE k # n  BY <1>2, <2>2 DEF Same
  <2> QED  BY <2>1, <2>2
<1> QED  BY <1>2, <1>4, <1>5, <1>6 DEF Position

\* What the line that is read makes, and what the entry that is next makes.
LineDoes(V, D, q) ==
  /\ Links(text, stack, V, D) /\ NextMakes(V, D, q) /\ Position(Running) \in 1..Size(text, Running)
  /\ D[Len(stack)] = cwd /\ Running.dir = cwd
  /\ LineMakes(text, Running.file, Running.at, SiteAt(stack, Len(stack), cwd),
               ReadsIn(text, Upto(stack, Len(stack))), Sofar(out, flags), q)

LEMMA LineIsDone ==
  ASSUME Types, Matches(text, stack, Sofar(out, flags), cwd), AtLine
  PROVE  \E V, D, q : LineDoes(V, D, q)
<1> DEFINE n == Len(stack)
           r == Sofar(out, flags)
<1>1. stack # <<>> /\ IsFile(Running) /\ ~Running.calling /\ Running.at \in 1..Len(text[Running.file])
      /\ Len(text[Running.file]) \in Nat
  <2>1. stack # <<>> /\ IsFile(Running) /\ ~Running.calling /\ Running.at \in 1..Len(text[Running.file])  BY Line1
  <2> QED  BY <2>1, Known1
<1>2. PICK V, D : Links(text, stack, V, D) /\ V[n + 1] = r /\ Standing(stack, D, cwd)  BY DEF Matches
<1>3. stack \in Seq(Frames) /\ n \in Nat \ {0} /\ n \in 1..n /\ text \in Texts /\ Running = stack[n]
  BY <1>1, Last DEF Types, Framed, Texts, Running
<1>4. Position(Running) = Running.at /\ Size(text, Running) = Len(text[Running.file])
  BY <1>1 DEF Position, Size
<1>5. D[n] = cwd /\ D[n] \in Dirs /\ Running.dir = cwd
  <2>1. D[n] = cwd  BY <1>1, <1>2, <1>3 DEF Standing
  <2>2. Linked(text, stack, n, V, D) /\ D[n] \in Dirs  BY <1>2, <1>3 DEF Links
  <2> QED  BY <1>1, <1>3, <2>1, <2>2 DEF Linked
<1> DEFINE q == FrameSteps(text, stack, n, D[n])[Position(Running)][r]
<1>6. Position(Running) \in 1..Size(text, Running) /\ NextMakes(V, D, q)
  BY <1>1, <1>2, <1>4, NextIs
<1>7. FrameSteps(text, stack, n, cwd)[Running.at] =
        LineStep(text, Running.file, Running.at, SiteAt(stack, n, cwd), ReadsIn(text, Upto(stack, n)))
  BY <1>1, <1>3, <1>4, <1>5, FrameStepsAre
<1>8. q = LineStep(text, Running.file, Running.at, SiteAt(stack, n, cwd), ReadsIn(text, Upto(stack, n)))[r]
  BY <1>4, <1>5, <1>7
<1> HIDE DEF q
<1>9. r \in Results /\ r.code = 0  BY SofarIs
<1>10. LineMakes(text, Running.file, Running.at, SiteAt(stack, n, cwd), ReadsIn(text, Upto(stack, n)), r, q)
  BY <1>8, <1>9, LineIs
<1> QED  BY <1>2, <1>5, <1>6, <1>10 DEF LineDoes

EntryDoes(V, D, q) ==
  /\ Links(text, stack, V, D) /\ NextMakes(V, D, q) /\ Position(Running) \in 1..Size(text, Running)
  /\ D[Len(stack)] = cwd
  /\ NameMakes(text, SiteAt(stack, Len(stack), cwd), Running.names[Running.next], Sofar(out, flags), q)

LEMMA EntryIsDone ==
  ASSUME Types, Matches(text, stack, Sofar(out, flags), cwd), InDir, Running.next <= Len(Running.names)
  PROVE  \E V, D, q : EntryDoes(V, D, q)
<1> DEFINE n == Len(stack)
           r == Sofar(out, flags)
           name == Running.names[Running.next]
<1>1. stack # <<>> /\ ~IsFile(Running)  BY DEF InDir
<1>2. PICK V, D : Links(text, stack, V, D) /\ V[n + 1] = r /\ Standing(stack, D, cwd)  BY DEF Matches
<1>3. stack \in Seq(Frames) /\ n \in Nat \ {0} /\ n \in 1..n /\ text \in Texts /\ Running = stack[n]
  BY <1>1, Last DEF Types, Framed, Texts, Running
<1>4. Running.names \in Seq(Names) /\ Running.next \in Nat \ {0}
  BY <1>1, Last, FrameKinds DEF Types, Framed
<1>5. Position(Running) = Running.next /\ Size(text, Running) = Len(Running.names)
      /\ Running.next \in 1..Len(Running.names) /\ Len(Running.names) \in Nat
  BY <1>1, <1>4 DEF Position, Size
<1>6. name \in Names  BY <1>4, <1>5, ElementOfSeq
<1>7. D[n] = cwd /\ D[n] \in Dirs
  <2>1. D[n] = cwd  BY <1>1, <1>2, <1>3 DEF Standing
  <2> QED  BY <1>2, <1>3, <2>1 DEF Links
<1> DEFINE q == FrameSteps(text, stack, n, D[n])[Position(Running)][r]
           w == SiteAt(stack, n, cwd)
<1>8. Position(Running) \in 1..Size(text, Running) /\ NextMakes(V, D, q)
  <2>1. Position(Running) # Size(text, Running) + 1  BY <1>5
  <2> QED  BY <1>1, <1>2, <2>1, NextIs
<1>9. FrameSteps(text, stack, n, cwd)[Running.next] = ReadsIn(text, Upto(stack, n))[w][name]
  BY <1>1, <1>3, <1>5, <1>7, FrameStepsAre
<1>10. w \in Sites /\ w.within = Upto(stack, n)  BY <1>7, SiteAtIs
<1>11. q = ReadsIn(text, w.within)[w][name][r]  BY <1>5, <1>7, <1>9, <1>10
<1> HIDE DEF q, w, name
<1>12. r \in Results /\ r.code = 0  BY SofarIs
<1> HIDE DEF r
<1>13. NameMakes(text, w, name, r, ReadsIn(text, w.within)[w][name][r])
  BY <1>3, <1>6, <1>10, <1>12, NameIs
<1>14. NameMakes(text, w, name, r, q)  BY <1>11, <1>13
<1> QED  BY <1>2, <1>7, <1>8, <1>14 DEF EntryDoes, r, w, name

-----------------------------------------------------------------------------
(* The inclusions. *)

\* A file that is not open and is put on the stack.
LEMMA PushIs ==
  ASSUME NEW u \in Seq(Frames), NEW x \in Frames
  PROVE  LET s == Append(u, x)
         IN  /\ IsFile(x) => /\ Upto(s, Len(u) + 1) = Upto(u, Len(u)) \cup ({x.file} \cap Files)
                             /\ DirUpto(s, Len(u) + 1) = DirUpto(u, Len(u))
                             /\ \A f : OpenIn(s, f) <=> OpenIn(u, f) \/ f = x.file
             /\ ~IsFile(x) => /\ Upto(s, Len(u) + 1) = Upto(u, Len(u))
                              /\ DirUpto(s, Len(u) + 1) = TRUE
                              /\ \A f : OpenIn(s, f) <=> OpenIn(u, f)
<1> DEFINE s == Append(u, x)
           n == Len(u)
<1>1. n \in Nat /\ Len(s) = n + 1 /\ s[n + 1] = x /\ \A k \in 1..n : s[k] = u[k]  BY Pushed
<1>2. 1..(n + 1) = 1..n \cup {n + 1}  BY <1>1
<1> HIDE DEF s
<1>3. \A f : OpenIn(s, f) <=> OpenIn(u, f) \/ (IsFile(x) /\ f = x.file)
  BY <1>1, <1>2 DEF OpenIn
<1>4. DirUpto(s, n + 1) <=> DirUpto(u, n) \/ ~IsFile(x)  BY <1>1, <1>2 DEF DirUpto
<1>5. \A f \in Files : f \in Upto(s, n + 1) <=> f \in Upto(u, n) \/ (IsFile(x) /\ f = x.file)
  BY <1>1, <1>2 DEF Upto
<1>6. Upto(s, n + 1) \in SUBSET Files /\ Upto(u, n) \in SUBSET Files
      /\ DirUpto(s, n + 1) \in BOOLEAN /\ DirUpto(u, n) \in BOOLEAN
  BY UptoIs
<1>7. IsFile(x) => Upto(s, n + 1) = Upto(u, n) \cup ({x.file} \cap Files)  BY <1>5, <1>6
<1>8. ~IsFile(x) => Upto(s, n + 1) = Upto(u, n)  BY <1>5, <1>6
<1>9. /\ IsFile(x) => DirUpto(s, n + 1) = DirUpto(u, n)
      /\ ~IsFile(x) => DirUpto(s, n + 1) = TRUE
  BY <1>4, <1>6
<1> QED  BY <1>3, <1>7, <1>8, <1>9 DEF s

LEMMA UptoAll ==
  ASSUME NEW u, NEW f \in Files
  PROVE  f \in Upto(u, Len(u)) <=> OpenIn(u, f)
  BY DEF Upto, OpenIn

\* Where the stack is u, with what it has done.
Stands(u, W, D, q) ==
  /\ u \in Seq(Frames) /\ Links(text, u, W, D) /\ W[Len(u) + 1] = q
  /\ Apart(u) /\ Flagged(text, u, flags) /\ OneDir(u, ga) /\ FramesOK(u, flags)
Leads(u, D, dir) == Len(u) # 0 /\ ~IsFile(u[Len(u)]) => dir = D[Len(u)]

LEMMA NewFile ==
  ASSUME Types, NEW u, NEW W, NEW D, NEW q, Stands(u, W, D, q),
         NEW dir \in Dirs, Leads(u, D, dir), NEW f \in Files, f \notin DOMAIN flags,
         q = Through(FileSteps(text, f, Site(dir, Upto(u, Len(u)) \cup {f}, DirUpto(u, Len(u))),
                               ReadsIn(text, Upto(u, Len(u)) \cup {f})),
                     1, Enters(Sofar(out, flags), f)),
         flags' = WithFlags(f, {"open"})
  PROVE  Agrees(text, Append(u, Frame(f, dir, 1, FALSE)), flags', out, dir, ga)
<1> DEFINE n == Len(u)
           x == Frame(f, dir, 1, FALSE)
           s == Append(u, x)
           r == Sofar(out, flags)
           e == Enters(r, f)
<1>1. u \in Seq(Frames) /\ n \in Nat /\ text \in Texts  BY DEF Stands, Types, Texts
<1>2. x \in Frames /\ IsFile(x) /\ x.file = f /\ x.dir = dir /\ x.at = 1 /\ x.calling = FALSE
  BY DEF Frame, Frames, FileFrame, IsFile
<1> HIDE DEF x
<1>3. Position(x) = 1 /\ Size(text, x) = Len(text[f]) /\ Len(text[f]) \in Nat
  <2>1. text[f] \in Seq(Line)  BY <1>1 DEF Texts
  <2> QED  BY <1>2, <2>1 DEF Position, Size
<1>4. /\ Len(s) = n + 1 /\ s[n + 1] = x /\ \A k \in 1..n : s[k] = u[k]  BY <1>1, <1>2, Pushed
<1>5. /\ Upto(s, n + 1) = Upto(u, n) \cup {f} /\ DirUpto(s, n + 1) = DirUpto(u, n)
      /\ \A g : OpenIn(s, g) <=> OpenIn(u, g) \/ g = f
  <2>1. /\ Upto(s, n + 1) = Upto(u, n) \cup ({x.file} \cap Files) /\ DirUpto(s, n + 1) = DirUpto(u, n)
        /\ \A g : OpenIn(s, g) <=> OpenIn(u, g) \/ g = x.file
    BY <1>1, <1>2, PushIs
  <2> HIDE DEF s, x
  <2>2. {x.file} \cap Files = {f}  BY <1>2
  <2> QED  BY <1>2, <2>1, <2>2
<1>6. Onward(text, s, n + 1, dir, e) = q
  <2>1. FrameSteps(text, s, n + 1, dir)
          = FileSteps(text, f, Site(dir, Upto(u, n) \cup {f}, DirUpto(u, n)), ReadsIn(text, Upto(u, n) \cup {f}))
    BY <1>2, <1>4, <1>5 DEF FrameSteps, SiteAt
  <2> QED  BY <1>3, <1>4, <2>1 DEF Onward
<1>7. r \in Results /\ r.code = 0 /\ r.text = Printed(out) /\ r.seen = DOMAIN flags /\ ~r.again /\ ~r.nested
  BY SofarIs
<1> HIDE DEF r
<1>8. e \in Results /\ e.seen = r.seen \cup {f} /\ (e.again <=> r.again \/ f \in r.seen)
      /\ e.code = r.code /\ e.text = r.text /\ (e.nested <=> r.nested)
  BY <1>7, EntersIs
<1> HIDE DEF e
<1>9. DOMAIN flags' = DOMAIN flags \cup {f} /\ flags'[f] = {"open"}
      /\ \A g \in DOMAIN flags : flags'[g] = flags[g]
  BY DEF WithFlags
<1>10. e = Sofar(out, flags')
  <2>1. LET z == Sofar(out, flags')
        IN  z.code = 0 /\ z.text = Printed(out) /\ z.seen = DOMAIN flags' /\ ~z.again /\ ~z.nested
    BY DEF Sofar
  <2>2. Sofar(out, flags') \in Results
    <3>1. DOMAIN flags' \in SUBSET Files  BY <1>9 DEF Types, FlagsOK
    <3>2. Printed(out) \in Seq(Place)  BY PrintedIs DEF Types, PrintedOK
    <3> QED  BY <3>1, <3>2 DEF Sofar, Results
  <2> QED  BY <1>7, <1>8, <1>9, <2>1, <2>2, SameResult
<1>11. Matches(text, s, Sofar(out, flags'), dir)
  <2>1. Links(text, u, W, D) /\ W[n + 1] = q  BY DEF Stands
  <2>2. Position(x) \in 1..(Size(text, x) + 1)  BY <1>3
  <2>3. \E V, E : Links(text, s, V, E) /\ V[n + 2] = e /\ E[n + 1] = dir
    BY <1>1, <1>2, <1>6, <1>8, <2>1, <2>2, PushLinks DEF Leads
  <2>4. Len(s) + 1 = n + 2  BY <1>1, <1>4
  <2> QED  BY <1>4, <1>10, <2>3, <2>4 DEF Matches, Standing
<1>12. ~OpenIn(u, f)
  <2>1. \A k \in 1..n : IsFile(u[k]) => u[k].file \in DOMAIN flags
    BY <1>1 DEF Stands, FramesOK, FrameOK
  <2> QED  BY <2>1 DEF OpenIn
<1>13. Len(s) = n + 1 /\ 1..(n + 1) = 1..n \cup {n + 1}  BY <1>1, <1>4
<1>14. Apart(s)
  <2>1. Apart(u) /\ \A k \in 1..n : IsFile(u[k]) => u[k].file # f  BY <1>12 DEF Stands, OpenIn
  <2> QED  BY <1>2, <1>4, <1>13, <2>1 DEF Apart
<1>15. Flagged(text, s, flags')
  <2>1. \A k \in 1..n : IsFile(u[k]) =>
          /\ u[k].file \in DOMAIN flags
          /\ flags[u[k].file] = {"open"} \cup Declared(text, u[k].file, u[k].at)
    BY <1>1 DEF Stands, FramesOK, FrameOK, Flagged
  <2>2. \A g \in DOMAIN flags : ~OpenIn(u, g) => flags[g] = Declared(text, g, Len(text[g]) + 1)
    BY DEF Stands, Flagged
  <2>3. \A k \in 1..n : IsFile(s[k]) =>
          flags'[s[k].file] = {"open"} \cup Declared(text, s[k].file, s[k].at)
    BY <1>4, <1>9, <2>1
  <2>4. flags'[f] = {"open"} \cup Declared(text, f, 1)  BY <1>9, DeclaredFirst
  <2>5. \A g \in DOMAIN flags' : ~OpenIn(s, g) => flags'[g] = Declared(text, g, Len(text[g]) + 1)
    BY <1>5, <1>9, <2>2
  <2> HIDE DEF s
  <2>6. \A k \in 1..Len(s) : IsFile(s[k]) =>
          flags'[s[k].file] = {"open"} \cup Declared(text, s[k].file, s[k].at)
    BY <1>2, <1>4, <1>13, <2>3, <2>4
  <2> QED  BY <2>5, <2>6 DEF Flagged
<1>16. OneDir(s, ga)
  <2>1. OneDir(u, ga)  BY DEF Stands
  <2> HIDE DEF s
  <2> QED  BY <1>2, <1>4, <1>13, <2>1 DEF OneDir
<1> QED  BY <1>11, <1>14, <1>15, <1>16 DEF Agrees, x

LEMMA GoesOn ==
  ASSUME pc' = "run", code' = 0, text' = text, Agrees(text, stack', flags', out', cwd', ga')
  PROVE  Simulates'
<1>1. Agrees(text, stack, flags, out, cwd, ga)'
  <2>1. Agrees(text', stack', flags', out', cwd', ga')  OBVIOUS
  <2> QED  BY <2>1 DEF Agrees, Matches, Standing, Links, Apart, Flagged, OneDir, OpenIn
<1>2. pc' # "start" /\ pc' # "done" /\ pc' # "died"  OBVIOUS
<1> QED  BY <1>1, <1>2 DEF Simulates

LEMMA Ends ==
  ASSUME NEW e \in {1, 2, 111}, Died(e), e = 111 \/ DocumentOf(text).code = e
  PROVE  Simulates'
<1>1. pc' = "died" /\ code' = e /\ text' = text  BY DEF Died
<1>2. code' # 0 /\ (code' = 111 \/ DocumentOf(text').code = code')  BY <1>1
<1> QED  BY <1>1, <1>2 DEF Simulates

\* What has failed is what the document comes to.
LEMMA FailsAs ==
  ASSUME NEW r \in Results, r.code = 0, NEW e \in {1, 2, 111}, NEW d, Kept(Fails(r, e), d)
  PROVE  d.code = e
  BY FailsIs DEF Kept

LEMMA EnterFollows ==
  ASSUME Types, Plain(text), pc = "run", code = 0,
         NEW u, NEW W, NEW D, NEW q, Stands(u, W, D, q), Kept(q, DocumentOf(text)),
         Len(u) # 0, IsFile(u[Len(u)]) => u[Len(u)].calling,
         NEW dir \in Dirs, Leads(u, D, dir), NEW name \in Names,
         NameMakes(text, SiteAt(u, Len(u), dir), name, Sofar(out, flags), q),
         Enter(dir, name, u)
  PROVE  Simulates'
<1> DEFINE n == Len(u)
           f == Entry[dir][name]
           r == Sofar(out, flags)
           w == SiteAt(u, n, dir)
           inner == Site(dir, Upto(u, n) \cup {f}, DirUpto(u, n))
<1>1. u \in Seq(Frames) /\ n \in Nat /\ text \in Texts /\ FlagsOK  BY DEF Stands, Types, Texts
<1>2. w \in Sites /\ w.dir = dir /\ w.within = Upto(u, n) /\ w.under = DirUpto(u, n)
  BY SiteAtIs DEF SiteAt, Site
<1>3. /\ r \in Results /\ r.code = 0 /\ r.seen = DOMAIN flags /\ ~r.again
  BY SofarIs
<1> HIDE DEF r, w
<1>4. f # Missing => f \in Files  BY FileIs
<1>5. /\ f # Missing /\ f \in Upto(u, n) => q = Fails(r, 2)
      /\ f # Missing /\ f \notin Upto(u, n) =>
           /\ f \in DOMAIN flags /\ Says(text, f) = "nothing" => q = Fails(r, 2)
           /\ f \in DOMAIN flags /\ Says(text, f) = "unique" => q = r
           /\ (f \in DOMAIN flags => Says(text, f) \notin {"nothing", "unique"}) =>
                q = Through(FileSteps(text, f, inner, ReadsIn(text, Upto(u, n) \cup {f})), 1, Enters(r, f))
  BY <1>2, <1>3 DEF NameMakes, r, w
<1>6. f # Missing => (f \in Upto(u, n) <=> OpenIn(u, f))  BY <1>4, UptoAll
<1>7. \A k \in 1..n : IsFile(u[k]) =>
          /\ u[k].file \in DOMAIN flags
          /\ flags[u[k].file] = {"open"} \cup Declared(text, u[k].file, u[k].at)
  BY <1>1 DEF Stands, FramesOK, FrameOK, Flagged
<1>8. \A g \in DOMAIN flags : ~OpenIn(u, g) => flags[g] = Declared(text, g, Len(text[g]) + 1)
  BY DEF Stands, Flagged
<1>9. OpenIn(u, f) => f \in DOMAIN flags /\ "open" \in flags[f]
  BY <1>7 DEF OpenIn
<1>10. ASSUME f # Missing, f \in DOMAIN flags, ~OpenIn(u, f)
       PROVE  /\ flags[f] \subseteq {"unique", "multiple"}
              /\ flags[f] = {} => Says(text, f) = "nothing"
              /\ flags[f] # {} => Says(text, f) \in flags[f]
  <2>1. flags[f] = Declared(text, f, Len(text[f]) + 1)  BY <1>8, <1>10
  <2>2. f \in Files  BY <1>4, <1>10
  <2> HIDE DEF f
  <2> QED  BY <1>1, <2>1, <2>2, SaysIs, DeclaredNoFlag
<1> HIDE DEF f, inner
<1>11. CASE Died(111)  BY <1>11, Ends
<1>12. CASE f # Missing /\ f \in DOMAIN flags /\ ("open" \in flags[f] \/ flags[f] = {}) /\ Died(2)
  <2>1. q = Fails(r, 2)
    <3>1. CASE OpenIn(u, f)  BY <1>5, <1>6, <1>12, <3>1
    <3>2. CASE ~OpenIn(u, f)
      <4>1. flags[f] = {}  BY <1>10, <1>12, <3>2
      <4>2. Says(text, f) = "nothing"  BY <1>10, <1>12, <3>2, <4>1
      <4> QED  BY <1>5, <1>6, <1>12, <3>2, <4>2
    <3> QED  BY <3>1, <3>2
  <2>2. DocumentOf(text).code = 2  BY <1>3, <2>1, FailsAs
  <2> QED  BY <1>12, <2>2, Ends
<1>13. CASE /\ f # Missing /\ f \in DOMAIN flags /\ "open" \notin flags[f] /\ "unique" \in flags[f]
            /\ cwd' = dir /\ stack' = u /\ UNCHANGED <<text, ga, pc, code, flags, printed>>
  <2>1. ~OpenIn(u, f)  BY <1>9, <1>13
  <2>2. flags[f] \subseteq {"unique", "multiple"} /\ Says(text, f) \in flags[f]
    BY <1>10, <1>13, <2>1
  <2>3. ~({"unique", "multiple"} \subseteq flags[f])  BY <1>1, <1>13 DEF FlagsOK
  <2>4. Says(text, f) = "unique"  BY <1>13, <2>2, <2>3
  <2>5. q = r  BY <1>5, <1>6, <1>13, <2>1, <2>4
  <2>6. out' = out  BY <1>13, PrintedSame
  <2>7. Matches(text, u, r, dir)
    BY <1>1, <2>5 DEF Matches, Standing, Stands, Leads
  <2>8. Agrees(text, u, flags, out, dir, ga)  BY <2>7 DEF Agrees, Stands, r
  <2> QED  BY <1>13, <2>6, <2>8, GoesOn
<1>14. CASE /\ f # Missing /\ (f \in DOMAIN flags => flags[f] = {"multiple"})
            /\ cwd' = dir
            /\ flags' = IF f \in DOMAIN flags THEN flags ELSE WithFlags(f, {"open"})
            /\ stack' = Append(u, Frame(f, dir, 1, FALSE))
            /\ PrintMarker(f, 0)
            /\ UNCHANGED <<text, ga, pc, code>>
  <2>0. f \in Files  BY <1>4, <1>14 DEF f
  <2>1. f \notin DOMAIN flags
    <3> SUFFICES ASSUME f \in DOMAIN flags PROVE FALSE  OBVIOUS
    <3>1. ~OpenIn(u, f)  BY <1>9, <1>14
    <3>2. Says(text, f) = "multiple"  BY <1>10, <1>14, <3>1
    <3>3. q = Through(FileSteps(text, f, inner, ReadsIn(text, Upto(u, n) \cup {f})), 1, Enters(r, f))
      BY <1>5, <1>6, <1>14, <3>1, <3>2
    <3>4. Upto(u, n) \cup {f} \in SUBSET Files /\ inner \in Sites
      BY <2>0, UptoIs, SiteIs DEF inner
    <3> DEFINE steps == FileSteps(text, f, inner, ReadsIn(text, Upto(u, n) \cup {f}))
    <3>5. steps \in Seq(Steps)  BY <1>1, <2>0, <3>4, ReadsInIs, FileStepsAre
    <3>6. Enters(r, f) \in Results /\ Enters(r, f).again  BY <1>3, <2>0, EntersIs
    <3>7. 1 \in 1..(Len(steps) + 1)
      <4> HIDE DEF steps
      <4> QED  BY <3>5
    <3> HIDE DEF steps
    <3>8. Kept(Enters(r, f), Through(steps, 1, Enters(r, f)))  BY <3>5, <3>6, <3>7, ThroughKept
    <3>9. q.again  BY <3>3, <3>6, <3>8 DEF Kept, steps
    <3> QED  BY <3>9 DEF Kept, Plain
  <2>2. q = Through(FileSteps(text, f, inner, ReadsIn(text, Upto(u, n) \cup {f})), 1, Enters(r, f))
    BY <1>5, <1>6, <1>9, <1>14, <2>1
  <2>3. flags' = WithFlags(f, {"open"})  BY <1>14, <2>1
  <2>4. Agrees(text, Append(u, Frame(f, dir, 1, FALSE)), flags', out, dir, ga)
    BY <2>0, <2>1, <2>2, <2>3, NewFile DEF inner, r
  <2>5. out' = out  BY <1>14 DEF PrintMarker
  <2> QED  BY <1>14, <2>4, <2>5, GoesOn
<1> QED  BY <1>11, <1>12, <1>13, <1>14 DEF Enter, Die, Died, Known, f

-----------------------------------------------------------------------------
(* The actions. *)

Runs == Types /\ Plain(text) /\ Simulates /\ pc = "run"

LEMMA RunIs ==
  ASSUME Runs
  PROVE  /\ code = 0 /\ Matches(text, stack, Sofar(out, flags), cwd)
         /\ Apart(stack) /\ Flagged(text, stack, flags) /\ OneDir(stack, ga)
         /\ stack \in Seq(Frames) /\ text \in Texts
  BY DEF Runs, Simulates, Agrees, Types, Framed, Texts

\* A line that has failed.
LEMMA LineFails ==
  ASSUME Runs, NEW V, NEW D, NEW e \in {1, 2, 111}, LineDoes(V, D, Fails(Sofar(out, flags), e)), Died(e)
  PROVE  Simulates'
<1>1. Sofar(out, flags) \in Results /\ Sofar(out, flags).code = 0  BY SofarIs DEF Runs
<1>2. Kept(Fails(Sofar(out, flags), e), DocumentOf(text))  BY DEF LineDoes, NextMakes
<1>3. DocumentOf(text).code = e  BY <1>1, <1>2, FailsAs
<1> QED  BY <1>3, Ends

\* A line that is done.
LEMMA LineStepped ==
  ASSUME Runs, AtLine, NEW V, NEW D, LineDoes(V, D, Sofar(out', flags')),
         stack' = SteppedOver, UNCHANGED <<text, ga, pc, code, cwd>>,
         Flagged(text, SteppedOver, flags')
  PROVE  Simulates'
<1> DEFINE n == Len(stack)
           u == SteppedOver
           q == Sofar(out', flags')
<1>1. stack # <<>> /\ IsFile(Running) /\ ~Running.calling /\ Running.at + 1 \in 1..(Len(text[Running.file]) + 1)
  BY Line1 DEF Runs
<1>2. /\ u \in Seq(Frames) /\ Alike(stack, u) /\ Len(u) = n /\ \A k \in 1..(n - 1) : u[k] = stack[k]
      /\ Position(u[n]) = Running.at + 1
  BY <1>1, SteppedAlike DEF Runs
<1>3. Position(Running) = Running.at  BY <1>1 DEF Position
<1> HIDE DEF u, q
<1>4. PICK W : Links(text, u, W, D) /\ W[n + 1] = q
  BY <1>1, <1>2, <1>3, NextLinks DEF LineDoes, Runs, q
<1>5. D[n] = cwd  BY DEF LineDoes
<1>6. Matches(text, u, q, cwd)  BY <1>2, <1>4, <1>5 DEF Matches, Standing
<1>7. Apart(u) /\ OneDir(u, ga)  BY <1>2, RunIs, AlikeSame
<1>8. Agrees(text, u, flags', out', cwd, ga)  BY <1>6, <1>7 DEF Agrees, u, q
<1>9. pc' = "run" /\ code' = 0 /\ stack' = u  BY RunIs DEF Runs, u
<1> QED  BY <1>8, <1>9, GoesOn

\* A line that does not change the flags of its file, as it says nothing of them.
LEMMA PlainStepped ==
  ASSUME Runs, stack # <<>>, IsFile(Running), Running.at \in 1..Len(text[Running.file]),
         This.kind \notin {"unique", "multiple"}
  PROVE  Flagged(text, SteppedOver, flags)
<1> DEFINE n == Len(stack)
<1>1. Running.file \in Files /\ text[Running.file] \in Seq(Line)  BY Known1 DEF Runs
<1>2. Running.at + 1 \in 1..(Len(text[Running.file]) + 1)  BY <1>1
<1>3. /\ Alike(stack, SteppedOver) /\ \A k \in 1..(n - 1) : SteppedOver[k] = stack[k]
      /\ SteppedOver[n].at = Running.at + 1
  BY <1>2, SteppedAlike DEF Runs
<1>4. Declared(text, Running.file, Running.at + 1) = Declared(text, Running.file, Running.at)
  BY <1>1, RunIs, DeclaredNext DEF This
<1>5. n \in Nat \ {0}  BY RunIs
<1>6. ASSUME NEW k \in 1..n, IsFile(stack[k])
      PROVE  Declared(text, stack[k].file, SteppedOver[k].at) = Declared(text, stack[k].file, stack[k].at)
  <2>1. CASE k = n  BY <1>3, <1>4, <2>1 DEF Running
  <2>2. CASE k # n
    <3>1. k \in 1..(n - 1)  BY <1>5, <2>2
    <3> QED  BY <1>3, <3>1
  <2> QED  BY <2>1, <2>2
<1> QED  BY <1>3, <1>6, RunIs, FlaggedAlike

LEMMA CopyLineFollows == Runs /\ CopyLine => Simulates'
<1> SUFFICES ASSUME Runs, CopyLine PROVE Simulates'  OBVIOUS
<1>1. /\ AtLine /\ This.kind \in {"text", "tail"} /\ stack' = SteppedOver
      /\ out' = Append(out, [of |-> Here, as |-> md])
      /\ UNCHANGED <<text, ga, pc, code, cwd, flags>>
  BY DEF CopyLine, PrintText, StepOver
<1>2. PICK V, D, q : LineDoes(V, D, q)  BY <1>1, RunIs, LineIsDone DEF Runs
<1>3. q = Prints(Sofar(out, flags), Running.file, Running.at)
  BY <1>1, <1>2 DEF LineDoes, LineMakes, This
<1>4. /\ Running.file \in Files /\ Running.at \in Nat
      /\ Here \in Place /\ Here = [file |-> Running.file, line |-> Running.at]
  <2>1. stack # <<>> /\ IsFile(Running)  BY <1>1, Line1 DEF Runs
  <2> QED  BY <1>1, <2>1, Line1, Known1 DEF Runs
<1>5. LET r == Sofar(out, flags)
      IN  /\ r \in Results /\ r.code = 0 /\ r.text = Printed(out) /\ r.seen = DOMAIN flags
          /\ ~r.again /\ ~r.nested
  BY SofarIs DEF Runs
<1>6. q \in Results /\ q.text = Append(Printed(out), Here) /\ q.code = 0 /\ q.seen = DOMAIN flags
      /\ ~q.again /\ ~q.nested
  BY <1>3, <1>4, <1>5, PrintsIs
<1>7. Printed(out') = Append(Printed(out), Here)
  <2>1. out \in Seq([of : Place, as : Place]) /\ md \in Place  BY DEF Runs, Types, PrintedOK
  <2>2. [of |-> Here, as |-> md] \in [of : Place, as : Place] /\ [of |-> Here, as |-> md].of = Here
    BY <1>4, <2>1
  <2> QED  BY <1>1, <2>1, <2>2, PrintedIs
<1>8. q = Sofar(out', flags')
  <2>1. LET z == Sofar(out', flags')
        IN  z.code = 0 /\ z.text = Printed(out') /\ z.seen = DOMAIN flags /\ ~z.again /\ ~z.nested
    BY <1>1 DEF Sofar
  <2>2. Sofar(out', flags') \in Results
    <3>1. Append(Printed(out), Here) \in Seq(Place) /\ DOMAIN flags \in SUBSET Files
      BY <1>5, <1>6 DEF Results
    <3> QED  BY <1>1, <1>7, <3>1 DEF Sofar, Results
  <2> QED  BY <1>6, <1>7, <2>1, <2>2, SameResult
<1>9. Flagged(text, SteppedOver, flags')  BY <1>1, Line1, PlainStepped DEF Runs
<1> QED  BY <1>1, <1>2, <1>8, <1>9, LineStepped

LEMMA DropLineFollows == Runs /\ DropLine => Simulates'
<1> SUFFICES ASSUME Runs, DropLine PROVE Simulates'  OBVIOUS
<1>1. /\ AtLine /\ This.kind = "dropped" /\ stack' = SteppedOver
      /\ UNCHANGED <<text, ga, pc, code, cwd, flags>> /\ out' = out
  BY PrintedSame DEF DropLine, StepOver
<1>2. PICK V, D, q : LineDoes(V, D, q)  BY <1>1, RunIs, LineIsDone DEF Runs
<1>3. q = Sofar(out', flags')  BY <1>1, <1>2 DEF LineDoes, LineMakes, This
<1>4. Flagged(text, SteppedOver, flags')  BY <1>1, Line1, PlainStepped DEF Runs
<1> QED  BY <1>1, <1>2, <1>3, <1>4, LineStepped

LEMMA BadLineFollows == Runs /\ BadLine => Simulates'
<1> SUFFICES ASSUME Runs, BadLine PROVE Simulates'  OBVIOUS
<1>1. AtLine  BY DEF BadLine
<1>2. PICK V, D, q : LineDoes(V, D, q)  BY <1>1, RunIs, LineIsDone DEF Runs
<1>3. CASE This.kind = "invalid" /\ Died(1)
  <2>1. q = Fails(Sofar(out, flags), 1)  BY <1>2, <1>3 DEF LineDoes, LineMakes, This
  <2> QED  BY <1>2, <1>3, <2>1, LineFails
<1>4. CASE Died(111)  BY <1>4, Ends
<1> QED  BY <1>3, <1>4 DEF BadLine, Die, Died

LEMMA IncludedFollows == Runs /\ Included => Simulates'
<1> SUFFICES ASSUME Runs, Included PROVE Simulates'  OBVIOUS
<1> DEFINE n == Len(stack)
           f == Running.file
           r == Sofar(out, flags)
           kind == This.kind
<1>1. AtLine /\ kind \in {"unique", "multiple"}  BY DEF Included
<1>2. PICK V, D, q : LineDoes(V, D, q)  BY <1>1, RunIs, LineIsDone DEF Runs
<1>3. stack # <<>> /\ IsFile(Running) /\ Running.at + 1 \in 1..(Len(text[f]) + 1)
      /\ Running.at \in 1..Len(text[f])
  BY <1>1, Line1 DEF Runs
<1>4. f \in Files /\ f \in DOMAIN flags /\ n \in Nat \ {0} /\ n \in 1..n
  BY <1>3, Known1, RunIs DEF Runs
<1>5. flags[f] = {"open"} \cup Declared(text, f, Running.at)
  BY <1>3, <1>4, RunIs DEF Flagged, Running
<1>6. flags[f] \cap {"unique", "multiple"} = Declared(text, f, Running.at)
  <2>1. Declared(text, f, Running.at) \subseteq {"unique", "multiple"}  BY DeclaredNoFlag
  <2> QED  BY <1>5, <2>1
<1>7. Declared(text, f, Running.at) = {} <=> Declarations(text, f) \cap 1..(Running.at - 1) = {}
  BY DEF Declared
<1>8. q = IF Declarations(text, f) \cap 1..(Running.at - 1) = {} THEN r ELSE Fails(r, 1)
  BY <1>1, <1>2 DEF LineDoes, LineMakes, This
<1>9. CASE flags[f] \cap {"unique", "multiple"} # {} /\ Died(1)
  <2>1. q = Fails(r, 1)  BY <1>6, <1>7, <1>8, <1>9
  <2> QED  BY <1>2, <1>9, <2>1, LineFails
<1>10. CASE /\ flags[f] \cap {"unique", "multiple"} = {}
            /\ flags' = WithFlags(f, flags[f] \cup {kind}) /\ stack' = SteppedOver
            /\ UNCHANGED <<text, ga, pc, code, cwd, printed>>
  <2>0. out' = out  BY <1>10, PrintedSame
  <2>1. q = r  BY <1>6, <1>7, <1>8, <1>10
  <2>2. DOMAIN flags' = DOMAIN flags /\ flags'[f] = flags[f] \cup {kind}
        /\ \A g \in DOMAIN flags : g # f => flags'[g] = flags[g]
    BY <1>4, <1>10 DEF WithFlags
  <2>3. q = Sofar(out', flags')  BY <2>0, <2>1, <2>2 DEF Sofar
  <2>4. Declared(text, f, Running.at + 1) = Declared(text, f, Running.at) \cup {kind}
    BY <1>1, <1>3, <1>4, RunIs, DeclaredNext DEF This
  <2> HIDE DEF kind
  <2>5. flags'[f] = {"open"} \cup Declared(text, f, Running.at + 1)  BY <1>5, <2>2, <2>4
  <2>6. Flagged(text, SteppedOver, flags')
    <3>1. /\ Alike(stack, SteppedOver) /\ Len(SteppedOver) = n
          /\ \A k \in 1..(n - 1) : SteppedOver[k] = stack[k]
          /\ SteppedOver[n].at = Running.at + 1
      BY <1>3, SteppedAlike DEF Runs
    <3>2. \A g : OpenIn(SteppedOver, g) <=> OpenIn(stack, g)  BY <3>1, AlikeSame
    <3>3. OpenIn(stack, f)  BY <1>3, <1>4 DEF OpenIn, Running
    <3>4. \A g \in DOMAIN flags' : ~OpenIn(SteppedOver, g) => flags'[g] = Declared(text, g, Len(text[g]) + 1)
      BY <2>2, <3>2, <3>3, RunIs DEF Flagged
    <3>5. ASSUME NEW k \in 1..n, IsFile(SteppedOver[k])
          PROVE  flags'[SteppedOver[k].file] = {"open"} \cup Declared(text, SteppedOver[k].file, SteppedOver[k].at)
      <4>1. CASE k = n
        <5>1. SteppedOver[k].file = f  BY <1>3, <3>1, <4>1 DEF Alike, Same, Running
        <5> QED  BY <2>5, <3>1, <4>1, <5>1
      <4>2. CASE k # n
        <5>1. k \in 1..(n - 1) /\ SteppedOver[k] = stack[k]  BY <1>4, <3>1, <4>2
        <5>2. stack[k].file # f  BY <1>3, <1>4, <3>5, <4>2, <5>1, RunIs DEF Apart, Running
        <5>3. flags[stack[k].file] = {"open"} \cup Declared(text, stack[k].file, stack[k].at)
          BY <3>5, <5>1, RunIs DEF Flagged
        <5>4. stack[k].file \in DOMAIN flags
          <6>1. k \in DOMAIN stack  BY RunIs
          <6> QED  BY <3>5, <5>1, <6>1 DEF Runs, Types, Framed, FramesOK, FrameOK
        <5> QED  BY <2>2, <5>1, <5>2, <5>3, <5>4
      <4> QED  BY <4>1, <4>2
    <3> QED  BY <3>1, <3>4, <3>5 DEF Flagged
  <2> QED  BY <1>1, <1>2, <1>10, <2>3, <2>6, LineStepped
<1> QED  BY <1>9, <1>10 DEF Included, Die, Died, StepOver

\* The stack of a file that begins an inclusion.
LEMMA CallingStands ==
  ASSUME Runs, AtLine, This.kind \in Inclusions, NEW V, NEW D, NEW q, LineDoes(V, D, q)
  PROVE  /\ \E W : Stands(Calling, W, D, q)
         /\ Calling \in Seq(Frames) /\ Len(Calling) = Len(stack) /\ Len(stack) \in Nat \ {0}
         /\ IsFile(Calling[Len(stack)]) /\ Calling[Len(stack)].calling
         /\ Upto(Calling, Len(stack)) = Upto(stack, Len(stack))
         /\ DirUpto(Calling, Len(stack)) = DirUpto(stack, Len(stack))
<1> DEFINE n == Len(stack)
           u == Calling
<1>1. stack # <<>> /\ IsFile(Running) /\ ~Running.calling  BY Line1 DEF Runs
<1>2. /\ u \in Seq(Frames) /\ Alike(stack, u) /\ Len(u) = n /\ \A k \in 1..(n - 1) : u[k] = stack[k]
      /\ IsFile(u[n]) /\ u[n].at = Running.at /\ u[n].calling /\ Position(u[n]) = Running.at + 1
      /\ FramesOK(u, flags)
  BY CallingAlike, CallingOK DEF Runs
<1>3. Position(Running) = Running.at  BY <1>1 DEF Position
<1>4. n \in Nat \ {0} /\ n \in 1..n  BY <1>1, RunIs
<1> HIDE DEF u
<1>5. PICK W : Links(text, u, W, D) /\ W[n + 1] = q
  BY <1>1, <1>2, <1>3, NextLinks DEF LineDoes, Runs
<1>6. Apart(u) /\ OneDir(u, ga) /\ Upto(u, n) = Upto(stack, n) /\ DirUpto(u, n) = DirUpto(stack, n)
  BY <1>2, <1>4, RunIs, AlikeSame
<1>7. Flagged(text, u, flags)
  <2>1. ASSUME NEW k \in 1..n PROVE IsFile(stack[k]) => u[k].at = stack[k].at
    <3>1. CASE k = n  BY <1>2, <3>1 DEF Running
    <3>2. CASE k # n
      <4>1. k \in 1..(n - 1)  BY <1>4, <3>2
      <4> QED  BY <1>2, <4>1
    <3> QED  BY <3>1, <3>2
  <2> QED  BY <1>2, <2>1, RunIs, FlaggedAlike
<1>8. Stands(u, W, D, q)  BY <1>2, <1>5, <1>6, <1>7 DEF Stands
<1> QED  BY <1>2, <1>4, <1>6, <1>8 DEF u

LEMMA IncludeFollows == Runs /\ Include => Simulates'
<1> SUFFICES ASSUME Runs, Include PROVE Simulates'  OBVIOUS
<1> DEFINE n == Len(stack)
           r == Sofar(out, flags)
           dir == Cd[cwd][This.dir]
           name == This.name
           w == SiteAt(stack, n, cwd)
           v == SiteAt(Calling, n, dir)
<1>1. AtLine /\ This.kind = "include" /\ This.kind \in Inclusions  BY DEF Include, Inclusions
<1>2. PICK V, D, q : LineDoes(V, D, q)  BY <1>1, RunIs, LineIsDone DEF Runs
<1>3. CASE Died(111)  BY <1>3, Ends
<1>4. CASE dir # Missing /\ Enter(dir, name, Calling)
  <2>1. cwd \in Dirs /\ This.dir \in Names /\ name \in Names
    <3>1. This \in Line  BY <1>1, Line1 DEF Runs
    <3> QED  BY <3>1 DEF Line, Runs, Types
  <2>2. dir \in Dirs  BY <1>4, <2>1, PreprocessAssumption
  <2>3. w.dir = cwd /\ w.within = Upto(stack, n) /\ w.under = DirUpto(stack, n)
    BY <2>1, SiteAtIs DEF SiteAt, Site
  <2>4. q = ReadsIn(text, Upto(stack, n))[Site(dir, w.within, w.under)][name][r]
    BY <1>1, <1>2, <1>4, <2>3 DEF LineDoes, LineMakes, This
  <2>5. /\ \E W : Stands(Calling, W, D, q)
        /\ Calling \in Seq(Frames) /\ Len(Calling) = n /\ n \in Nat \ {0}
        /\ IsFile(Calling[n]) /\ Calling[n].calling
        /\ Upto(Calling, n) = Upto(stack, n) /\ DirUpto(Calling, n) = DirUpto(stack, n)
    BY <1>1, <1>2, CallingStands
  <2>6. v = Site(dir, w.within, w.under)  BY <2>3, <2>5 DEF SiteAt
  <2>7. v \in Sites /\ v.within = Upto(stack, n)  BY <2>2, <2>5, SiteAtIs
  <2> HIDE DEF v, w, dir, name
  <2>8. q = ReadsIn(text, v.within)[v][name][r]  BY <2>4, <2>6, <2>7
  <2>9. r \in Results /\ r.code = 0  BY SofarIs DEF Runs
  <2> HIDE DEF r
  <2>10. NameMakes(text, v, name, r, ReadsIn(text, v.within)[v][name][r])
    BY <2>1, <2>7, <2>9, RunIs, NameIs
  <2>11. NameMakes(text, v, name, r, q)  BY <2>8, <2>10
  <2>12. Leads(Calling, D, dir)  BY <2>5 DEF Leads
  <2>13. Kept(q, DocumentOf(text))  BY <1>2 DEF LineDoes, NextMakes
  <2>14. PICK W : Stands(Calling, W, D, q)  BY <2>5
  <2>15. NameMakes(text, SiteAt(Calling, Len(Calling), dir), name, Sofar(out, flags), q)
    BY <2>5, <2>11 DEF v, r
  <2> QED  BY <1>4, <2>1, <2>2, <2>5, <2>12, <2>13, <2>14, <2>15, RunIs, EnterFollows DEF Runs
<1> QED  BY <1>3, <1>4 DEF Include, Die, Died

LEMMA NextEntryFollows == Runs /\ NextEntry => Simulates'
<1> SUFFICES ASSUME Runs, NextEntry PROVE Simulates'  OBVIOUS
<1> DEFINE n == Len(stack)
           u == Advanced
           name == Running.names[Running.next]
<1>1. InDir /\ Running.next <= Len(Running.names) /\ Enter(cwd, name, u)
      /\ stack # <<>> /\ ~IsFile(Running)
  BY DEF NextEntry, InDir
<1>2. PICK V, D, q : EntryDoes(V, D, q)  BY <1>1, RunIs, EntryIsDone DEF Runs
<1>3. /\ u \in Seq(Frames) /\ Alike(stack, u) /\ Len(u) = n /\ \A k \in 1..(n - 1) : u[k] = stack[k]
      /\ ~IsFile(u[n]) /\ Position(u[n]) = Running.next + 1 /\ FramesOK(u, flags)
  BY <1>1, AdvancedAlike, AdvancedOK DEF Runs
<1>4. Position(Running) = Running.next  BY <1>1 DEF Position
<1>5. n \in Nat \ {0} /\ n \in 1..n /\ cwd \in Dirs  BY <1>1, RunIs DEF Runs, Types
<1>6. name \in Names
  <2>1. Running \in Frames  BY <1>1, RunIs, Last
  <2>2. Running.names \in Seq(Names) /\ Running.next \in Nat \ {0}  BY <1>1, <2>1, FrameKinds
  <2>3. Running.next \in 1..Len(Running.names)  BY <1>1, <2>2
  <2> QED  BY <2>2, <2>3, ElementOfSeq
<1>7. NameMakes(text, SiteAt(stack, n, cwd), name, Sofar(out, flags), q) /\ D[n] = cwd
      /\ Kept(q, DocumentOf(text))
  BY <1>2 DEF EntryDoes, NextMakes
<1> HIDE DEF u, name
<1>8. PICK W : Links(text, u, W, D) /\ W[n + 1] = q
  <2>1. Links(text, stack, V, D) /\ NextMakes(V, D, q) /\ Position(Running) \in 1..Size(text, Running)
    BY <1>2 DEF EntryDoes
  <2>2. Types  BY DEF Runs
  <2>3. Position(u[n]) = Position(Running) + 1  BY <1>3, <1>4
  <2>4. \E W : Links(text, u, W, D) /\ W[Len(u) + 1] = q
    BY <1>1, <1>3, <2>1, <2>2, <2>3, NextLinks
  <2> QED  BY <1>3, <2>4
<1>9. Apart(u) /\ OneDir(u, ga) /\ Upto(u, n) = Upto(stack, n) /\ DirUpto(u, n) = DirUpto(stack, n)
  BY <1>3, <1>5, RunIs, AlikeSame
<1>10. Flagged(text, u, flags)
  <2>1. ASSUME NEW k \in 1..n, IsFile(stack[k]) PROVE u[k].at = stack[k].at
    <3>1. k # n  BY <1>1, <2>1 DEF Running
    <3>2. k \in 1..(n - 1)  BY <1>5, <3>1
    <3> QED  BY <1>3, <3>2
  <2> QED  BY <1>3, <2>1, RunIs, FlaggedAlike
<1>11. Stands(u, W, D, q)  BY <1>3, <1>8, <1>9, <1>10 DEF Stands
<1>12. SiteAt(u, n, cwd) = SiteAt(stack, n, cwd)  BY <1>9 DEF SiteAt
<1>13. NameMakes(text, SiteAt(u, Len(u), cwd), name, Sofar(out, flags), q)  BY <1>3, <1>7, <1>12
<1>14. Leads(u, D, cwd)  BY <1>3, <1>7 DEF Leads
<1>15. Len(u) # 0 /\ (IsFile(u[Len(u)]) => u[Len(u)].calling)  BY <1>3, <1>5
<1>16. Enter(cwd, name, u)  BY <1>1 DEF u, name
<1> QED  BY <1>5, <1>6, <1>7, <1>11, <1>13, <1>14, <1>15, <1>16, RunIs, EnterFollows DEF Runs

\* What is behind the entries of a directory is never read, as ga has those of one.
LEMMA AllEntries ==
  ASSUME Runs, InDir
  PROVE  Running.base = 0 /\ ga = Len(Running.names) /\ Running.next <= ga + 1
         /\ Running.next \in Nat \ {0} /\ ga \in Nat
<1> DEFINE n == Len(stack)
<1>1. stack # <<>> /\ ~IsFile(Running)  BY DEF InDir
<1>2. n \in Nat \ {0} /\ n \in 1..n /\ Running = stack[n] /\ Running \in Frames
  BY <1>1, RunIs, Last DEF Running
<1>3. Running.base = 0 /\ ga = Len(Running.names)  BY <1>1, <1>2, RunIs DEF OneDir
<1>4. Running.names \in Seq(Names) /\ Running.next \in Nat \ {0}  BY <1>1, <1>2, FrameKinds
<1>5. PICK V, D : Links(text, stack, V, D)  BY RunIs DEF Matches
<1>6. Linked(text, stack, n, V, D)  BY <1>2, <1>5 DEF Links
<1>7. Running.next \in 1..(Len(Running.names) + 1)  BY <1>1, <1>2, <1>6 DEF Linked, Position, Size
<1> QED  BY <1>3, <1>4, <1>7

LEMMA PastEntriesFollows == Runs /\ PastEntries => Simulates'
<1> SUFFICES ASSUME Runs, PastEntries PROVE FALSE  OBVIOUS
<1>1. InDir /\ Running.next > Len(Running.names) /\ Running.next <= ga  BY DEF PastEntries
<1>2. ga = Len(Running.names) /\ Running.next \in Nat /\ ga \in Nat  BY <1>1, AllEntries
<1> QED  BY <1>1, <1>2

LEMMA IncludeDirFollows == Runs /\ IncludeDir => Simulates'
<1> SUFFICES ASSUME Runs, IncludeDir PROVE Simulates'  OBVIOUS
<1> DEFINE n == Len(stack)
           r == Sofar(out, flags)
           dir == Cd[cwd][This.dir]
           names == Listing[dir]
           w == SiteAt(stack, n, cwd)
           u == Calling
           x == DirAt(names, 1, ga)
           s == Append(u, x)
           steps == DirSteps(names, Site(dir, Upto(u, n), TRUE), ReadsIn(text, Upto(u, n)))
<1>1. AtLine /\ This.kind = "includedir" /\ This.kind \in Inclusions  BY DEF IncludeDir, Inclusions
<1>2. PICK V, D, q : LineDoes(V, D, q)  BY <1>1, RunIs, LineIsDone DEF Runs
<1>3. CASE Died(111)  BY <1>3, Ends
<1>4. CASE /\ dir # Missing /\ cwd' = dir /\ ga' = ga + Len(names) /\ stack' = s
           /\ UNCHANGED <<text, pc, code, flags, printed>>
  <2>1. cwd \in Dirs /\ This.dir \in Names
    <3>1. This \in Line  BY <1>1, Line1 DEF Runs
    <3> QED  BY <3>1 DEF Line, Runs, Types
  <2>2. dir \in Dirs /\ names \in Seq(Names) /\ Len(names) \in Nat
    <3>1. dir \in Dirs  BY <1>4, <2>1, PreprocessAssumption
    <3>2. names \in Seq(Names)  BY <3>1, PreprocessAssumption
    <3> QED  BY <3>1, <3>2
  <2>3. w.dir = cwd /\ w.within = Upto(stack, n) /\ w.under = DirUpto(stack, n)
    BY <2>1, SiteAtIs DEF SiteAt, Site
  <2>4. /\ \E W : Stands(u, W, D, q)
        /\ u \in Seq(Frames) /\ Len(u) = n /\ n \in Nat \ {0}
        /\ IsFile(u[n]) /\ u[n].calling
        /\ Upto(u, n) = Upto(stack, n) /\ DirUpto(u, n) = DirUpto(stack, n)
    BY <1>1, <1>2, CallingStands
  <2>5. q = Through(steps, 1, Nests(r, DirUpto(stack, n)))
    BY <1>1, <1>2, <1>4, <2>3, <2>4 DEF LineDoes, LineMakes, This
  <2>6. r \in Results /\ r.code = 0  BY SofarIs DEF Runs
  <2>7. Upto(u, n) \in SUBSET Files /\ DirUpto(stack, n) \in BOOLEAN  BY UptoIs
  <2>8. steps \in Seq(Steps)
    <3>1. Site(dir, Upto(u, n), TRUE) \in Sites  BY <2>2, <2>7, SiteIs
    <3> QED  BY <2>2, <2>7, <3>1, RunIs, ReadsInIs, DirStepsAre
  <2> HIDE DEF r, w
  <2>9. ~DirUpto(stack, n)
    <3> SUFFICES ASSUME DirUpto(stack, n) PROVE FALSE  OBVIOUS
    <3> DEFINE e == Nests(r, DirUpto(stack, n))
    <3>1. e \in Results /\ e.nested  BY <2>6, <2>7, NestsIs
    <3>2. 1 \in 1..(Len(steps) + 1)
      <4> HIDE DEF steps
      <4> QED  BY <2>8
    <3> HIDE DEF e, steps
    <3>3. Kept(e, Through(steps, 1, e))  BY <2>8, <3>1, <3>2, ThroughKept
    <3>4. q.nested  BY <2>5, <3>1, <3>3 DEF Kept, e
    <3>5. Kept(q, DocumentOf(text))  BY <1>2 DEF LineDoes, NextMakes
    <3> QED  BY <3>4, <3>5 DEF Kept, Plain, Runs
  <2>10. q = Through(steps, 1, r)  BY <2>5, <2>6, <2>7, <2>9, NestsIs
  <2>11. \A k \in 1..n : IsFile(stack[k]) /\ IsFile(u[k])
    <3>1. \A k \in 1..n : IsFile(stack[k])  BY <2>9 DEF DirUpto
    <3>2. \A k \in 1..n : IsFile(u[k])  BY <2>4, <2>9 DEF DirUpto
    <3> QED  BY <3>1, <3>2
  <2>12. ga = 0  BY <2>11, RunIs DEF OneDir
  <2>13. x \in Frames /\ ~IsFile(x) /\ x.names = names /\ x.next = 1 /\ x.base = 0
    <3>1. 1 \in Nat \ {0} /\ ga \in Nat  BY <2>12
    <3> HIDE DEF names
    <3> QED  BY <2>2, <2>12, <3>1, DirFrames
  <2> HIDE DEF x, names, dir, u
  <2>14. Position(x) = 1 /\ Size(text, x) = Len(names)  BY <2>13 DEF Position, Size
  <2>15. /\ Len(s) = n + 1 /\ s[n + 1] = x /\ \A k \in 1..n : s[k] = u[k]  BY <2>4, <2>13, Pushed
  <2>16. /\ Upto(s, n + 1) = Upto(u, n) /\ DirUpto(s, n + 1) = TRUE
         /\ \A f : OpenIn(s, f) <=> OpenIn(u, f)
    BY <2>4, <2>13, PushIs
  <2>17. Onward(text, s, n + 1, dir, r) = q
    <3>1. FrameSteps(text, s, n + 1, dir) = steps  BY <2>13, <2>15, <2>16 DEF FrameSteps, SiteAt
    <3> QED  BY <2>10, <2>14, <2>15, <3>1 DEF Onward
  <2>18. PICK W : Stands(u, W, D, q)  BY <2>4
  <2>19. Matches(text, s, r, dir)
    <3>1. Links(text, u, W, D) /\ W[n + 1] = q  BY <2>4, <2>18 DEF Stands
    <3>2. Position(x) \in 1..(Size(text, x) + 1)  BY <2>2, <2>14
    <3> HIDE DEF steps
    <3>3. \E X, E : Links(text, s, X, E) /\ X[n + 2] = r /\ E[n + 1] = dir
      BY <2>2, <2>4, <2>6, <2>13, <2>17, <3>1, <3>2, PushLinks
    <3>4. Len(s) + 1 = n + 2  BY <2>4, <2>15
    <3> QED  BY <2>15, <3>3, <3>4 DEF Matches, Standing
  <2>20. 1..(n + 1) = 1..n \cup {n + 1}  BY <2>4
  <2> HIDE DEF s, steps
  <2>21. Apart(s) /\ Flagged(text, s, flags)
    <3>1. Apart(u) /\ Flagged(text, u, flags)  BY <2>18 DEF Stands
    <3>2. Apart(s)  BY <2>4, <2>13, <2>15, <2>20, <3>1 DEF Apart
    <3>3. Flagged(text, s, flags)  BY <2>4, <2>13, <2>15, <2>16, <2>20, <3>1 DEF Flagged
    <3> QED  BY <3>2, <3>3
  <2>22. OneDir(s, Len(names))
    <3>1. \A k \in 1..n : IsFile(s[k])  BY <2>11, <2>15
    <3> QED  BY <2>13, <2>15, <2>20, <3>1 DEF OneDir
  <2>23. out' = out /\ ga' = Len(names)  BY <1>4, <2>2, <2>12, PrintedSame
  <2>24. Agrees(text, s, flags, out, dir, ga')  BY <2>19, <2>21, <2>22, <2>23 DEF Agrees, r
  <2>25. pc' = "run" /\ code' = 0 /\ text' = text /\ stack' = s /\ flags' = flags /\ cwd' = dir
    BY <1>4, RunIs DEF Runs
  <2> QED  BY <2>23, <2>24, <2>25, GoesOn
<1> QED  BY <1>3, <1>4 DEF IncludeDir, Die, Died

\* The last frame has come to its end: what is below goes on with what there is.
LEMMA EndIs ==
  ASSUME Runs, stack # <<>>, NEW V, NEW D, Links(text, stack, V, D), NEW r \in Results,
         V[Len(stack) + 1] = r, Position(Running) = Size(text, Running) + 1
  PROVE  \E W, E : /\ Links(text, Returned, W, E) /\ W[Len(Returned) + 1] = r
                   /\ \A k \in 1..Len(Returned) : E[k] = D[k]
<1> DEFINE n == Len(stack)
<1>1. stack \in Seq(Frames) /\ n \in Nat \ {0} /\ n \in 1..n /\ text \in Texts /\ Running = stack[n]
  BY RunIs, Last DEF Running
<1>2. /\ Returned \in Seq(Frames) /\ Len(Returned) = n - 1
      /\ \A i \in 1..(n - 1) : Returned[i] = stack[i]
  BY <1>1, Popped
<1>3. Linked(text, stack, n, V, D) /\ D[n] \in Dirs  BY <1>1 DEF Links
<1>4. LET steps == FrameSteps(text, stack, n, D[n])
      IN  Len(steps) = Size(text, Running) /\ Size(text, Running) \in Nat
  BY <1>1, <1>3, FrameStepsAre
<1>5. V[n] = Through(FrameSteps(text, stack, n, D[n]), Position(Running), r)
  BY <1>1, <1>3 DEF Linked, Onward
<1>6. V[n] = r  BY <1>4, <1>5, ThroughEnd
<1>7. PICK W, E : /\ Links(text, Returned, W, E)
                  /\ W[n] = V[n] /\ \A k \in 1..(n - 1) : E[k] = D[k]
  <2>1. Without(stack, Returned)  BY <1>1, <1>2 DEF Without
  <2>2. PICK W, E : Links(text, Returned, W, E) /\ Kin(stack, V, D, W, E)  BY <2>1, PopLinks
  <2> QED  BY <2>2 DEF Kin
<1>8. Len(Returned) + 1 = n  BY <1>1, <1>2
<1> QED  BY <1>2, <1>6, <1>7, <1>8

\* Where it goes on: in the directory of a directory, wherever for a file, which goes back.
LEMMA EndStands ==
  ASSUME Runs, stack # <<>>, IsFile(Running) => ~Running.calling, NEW V, NEW D,
         Links(text, stack, V, D), Standing(stack, D, cwd),
         NEW E, \A k \in 1..Len(Returned) : E[k] = D[k]
  PROVE  Standing(Returned, E, cwd)
<1> DEFINE n == Len(stack)
<1>1. stack \in Seq(Frames) /\ n \in Nat \ {0} /\ n \in 1..n /\ text \in Texts /\ Running = stack[n]
  BY RunIs, Last DEF Running
<1>2. Len(Returned) = n - 1 /\ \A i \in 1..(n - 1) : Returned[i] = stack[i]
  BY <1>1, Popped
<1> SUFFICES ASSUME Len(Returned) # 0,
                    IsFile(Returned[Len(Returned)]) => ~Returned[Len(Returned)].calling
             PROVE  cwd = E[Len(Returned)]
  BY DEF Standing
<1>3. n - 1 \in 1..(n - 1) /\ n - 1 \in 1..n /\ n - 1 < n /\ (n - 1) + 1 = n  BY <1>1, <1>2
<1>4. Returned[n - 1] = stack[n - 1]  BY <1>2, <1>3
<1>5. ~IsFile(stack[n - 1])
  <2>1. n - 1 \in DOMAIN stack /\ Waits(stack[n - 1])  BY <1>1, <1>3 DEF Runs, Types, Framed
  <2> QED  BY <1>2, <1>4, <2>1 DEF Waits
<1>6. D[n] = D[n - 1]
  <2>1. Linked(text, stack, n - 1, V, D)  BY <1>3 DEF Links
  <2> QED  BY <1>1, <1>3, <1>5, <2>1 DEF Linked
<1>7. cwd = D[n]  BY <1>1 DEF Standing
<1> QED  BY <1>2, <1>3, <1>6, <1>7

LEMMA EndOfDirFollows == Runs /\ EndOfDir => Simulates'
<1> SUFFICES ASSUME Runs, EndOfDir PROVE Simulates'  OBVIOUS
<1> DEFINE n == Len(stack)
           r == Sofar(out, flags)
           u == Returned
<1>1. /\ InDir /\ Running.next > ga /\ stack' = u /\ ga' = Running.base /\ stack # <<>> /\ ~IsFile(Running)
      /\ UNCHANGED <<text, pc, code, cwd, flags, printed>> /\ out' = out
  BY PrintedSame DEF EndOfDir, InDir
<1>2. Running.base = 0 /\ Running.next = Len(Running.names) + 1
  <2>1. /\ Running.base = 0 /\ ga = Len(Running.names) /\ Running.next <= ga + 1
        /\ Running.next \in Nat \ {0} /\ ga \in Nat
    BY <1>1, AllEntries
  <2> QED  BY <1>1, <2>1
<1>3. PICK V, D : Links(text, stack, V, D) /\ V[n + 1] = r /\ Standing(stack, D, cwd)
  BY RunIs DEF Matches
<1>4. stack \in Seq(Frames) /\ n \in Nat \ {0} /\ n \in 1..n /\ Running = stack[n]
  BY <1>1, RunIs, Last DEF Running
<1>5. u \in Seq(Frames) /\ Len(u) = n - 1 /\ \A i \in 1..(n - 1) : u[i] = stack[i]
  BY <1>1, <1>4, Popped
<1>6. r \in Results  BY SofarIs DEF Runs
<1>7. Position(Running) = Size(text, Running) + 1  BY <1>1, <1>2 DEF Position, Size
<1> HIDE DEF u, r
<1>8. PICK W, E : /\ Links(text, u, W, E) /\ W[Len(u) + 1] = r
                  /\ \A k \in 1..Len(u) : E[k] = D[k]
  BY <1>1, <1>3, <1>6, <1>7, EndIs DEF u
<1>9. Standing(u, E, cwd)  BY <1>1, <1>3, <1>8, EndStands DEF u
<1>10. Matches(text, u, r, cwd)  BY <1>8, <1>9 DEF Matches
<1>11. 1..n = 1..(n - 1) \cup {n} /\ n \notin 1..(n - 1)  BY <1>4
<1>12. Apart(u)  BY <1>5, <1>11, RunIs DEF Apart
<1>13. \A f : OpenIn(u, f) <=> OpenIn(stack, f)  BY <1>1, <1>4, <1>5, <1>11 DEF OpenIn
<1>14. Flagged(text, u, flags)  BY <1>5, <1>11, <1>13, RunIs DEF Flagged
<1>15. OneDir(u, 0)
  <2>1. \A k \in 1..(n - 1) : IsFile(stack[k])
    BY <1>1, <1>4, <1>11, RunIs DEF OneDir
  <2> QED  BY <1>5, <2>1 DEF OneDir
<1>16. Agrees(text, u, flags, out, cwd, 0)  BY <1>10, <1>12, <1>14, <1>15 DEF Agrees, r
<1>17. /\ pc' = "run" /\ code' = 0 /\ text' = text /\ stack' = u /\ flags' = flags /\ cwd' = cwd
       /\ ga' = 0 /\ out' = out
  BY <1>1, <1>2, RunIs DEF Runs, u
<1> QED  BY <1>16, <1>17, GoesOn

LEMMA EndOfFileFollows == Runs /\ EndOfFile => Simulates'
<1> SUFFICES ASSUME Runs, EndOfFile PROVE Simulates'  OBVIOUS
<1> DEFINE n == Len(stack)
           r == Sofar(out, flags)
           u == Returned
           f == Running.file
<1>1. /\ stack # <<>> /\ IsFile(Running) /\ ~Running.calling /\ Running.at > Len(text[f])
      /\ flags' = WithFlags(f, flags[f] \ {"open"}) /\ stack' = u
      /\ UNCHANGED <<text, ga, pc, code, cwd, printed>> /\ out' = out
  BY PrintedSame DEF EndOfFile
<1>2. f \in Files /\ f \in DOMAIN flags /\ Running.at = Len(text[f]) + 1
  <2>1. /\ f \in Files /\ f \in DOMAIN flags /\ Running.at \in Nat /\ text[f] \in Seq(Line)
        /\ FrameOK(Running, flags)
    BY <1>1, Known1 DEF Runs
  <2>2. Running.at \in 1..(Len(text[f]) + 1)  BY <1>1, <2>1 DEF FrameOK
  <2> QED  BY <1>1, <2>1, <2>2
<1>3. PICK V, D : Links(text, stack, V, D) /\ V[n + 1] = r /\ Standing(stack, D, cwd)
  BY RunIs DEF Matches
<1>4. stack \in Seq(Frames) /\ n \in Nat \ {0} /\ n \in 1..n /\ Running = stack[n]
  BY <1>1, RunIs, Last DEF Running
<1>5. u \in Seq(Frames) /\ Len(u) = n - 1 /\ \A i \in 1..(n - 1) : u[i] = stack[i]
  BY <1>1, <1>4, Popped
<1>6. r \in Results  BY SofarIs DEF Runs
<1>7. Position(Running) = Size(text, Running) + 1  BY <1>1, <1>2 DEF Position, Size
<1> HIDE DEF u
<1>a. \A k \in 1..n : IsFile(stack[k]) => stack[k].file \in DOMAIN flags
  <2>1. DOMAIN stack = 1..n  BY <1>4
  <2> QED  BY <2>1 DEF Runs, Types, Framed, FramesOK, FrameOK
<1>8. DOMAIN flags' = DOMAIN flags /\ flags'[f] = flags[f] \ {"open"}
      /\ \A g \in DOMAIN flags : g # f => flags'[g] = flags[g]
  BY <1>1, <1>2 DEF WithFlags
<1>9. r = Sofar(out', flags')  BY <1>1, <1>8 DEF Sofar
<1> HIDE DEF r
<1>10. PICK W, E : /\ Links(text, u, W, E) /\ W[Len(u) + 1] = r
                   /\ \A k \in 1..Len(u) : E[k] = D[k]
  BY <1>1, <1>3, <1>6, <1>7, EndIs DEF u
<1>11. Standing(u, E, cwd)  BY <1>1, <1>3, <1>10, EndStands DEF u
<1>12. Matches(text, u, r, cwd)  BY <1>10, <1>11 DEF Matches
<1>13. 1..n = 1..(n - 1) \cup {n} /\ n \notin 1..(n - 1)  BY <1>4
<1>14. Apart(u)  BY <1>5, <1>13, RunIs DEF Apart
<1>15. \A k \in 1..(n - 1) : IsFile(u[k]) => u[k].file # f
  BY <1>1, <1>4, <1>5, <1>13, RunIs DEF Apart
<1>16. \A g : OpenIn(stack, g) <=> OpenIn(u, g) \/ g = f  BY <1>1, <1>4, <1>5, <1>13 DEF OpenIn
<1>17. flags'[f] = Declared(text, f, Len(text[f]) + 1)
  <2>1. flags[f] = {"open"} \cup Declared(text, f, Running.at)  BY <1>1, <1>4, RunIs DEF Flagged
  <2>2. "open" \notin Declared(text, f, Running.at)  BY DeclaredNoFlag
  <2> QED  BY <1>2, <1>8, <2>1, <2>2
<1> HIDE DEF f
<1>18. Flagged(text, u, flags')
  <2>1. ASSUME NEW k \in 1..(n - 1), IsFile(u[k])
        PROVE  flags'[u[k].file] = {"open"} \cup Declared(text, u[k].file, u[k].at)
    <3>1. u[k] = stack[k] /\ u[k].file # f /\ u[k].file \in DOMAIN flags  BY <1>5, <1>13, <1>15, <1>a, <2>1
    <3>2. flags[u[k].file] = {"open"} \cup Declared(text, u[k].file, u[k].at)
      BY <1>13, <2>1, <3>1, RunIs DEF Flagged
    <3> QED  BY <1>8, <3>1, <3>2
  <2>2. ASSUME NEW g \in DOMAIN flags', ~OpenIn(u, g)
        PROVE  flags'[g] = Declared(text, g, Len(text[g]) + 1)
    <3>1. CASE g = f  BY <1>17, <3>1
    <3>2. CASE g # f
      <4>1. g \in DOMAIN flags /\ ~OpenIn(stack, g)  BY <1>8, <1>16, <2>2, <3>2
      <4>2. flags[g] = Declared(text, g, Len(text[g]) + 1)  BY <4>1, RunIs DEF Flagged
      <4> QED  BY <1>8, <3>2, <4>1, <4>2
    <3> QED  BY <3>1, <3>2
  <2> QED  BY <1>5, <2>1, <2>2 DEF Flagged
<1>19. OneDir(u, ga)
  <2>1. OneDir(stack, ga)  BY RunIs
  <2> QED  BY <1>1, <1>4, <1>5, <1>13, <2>1 DEF OneDir
<1>20. Agrees(text, u, flags', out', cwd, ga)  BY <1>9, <1>12, <1>14, <1>18, <1>19 DEF Agrees
<1>21. pc' = "run" /\ code' = 0 /\ text' = text /\ stack' = u /\ cwd' = cwd /\ ga' = ga
  BY <1>1, RunIs DEF Runs, u
<1> QED  BY <1>20, <1>21, GoesOn

LEMMA ResumeFollows == Runs /\ Resume => Simulates'
<1> SUFFICES ASSUME Runs, Resume PROVE Simulates'  OBVIOUS
<1> DEFINE n == Len(stack)
           r == Sofar(out, flags)
           u == SteppedOver
           f == Running.file
<1>1. /\ stack # <<>> /\ IsFile(Running) /\ Running.calling /\ stack' = u /\ cwd' = Running.dir
      /\ UNCHANGED <<text, ga, pc, code, flags>> /\ out' = out
  BY DEF Resume, StepOver, PrintMarker
<1>2. /\ f \in Files /\ Running.dir \in Dirs
      /\ Running.at \in 1..Len(text[f]) /\ Running.at + 1 \in 1..(Len(text[f]) + 1)
      /\ This.kind \in Inclusions
  <2>1. /\ f \in Files /\ Running.dir \in Dirs /\ text[f] \in Seq(Line) /\ FrameOK(Running, flags)
    BY <1>1, Known1 DEF Runs
  <2>2. Running.at \in DOMAIN text[f] /\ This.kind \in Inclusions  BY <1>1, <2>1 DEF FrameOK, This
  <2>3. DOMAIN text[f] = 1..Len(text[f]) /\ Len(text[f]) \in Nat  BY <2>1
  <2> QED  BY <2>1, <2>2, <2>3
<1>3. PICK V, D : Links(text, stack, V, D) /\ V[n + 1] = r  BY RunIs DEF Matches
<1>4. stack \in Seq(Frames) /\ n \in Nat \ {0} /\ n \in 1..n /\ Running = stack[n]
  BY <1>1, RunIs, Last DEF Running
<1>5. /\ u \in Seq(Frames) /\ Alike(stack, u) /\ Len(u) = n /\ \A k \in 1..(n - 1) : u[k] = stack[k]
      /\ Position(u[n]) = Running.at + 1
  BY <1>1, <1>2, SteppedAlike DEF Runs
<1>6. Linked(text, stack, n, V, D)  BY <1>3, <1>4 DEF Links
<1>7. D[n] = Running.dir  BY <1>1, <1>4, <1>6 DEF Linked
<1>8. Position(Running) = Running.at + 1  BY <1>1 DEF Position
<1> HIDE DEF u
<1>9. V[n] = Through(FrameSteps(text, stack, n, D[n]), Position(u[n]), r)
  BY <1>3, <1>4, <1>5, <1>6, <1>8 DEF Linked, Onward
<1>10. Same(stack[n], u[n]) /\ Size(text, u[n]) = Len(text[f])
  BY <1>1, <1>4, <1>5 DEF Alike, Same, Size
<1>11. Position(u[n]) \in 1..(Size(text, u[n]) + 1)  BY <1>2, <1>5, <1>10
<1>12. r \in Results  BY SofarIs DEF Runs
<1> HIDE DEF r
<1>13. PICK W : Links(text, u, W, D) /\ W[n + 1] = r
  BY <1>1, <1>3, <1>4, <1>5, <1>9, <1>10, <1>11, <1>12, ReplaceLinks
<1>14. Matches(text, u, r, Running.dir)  BY <1>5, <1>7, <1>13 DEF Matches, Standing
<1>15. Apart(u) /\ OneDir(u, ga)  BY <1>5, RunIs, AlikeSame
<1>16. Flagged(text, u, flags)  BY <1>1, <1>2, PlainStepped DEF Inclusions, u
<1>17. Agrees(text, u, flags, out, Running.dir, ga)  BY <1>14, <1>15, <1>16 DEF Agrees, r
<1>18. /\ pc' = "run" /\ code' = 0 /\ text' = text /\ stack' = u /\ cwd' = Running.dir /\ ga' = ga
       /\ flags' = flags /\ out' = out
  BY <1>1, RunIs DEF Runs, u
<1> QED  BY <1>17, <1>18, GoesOn

\* When no frame is left, what was printed is the document.
LEMMA FinishFollows == Runs /\ Finish => Simulates'
<1> SUFFICES ASSUME Runs, Finish PROVE Simulates'  OBVIOUS
<1>1. /\ stack = <<>> /\ pc' = "done" /\ UNCHANGED <<text, code, flags>> /\ out' = out
  BY PrintedSame DEF Finish
<1>2. PICK V, D : Links(text, stack, V, D) /\ V[Len(stack) + 1] = Sofar(out, flags)
  BY RunIs DEF Matches
<1>3. Len(stack) + 1 = 1  BY <1>1
<1>4. DocumentOf(text) = Sofar(out, flags)  BY <1>2, <1>3 DEF Links
<1>5. DocumentOf(text') = Sofar(out', flags') /\ code' = 0  BY <1>1, <1>4, RunIs
<1> QED  BY <1>1, <1>5 DEF Simulates

\* The file of the argument is put on an empty stack.
LEMMA StartFollows == Types /\ Plain(text) /\ Simulates /\ Start => Simulates'
<1> SUFFICES ASSUME Types, Plain(text), Simulates, Start PROVE Simulates'  OBVIOUS
<1> DEFINE f == Entry[Top][Main]
           r == Sofar(out, flags)
           w == SiteAt(<<>>, 0, Top)
           x == Frame(f, Top, 1, FALSE)
           q == DocumentOf(text)
           V == [k \in 1..1 |-> q]
           D == [k \in 1..0 |-> Top]
           u == <<>>
<1>1. /\ pc = "start" /\ pc' = "run" /\ cwd' = Top /\ flags' = WithFlags(f, {"open"})
      /\ stack' = <<x>> /\ out' = out /\ UNCHANGED <<text, ga, code>>
  BY DEF Start, PrintMarker
<1>2. stack = <<>> /\ flags = <<>> /\ out = <<>> /\ ga = 0 /\ code = 0  BY <1>1 DEF Simulates
<1>3. Top \in Dirs /\ Main \in Names /\ f # Missing /\ f \in Files /\ text \in Texts
  BY PreprocessAssumption DEF Types, Texts
<1>4. Upto(u, 0) = {} /\ DirUpto(u, 0) = FALSE /\ Len(u) = 0
  BY DEF Upto, DirUpto
<1>5. w = Site(Top, {}, FALSE)  BY <1>4 DEF SiteAt
<1>6. r = Nothing
  <2>1. Printed(<<>>) = <<>>  BY DEF Printed
  <2>2. DOMAIN <<>> = {}  OBVIOUS
  <2> QED  BY <1>2, <2>1, <2>2 DEF Sofar, Nothing
<1>7. r \in Results /\ r.code = 0 /\ r.seen = {}
  BY <1>6, <1>2, SofarIs DEF Nothing
<1>8. ReadsIn(text, {}) = Reading(text, Count)
  <2>1. Cardinality({}) = 0  BY FS_EmptySet
  <2> QED  BY <2>1, CountIs DEF ReadsIn
<1>9. w \in Sites /\ w.dir = Top /\ w.within = {} /\ w.under = FALSE
  <2> HIDE DEF w
  <2>1. {} \in SUBSET Files /\ FALSE \in BOOLEAN  OBVIOUS
  <2>2. w.dir = Top /\ w.within = {} /\ w.under = FALSE  BY <1>5 DEF Site
  <2> QED  BY <1>3, <1>5, <2>1, <2>2, SiteIs
<1>10. q = ReadsIn(text, w.within)[w][Main][r]
  BY <1>5, <1>6, <1>8, <1>9 DEF DocumentOf, Count
<1> HIDE DEF r, w, q
<1>11. NameMakes(text, w, Main, r, ReadsIn(text, w.within)[w][Main][r])
  BY <1>3, <1>7, <1>9, NameIs
<1>12. NameMakes(text, w, Main, r, q)  BY <1>10, <1>11
<1>13. q = Through(FileSteps(text, f, Site(Top, {} \cup {f}, FALSE), ReadsIn(text, {} \cup {f})), 1, Enters(r, f))
  BY <1>3, <1>7, <1>9, <1>12 DEF NameMakes
<1>14. q \in Results
  <2>1. ReadsIn(text, w.within)[w][Main] \in Steps
    <3>1. ReadsIn(text, w.within) \in Readers  BY <1>3, <1>9, ReadsInIs
    <3> QED  BY <1>3, <1>9, <3>1 DEF Readers
  <2> QED  BY <1>7, <1>10, <2>1 DEF Steps
<1>15. Stands(u, V, D, q)
  <2>1. u \in Seq(Frames) /\ Len(u) = 0  OBVIOUS
  <2>2. V \in [1..(0 + 1) -> Results] /\ V[0 + 1] = q  BY <1>14
  <2>3. D \in [1..0 -> Dirs]  BY <1>3
  <2> HIDE DEF V, D
  <2>4. Links(text, u, V, D)  BY <2>1, <2>2, <2>3 DEF Links, q
  <2>5. Apart(u)  BY <2>1 DEF Apart
  <2>6. Flagged(text, u, flags)
    <3>1. DOMAIN flags = {}  BY <1>2
    <3> QED  BY <2>1, <3>1 DEF Flagged
  <2>7. OneDir(u, ga)  BY <1>2, <2>1 DEF OneDir
  <2>8. FramesOK(u, flags)  BY DEF FramesOK
  <2> QED  BY <2>1, <2>2, <2>4, <2>5, <2>6, <2>7, <2>8 DEF Stands
<1> HIDE DEF V, D, u, f
<1>16. f \notin DOMAIN flags  BY <1>2
<1>17. q = Through(FileSteps(text, f, Site(Top, Upto(u, Len(u)) \cup {f}, DirUpto(u, Len(u))),
                             ReadsIn(text, Upto(u, Len(u)) \cup {f})), 1, Enters(Sofar(out, flags), f))
  BY <1>4, <1>13 DEF r
<1>18. Leads(u, D, Top)  BY <1>4 DEF Leads
<1>19. Agrees(text, Append(u, x), flags', out, Top, ga)
  BY <1>1, <1>3, <1>15, <1>16, <1>17, <1>18, NewFile
<1>20. Append(u, x) = <<x>>  BY DEF u
<1>21. /\ code' = 0 /\ stack' = Append(u, x) /\ text' = text /\ ga' = ga  BY <1>1, <1>2, <1>20
<1> QED  BY <1>1, <1>19, <1>21, GoesOn

LEMMA InitFollows == Init => Follows
<1> SUFFICES ASSUME Init PROVE Simulates  BY DEF Follows
<1> QED  BY DEF Init, Simulates

LEMMA NextFollows == Types /\ Follows /\ [Next]_vars => Follows'
<1> SUFFICES ASSUME Types, Follows, [Next]_vars, Plain(text)' PROVE Simulates'
  BY DEF Follows
<1>1. text' = text
  <2>1. CASE Next
    BY <2>1 DEF Next, Start, CopyLine, DropLine, BadLine, Included, Include, IncludeDir, NextEntry,
                PastEntries, EndOfDir, EndOfFile, Resume, Finish, SystemCallFails, Die, Enter
  <2>2. CASE UNCHANGED vars  BY <2>2 DEF vars
  <2> QED  BY <2>1, <2>2
<1>2. Plain(text)
  <2>1. Plain(text')  BY DEF Plain
  <2> QED  BY <1>1, <2>1
<1>3. Simulates  BY <1>2 DEF Follows
<1>4. CASE UNCHANGED vars
  <2>1. UNCHANGED <<text, pc, code, cwd, ga, stack, flags, out>>  BY <1>4 DEF vars
  <2> QED  BY <1>3, <2>1 DEF Simulates, Agrees, Matches, Standing, Links, Apart, Flagged, OneDir, OpenIn
<1>5. CASE Start  BY <1>2, <1>3, <1>5, StartFollows
<1>6. CASE SystemCallFails
  <2>1. Died(111)  BY <1>6 DEF SystemCallFails, Die, Died
  <2> QED  BY <2>1, Ends
<1>7. CASE CopyLine \/ DropLine \/ BadLine \/ Included \/ Include \/ IncludeDir
            \/ NextEntry \/ PastEntries \/ EndOfDir \/ EndOfFile \/ Resume \/ Finish
  <2>1. pc = "run"
    BY <1>7 DEF CopyLine, DropLine, BadLine, Included, Include, IncludeDir, NextEntry, PastEntries,
                EndOfDir, EndOfFile, Resume, Finish, AtLine, InDir
  <2>2. Runs  BY <1>2, <1>3, <2>1 DEF Runs
  <2> QED  BY <1>7, <2>2, CopyLineFollows, DropLineFollows, BadLineFollows, IncludedFollows,
              IncludeFollows, IncludeDirFollows, NextEntryFollows, PastEntriesFollows,
              EndOfDirFollows, EndOfFileFollows, ResumeFollows, FinishFollows
<1> QED  BY <1>4, <1>5, <1>6, <1>7 DEF Next

LEMMA FollowsImplies == Follows => AsDocumented
<1> SUFFICES ASSUME Follows, Over, code # 111, ~DocumentOf(text).again, ~DocumentOf(text).nested
             PROVE  /\ code = DocumentOf(text).code
                    /\ code = 0 => Printed(out) = DocumentOf(text).text
  BY DEF AsDocumented, Documented
<1>1. Simulates  BY DEF Follows, Plain
<1>2. CASE pc = "done"
  <2>1. code = 0 /\ DocumentOf(text) = Sofar(out, flags)  BY <1>1, <1>2 DEF Simulates
  <2> QED  BY <2>1 DEF Sofar
<1>3. CASE pc = "died"
  <2>1. code # 0 /\ DocumentOf(text).code = code  BY <1>1, <1>3 DEF Simulates
  <2> QED  BY <2>1
<1> QED  BY <1>2, <1>3 DEF Over

\* Whatever the files, the directories and the texts are, the program prints the text in
\* which each directive is replaced by what it includes, or fails as the documents say,
\* where no file is included again in full and no directory in a directory
\* (includefromhere, include, includecwd and included of tipidee-config-preprocess.c).
THEOREM PrintsAsDocumented == Spec => []AsDocumented
<1>1. Init => Types /\ Follows  BY InitTypes, InitFollows
<1>2. (Types /\ Follows) /\ [Next]_vars => (Types /\ Follows)'  BY NextTypes, NextFollows
<1>3. Types /\ Follows => AsDocumented  BY FollowsImplies
<1> QED  BY <1>1, <1>2, <1>3, PTL DEF Spec
===============================================================================
