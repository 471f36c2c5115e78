-------------------------------- MODULE Bytes ---------------------------------
(***************************************************************************)
(* Characters, and what the parsers take from the C library and skalibs.   *)
(* A character is a string of length 1, or a name: NUL, CTL for the other  *)
(* control characters, TAB, CR, LF, QUOTE, BACKQUOTE, BACKSLASH, and 8bit  *)
(* for all from 128 on.                                                    *)
(***************************************************************************)
EXTENDS Naturals, Sequences

\* The characters of a text.
Chars(text) == [i \in 1..Len(text) |-> SubSeq(text, i, i)]

\* The digits, in the order of their values, and those above nine in both cases.
HexDigit ==
  <<"0", "1", "2", "3", "4", "5", "6", "7", "8", "9", "a", "b", "c", "d", "e", "f",
    "A", "B", "C", "D", "E", "F">>
Digits == {HexDigit[i] : i \in 1..10}
Hexadecimals == {HexDigit[i] : i \in 1..22}

\* The value of a digit.
Value ==
  [c \in Hexadecimals |->
    LET i == CHOOSE n \in 1..22 : HexDigit[n] = c
    IN  IF i > 16 THEN i - 7 ELSE i - 1]

\* The characters from 32 to 126.
Printable ==
  <<" ", "!", "QUOTE", "#", "$", "%", "&", "'", "(", ")", "*", "+", ",", "-", ".", "/",
    "0", "1", "2", "3", "4", "5", "6", "7", "8", "9", ":", ";", "<", "=", ">", "?",
    "@", "A", "B", "C", "D", "E", "F", "G", "H", "I", "J", "K", "L", "M", "N", "O",
    "P", "Q", "R", "S", "T", "U", "V", "W", "X", "Y", "Z", "[", "BACKSLASH", "]", "^", "_",
    "BACKQUOTE", "a", "b", "c", "d", "e", "f", "g", "h", "i", "j", "k", "l", "m", "n", "o",
    "p", "q", "r", "s", "t", "u", "v", "w", "x", "y", "z", "{", "|", "}", "~">>

Alphabet ==
  {"NUL", "CTL", "TAB", "CR", "LF", "8bit", " ", ","} \cup {Printable[i] : i \in DOMAIN Printable}

\* The character with a number.
Character(n) ==
  IF n \in 32..126 THEN Printable[n - 31]
  ELSE IF n > 127 THEN "8bit"
  ELSE CASE n = 0 -> "NUL" [] n = 9 -> "TAB" [] n = 10 -> "LF" [] n = 13 -> "CR" [] OTHER -> "CTL"

\* A text whose capital letters are made small: strcasecmp() compares these.
SmallLetter ==
  [c \in {Printable[i] : i \in 34..59} |->
    Printable[(CHOOSE i \in 34..59 : Printable[i] = c) + 32]]
Folded(s) == [i \in DOMAIN s |-> IF s[i] \in DOMAIN SmallLetter THEN SmallLetter[s[i]] ELSE s[i]]

StartsWith(s, start) == Len(start) <= Len(s) /\ SubSeq(s, 1, Len(start)) = start
Occurs(part, s) == \E i \in 0..Len(s) : StartsWith(SubSeq(s, i + 1, Len(s)), part)

\* The string that begins after the first at characters of a buffer.
StringAt(buf, at) ==
  LET nul == CHOOSE i \in (at + 1)..Len(buf) :
               buf[i] = "NUL" /\ \A j \in (at + 1)..(i - 1) : buf[j] # "NUL"
  IN  SubSeq(buf, at + 1, nul - 1)

\* What is before the first of some characters in a text, and all of it if there is none.
Before(s, set) ==
  LET ends == {i \in 1..Len(s) : s[i] \in set}
  IN  IF ends = {} THEN s ELSE SubSeq(s, 1, (CHOOSE i \in ends : \A j \in ends : i <= j) - 1)

\* The decimal digits that a text begins with, and the number that digits make.
DigitsOf(s) ==
  LET others == {i \in 1..Len(s) : s[i] \notin Digits}
  IN  IF others = {} THEN s ELSE SubSeq(s, 1, (CHOOSE i \in others : \A j \in others : i <= j) - 1)
NumberOf(s) ==
  LET value[i \in 0..Len(s)] == IF i = 0 THEN 0 ELSE 10 * value[i - 1] + Value[s[i]]
  IN  value[Len(s)]

\* size_scan(): a text begins with a number, which is not too large for its type.
IsNumber(s, max) == DigitsOf(s) # <<>> /\ NumberOf(DigitsOf(s)) \in 0..max

\* uint160_scan(): all of a text is a number of 16 bits.
IsPort(s) == DigitsOf(s) = s /\ IsNumber(s, 65535)
===============================================================================
