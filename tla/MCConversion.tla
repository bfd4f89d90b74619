----------------------------- MODULE MCConversion -----------------------------
(***************************************************************************)
(* Conversion of short texts: every text of up to three letters, digits,   *)
(* signs and wide characters, and the words for true and false.            *)
(***************************************************************************)
EXTENDS Conversion

Small == {"t", "r", "u", "e", "f", "a", "l", "s"}
Capitals == [t |-> "T", r |-> "R", u |-> "U", e |-> "E"]

Wide == "wide"    \* a character of two bytes
Wider == "wider"  \* a character of three bytes
MCCharacters ==
  Small \cup {Capitals[c] : c \in DOMAIN Capitals} \cup {"0", "1", "-", Wide, Wider}
MCWidth == [c \in MCCharacters |-> CASE c = Wide -> 2 [] c = Wider -> 3 [] OTHER -> 1]
MCLowerCase ==
  [c \in MCCharacters |->
     IF \E s \in DOMAIN Capitals : Capitals[s] = c
     THEN CHOOSE s \in DOMAIN Capitals : Capitals[s] = c ELSE c]

\* An Int has up to two digits, as if three were too many for it; "-" alone and
\* "1-" are none.
MCNumeral ==
  LET numbers == { << << "0" >>, 0 >>, << << "1" >>, 1 >>, << << "1", "0" >>, 10 >>,
                   << << "1", "1" >>, 11 >>, << << "0", "0" >>, 0 >>, << << "0", "1" >>, 1 >>,
                   << << "-", "0" >>, 0 >>, << << "-", "1" >>, -1 >>,
                   << << "-", "1", "0" >>, -10 >>, << << "-", "1", "1" >>, -11 >> }
  IN  [string \in {n[1] : n \in numbers} |-> (CHOOSE n \in numbers : n[1] = string)[2]]

MCTexts ==
  SeqOf({"t", "T", "0", "1", "-", Wide, Wider}, 3)
  \cup { << "t", "r", "u", "e" >>, << "T", "R", "U", "E" >>, << "T", "r", "u", "e" >>,
         << "f", "a", "l", "s", "e" >>, << "t", "r", "u", "e", Wide >> }
=============================================================================
