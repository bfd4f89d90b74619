------------------------------ MODULE Conversion ------------------------------
(***************************************************************************)
(* Conversion of Sources/Conversion.swift and the values of XMLDataElement *)
(* in Sources/XMLPushParser.swift: what the text of a data element, which  *)
(* arrives as bytes and in pieces, reads as a string, a number or a        *)
(* Boolean. The two files read numbers and Booleans each in its own way.   *)
(*                                                                         *)
(* libxml2 decides where a text is cut. Its charactersSAXFunc counts bytes *)
(* and promises nothing about characters, so a piece ends after any byte.  *)
(***************************************************************************)
EXTENDS UTF8

CONSTANTS
  Texts,      \* the texts an element can have
  LowerCase,  \* the small letter of each character, itself for all others
  Numeral     \* external: the Int that each string is, for those that are one

ASSUME TextsAssumption ==
  /\ Texts \subseteq Seq(Characters)
  /\ LowerCase \in [Characters -> Characters]

ASSUME NumeralAssumption ==
  /\ Numeral \in [DOMAIN Numeral -> Int]
  /\ Nil \notin Int \cup BOOLEAN

VARIABLES
  text,     \* external: the text of the element in the document
  passed,   \* external: how many bytes of it libxml2 has handed on
  contents  \* the buffer: the bytes of the element so far

vars == << text, passed, contents >>

-----------------------------------------------------------------------------
(***************************************************************************)
(* Swift's Int(_ : String) and lowercased().                               *)
(***************************************************************************)
IntOfString(string) ==
  IF string \in DOMAIN Numeral THEN Numeral[string] ELSE Nil

lowercased(string) == [k \in DOMAIN string |-> LowerCase[string[k]]]

(***************************************************************************)
(* Conversion.                                                             *)
(***************************************************************************)
stringFromData(bytes) ==
  IF Decode(bytes) = Nil THEN << >> ELSE Decode(bytes)

intFromString(string) ==
  CASE string = Nil -> Nil
    [] string # Nil /\ IntOfString(string) = Nil -> 0
    [] OTHER -> IntOfString(string)

BoolAsWritten(string) ==  \* mutant: the case of the letters is left as it is
  IF string = Nil THEN Nil
  ELSE string \in {<< "t" >>, << "t", "r", "u", "e" >>, << "1" >>}

boolFromString(string) ==
  IF string = Nil THEN Nil
  ELSE lowercased(string) \in {<< "t" >>, << "t", "r", "u", "e" >>, << "1" >>}

(***************************************************************************)
(* XMLDataElement.                                                         *)
(***************************************************************************)
value == stringFromData(contents)

intValue == IntOfString(value)

boolValue ==
  CASE lowercased(value) = << "t", "r", "u", "e" >> -> TRUE
    [] lowercased(value) = << "f", "a", "l", "s", "e" >> -> FALSE
    [] OTHER -> Nil

-----------------------------------------------------------------------------
(***************************************************************************)
(* The contents on their way from libxml2 into the buffer.                 *)
(***************************************************************************)
Init ==
  /\ text \in Texts
  /\ passed = 0
  /\ contents = << >>

DecodePieceByPiece(piece) ==  \* mutant: each piece is made a string at once
  contents' = contents \o Encode(stringFromData(piece))

charactersFound(piece) == contents' = contents \o piece

HandOn(count) ==
  /\ passed + count <= Len(Encode(text))
  /\ passed' = passed + count
  /\ charactersFound(SubSeq(Encode(text), passed + 1, passed + count))
  /\ UNCHANGED text

Next == \E count \in 1 .. Len(Encode(text)) : HandOn(count)
Spec == Init /\ [][Next]_vars

-----------------------------------------------------------------------------
(***************************************************************************)
(* Properties.                                                             *)
(***************************************************************************)

\* Wherever libxml2 cuts the text of an element, between characters or inside
\* them, the value of the element is the text: the pieces are joined as bytes
\* and become a string only when all of them are there.
ValueIsText == passed = Len(Encode(text)) => value = text

\* The conversions for attributes and those for data elements never contradict
\* each other: where intValue and boolValue answer, so do intFromString and
\* boolFromString, and where they do not, the others fall back to 0 and, but for
\* the short forms of true, to false.
ConversionsAgree ==
  /\ intFromString(value) = IF intValue = Nil THEN 0 ELSE intValue
  /\ boolValue # Nil => boolFromString(value) = boolValue
  /\ boolValue = Nil /\ boolFromString(value) => Len(value) = 1
=============================================================================
