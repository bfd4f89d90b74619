-------------------------------- MODULE UTF8 --------------------------------
(***************************************************************************)
(* Text and its bytes, as far as the conversions of the program tell them  *)
(* apart. A character is a value with a width; byte i of character c is    *)
(* the pair << c, i >>, so that no byte of one character is taken for that *)
(* of another, as in UTF-8.                                                *)
(***************************************************************************)
EXTENDS Integers, Sequences, SequencesExt

CONSTANTS
  Characters,  \* the characters of the text
  Width,       \* the number of bytes of each
  Nil          \* Objective-C's and Swift's nil

ASSUME WidthAssumption == Width \in [Characters -> 1 .. 4]
ASSUME NilAssumption == Nil \notin Seq(Characters)

\* The bytes there are, each with its place in a character.
Bytes == Characters \X (1 .. 4)

BytesOf(character) == [i \in 1 .. Width[character] |-> << character, i >>]

\* The bytes of a string.
Encode(string) == FlattenSeq([k \in DOMAIN string |-> BytesOf(string[k])])

Begins(byte) == byte[2] = 1
Completes(byte) == byte[2] = Width[byte[1]]
Continues(byte, next) == next = << byte[1], byte[2] + 1 >>

\* The bytes are those of whole characters.
WellFormed(bytes) ==
  bytes # << >> =>
    /\ Begins(bytes[1])
    /\ Completes(bytes[Len(bytes)])
    /\ \A i \in 1 .. Len(bytes) - 1 :
         \/ Continues(bytes[i], bytes[i + 1])
         \/ Completes(bytes[i]) /\ Begins(bytes[i + 1])

\* A byte stands for the character that it begins.
Read(byte) == IF Begins(byte) THEN << byte[1] >> ELSE << >>

\* What NSString makes of bytes: the string, or nil.
Decode(bytes) ==
  IF WellFormed(bytes) THEN FlattenSeq([i \in DOMAIN bytes |-> Read(bytes[i])]) ELSE Nil
=============================================================================
