-------------------------- MODULE Conversion_proofs --------------------------
(***************************************************************************)
(* Proofs about Conversion, for every alphabet, every text and every way   *)
(* of cutting it.                                                          *)
(*                                                                         *)
(* The buffer holds the bytes of the text that were handed on. Once all of *)
(* them are there, what they decode to is the text: DecodeEncoded, which   *)
(* the proofs about ErrorTrampoline have from the same model of text. Its  *)
(* buffer and its variables play no part in that.                          *)
(***************************************************************************)
EXTENDS Conversion, RecursionTheorems

Trampoline == INSTANCE ErrorTrampoline_proofs WITH
  BufferSize <- 1, MaxMessage <- 0, formatted <- << >>, reported <- Nil, error <- Nil

-----------------------------------------------------------------------------
(***************************************************************************)
(* Text and its bytes.                                                     *)
(***************************************************************************)

\* The operators of UTF8 are the same in both modules.
LEMMA SameText ==
  /\ \A string : Trampoline!Encode(string) = Encode(string)
  /\ \A bytes : Trampoline!Decode(bytes) = Decode(bytes)
  /\ Trampoline!Bytes = Bytes
<1>1. \A c : Trampoline!BytesOf(c) = BytesOf(c)
  BY DEF Trampoline!BytesOf, BytesOf
<1>2. \A byte : Trampoline!Read(byte) = Read(byte)
  BY DEF Trampoline!Read, Read, Trampoline!Begins, Begins
<1>3. \A bytes : Trampoline!WellFormed(bytes) <=> WellFormed(bytes)
  BY DEF Trampoline!WellFormed, WellFormed, Trampoline!Begins, Begins,
     Trampoline!Completes, Completes, Trampoline!Continues, Continues
<1>4. \A seqs : Trampoline!FlattenSeq(seqs) = FlattenSeq(seqs)
  BY DEF Trampoline!FlattenSeq, FlattenSeq
<1>5. ASSUME NEW string
      PROVE  Trampoline!Encode(string) = Encode(string)
  <2>1. [k \in DOMAIN string |-> Trampoline!BytesOf(string[k])]
          = [k \in DOMAIN string |-> BytesOf(string[k])]
    BY <1>1
  <2>2. QED
    BY <1>4, <2>1 DEF Trampoline!Encode, Encode
<1>6. ASSUME NEW bytes
      PROVE  Trampoline!Decode(bytes) = Decode(bytes)
  <2>1. [i \in DOMAIN bytes |-> Trampoline!Read(bytes[i])]
          = [i \in DOMAIN bytes |-> Read(bytes[i])]
    BY <1>2
  <2>2. QED
    BY <1>3, <1>4, <2>1 DEF Trampoline!Decode, Decode
<1>7. QED
  BY <1>5, <1>6 DEF Trampoline!Bytes, Bytes

\* A text is bytes, and those bytes are the text again.
LEMMA TextOfBytes ==
  ASSUME NEW string \in Seq(Characters)
  PROVE  Encode(string) \in Seq(Bytes) /\ Decode(Encode(string)) = string
<1>1. /\ 1 \in Nat \ {0} /\ 0 \in Nat
      /\ Width \in [Characters -> 1 .. 4] /\ Nil \notin Seq(Characters)
  BY WidthAssumption, NilAssumption
<1>2. Trampoline!Encode(string) \in Seq(Trampoline!Bytes)
  BY <1>1, Trampoline!EncodeType
<1>3. Trampoline!Decode(Trampoline!Encode(string)) = string
  BY <1>1, Trampoline!DecodeEncoded
<1>4. QED
  BY <1>2, <1>3, SameText

\* Bytes are a string of characters or none.
LEMMA DecodeType ==
  ASSUME NEW bytes \in Seq(Bytes)
  PROVE  Decode(bytes) \in Seq(Characters) \cup {Nil}
<1>1. PICK seqs : seqs = [i \in DOMAIN bytes |-> Read(bytes[i])]
  OBVIOUS
<1>2. \A i \in 1 .. Len(bytes) : Read(bytes[i]) \in Seq(Characters)
  BY DEF Read, Bytes
<1>3. seqs \in Seq(Seq(Characters)) /\ << >> \in Seq(Characters)
  BY <1>1, <1>2
<1>4. FlattenSeq(seqs) \in Seq(Characters)
  BY <1>3, FlattenProperties
<1>5. QED
  BY <1>1, <1>4 DEF Decode

-----------------------------------------------------------------------------
(***************************************************************************)
(* The invariant: the buffer is the beginning of the text that was handed  *)
(* on, as bytes.                                                           *)
(***************************************************************************)
IInv ==
  /\ text \in Seq(Characters)
  /\ passed \in 0 .. Len(Encode(text))
  /\ contents = SubSeq(Encode(text), 1, passed)

\* A beginning of the bytes and the piece that follows it are a longer beginning.
LEMMA BeginningGrows ==
  ASSUME NEW bytes \in Seq(Bytes), NEW n \in Nat, NEW k \in Nat, n + k <= Len(bytes)
  PROVE  SubSeq(bytes, 1, n) \o SubSeq(bytes, n + 1, n + k) = SubSeq(bytes, 1, n + k)
OBVIOUS

\* The invariant holds at every time.
THEOREM Invariant == Spec => []IInv
<1>1. ASSUME Init
      PROVE  IInv
  <2>1. text \in Seq(Characters) /\ passed = 0 /\ contents = << >>
    BY <1>1, TextsAssumption DEF Init
  <2>2. PICK bytes \in Seq(Bytes) : bytes = Encode(text)
    BY <2>1, TextOfBytes
  <2>3. SubSeq(bytes, 1, 0) = << >> /\ 0 \in 0 .. Len(bytes)
    OBVIOUS
  <2>4. QED
    BY <2>1, <2>2, <2>3 DEF IInv
<1>2. IInv /\ [Next]_vars => IInv'
  <2>1. ASSUME IInv, NEW count \in 1 .. Len(Encode(text)), HandOn(count)
        PROVE  IInv'
    <3>1. PICK bytes \in Seq(Bytes) : bytes = Encode(text)
      BY <2>1, TextOfBytes DEF IInv
    <3>2. PICK n \in Nat : n = passed /\ contents = SubSeq(bytes, 1, n)
      BY <2>1, <3>1 DEF IInv
    <3>3. /\ count \in Nat /\ n + count <= Len(bytes)
          /\ passed' = n + count /\ text' = text
          /\ contents' = contents \o SubSeq(bytes, n + 1, n + count)
      BY <2>1, <3>1, <3>2 DEF HandOn, charactersFound
    <3>4. contents' = SubSeq(bytes, 1, n + count)
      BY <3>2, <3>3, BeginningGrows
    <3>5. n + count \in 0 .. Len(bytes)
      BY <3>3
    <3>6. QED
      BY <2>1, <3>1, <3>3, <3>4, <3>5 DEF IInv
  <2>2. ASSUME IInv, UNCHANGED vars
        PROVE  IInv'
    BY <2>2 DEF IInv, vars
  <2>3. QED
    BY <2>1, <2>2 DEF Next
<1>3. QED
  BY <1>1, <1>2, PTL DEF Spec

\* The value of a data element is a string at every time.
LEMMA ValueType == IInv => value \in Seq(Characters)
<1>1. ASSUME IInv
      PROVE  value \in Seq(Characters)
  <2>1. PICK bytes \in Seq(Bytes) : bytes = Encode(text)
    BY <1>1, TextOfBytes DEF IInv
  <2>2. contents \in Seq(Bytes)
    BY <1>1, <2>1 DEF IInv
  <2>3. Decode(contents) \in Seq(Characters) \cup {Nil}
    BY <2>2, DecodeType
  <2>4. QED
    BY <2>3, EmptySeq DEF value, stringFromData
<1>2. QED
  BY <1>1

\* The value of an element is its text, for every text and wherever it was cut.
THEOREM TextCorrect == Spec => []ValueIsText
<1>1. ASSUME IInv, passed = Len(Encode(text))
      PROVE  value = text
  <2>1. PICK bytes \in Seq(Bytes) : bytes = Encode(text) /\ Decode(bytes) = text
    BY <1>1, TextOfBytes DEF IInv
  <2>2. SubSeq(bytes, 1, Len(bytes)) = bytes
    OBVIOUS
  <2>3. contents = bytes
    BY <1>1, <2>1, <2>2 DEF IInv
  <2>4. text # Nil
    BY <1>1, NilAssumption DEF IInv
  <2>5. QED
    BY <2>1, <2>3, <2>4 DEF value, stringFromData
<1>2. IInv => ValueIsText
  BY <1>1 DEF ValueIsText
<1>3. QED
  BY <1>2, Invariant, PTL

\* The two ways of reading numbers and Booleans never contradict each other.
THEOREM ConversionsCorrect == Spec => []ConversionsAgree
<1>1. ASSUME IInv
      PROVE  ConversionsAgree
  <2>1. PICK string \in Seq(Characters) : string = value
    BY <1>1, ValueType
  <2>2. string # Nil
    BY NilAssumption
  <2>3. intFromString(value) = IF intValue = Nil THEN 0 ELSE intValue
    BY <2>1, <2>2 DEF intFromString, intValue
  <2>4. PICK small : small = lowercased(string)
    OBVIOUS
  <2>5. boolFromString(value) = (small \in {<< "t" >>, << "t", "r", "u", "e" >>, << "1" >>})
    BY <2>1, <2>2, <2>4 DEF boolFromString
  <2>6. boolValue = CASE small = << "t", "r", "u", "e" >> -> TRUE
                      [] small = << "f", "a", "l", "s", "e" >> -> FALSE
                      [] OTHER -> Nil
    BY <2>1, <2>4 DEF boolValue
  <2>7. boolValue # Nil => boolFromString(value) = boolValue
    <3>1. /\ << "f", "a", "l", "s", "e" >> # << "t", "r", "u", "e" >>
          /\ << "f", "a", "l", "s", "e" >> # << "t" >>
          /\ << "f", "a", "l", "s", "e" >> # << "1" >>
      OBVIOUS
    <3>2. CASE small = << "t", "r", "u", "e" >>
      BY <2>5, <2>6, <3>2
    <3>3. CASE small = << "f", "a", "l", "s", "e" >>
      <4>1. boolFromString(value) = FALSE
        <5>1. small \notin {<< "t" >>, << "t", "r", "u", "e" >>, << "1" >>}
          BY <3>1, <3>3
        <5>2. (small \in {<< "t" >>, << "t", "r", "u", "e" >>, << "1" >>}) = FALSE
          BY <5>1
        <5>3. QED
          BY <2>5, <5>2, Zenon
      <4>2. boolValue = FALSE
        BY <2>6, <3>1, <3>3
      <4>3. QED
        BY <4>1, <4>2
    <3>4. CASE small # << "t", "r", "u", "e" >> /\ small # << "f", "a", "l", "s", "e" >>
      BY <2>6, <3>4
    <3>5. QED
      BY <3>2, <3>3, <3>4
  <2>8. boolValue = Nil /\ boolFromString(value) => Len(value) = 1
    <3>1. Nil # TRUE
      BY NumeralAssumption
    <3>2. boolValue = Nil => small # << "t", "r", "u", "e" >>
      <4>1. ASSUME small = << "t", "r", "u", "e" >>
            PROVE  boolValue = TRUE
        BY <2>6, <4>1
      <4>2. QED
        BY <3>1, <4>1, Zenon
    <3>3. small = << "t" >> \/ small = << "1" >> => Len(small) = 1
      OBVIOUS
    <3>4. Len(small) = Len(string)
      BY <2>4 DEF lowercased
    <3>5. QED
      BY <2>1, <2>5, <3>2, <3>3, <3>4
  <2>9. QED
    BY <2>3, <2>7, <2>8 DEF ConversionsAgree
<1>2. QED
  BY <1>1, Invariant, PTL
=============================================================================
