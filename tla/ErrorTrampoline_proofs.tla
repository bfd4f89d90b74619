----------------------- MODULE ErrorTrampoline_proofs -----------------------
(***************************************************************************)
(* Proofs about ErrorTrampoline, for every set of characters, every buffer *)
(* size and messages of every length.                                      *)
(*                                                                         *)
(* Both properties speak of one message, so the invariant says little: the *)
(* error is what arrives of the message reported last. The work is in what *)
(* arrives: cut anywhere, the bytes of a message are those of a beginning  *)
(* of it, or not of any text.                                              *)
(***************************************************************************)
EXTENDS ErrorTrampoline, RecursionTheorems

-----------------------------------------------------------------------------
(***************************************************************************)
(* Text and its bytes.                                                     *)
(***************************************************************************)

\* The bytes of a character.
LEMMA BytesOfCharacter ==
  ASSUME NEW c \in Characters
  PROVE  /\ Width[c] \in 1 .. 4
         /\ BytesOf(c) \in Seq(Bytes)
         /\ Len(BytesOf(c)) = Width[c]
         /\ \A i \in 1 .. Width[c] : BytesOf(c)[i] = << c, i >>
<1>1. Width[c] \in 1 .. 4
  BY WidthAssumption
<1>2. \A i \in 1 .. Width[c] : << c, i >> \in Bytes
  BY <1>1 DEF Bytes
<1>3. QED
  BY <1>1, <1>2 DEF BytesOf

\* The parts of a byte.
LEMMA ByteParts ==
  ASSUME NEW c \in Characters, NEW i \in 1 .. 4
  PROVE  /\ Begins(<< c, i >>) <=> i = 1
         /\ Completes(<< c, i >>) <=> i = Width[c]
         /\ \A j \in 1 .. 4 : Continues(<< c, i >>, << c, j >>) <=> j = i + 1
         /\ Read(<< c, i >>) = IF i = 1 THEN << c >> ELSE << >>
BY DEF Begins, Completes, Continues, Read

\* What all the bytes stand for together.
Reading(bytes) == FlattenSeq([i \in DOMAIN bytes |-> Read(bytes[i])])

\* No text has no bytes, and none stand for it.
LEMMA EmptyText == Encode(<< >>) = << >> /\ Reading(<< >>) = << >>
<1>1. /\ [k \in DOMAIN << >> |-> BytesOf(<< >>[k])] = << >>
      /\ [i \in DOMAIN << >> |-> Read(<< >>[i])] = << >>
  OBVIOUS
<1>2. FlattenSeq(<< >>) = << >>
  BY DEF FlattenSeq
<1>3. QED
  BY <1>1, <1>2 DEF Encode, Reading

\* A string is encoded character by character.
LEMMA EncodeMore ==
  ASSUME NEW string \in Seq(Characters), NEW c \in Characters
  PROVE  /\ Encode(string) \in Seq(Bytes)
         /\ Encode(Append(string, c)) = Encode(string) \o BytesOf(c)
<1>1. PICK seqs : seqs = [k \in DOMAIN string |-> BytesOf(string[k])]
  OBVIOUS
<1>2. seqs \in Seq(Seq(Bytes)) /\ Len(seqs) = Len(string)
  <2>1. \A k \in 1 .. Len(string) : BytesOf(string[k]) \in Seq(Bytes)
    BY BytesOfCharacter
  <2>2. QED
    BY <1>1, <2>1
<1>3. BytesOf(c) \in Seq(Bytes)
  BY BytesOfCharacter
<1>4. [k \in DOMAIN Append(string, c) |-> BytesOf(Append(string, c)[k])]
        = Append(seqs, BytesOf(c))
  BY <1>1, <1>2, <1>3
<1>5. Encode(string) = FlattenSeq(seqs)
  BY <1>1 DEF Encode
<1>6. Encode(Append(string, c)) = FlattenSeq(Append(seqs, BytesOf(c)))
  BY <1>4 DEF Encode
<1>7. QED
  BY <1>2, <1>3, <1>5, <1>6, FlattenProperties

\* Strings are encoded as bytes.
LEMMA EncodeType ==
  ASSUME NEW string \in Seq(Characters)
  PROVE  Encode(string) \in Seq(Bytes)
<1>1. CASE Characters = {}
  <2>1. string = << >>
    BY <1>1, EmptySeq, ElementOfSeq
  <2>2. QED
    BY <2>1, EmptyText, EmptySeq
<1>2. CASE Characters # {}
  BY <1>2, EncodeMore
<1>3. QED
  BY <1>1, <1>2

\* Whole characters and one more are whole characters.
LEMMA WellFormedMore ==
  ASSUME NEW bytes \in Seq(Bytes), WellFormed(bytes), NEW c \in Characters
  PROVE  WellFormed(bytes \o BytesOf(c))
<1>1. PICK more, last : more = bytes \o last /\ last = BytesOf(c)
  OBVIOUS
<1>2. PICK n \in Nat, w \in 1 .. 4 : n = Len(bytes) /\ w = Width[c]
  BY BytesOfCharacter, LenProperties
<1>3. /\ more \in Seq(Bytes) /\ Len(more) = n + w
      /\ \A i \in 1 .. n : more[i] = bytes[i]
      /\ \A i \in 1 .. w : more[n + i] = << c, i >>
  <2>1. last \in Seq(Bytes) /\ Len(last) = w /\ \A i \in 1 .. w : last[i] = << c, i >>
    BY <1>1, <1>2, BytesOfCharacter
  <2>2. /\ more \in Seq(Bytes) /\ Len(more) = n + w
        /\ \A i \in 1 .. n + w : more[i] = IF i <= n THEN bytes[i] ELSE last[i - n]
    BY <1>1, <1>2, <2>1, ConcatProperties
  <2>3. \A i \in 1 .. w : n + i \in 1 .. n + w /\ ~ (n + i <= n) /\ (n + i) - n = i
    OBVIOUS
  <2>4. QED
    BY <2>1, <2>2, <2>3
<1>4. Completes(more[Len(more)])
  <2>1. more[n + w] = << c, w >>
    BY <1>3, w \in 1 .. w
  <2>2. Completes(<< c, w >>)
    BY <1>2, ByteParts
  <2>3. QED
    BY <1>3, <2>1, <2>2
<1>5. Begins(more[1])
  <2>1. CASE n = 0
    <3>1. 1 \in 1 .. w /\ 1 \in 1 .. 4 /\ n + 1 = 1
      BY <2>1
    <3>2. more[1] = << c, 1 >> /\ Begins(<< c, 1 >>)
      BY <1>3, <3>1, ByteParts
    <3>3. QED
      BY <3>2
  <2>2. CASE n # 0
    <3>1. bytes # << >> /\ 1 \in 1 .. n
      BY <1>2, <2>2, EmptySeq
    <3>2. QED
      BY <1>3, <3>1 DEF WellFormed
  <2>3. QED
    BY <2>1, <2>2
<1>6. ASSUME NEW i \in 1 .. n + w - 1
      PROVE  \/ Continues(more[i], more[i + 1])
             \/ Completes(more[i]) /\ Begins(more[i + 1])
  <2>1. CASE i < n
    <3>1. /\ n # 0
          /\ i \in 1 .. n - 1 /\ i \in 1 .. n /\ i + 1 \in 1 .. n
      BY <2>1
    <3>2. bytes # << >>
      BY <1>2, <3>1, EmptySeq
    <3>3. QED
      BY <1>2, <1>3, <3>1, <3>2 DEF WellFormed
  <2>2. CASE i = n
    <3>1. n # 0 /\ n \in 1 .. n /\ 1 \in 1 .. w /\ 1 \in 1 .. 4
      BY <2>2
    <3>2. bytes # << >>
      BY <1>2, <3>1, EmptySeq
    <3>3. more[n] = bytes[n] /\ Completes(bytes[n])
      BY <1>2, <1>3, <3>1, <3>2 DEF WellFormed
    <3>4. more[n + 1] = << c, 1 >> /\ Begins(<< c, 1 >>)
      BY <1>3, <3>1, ByteParts
    <3>5. QED
      BY <2>2, <3>3, <3>4
  <2>3. CASE i > n
    <3>1. PICK j \in 1 .. 4 : i = n + j /\ j \in 1 .. w
      <4>1. i - n \in 1 .. w /\ i - n \in 1 .. 4 /\ i = n + (i - n)
        BY <2>3
      <4>2. QED
        BY <4>1
    <3>2. j + 1 \in 1 .. w /\ j + 1 \in 1 .. 4 /\ i + 1 = n + (j + 1)
      BY <3>1
    <3>3. Continues(more[i], more[i + 1])
      <4>1. more[i] = << c, j >> /\ more[i + 1] = << c, j + 1 >>
        BY <1>3, <3>1, <3>2
      <4>2. Continues(<< c, j >>, << c, j + 1 >>)
        BY <3>1, <3>2, ByteParts
      <4>3. QED
        BY <4>1, <4>2
    <3>4. QED
      BY <3>3
  <2>4. QED
    BY <2>1, <2>2, <2>3
<1>7. WellFormed(more)
  <2>1. Len(more) - 1 = n + w - 1
    BY <1>3
  <2>2. \A i \in 1 .. Len(more) - 1 : \/ Continues(more[i], more[i + 1])
                                      \/ Completes(more[i]) /\ Begins(more[i + 1])
    BY <1>6, <2>1, Zenon
  <2>3. QED
    BY <1>4, <1>5, <2>2, Zenon DEF WellFormed
<1>8. QED
  BY <1>1, <1>7, Zenon

\* Reading goes from byte to byte.
LEMMA ReadMore ==
  ASSUME NEW bytes \in Seq(Bytes), NEW byte \in Bytes
  PROVE  /\ Reading(bytes) \in Seq(Characters)
         /\ Reading(Append(bytes, byte)) = Reading(bytes) \o Read(byte)
<1>1. PICK seqs : seqs = [i \in DOMAIN bytes |-> Read(bytes[i])]
  OBVIOUS
<1>2. \A b \in Bytes : Read(b) \in Seq(Characters)
  BY DEF Read, Bytes
<1>3. seqs \in Seq(Seq(Characters)) /\ Len(seqs) = Len(bytes)
  <2>1. \A i \in 1 .. Len(bytes) : Read(bytes[i]) \in Seq(Characters)
    BY <1>2
  <2>2. QED
    BY <1>1, <2>1
<1>4. [i \in DOMAIN Append(bytes, byte) |-> Read(Append(bytes, byte)[i])]
        = Append(seqs, Read(byte))
  BY <1>1, <1>2, <1>3
<1>5. Reading(bytes) = FlattenSeq(seqs)
  BY <1>1 DEF Reading
<1>6. Reading(Append(bytes, byte)) = FlattenSeq(Append(seqs, Read(byte)))
  BY <1>4 DEF Reading
<1>7. QED
  BY <1>2, <1>3, <1>5, <1>6, FlattenProperties

\* Bytes and the beginning of a character.
Started(bytes, c, i) == bytes \o [j \in 1 .. i |-> << c, j >>]

\* Such a beginning grows byte by byte.
LEMMA StartedMore ==
  ASSUME NEW bytes \in Seq(Bytes), NEW c \in Characters, NEW i \in 0 .. 3
  PROVE  /\ Started(bytes, c, i) \in Seq(Bytes)
         /\ Started(bytes, c, 0) = bytes
         /\ Started(bytes, c, i + 1) = Append(Started(bytes, c, i), << c, i + 1 >>)
<1>1. PICK s, t : s = [j \in 1 .. i |-> << c, j >>] /\ t = [j \in 1 .. i + 1 |-> << c, j >>]
  OBVIOUS
<1>2. \A j \in 1 .. 4 : << c, j >> \in Bytes
  BY DEF Bytes
<1>3. s \in Seq(Bytes) /\ t \in Seq(Bytes)
  <2>1. /\ \A j \in 1 .. i : << c, j >> \in Bytes
        /\ \A j \in 1 .. i + 1 : << c, j >> \in Bytes
    <3>1. /\ \A j \in 1 .. i : j \in 1 .. 4
          /\ \A j \in 1 .. i + 1 : j \in 1 .. 4
      OBVIOUS
    <3>2. QED
      BY <1>2, <3>1, Zenon
  <2>2. QED
    BY <1>1, <2>1
<1>4. bytes \o t = Append(bytes \o s, << c, i + 1 >>)
  <2>1. t = Append(s, << c, i + 1 >>)
    BY <1>1
  <2>2. QED
    BY <1>3, <2>1
<1>5. [j \in 1 .. 0 |-> << c, j >>] = << >>
  OBVIOUS
<1>6. Started(bytes, c, i) = bytes \o s /\ Started(bytes, c, i + 1) = bytes \o t
  BY <1>1, Zenon DEF Started
<1>7. bytes \o s \in Seq(Bytes)
  BY <1>3, ConcatProperties
<1>8. Started(bytes, c, 0) = bytes
  BY <1>5, ConcatEmptySeq DEF Started
<1>9. QED
  BY <1>4, <1>6, <1>7, <1>8, Zenon

\* Reading one character more gives one character more.
LEMMA ReadCharacter ==
  ASSUME NEW bytes \in Seq(Bytes), NEW c \in Characters
  PROVE  Reading(bytes \o BytesOf(c)) = Append(Reading(bytes), c)
<1>1. PICK n \in 1 .. 4 : n = Width[c]
  BY BytesOfCharacter
<1> DEFINE A == {i \in 0 .. n : i # 0 => Reading(Started(bytes, c, i)) = Append(Reading(bytes), c)}
<1>2. 0 \in A
  OBVIOUS
<1>3. ASSUME NEW i \in 1 .. n, i - 1 \in A
      PROVE  Reading(Started(bytes, c, i)) = Append(Reading(bytes), c)
  <2>1. PICK k \in 0 .. 3 : i = k + 1
    BY i - 1 \in 0 .. 3
  <2>2. << c, i >> \in Bytes /\ i \in 1 .. 4
    BY <2>1 DEF Bytes
  <2>3. Started(bytes, c, k) \in Seq(Bytes)
    BY StartedMore
  <2>4. Reading(Started(bytes, c, i)) = Reading(Started(bytes, c, k)) \o Read(<< c, i >>)
    BY <2>1, <2>2, <2>3, StartedMore, ReadMore
  <2>5. CASE i = 1
    <3>1. Started(bytes, c, k) = bytes
      BY <2>1, <2>5, StartedMore, k = 0
    <3>2. Read(<< c, i >>) = << c >>
      BY <2>2, <2>5, ByteParts
    <3>3. Reading(bytes) \in Seq(Characters)
      BY <2>2, ReadMore
    <3>4. PICK text \in Seq(Characters) : text = Reading(bytes)
      BY <3>3
    <3>5. text \o << c >> = Append(text, c)
      BY AppendIsConcat
    <3>6. QED
      BY <2>4, <3>1, <3>2, <3>4, <3>5, Zenon
  <2>6. CASE i # 1
    <3>1. Reading(Started(bytes, c, k)) = Append(Reading(bytes), c)
      BY <1>3, <2>1, <2>6
    <3>2. Read(<< c, i >>) = << >>
      BY <2>2, <2>6, ByteParts
    <3>3. Reading(Started(bytes, c, k)) \in Seq(Characters)
      BY <2>2, <2>3, ReadMore
    <3>4. QED
      BY <2>4, <3>1, <3>2, <3>3
  <2>7. QED
    BY <2>5, <2>6
<1>4. \A i \in 0 .. n : i \in A
  <2>1. \A i \in 1 .. n : i - 1 \in A => i \in A
    BY <1>3
  <2> HIDE DEF A
  <2>2. QED
    BY <1>2, <2>1, InductionOnInterval
<1>5. Started(bytes, c, n) = bytes \o BytesOf(c)
  BY <1>1 DEF Started, BytesOf
<1>6. n \in A /\ n # 0
  BY <1>4
<1>7. QED
  BY <1>5, <1>6

\* A string is well formed once encoded, and decoding gives it back.
LEMMA DecodeEncoded ==
  \A string \in Seq(Characters) :
    WellFormed(Encode(string)) /\ Decode(Encode(string)) = string
<1> DEFINE Whole == {string \in Seq(Characters) :
                       WellFormed(Encode(string)) /\ Reading(Encode(string)) = string}
<1>1. << >> \in Whole
  <2>1. Encode(<< >>) = << >> /\ Reading(<< >>) = << >>
    BY EmptyText
  <2>2. QED
    BY <2>1 DEF WellFormed
<1>2. ASSUME NEW string \in Seq(Characters), NEW c \in Characters, string \in Whole
      PROVE  Append(string, c) \in Whole
  <2>1. /\ Encode(string) \in Seq(Bytes)
        /\ Encode(Append(string, c)) = Encode(string) \o BytesOf(c)
    BY EncodeMore
  <2>2. WellFormed(Encode(Append(string, c)))
    BY <1>2, <2>1, WellFormedMore
  <2>3. Reading(Encode(Append(string, c))) = Append(string, c)
    BY <1>2, <2>1, ReadCharacter
  <2>4. QED
    BY <2>2, <2>3
<1>3. \A string \in Seq(Characters) : string \in Whole
  <2> HIDE DEF Whole
  <2>1. QED
    BY <1>1, <1>2, InductionOnSeq
<1>4. QED
  BY <1>3 DEF Decode, Reading

\* The bytes are those of a beginning of the string.
Begun(string, bytes) ==
  \E t \in Seq(Characters) : IsPrefix(t, string) /\ bytes = Encode(t)

\* Cut anywhere, the bytes of a string are those of a beginning of it, or not of
\* whole characters.
LEMMA CutEncoded ==
  \A string \in Seq(Characters) : \A n \in 0 .. Len(Encode(string)) :
    WellFormed(SubSeq(Encode(string), 1, n)) =>
      Begun(string, SubSeq(Encode(string), 1, n))
<1> DEFINE Cut == {string \in Seq(Characters) :
                     \A n \in 0 .. Len(Encode(string)) :
                       WellFormed(SubSeq(Encode(string), 1, n)) =>
                         Begun(string, SubSeq(Encode(string), 1, n))}
<1>1. << >> \in Cut
  <2>1. Encode(<< >>) = << >> /\ << >> \in Seq(Characters) /\ IsPrefix(<< >>, << >>)
    BY EmptyText DEF IsPrefix
  <2>2. \A n \in 0 .. Len(<< >>) : SubSeq(<< >>, 1, n) = << >>
    OBVIOUS
  <2>3. QED
    BY <2>1, <2>2 DEF Begun
<1>2. ASSUME NEW string \in Seq(Characters), NEW c \in Characters, string \in Cut
      PROVE  Append(string, c) \in Cut
  <2>1. PICK bytes, last, more :
          bytes = Encode(string) /\ last = BytesOf(c) /\ more = bytes \o last
    OBVIOUS
  <2>2. PICK m \in Nat, w \in 1 .. 4 : m = Len(bytes) /\ w = Width[c]
    <3>1. bytes \in Seq(Bytes)
      BY <2>1, EncodeMore
    <3>2. QED
      BY <3>1, BytesOfCharacter, LenProperties
  <2>3. Encode(Append(string, c)) = more
    BY <2>1, EncodeMore
  <2>4. /\ bytes \in Seq(Bytes) /\ last \in Seq(Bytes)
        /\ Len(last) = w /\ \A i \in 1 .. w : last[i] = << c, i >>
    BY <2>1, <2>2, EncodeMore, BytesOfCharacter
  <2>5. more \in Seq(Bytes) /\ Len(more) = m + w
    BY <2>1, <2>2, <2>4, ConcatProperties
  <2>6. ASSUME NEW n \in 0 .. m + w, WellFormed(SubSeq(more, 1, n))
        PROVE  Begun(Append(string, c), SubSeq(more, 1, n))
    <3>1. CASE n <= m
      <4>1. n \in 0 .. m /\ SubSeq(more, 1, n) = SubSeq(bytes, 1, n)
        <5>1. CASE n = 0
          BY <5>1, SubSeqEmpty
        <5>2. CASE n # 0
          <6>1. 1 \in 1 .. m /\ n \in 1 .. m
            BY <3>1, <5>2
          <6>2. QED
            BY <2>1, <2>2, <2>4, <6>1, SubSeqOfConcat1
        <5>3. QED
          BY <3>1, <5>1, <5>2
      <4>2. PICK t \in Seq(Characters) :
              IsPrefix(t, string) /\ SubSeq(bytes, 1, n) = Encode(t)
        BY <1>2, <2>1, <2>2, <2>6, <4>1 DEF Begun
      <4>3. IsPrefix(t, Append(string, c))
        BY <4>2 DEF IsPrefix
      <4>4. QED
        BY <4>1, <4>2, <4>3 DEF Begun
    <3>2. CASE n = m + w
      <4>1. SubSeq(more, 1, n) = more
        BY <2>5, <3>2, SubSeqFull
      <4>2. Append(string, c) \in Seq(Characters)
        BY AppendProperties
      <4>3. IsPrefix(Append(string, c), Append(string, c))
        BY <4>2, LenProperties DEF IsPrefix
      <4>4. QED
        BY <2>3, <4>1, <4>2, <4>3 DEF Begun
    \* Cut inside the last character, it does not end with a whole one.
    <3>3. CASE m < n /\ n < m + w
      <4>1. PICK cut : cut = SubSeq(more, 1, n)
        OBVIOUS
      <4>2. cut \in Seq(Bytes) /\ Len(cut) = n /\ cut[n] = more[n]
        <5>1. \A i \in 1 .. n : more[i] \in Bytes
          BY <2>5, <3>3, ElementOfSeq
        <5>2. 1 <= n /\ n \in 1 .. n - 1 + 1 /\ 1 + n - 1 = n
          BY <3>3
        <5>3. QED
          BY <4>1, <5>1, <5>2, SubSeqProperties
      <4>3. PICK i \in 1 .. 4 : i \in 1 .. w /\ i < w /\ n = m + i
        <5>1. n - m \in 1 .. 4 /\ n - m \in 1 .. w /\ n - m < w /\ n = m + (n - m)
          BY <3>3
        <5>2. QED
          BY <5>1
      <4>4. more[n] = << c, i >>
        <5>1. n \in 1 .. m + w /\ ~ (n <= m) /\ n - m = i
          BY <3>3, <4>3
        <5>2. more[n] = last[n - m]
          BY <2>1, <2>2, <2>4, <5>1, ConcatProperties
        <5>3. QED
          BY <2>4, <4>3, <5>1, <5>2
      <4>5. ~ Completes(<< c, i >>)
        <5>1. i # Width[c]
          BY <2>2, <4>3
        <5>2. QED
          BY <5>1, ByteParts
      <4>6. cut # << >>
        BY <3>3, <4>2, EmptySeq
      <4>7. QED
        BY <2>6, <4>1, <4>2, <4>4, <4>5, <4>6 DEF WellFormed
    <3>4. QED
      BY <3>1, <3>2, <3>3
  <2>7. Append(string, c) \in Seq(Characters)
    BY AppendProperties
  <2>8. QED
    BY <2>3, <2>5, <2>6, <2>7
<1>3. \A string \in Seq(Characters) : string \in Cut
  <2> HIDE DEF Cut
  <2>1. QED
    BY <1>1, <1>2, InductionOnSeq
<1>4. QED
  BY <1>3

-----------------------------------------------------------------------------
(***************************************************************************)
(* The message that arrives.                                               *)
(***************************************************************************)

\* What arrives of a message.
Arriving(string) == Decode(vsnprintf(Encode(string)))
Arrived(string) == IF Arriving(string) = Nil THEN << >> ELSE Arriving(string)

\* The message arrives whole if it fits; if it does not, all that fits of it
\* arrives, or nothing.
LEMMA ArrivedBegins ==
  ASSUME NEW string \in Seq(Characters)
  PROVE  /\ Arrived(string) \in Seq(Characters)
         /\ IsPrefix(Arrived(string), string)
         /\ Len(Encode(string)) < BufferSize => Arrived(string) = string
         /\ Len(Encode(string)) >= BufferSize =>
              Len(Encode(Arrived(string))) \in {0, BufferSize - 1}
<1>1. PICK bytes : bytes = Encode(string)
  OBVIOUS
<1>2. bytes \in Seq(Bytes) /\ Len(bytes) \in Nat
  BY <1>1, EncodeType, LenProperties
<1>3. CASE Len(bytes) < BufferSize
  <2>1. Arriving(string) = string
    BY <1>1, <1>3, DecodeEncoded DEF Arriving, vsnprintf
  <2>2. Arrived(string) = string
    BY <2>1, NilAssumption DEF Arrived
  <2>3. IsPrefix(string, string)
    BY LenProperties DEF IsPrefix
  <2>4. ~ (Len(bytes) >= BufferSize)
    BY <1>2, <1>3, BufferAssumption
  <2>5. QED
    BY <1>1, <2>2, <2>3, <2>4
<1>4. CASE ~ (Len(bytes) < BufferSize)
  <2>1. PICK n, cut : n = BufferSize - 1 /\ cut = SubSeq(bytes, 1, n)
    OBVIOUS
  <2>2. n \in 0 .. Len(bytes)
    BY <1>2, <1>4, <2>1, BufferAssumption
  <2>3. Arriving(string) = Decode(cut)
    BY <1>1, <1>4, <2>1 DEF Arriving, vsnprintf
  <2>4. CASE WellFormed(cut)
    <3>1. PICK t \in Seq(Characters) : IsPrefix(t, string) /\ cut = Encode(t)
      BY <1>1, <2>1, <2>2, <2>4, CutEncoded DEF Begun
    <3>2. Arrived(string) = t
      BY <2>3, <3>1, DecodeEncoded, NilAssumption DEF Arrived
    <3>3. Len(cut) = n
      <4>1. \A i \in 1 .. n : bytes[i] \in Bytes
        BY <1>2, <2>2, ElementOfSeq
      <4>2. n \in Int /\ 1 \in Int /\ (1 <= n => n - 1 + 1 = n) /\ (~ (1 <= n) => n = 0)
        BY <2>2
      <4>3. QED
        BY <2>1, <4>1, <4>2, SubSeqProperties
    <3>4. QED
      BY <1>1, <1>4, <2>1, <3>1, <3>2, <3>3
  <2>5. CASE ~ WellFormed(cut)
    <3>1. Arrived(string) = << >>
      BY <2>3, <2>5 DEF Arrived, Decode
    <3>2. IsPrefix(<< >>, string)
      BY LenProperties DEF IsPrefix
    <3>3. Len(Encode(<< >>)) = 0
      BY EmptyText
    <3>4. QED
      BY <1>1, <1>4, <3>1, <3>2, <3>3
  <2>6. QED
    BY <2>4, <2>5
<1>5. QED
  BY <1>3, <1>4

-----------------------------------------------------------------------------
(***************************************************************************)
(* The invariant and the properties.                                       *)
(***************************************************************************)

\* Messages are strings, and the error is what arrived of the last one.
IInv ==
  /\ formatted \in Seq(Characters)
  /\ error # Nil => reported \in Seq(Characters) /\ error = Arrived(reported)

\* The invariant holds at every time.
THEOREM Invariant == Spec => []IInv
<1>1. Init => IInv
  BY DEF Init, IInv
<1>2. IInv /\ [Next]_vars => IInv'
  <2>1. ASSUME IInv, NEW character \in Characters, Compose(character)
        PROVE  IInv'
    BY <2>1, AppendProperties DEF IInv, Compose
  <2>2. ASSUME IInv, ErrorEncountered
        PROVE  IInv'
    <3>1. error' = Arrived(formatted) /\ reported' = formatted /\ formatted' = << >>
      BY <2>2 DEF ErrorEncountered, errorOccurred, Arrived, Arriving
    <3>2. QED
      BY <2>2, <3>1 DEF IInv
  <2>3. ASSUME IInv, UNCHANGED vars
        PROVE  IInv'
    BY <2>3 DEF IInv, vars
  <2>4. QED
    BY <2>1, <2>2, <2>3 DEF Next
<1>3. QED
  BY <1>1, <1>2, PTL DEF Spec

\* The message of the error is the beginning of the one reported last, however
\* long its characters and the buffer are.
THEOREM ErrorCorrect == Spec => []ErrorBeginsMessage
<1>1. IInv => ErrorBeginsMessage
  BY ArrivedBegins DEF IInv, ErrorBeginsMessage
<1>2. QED
  BY <1>1, Invariant, PTL

\* A message that fits arrives whole; one that does not loses what does not fit,
\* or, cut inside a character, all of it.
THEOREM CutCorrect == Spec => []CutOnlyWhenTooLong
<1>1. ASSUME IInv, error # Nil
      PROVE  LET size == Len(Encode(reported))
             IN  \/ size < BufferSize /\ error = reported
                 \/ size >= BufferSize /\ Len(Encode(error)) \in {0, BufferSize - 1}
  <2>1. reported \in Seq(Characters) /\ error = Arrived(reported)
    BY <1>1 DEF IInv
  <2>2. Len(Encode(reported)) \in Nat
    BY <2>1, EncodeType, LenProperties
  <2>3. Len(Encode(reported)) < BufferSize \/ Len(Encode(reported)) >= BufferSize
    BY <2>2, BufferAssumption
  <2>4. QED
    BY <2>1, <2>3, ArrivedBegins
<1>2. QED
  BY <1>1, Invariant, PTL DEF CutOnlyWhenTooLong
=============================================================================
