------------------------ MODULE XMLPushParser_proofs ------------------------
(***************************************************************************)
(* Proofs about XMLPushParser for every set of parsables, attributes and   *)
(* text, and every bound.                                                  *)
(***************************************************************************)
EXTENDS XMLPushParser, SequenceTheorems, TLAPS

-----------------------------------------------------------------------------
(***************************************************************************)
(* The operators on open elements.                                         *)
(***************************************************************************)

\* Enclose keeps every element but for the nested flag of data elements.
LEMMA EncloseProperties ==
  ASSUME NEW elements \in Seq(OpenElement)
  PROVE  /\ Enclose(elements) \in Seq(OpenElement)
         /\ Len(Enclose(elements)) = Len(elements)
         /\ \A i \in 1 .. Len(elements) :
              /\ Enclose(elements)[i].attributes = elements[i].attributes
              /\ Enclose(elements)[i].asked = elements[i].asked
              /\ Enclose(elements)[i].answer = elements[i].answer
              /\ Enclose(elements)[i].child = elements[i].child
              /\ Enclose(elements)[i].text = elements[i].text
              /\ elements[i].answer = "handleAsData" => Enclose(elements)[i].nested
<1>1. \A i \in 1 .. Len(elements) : elements[i] \in OpenElement
  OBVIOUS
<1>2. \A i \in 1 .. Len(elements) : Enclose(elements)[i] \in OpenElement
  BY <1>1 DEF Enclose, OpenElement
<1>3. Enclose(elements) \in [1 .. Len(elements) -> OpenElement]
  BY <1>2 DEF Enclose
<1>4. Enclose(elements) \in Seq(OpenElement) /\ Len(Enclose(elements)) = Len(elements)
  BY <1>3
<1>5. QED
  BY <1>1, <1>4 DEF Enclose, OpenElement

\* Collect appends the piece to the text of data elements and keeps the rest.
LEMMA CollectProperties ==
  ASSUME NEW elements \in Seq(OpenElement), NEW piece \in Text
  PROVE  /\ Collect(elements, piece) \in Seq(OpenElement)
         /\ Len(Collect(elements, piece)) = Len(elements)
         /\ \A i \in 1 .. Len(elements) :
              /\ Collect(elements, piece)[i].attributes = elements[i].attributes
              /\ Collect(elements, piece)[i].asked = elements[i].asked
              /\ Collect(elements, piece)[i].answer = elements[i].answer
              /\ Collect(elements, piece)[i].child = elements[i].child
              /\ Collect(elements, piece)[i].nested = elements[i].nested
              /\ elements[i].answer = "handleAsData" =>
                   Collect(elements, piece)[i].text = Append(elements[i].text, piece)
<1>1. \A i \in 1 .. Len(elements) : elements[i] \in OpenElement
  OBVIOUS
<1>2. ASSUME NEW i \in 1 .. Len(elements)
      PROVE  Collect(elements, piece)[i] \in OpenElement
  <2>1. Append(elements[i].text, piece) \in Seq(Text)
    BY <1>1, AppendProperties DEF OpenElement
  <2>2. QED
    BY <1>1, <2>1 DEF Collect, OpenElement
<1>3. Collect(elements, piece) \in [1 .. Len(elements) -> OpenElement]
  BY <1>2 DEF Collect
<1>4. /\ Collect(elements, piece) \in Seq(OpenElement)
      /\ Len(Collect(elements, piece)) = Len(elements)
  BY <1>3
<1>5. QED
  BY <1>1, <1>4 DEF Collect, OpenElement

\* Enclosing drops the innermost element and keeps the others.
LEMMA FrontProperties ==
  ASSUME NEW S, NEW s \in Seq(S), s # << >>
  PROVE  /\ SubSeq(s, 1, Len(s) - 1) \in Seq(S)
         /\ Len(SubSeq(s, 1, Len(s) - 1)) = Len(s) - 1
         /\ Len(s) \in Nat \ {0}
         /\ \A i \in 1 .. Len(s) - 1 : SubSeq(s, 1, Len(s) - 1)[i] = s[i]
<1>1. Len(s) \in Nat \ {0}
  BY EmptySeq
<1> DEFINE n == Len(s) - 1
<1>2. n \in Nat /\ n <= Len(s) /\ \A i \in 1 .. n : s[i] \in S
  BY <1>1, ElementOfSeq
<1>3. /\ SubSeq(s, 1, n) \in Seq(S)
      /\ Len(SubSeq(s, 1, n)) = n
      /\ \A i \in 1 .. n : SubSeq(s, 1, n)[i] = s[i]
  <2> HIDE DEF n
  <2> QED
    BY <1>1, <1>2
<1>4. QED
  BY <1>1, <1>3

\* The last element of a sequence, and its position.
LEMMA LastProperties ==
  ASSUME NEW S, NEW s \in Seq(S), Len(s) >= 1
  PROVE  /\ Len(s) \in Nat
         /\ Len(s) \in 1 .. Len(s)
         /\ s[Len(s)] \in S
         /\ Len(s) = 1 \/ Len(s) \in 2 .. Len(s)
<1>1. PICK n \in Nat : n = Len(s)
  OBVIOUS
<1>2. n >= 1
  BY <1>1
<1>3. n \in 1 .. n /\ (n = 1 \/ n \in 2 .. n)
  BY <1>2
<1>4. s[n] \in S
  BY <1>1, <1>3, ElementOfSeq
<1>5. QED
  BY <1>1, <1>3, <1>4, Zenon

\* Appending one element keeps the others, and adds one level to its answer.
LEMMA AppendLevels ==
  ASSUME NEW elements \in Seq(OpenElement), NEW element \in OpenElement
  PROVE  /\ Append(elements, element) \in Seq(OpenElement)
         /\ Len(Append(elements, element)) = Len(elements) + 1
         /\ \A i \in 1 .. Len(elements) : Append(elements, element)[i] = elements[i]
         /\ Append(elements, element)[Len(elements) + 1] = element
         /\ \A answer :
              Levels(Append(elements, element), answer) =
                IF element.answer = answer
                THEN Levels(elements, answer) \cup {Len(elements) + 1}
                ELSE Levels(elements, answer)
<1>1. /\ Append(elements, element) \in Seq(OpenElement)
      /\ Len(Append(elements, element)) = Len(elements) + 1
      /\ \A i \in 1 .. Len(elements) : Append(elements, element)[i] = elements[i]
      /\ Append(elements, element)[Len(elements) + 1] = element
  BY AppendProperties
<1>2. PICK n \in Nat : n = Len(elements)
  OBVIOUS
<1>3. 1 .. n + 1 = (1 .. n) \cup {n + 1}
  OBVIOUS
<1>4. QED
  BY <1>1, <1>2, <1>3 DEF Levels

\* Dropping the innermost element takes its level from its answer.
LEMMA EnclosingLevels ==
  ASSUME NEW elements \in Seq(OpenElement), elements # << >>
  PROVE  /\ Enclosing(elements) \in Seq(OpenElement)
         /\ Len(elements) \in 1 .. Len(elements)
         /\ Len(Enclosing(elements)) = Len(elements) - 1
         /\ \A i \in 1 .. Len(elements) - 1 : Enclosing(elements)[i] = elements[i]
         /\ \A answer :
              Levels(Enclosing(elements), answer) = Levels(elements, answer) \ {Len(elements)}
<1>1. /\ Enclosing(elements) \in Seq(OpenElement)
      /\ Len(Enclosing(elements)) = Len(elements) - 1
      /\ Len(elements) \in Nat \ {0}
      /\ \A i \in 1 .. Len(elements) - 1 : Enclosing(elements)[i] = elements[i]
  BY FrontProperties DEF Enclosing
<1>2. PICK n \in Nat : n = Len(elements) /\ n >= 1
  BY <1>1
<1>3. 1 .. n - 1 = (1 .. n) \ {n} /\ n \in 1 .. n
  BY <1>2
<1>4. QED
  BY <1>1, <1>2, <1>3 DEF Levels

\* Levels looks at the answers only.
LEMMA SameLevels ==
  ASSUME NEW before, NEW after, Len(after) = Len(before),
         \A i \in 1 .. Len(before) : after[i].answer = before[i].answer,
         NEW answer
  PROVE  Levels(after, answer) = Levels(before, answer)
BY DEF Levels

\* A new element has the type of one.
LEMMA AskedType ==
  ASSUME NEW attributes \in Attributes, NEW parsable \in Parsables \cup {Nil},
         NEW answer \in Answers \cup {"skipped"}, NEW child \in Parsables \cup {Nil}
  PROVE  Asked(attributes, parsable, answer, child) \in OpenElement
BY DEF Asked, OpenElement

-----------------------------------------------------------------------------
(***************************************************************************)
(* The inductive invariant. None of its parts is inductive alone: that the *)
(* stack is not empty after a pop needs the levels on it to be positive    *)
(* above the root, the level at which ignoring ends needs the level to be  *)
(* the number of open elements, and so on.                                 *)
(***************************************************************************)
EndedMeansClosed == documentEnded => open = << >>

IInv ==
  /\ TypeOK
  /\ StackHoldsOpenChildren
  /\ IgnoringIsOneSubtree
  /\ BufferBelongsToOneElement
  /\ AskedIsBelowOnStack
  /\ TrapsOnlyAfterNestedData
  /\ EndedMeansClosed

LEMMA InitIInv ==
  ASSUME Init
  PROVE  IInv
<1> USE RootAssumption, NilAssumption DEF Init
<1>1. stack \in Seq(StackItem) /\ Len(stack) = 1
  BY DEF SAXParsableStackItem, StackItem
<1>2. open \in Seq(OpenElement) /\ Len(open) = 0
  OBVIOUS
<1>3. TypeOK
  BY <1>1, <1>2 DEF TypeOK
<1>4. StackHoldsOpenChildren
  BY <1>1, <1>2 DEF StackHoldsOpenChildren, Levels
<1>5. IgnoringIsOneSubtree /\ BufferBelongsToOneElement
  BY <1>2 DEF IgnoringIsOneSubtree, BufferBelongsToOneElement, Levels
<1>6. AskedIsBelowOnStack /\ TrapsOnlyAfterNestedData /\ EndedMeansClosed
  BY <1>2 DEF AskedIsBelowOnStack, TrapsOnlyAfterNestedData, EndedMeansClosed
<1>7. QED
  BY <1>3, <1>4, <1>5, <1>6 DEF IInv

\* `stack.last!` is there, it is the child of the innermost open element that
\* has one, and its level is that of the innermost open element exactly when
\* that element has a child.
LEMMA TopProperties ==
  ASSUME TypeOK, StackHoldsOpenChildren
  PROVE  /\ Len(stack) \in Nat
         /\ Len(stack) \in 1 .. Len(stack)
         /\ Len(stack) = 1 \/ Len(stack) \in 2 .. Len(stack)
         /\ Len(open) \in Nat
         /\ level = Len(open)
         /\ \A k \in 1 .. Len(stack) : stack[k] \in StackItem
         /\ Top \in StackItem
         /\ current \in Parsables
         /\ Top.level \in Nat
         /\ Top.level <= level
         /\ \A i \in Levels(open, "handleWithChild") : i <= Top.level
         /\ open # << >> =>
              (Top.level = level <=> Innermost(open).answer = "handleWithChild")
         /\ Top.level = 0 <=> Len(stack) = 1
         /\ Top.level # 0 => /\ Top.level \in Levels(open, "handleWithChild")
                             /\ current = open[Top.level].child
<1>1. stack \in Seq(StackItem) /\ Len(stack) >= 1 /\ Len(open) \in Nat /\ level = Len(open)
  BY DEF TypeOK, StackHoldsOpenChildren
<1>2. /\ Len(stack) \in Nat
      /\ Len(stack) \in 1 .. Len(stack)
      /\ Top \in StackItem
      /\ Len(stack) = 1 \/ Len(stack) \in 2 .. Len(stack)
  BY <1>1, LastProperties DEF Top
<1>3. \A k \in 1 .. Len(stack) : stack[k] \in StackItem
  BY <1>1, ElementOfSeq
<1>4. current \in Parsables /\ Top.level \in Nat
  BY <1>2 DEF current, StackItem
<1>5. \A k \in 1 .. Len(stack) : k = Len(stack) \/ stack[k].level < Top.level
  BY <1>1, <1>2 DEF StackHoldsOpenChildren, Top
<1>6. /\ Top.level <= level
      /\ Top.level = 0 <=> Len(stack) = 1
      /\ Top.level # 0 => /\ Top.level \in Levels(open, "handleWithChild")
                          /\ current = open[Top.level].child
  <2>1. CASE Len(stack) = 1
    BY <2>1, <1>1 DEF StackHoldsOpenChildren, Top, SAXParsableStackItem
  <2>2. CASE Len(stack) \in 2 .. Len(stack)
    <3>1. /\ Top.level \in Levels(open, "handleWithChild")
          /\ current = open[Top.level].child
      BY <2>2 DEF StackHoldsOpenChildren, Top, current
    <3>2. Top.level \in 1 .. level
      BY <3>1, <1>1 DEF Levels
    <3>3. 1 .. 1 = {1} /\ 2 .. 1 = {}
      OBVIOUS
    <3>4. Len(stack) # 1
      BY <2>2, <3>3, Zenon
    <3>5. Top.level <= level /\ Top.level # 0
      BY <3>2, <1>1
    <3>6. QED
      BY <3>1, <3>4, <3>5
  <2>3. QED
    BY <2>1, <2>2, <1>2
<1>7. \A i \in Levels(open, "handleWithChild") : i <= Top.level
  <2>1. TAKE i \in Levels(open, "handleWithChild")
  <2>2. PICK k \in 2 .. Len(stack) : stack[k].level = i
    BY DEF StackHoldsOpenChildren
  <2>3. k \in 1 .. Len(stack)
    BY <1>2
  <2>4. i = Top.level \/ i < Top.level
    BY <2>2, <2>3, <1>5 DEF Top
  <2>5. i \in Nat
    BY <1>1 DEF Levels
  <2>6. QED
    BY <2>4, <2>5, <1>4
<1>8. ASSUME open # << >>
      PROVE  Top.level = level <=> Innermost(open).answer = "handleWithChild"
  <2>1. Len(open) >= 1 /\ open \in Seq(OpenElement)
    BY <1>8, <1>1, EmptySeq DEF TypeOK
  <2>2. level \in 1 .. Len(open)
    BY <1>1, <2>1
  <2>3. Innermost(open).answer = "handleWithChild" <=>
          level \in Levels(open, "handleWithChild")
    BY <2>2, <1>1 DEF Innermost, Levels
  <2>4. QED
    BY <2>2, <2>3, <1>1, <1>4, <1>6, <1>7
<1>9. QED
  BY <1>1, <1>2, <1>3, <1>4, <1>6, <1>7, <1>8

\* Facts about the state that the steps below start from: the bounds of every
\* level, and what it means to be ignoring at the level of the next start tag
\* and at that of the next end tag.
LEMMA IgnoringFacts ==
  ASSUME IInv
  PROVE  /\ Len(open) \in Nat
         /\ level = Len(open)
         /\ \A i \in 1 .. Len(open) : open[i] \in OpenElement
         /\ ignoreElementsUntilLevel # Nil =>
              /\ ignoreElementsUntilLevel \in 1 .. Len(open)
              /\ IgnoringElements(level)
              /\ IgnoringElements(level + 1)
         /\ ignoreElementsUntilLevel = Nil =>
              /\ ~IgnoringElements(level)
              /\ ~IgnoringElements(level + 1)
              /\ Levels(open, "ignore") = {}
              /\ \A i \in 1 .. Len(open) : open[i].answer # "skipped"
         /\ Skipping(open) <=> ignoreElementsUntilLevel # Nil
<1>1. /\ Len(open) \in Nat
      /\ level = Len(open)
      /\ \A i \in 1 .. Len(open) : open[i] \in OpenElement
  BY ElementOfSeq DEF IInv, TypeOK, StackHoldsOpenChildren
<1>2. \A i \in Levels(open, "ignore") : i \in 1 .. Len(open) /\ i \in Nat
  BY <1>1 DEF Levels
<1>3. ASSUME ignoreElementsUntilLevel # Nil
      PROVE  /\ ignoreElementsUntilLevel \in 1 .. Len(open)
             /\ IgnoringElements(level)
             /\ IgnoringElements(level + 1)
             /\ Skipping(open)
  <2>1. ignoreElementsUntilLevel \in Levels(open, "ignore")
    BY <1>3 DEF IInv, IgnoringIsOneSubtree
  <2>2. QED
    BY <1>1, <1>2, <1>3, <2>1 DEF IgnoringElements, Skipping
<1>4. ASSUME ignoreElementsUntilLevel = Nil
      PROVE  /\ ~IgnoringElements(level)
             /\ ~IgnoringElements(level + 1)
             /\ Levels(open, "ignore") = {}
             /\ \A i \in 1 .. Len(open) : open[i].answer # "skipped"
             /\ ~Skipping(open)
  <2>1. Levels(open, "ignore") = {}
    BY <1>2, <1>4, NilAssumption DEF IInv, IgnoringIsOneSubtree
  <2>2. QED
    BY <1>4, <2>1 DEF IgnoringElements, Skipping, IInv, IgnoringIsOneSubtree
<1>5. QED
  BY <1>1, <1>3, <1>4

-----------------------------------------------------------------------------
(***************************************************************************)
(* Every step preserves the invariant.                                     *)
(***************************************************************************)

\* Text goes to the buffer and to the history of every data element alike.
LEMMA CharactersFoundIInv ==
  ASSUME IInv, NEW piece \in Text, charactersFound(piece)
  PROVE  IInv'
<1>1. /\ open \in Seq(OpenElement)
      /\ open' = Collect(open, piece)
      /\ UNCHANGED << level, stack, dataAttributes, ignoreElementsUntilLevel,
                      trapped, documentEnded >>
      /\ buffer' = IF buffer = Nil THEN Nil ELSE Append(buffer, piece)
      /\ ~trapped
      /\ open # << >>
  BY DEF IInv, TypeOK, charactersFound, AppendToBuffer
<1>2. /\ open' \in Seq(OpenElement)
      /\ Len(open') = Len(open)
      /\ \A i \in 1 .. Len(open) :
           /\ open'[i].attributes = open[i].attributes
           /\ open'[i].asked = open[i].asked
           /\ open'[i].answer = open[i].answer
           /\ open'[i].child = open[i].child
           /\ open'[i].nested = open[i].nested
           /\ open[i].answer = "handleAsData" => open'[i].text = Append(open[i].text, piece)
  BY <1>1, CollectProperties
<1>3. \A answer : Levels(open', answer) = Levels(open, answer)
  BY <1>2, SameLevels
<1>4. \A answer : \A i \in Levels(open, answer) :
        i \in 1 .. Len(open) /\ open[i].answer = answer
  BY DEF Levels
<1>5. TypeOK'
  <2>1. buffer # Nil => Append(buffer, piece) \in Seq(Text)
    BY AppendProperties DEF IInv, TypeOK
  <2>2. QED
    BY <1>1, <1>2, <2>1 DEF IInv, TypeOK
<1>6. StackHoldsOpenChildren'
  BY <1>1, <1>2, <1>3, <1>4 DEF IInv, StackHoldsOpenChildren
<1>7. IgnoringIsOneSubtree'
  BY <1>1, <1>2, <1>3 DEF IInv, IgnoringIsOneSubtree
<1>8. BufferBelongsToOneElement'
  <2>1. \A i \in Levels(open, "handleAsData") : ~open[i].nested => buffer # Nil
    <3>1. \A i \in 1 .. Len(open) : open[i].text \in Seq(Text)
      BY IgnoringFacts DEF OpenElement
    <3>2. QED
      BY <3>1, <1>4, NilAssumption DEF IInv, BufferBelongsToOneElement
  <2>2. buffer # Nil => buffer' = Append(buffer, piece) /\ buffer' # Nil
    <3>1. buffer # Nil => Append(buffer, piece) \in Seq(Text)
      BY AppendProperties DEF IInv, TypeOK
    <3>2. QED
      BY <3>1, <1>1, NilAssumption
  <2>3. buffer' = Nil <=> dataAttributes' = Nil
    BY <1>1, <2>2 DEF IInv, BufferBelongsToOneElement
  <2>4. \A i, j \in Levels(open', "handleAsData") : i < j => open'[i].nested
    BY <1>2, <1>3, <1>4 DEF IInv, BufferBelongsToOneElement
  <2>5. ASSUME NEW i \in Levels(open', "handleAsData"), ~open'[i].nested
        PROVE  buffer' = open'[i].text /\ dataAttributes' = open'[i].attributes
    <3>1. i \in Levels(open, "handleAsData") /\ ~open[i].nested
      BY <1>2, <1>3, <1>4, <2>5
    <3>2. buffer = open[i].text /\ dataAttributes = open[i].attributes
      BY <3>1 DEF IInv, BufferBelongsToOneElement
    <3>3. QED
      BY <1>1, <1>2, <1>4, <2>1, <2>2, <3>1, <3>2
  <2>6. ASSUME buffer' # Nil
        PROVE  \E i \in Levels(open', "handleAsData") : ~open'[i].nested
    <3>1. PICK i \in Levels(open, "handleAsData") : ~open[i].nested
      BY <1>1, <2>6 DEF IInv, BufferBelongsToOneElement
    <3>2. QED
      BY <1>2, <1>3, <1>4, <3>1
  <2>7. QED
    BY <2>3, <2>4, <2>5, <2>6 DEF BufferBelongsToOneElement
<1>9. AskedIsBelowOnStack'
  BY <1>1, <1>2 DEF IInv, AskedIsBelowOnStack
<1>10. TrapsOnlyAfterNestedData'
  BY <1>1 DEF TrapsOnlyAfterNestedData
<1>11. EndedMeansClosed'
  BY <1>1 DEF IInv, EndedMeansClosed
<1>12. QED
  BY <1>5, <1>6, <1>7, <1>8, <1>9, <1>10, <1>11 DEF IInv

\* What every way out of endElementWithPrefix has in common: the deferred block.
LEMMA DeferredFacts ==
  ASSUME IInv, ~trapped, open # << >>, Deferred
  PROVE  /\ open' \in Seq(OpenElement)
         /\ Len(open) \in Nat
         /\ Len(open) \in 1 .. Len(open)
         /\ Len(open') = Len(open) - 1
         /\ \A i \in 1 .. Len(open') : i \in 1 .. Len(open) /\ i < Len(open) /\ open'[i] = open[i]
         /\ \A answer : Levels(open', answer) = Levels(open, answer) \ {Len(open)}
         /\ level' = Len(open')
         /\ level' \in Nat
         /\ ignoreElementsUntilLevel' \in Nat \cup {Nil}
         /\ documentEnded' \in BOOLEAN
         /\ trapped' = FALSE
         /\ TrapsOnlyAfterNestedData'
         /\ EndedMeansClosed'
         /\ IgnoringIsOneSubtree'
<1>1. open \in Seq(OpenElement) /\ open' = Enclosing(open) /\ trapped' = FALSE
  BY DEF IInv, TypeOK, Deferred
<1>2. /\ open' \in Seq(OpenElement)
      /\ Len(open) \in 1 .. Len(open)
      /\ Len(open') = Len(open) - 1
      /\ \A i \in 1 .. Len(open) - 1 : open'[i] = open[i]
      /\ \A answer : Levels(open', answer) = Levels(open, answer) \ {Len(open)}
  BY <1>1, EnclosingLevels
<1>3. Len(open) \in Nat /\ level = Len(open)
  BY IgnoringFacts
<1>4. /\ level' = Len(open')
      /\ level' \in Nat
      /\ \A i \in 1 .. Len(open') : i \in 1 .. Len(open) /\ i < Len(open)
  BY <1>2, <1>3 DEF Deferred
<1>5. ignoreElementsUntilLevel' \in Nat \cup {Nil} /\ documentEnded' \in BOOLEAN
  BY DEF Deferred, StopIgnoring, IInv, TypeOK
<1>6. EndedMeansClosed'
  <2>1. documentEnded' => Len(open) = 1
    BY Zenon DEF Deferred
  <2>2. Len(open) = 1 => Len(open') = 0
    BY <1>2
  <2>3. Len(open') = 0 => open' = << >>
    BY <1>2, EmptySeq
  <2>4. QED
    BY <2>1, <2>2, <2>3 DEF EndedMeansClosed
<1>7. IgnoringIsOneSubtree'
  <2>1. CASE ignoreElementsUntilLevel = Len(open)
    <3>1. ignoreElementsUntilLevel' = Nil
      BY <2>1, <1>3 DEF Deferred, StopIgnoring
    <3>2. ignoreElementsUntilLevel # Nil
      BY <2>1, <1>3, NilAssumption
    <3>3. Levels(open', "ignore") = {}
      BY <2>1, <1>2 DEF IInv, IgnoringIsOneSubtree
    <3>4. \A i \in 1 .. Len(open') : open'[i].answer # "skipped"
      BY <2>1, <1>2, <1>3, <1>4, <3>2 DEF IInv, IgnoringIsOneSubtree
    <3>5. QED
      BY <3>1, <3>3, <3>4 DEF IgnoringIsOneSubtree
  <2>2. CASE ignoreElementsUntilLevel # Len(open)
    <3>1. ignoreElementsUntilLevel' = ignoreElementsUntilLevel
      BY <2>2, <1>3 DEF Deferred, StopIgnoring
    <3>2. QED
      BY <2>2, <3>1, <1>2, <1>4 DEF IInv, IgnoringIsOneSubtree
  <2>3. QED
    BY <2>1, <2>2
<1>8. QED
  BY <1>1, <1>2, <1>3, <1>4, <1>5, <1>6, <1>7 DEF TrapsOnlyAfterNestedData

\* The innermost open element, by what endElementWithPrefix finds: ignoring or
\* not, and its level on the stack or not.
LEMMA InnermostFacts ==
  ASSUME IInv, open # << >>
  PROVE  /\ Len(open) \in 1 .. Len(open)
         /\ Innermost(open) = open[Len(open)]
         /\ Innermost(open) \in OpenElement
         /\ IgnoringElements(level) <=> Innermost(open).answer \in {"ignore", "skipped"}
         /\ ~IgnoringElements(level) =>
              (Top.level = level <=> Innermost(open).answer = "handleWithChild")
         /\ ~IgnoringElements(level) =>
              (Top.level # level <=> Innermost(open).answer = "handleAsData")
<1>1. /\ open \in Seq(OpenElement)
      /\ Len(open) \in Nat
      /\ level = Len(open)
  BY IgnoringFacts DEF IInv, TypeOK
<1>2. Len(open) \in 1 .. Len(open)
  BY <1>1, EnclosingLevels
<1>3. Innermost(open) = open[Len(open)] /\ Innermost(open) \in OpenElement
  BY <1>1, <1>2, ElementOfSeq DEF Innermost
<1>4. Innermost(open).answer \in {"ignore", "handleAsData", "handleWithChild", "skipped"}
  BY <1>3 DEF OpenElement, Answers
<1>5. Innermost(open).answer = "ignore" <=> Len(open) \in Levels(open, "ignore")
  BY <1>2, <1>3 DEF Levels
<1>6. IgnoringElements(level) <=> Innermost(open).answer \in {"ignore", "skipped"}
  <2>1. CASE ignoreElementsUntilLevel = Nil
    BY <2>1, <1>2, <1>3, <1>5, IgnoringFacts
  <2>2. CASE ignoreElementsUntilLevel # Nil
    <3>1. ignoreElementsUntilLevel \in 1 .. Len(open) /\ IgnoringElements(level)
      BY <2>2, IgnoringFacts
    <3>2. CASE ignoreElementsUntilLevel = Len(open)
      BY <2>2, <3>1, <3>2, <1>5 DEF IInv, IgnoringIsOneSubtree
    <3>3. CASE Len(open) > ignoreElementsUntilLevel
      BY <2>2, <3>1, <3>3, <1>2, <1>3 DEF IInv, IgnoringIsOneSubtree
    <3>4. QED
      BY <1>1, <3>1, <3>2, <3>3
  <2>3. QED
    BY <2>1, <2>2
<1>7. Top.level = level <=> Innermost(open).answer = "handleWithChild"
  BY TopProperties DEF IInv
<1>8. QED
  BY <1>2, <1>3, <1>4, <1>6, <1>7

\* The stack and the buffer are as they were, and belong to elements that stay.
LEMMA EndIgnoredIInv ==
  ASSUME IInv, ~trapped, open # << >>, EndIgnored
  PROVE  IInv'
<1>1. /\ IgnoringElements(level)
      /\ UNCHANGED << stack, buffer, dataAttributes >>
      /\ Deferred
  BY DEF EndIgnored
<1>2. /\ open' \in Seq(OpenElement)
      /\ \A i \in 1 .. Len(open') : i \in 1 .. Len(open) /\ i < Len(open) /\ open'[i] = open[i]
      /\ \A answer : Levels(open', answer) = Levels(open, answer) \ {Len(open)}
      /\ Len(open) \in Nat
      /\ Len(open') = Len(open) - 1
      /\ level' = Len(open')
  BY <1>1, DeferredFacts
<1>3. /\ Len(open) \notin Levels(open, "handleWithChild")
      /\ Len(open) \notin Levels(open, "handleAsData")
  BY <1>1, InnermostFacts DEF Levels
<1>4. /\ Levels(open', "handleWithChild") = Levels(open, "handleWithChild")
      /\ Levels(open', "handleAsData") = Levels(open, "handleAsData")
  BY <1>2, <1>3
<1>5. \A answer : \A i \in Levels(open', answer) : i \in 1 .. Len(open') /\ open'[i] = open[i]
  BY <1>2 DEF Levels
<1>6. TypeOK'
  BY <1>1, DeferredFacts DEF IInv, TypeOK
<1>7. StackHoldsOpenChildren'
  BY <1>1, <1>2, <1>4, <1>5 DEF IInv, StackHoldsOpenChildren
<1>8. BufferBelongsToOneElement'
  BY <1>1, <1>4, <1>5 DEF IInv, BufferBelongsToOneElement
<1>9. AskedIsBelowOnStack'
  BY <1>1, <1>2 DEF IInv, AskedIsBelowOnStack
<1>10. QED
  BY <1>1, <1>6, <1>7, <1>8, <1>9, DeferredFacts DEF IInv

\* The parsable popped is the child of the element that ends.
LEMMA EndChildIInv ==
  ASSUME IInv, ~trapped, open # << >>, EndChild
  PROVE  IInv'
<1> DEFINE m == Len(stack)
<1>1. /\ ~IgnoringElements(level)
      /\ Top.level = level
      /\ stack' = SubSeq(stack, 1, m - 1)
      /\ UNCHANGED << buffer, dataAttributes >>
      /\ Deferred
  BY DEF EndChild, PopAndCall
<1>2. /\ open' \in Seq(OpenElement)
      /\ \A i \in 1 .. Len(open') : i \in 1 .. Len(open) /\ i < Len(open) /\ open'[i] = open[i]
      /\ \A answer : Levels(open', answer) = Levels(open, answer) \ {Len(open)}
      /\ Len(open) \in Nat
      /\ Len(open) \in 1 .. Len(open)
      /\ Len(open') = Len(open) - 1
      /\ level' = Len(open')
      /\ level = Len(open)
  BY <1>1, DeferredFacts, IgnoringFacts
<1>3. \A answer : \A i \in Levels(open', answer) : i \in 1 .. Len(open') /\ open'[i] = open[i]
  BY <1>2 DEF Levels
<1>4. Levels(open', "handleAsData") = Levels(open, "handleAsData")
  <2>1. Len(open) \notin Levels(open, "handleAsData")
    BY <1>1, InnermostFacts DEF Levels
  <2>2. QED
    BY <1>2, <2>1
<1>5. /\ stack \in Seq(StackItem)
      /\ m \in 2 .. m
      /\ m \in Nat
      /\ Top = stack[m]
  <2>1. Top.level # 0
    BY <1>1, <1>2
  <2>2. QED
    BY <2>1, TopProperties DEF IInv, TypeOK, Top
<1>6. /\ stack' \in Seq(StackItem)
      /\ Len(stack') = m - 1
      /\ \A k \in 1 .. m - 1 : stack'[k] = stack[k]
  <2>1. stack # << >>
    BY <1>5
  <2>2. QED
    BY <1>1, <1>5, <2>1, FrontProperties
<1>7. /\ Len(stack') >= 1
      /\ \A k \in 1 .. Len(stack') : k \in 1 .. m /\ k < m /\ stack'[k] = stack[k]
      /\ \A k \in 2 .. Len(stack') : k \in 2 .. m /\ k < m /\ stack'[k] = stack[k]
      /\ \A k \in 2 .. m : k = m \/ k \in 2 .. Len(stack')
      /\ 1 \in 1 .. Len(stack')
      /\ \A k \in 1 .. m : k = m \/ k < m
  <2> HIDE DEF m
  <2> QED
    BY <1>5, <1>6
<1>8. \A k \in 1 .. m : k < m => stack[k].level < Len(open)
  BY <1>1, <1>2, <1>5 DEF IInv, StackHoldsOpenChildren
<1>9. TypeOK'
  BY <1>1, <1>6, DeferredFacts DEF IInv, TypeOK
<1>10. StackHoldsOpenChildren'
  <2>1. ASSUME NEW k \in 2 .. Len(stack')
        PROVE  /\ stack'[k].level \in Levels(open', "handleWithChild")
               /\ stack'[k].parseItem = open'[stack'[k].level].child
    <3>1. /\ stack[k].level \in Levels(open, "handleWithChild")
          /\ stack[k].parseItem = open[stack[k].level].child
          /\ stack'[k] = stack[k]
      BY <1>7 DEF IInv, StackHoldsOpenChildren
    <3>2. stack[k].level # Len(open)
      BY <1>7, <1>8, <3>1, <1>2 DEF Levels
    <3>3. QED
      BY <1>2, <1>3, <3>1, <3>2
  <2>2. \A j, k \in 1 .. Len(stack') : j < k => stack'[j].level < stack'[k].level
    BY <1>7 DEF IInv, StackHoldsOpenChildren
  <2>3. ASSUME NEW i \in Levels(open', "handleWithChild")
        PROVE  \E k \in 2 .. Len(stack') : stack'[k].level = i
    <3>1. i \in Levels(open, "handleWithChild") /\ i # Len(open)
      BY <1>2
    <3>2. PICK k \in 2 .. m : stack[k].level = i
      BY <3>1 DEF IInv, StackHoldsOpenChildren
    <3>3. k # m
      BY <1>1, <1>2, <1>5, <3>1, <3>2
    <3>4. QED
      BY <1>7, <3>2, <3>3
  <2>4. stack'[1] = SAXParsableStackItem(Root, 0)
    BY <1>7 DEF IInv, StackHoldsOpenChildren
  <2>5. QED
    BY <1>2, <1>7, <2>1, <2>2, <2>3, <2>4 DEF StackHoldsOpenChildren
<1>11. BufferBelongsToOneElement'
  BY <1>1, <1>3, <1>4 DEF IInv, BufferBelongsToOneElement
<1>12. AskedIsBelowOnStack'
  <2> SUFFICES ASSUME NEW i \in 1 .. Len(open'), NEW k \in 1 .. Len(stack'),
                      open'[i].answer # "skipped",
                      stack'[k].level < i,
                      k < Len(stack') => stack'[k + 1].level >= i
               PROVE  open'[i].asked = stack'[k].parseItem
    BY DEF AskedIsBelowOnStack
  <2>1. /\ i \in 1 .. Len(open) /\ i < Len(open) /\ open'[i] = open[i]
        /\ k \in 1 .. m /\ k < m /\ stack'[k] = stack[k]
    BY <1>2, <1>7
  <2>2. stack[k + 1].level >= i
    <3>1. CASE k < Len(stack')
      BY <3>1, <1>5, <1>6
    <3>2. CASE k = Len(stack')
      <4>1. k + 1 = m
        BY <3>2, <1>5, <1>6
      <4>2. QED
        BY <4>1, <2>1, <1>1, <1>2, <1>5
    <3>3. QED
      BY <3>1, <3>2, <1>5, <1>6
  <2>3. QED
    BY <2>1, <2>2 DEF IInv, AskedIsBelowOnStack
<1>13. QED
  BY <1>1, <1>9, <1>10, <1>11, <1>12, DeferredFacts DEF IInv

\* The innermost open element, when it is handled as data: its text is in the
\* buffer unless another data element began inside it.
LEMMA InnermostData ==
  ASSUME IInv, open # << >>, ~IgnoringElements(level), Top.level # level
  PROVE  /\ Innermost(open).answer = "handleAsData"
         /\ Len(open) \in Levels(open, "handleAsData")
         /\ \A i \in Levels(open, "handleAsData") : i # Len(open) => open[i].nested
         /\ ~Innermost(open).nested <=> buffer # Nil
         /\ buffer # Nil => /\ dataAttributes # Nil
                            /\ buffer = Innermost(open).text
                            /\ dataAttributes = Innermost(open).attributes
<1>1. /\ Innermost(open).answer = "handleAsData"
      /\ Innermost(open) = open[Len(open)]
      /\ Innermost(open).text \in Seq(Text)
      /\ Len(open) \in 1 .. Len(open)
  BY InnermostFacts DEF OpenElement
<1>2. Len(open) \in Levels(open, "handleAsData")
  BY <1>1 DEF Levels
<1>3. ASSUME NEW i \in Levels(open, "handleAsData"), i # Len(open)
      PROVE  open[i].nested
  <2>1. i < Len(open)
    BY <1>3, IgnoringFacts DEF Levels
  <2>2. QED
    BY <1>2, <2>1 DEF IInv, BufferBelongsToOneElement
<1>4. ~Innermost(open).nested => /\ buffer # Nil
                                /\ buffer = Innermost(open).text
                                /\ dataAttributes = Innermost(open).attributes
  BY <1>1, <1>2, NilAssumption DEF IInv, BufferBelongsToOneElement
<1>5. buffer # Nil => ~Innermost(open).nested /\ dataAttributes # Nil
  BY <1>1, <1>3 DEF IInv, BufferBelongsToOneElement
<1>6. QED
  BY <1>1, <1>2, <1>3, <1>4, <1>5

\* The buffer is given up with the one element it belonged to.
LEMMA EndDataIInv ==
  ASSUME IInv, ~trapped, open # << >>, EndData
  PROVE  IInv'
<1>1. /\ ~IgnoringElements(level)
      /\ Top.level # level
      /\ UNCHANGED stack
      /\ buffer' = Nil
      /\ dataAttributes' = Nil
      /\ Deferred
  BY DEF EndData, ClearAfterUse
<1>2. /\ open' \in Seq(OpenElement)
      /\ \A i \in 1 .. Len(open') : i \in 1 .. Len(open) /\ i < Len(open) /\ open'[i] = open[i]
      /\ \A answer : Levels(open', answer) = Levels(open, answer) \ {Len(open)}
      /\ Len(open) \in Nat
      /\ Len(open') = Len(open) - 1
      /\ level' = Len(open')
  BY <1>1, DeferredFacts
<1>3. Levels(open', "handleWithChild") = Levels(open, "handleWithChild")
  <2>1. Len(open) \notin Levels(open, "handleWithChild")
    BY <1>1, InnermostFacts DEF Levels
  <2>2. QED
    BY <1>2, <2>1
<1>4. \A answer : \A i \in Levels(open', answer) : i \in 1 .. Len(open') /\ open'[i] = open[i]
  BY <1>2 DEF Levels
<1>5. TypeOK'
  BY <1>1, DeferredFacts DEF IInv, TypeOK
<1>6. StackHoldsOpenChildren'
  BY <1>1, <1>2, <1>3, <1>4 DEF IInv, StackHoldsOpenChildren
<1>7. BufferBelongsToOneElement'
  <2>1. \A i \in Levels(open', "handleAsData") : open'[i].nested
    BY <1>1, <1>2, <1>4, InnermostData
  <2>2. QED
    BY <1>1, <2>1 DEF BufferBelongsToOneElement
<1>8. AskedIsBelowOnStack'
  BY <1>1, <1>2 DEF IInv, AskedIsBelowOnStack
<1>9. QED
  BY <1>1, <1>5, <1>6, <1>7, <1>8, DeferredFacts DEF IInv

\* The trap leaves everything as it was.
LEMMA EndDataTrapsIInv ==
  ASSUME IInv, ~trapped, open # << >>, EndDataTraps
  PROVE  IInv'
<1>1. /\ ~IgnoringElements(level)
      /\ Top.level # level
      /\ buffer = Nil \/ dataAttributes = Nil
      /\ trapped' = TRUE
      /\ UNCHANGED << parserVars, open, documentEnded >>
  BY DEF EndDataTraps
<1>2. Innermost(open).answer = "handleAsData" /\ Innermost(open).nested
  BY <1>1, InnermostData, Zenon
<1>3. TrapsOnlyAfterNestedData'
  BY <1>1, <1>2 DEF TrapsOnlyAfterNestedData
<1>4. TypeOK' /\ StackHoldsOpenChildren' /\ IgnoringIsOneSubtree'
  BY <1>1 DEF IInv, TypeOK, StackHoldsOpenChildren, IgnoringIsOneSubtree, parserVars
<1>5. BufferBelongsToOneElement' /\ AskedIsBelowOnStack' /\ EndedMeansClosed'
  BY <1>1 DEF IInv, BufferBelongsToOneElement, AskedIsBelowOnStack, EndedMeansClosed, parserVars
<1>6. QED
  BY <1>3, <1>4, <1>5 DEF IInv

\* What every answer to a start tag has in common: the open elements stay, but
\* for the nested flag of data elements, and `element` is opened inside them.
LEMMA StartFacts ==
  ASSUME IInv, ~trapped, ~documentEnded, UNCHANGED << trapped, documentEnded >>,
         level' = level + 1,
         NEW before \in {open, Enclose(open)}, NEW element \in OpenElement,
         open' = Append(before, element)
  PROVE  /\ open' \in Seq(OpenElement)
         /\ Len(open) \in Nat
         /\ level = Len(open)
         /\ level' = Len(open')
         /\ level' \in Nat
         /\ Len(open') = Len(open) + 1
         /\ open'[Len(open) + 1] = element
         /\ \A i \in 1 .. Len(open') : i \in 1 .. Len(open) \/ i = Len(open) + 1
         /\ \A i \in 1 .. Len(open) :
              /\ i \in 1 .. Len(open')
              /\ i < Len(open) + 1
              /\ open'[i].asked = open[i].asked
              /\ open'[i].answer = open[i].answer
              /\ open'[i].child = open[i].child
              /\ before = open => open'[i] = open[i]
              /\ before = Enclose(open) /\ open[i].answer = "handleAsData" => open'[i].nested
         /\ \A answer :
              Levels(open', answer) = IF element.answer = answer
                                      THEN Levels(open, answer) \cup {Len(open) + 1}
                                      ELSE Levels(open, answer)
         /\ TrapsOnlyAfterNestedData'
         /\ EndedMeansClosed'
<1>1. open \in Seq(OpenElement) /\ Len(open) \in Nat /\ level = Len(open)
  BY IgnoringFacts DEF IInv, TypeOK
<1>2. /\ before \in Seq(OpenElement)
      /\ Len(before) = Len(open)
      /\ \A i \in 1 .. Len(open) :
           /\ before[i].asked = open[i].asked
           /\ before[i].answer = open[i].answer
           /\ before[i].child = open[i].child
           /\ before = Enclose(open) /\ open[i].answer = "handleAsData" => before[i].nested
  <2>1. CASE before = Enclose(open)
    BY <2>1, <1>1, EncloseProperties
  <2>2. CASE before = open /\ before # Enclose(open)
    BY <2>2, <1>1
  <2>3. QED
    BY <2>1, <2>2
<1>3. \A answer : Levels(before, answer) = Levels(open, answer)
  BY <1>2, SameLevels
<1>4. /\ open' \in Seq(OpenElement)
      /\ Len(open') = Len(open) + 1
      /\ \A i \in 1 .. Len(open) : open'[i] = before[i]
      /\ open'[Len(open) + 1] = element
      /\ \A answer : Levels(open', answer) = IF element.answer = answer
                                             THEN Levels(open, answer) \cup {Len(open) + 1}
                                             ELSE Levels(open, answer)
  BY <1>2, <1>3, AppendLevels
<1>5. /\ level' = Len(open')
      /\ level' \in Nat
      /\ \A i \in 1 .. Len(open') : i \in 1 .. Len(open) \/ i = Len(open) + 1
      /\ \A i \in 1 .. Len(open) : i \in 1 .. Len(open') /\ i < Len(open) + 1
  BY <1>1, <1>4
<1>6. TrapsOnlyAfterNestedData' /\ EndedMeansClosed'
  BY DEF TrapsOnlyAfterNestedData, EndedMeansClosed
<1>7. QED
  BY <1>1, <1>2, <1>4, <1>5, <1>6

\* An element that leaves the stack alone keeps the stack in step with the
\* open elements, if the parsable asked about it, if any, was the current one.
LEMMA StackUnmoved ==
  ASSUME IInv, ~trapped, ~documentEnded, UNCHANGED << trapped, documentEnded >>,
         level' = level + 1,
         NEW before \in {open, Enclose(open)}, NEW element \in OpenElement,
         open' = Append(before, element),
         element.answer # "handleWithChild",
         element.answer # "skipped" => element.asked = current,
         UNCHANGED stack
  PROVE  StackHoldsOpenChildren' /\ AskedIsBelowOnStack'
<1>1. /\ Len(open) \in Nat
      /\ level = Len(open)
      /\ level' = Len(open')
      /\ open'[Len(open) + 1] = element
      /\ Levels(open', "handleWithChild") = Levels(open, "handleWithChild")
      /\ \A i \in 1 .. Len(open') : i \in 1 .. Len(open) \/ i = Len(open) + 1
      /\ \A i \in 1 .. Len(open) : /\ open'[i].asked = open[i].asked
                                  /\ open'[i].answer = open[i].answer
                                  /\ open'[i].child = open[i].child
  BY StartFacts
<1>2. \A i \in Levels(open, "handleWithChild") : i \in 1 .. Len(open)
  BY DEF Levels
<1>3. StackHoldsOpenChildren'
  BY <1>1, <1>2 DEF IInv, StackHoldsOpenChildren
<1>4. AskedIsBelowOnStack'
  <2> SUFFICES ASSUME NEW i \in 1 .. Len(open'), NEW k \in 1 .. Len(stack),
                      open'[i].answer # "skipped",
                      stack[k].level < i,
                      k < Len(stack) => stack[k + 1].level >= i
               PROVE  open'[i].asked = stack[k].parseItem
    BY DEF AskedIsBelowOnStack
  <2>1. CASE i \in 1 .. Len(open)
    BY <2>1, <1>1 DEF IInv, AskedIsBelowOnStack
  <2>2. CASE i = Len(open) + 1
    <3>1. Len(stack) \in Nat /\ Top = stack[Len(stack)] /\ Top.level \in Nat /\ Top.level <= level
      BY TopProperties DEF IInv, Top
    <3>2. k = Len(stack)
      <4>1. SUFFICES ASSUME k < Len(stack) PROVE FALSE
        BY <3>1
      <4>2. k + 1 \in 1 .. Len(stack) /\ Len(stack) \in 1 .. Len(stack)
        BY <4>1, <3>1
      <4>3. stack[k + 1].level <= Top.level
        <5>1. CASE k + 1 = Len(stack)
          BY <5>1, <3>1
        <5>2. CASE k + 1 < Len(stack)
          BY <5>2, <4>2, <3>1, TopProperties DEF IInv, StackHoldsOpenChildren, StackItem
        <5>3. QED
          BY <5>1, <5>2, <4>2, <3>1
      <4>4. stack[k + 1].level \in Nat
        BY <4>2, TopProperties DEF IInv, StackItem
      <4>5. QED
        BY <2>2, <4>1, <4>3, <4>4, <3>1, <1>1
    <3>3. QED
      BY <2>2, <3>1, <3>2, <1>1 DEF current
  <2>3. QED
    BY <2>1, <2>2, <1>1
<1>5. QED
  BY <1>3, <1>4

\* Ignoring stays what it is when an element that is not ignored opens.
LEMMA IgnoringUnmoved ==
  ASSUME IInv, ~trapped, ~documentEnded, UNCHANGED << trapped, documentEnded >>,
         level' = level + 1,
         NEW before \in {open, Enclose(open)}, NEW element \in OpenElement,
         open' = Append(before, element),
         element.answer # "ignore",
         element.answer = "skipped" <=> ignoreElementsUntilLevel # Nil,
         UNCHANGED ignoreElementsUntilLevel
  PROVE  IgnoringIsOneSubtree'
<1>1. /\ Len(open) \in Nat
      /\ open'[Len(open) + 1] = element
      /\ Levels(open', "ignore") = Levels(open, "ignore")
      /\ \A i \in 1 .. Len(open') : i \in 1 .. Len(open) \/ i = Len(open) + 1
      /\ \A i \in 1 .. Len(open) : open'[i].answer = open[i].answer
  BY StartFacts
<1>2. ignoreElementsUntilLevel # Nil => Len(open) + 1 > ignoreElementsUntilLevel
  BY <1>1, IgnoringFacts
<1>3. QED
  BY <1>1, <1>2 DEF IInv, IgnoringIsOneSubtree

\* The buffer stays what it is when an element that is not data opens.
LEMMA BufferUnmoved ==
  ASSUME IInv, ~trapped, ~documentEnded, UNCHANGED << trapped, documentEnded >>,
         level' = level + 1,
         NEW element \in OpenElement,
         open' = Append(open, element),
         element.answer # "handleAsData",
         UNCHANGED << buffer, dataAttributes >>
  PROVE  BufferBelongsToOneElement'
<1>1. /\ Levels(open', "handleAsData") = Levels(open, "handleAsData")
      /\ \A i \in 1 .. Len(open) : open'[i] = open[i]
  BY StartFacts
<1>2. \A i \in Levels(open, "handleAsData") : open'[i] = open[i]
  BY <1>1 DEF Levels
<1>3. QED
  BY <1>1, <1>2 DEF IInv, BufferBelongsToOneElement

\* A start tag inside an ignored element.
LEMMA StartIgnoredIInv ==
  ASSUME IInv, ~trapped, ~documentEnded, UNCHANGED << trapped, documentEnded >>,
         level' = level + 1, NEW attributes \in Attributes, StartIgnored(attributes)
  PROVE  IInv'
<1>1. /\ open' = Append(open, Skipped(attributes))
      /\ UNCHANGED << stack, buffer, dataAttributes, ignoreElementsUntilLevel >>
      /\ ignoreElementsUntilLevel # Nil
  BY DEF StartIgnored, IgnoringElements
<1>2. Skipped(attributes) \in OpenElement /\ Skipped(attributes).answer = "skipped"
  BY AskedType DEF Skipped, Asked
<1>3. open' \in Seq(OpenElement) /\ level' \in Nat
      /\ TrapsOnlyAfterNestedData' /\ EndedMeansClosed'
  BY <1>1, <1>2, StartFacts
<1>4. TypeOK'
  BY <1>1, <1>3 DEF IInv, TypeOK
<1>5. StackHoldsOpenChildren' /\ AskedIsBelowOnStack'
  BY <1>1, <1>2, StackUnmoved
<1>6. IgnoringIsOneSubtree'
  BY <1>1, <1>2, IgnoringUnmoved
<1>7. BufferBelongsToOneElement'
  BY <1>1, <1>2, BufferUnmoved
<1>8. QED
  BY <1>3, <1>4, <1>5, <1>6, <1>7 DEF IInv

\* The answer `ignore`: no other element is ignored, so this one is the subtree.
LEMMA IgnoreIInv ==
  ASSUME IInv, ~trapped, ~documentEnded, UNCHANGED << trapped, documentEnded >>,
         level' = level + 1, NEW attributes \in Attributes, ~IgnoringElements(level + 1),
         Ignore, open' = Append(open, Asked(attributes, current, "ignore", Nil))
  PROVE  IInv'
<1> DEFINE element == Asked(attributes, current, "ignore", Nil)
<1>1. UNCHANGED << stack, buffer, dataAttributes >> /\ ignoreElementsUntilLevel' = level + 1
  BY DEF Ignore
<1>2. element \in OpenElement /\ element.answer = "ignore" /\ element.asked = current
  BY AskedType, TopProperties DEF Asked, IInv, Answers
<1>3. /\ open' \in Seq(OpenElement)
      /\ Len(open) \in Nat
      /\ level = Len(open)
      /\ level' \in Nat
      /\ Len(open') = Len(open) + 1
      /\ open'[Len(open) + 1] = element
      /\ \A i \in 1 .. Len(open') : i \in 1 .. Len(open) \/ i = Len(open) + 1
      /\ \A i \in 1 .. Len(open) : open'[i].answer = open[i].answer
      /\ Levels(open', "ignore") = Levels(open, "ignore") \cup {Len(open) + 1}
      /\ TrapsOnlyAfterNestedData'
      /\ EndedMeansClosed'
  <2> HIDE DEF element
  <2> QED
    BY <1>2, StartFacts DEF element
<1> HIDE DEF element
<1>4. TypeOK'
  BY <1>1, <1>3 DEF IInv, TypeOK
<1>5. StackHoldsOpenChildren' /\ AskedIsBelowOnStack'
  BY <1>1, <1>2, StackUnmoved DEF element
<1>6. IgnoringIsOneSubtree'
  <2>1. Levels(open, "ignore") = {} /\ \A i \in 1 .. Len(open) : open[i].answer # "skipped"
    BY IgnoringFacts
  <2>2. Levels(open', "ignore") = {Len(open) + 1}
    BY <1>3, <2>1
  <2>3. \A i \in 1 .. Len(open') : open'[i].answer # "skipped" /\ ~(i > Len(open) + 1)
    BY <1>2, <1>3, <2>1
  <2>4. QED
    BY <1>1, <1>3, <2>2, <2>3 DEF IgnoringIsOneSubtree
<1>7. BufferBelongsToOneElement'
  BY <1>1, <1>2, BufferUnmoved DEF element
<1>8. QED
  BY <1>3, <1>4, <1>5, <1>6, <1>7 DEF IInv

\* The answer `handleAsData`: the buffer starts again for the new element.
LEMMA HandleAsDataIInv ==
  ASSUME IInv, ~trapped, ~documentEnded, UNCHANGED << trapped, documentEnded >>,
         level' = level + 1, NEW attributes \in Attributes, ~IgnoringElements(level + 1),
         HandleAsData(attributes),
         open' = Append(Enclose(open), Asked(attributes, current, "handleAsData", Nil))
  PROVE  IInv'
<1> DEFINE element == Asked(attributes, current, "handleAsData", Nil)
<1>1. /\ UNCHANGED << stack, ignoreElementsUntilLevel >>
      /\ buffer' = << >>
      /\ dataAttributes' = attributes
  BY DEF HandleAsData
<1>2. /\ element \in OpenElement
      /\ element.answer = "handleAsData"
      /\ element.asked = current
      /\ element.attributes = attributes
      /\ element.text = << >>
      /\ element.nested = FALSE
  BY AskedType, TopProperties DEF Asked, IInv, Answers
<1> HIDE DEF element
<1>3. /\ open' \in Seq(OpenElement)
      /\ Len(open) \in Nat
      /\ level' \in Nat
      /\ Len(open') = Len(open) + 1
      /\ open'[Len(open) + 1] = element
      /\ \A i \in 1 .. Len(open) :
           open[i].answer = "handleAsData" => i < Len(open) + 1 /\ open'[i].nested
      /\ Levels(open', "handleAsData") = Levels(open, "handleAsData") \cup {Len(open) + 1}
      /\ TrapsOnlyAfterNestedData'
      /\ EndedMeansClosed'
  BY <1>2, StartFacts DEF element
<1>4. TypeOK'
  BY <1>1, <1>3 DEF IInv, TypeOK
<1>5. StackHoldsOpenChildren' /\ AskedIsBelowOnStack'
  BY <1>1, <1>2, StackUnmoved DEF element
<1>6. IgnoringIsOneSubtree'
  <2>1. ignoreElementsUntilLevel = Nil
    BY IgnoringFacts
  <2>2. QED
    BY <1>1, <1>2, <2>1, IgnoringUnmoved DEF element
<1>7. BufferBelongsToOneElement'
  <2>1. buffer' # Nil /\ dataAttributes' # Nil
    <3>1. << >> \in Seq(Text)
      OBVIOUS
    <3>2. QED
      BY <1>1, <3>1, NilAssumption
  <2>2. \A i \in Levels(open', "handleAsData") :
          \/ i < Len(open) + 1 /\ open'[i].nested
          \/ i = Len(open) + 1 /\ open'[i] = element
    BY <1>3 DEF Levels
  <2>3. Len(open) + 1 \in Levels(open', "handleAsData")
    BY <1>3
  <2>4. \A i \in Levels(open', "handleAsData") : i \in 1 .. Len(open) + 1
    BY <1>3 DEF Levels
  <2>5. ASSUME NEW i \in Levels(open', "handleAsData"), NEW j \in Levels(open', "handleAsData"),
               i < j
        PROVE  open'[i].nested
    <3>1. i \in 1 .. Len(open) + 1 /\ j \in 1 .. Len(open) + 1
      BY <2>4
    <3>2. i # Len(open) + 1
      BY <1>3, <2>5, <3>1
    <3>3. QED
      BY <2>2, <3>2
  <2>6. QED
    BY <1>1, <1>2, <1>3, <2>1, <2>2, <2>3, <2>5 DEF BufferBelongsToOneElement
<1>8. QED
  BY <1>3, <1>4, <1>5, <1>6, <1>7 DEF IInv

\* The answer `handleWithChild`: the child goes on the stack at the new level.
LEMMA HandleWithChildIInv ==
  ASSUME IInv, ~trapped, ~documentEnded, UNCHANGED << trapped, documentEnded >>,
         level' = level + 1, NEW attributes \in Attributes, ~IgnoringElements(level + 1),
         NEW child \in Parsables, HandleWithChild(child),
         open' = Append(open, Asked(attributes, current, "handleWithChild", child))
  PROVE  IInv'
<1> DEFINE element == Asked(attributes, current, "handleWithChild", child)
           item == SAXParsableStackItem(child, level + 1)
           m == Len(stack)
<1>1. /\ UNCHANGED << buffer, dataAttributes, ignoreElementsUntilLevel >>
      /\ stack' = Append(stack, item)
  BY DEF HandleWithChild
<1>2. /\ element \in OpenElement
      /\ element.answer = "handleWithChild"
      /\ element.asked = current
      /\ element.child = child
  BY AskedType, TopProperties DEF Asked, IInv, Answers
<1> HIDE DEF element
<1>3. /\ open' \in Seq(OpenElement)
      /\ Len(open) \in Nat
      /\ level = Len(open)
      /\ level' \in Nat
      /\ level' = Len(open')
      /\ Len(open') = Len(open) + 1
      /\ open'[Len(open) + 1] = element
      /\ \A i \in 1 .. Len(open') : i \in 1 .. Len(open) \/ i = Len(open) + 1
      /\ \A i \in 1 .. Len(open) : open'[i] = open[i] /\ i < Len(open) + 1
      /\ Levels(open', "handleWithChild") = Levels(open, "handleWithChild") \cup {Len(open) + 1}
      /\ TrapsOnlyAfterNestedData'
      /\ EndedMeansClosed'
  BY <1>2, StartFacts DEF element
<1>4. /\ item \in StackItem
      /\ item.level = Len(open) + 1
      /\ item.parseItem = child
  BY <1>3 DEF SAXParsableStackItem, StackItem
<1> HIDE DEF item
<1>5. /\ m \in Nat
      /\ m \in 1 .. m
      /\ Top = stack[m]
      /\ Top.level <= level
      /\ \A k \in 1 .. m : stack[k] \in StackItem
  BY TopProperties DEF IInv, Top
<1>6. /\ stack' \in Seq(StackItem)
      /\ Len(stack') = m + 1
      /\ \A k \in 1 .. m : stack'[k] = stack[k]
      /\ stack'[m + 1] = item
  BY <1>1, <1>4, AppendProperties DEF IInv, TypeOK
<1> HIDE DEF m
<1>7. /\ Len(stack') >= 1
      /\ 1 \in 1 .. m
      /\ \A k \in 1 .. m + 1 : (k \in 1 .. m /\ k < m + 1) \/ k = m + 1
      /\ \A k \in 2 .. m + 1 : k \in 2 .. m \/ k = m + 1
      /\ \A k \in 2 .. m : k \in 1 .. m /\ k \in 2 .. m + 1
      /\ m + 1 \in 2 .. m + 1
      /\ ~(m + 1 < m + 1)
  BY <1>5, <1>6
<1>8. ASSUME NEW k \in 1 .. m
      PROVE  stack[k].level < Len(open) + 1
  <2>1. stack[k].level \in Nat /\ Top.level \in Nat
    BY <1>5 DEF StackItem
  <2>2. k = m \/ stack[k].level < Top.level
    BY <1>5 DEF IInv, StackHoldsOpenChildren, m
  <2>3. QED
    BY <2>1, <2>2, <1>3, <1>5
<1>9. TypeOK'
  BY <1>1, <1>3, <1>6 DEF IInv, TypeOK
<1>10. StackHoldsOpenChildren'
  <2>1. ASSUME NEW k \in 2 .. Len(stack')
        PROVE  /\ stack'[k].level \in Levels(open', "handleWithChild")
               /\ stack'[k].parseItem = open'[stack'[k].level].child
    <3>1. CASE k \in 2 .. m
      <4>1. /\ stack[k].level \in Levels(open, "handleWithChild")
            /\ stack[k].parseItem = open[stack[k].level].child
        BY <3>1 DEF IInv, StackHoldsOpenChildren, m
      <4>2. stack[k].level \in 1 .. Len(open)
        BY <4>1 DEF Levels
      <4>3. QED
        BY <3>1, <4>1, <4>2, <1>3, <1>6, <1>7
    <3>2. CASE k = m + 1
      BY <3>2, <1>2, <1>3, <1>4, <1>6
    <3>3. QED
      BY <3>1, <3>2, <1>6, <1>7
  <2>2. ASSUME NEW j \in 1 .. Len(stack'), NEW k \in 1 .. Len(stack'), j < k
        PROVE  stack'[j].level < stack'[k].level
    <3>1. j \in 1 .. m
      BY <2>2, <1>5, <1>6, <1>7
    <3>2. CASE k \in 1 .. m
      BY <2>2, <3>1, <3>2, <1>6 DEF IInv, StackHoldsOpenChildren, m
    <3>3. CASE k = m + 1
      BY <3>1, <3>3, <1>4, <1>6, <1>8
    <3>4. QED
      BY <3>2, <3>3, <1>6, <1>7
  <2>3. ASSUME NEW i \in Levels(open', "handleWithChild")
        PROVE  \E k \in 2 .. Len(stack') : stack'[k].level = i
    <3>1. CASE i \in Levels(open, "handleWithChild")
      <4>1. PICK k \in 2 .. m : stack[k].level = i
        BY <3>1 DEF IInv, StackHoldsOpenChildren, m
      <4>2. QED
        BY <4>1, <1>6, <1>7
    <3>2. CASE i = Len(open) + 1
      BY <3>2, <1>4, <1>6, <1>7
    <3>3. QED
      BY <3>1, <3>2, <1>3
  <2>4. stack'[1] = SAXParsableStackItem(Root, 0)
    BY <1>6, <1>7 DEF IInv, StackHoldsOpenChildren
  <2>5. QED
    BY <1>3, <1>7, <2>1, <2>2, <2>3, <2>4 DEF StackHoldsOpenChildren
<1>11. IgnoringIsOneSubtree'
  <2>1. ignoreElementsUntilLevel = Nil
    BY IgnoringFacts
  <2>2. QED
    BY <1>1, <1>2, <2>1, IgnoringUnmoved DEF element
<1>12. BufferBelongsToOneElement'
  BY <1>1, <1>2, BufferUnmoved DEF element
<1>13. AskedIsBelowOnStack'
  <2> SUFFICES ASSUME NEW i \in 1 .. Len(open'), NEW k \in 1 .. Len(stack'),
                      open'[i].answer # "skipped",
                      stack'[k].level < i,
                      k < Len(stack') => stack'[k + 1].level >= i
               PROVE  open'[i].asked = stack'[k].parseItem
    BY DEF AskedIsBelowOnStack
  <2>1. k \in 1 .. m /\ k < Len(stack') /\ stack'[k] = stack[k]
    <3>1. k # m + 1
      <4>1. i < Len(open) + 1 \/ i = Len(open) + 1
        BY <1>3
      <4>2. SUFFICES ASSUME k = m + 1 PROVE FALSE
        OBVIOUS
      <4>3. Len(open) + 1 < i
        BY <4>2, <1>4, <1>6
      <4>4. QED
        BY <4>1, <4>3, <1>3
    <3>2. QED
      BY <3>1, <1>6, <1>7
  <2>2. CASE k = m
    <3>1. stack[k].parseItem = current
      BY <2>2, <1>5 DEF current
    <3>2. CASE i \in 1 .. Len(open)
      BY <2>1, <2>2, <3>2, <1>3, <1>5 DEF IInv, AskedIsBelowOnStack, m
    <3>3. CASE i = Len(open) + 1
      BY <3>1, <3>3, <2>1, <1>2, <1>3
    <3>4. QED
      BY <3>2, <3>3, <1>3
  <2>3. CASE k # m
    <3>1. k + 1 \in 1 .. m
      BY <2>1, <2>3, <1>5
    <3>2. stack[k + 1].level >= i
      BY <2>1, <3>1, <1>6
    <3>3. i \in 1 .. Len(open)
      BY <3>1, <3>2, <1>3, <1>5, <1>8 DEF StackItem
    <3>4. QED
      BY <2>1, <3>2, <3>3, <1>3 DEF IInv, AskedIsBelowOnStack, m
  <2>4. QED
    BY <2>2, <2>3
<1>14. QED
  BY <1>3, <1>9, <1>10, <1>11, <1>12, <1>13 DEF IInv

\* Every step of the parser, and stuttering.
LEMMA NextIInv ==
  ASSUME IInv, [Next]_vars
  PROVE  IInv'
<1>1. ASSUME NEW attributes \in Attributes, startElementWithPrefix(attributes)
      PROVE  IInv'
  <2>1. /\ ~trapped
        /\ ~documentEnded
        /\ level' = level + 1
        /\ UNCHANGED << trapped, documentEnded >>
    BY <1>1 DEF startElementWithPrefix
  <2>2. CASE StartIgnored(attributes)
    BY <2>1, <2>2, StartIgnoredIInv
  <2>3. CASE StartAndAsk(attributes)
    <3>1. ~IgnoringElements(level + 1)
      BY <2>3 DEF StartAndAsk
    <3>2. CASE /\ Ignore
               /\ open' = Append(open, Asked(attributes, current, "ignore", Nil))
      BY <2>1, <3>1, <3>2, IgnoreIInv
    <3>3. CASE /\ HandleAsData(attributes)
               /\ open' = Append(Enclose(open), Asked(attributes, current, "handleAsData", Nil))
      BY <2>1, <3>1, <3>3, HandleAsDataIInv
    <3>4. CASE \E child \in Parsables :
                 /\ HandleWithChild(child)
                 /\ open' = Append(open, Asked(attributes, current, "handleWithChild", child))
      BY <2>1, <3>1, <3>4, HandleWithChildIInv
    <3>5. QED
      BY <2>3, <3>2, <3>3, <3>4 DEF StartAndAsk
  <2>4. QED
    BY <1>1, <2>2, <2>3 DEF startElementWithPrefix
<1>2. ASSUME NEW piece \in Text, charactersFound(piece)
      PROVE  IInv'
  BY <1>2, CharactersFoundIInv
<1>3. CASE endElementWithPrefix
  BY <1>3, EndIgnoredIInv, EndChildIInv, EndDataIInv, EndDataTrapsIInv DEF endElementWithPrefix
<1>4. CASE UNCHANGED vars
  BY <1>4 DEF vars, parserVars, IInv, TypeOK, StackHoldsOpenChildren, IgnoringIsOneSubtree,
     BufferBelongsToOneElement, AskedIsBelowOnStack, TrapsOnlyAfterNestedData, EndedMeansClosed
<1>5. QED
  BY <1>1, <1>2, <1>3, <1>4 DEF Next

-----------------------------------------------------------------------------
(***************************************************************************)
(* What the invariant shows.                                               *)
(***************************************************************************)

\* The inductive invariant holds at every state of the parser.
THEOREM Invariant == Spec => []IInv
BY InitIInv, NextIInv, PTL DEF Spec

\* The fields keep their types: none of the optionals, counters or arrays of
\* XMLPushParser ever holds something its declaration rules out.
THEOREM TypeCorrect == Spec => []TypeOK
<1>1. IInv => TypeOK
  BY DEF IInv
<1>2. QED
  BY <1>1, Invariant, PTL

\* The stack of startElementWithPrefix and endElementWithPrefix holds the
\* children of the open elements and is never empty, at any nesting depth.
THEOREM StackCorrect == Spec => []StackHoldsOpenChildren
<1>1. IInv => StackHoldsOpenChildren
  BY DEF IInv
<1>2. QED
  BY <1>1, Invariant, PTL

\* ignoreElementsUntilLevel stands for the one subtree that is ignored.
THEOREM IgnoringCorrect == Spec => []IgnoringIsOneSubtree
<1>1. IInv => IgnoringIsOneSubtree
  BY DEF IInv
<1>2. QED
  BY <1>1, Invariant, PTL

\* The one buffer holds the text of one open element, or of none.
THEOREM BufferCorrect == Spec => []BufferBelongsToOneElement
<1>1. IInv => BufferBelongsToOneElement
  BY DEF IInv
<1>2. QED
  BY <1>1, Invariant, PTL

\* `current`, looked up anew at an end tag, is the parsable that was asked at
\* the start tag.
THEOREM AskedCorrect == Spec => []AskedIsBelowOnStack
<1>1. IInv => AskedIsBelowOnStack
  BY DEF IInv
<1>2. QED
  BY <1>1, Invariant, PTL

\* The force unwraps of endElementWithPrefix fail only where an element handled
\* as data contains another one.
THEOREM TrapsCorrect == Spec => []TrapsOnlyAfterNestedData
<1>1. IInv => TrapsOnlyAfterNestedData
  BY DEF IInv
<1>2. QED
  BY <1>1, Invariant, PTL

\* With no element open, the invariant leaves the state of a new parser.
LEMMA RestoredFromIInv ==
  ASSUME IInv
  PROVE  RestoredAtDocumentEnd
<1> SUFFICES ASSUME documentEnded
             PROVE  /\ level = 0
                    /\ stack = << SAXParsableStackItem(Root, 0) >>
                    /\ buffer = Nil
                    /\ dataAttributes = Nil
                    /\ ignoreElementsUntilLevel = Nil
  BY DEF RestoredAtDocumentEnd
<1>1. open = << >> /\ Len(open) = 0 /\ level = 0
  BY IgnoringFacts DEF IInv, EndedMeansClosed
<1>2. \A answer : Levels(open, answer) = {}
  BY <1>1 DEF Levels
<1>3. Len(stack) = 1 /\ stack \in Seq(StackItem)
  BY <1>1, TopProperties DEF IInv, TypeOK
<1>4. stack = << SAXParsableStackItem(Root, 0) >>
  BY <1>3 DEF IInv, StackHoldsOpenChildren
<1>5. buffer = Nil /\ dataAttributes = Nil /\ ignoreElementsUntilLevel = Nil
  BY <1>2 DEF IInv, BufferBelongsToOneElement, IgnoringIsOneSubtree
<1>6. QED
  BY <1>1, <1>4, <1>5

\* After the document element the parser is as it was when it was created.
THEOREM RestoredCorrect == Spec => []RestoredAtDocumentEnd
BY RestoredFromIInv, Invariant, PTL

\* Nothing inside an ignored element, nor its own end tag, reaches a parsable,
\* moves the stack, or starts or ends a data element.
THEOREM IgnoredIsSilent == Spec => IgnoredSubtreeIsSilent
<1>1. ASSUME IInv, Next, Skipping(open)
      PROVE  call' = Nil /\ UNCHANGED << stack, dataAttributes >>
  <2>1. IgnoringElements(level) /\ IgnoringElements(level + 1)
    BY <1>1, IgnoringFacts
  <2>2. CASE \E attributes \in Attributes : startElementWithPrefix(attributes)
    BY <2>1, <2>2 DEF startElementWithPrefix, StartIgnored, StartAndAsk
  <2>3. CASE \E piece \in Text : charactersFound(piece)
    BY <2>3 DEF charactersFound
  <2>4. CASE endElementWithPrefix
    BY <2>1, <2>4 DEF endElementWithPrefix, EndIgnored, EndChild, EndData, EndDataTraps
  <2>5. QED
    BY <1>1, <2>2, <2>3, <2>4 DEF Next
<1>2. IInv /\ [Next]_vars =>
        [Skipping(open) => call' = Nil /\ UNCHANGED << stack, dataAttributes >>]_vars
  BY <1>1
<1>3. QED
  BY <1>2, Invariant, PTL DEF Spec, IgnoredSubtreeIsSilent

-----------------------------------------------------------------------------
(***************************************************************************)
(* The code implements ElementDispatch, action by action.                  *)
(***************************************************************************)

\* The operators on open elements mean the same in the instance.
LEMMA SameOperators ==
  /\ \A e : Dispatch!Skipping(e) <=> Skipping(e)
  /\ \A e, p : Dispatch!InCharge(e, p) <=> InCharge(e, p)
  /\ \A e, p : Dispatch!Collect(e, p) = Collect(e, p)
  /\ \A e : Dispatch!Enclose(e) = Enclose(e)
  /\ \A e : Dispatch!Innermost(e) = Innermost(e)
  /\ \A e : Dispatch!Enclosing(e) = Enclosing(e)
  /\ \A a, p, w, c : Dispatch!Asked(a, p, w, c) = Asked(a, p, w, c)
  /\ \A a : Dispatch!Skipped(a) = Skipped(a)
  /\ \A p, a : Dispatch!StartElementCall(p, a) = StartElementCall(p, a)
  /\ \A p, a, c : Dispatch!EndDataElementCall(p, a, c) = EndDataElementCall(p, a, c)
  /\ \A p, c : Dispatch!EndChildElementCall(p, c) = EndChildElementCall(p, c)
<1>1. \A e, w : Dispatch!Levels(e, w) = Levels(e, w)
  BY DEF Levels, Dispatch!Levels
<1>2. \A e : Dispatch!Skipping(e) <=> Skipping(e)
  BY <1>1 DEF Skipping, Dispatch!Skipping
<1>3. \A e, p : Dispatch!InCharge(e, p) <=> InCharge(e, p)
  BY <1>1 DEF InCharge, Dispatch!InCharge
<1>4. \A a, p, w, c : Dispatch!Asked(a, p, w, c) = Asked(a, p, w, c)
  BY DEF Asked, Dispatch!Asked
<1>5. \A a : Dispatch!Skipped(a) = Skipped(a)
  BY <1>4 DEF Skipped, Dispatch!Skipped
<1>6. QED
  BY <1>2, <1>3, <1>4, <1>5
     DEF Collect, Dispatch!Collect, Enclose, Dispatch!Enclose, Innermost, Dispatch!Innermost,
         Enclosing, Dispatch!Enclosing, StartElementCall, Dispatch!StartElementCall,
         EndDataElementCall, Dispatch!EndDataElementCall,
         EndChildElementCall, Dispatch!EndChildElementCall

\* The parsable on top of the stack is the one in charge.
LEMMA CurrentInCharge ==
  ASSUME IInv
  PROVE  current \in Parsables /\ InCharge(open, current)
<1>1. /\ current \in Parsables
      /\ Top.level \in Nat
      /\ \A i \in Levels(open, "handleWithChild") : i <= Top.level
      /\ Top.level = 0 <=> Len(stack) = 1
      /\ Top.level # 0 => /\ Top.level \in Levels(open, "handleWithChild")
                          /\ current = open[Top.level].child
  BY TopProperties DEF IInv
<1>2. CASE Top.level = 0
  <2>1. current = Root
    <3>1. Top = SAXParsableStackItem(Root, 0)
      BY <1>1, <1>2 DEF IInv, StackHoldsOpenChildren, Top
    <3>2. QED
      BY <3>1 DEF current, SAXParsableStackItem
  <2>2. \A i \in Levels(open, "handleWithChild") : i \in 1 .. Len(open) /\ i <= 0
    BY <1>1, <1>2 DEF Levels
  <2>3. Levels(open, "handleWithChild") = {}
    BY <2>2
  <2>4. QED
    BY <1>1, <2>1, <2>3 DEF InCharge
<1>3. CASE Top.level # 0
  BY <1>1, <1>3 DEF InCharge
<1>4. QED
  BY <1>2, <1>3

\* A start tag.
LEMMA StartRefines ==
  ASSUME IInv, NEW attributes \in Attributes, startElementWithPrefix(attributes)
  PROVE  Dispatch!Skip(attributes) \/ Dispatch!Ask(attributes)
<1>1. ~trapped /\ UNCHANGED trapped
  BY DEF startElementWithPrefix
<1>2. CASE StartIgnored(attributes)
  <2>1. Skipping(open)
    BY <1>2, IgnoringFacts DEF StartIgnored
  <2>2. QED
    BY <1>1, <1>2, <2>1, SameOperators DEF StartIgnored, Dispatch!Skip
<1>3. CASE StartAndAsk(attributes)
  <2>1. ~Skipping(open)
    BY <1>3, IgnoringFacts DEF StartAndAsk
  <2>2. current \in Parsables /\ InCharge(open, current)
    BY CurrentInCharge
  <2>3. call' = StartElementCall(current, attributes)
    BY <1>3 DEF StartAndAsk
  <2>4. \/ open' = Append(open, Asked(attributes, current, "ignore", Nil))
        \/ open' = Append(Enclose(open), Asked(attributes, current, "handleAsData", Nil))
        \/ \E child \in Parsables :
             open' = Append(open, Asked(attributes, current, "handleWithChild", child))
    BY <1>3 DEF StartAndAsk
  <2>5. QED
    BY <1>1, <2>1, <2>2, <2>3, <2>4, SameOperators DEF Dispatch!Ask
<1>4. QED
  BY <1>2, <1>3 DEF startElementWithPrefix

\* An end tag.
LEMMA EndRefines ==
  ASSUME IInv, endElementWithPrefix
  PROVE  Dispatch!EndElement
<1>1. ~trapped /\ open # << >>
  BY DEF endElementWithPrefix
<1>2. /\ level = Len(open)
      /\ Len(open) \in Nat
      /\ Len(open) \in 1 .. Len(open)
      /\ Innermost(open) = open[Len(open)]
  BY <1>1, IgnoringFacts, InnermostFacts
<1>3. CASE EndIgnored
  <2>1. Innermost(open).answer \in {"ignore", "skipped"}
    BY <1>1, <1>3, InnermostFacts DEF EndIgnored
  <2>2. Dispatch!EndSkipped
    BY <1>3, <2>1, SameOperators DEF EndIgnored, Deferred, Dispatch!EndSkipped, Dispatch!Close
  <2>3. QED
    BY <1>1, <2>2 DEF Dispatch!EndElement
<1>4. CASE EndChild
  <2>1. /\ Innermost(open).answer = "handleWithChild"
        /\ Top.level = Len(open)
        /\ call' = EndChildElementCall(stack[Len(stack) - 1].parseItem, Top.parseItem)
    BY <1>1, <1>2, <1>4, InnermostFacts DEF EndChild, PopAndCall
  <2>2. Top.parseItem = Innermost(open).child
    BY <1>2, <2>1, TopProperties DEF IInv, current
  <2>3. /\ Len(stack) \in Nat
        /\ Len(stack) \in 2 .. Len(stack)
        /\ Len(stack) - 1 \in 1 .. Len(stack)
        /\ Len(stack) - 1 < Len(stack)
        /\ (Len(stack) - 1) + 1 = Len(stack)
    <3>1. Len(stack) \in Nat /\ Len(stack) \in 2 .. Len(stack)
      BY <1>2, <2>1, TopProperties DEF IInv
    <3>2. QED
      BY <3>1
  <2>4. stack[Len(stack) - 1].level < Len(open)
    BY <2>1, <2>3 DEF IInv, StackHoldsOpenChildren, Top
  <2>5. stack[Len(stack) - 1].parseItem = Innermost(open).asked
    BY <1>2, <2>1, <2>3, <2>4 DEF IInv, AskedIsBelowOnStack, Top
  <2>6. Dispatch!EndChild
    BY <1>4, <2>1, <2>2, <2>5, SameOperators DEF EndChild, Deferred, Dispatch!EndChild, Dispatch!Close
  <2>7. QED
    BY <1>1, <2>6 DEF Dispatch!EndElement
<1>5. CASE EndData
  <2>1. /\ ~IgnoringElements(level)
        /\ Top.level # level
        /\ buffer # Nil
        /\ call' = EndDataElementCall(current, dataAttributes, buffer)
    BY <1>5 DEF EndData
  <2>2. /\ Innermost(open).answer = "handleAsData"
        /\ ~Innermost(open).nested
        /\ buffer = Innermost(open).text
        /\ dataAttributes = Innermost(open).attributes
    BY <1>1, <2>1, InnermostData
  <2>3. current = Innermost(open).asked
    <3>1. Len(stack) \in 1 .. Len(stack) /\ Len(stack) \in Nat /\ Top.level < Len(open)
      BY <1>2, <2>1, TopProperties DEF IInv
    <3>2. QED
      BY <1>2, <2>2, <3>1 DEF IInv, AskedIsBelowOnStack, Top, current
  <2>4. Dispatch!EndData
    BY <1>5, <2>1, <2>2, <2>3, SameOperators DEF EndData, Deferred, Dispatch!EndData, Dispatch!Close
  <2>5. QED
    BY <1>1, <2>4 DEF Dispatch!EndElement
<1>6. CASE EndDataTraps
  <2>1. Innermost(open).answer = "handleAsData" /\ Innermost(open).nested
    BY <1>1, <1>6, InnermostData, Zenon DEF EndDataTraps
  <2>2. Dispatch!GiveUp
    BY <1>6, <2>1, SameOperators DEF EndDataTraps, Dispatch!GiveUp
  <2>3. QED
    BY <1>1, <2>2 DEF Dispatch!EndElement
<1>7. QED
  BY <1>3, <1>4, <1>5, <1>6 DEF endElementWithPrefix

\* Every behaviour of XMLPushParser is one that ElementDispatch allows: the
\* counter, the stack, the buffer and the ignore level decide as the open
\* elements of the document would, at any depth and with any parsables.
THEOREM Refinement == Spec => ImplementsDispatch
<1>1. Init => Dispatch!Init
  BY DEF Init, Dispatch!Init
<1>2. ASSUME IInv, Next
      PROVE  Dispatch!Next
  <2>1. CASE \E attributes \in Attributes : startElementWithPrefix(attributes)
    BY <1>2, <2>1, StartRefines DEF Dispatch!Next
  <2>2. CASE \E piece \in Text : charactersFound(piece)
    BY <2>2, SameOperators DEF charactersFound, Dispatch!CollectText, Dispatch!Next
  <2>3. CASE endElementWithPrefix
    BY <1>2, <2>3, EndRefines DEF Dispatch!Next
  <2>4. QED
    BY <1>2, <2>1, <2>2, <2>3 DEF Next
<1>3. UNCHANGED vars => UNCHANGED Dispatch!vars
  BY DEF vars, Dispatch!vars
<1>4. IInv /\ [Next]_vars => [Dispatch!Next]_(Dispatch!vars)
  BY <1>2, <1>3
<1>5. QED
  BY <1>1, <1>4, Invariant, PTL DEF Spec, ImplementsDispatch, Dispatch!Spec

-----------------------------------------------------------------------------
(***************************************************************************)
(* The dispatcher seen from the open elements, for the parsables that are  *)
(* called: who is asked, and what an event adds or takes away.             *)
(***************************************************************************)

\* An open element with a child, or the document with the root parsable.
HasParsable(elements, h) == h = 0 \/ h \in Levels(elements, "handleWithChild")
ParsableOf(elements, h) == IF h = 0 THEN Root ELSE elements[h].child

\* All elements above h and below k are data.
DataBetween(elements, h, k) ==
  \A j \in 1 .. Len(elements) : h < j /\ j < k => elements[j].answer = "handleAsData"

\* A parsable has an entry on the stack as long as its element is open.
LEMMA EntryOfParsable ==
  ASSUME IInv, NEW h \in Nat, HasParsable(open, h)
  PROVE  \E e \in 1 .. Len(stack) :
           /\ stack[e].level = h
           /\ stack[e].parseItem = ParsableOf(open, h)
<1>1. Len(stack) \in Nat /\ Len(stack) \in 1 .. Len(stack)
  BY TopProperties DEF IInv
<1>2. CASE h = 0
  <2>1. 1 \in 1 .. Len(stack) /\ stack[1] = SAXParsableStackItem(Root, 0)
    BY <1>1 DEF IInv, StackHoldsOpenChildren
  <2>2. QED
    BY <1>2, <2>1 DEF SAXParsableStackItem, ParsableOf
<1>3. CASE h # 0
  <2>1. PICK e \in 2 .. Len(stack) : stack[e].level = h
    BY <1>3 DEF HasParsable, IInv, StackHoldsOpenChildren
  <2>2. stack[e].parseItem = open[h].child /\ e \in 1 .. Len(stack)
    BY <1>1, <2>1 DEF IInv, StackHoldsOpenChildren
  <2>3. QED
    BY <1>3, <2>1, <2>2 DEF ParsableOf
<1>4. QED
  BY <1>2, <1>3

\* With nothing but data between, an element is shown to the parsable of the
\* element outside.
LEMMA AskedAcrossData ==
  ASSUME IInv, NEW h \in Nat, HasParsable(open, h), NEW k \in 1 .. Len(open), h < k,
         DataBetween(open, h, k), open[k].answer # "skipped"
  PROVE  open[k].asked = ParsableOf(open, h)
<1>1. PICK e \in 1 .. Len(stack) :
        /\ stack[e].level = h
        /\ stack[e].parseItem = ParsableOf(open, h)
  BY EntryOfParsable
<1>2. /\ Len(stack) \in Nat
      /\ Len(open) \in Nat
      /\ \A i \in 1 .. Len(stack) : stack[i].level \in Nat
  BY TopProperties DEF IInv, StackItem
<1>3. ASSUME e < Len(stack)
      PROVE  stack[e + 1].level >= k
  <2>1. e + 1 \in 2 .. Len(stack) /\ e + 1 \in 1 .. Len(stack) /\ e < e + 1
    BY <1>2, <1>3
  <2>2. PICK l : l = stack[e + 1].level
    OBVIOUS
  <2>3. l \in Levels(open, "handleWithChild") /\ h < l /\ l \in Nat
    BY <1>1, <1>2, <2>1, <2>2 DEF IInv, StackHoldsOpenChildren
  <2>4. l \in 1 .. Len(open) /\ open[l].answer = "handleWithChild"
    BY <2>3 DEF Levels
  <2>5. ~(l < k)
    BY <2>3, <2>4 DEF DataBetween
  <2>6. QED
    BY <1>2, <2>2, <2>3, <2>5
<1>4. QED
  BY <1>1, <1>3 DEF IInv, AskedIsBelowOnStack

\* And so is the next start tag.
LEMMA CurrentAcrossData ==
  ASSUME IInv, NEW h \in Nat, HasParsable(open, h), h <= Len(open),
         DataBetween(open, h, Len(open) + 1)
  PROVE  current = ParsableOf(open, h) /\ ~Skipping(open)
<1>1. /\ Len(open) \in Nat
      /\ Top.level \in Nat
      /\ Top.level <= Len(open)
      /\ Top.level = 0 <=> Len(stack) = 1
      /\ \A i \in Levels(open, "handleWithChild") : i <= Top.level
      /\ Top.level # 0 => /\ Top.level \in Levels(open, "handleWithChild")
                          /\ current = open[Top.level].child
  BY TopProperties DEF IInv
<1>2. \A l \in 1 .. Len(open) : h < l => open[l].answer = "handleAsData"
  BY <1>1 DEF DataBetween
<1>3. Top.level = h
  <2>1. h <= Top.level
    BY <1>1 DEF HasParsable
  <2>2. ASSUME h < Top.level
        PROVE  FALSE
    <3>1. Top.level # 0
      BY <1>1, <2>2
    <3>2. Top.level \in 1 .. Len(open) /\ open[Top.level].answer = "handleWithChild"
      BY <1>1, <3>1 DEF Levels
    <3>3. QED
      BY <1>2, <2>2, <3>2
  <2>3. QED
    BY <1>1, <2>1, <2>2
<1>4. current = ParsableOf(open, h)
  <2>1. CASE h = 0
    <3>1. Top = SAXParsableStackItem(Root, 0)
      BY <1>1, <1>3, <2>1 DEF IInv, StackHoldsOpenChildren, Top
    <3>2. QED
      BY <2>1, <3>1 DEF current, SAXParsableStackItem, ParsableOf
  <2>2. CASE h # 0
    BY <1>1, <1>3, <2>2 DEF ParsableOf
  <2>3. QED
    BY <2>1, <2>2
<1>5. ~Skipping(open)
  <2>1. SUFFICES ASSUME NEW i \in Levels(open, "ignore")
                 PROVE  FALSE
    BY DEF Skipping
  <2>2. i \in 1 .. Len(open) /\ open[i].answer = "ignore"
    BY DEF Levels
  <2>3. i = ignoreElementsUntilLevel /\ ignoreElementsUntilLevel # Nil
    <3>1. i \in Nat
      BY <1>1, <2>2
    <3>2. QED
      BY <3>1, NilAssumption DEF IInv, IgnoringIsOneSubtree
  <2>4. ~(h < i)
    BY <1>2, <2>2
  <2>5. CASE h = 0
    BY <2>2, <2>4, <2>5
  <2>6. CASE h # 0
    <3>1. h \in 1 .. Len(open) /\ open[h].answer = "handleWithChild"
      BY <2>6 DEF HasParsable, Levels
    <3>2. h # i
      BY <2>2, <3>1
    <3>3. h > ignoreElementsUntilLevel
      BY <1>1, <2>2, <2>3, <2>4, <3>2
    <3>4. open[h].answer = "skipped"
      BY <2>3, <3>1, <3>3 DEF IInv, IgnoringIsOneSubtree
    <3>5. QED
      BY <3>1, <3>4
  <2>7. QED
    BY <2>5, <2>6
<1>6. QED
  BY <1>4, <1>5

\* When nothing is ignored there is an element with nothing but data inside.
LEMMA DataAboveCurrent ==
  ASSUME IInv, ~Skipping(open)
  PROVE  \E h \in 0 .. Len(open) :
           /\ HasParsable(open, h)
           /\ current = ParsableOf(open, h)
           /\ DataBetween(open, h, Len(open) + 1)
<1>1. /\ Len(open) \in Nat
      /\ Top.level \in Nat
      /\ Top.level <= Len(open)
      /\ \A i \in Levels(open, "handleWithChild") : i <= Top.level
      /\ Top.level # 0 => Top.level \in Levels(open, "handleWithChild")
  BY TopProperties DEF IInv
<1>2. \A i \in 1 .. Len(open) : open[i].answer \in Answers \cup {"skipped"}
  BY IgnoringFacts DEF OpenElement
<1>3. \A i \in 1 .. Len(open) : open[i].answer \notin {"skipped", "ignore"}
  <2>1. ignoreElementsUntilLevel = Nil
    BY IgnoringFacts
  <2>2. QED
    BY <2>1, IgnoringFacts DEF Levels
<1>4. DataBetween(open, Top.level, Len(open) + 1)
  <2>1. SUFFICES ASSUME NEW j \in 1 .. Len(open), Top.level < j
                 PROVE  open[j].answer = "handleAsData"
    BY DEF DataBetween
  <2>2. j \notin Levels(open, "handleWithChild")
    BY <1>1, <2>1
  <2>3. QED
    BY <1>2, <1>3, <2>2 DEF Answers, Levels
<1>5. HasParsable(open, Top.level) /\ Top.level \in 0 .. Len(open)
  BY <1>1 DEF HasParsable
<1>6. QED
  BY <1>1, <1>4, <1>5, CurrentAcrossData

\* The elements inside an ignored one are those that are skipped.
LEMMA SkippedAreInIgnored ==
  ASSUME IInv, NEW k \in 1 .. Len(open)
  PROVE  open[k].answer = "skipped" <=>
           \E i \in Levels(open, "ignore") : i < k
<1>1. \A i \in Levels(open, "ignore") : i \in 1 .. Len(open) /\ i \in Nat /\ Len(open) \in Nat
  BY IgnoringFacts DEF Levels
<1>2. CASE ignoreElementsUntilLevel = Nil
  BY <1>2, IgnoringFacts
<1>3. CASE ignoreElementsUntilLevel # Nil
  <2>1. ignoreElementsUntilLevel \in Levels(open, "ignore")
    BY <1>3 DEF IInv, IgnoringIsOneSubtree
  <2>2. \A i \in Levels(open, "ignore") : i = ignoreElementsUntilLevel
    BY DEF IInv, IgnoringIsOneSubtree
  <2>3. open[k].answer = "skipped" <=> k > ignoreElementsUntilLevel
    BY <1>3 DEF IInv, IgnoringIsOneSubtree
  <2>4. QED
    BY <1>1, <2>1, <2>2, <2>3
<1>4. QED
  BY <1>2, <1>3

\* What a start tag adds to m open elements.
AddsElement(attributes, m) ==
  /\ ~trapped /\ ~trapped'
  /\ m \in Nat
  /\ Len(open') = m + 1
  /\ \A k \in 1 .. m :
       /\ open'[k].attributes = open[k].attributes
       /\ open'[k].asked = open[k].asked
       /\ open'[k].answer = open[k].answer
       /\ open'[k].child = open[k].child
       /\ open'[k].text = open[k].text
       /\ open[k].nested => open'[k].nested
       /\ open'[m + 1].answer = "handleAsData" /\ open[k].answer = "handleAsData"
            => open'[k].nested
  /\ open'[m + 1].attributes = attributes
  /\ open'[m + 1].text = << >>
  /\ Skipping(open) => open'[m + 1].answer = "skipped"
  /\ ~Skipping(open) => /\ open'[m + 1].answer \in Answers
                        /\ open'[m + 1].asked = current
                        /\ call'.to = current

\* A start tag adds an open element.
LEMMA StartAddsElement ==
  ASSUME IInv, NEW attributes \in Attributes, startElementWithPrefix(attributes),
         NEW m, m = Len(open)
  PROVE  AddsElement(attributes, m)
<1>1. open \in Seq(OpenElement) /\ m \in Nat /\ level = m
  BY IgnoringFacts DEF IInv, TypeOK
<1>2. ~trapped /\ ~trapped'
  BY DEF startElementWithPrefix
<1>3. ASSUME NEW elements \in Seq(OpenElement), Len(elements) = m, NEW element,
             open' = Append(elements, element)
      PROVE  /\ Len(open') = m + 1
             /\ \A k \in 1 .. m : open'[k] = elements[k]
             /\ open'[m + 1] = element
  BY <1>1, <1>3
<1>4. CASE StartIgnored(attributes)
  <2>1. open' = Append(open, Skipped(attributes))
    BY <1>4 DEF StartIgnored
  <2>2. /\ Len(open') = m + 1
        /\ \A k \in 1 .. m : open'[k] = open[k]
        /\ open'[m + 1] = Skipped(attributes)
    BY <1>1, <1>3, <2>1
  <2>3. Skipping(open)
    BY <1>4, IgnoringFacts DEF StartIgnored
  <2>4. /\ Skipped(attributes).attributes = attributes
        /\ Skipped(attributes).text = << >>
        /\ Skipped(attributes).answer = "skipped"
    BY DEF Skipped, Asked
  <2>5. QED
    BY <1>1, <1>2, <2>2, <2>3, <2>4 DEF AddsElement
<1>5. CASE StartAndAsk(attributes)
  <2>1. ~Skipping(open) /\ call'.to = current
    BY <1>5, IgnoringFacts DEF StartAndAsk, StartElementCall
  <2>2. CASE open' = Append(open, Asked(attributes, current, "ignore", Nil))
    <3>1. /\ Len(open') = m + 1
          /\ \A k \in 1 .. m : open'[k] = open[k]
          /\ open'[m + 1] = Asked(attributes, current, "ignore", Nil)
      BY <1>1, <1>3, <2>2
    <3>2. QED
      BY <1>1, <1>2, <2>1, <3>1 DEF AddsElement, Asked, Answers
  <2>3. CASE open' = Append(Enclose(open), Asked(attributes, current, "handleAsData", Nil))
    <3>1. /\ Enclose(open) \in Seq(OpenElement)
          /\ Len(Enclose(open)) = m
      BY <1>1, EncloseProperties
    <3>2. /\ Len(open') = m + 1
          /\ \A k \in 1 .. m : open'[k] = Enclose(open)[k]
          /\ open'[m + 1] = Asked(attributes, current, "handleAsData", Nil)
      BY <1>3, <2>3, <3>1
    <3>3. \A k \in 1 .. m : open[k].nested => Enclose(open)[k].nested
      <4>1. \A k \in 1 .. m : open[k] \in OpenElement
        BY <1>1
      <4>2. \A k \in 1 .. m : Enclose(open)[k] = IF open[k].answer = "handleAsData"
                                               THEN [open[k] EXCEPT !.nested = TRUE]
                                               ELSE open[k]
        BY <1>1 DEF Enclose
      <4>3. QED
        BY <4>1, <4>2, Zenon, EncloseProperties, <1>1
    <3>4. \A k \in 1 .. m :
            /\ open'[k].attributes = open[k].attributes
            /\ open'[k].asked = open[k].asked
            /\ open'[k].answer = open[k].answer
            /\ open'[k].child = open[k].child
            /\ open'[k].text = open[k].text
            /\ open[k].answer = "handleAsData" => open'[k].nested
      BY <1>1, <3>2, EncloseProperties
    <3>5. QED
      BY <1>1, <1>2, <2>1, <3>2, <3>3, <3>4 DEF AddsElement, Asked, Answers
  <2>4. ASSUME NEW child \in Parsables,
               open' = Append(open, Asked(attributes, current, "handleWithChild", child))
        PROVE  /\ Len(open') = m + 1
               /\ \A k \in 1 .. m : open'[k] = open[k]
               /\ open'[m + 1] = Asked(attributes, current, "handleWithChild", child)
    BY <1>1, <1>3, <2>4
  <2>5. CASE \E child \in Parsables :
               open' = Append(open, Asked(attributes, current, "handleWithChild", child))
    BY <1>1, <1>2, <2>1, <2>4, <2>5 DEF AddsElement, Asked, Answers
  <2>6. QED
    BY <1>5, <2>2, <2>3, <2>5 DEF StartAndAsk
<1>6. QED
  BY <1>4, <1>5 DEF startElementWithPrefix

\* An end tag takes the innermost away and calls whom it was shown to.
LEMMA EndRemovesElement ==
  ASSUME IInv, endElementWithPrefix, ~trapped', NEW m, m = Len(open)
  PROVE  /\ ~trapped
         /\ m \in Nat \ {0}
         /\ Len(open') = m - 1
         /\ \A k \in 1 .. m - 1 : open'[k] = open[k]
         /\ \/ open[m].answer \in {"ignore", "skipped"} /\ call' = Nil
            \/ /\ open[m].answer = "handleWithChild"
               /\ call' = EndChildElementCall(open[m].asked, open[m].child)
            \/ /\ open[m].answer = "handleAsData"
               /\ ~open[m].nested
               /\ call' = EndDataElementCall(open[m].asked, open[m].attributes, open[m].text)
<1>1. Dispatch!EndElement
  BY EndRefines
<1>2. ~trapped /\ open # << >> /\ open \in Seq(OpenElement)
  BY DEF endElementWithPrefix, IInv, TypeOK
<1>3. ~Dispatch!GiveUp
  BY DEF Dispatch!GiveUp
<1>4. open' = Enclosing(open)
  BY <1>1, <1>3, SameOperators
     DEF Dispatch!EndElement, Dispatch!EndSkipped, Dispatch!EndChild, Dispatch!EndData, Dispatch!Close
<1>5. /\ m \in Nat \ {0}
      /\ Len(open') = m - 1
      /\ \A k \in 1 .. m - 1 : open'[k] = open[k]
  BY <1>2, <1>4, FrontProperties DEF Enclosing
<1>6. Innermost(open) = open[m]
  BY DEF Innermost
<1>7. \/ open[m].answer \in {"ignore", "skipped"} /\ call' = Nil
      \/ /\ open[m].answer = "handleWithChild"
         /\ call' = EndChildElementCall(open[m].asked, open[m].child)
      \/ /\ open[m].answer = "handleAsData"
         /\ ~open[m].nested
         /\ call' = EndDataElementCall(open[m].asked, open[m].attributes, open[m].text)
  BY <1>1, <1>3, <1>6, SameOperators
     DEF Dispatch!EndElement, Dispatch!EndSkipped, Dispatch!EndChild, Dispatch!EndData, Dispatch!Close
<1>8. QED
  BY <1>2, <1>5, <1>7
=============================================================================
