------------------------- MODULE DocumentParse_proofs -------------------------
(***************************************************************************)
(* Proofs about DocumentParse. The invariant of the dispatcher is taken    *)
(* over from XMLPushParser_proofs; what is new is which objects are on its *)
(* stack: objects that exist, each of them once, and none that has been    *)
(* given to its parent already.                                            *)
(*                                                                         *)
(* From there on the module shows that the root that is returned after a   *)
(* document holds what a recursive reading of the document gives. Lemmas   *)
(* on a document that grows by an event come first, then the link between  *)
(* the document, the open elements and the objects, then one part for each *)
(* of the three tags, and last the trees.                                  *)
(***************************************************************************)
EXTENDS DocumentReading, RecursionTheorems, FiniteSetTheorems, TLAPS

ParserP == INSTANCE XMLPushParser_proofs

-----------------------------------------------------------------------------
(***************************************************************************)
(* The operators of XMLPushParser are the same in both of its instances.   *)
(***************************************************************************)
LEMMA SameState ==
  /\ \A p, l : Parser!SAXParsableStackItem(p, l) = ParserP!SAXParsableStackItem(p, l)
  /\ \A l : Parser!IgnoringElements(l) <=> ParserP!IgnoringElements(l)
  /\ Parser!current = ParserP!current
  /\ Parser!Top = ParserP!Top
BY DEF Parser!SAXParsableStackItem, ParserP!SAXParsableStackItem, Parser!IgnoringElements,
       ParserP!IgnoringElements, Parser!current, ParserP!current, Parser!Top, ParserP!Top

LEMMA SameOperators ==
  /\ \A elements : ParserP!Innermost(elements) = Innermost(elements)
  /\ \A elements : ParserP!Enclosing(elements) = Enclosing(elements)
BY DEF ParserP!Innermost, Innermost, ParserP!Enclosing, Enclosing

LEMMA SameStart ==
  \A attributes : Parser!startElementWithPrefix(attributes)
                  <=> ParserP!startElementWithPrefix(attributes)
BY SameState
   DEF Parser!startElementWithPrefix, ParserP!startElementWithPrefix,
       Parser!StartIgnored, ParserP!StartIgnored, Parser!StartAndAsk, ParserP!StartAndAsk,
       Parser!Ignore, ParserP!Ignore, Parser!HandleAsData, ParserP!HandleAsData,
       Parser!HandleWithChild, ParserP!HandleWithChild, Parser!Skipped, ParserP!Skipped,
       Parser!Asked, ParserP!Asked, Parser!Enclose, ParserP!Enclose,
       Parser!StartElementCall, ParserP!StartElementCall

LEMMA SameCharacters ==
  \A piece : Parser!charactersFound(piece) <=> ParserP!charactersFound(piece)
BY DEF Parser!charactersFound, ParserP!charactersFound, Parser!AppendToBuffer,
       ParserP!AppendToBuffer, Parser!Collect, ParserP!Collect

LEMMA SameEnd == Parser!endElementWithPrefix <=> ParserP!endElementWithPrefix
<1>1. Parser!Deferred <=> ParserP!Deferred
  BY DEF Parser!Deferred, ParserP!Deferred, Parser!StopIgnoring, ParserP!StopIgnoring,
         Parser!Enclosing, ParserP!Enclosing
<1>2. Parser!EndIgnored <=> ParserP!EndIgnored
  BY <1>1, SameState DEF Parser!EndIgnored, ParserP!EndIgnored
<1>3. Parser!EndChild <=> ParserP!EndChild
  BY <1>1, SameState DEF Parser!EndChild, ParserP!EndChild, Parser!PopAndCall,
     ParserP!PopAndCall, Parser!EndChildElementCall, ParserP!EndChildElementCall
<1>4. Parser!EndData <=> ParserP!EndData
  BY <1>1, SameState DEF Parser!EndData, ParserP!EndData, Parser!ClearAfterUse,
     ParserP!ClearAfterUse, Parser!EndDataElementCall, ParserP!EndDataElementCall
<1>5. Parser!EndDataTraps <=> ParserP!EndDataTraps
  BY SameState DEF Parser!EndDataTraps, ParserP!EndDataTraps, Parser!parserVars,
     ParserP!parserVars
<1>6. QED
  BY <1>2, <1>3, <1>4, <1>5 DEF Parser!endElementWithPrefix, ParserP!endElementWithPrefix

\* A step of the whole parse is a step of the dispatcher.
LEMMA ParserStep ==
  ASSUME [Next]_vars
  PROVE  [ParserP!Next]_(ParserP!vars)
<1>1. ASSUME NEW name \in Names, NEW attributes \in Attributes, StartTag(name, attributes)
      PROVE  ParserP!Next
  BY <1>1, SameStart DEF StartTag, ParserP!Next
<1>2. ASSUME NEW piece \in Text, CharacterData(piece)
      PROVE  ParserP!Next
  BY <1>2, SameCharacters DEF CharacterData, ParserP!Next
<1>3. CASE EndTag
  BY <1>3, SameEnd DEF EndTag, ParserP!Next
<1>4. CASE UNCHANGED vars
  BY <1>4 DEF vars, Parser!vars, Parser!parserVars, ParserP!vars, ParserP!parserVars
<1>5. QED
  BY <1>1, <1>2, <1>3, <1>4 DEF Next

-----------------------------------------------------------------------------
(***************************************************************************)
(* The inductive invariant.                                                *)
(***************************************************************************)
ElementsType ==
  /\ type \in [Parsables -> Types \cup {Nil}]
  /\ data = [p \in Parsables |-> [key \in Keys |-> data[p][key]]]
  /\ children \in [Parsables -> [Keys -> Seq(Parsables)]]

Made(parsable) == parsable \in Parsables /\ type[parsable] # Nil

StackIsApart ==
  /\ \A k \in 1 .. Len(stack) :
       Made(stack[k].parseItem) /\ ~HandedOver(stack[k].parseItem)
  /\ \A j, k \in 1 .. Len(stack) : j < k => stack[j].parseItem # stack[k].parseItem

HandedOverIsMade == \A p : HandedOver(p) => Made(p)

IInv == ParserP!IInv /\ ElementsType /\ StackIsApart /\ HandedOverIsMade

LEMMA InitIInv ==
  ASSUME Init
  PROVE  IInv
<1>1. ParserP!IInv
  BY ParserP!InitIInv, SameState, RootAssumption, NilAssumption, BoundsAssumption
     DEF Init, Parser!Init, ParserP!Init
<1>2. ElementsType
  BY ElementsAssumption DEF Init, ElementsInit, ElementsType, NoElements
<1>3. \A p : ~HandedOver(p)
  <2>1. \A p \in Parsables, key \in Keys : children[p][key] = << >>
    BY DEF Init, ElementsInit, NoElements
  <2>2. DOMAIN << >> = {}
    OBVIOUS
  <2>3. QED
    BY <2>1, <2>2, Zenon DEF HandedOver
<1>4. StackIsApart
  <2>1. Len(stack) = 1 /\ stack[1].parseItem = Root
    BY DEF Init, Parser!Init, Parser!SAXParsableStackItem
  <2>2. Made(Root)
    BY RootAssumption, ElementsAssumption DEF Made, Init, ElementsInit
  <2>3. QED
    BY <1>3, <2>1, <2>2 DEF StackIsApart
<1>5. QED
  BY <1>1, <1>2, <1>3, <1>4 DEF IInv, HandedOverIsMade

-----------------------------------------------------------------------------
(***************************************************************************)
(* What the dispatcher's handlers do to the stack, and whom they call.     *)
(***************************************************************************)

\* The stack of the dispatcher, by its own invariant.
LEMMA StackFacts ==
  ASSUME IInv
  PROVE  /\ Len(stack) \in Nat
         /\ Len(stack) \in 1 .. Len(stack)
         /\ stack \in Seq(ParserP!StackItem)
         /\ \A k \in 1 .. Len(stack) : stack[k].parseItem \in Parsables
         /\ open \in Seq(ParserP!OpenElement)
         /\ ParserP!Top = stack[Len(stack)]
         /\ ParserP!current = stack[Len(stack)].parseItem
         /\ open # << >> /\ ParserP!Top.level = level => Len(stack) - 1 \in 1 .. Len(stack)
<1>1. stack \in Seq(ParserP!StackItem) /\ open \in Seq(ParserP!OpenElement)
  BY DEF IInv, ParserP!IInv, ParserP!TypeOK
<1>2. ParserP!Top = stack[Len(stack)] /\ ParserP!current = stack[Len(stack)].parseItem
  BY DEF ParserP!Top, ParserP!current
<1>3. /\ Len(stack) \in Nat
      /\ Len(stack) \in 1 .. Len(stack)
      /\ \A k \in 1 .. Len(stack) : stack[k] \in ParserP!StackItem
      /\ level = Len(open)
      /\ ParserP!Top.level = 0 <=> Len(stack) = 1
  BY ParserP!TopProperties, RootAssumption, NilAssumption, BoundsAssumption
     DEF IInv, ParserP!IInv
<1>4. ASSUME open # << >>, ParserP!Top.level = level
      PROVE  Len(stack) - 1 \in 1 .. Len(stack)
  <2>1. Len(open) # 0
    BY <1>1, <1>4
  <2>2. Len(stack) # 1
    BY <2>1, <1>3, <1>4
  <2>3. \A n \in Nat : n \in 1 .. n /\ n # 1 => n - 1 \in 1 .. n
    OBVIOUS
  <2>4. QED
    BY <2>2, <2>3, <1>3
<1>5. QED
  BY <1>1, <1>2, <1>3, <1>4 DEF ParserP!StackItem

LEMMA StartFacts ==
  ASSUME IInv, NEW attributes, ParserP!startElementWithPrefix(attributes)
  PROVE  \/ Innermost(open').answer = "skipped" /\ stack' = stack
         \/ /\ Innermost(open').answer \in {"ignore", "handleAsData"}
            /\ stack' = stack
         \/ /\ Innermost(open').answer = "handleWithChild"
            /\ call'.to = stack[Len(stack)].parseItem
            /\ \E l : stack' = Append(stack, [parseItem |-> Innermost(open').child, level |-> l])
<1>1. \A s, e : s \in Seq(ParserP!OpenElement) => Innermost(Append(s, e)) = e
  BY DEF Innermost
<1>2. CASE ParserP!StartIgnored(attributes)
  <2>1. stack' = stack /\ open' = Append(open, ParserP!Skipped(attributes))
    BY <1>2 DEF ParserP!StartIgnored
  <2>2. ParserP!Skipped(attributes).answer = "skipped"
    BY DEF ParserP!Skipped, ParserP!Asked
  <2>3. QED
    BY <1>1, <2>1, <2>2, StackFacts
<1>3. CASE ParserP!StartAndAsk(attributes)
  <2>1. ParserP!Enclose(open) \in Seq(ParserP!OpenElement)
    BY StackFacts, ParserP!EncloseProperties, RootAssumption, NilAssumption, BoundsAssumption
  <2>2. CASE /\ ParserP!Ignore
             /\ open' = Append(open, ParserP!Asked(attributes, ParserP!current, "ignore", Nil))
    BY <1>1, <2>2, StackFacts DEF ParserP!Ignore, ParserP!Asked
  <2>3. CASE /\ ParserP!HandleAsData(attributes)
             /\ open' = Append(ParserP!Enclose(open),
                               ParserP!Asked(attributes, ParserP!current, "handleAsData", Nil))
    BY <1>1, <2>1, <2>3 DEF ParserP!HandleAsData, ParserP!Asked
  <2>4. ASSUME NEW child \in Parsables,
               ParserP!HandleWithChild(child),
               open' = Append(open, ParserP!Asked(attributes, ParserP!current,
                                                  "handleWithChild", child))
        PROVE  /\ Innermost(open').answer = "handleWithChild"
               /\ stack' = Append(stack, [parseItem |-> Innermost(open').child, level |-> level + 1])
    BY <1>1, <2>4, StackFacts
       DEF ParserP!HandleWithChild, ParserP!Asked, ParserP!SAXParsableStackItem
  <2>5. call'.to = stack[Len(stack)].parseItem
    BY <1>3, StackFacts DEF ParserP!StartAndAsk, ParserP!StartElementCall
  <2>6. QED
    BY <1>3, <2>2, <2>3, <2>4, <2>5 DEF ParserP!StartAndAsk
<1>4. QED
  BY <1>2, <1>3 DEF ParserP!startElementWithPrefix

LEMMA EndFacts ==
  ASSUME IInv, ParserP!endElementWithPrefix
  PROVE  \/ call' = Nil /\ UNCHANGED stack
         \/ /\ call'.op = "endDataElement"
            /\ call'.to = stack[Len(stack)].parseItem
            /\ UNCHANGED stack
         \/ /\ Len(stack) - 1 \in 1 .. Len(stack)
            /\ call'.op = "endChildElement"
            /\ call'.to = stack[Len(stack) - 1].parseItem
            /\ call'.child = stack[Len(stack)].parseItem
            /\ stack' = SubSeq(stack, 1, Len(stack) - 1)
<1>1. open # << >>
  BY DEF ParserP!endElementWithPrefix
<1>2. CASE ParserP!EndIgnored \/ ParserP!EndDataTraps
  BY <1>2 DEF ParserP!EndIgnored, ParserP!EndDataTraps, ParserP!parserVars
<1>3. CASE ParserP!EndData
  BY <1>3, StackFacts DEF ParserP!EndData, ParserP!EndDataElementCall
<1>4. CASE ParserP!EndChild
  BY <1>1, <1>4, StackFacts DEF ParserP!EndChild, ParserP!PopAndCall, ParserP!EndChildElementCall
<1>5. QED
  BY <1>2, <1>3, <1>4 DEF ParserP!endElementWithPrefix

-----------------------------------------------------------------------------
(***************************************************************************)
(* What the calls do to the objects.                                       *)
(***************************************************************************)

\* An object that is made for a child was not made before, so it is neither on
\* the stack nor handed over.
LEMMA StartElementFacts ==
  ASSUME IInv, NEW name \in Names, NEW k \in 1 .. Len(stack), NEW answer, NEW child,
         startElement(stack[k].parseItem, name, answer, child)
  PROVE  /\ UNCHANGED << data, children >>
         /\ ElementsType'
         /\ \A p : Made(p) => Made(p)'
         /\ answer = "handleWithChild" => ~Made(child) /\ Made(child)'
<1> DEFINE t == type[stack[k].parseItem]
<1>1. t \in Types
  BY DEF IInv, StackIsApart, Made, ElementsType
<1>2. UNCHANGED << data, children >> /\ answer = Answer(t, name)
  BY DEF startElement
<1>3. CASE answer # "handleWithChild"
  BY <1>2, <1>3 DEF startElement, IInv, ElementsType, Made
<1>4. CASE answer = "handleWithChild"
  <2> DEFINE new == ChildType[t][ChildElement[t][name]]
  <2>1. ChildElement[t][name] \in Keys
    BY <1>1, <1>2, <1>4, ElementsAssumption DEF Answer
  <2>2. new \in Types /\ new # Nil
    BY <1>1, <2>1, ElementsAssumption
  <2>3. child \in Parsables /\ type[child] = Nil /\ type' = [type EXCEPT ![child] = new]
    BY <1>4 DEF startElement, Fresh, New
  <2>4. ElementsType'
    BY <1>2, <2>2, <2>3 DEF IInv, ElementsType
  <2>5. QED
    BY <1>2, <2>2, <2>3, <2>4 DEF Made, IInv, ElementsType
<1>5. QED
  BY <1>3, <1>4

\* A handed over parsable stays one, and none is added but the child of the call.
LEMMA EndChildElementFacts ==
  ASSUME IInv, NEW name, NEW parsable \in Parsables, NEW child \in Parsables,
         endChildElement(parsable, name, child)
  PROVE  /\ UNCHANGED << type, data >>
         /\ ElementsType'
         /\ \A p : HandedOver(p)' => HandedOver(p) \/ p = child
         /\ \A p \in Parsables : p # parsable => children'[p] = children[p]
<1> DEFINE key == ChildElement[type[parsable]][name]
           arrays == children[parsable]
<1>1. arrays \in [Keys -> Seq(Parsables)] /\ UNCHANGED << type, data >>
  BY DEF IInv, ElementsType, endChildElement
<1>2. children' = [children EXCEPT ![parsable] = AppendTo(arrays, key, child)]
  BY DEF endChildElement
<1>3. /\ AppendTo(arrays, key, child) \in [Keys -> Seq(Parsables)]
      /\ \A k \in Keys : \/ AppendTo(arrays, key, child)[k] = arrays[k]
                         \/ AppendTo(arrays, key, child)[k] = Append(arrays[k], child)
  <2> HIDE DEF key, arrays
  <2>1. CASE key = Nil
    BY <1>1, <2>1 DEF AppendTo
  <2>2. CASE key # Nil
    <3>1. AppendTo(arrays, key, child) = [arrays EXCEPT ![key] = Append(@, child)]
      BY <2>2 DEF AppendTo
    <3>2. \A k \in Keys : arrays[k] \in Seq(Parsables) /\ Append(arrays[k], child) \in Seq(Parsables)
      BY <1>1
    <3>3. QED
      BY <1>1, <3>1, <3>2
  <2>3. QED
    BY <2>1, <2>2
<1>4. ElementsType'
  BY <1>1, <1>2, <1>3 DEF IInv, ElementsType
<1>5. \A p \in Parsables : p # parsable => children'[p] = children[p]
  BY <1>2 DEF IInv, ElementsType
<1>6. ASSUME NEW p, HandedOver(p)'
      PROVE  HandedOver(p) \/ p = child
  <2>1. PICK q \in Parsables, k \in Keys : \E n \in DOMAIN children'[q][k] : children'[q][k][n] = p
    BY <1>6 DEF HandedOver
  <2>2. PICK n \in DOMAIN children'[q][k] : children'[q][k][n] = p
    BY <2>1
  <2>3. CASE children'[q][k] = children[q][k]
    BY <2>2, <2>3 DEF HandedOver
  <2>4. CASE q = parsable /\ children'[q][k] = Append(arrays[k], child)
    <3>1. arrays[k] \in Seq(Parsables) /\ arrays[k] = children[q][k]
      BY <1>1, <2>4
    <3>2. \/ n \in DOMAIN arrays[k] /\ arrays[k][n] = p
          \/ p = child
      BY <2>2, <2>4, <3>1
    <3>3. QED
      BY <3>1, <3>2 DEF HandedOver
  <2>5. QED
    BY <1>2, <1>3, <1>5, <2>3, <2>4 DEF IInv, ElementsType
<1>7. QED
  BY <1>1, <1>4, <1>5, <1>6

-----------------------------------------------------------------------------
(***************************************************************************)
(* Each event keeps the invariant.                                         *)
(***************************************************************************)
\* A new object goes on top of the stack.
LEMMA PushIsApart ==
  ASSUME StackIsApart, HandedOverIsMade, stack \in Seq(ParserP!StackItem),
         NEW child, NEW l, stack' = Append(stack, [parseItem |-> child, level |-> l]),
         ~Made(child), Made(child)',
         \A p : Made(p) => Made(p)',
         \A p : HandedOver(p)' <=> HandedOver(p)
  PROVE  StackIsApart'
<1> DEFINE n == Len(stack)
<1>1. /\ n \in Nat
      /\ Len(stack') = n + 1
      /\ \A k \in 1 .. n : stack'[k] = stack[k]
      /\ stack'[n + 1].parseItem = child
  OBVIOUS
<1>2. \A k \in 1 .. n + 1 : k \in 1 .. n \/ k = n + 1
  BY <1>1
<1>3. ~HandedOver(child)
  BY DEF HandedOverIsMade
<1>4. ASSUME NEW k \in 1 .. n
      PROVE  /\ Made(stack[k].parseItem)' /\ ~HandedOver(stack[k].parseItem)'
             /\ stack'[k].parseItem # child
  <2>1. PICK p : p = stack[k].parseItem
    OBVIOUS
  <2>2. Made(p) /\ ~HandedOver(p)
    BY <2>1 DEF StackIsApart
  <2>3. Made(p)' /\ ~HandedOver(p)' /\ p # child /\ stack'[k].parseItem = p
    BY <1>1, <2>1, <2>2
  <2>4. QED
    BY <2>3 DEF Made, HandedOver
<1>5. ASSUME NEW k, k = n + 1
      PROVE  Made(stack[k].parseItem)' /\ ~HandedOver(stack[k].parseItem)'
  <2>1. PICK p : p = stack'[k].parseItem
    OBVIOUS
  <2>2. p = child /\ Made(p)' /\ ~HandedOver(p)'
    BY <1>1, <1>3, <1>5, <2>1
  <2>3. Made(stack[k].parseItem)'
    BY <2>1, <2>2 DEF Made
  <2>4. ~HandedOver(stack[k].parseItem)'
    BY <2>1, <2>2 DEF HandedOver
  <2>5. QED
    BY <2>3, <2>4
<1>6. ASSUME NEW j \in 1 .. n + 1, NEW k \in 1 .. n + 1, j < k
      PROVE  stack'[j].parseItem # stack'[k].parseItem
  <2>1. j \in 1 .. n
    BY <1>1, <1>6
  <2>2. CASE k \in 1 .. n
    BY <1>1, <1>6, <2>1, <2>2 DEF StackIsApart
  <2>3. CASE k = n + 1
    BY <1>1, <1>4, <2>1, <2>3
  <2>4. QED
    BY <1>2, <2>2, <2>3
<1>7. QED
  BY <1>1, <1>2, <1>4, <1>5, <1>6 DEF StackIsApart

\* The object on top of the stack is handed over to the one below it.
LEMMA PopIsApart ==
  ASSUME StackIsApart, HandedOverIsMade, stack \in Seq(ParserP!StackItem),
         Len(stack) - 1 \in 1 .. Len(stack),
         stack' = SubSeq(stack, 1, Len(stack) - 1),
         UNCHANGED type,
         \A p : HandedOver(p)' => HandedOver(p) \/ p = stack[Len(stack)].parseItem
  PROVE  StackIsApart' /\ HandedOverIsMade'
<1> DEFINE n == Len(stack)
<1>1. /\ n \in Nat
      /\ n \in 1 .. n
      /\ Len(stack') = n - 1
      /\ \A k \in 1 .. n - 1 : stack'[k] = stack[k] /\ k \in 1 .. n /\ k < n
  OBVIOUS
<1>2. ASSUME NEW k \in 1 .. n - 1
      PROVE  Made(stack[k].parseItem)' /\ ~HandedOver(stack[k].parseItem)'
  <2>1. PICK p : p = stack[k].parseItem
    OBVIOUS
  <2>2. Made(p) /\ ~HandedOver(p) /\ p # stack[n].parseItem
    BY <1>1, <2>1 DEF StackIsApart
  <2>3. Made(p)' /\ ~HandedOver(p)' /\ stack'[k].parseItem = p
    BY <1>1, <2>1, <2>2 DEF Made
  <2>4. QED
    BY <2>3 DEF Made, HandedOver
<1>3. \A j, k \in 1 .. n - 1 : j < k => stack'[j].parseItem # stack'[k].parseItem
  BY <1>1 DEF StackIsApart
<1>4. StackIsApart'
  BY <1>1, <1>2, <1>3 DEF StackIsApart
<1>5. ASSUME NEW p, HandedOver(p)'
      PROVE  Made(p)'
  <2>1. Made(p)
    BY <1>1, <1>5 DEF StackIsApart, HandedOverIsMade
  <2>2. QED
    BY <2>1 DEF Made
<1>6. QED
  BY <1>4, <1>5 DEF HandedOverIsMade

LEMMA StartTagIInv ==
  ASSUME IInv, ParserP!IInv', NEW name \in Names, NEW attributes \in Attributes,
         StartTag(name, attributes)
  PROVE  IInv' /\ UNCHANGED << data, children >>
<1> DEFINE opened == Innermost(open')
<1>1. ParserP!startElementWithPrefix(attributes)
  BY SameStart DEF StartTag
<1>2. /\ Len(stack) \in Nat
      /\ Len(stack) \in 1 .. Len(stack)
      /\ stack \in Seq(ParserP!StackItem)
  BY StackFacts
<1>3. CASE stack' = stack /\ UNCHANGED elementVars
  BY <1>3 DEF IInv, elementVars, ElementsType, StackIsApart, HandedOverIsMade, HandedOver, Made
<1>4. CASE opened.answer = "skipped" /\ stack' = stack
  BY <1>3, <1>4 DEF StartTag, elementVars
<1>5. CASE opened.answer \in {"ignore", "handleAsData"} /\ stack' = stack
  BY <1>3, <1>5 DEF StartTag, startElement, elementVars
<1>6. ASSUME opened.answer = "handleWithChild",
             call'.to = stack[Len(stack)].parseItem,
             NEW l, stack' = Append(stack, [parseItem |-> opened.child, level |-> l])
      PROVE  IInv' /\ UNCHANGED << data, children >>
  <2>1. PICK child : child = opened.child
    OBVIOUS
  <2>2. startElement(stack[Len(stack)].parseItem, name, "handleWithChild", child)
    BY <1>6, <2>1 DEF StartTag
  <2>3. /\ UNCHANGED << data, children >>
        /\ ElementsType'
        /\ \A p : Made(p) => Made(p)'
        /\ ~Made(child) /\ Made(child)'
    BY <1>2, <2>2, StartElementFacts
  <2>4. \A p : HandedOver(p)' <=> HandedOver(p)
    BY <2>3 DEF HandedOver
  <2>5. stack' = Append(stack, [parseItem |-> child, level |-> l])
    BY <1>6, <2>1
  <2>6. StackIsApart'
    BY <1>2, <2>3, <2>4, <2>5, PushIsApart DEF IInv
  <2>7. HandedOverIsMade'
    BY <2>3, <2>4 DEF IInv, HandedOverIsMade
  <2>8. QED
    BY <2>3, <2>6, <2>7 DEF IInv
<1>7. QED
  BY <1>1, <1>4, <1>5, <1>6, StartFacts

\* The calls of an end tag reach objects on the stack only.
LEMMA EndTagIInv ==
  ASSUME IInv, ParserP!IInv', EndTag
  PROVE  /\ IInv'
         /\ \A p \in Parsables : HandedOver(p) => UNCHANGED << data[p], children[p] >>
<1> DEFINE name == document[OpenStart].name
           n == Len(stack)
<1>1. ParserP!endElementWithPrefix
  BY SameEnd DEF EndTag
<1>2. /\ n \in Nat
      /\ n \in 1 .. n
      /\ stack \in Seq(ParserP!StackItem)
      /\ \A k \in 1 .. n : stack[k].parseItem \in Parsables /\ ~HandedOver(stack[k].parseItem)
  BY StackFacts DEF IInv, StackIsApart
<1>3. \/ UNCHANGED elementVars
      \/ call'.op = "endDataElement" /\ endDataElement(call'.to, name, call'.attributes, call'.contents)
      \/ call'.op = "endChildElement" /\ endChildElement(call'.to, name, call'.child)
  BY DEF EndTag
<1>4. ASSUME \/ stack' = stack
             \/ n - 1 \in 1 .. n /\ stack' = SubSeq(stack, 1, n - 1),
             UNCHANGED type,
             \A p : HandedOver(p)' => HandedOver(p)
      PROVE  StackIsApart' /\ HandedOverIsMade'
  <2>1. CASE stack' = stack
    BY <1>4, <2>1 DEF IInv, StackIsApart, HandedOverIsMade, Made
  <2>2. CASE n - 1 \in 1 .. n /\ stack' = SubSeq(stack, 1, n - 1)
    BY <1>4, <2>2 DEF IInv, StackIsApart, HandedOverIsMade, Made
  <2>3. QED
    BY <1>4, <2>1, <2>2
<1>5. CASE UNCHANGED elementVars
  <2>1. UNCHANGED << type, data, children >>
    BY <1>5 DEF elementVars
  <2>2. ElementsType' /\ \A p : HandedOver(p)' <=> HandedOver(p)
    BY <2>1 DEF IInv, ElementsType, HandedOver
  <2>3. \/ stack' = stack
        \/ n - 1 \in 1 .. n /\ stack' = SubSeq(stack, 1, n - 1)
    BY <1>1, EndFacts
  <2>4. StackIsApart' /\ HandedOverIsMade'
    BY <1>4, <2>1, <2>2, <2>3
  <2>5. QED
    BY <2>1, <2>2, <2>4 DEF IInv
<1>6. CASE /\ call'.op = "endDataElement"
           /\ endDataElement(call'.to, name, call'.attributes, call'.contents)
           /\ stack' = stack
           /\ call'.to = stack[n].parseItem
  <2>1. UNCHANGED << type, children >>
    BY <1>6 DEF endDataElement
  <2>2. /\ data' = [p \in Parsables |-> [key \in Keys |-> data'[p][key]]]
        /\ \A p \in Parsables : p # stack[n].parseItem => data'[p] = data[p]
    <3>1. PICK q, key, arrays, value :
            /\ q = call'.to
            /\ key = DataElement[type[q]][name]
            /\ value = XMLDataElement(call'.contents, call'.attributes)
            /\ arrays = IF key = Nil THEN data[q]
                        ELSE [data[q] EXCEPT ![key] = Append(@, value)]
      OBVIOUS
    <3>2. data' = [data EXCEPT ![q] = arrays]
      BY <1>6, <3>1 DEF endDataElement, AppendTo
    <3>3. data = [p \in Parsables |-> [k \in Keys |-> data[p][k]]]
      BY DEF IInv, ElementsType
    <3>4. q = stack[n].parseItem /\ q \in Parsables
      BY <1>2, <1>6, <3>1
    <3>5. data[q] = [k \in Keys |-> data[q][k]]
      BY <3>3, <3>4
    <3>6. arrays = [k \in Keys |-> arrays[k]]
      BY <3>1, <3>5
    <3>7. DOMAIN data' = Parsables /\ data'[q] = arrays
      BY <3>2, <3>3, <3>4
    <3>8. \A p \in Parsables : p # q => data'[p] = data[p]
      BY <3>2, <3>3, <3>4
    <3>9. \A p \in Parsables : data'[p] = [k \in Keys |-> data'[p][k]]
      BY <3>3, <3>6, <3>7, <3>8
    <3>10. QED
      BY <3>2, <3>4, <3>7, <3>8, <3>9
  <2>3. ElementsType'
    BY <2>1, <2>2 DEF IInv, ElementsType
  <2>4. \A p : HandedOver(p)' <=> HandedOver(p)
    BY <2>1 DEF HandedOver
  <2>5. StackIsApart' /\ HandedOverIsMade'
    BY <1>4, <1>6, <2>1, <2>4
  <2>6. ~HandedOver(stack[n].parseItem)
    BY <1>2
  <2>7. \A p \in Parsables : HandedOver(p) => UNCHANGED << data[p], children[p] >>
    BY <2>1, <2>2, <2>6
  <2>8. QED
    BY <2>3, <2>5, <2>7 DEF IInv
<1>7. CASE /\ call'.op = "endChildElement"
           /\ endChildElement(call'.to, name, call'.child)
           /\ n - 1 \in 1 .. n
           /\ call'.to = stack[n - 1].parseItem
           /\ call'.child = stack[n].parseItem
           /\ stack' = SubSeq(stack, 1, n - 1)
  <2>1. PICK parsable \in Parsables, child \in Parsables :
          parsable = stack[n - 1].parseItem /\ child = stack[n].parseItem
    BY <1>2, <1>7
  <2>2. endChildElement(parsable, name, child)
    BY <1>7, <2>1
  <2>3. /\ UNCHANGED << type, data >>
        /\ ElementsType'
        /\ \A p : HandedOver(p)' => HandedOver(p) \/ p = child
        /\ \A p \in Parsables : p # parsable => children'[p] = children[p]
    BY <2>2, EndChildElementFacts
  <2>4. StackIsApart' /\ HandedOverIsMade'
    BY <1>2, <1>7, <2>1, <2>3, PopIsApart DEF IInv
  <2>5. ~HandedOver(parsable)
    BY <1>2, <1>7, <2>1
  <2>6. \A p \in Parsables : HandedOver(p) => UNCHANGED << data[p], children[p] >>
    BY <2>3, <2>5
  <2>7. QED
    BY <2>3, <2>4, <2>6 DEF IInv
<1>8. CASE call' # Nil /\ ~UNCHANGED elementVars
  BY <1>1, <1>3, <1>6, <1>7, <1>8, EndFacts
<1>9. CASE call' = Nil
  BY <1>5, <1>9 DEF EndTag
<1>10. QED
  BY <1>5, <1>8, <1>9

LEMMA NextIInv ==
  ASSUME IInv, [Next]_vars
  PROVE  /\ IInv'
         /\ \A p \in Parsables : HandedOver(p) => UNCHANGED << data[p], children[p] >>
<1>1. ParserP!IInv'
  BY ParserStep, ParserP!NextIInv, RootAssumption, NilAssumption, BoundsAssumption DEF IInv
<1>2. ASSUME NEW name \in Names, NEW attributes \in Attributes, StartTag(name, attributes)
      PROVE  IInv' /\ UNCHANGED << data, children >>
  BY <1>1, <1>2, StartTagIInv
<1>3. ASSUME stack' = stack, UNCHANGED elementVars
      PROVE  IInv' /\ UNCHANGED << data, children >>
  BY <1>1, <1>3 DEF IInv, elementVars, ElementsType, StackIsApart, HandedOverIsMade, HandedOver, Made
<1>4. ASSUME NEW piece \in Text, CharacterData(piece)
      PROVE  IInv' /\ UNCHANGED << data, children >>
  <2>1. stack' = stack /\ UNCHANGED elementVars
    BY <1>4 DEF CharacterData, Parser!charactersFound
  <2>2. QED
    BY <1>3, <2>1
<1>5. CASE EndTag
  BY <1>1, <1>5, EndTagIInv
<1>6. CASE UNCHANGED vars
  <2>1. stack' = stack /\ UNCHANGED elementVars
    BY <1>6 DEF vars, Parser!vars, Parser!parserVars
  <2>2. QED
    BY <1>3, <2>1
<1>7. QED
  BY <1>2, <1>4, <1>5, <1>6 DEF Next

-----------------------------------------------------------------------------
(***************************************************************************)
(* What the invariant shows.                                               *)
(***************************************************************************)

\* The inductive invariant holds at every state of a parse: the objects on the
\* dispatcher's stack are made, all different, and none is handed over.
THEOREM Invariant == Spec => []IInv
<1>1. Init => IInv
  BY InitIInv
<1>2. IInv /\ [Next]_vars => IInv'
  BY NextIInv
<1>3. QED
  BY <1>1, <1>2, PTL DEF Spec

\* With the library's own element parsers as parsables the dispatcher does what
\* it does with any, so all that is proved of XMLPushParser holds here.
THEOREM DispatcherCorrect == Spec => ParserP!Spec
<1>1. Init => ParserP!Init
  BY SameState DEF Init, Parser!Init, ParserP!Init
<1>2. [Next]_vars => [ParserP!Next]_(ParserP!vars)
  BY ParserStep
<1>3. QED
  BY <1>1, <1>2, PTL DEF Spec, ParserP!Spec

\* Its calls to them are those of ElementDispatch.
THEOREM DispatchKept == Spec => ParserP!ImplementsDispatch
<1>1. ParserP!Spec => ParserP!ImplementsDispatch
  BY ParserP!Refinement, RootAssumption, NilAssumption, BoundsAssumption
<1>2. QED
  BY <1>1, DispatcherCorrect

\* A parsable that endChildElement has given to its parent is complete: its data
\* and children are not written again, whatever the document goes on with.
THEOREM CompleteWhenHandedOver == Spec => HandedOverIsComplete
<1>1. IInv /\ [Next]_vars =>
        [\A p \in Parsables : HandedOver(p) => UNCHANGED << data[p], children[p] >>]_vars
  BY NextIInv
<1>2. QED
  BY <1>1, Invariant, PTL DEF Spec, HandedOverIsComplete

-----------------------------------------------------------------------------
(***************************************************************************)
(* One event more: what becomes of the positions of a document.            *)
(***************************************************************************)
Events ==
  [tag : {"start"}, name : Names, attributes : Attributes]
    \cup [tag : {"characters"}, piece : Text]
    \cup [tag : {"end"}, name : Names]

\* The n events of the document are followed by another.
Grows(n, event) ==
  /\ n = Len(document)
  /\ document \in Seq(Events)
  /\ event \in Events
  /\ document' = Append(document, event)

\* The event has the next position.
LEMMA GrownPositions ==
  ASSUME NEW n \in Nat, NEW event, Grows(n, event)
  PROVE  /\ n \in Nat
         /\ Len(document') = n + 1
         /\ document' \in Seq(Events)
         /\ \A i \in 1 .. n : document'[i] = document[i]
         /\ document'[n + 1] = event
BY DEF Grows

\* A tag keeps its positions, and that of the event is one more.
LEMMA GrownTagged ==
  ASSUME NEW n \in Nat, NEW event, Grows(n, event)
  PROVE  /\ \A tag : Tagged(tag) \subseteq 1 .. n
         /\ \A tag, i : i \in Tagged(tag)' <=>
              i \in Tagged(tag) \/ (i = n + 1 /\ event.tag = tag)
<1>1. Positions = 1 .. n /\ Positions' = 1 .. n + 1
  BY GrownPositions DEF Positions, Grows
<1>2. \A i : i \in 1 .. n + 1 <=> i \in 1 .. n \/ i = n + 1
  OBVIOUS
<1>3. n + 1 \notin 1 .. n
  OBVIOUS
<1>4. \A i \in 1 .. n : document'[i].tag = document[i].tag
  BY GrownPositions
<1>5. document'[n + 1].tag = event.tag
  BY GrownPositions
<1>6. \A tag, i : i \in Tagged(tag) <=> i \in 1 .. n /\ document[i].tag = tag
  BY <1>1 DEF Tagged
<1>7. \A tag, i : i \in Tagged(tag)' <=> i \in 1 .. n + 1 /\ document'[i].tag = tag
  BY <1>1 DEF Tagged
<1>8. QED
  BY <1>2, <1>3, <1>4, <1>5, <1>6, <1>7

\* The positions of a tag up to one.
UpTo(tag, i) == {j \in Tagged(tag) : j <= i}

\* There are finitely many positions up to one.
LEMMA UpToIsFinite ==
  ASSUME document \in Seq(Events), NEW tag, NEW i
  PROVE  IsFiniteSet(UpTo(tag, i)) /\ Cardinality(UpTo(tag, i)) \in Nat
<1>1. PICK n \in Nat : n = Len(document)
  OBVIOUS
<1>2. UpTo(tag, i) \in SUBSET (1 .. n) /\ IsFiniteSet(1 .. n)
  BY <1>1, FS_Interval DEF UpTo, Tagged, Positions
<1>3. IsFiniteSet(UpTo(tag, i))
  BY <1>2, FS_Subset
<1>4. QED
  BY <1>3, FS_CardinalityType

\* The number of open elements changes by the event and not before it.
LEMMA GrownDepth ==
  ASSUME NEW n \in Nat, NEW event, Grows(n, event)
  PROVE  /\ \A i \in 0 .. n : Depth(i) \in Int /\ Depth(i)' = Depth(i)
         /\ event.tag = "start" => Depth(n + 1)' = Depth(n) + 1
         /\ event.tag = "end" => Depth(n + 1)' = Depth(n) - 1
         /\ event.tag = "characters" => Depth(n + 1)' = Depth(n)
<1>1. n = Len(document)
  BY DEF Grows
<1>2. \A tag, i : IsFiniteSet(UpTo(tag, i)) /\ Cardinality(UpTo(tag, i)) \in Nat
  BY UpToIsFinite DEF Grows
<1>3. ASSUME NEW tag, NEW i \in 0 .. n
      PROVE  UpTo(tag, i)' = UpTo(tag, i)
  BY <1>1, <1>3, GrownTagged DEF UpTo
<1>4. ASSUME NEW tag
      PROVE  Cardinality(UpTo(tag, n + 1)') =
               IF event.tag = tag THEN Cardinality(UpTo(tag, n)) + 1
               ELSE Cardinality(UpTo(tag, n))
  <2>1. \A j : j \in Tagged(tag) => j \in 1 .. n
    BY <1>1, GrownTagged
  <2>2. n + 1 \notin UpTo(tag, n)
    BY DEF UpTo
  <2>3. CASE event.tag = tag
    <3>1. UpTo(tag, n + 1)' = UpTo(tag, n) \cup {n + 1}
      BY <1>1, <2>1, <2>3, GrownTagged DEF UpTo
    <3>2. QED
      BY <1>2, <2>2, <2>3, <3>1, FS_AddElement
  <2>4. CASE event.tag # tag
    <3>1. UpTo(tag, n + 1)' = UpTo(tag, n)
      BY <1>1, <2>1, <2>4, GrownTagged DEF UpTo
    <3>2. QED
      BY <2>4, <3>1
  <2>5. QED
    BY <2>3, <2>4
<1>5. /\ \A i : Depth(i) = Cardinality(UpTo("start", i)) - Cardinality(UpTo("end", i))
      /\ \A i : Depth(i)' = Cardinality(UpTo("start", i)') - Cardinality(UpTo("end", i)')
  BY DEF Depth, UpTo
<1>6. \A i \in 0 .. n : Depth(i) \in Int /\ Depth(i)' = Depth(i)
  BY <1>2, <1>3, <1>5
<1>7. PICK s, e \in Nat : s = Cardinality(UpTo("start", n)) /\ e = Cardinality(UpTo("end", n))
  BY <1>2
<1>8. Depth(n) = s - e
  BY <1>5, <1>7
<1>9. event.tag = "start" => Depth(n + 1)' = (s + 1) - e
  BY <1>4, <1>5, <1>7
<1>10. event.tag = "end" => Depth(n + 1)' = s - (e + 1)
  BY <1>4, <1>5, <1>7
<1>11. event.tag = "characters" => Depth(n + 1)' = s - e
  BY <1>4, <1>5, <1>7
<1>12. (s + 1) - e = (s - e) + 1 /\ s - (e + 1) = (s - e) - 1
  OBVIOUS
<1>13. QED
  BY <1>1, <1>6, <1>8, <1>9, <1>10, <1>11, <1>12

\* An end tag ends the elements that are as deep as the document is.
LEMMA GrownEnds ==
  ASSUME NEW n \in Nat, NEW event, Grows(n, event)
  PROVE  /\ \A i : \A j \in Ends(i) : j \in 1 .. n /\ j > i
         /\ \A i \in 0 .. n : \A j :
              j \in Ends(i)' <=>
                \/ j \in Ends(i)
                \/ j = n + 1 /\ event.tag = "end" /\ Depth(i) = Depth(n)
         /\ Ends(n + 1)' = {}
<1>1. n = Len(document)
  BY DEF Grows
<1>2. \A i : \A j \in Ends(i) : j \in 1 .. n /\ j > i
  BY <1>1, GrownTagged DEF Ends
<1>3. ASSUME NEW i \in 0 .. n, NEW j
      PROVE  j \in Ends(i)' <=> j \in Ends(i) \/ (j = n + 1 /\ event.tag = "end" /\ Depth(i) = Depth(n))
  <2>1. j \in Ends(i)' <=> j \in Tagged("end")' /\ j > i /\ Depth(j)' = Depth(i)' - 1
    BY DEF Ends
  <2>2. Depth(i)' = Depth(i) /\ Depth(i) \in Int /\ Depth(n) \in Int
    BY <1>1, GrownDepth
  <2>3. CASE j \in Tagged("end")
    <3>1. j \in 1 .. n
      BY <1>1, <2>3, GrownTagged
    <3>2. Depth(j)' = Depth(j) /\ j # n + 1
      BY <1>1, <3>1, GrownDepth
    <3>3. QED
      BY <2>1, <2>2, <2>3, <3>2, GrownTagged DEF Ends
  <2>4. CASE j \notin Tagged("end") /\ j = n + 1 /\ event.tag = "end"
    <3>1. Depth(j)' = Depth(n) - 1 /\ j > i
      BY <1>1, <2>4, GrownDepth
    <3>2. j \in Tagged("end")'
      BY <1>1, <2>4, GrownTagged
    <3>3. Depth(n) - 1 = Depth(i) - 1 <=> Depth(i) = Depth(n)
      BY <2>2
    <3>4. j \notin Ends(i)
      BY <2>4 DEF Ends
    <3>5. QED
      BY <2>1, <2>2, <2>4, <3>1, <3>2, <3>3, <3>4
  <2>5. CASE j \notin Tagged("end") /\ ~(j = n + 1 /\ event.tag = "end")
    <3>1. j \notin Tagged("end")'
      BY <1>1, <2>5, GrownTagged
    <3>2. QED
      BY <2>1, <2>5, <3>1 DEF Ends
  <2>6. QED
    BY <2>3, <2>4, <2>5
<1>4. Ends(n + 1)' = {}
  <2>1. \A j : j \in Tagged("end")' => j \in 1 .. n \/ j = n + 1
    BY <1>1, GrownTagged
  <2>2. \A j : j \in Tagged("end")' => ~(j > n + 1)
    BY <2>1
  <2>3. Ends(n + 1)' = {j \in Tagged("end")' : j > n + 1 /\ Depth(j)' = Depth(n + 1)' - 1}
    BY DEF Ends
  <2>4. QED
    BY <2>2, <2>3
<1>5. QED
  BY <1>1, <1>2, <1>3, <1>4

\* What is inside an element stays so, and nothing more comes after its end.
LEMMA GrownInside ==
  ASSUME NEW n \in Nat, NEW event, Grows(n, event)
  PROVE  /\ \A i \in 0 .. n, j \in 1 .. n : Inside(i, j)' <=> Inside(i, j)
         /\ event.tag # "end" => \A i \in 0 .. n :
              Inside(i, n + 1)' <=> Ends(i) = {}
         /\ \A j \in 1 .. n + 1 : ~Inside(n + 1, j)'
<1>1. n = Len(document)
  BY DEF Grows
<1>2. \A i, j : Inside(i, j)' <=> i < j /\ \A k \in Ends(i)' : j < k
  BY DEF Inside
<1>3. \A i : \A k \in Ends(i) : k \in 1 .. n
  BY <1>1, GrownEnds
<1>4. ASSUME NEW i \in 0 .. n, NEW j \in 1 .. n
      PROVE  Inside(i, j)' <=> Inside(i, j)
  <2>1. \A k : k \in Ends(i)' => k \in Ends(i) \/ k = n + 1
    BY <1>1, GrownEnds
  <2>2. \A k : k \in Ends(i) => k \in Ends(i)'
    BY <1>1, GrownEnds
  <2>3. j < n + 1
    OBVIOUS
  <2>4. QED
    BY <1>2, <2>1, <2>2, <2>3 DEF Inside
<1>5. ASSUME event.tag # "end", NEW i \in 0 .. n
      PROVE  Inside(i, n + 1)' <=> Ends(i) = {}
  <2>1. \A k : k \in Ends(i)' <=> k \in Ends(i)
    BY <1>1, <1>5, GrownEnds
  <2>2. \A k \in Ends(i) : ~(n + 1 < k)
    BY <1>3
  <2>3. i < n + 1
    OBVIOUS
  <2>4. QED
    BY <1>2, <2>1, <2>2, <2>3
<1>6. \A j \in 1 .. n + 1 : ~(n + 1 < j)
  OBVIOUS
<1>7. QED
  BY <1>1, <1>2, <1>4, <1>5, <1>6

\* What a type is shown stays so; a start tag may be shown where nothing but
\* data elements is open.
LEMMA GrownShown ==
  ASSUME NEW n \in Nat, NEW event, Grows(n, event)
  PROVE  /\ \A t : \A i \in 1 .. n : IsData(t, i)' <=> IsData(t, i)
         /\ \A t : \A i \in 0 .. n : \A j :
              j \in Shown(t, i)' <=>
                \/ j \in Shown(t, i)
                \/ /\ j = n + 1
                   /\ event.tag = "start"
                   /\ Ends(i) = {}
                   /\ \A k \in Tagged("start") : Ends(k) = {} /\ Inside(i, k) => IsData(t, k)
         /\ \A t : Shown(t, n + 1)' = {}
<1>1. \A t : \A i \in 1 .. n : IsData(t, i)' <=> IsData(t, i)
  BY GrownPositions DEF IsData
<1>2. /\ \A i : i \in Tagged("start") => i \in 1 .. n
      /\ \A i : i \in Tagged("start")' <=> i \in Tagged("start") \/ (i = n + 1 /\ event.tag = "start")
  BY GrownTagged
<1>3. \A t, i, j : j \in Shown(t, i)' <=>
        /\ j \in Tagged("start")'
        /\ Inside(i, j)'
        /\ \A k \in Tagged("start")' : Inside(i, k)' /\ Inside(k, j)' => IsData(t, k)'
  BY DEF Shown
<1>4. ASSUME NEW t, NEW i \in 0 .. n, NEW j \in 1 .. n
      PROVE  j \in Shown(t, i)' <=> j \in Shown(t, i)
  <2>1. j \in Tagged("start")' <=> j \in Tagged("start")
    BY <1>2
  <2>2. Inside(i, j)' <=> Inside(i, j)
    BY GrownInside
  <2>3. ~Inside(n + 1, j)'
    BY GrownInside
  <2>4. \A k \in 1 .. n : (Inside(i, k)' <=> Inside(i, k)) /\ (Inside(k, j)' <=> Inside(k, j))
    BY GrownInside
  <2>5. (\A k \in Tagged("start")' : Inside(i, k)' /\ Inside(k, j)' => IsData(t, k)')
        <=> (\A k \in Tagged("start") : Inside(i, k) /\ Inside(k, j) => IsData(t, k))
    BY <1>1, <1>2, <2>3, <2>4
  <2>6. QED
    BY <1>3, <2>1, <2>2, <2>5 DEF Shown
<1>5. ASSUME NEW t, NEW i \in 0 .. n
      PROVE  n + 1 \in Shown(t, i)' <=>
               /\ event.tag = "start"
               /\ Ends(i) = {}
               /\ \A k \in Tagged("start") : Ends(k) = {} /\ Inside(i, k) => IsData(t, k)
  <2>1. CASE event.tag # "start"
    BY <1>2, <1>3, <2>1
  <2>2. CASE event.tag = "start"
    <3>1. n + 1 \in Tagged("start")'
      BY <1>2, <2>2
    <3>2. \A k \in 0 .. n : Inside(k, n + 1)' <=> Ends(k) = {}
      BY <2>2, GrownInside
    <3>3. ~Inside(n + 1, n + 1)'
      BY GrownInside
    <3>4. \A k \in 1 .. n : Inside(i, k)' <=> Inside(i, k)
      BY GrownInside
    <3>5. (\A k \in Tagged("start")' : Inside(i, k)' /\ Inside(k, n + 1)' => IsData(t, k)')
          <=> (\A k \in Tagged("start") : Ends(k) = {} /\ Inside(i, k) => IsData(t, k))
      BY <1>1, <1>2, <3>2, <3>3, <3>4
    <3>6. QED
      BY <1>3, <2>2, <3>1, <3>2, <3>5
  <2>3. QED
    BY <2>1, <2>2
<1>6. n + 1 \notin Tagged("start")
  BY <1>2
<1>7. \A t, i, j : j \in Shown(t, i) => j \in 1 .. n
  BY <1>2 DEF Shown
<1>8. \A j : j \in Tagged("start")' => j \in 1 .. n + 1
  BY <1>2
<1>9. \A t, i, j : j \in Shown(t, i)' => j \in 1 .. n \/ j = n + 1
  BY <1>2, <1>3
<1>10. \A t : Shown(t, n + 1)' = {}
  BY <1>3, <1>8, GrownInside
<1>11. ASSUME NEW t, NEW i \in 0 .. n, NEW j
       PROVE  j \in Shown(t, i)' <=>
                \/ j \in Shown(t, i)
                \/ /\ j = n + 1
                   /\ event.tag = "start"
                   /\ Ends(i) = {}
                   /\ \A k \in Tagged("start") : Ends(k) = {} /\ Inside(i, k) => IsData(t, k)
  <2>1. n + 1 \notin 1 .. n
    OBVIOUS
  <2>2. CASE j \in 1 .. n
    BY <1>4, <2>1, <2>2
  <2>3. CASE j = n + 1
    BY <1>5, <1>7, <2>1, <2>3
  <2>4. CASE j \notin 1 .. n /\ j # n + 1
    BY <1>7, <1>9, <2>4
  <2>5. QED
    BY <2>2, <2>3, <2>4
<1>12. QED
  BY <1>1, <1>10, <1>11

-----------------------------------------------------------------------------
(***************************************************************************)
(* The open elements have their start tags in the document.                *)
(***************************************************************************)

\* The start tags of the m open elements, outermost first.
OpenAt(m, starts) ==
  /\ starts \in [1 .. m -> Tagged("start")]
  /\ \A j, k \in 1 .. m : j < k => starts[j] < starts[k]
  /\ \A i \in Tagged("start") : Ends(i) = {} <=> \E k \in 1 .. m : starts[k] = i
  /\ \A i \in Tagged("start"), k \in 1 .. m :
       Inside(i, starts[k]) <=> \E h \in 1 .. m : h < k /\ starts[h] = i
  /\ \A k \in 1 .. m : Depth(starts[k]) = k
  /\ Depth(Len(document)) = m
  /\ Depth(0) = 0
  /\ Ends(0) = {}

\* An open element is innermost.
LEMMA OpenAtStart ==
  ASSUME NEW n \in Nat, NEW event, Grows(n, event), event.tag = "start",
         NEW m \in Nat, NEW starts, OpenAt(m, starts),
         NEW more, more = [k \in 1 .. m + 1 |-> IF k = m + 1 THEN n + 1 ELSE starts[k]]
  PROVE  OpenAt(m + 1, more)'
<1>1. /\ \A i : i \in Tagged("start") => i \in 1 .. n
      /\ \A i : i \in Tagged("start")' <=> i \in Tagged("start") \/ i = n + 1
  BY GrownTagged
<1>2. /\ \A k \in 1 .. m : more[k] = starts[k] /\ starts[k] \in Tagged("start") /\ starts[k] \in 1 .. n
      /\ more[m + 1] = n + 1
      /\ \A k \in 1 .. m + 1 : k \in 1 .. m \/ k = m + 1
      /\ \A k \in 1 .. m : k \in 1 .. m + 1 /\ k # m + 1
      /\ n = Len(document)
  BY <1>1 DEF OpenAt, Grows
<1>3. \A h \in 1 .. n : h < n + 1 /\ h \in 0 .. n /\ h \in 1 .. n + 1
  OBVIOUS
<1>4. more \in [1 .. m + 1 -> Tagged("start")']
  BY <1>1, <1>2
<1>5. \A j, k \in 1 .. m + 1 : j < k => more[j] < more[k]
  <2>1. \A j, k \in 1 .. m : j < k => starts[j] < starts[k]
    BY DEF OpenAt
  <2>2. \A j \in 1 .. m : starts[j] < n + 1
    BY <1>2, <1>3, Zenon
  <2>3. \A j, k \in 1 .. m + 1 : j < k => j \in 1 .. m
    OBVIOUS
  <2>4. QED
    BY <1>2, <2>1, <2>2, <2>3
<1>6. /\ \A i \in 1 .. n : Ends(i)' = {} <=> Ends(i) = {}
      /\ Ends(n + 1)' = {}
      /\ Ends(0)' = {}
  BY GrownEnds DEF OpenAt
<1>7. \A i \in Tagged("start")' : Ends(i)' = {} <=> \E k \in 1 .. m + 1 : more[k] = i
  <2>1. ASSUME NEW i \in Tagged("start")
        PROVE  Ends(i)' = {} <=> \E k \in 1 .. m + 1 : more[k] = i
    <3>1. i \in 1 .. n /\ i # n + 1
      BY <1>1
    <3>2. (\E k \in 1 .. m + 1 : more[k] = i) <=> (\E k \in 1 .. m : starts[k] = i)
      BY <1>2, <3>1
    <3>3. QED
      BY <1>6, <3>1, <3>2 DEF OpenAt
  <2>2. m + 1 \in 1 .. m + 1
    OBVIOUS
  <2>3. QED
    BY <1>1, <1>2, <1>6, <2>1, <2>2
<1>8. ASSUME NEW i \in Tagged("start")', NEW k \in 1 .. m + 1, NEW j, j = more[k]
      PROVE  Inside(i, j)' <=> \E h \in 1 .. m + 1 : h < k /\ more[h] = i
  <2>1. CASE k \in 1 .. m /\ i \in Tagged("start")
    <3>1. j = starts[k] /\ j \in 1 .. n /\ i \in 0 .. n
      BY <1>1, <1>2, <1>3, <1>8, <2>1, Zenon
    <3>2. Inside(i, j)' <=> Inside(i, j)
      BY <3>1, GrownInside
    <3>3. \A h \in 1 .. m + 1 : h < k => h \in 1 .. m
      BY <2>1
    <3>4. (\E h \in 1 .. m + 1 : h < k /\ more[h] = i) <=> (\E h \in 1 .. m : h < k /\ starts[h] = i)
      BY <1>2, <3>3
    <3>5. Inside(i, j) <=> \E h \in 1 .. m : h < k /\ starts[h] = i
      BY <2>1, <3>1 DEF OpenAt
    <3>6. QED
      BY <3>2, <3>4, <3>5
  <2>2. CASE k = m + 1 /\ i \in Tagged("start")
    <3>1. j = n + 1 /\ i \in 0 .. n
      BY <1>1, <1>2, <1>8, <2>2
    <3>2. Inside(i, j)' <=> Ends(i) = {}
      <4>1. event.tag # "end"
        OBVIOUS
      <4>2. Inside(i, n + 1)' <=> Ends(i) = {}
        BY <3>1, <4>1, GrownInside
      <4>3. QED
        BY <3>1, <4>2
    <3>3. \A h \in 1 .. m + 1 : h < k <=> h \in 1 .. m
      BY <2>2
    <3>4. (\E h \in 1 .. m + 1 : h < k /\ more[h] = i) <=> (\E h \in 1 .. m : starts[h] = i)
      BY <1>2, <3>3
    <3>5. QED
      BY <2>2, <3>2, <3>4 DEF OpenAt
  <2>3. CASE i = n + 1
    <3>1. j \in 1 .. n + 1
      <4>1. n + 1 \in 1 .. n + 1
        OBVIOUS
      <4>2. QED
        BY <1>2, <1>3, <1>8, <4>1, Zenon
    <3>2. ~Inside(n + 1, j)'
      BY <3>1, GrownInside
    <3>3. \A h \in 1 .. m + 1 : h < k => h \in 1 .. m
      OBVIOUS
    <3>4. n + 1 \notin 1 .. n
      OBVIOUS
    <3>5. \A h \in 1 .. m + 1 : h < k => more[h] # i
      BY <1>2, <2>3, <3>3, <3>4
    <3>6. QED
      BY <2>3, <3>2, <3>5
  <2>4. QED
    BY <1>1, <1>2, <2>1, <2>2, <2>3
<1>9. ASSUME NEW k \in 1 .. m + 1, NEW j, j = more[k]
      PROVE  Depth(j)' = k
  <2>1. CASE k \in 1 .. m
    <3>1. j = starts[k] /\ j \in 0 .. n
      BY <1>2, <1>3, <1>9, <2>1, Zenon
    <3>2. QED
      BY <2>1, <3>1, GrownDepth DEF OpenAt
  <2>2. CASE k = m + 1
    <3>1. j = n + 1 /\ Depth(n) = m
      BY <1>2, <1>9, <2>2 DEF OpenAt
    <3>2. Depth(n + 1)' = Depth(n) + 1
      BY GrownDepth
    <3>3. QED
      BY <2>2, <3>1, <3>2
  <2>3. QED
    BY <1>2, <2>1, <2>2
<1>10. Depth(Len(document))' = m + 1 /\ Depth(0)' = 0
  <2>1. Depth(Len(document))' = Depth(n + 1)'
    BY GrownPositions
  <2>2. QED
    BY <1>2, <2>1, GrownDepth DEF OpenAt
<1>11. QED
  BY <1>4, <1>5, <1>6, <1>7, <1>8, <1>9, <1>10 DEF OpenAt

\* Other events leave the start tags.
LEMMA SameStarts ==
  ASSUME NEW n \in Nat, NEW event, Grows(n, event), event.tag # "start"
  PROVE  Tagged("start")' = Tagged("start")
<1>1. \A i : i \in Tagged("start")' <=> i \in Tagged("start")
  BY GrownTagged
<1>2. \A S, T : (\A i : i \in S <=> i \in T) => S = T
  OBVIOUS
<1>3. QED
  BY <1>1, <1>2

\* Text leaves them.
LEMMA OpenAtText ==
  ASSUME NEW n \in Nat, NEW event, Grows(n, event), event.tag = "characters",
         NEW m \in Nat, NEW starts, OpenAt(m, starts)
  PROVE  OpenAt(m, starts)'
<1>1. /\ \A i : i \in Tagged("start") => i \in 1 .. n
      /\ Tagged("start")' = Tagged("start")
  <2>1. event.tag # "start"
    OBVIOUS
  <2>2. QED
    BY <2>1, GrownTagged, SameStarts
<1>2. \A k \in 1 .. m : starts[k] \in 1 .. n
  BY <1>1 DEF OpenAt
<1>3. \A i \in 0 .. n : Ends(i)' = {} <=> Ends(i) = {}
  BY GrownEnds
<1>4. \A i \in Tagged("start"), k \in 1 .. m : Inside(i, starts[k])' <=> Inside(i, starts[k])
  BY <1>1, <1>2, GrownInside
<1>5. \A k \in 1 .. m : Depth(starts[k])' = k
  BY <1>2, GrownDepth DEF OpenAt
<1>6. Depth(Len(document))' = m /\ Depth(0)' = 0
  <2>1. Depth(Len(document))' = Depth(n + 1)' /\ n = Len(document)
    BY GrownPositions DEF Grows
  <2>2. QED
    BY <2>1, GrownDepth DEF OpenAt
<1>7. QED
  BY <1>1, <1>3, <1>4, <1>5, <1>6 DEF OpenAt

\* An end tag closes the innermost.
LEMMA OpenAtEnd ==
  ASSUME NEW n \in Nat, NEW event, Grows(n, event), event.tag = "end",
         NEW m \in Nat \ {0}, NEW starts, OpenAt(m, starts),
         NEW fewer, fewer = [k \in 1 .. m - 1 |-> starts[k]]
  PROVE  /\ OpenAt(m - 1, fewer)'
         /\ starts[m] \in Tagged("start")
         /\ \A i \in Tagged("start") : Ends(i)' = {} <=> Ends(i) = {} /\ i # starts[m]
<1>1. /\ \A i : i \in Tagged("start") => i \in 1 .. n
      /\ Tagged("start")' = Tagged("start")
  <2>1. event.tag # "start"
    OBVIOUS
  <2>2. QED
    BY <2>1, GrownTagged, SameStarts
<1>2. /\ \A k \in 1 .. m : starts[k] \in Tagged("start") /\ starts[k] \in 1 .. n
      /\ \A k \in 1 .. m - 1 : fewer[k] = starts[k] /\ k \in 1 .. m /\ k < m
      /\ m \in 1 .. m
      /\ m - 1 \in Nat
      /\ \A k \in 1 .. m : k \in 1 .. m - 1 \/ k = m
      /\ n = Len(document)
  BY <1>1 DEF OpenAt, Grows
<1>3. \A k \in 1 .. m - 1 : starts[k] < starts[m]
  BY <1>2 DEF OpenAt
<1>4. ASSUME NEW i \in Tagged("start")
      PROVE  Ends(i)' = {} <=> Ends(i) = {} /\ i # starts[m]
  <2>1. i \in 0 .. n
    BY <1>1
  <2>2. Ends(i)' = {} <=> Ends(i) = {} /\ Depth(i) # Depth(n)
    BY <2>1, GrownEnds
  <2>3. ASSUME Ends(i) = {}
        PROVE  Depth(i) = Depth(n) <=> i = starts[m]
    <3>1. PICK k \in 1 .. m : starts[k] = i
      BY <2>3 DEF OpenAt
    <3>2. Depth(i) = k /\ Depth(n) = m
      BY <1>2, <3>1 DEF OpenAt
    <3>3. k = m <=> i = starts[m]
      <4>1. CASE k = m
        BY <3>1, <4>1
      <4>2. CASE k # m
        <5>1. starts[k] < starts[m] /\ starts[k] \in Nat
          BY <1>2, <1>3, <4>2
        <5>2. QED
          BY <3>1, <4>2, <5>1
      <4>3. QED
        BY <4>1, <4>2
    <3>4. QED
      BY <3>2, <3>3
  <2>4. QED
    BY <2>2, <2>3
<1>5. \A i \in Tagged("start") : Ends(i)' = {} <=> \E k \in 1 .. m - 1 : fewer[k] = i
  <2>1. \A k \in 1 .. m - 1 : starts[k] # starts[m]
    BY <1>2, <1>3
  <2>2. QED
    BY <1>2, <1>4, <2>1 DEF OpenAt
<1>6. ASSUME NEW i \in Tagged("start"), NEW k \in 1 .. m - 1
      PROVE  Inside(i, fewer[k])' <=> \E h \in 1 .. m - 1 : h < k /\ fewer[h] = i
  <2>1. Inside(i, fewer[k])' <=> Inside(i, starts[k])
    BY <1>1, <1>2, GrownInside
  <2>2. \A h \in 1 .. m : h < k => h \in 1 .. m - 1
    OBVIOUS
  <2>3. (\E h \in 1 .. m - 1 : h < k /\ fewer[h] = i) <=> (\E h \in 1 .. m : h < k /\ starts[h] = i)
    BY <1>2, <2>2
  <2>4. QED
    BY <1>2, <2>1, <2>3 DEF OpenAt
<1>7. \A k \in 1 .. m - 1 : Depth(fewer[k])' = k
  BY <1>2, GrownDepth DEF OpenAt
<1>8. Depth(Len(document))' = m - 1 /\ Depth(0)' = 0
  <2>1. Depth(Len(document))' = Depth(n + 1)'
    BY GrownPositions
  <2>2. QED
    BY <1>2, <2>1, GrownDepth DEF OpenAt
<1>9. Ends(0)' = {}
  <2>1. Depth(0) # Depth(n)
    BY <1>2 DEF OpenAt
  <2>2. QED
    BY <2>1, GrownEnds DEF OpenAt
<1>10. fewer \in [1 .. m - 1 -> Tagged("start")']
  BY <1>1, <1>2
<1>11. \A j, k \in 1 .. m - 1 : j < k => fewer[j] < fewer[k]
  BY <1>2 DEF OpenAt
<1>12. QED
  BY <1>1, <1>2, <1>4, <1>5, <1>6, <1>7, <1>8, <1>9, <1>10, <1>11 DEF OpenAt

\* It is the one that the document names.
LEMMA OpenStartIsLast ==
  ASSUME document \in Seq(Events), NEW m \in Nat \ {0}, NEW starts, OpenAt(m, starts)
  PROVE  OpenStart = starts[m]
<1>1. \A k \in 1 .. m : starts[k] \in Tagged("start") /\ starts[k] \in Nat
  BY DEF OpenAt, Tagged, Positions
<1>2. m \in 1 .. m /\ \A k \in 1 .. m : k = m \/ k < m
  OBVIOUS
<1>3. \A k \in 1 .. m : starts[k] <= starts[m]
  BY <1>1, <1>2 DEF OpenAt
<1> DEFINE Is(i) == i \in Tagged("start") /\ Ends(i) = {} /\ \A j \in Tagged("start") : Ends(j) = {} => j <= i
<1>4. Is(starts[m])
  BY <1>1, <1>2, <1>3 DEF OpenAt
<1>5. \A i : Is(i) => i = starts[m]
  <2>1. \A i \in Tagged("start") : i \in Nat
    BY DEF Tagged, Positions
  <2>2. ASSUME NEW i, Is(i)
        PROVE  i = starts[m]
    <3>1. i <= starts[m] /\ starts[m] <= i
      BY <1>4, <2>2
    <3>2. i \in Nat /\ starts[m] \in Nat
      BY <1>1, <1>2, <2>1, <2>2
    <3>3. QED
      BY <3>1, <3>2
  <2>3. QED
    BY <2>2
<1>6. OpenStart = CHOOSE i : Is(i)
  BY Zenon DEF OpenStart
<1>7. QED
  <2> HIDE DEF Is
  <2>1. QED
    BY <1>4, <1>5, <1>6

-----------------------------------------------------------------------------
(***************************************************************************)
(* The text in an element, and the value of a data element.                *)
(***************************************************************************)
TextsIn(i) == {j \in Tagged("characters") : Inside(i, j)}

\* InOrder lists positions.
LEMMA InOrderIsListed ==
  /\ \A s : InOrder(s) = Listed(Len(document), s)
  /\ \A s : InOrder(s)' = Listed(Len(document'), s)
BY DEF InOrder, Listed, OneIfIn, Positions

\* The last position is listed last.
LEMMA GrownListed ==
  ASSUME NEW n \in Nat, NEW s, \A i \in s : i \in 1 .. n
  PROVE  /\ Listed(n, s) \in Seq(s)
         /\ Listed(n + 1, s) = Listed(n, s)
         /\ Listed(n + 1, s \cup {n + 1}) = Append(Listed(n, s), n + 1)
<1>1. n + 1 \notin s
  <2>1. n + 1 \notin 1 .. n
    OBVIOUS
  <2>2. QED
    BY <2>1
<1>2. Listed(n + 1, s) = Listed(n, s)
  BY <1>1, ListedMore
<1>3. Listed(n, s) \in Seq(s)
  <2>1. s \cap (1 .. n) = s
    OBVIOUS
  <2>2. QED
    BY <2>1, ListedElements
<1>4. PICK r : r = s \cup {n + 1}
  OBVIOUS
<1>5. Listed(n + 1, r) = Append(Listed(n, r), n + 1)
  BY <1>4, ListedMore
<1>6. \A i \in 1 .. n : i \in r <=> i \in s
  <2>1. \A i \in 1 .. n : i # n + 1
    OBVIOUS
  <2>2. QED
    BY <1>4, <2>1
<1>7. Listed(n, r) = Listed(n, s)
  BY <1>6, ListedSame
<1>8. QED
  BY <1>2, <1>3, <1>4, <1>5, <1>7

\* The texts in an element, and what a piece of text adds to them.
LEMMA GrownTexts ==
  ASSUME NEW n \in Nat, NEW event, Grows(n, event)
  PROVE  /\ \A i : TextsIn(i) \subseteq 1 .. n
         /\ \A i \in 0 .. n :
              TextsIn(i)' = IF event.tag = "characters" /\ Ends(i) = {}
                            THEN TextsIn(i) \cup {n + 1} ELSE TextsIn(i)
         /\ TextsIn(n + 1)' = {}
<1>1. /\ \A j : j \in Tagged("characters") => j \in 1 .. n
      /\ \A j : j \in Tagged("characters")' <=>
           j \in Tagged("characters") \/ (j = n + 1 /\ event.tag = "characters")
  BY GrownTagged
<1>2. \A i, j : j \in TextsIn(i)' <=> j \in Tagged("characters")' /\ Inside(i, j)'
  BY DEF TextsIn
<1>3. \A i, j : j \in TextsIn(i) <=> j \in Tagged("characters") /\ Inside(i, j)
  BY DEF TextsIn
<1>4. ASSUME NEW i \in 0 .. n, NEW j
      PROVE  j \in TextsIn(i)' <=>
               j \in TextsIn(i) \/ (j = n + 1 /\ event.tag = "characters" /\ Ends(i) = {})
  <2>1. CASE j \in 1 .. n
    <3>1. Inside(i, j)' <=> Inside(i, j)
      BY <2>1, GrownInside
    <3>2. j # n + 1
      BY <2>1
    <3>3. QED
      BY <1>1, <1>2, <1>3, <3>1, <3>2
  <2>2. CASE j = n + 1
    <3>1. n + 1 \notin 1 .. n
      OBVIOUS
    <3>2. event.tag = "characters" => event.tag # "end"
      OBVIOUS
    <3>3. event.tag = "characters" => (Inside(i, n + 1)' <=> Ends(i) = {})
      BY <3>2, GrownInside
    <3>4. QED
      BY <1>1, <1>2, <1>3, <2>2, <3>1, <3>3
  <2>3. CASE j \notin 1 .. n /\ j # n + 1
    BY <1>1, <1>2, <1>3, <2>3
  <2>4. QED
    BY <2>1, <2>2, <2>3
<1>5. \A j \in 1 .. n + 1 : ~Inside(n + 1, j)'
  BY GrownInside
<1>6. \A j : j \in Tagged("characters")' => j \in 1 .. n + 1
  BY <1>1
<1>7. \A j : j \notin TextsIn(n + 1)'
  BY <1>2, <1>5, <1>6
<1>8. \A i \in 0 .. n :
        TextsIn(i)' = IF event.tag = "characters" /\ Ends(i) = {}
                      THEN TextsIn(i) \cup {n + 1} ELSE TextsIn(i)
  BY <1>4
<1>9. TextsIn(n + 1)' = {}
  BY <1>7
<1>10. QED
  BY <1>1, <1>3, <1>8, <1>9

\* The pieces at the positions of a list.
Pieces(doc, list) == [k \in DOMAIN list |-> doc[list[k]].piece]

\* The last position adds its piece.
AddsPiece(before, after, list, last) ==
  Pieces(after, Append(list, last)) = Append(Pieces(before, list), after[last].piece)

\* The contents of an element are the pieces at the positions of its texts.
LEMMA ContentsArePieces ==
  /\ \A i : ContentsOf(i) = Pieces(document, Listed(Len(document), TextsIn(i)))
  /\ \A i : ContentsOf(i)' = Pieces(document', Listed(Len(document'), TextsIn(i)'))
<1>1. \A i : ContentsOf(i) = Pieces(document, InOrder(TextsIn(i)))
  BY DEF ContentsOf, Pieces, TextsIn
<1>2. \A i : ContentsOf(i)' = Pieces(document', InOrder(TextsIn(i))')
  BY DEF ContentsOf, Pieces, TextsIn
<1>3. \A i : InOrder(TextsIn(i))' = Listed(Len(document'), TextsIn(i)')
  BY DEF InOrder, Listed, OneIfIn, Positions
<1>4. QED
  BY <1>1, <1>2, <1>3, InOrderIsListed

\* A list that grows, of positions that keep their piece.
LEMMA MorePieces ==
  ASSUME NEW S, NEW list \in Seq(S), NEW before, NEW after,
         \A i \in S : after[i] = before[i] /\ before[i].piece \in Text,
         NEW last, after[last].piece \in Text
  PROVE  /\ Pieces(before, list) \in Seq(Text)
         /\ Pieces(after, list) = Pieces(before, list)
         /\ AddsPiece(before, after, list, last)
<1>1. /\ Len(list) \in Nat
      /\ DOMAIN list = 1 .. Len(list)
      /\ \A k \in 1 .. Len(list) : list[k] \in S
  OBVIOUS
<1>2. PICK m \in Nat : m = Len(list)
  BY <1>1
<1>3. /\ Pieces(before, list) = [k \in 1 .. m |-> before[list[k]].piece]
      /\ Pieces(after, list) = [k \in 1 .. m |-> after[list[k]].piece]
  BY <1>1, <1>2 DEF Pieces
<1>4. Pieces(before, list) \in Seq(Text) /\ Len(Pieces(before, list)) = m
  BY <1>1, <1>2, <1>3
<1>5. Pieces(after, list) = Pieces(before, list)
  BY <1>1, <1>2, <1>3
<1> DEFINE more == Append(list, last)
<1>6. /\ DOMAIN more = 1 .. m + 1
      /\ \A k \in 1 .. m : more[k] = list[k]
      /\ more[m + 1] = last
  BY <1>1, <1>2
<1>7. Pieces(after, more) = [k \in 1 .. m + 1 |-> after[more[k]].piece]
  BY <1>6 DEF Pieces
<1>8. \A k \in 1 .. m + 1 : k \in 1 .. m \/ k = m + 1
  OBVIOUS
<1>9. \A k \in 1 .. m : k \in 1 .. m + 1 /\ Pieces(after, more)[k] = Pieces(before, list)[k]
  <2> HIDE DEF more
  <2>1. QED
    BY <1>1, <1>2, <1>3, <1>6, <1>7
<1>10. m + 1 \in 1 .. m + 1 /\ Pieces(after, more)[m + 1] = after[last].piece
  <2> HIDE DEF more
  <2>1. QED
    BY <1>6, <1>7
<1>11. PICK pieces \in Seq(Text) : pieces = Pieces(before, list) /\ Len(pieces) = m
  BY <1>4
<1>12. PICK piece \in Text : piece = after[last].piece
  OBVIOUS
<1>13. PICK all : all = Pieces(after, more)
  OBVIOUS
<1>14. /\ \A k \in 1 .. m : all[k] = pieces[k]
       /\ all[m + 1] = piece
       /\ all = [k \in 1 .. m + 1 |-> all[k]]
  <2> HIDE DEF more
  <2>1. all = [k \in 1 .. m + 1 |-> all[k]]
    BY <1>7, <1>13
  <2>2. QED
    BY <1>9, <1>10, <1>11, <1>12, <1>13, <2>1
<1>15. all = Append(pieces, piece)
  <2>1. /\ Append(pieces, piece) \in Seq(Text)
        /\ Len(Append(pieces, piece)) = m + 1
        /\ \A k \in 1 .. m : Append(pieces, piece)[k] = pieces[k]
        /\ Append(pieces, piece)[m + 1] = piece
    BY <1>11
  <2>2. \A k \in 1 .. m + 1 : all[k] = Append(pieces, piece)[k] /\ all[k] \in Text
    <3>1. \A k \in 1 .. m : pieces[k] \in Text
      BY <1>11
    <3>2. QED
      BY <1>8, <1>14, <2>1, <3>1, Zenon
  <2>3. all \in Seq(Text) /\ Len(all) = m + 1
    BY <1>14, <2>2
  <2>4. QED
    BY <2>1, <2>2, <2>3, SeqEqual
<1>16. QED
  BY <1>4, <1>5, <1>11, <1>12, <1>13, <1>15 DEF AddsPiece

\* Text is added to the open elements and to no others.
LEMMA GrownContents ==
  ASSUME NEW n \in Nat, NEW event, Grows(n, event)
  PROVE  /\ \A i : ContentsOf(i) \in Seq(Text)
         /\ \A i \in 0 .. n :
              ContentsOf(i)' = IF event.tag = "characters" /\ Ends(i) = {}
                               THEN Append(ContentsOf(i), event.piece) ELSE ContentsOf(i)
         /\ ContentsOf(n + 1)' = << >>
<1>1. /\ n = Len(document)
      /\ Len(document') = n + 1
      /\ \A i \in 1 .. n : document'[i] = document[i]
      /\ document'[n + 1] = event
      /\ event \in Events
      /\ \A i \in 1 .. n : document[i] \in Events
  BY GrownPositions DEF Grows
<1>2. \A e \in Events : e.tag = "characters" => e.piece \in Text
  BY DEF Events
<1>3. \A i : \A j \in TextsIn(i) : j \in 1 .. n /\ document[j].tag = "characters"
  BY <1>1 DEF TextsIn, Tagged, Positions
<1>4. \A i : \A j \in TextsIn(i) : document'[j] = document[j] /\ document[j].piece \in Text
  BY <1>1, <1>2, <1>3
<1>5. /\ \A i : ContentsOf(i) = Pieces(document, Listed(n, TextsIn(i)))
      /\ \A i : ContentsOf(i)' = Pieces(document', Listed(n + 1, TextsIn(i)'))
  BY <1>1, ContentsArePieces
<1>6. \A i : /\ Listed(n, TextsIn(i)) \in Seq(TextsIn(i))
             /\ Listed(n + 1, TextsIn(i)) = Listed(n, TextsIn(i))
             /\ Listed(n + 1, TextsIn(i) \cup {n + 1}) = Append(Listed(n, TextsIn(i)), n + 1)
  BY <1>3, GrownListed
<1>7. ASSUME NEW i
      PROVE  /\ Pieces(document, Listed(n, TextsIn(i))) \in Seq(Text)
             /\ Pieces(document', Listed(n, TextsIn(i))) = Pieces(document, Listed(n, TextsIn(i)))
  <2>1. PICK s, list : s = TextsIn(i) /\ list = Listed(n, s) /\ list \in Seq(s)
    BY <1>6
  <2>2. \A j \in s : document'[j] = document[j] /\ document[j].piece \in Text
    BY <1>4, <2>1
  <2>3. CASE list = << >>
    <3>1. Pieces(document, list) = << >> /\ Pieces(document', list) = << >>
      BY <2>3 DEF Pieces
    <3>2. QED
      BY <2>1, <3>1
  <2>4. CASE list # << >>
    <3>1. list[1] \in s
      BY <2>1, <2>4
    <3>2. document'[list[1]].piece \in Text
      BY <2>2, <3>1
    <3>3. QED
      BY <2>1, <2>2, <3>2, MorePieces
  <2>5. QED
    BY <2>3, <2>4
<1>8. \A i \in 0 .. n :
        /\ TextsIn(i)' = IF event.tag = "characters" /\ Ends(i) = {}
                         THEN TextsIn(i) \cup {n + 1} ELSE TextsIn(i)
        /\ TextsIn(n + 1)' = {}
  BY GrownTexts
<1>9. ASSUME NEW i \in 0 .. n, event.tag = "characters", Ends(i) = {}
       PROVE  ContentsOf(i)' = Append(ContentsOf(i), event.piece)
  <2>1. PICK s, list : s = TextsIn(i) /\ list = Listed(n, s) /\ list \in Seq(s)
    BY <1>6
  <2>2. \A j \in s : document'[j] = document[j] /\ document[j].piece \in Text
    BY <1>4, <2>1
  <2>3. document'[n + 1].piece \in Text /\ document'[n + 1].piece = event.piece
    BY <1>1, <1>2, <1>9
  <2>4. Pieces(document', Append(list, n + 1)) = Append(Pieces(document, list), document'[n + 1].piece)
    <3>1. PICK before, after, last : before = document /\ after = document' /\ last = n + 1
      OBVIOUS
    <3>2. /\ list \in Seq(s)
          /\ \A j \in s : after[j] = before[j] /\ before[j].piece \in Text
          /\ after[last].piece \in Text
      BY <2>1, <2>2, <2>3, <3>1
    <3>3. AddsPiece(before, after, list, last)
      BY <3>2, MorePieces
    <3>4. QED
      BY <3>1, <3>3 DEF AddsPiece
  <2>5. Listed(n + 1, TextsIn(i)') = Append(list, n + 1)
    BY <1>6, <1>8, <1>9, <2>1
  <2>6. QED
    BY <1>5, <2>1, <2>3, <2>4, <2>5
<1>10. ASSUME NEW i \in 0 .. n, ~(event.tag = "characters" /\ Ends(i) = {})
       PROVE  ContentsOf(i)' = ContentsOf(i)
  BY <1>5, <1>6, <1>7, <1>8, <1>10
<1>11. ContentsOf(n + 1)' = << >>
  <2>1. TextsIn(n + 1)' = {}
    BY GrownTexts
  <2>2. Listed(n + 1, {}) = << >>
    <3>1. \A i \in 0 + 1 .. n + 1 : i \notin {}
      OBVIOUS
    <3>2. 0 <= n + 1 /\ n + 1 \in Nat
      OBVIOUS
    <3>3. Listed(n + 1, {}) = Listed(0, {})
      BY <3>1, <3>2, ListedBeyond
    <3>4. QED
      BY <3>3, ListedMore
  <2>3. Pieces(document', << >>) = << >>
    BY DEF Pieces
  <2>4. QED
    BY <1>5, <2>1, <2>2, <2>3
<1>12. QED
  BY <1>5, <1>7, <1>9, <1>10, <1>11

-----------------------------------------------------------------------------
(***************************************************************************)
(* The link between the document, the open elements and the objects. Two   *)
(* functions that the state determines are quantified over: starts gives   *)
(* the start tags of the open elements, and place the start tag for which  *)
(* an object was made, 0 for the root.                                     *)
(***************************************************************************)
StartOf(starts, h) == IF h = 0 THEN 0 ELSE starts[h]

\* Every object but the root was made for an element, and no other is the
\* child of that element.
ObjectsArePlaced(starts, place) ==
  /\ place \in [Parsables -> Nat]
  /\ place[Root] = 0
  /\ type[Root] = RootType
  /\ \A p \in Parsables : ~Made(p) => data[p] = NoElements /\ children[p] = NoElements
  /\ \A p : Made(p) /\ p # Root =>
       /\ place[p] \in Tagged("start")
       /\ \A k \in 1 .. Len(open) : starts[k] = place[p] =>
            open[k].answer = "handleWithChild" /\ open[k].child = p

\* The answers about the open elements are those of the types, and so are the
\* children.
AnswersAreOfTypes(starts, place) ==
  \A k \in 1 .. Len(open) : open[k].answer # "skipped" =>
    /\ Made(open[k].asked)
    /\ open[k].answer = Answer(type[open[k].asked], document[starts[k]].name)
    /\ open[k].answer = "handleWithChild" =>
         /\ Made(open[k].child)
         /\ open[k].child # Root
         /\ place[open[k].child] = starts[k]
         /\ type[open[k].child] =
              ChildType[type[open[k].asked]]
                       [ChildElement[type[open[k].asked]][document[starts[k]].name]]

Placed(starts, place) ==
  /\ OpenAt(Len(open), starts)
  /\ ObjectsArePlaced(starts, place)
  /\ AnswersAreOfTypes(starts, place)

\* The name of a start tag is known to every type.
LEMMA NamesAreTyped ==
  ASSUME document \in Seq(Events), NEW i \in Tagged("start")
  PROVE  document[i].name \in Names
BY DEF Tagged, Positions, Events

\* What a type answers is what its enums say.
LEMMA AnswerFacts ==
  ASSUME NEW t \in Types, NEW name \in Names
  PROVE  /\ Answer(t, name) = "handleAsData" <=> DataElement[t][name] # Nil
         /\ Answer(t, name) = "handleWithChild" <=>
              DataElement[t][name] = Nil /\ ChildElement[t][name] # Nil
         /\ Answer(t, name) = "ignore" <=>
              DataElement[t][name] = Nil /\ ChildElement[t][name] = Nil
         /\ Answer(t, name) \in Answers
         /\ DataElement[t][name] # Nil => DataElement[t][name] \in Keys
         /\ ChildElement[t][name] # Nil => ChildElement[t][name] \in Keys
<1>1. /\ DataElement[t][name] \in Keys \cup {Nil}
      /\ ChildElement[t][name] \in Keys \cup {Nil}
  BY ElementsAssumption
<1>2. CASE DataElement[t][name] # Nil
  <2>1. Answer(t, name) = "handleAsData"
    BY <1>2 DEF Answer
  <2>2. QED
    BY <1>1, <1>2, <2>1 DEF Answers
<1>3. CASE DataElement[t][name] = Nil /\ ChildElement[t][name] # Nil
  <2>1. Answer(t, name) = "handleWithChild"
    BY <1>3 DEF Answer
  <2>2. QED
    BY <1>1, <1>3, <2>1 DEF Answers
<1>4. CASE DataElement[t][name] = Nil /\ ChildElement[t][name] = Nil
  <2>1. Answer(t, name) = "ignore"
    BY <1>4 DEF Answer
  <2>2. QED
    BY <1>1, <1>4, <2>1 DEF Answers
<1>5. QED
  BY <1>2, <1>3, <1>4

\* The objects whose elements are open.
LEMMA OpenObjects ==
  ASSUME IInv, document \in Seq(Events), NEW starts, NEW place, Placed(starts, place)
  PROVE  /\ \A p : Made(p) /\ Ends(place[p]) = {} =>
              \E h \in 0 .. Len(open) :
                /\ ParserP!HasParsable(open, h)
                /\ p = ParserP!ParsableOf(open, h)
         /\ \A h \in 0 .. Len(open) : ParserP!HasParsable(open, h) =>
              LET p == ParserP!ParsableOf(open, h)
              IN  Made(p) /\ place[p] = StartOf(starts, h) /\ Ends(place[p]) = {}
<1>1. Len(open) \in Nat
  BY StackFacts
<1>2. /\ \A k \in 1 .. Len(open) : starts[k] \in Tagged("start") /\ Ends(starts[k]) = {}
      /\ \A i \in Tagged("start") : Ends(i) = {} => \E k \in 1 .. Len(open) : starts[k] = i
      /\ Ends(0) = {}
  BY DEF Placed, OpenAt
<1>3. Made(Root) /\ place[Root] = 0
  BY RootAssumption, ElementsAssumption DEF Made, Placed, ObjectsArePlaced
<1>4. ASSUME NEW p, Made(p), Ends(place[p]) = {}
      PROVE  \E h \in 0 .. Len(open) :
               ParserP!HasParsable(open, h) /\ p = ParserP!ParsableOf(open, h)
  <2>1. CASE p = Root
    <3>1. 0 \in 0 .. Len(open)
      BY <1>1
    <3>2. QED
      BY <2>1, <3>1 DEF ParserP!HasParsable, ParserP!ParsableOf
  <2>2. CASE p # Root
    <3>1. PICK k \in 1 .. Len(open) : starts[k] = place[p]
      BY <1>2, <1>4, <2>2 DEF Placed, ObjectsArePlaced
    <3>2. open[k].answer = "handleWithChild" /\ open[k].child = p
      BY <1>4, <2>2, <3>1 DEF Placed, ObjectsArePlaced
    <3>3. k \in 0 .. Len(open) /\ k # 0
      BY <1>1
    <3>4. QED
      BY <3>2, <3>3 DEF ParserP!HasParsable, ParserP!ParsableOf, ParserP!Levels
  <2>3. QED
    BY <2>1, <2>2
<1>5. ASSUME NEW h \in 0 .. Len(open), ParserP!HasParsable(open, h),
             NEW p, p = ParserP!ParsableOf(open, h)
      PROVE  Made(p) /\ place[p] = StartOf(starts, h) /\ Ends(place[p]) = {}
  <2>1. CASE h = 0
    BY <1>2, <1>3, <1>5, <2>1 DEF ParserP!ParsableOf, StartOf
  <2>2. CASE h # 0
    <3>1. h \in 1 .. Len(open) /\ open[h].answer = "handleWithChild" /\ p = open[h].child
      BY <1>5, <2>2 DEF ParserP!HasParsable, ParserP!ParsableOf, ParserP!Levels
    <3>2. Made(p) /\ place[p] = starts[h]
      BY <3>1 DEF Placed, AnswersAreOfTypes
    <3>3. QED
      BY <1>2, <2>2, <3>1, <3>2 DEF StartOf
  <2>3. QED
    BY <2>1, <2>2
<1>6. QED
  BY <1>4, <1>5

\* An open element is inside those that enclose it.
LEMMA InsideOpen ==
  ASSUME IInv, NEW starts, NEW place, Placed(starts, place),
         NEW h \in 0 .. Len(open), NEW k \in 1 .. Len(open)
  PROVE  Inside(StartOf(starts, h), starts[k]) <=> h < k
<1>1. Len(open) \in Nat
  BY StackFacts
<1>2. starts[k] \in Tagged("start") /\ \A i \in Tagged("start") : i > 0
  BY DEF Placed, OpenAt, Tagged, Positions
<1>3. CASE h = 0
  <2>1. Ends(0) = {} /\ 0 < starts[k] /\ h < k
    BY <1>1, <1>2, <1>3 DEF Placed, OpenAt
  <2>2. QED
    BY <1>3, <2>1 DEF Inside, StartOf
<1>4. CASE h # 0
  <2>1. h \in 1 .. Len(open) /\ StartOf(starts, h) = starts[h]
    BY <1>1, <1>4 DEF StartOf
  <2>2. starts[h] \in Tagged("start")
    BY <2>1 DEF Placed, OpenAt
  <2>3. Inside(starts[h], starts[k]) <=> \E g \in 1 .. Len(open) : g < k /\ starts[g] = starts[h]
    BY <2>2 DEF Placed, OpenAt
  <2>4. ASSUME NEW g \in 1 .. Len(open), starts[g] = starts[h]
        PROVE  g = h
    <3>1. /\ g < h => starts[g] < starts[h]
          /\ h < g => starts[h] < starts[g]
      BY <2>1 DEF Placed, OpenAt
    <3>2. starts[h] \in Int
      BY <2>2 DEF Tagged, Positions
    <3>3. ~(g < h) /\ ~(h < g)
      BY <2>4, <3>1, <3>2
    <3>4. QED
      BY <1>1, <2>1, <3>3
  <2>5. QED
    BY <2>1, <2>3, <2>4
<1>5. QED
  BY <1>3, <1>4

\* The elements inside that of an object are data to it exactly when they were
\* handled as data: were the first that is not skipped, an element outside
\* would be ignored, and so would the object's own.
LEMMA DataAboveObject ==
  ASSUME IInv, document \in Seq(Events), NEW starts, NEW place, Placed(starts, place),
         NEW h \in 0 .. Len(open), ParserP!HasParsable(open, h),
         NEW p, p = ParserP!ParsableOf(open, h)
  PROVE  (\A k \in 1 .. Len(open) : h < k => IsData(type[p], starts[k]))
         <=> ParserP!DataBetween(open, h, Len(open) + 1)
<1>1. Len(open) \in Nat /\ h \in Nat
  BY StackFacts
<1>2. Made(p) /\ type[p] \in Types
  BY OpenObjects DEF Made, IInv, ElementsType
<1>3. \A k \in 1 .. Len(open) : document[starts[k]].name \in Names
  BY NamesAreTyped DEF Placed, OpenAt
<1>4. ASSUME NEW k \in 1 .. Len(open), h < k, ParserP!DataBetween(open, h, k),
             open[k].answer # "skipped"
      PROVE  open[k].answer = "handleAsData" <=> IsData(type[p], starts[k])
  <2>1. open[k].asked = p
    BY <1>1, <1>4, ParserP!AskedAcrossData, RootAssumption, NilAssumption, BoundsAssumption DEF IInv
  <2>2. open[k].answer = Answer(type[p], document[starts[k]].name)
    BY <1>4, <2>1 DEF Placed, AnswersAreOfTypes
  <2>3. QED
    BY <1>2, <1>3, <2>2, AnswerFacts DEF IsData
<1>5. ASSUME ParserP!DataBetween(open, h, Len(open) + 1), NEW k \in 1 .. Len(open), h < k
      PROVE  IsData(type[p], starts[k])
  <2>1. open[k].answer = "handleAsData" /\ ParserP!DataBetween(open, h, k)
    BY <1>1, <1>5 DEF ParserP!DataBetween
  <2>2. QED
    BY <1>4, <1>5, <2>1
<1>6. ASSUME \A k \in 1 .. Len(open) : h < k => IsData(type[p], starts[k])
      PROVE  ParserP!DataBetween(open, h, Len(open) + 1)
  <2> DEFINE others == {k \in 1 .. Len(open) : h < k /\ open[k].answer # "handleAsData"}
  <2>1. CASE others = {}
    BY <2>1 DEF ParserP!DataBetween
  <2>2. CASE others # {}
    <3>1. others \in SUBSET Nat
      BY <1>1
    <3>2. PICK k \in others : \A j \in others : k <= j
      <4> HIDE DEF others
      <4>1. QED
        BY <2>2, <3>1, LeastElement
    <3>3. k \in 1 .. Len(open) /\ h < k /\ open[k].answer # "handleAsData" /\ k \in Nat
      BY <1>1, <3>2
    <3>4. ParserP!DataBetween(open, h, k)
      <4>1. SUFFICES ASSUME NEW j \in 1 .. Len(open), h < j, j < k, open[j].answer # "handleAsData"
                     PROVE  FALSE
        BY DEF ParserP!DataBetween
      <4>2. j \in others
        BY <4>1
      <4>3. k <= j /\ j \in Nat
        BY <1>1, <3>2, <4>2
      <4>4. QED
        BY <3>3, <4>1, <4>3
    <3>5. open[k].answer = "skipped"
      BY <1>4, <1>6, <3>3, <3>4
    <3>6. PICK i \in ParserP!Levels(open, "ignore") : i < k
      BY <3>3, <3>5, ParserP!SkippedAreInIgnored, RootAssumption, NilAssumption, BoundsAssumption
         DEF IInv
    <3>7. i \in 1 .. Len(open) /\ open[i].answer = "ignore" /\ i \in Nat
      BY <1>1, <3>6 DEF ParserP!Levels
    <3>8. ~(h < i)
      BY <3>4, <3>6, <3>7 DEF ParserP!DataBetween
    <3>9. h # 0 /\ h \in 1 .. Len(open) /\ open[h].answer = "handleWithChild"
      BY <1>1, <3>7, <3>8 DEF ParserP!HasParsable, ParserP!Levels
    <3>10. i # h
      BY <3>7, <3>9
    <3>11. i < h
      BY <1>1, <3>7, <3>8, <3>10
    <3>12. open[h].answer = "skipped"
      BY <3>6, <3>9, <3>11, ParserP!SkippedAreInIgnored, RootAssumption, NilAssumption,
         BoundsAssumption DEF IInv
    <3>13. QED
      BY <3>9, <3>12
  <2>3. QED
    BY <2>1, <2>2
<1>7. QED
  BY <1>5, <1>6

\* A start tag is shown to the object that the dispatcher asks about it.
LEMMA StartIsShown ==
  ASSUME IInv, NEW n \in Nat, NEW event, Grows(n, event), event.tag = "start",
         NEW starts, NEW place, Placed(starts, place),
         NEW p, Made(p), NEW t, t = type[p], NEW i, i = place[p]
  PROVE  n + 1 \in Shown(t, i)' <=> ~ParserP!Skipping(open) /\ ParserP!current = p
<1>1. document \in Seq(Events) /\ Len(open) \in Nat
  BY StackFacts DEF Grows
<1>2. i \in 0 .. n
  <2>1. CASE p = Root
    BY <2>1 DEF Placed, ObjectsArePlaced
  <2>2. CASE p # Root
    <3>1. i \in Tagged("start")
      BY <2>2 DEF Placed, ObjectsArePlaced
    <3>2. QED
      BY <3>1, GrownTagged
  <2>3. QED
    BY <2>1, <2>2
<1>3. /\ \A j \in Tagged("start") : Ends(j) = {} <=> \E k \in 1 .. Len(open) : starts[k] = j
      /\ \A k \in 1 .. Len(open) : starts[k] \in Tagged("start")
  BY DEF Placed, OpenAt
<1>4. n + 1 \notin Shown(t, i)
  <2>1. \A j \in Shown(t, i) : j \in 1 .. n
    BY GrownTagged DEF Shown
  <2>2. n + 1 \notin 1 .. n
    OBVIOUS
  <2>3. QED
    BY <2>1, <2>2
<1>5. n + 1 \in Shown(t, i)' <=>
        /\ Ends(i) = {}
        /\ \A k \in Tagged("start") : Ends(k) = {} /\ Inside(i, k) => IsData(t, k)
  BY <1>2, <1>4, GrownShown
<1>6. (\A k \in Tagged("start") : Ends(k) = {} /\ Inside(i, k) => IsData(t, k))
      <=> \A k \in 1 .. Len(open) : Inside(i, starts[k]) => IsData(t, starts[k])
  BY <1>3
<1>7. ASSUME NEW h \in 0 .. Len(open), ParserP!HasParsable(open, h),
             p = ParserP!ParsableOf(open, h)
      PROVE  n + 1 \in Shown(t, i)' <=> ParserP!DataBetween(open, h, Len(open) + 1)
  <2>1. i = StartOf(starts, h) /\ Ends(i) = {}
    BY <1>1, <1>7, OpenObjects
  <2>2. \A k \in 1 .. Len(open) : Inside(i, starts[k]) <=> h < k
    BY <2>1, InsideOpen
  <2>3. (\A k \in 1 .. Len(open) : h < k => IsData(t, starts[k]))
        <=> ParserP!DataBetween(open, h, Len(open) + 1)
    BY <1>1, <1>7, DataAboveObject
  <2>4. QED
    BY <1>5, <1>6, <2>1, <2>2, <2>3
<1>8. ASSUME n + 1 \in Shown(t, i)'
      PROVE  ~ParserP!Skipping(open) /\ ParserP!current = p
  <2>1. PICK h \in 0 .. Len(open) :
          ParserP!HasParsable(open, h) /\ p = ParserP!ParsableOf(open, h)
    BY <1>1, <1>5, <1>8, OpenObjects
  <2>2. ParserP!DataBetween(open, h, Len(open) + 1)
    BY <1>7, <1>8, <2>1
  <2>3. h \in Nat /\ h <= Len(open)
    BY <1>1
  <2>4. QED
    BY <2>1, <2>2, <2>3, ParserP!CurrentAcrossData, RootAssumption, NilAssumption,
       BoundsAssumption DEF IInv
<1>9. ASSUME ~ParserP!Skipping(open), ParserP!current = p
      PROVE  n + 1 \in Shown(t, i)'
  <2>1. PICK h \in 0 .. Len(open) :
          /\ ParserP!HasParsable(open, h)
          /\ ParserP!current = ParserP!ParsableOf(open, h)
          /\ ParserP!DataBetween(open, h, Len(open) + 1)
    BY <1>9, ParserP!DataAboveCurrent, RootAssumption, NilAssumption, BoundsAssumption DEF IInv
  <2>2. QED
    BY <1>7, <1>9, <2>1
<1>10. QED
  BY <1>8, <1>9

-----------------------------------------------------------------------------
(***************************************************************************)
(* What is read of the elements that have ended so far.                    *)
(***************************************************************************)
Ended(positions) == {j \in positions : Ends(j) # {}}

Values(list) == [k \in DOMAIN list |-> DataValue(list[k])]

DataRead(t, i, key) == Values(Listed(Len(document), Ended(DataShown(t, i, key))))
ChildrenRead(t, i, key) == Listed(Len(document), Ended(ChildrenShown(t, i, key)))

\* A list goes on with one element more.
GoesOn(list, longer, last) == longer = Append(list, last)

\* The elements with a key do not change but by a start tag.
LEMMA GrownKeys ==
  ASSUME NEW n \in Nat, NEW event, Grows(n, event), NEW t, NEW i \in 0 .. n, NEW key
  PROVE  /\ DataShown(t, i, key) \subseteq 1 .. n
         /\ ChildrenShown(t, i, key) \subseteq 1 .. n
         /\ \A j : j \in Ended(DataShown(t, i, key))' <=>
              j \in DataShown(t, i, key) /\ Ends(j)' # {}
         /\ \A j : j \in Ended(ChildrenShown(t, i, key))' <=>
              j \in ChildrenShown(t, i, key) /\ Ends(j)' # {}
<1>1. \A j : j \in Shown(t, i) => j \in 1 .. n
  BY GrownTagged DEF Shown
<1>2. \A j : j \in Shown(t, i)' <=> j \in Shown(t, i) \/ (j = n + 1 /\ j \in Shown(t, i)')
  BY GrownShown
<1>3. /\ \A j \in 1 .. n : document'[j] = document[j]
      /\ \A j \in 1 .. n : IsChild(t, j)' <=> IsChild(t, j)
  <2>1. \A j \in 1 .. n : document'[j] = document[j]
    BY GrownPositions
  <2>2. \A j \in 1 .. n : IsData(t, j)' <=> IsData(t, j)
    BY GrownShown
  <2>3. \A j : IsChild(t, j)' <=> ~IsData(t, j)' /\ ChildElement[t][document'[j].name] # Nil
    BY DEF IsChild
  <2>4. QED
    BY <2>1, <2>2, <2>3 DEF IsChild
<1>4. /\ \A j : j \in DataShown(t, i, key) <=>
           j \in Shown(t, i) /\ DataElement[t][document[j].name] = key
      /\ \A j : j \in DataShown(t, i, key)' <=>
           j \in Shown(t, i)' /\ DataElement[t][document'[j].name] = key
      /\ \A j : j \in ChildrenShown(t, i, key) <=>
           j \in Shown(t, i) /\ IsChild(t, j) /\ ChildElement[t][document[j].name] = key
      /\ \A j : j \in ChildrenShown(t, i, key)' <=>
           j \in Shown(t, i)' /\ IsChild(t, j)' /\ ChildElement[t][document'[j].name] = key
  BY DEF DataShown, ChildrenShown
<1>5. Ends(n + 1)' = {}
  BY GrownEnds
<1>6. /\ \A j : j \in Ended(DataShown(t, i, key))' <=> j \in DataShown(t, i, key)' /\ Ends(j)' # {}
      /\ \A j : j \in Ended(ChildrenShown(t, i, key))' <=>
           j \in ChildrenShown(t, i, key)' /\ Ends(j)' # {}
  BY DEF Ended
<1>7. DataShown(t, i, key) \subseteq 1 .. n /\ ChildrenShown(t, i, key) \subseteq 1 .. n
  BY <1>1, <1>4
<1>8. ASSUME NEW j
      PROVE  j \in Ended(DataShown(t, i, key))' <=> j \in DataShown(t, i, key) /\ Ends(j)' # {}
  <2>1. CASE j \in 1 .. n
    BY <1>1, <1>2, <1>3, <1>4, <1>6, <2>1
  <2>2. CASE j = n + 1
    BY <1>5, <1>6, <2>2
  <2>3. CASE j \notin 1 .. n /\ j # n + 1
    BY <1>1, <1>2, <1>4, <1>6, <2>3
  <2>4. QED
    BY <2>1, <2>2, <2>3
<1>9. ASSUME NEW j
      PROVE  j \in Ended(ChildrenShown(t, i, key))' <=>
               j \in ChildrenShown(t, i, key) /\ Ends(j)' # {}
  <2>1. CASE j \in 1 .. n
    BY <1>1, <1>2, <1>3, <1>4, <1>6, <2>1
  <2>2. CASE j = n + 1
    BY <1>5, <1>6, <2>2
  <2>3. CASE j \notin 1 .. n /\ j # n + 1
    BY <1>1, <1>2, <1>4, <1>6, <2>3
  <2>4. QED
    BY <2>1, <2>2, <2>3
<1>10. QED
  BY <1>7, <1>8, <1>9

\* A data element that has ended keeps its value.
LEMMA GrownDataValue ==
  ASSUME NEW n \in Nat, NEW event, Grows(n, event), NEW j \in 1 .. n,
         Ends(j) # {} \/ event.tag # "characters"
  PROVE  DataValue(j)' = DataValue(j)
<1>1. document'[j] = document[j]
  BY GrownPositions
<1>2. j \in 0 .. n
  OBVIOUS
<1>3. ContentsOf(j)' = ContentsOf(j)
  BY <1>2, GrownContents
<1>4. DataValue(j)' = XMLDataElement(ContentsOf(j)', document'[j].attributes)
  BY DEF DataValue, XMLDataElement
<1>5. QED
  BY <1>1, <1>3, <1>4 DEF DataValue

\* The values of a list whose elements keep theirs.
LEMMA KeptValues ==
  ASSUME NEW S, NEW list \in Seq(S), \A j \in S : DataValue(j)' = DataValue(j),
         NEW last, DataValue(last)' = DataValue(last)
  PROVE  /\ Values(list)' = Values(list)
         /\ GoesOn(Values(list), Values(Append(list, last))', DataValue(last))
<1>1. /\ Len(list) \in Nat
      /\ DOMAIN list = 1 .. Len(list)
      /\ \A k \in 1 .. Len(list) : list[k] \in S
  OBVIOUS
<1>2. PICK m \in Nat : m = Len(list)
  BY <1>1
<1>3. /\ Values(list) = [k \in 1 .. m |-> DataValue(list[k])]
      /\ Values(list)' = [k \in 1 .. m |-> DataValue(list[k])']
  BY <1>1, <1>2 DEF Values
<1>4. Values(list)' = Values(list)
  BY <1>1, <1>2, <1>3
<1>5. PICK more : more = Append(list, last)
  OBVIOUS
<1>6. /\ DOMAIN more = 1 .. m + 1
      /\ \A k \in 1 .. m : more[k] = list[k]
      /\ more[m + 1] = last
  BY <1>1, <1>2, <1>5
<1>7. Values(more)' = [k \in 1 .. m + 1 |-> DataValue(more[k])']
  BY <1>6 DEF Values
<1>8. PICK values, longer, value :
        /\ values = Values(list)
        /\ longer = Values(more)'
        /\ value = DataValue(last)
  OBVIOUS
<1>9. \A k \in 1 .. m : longer[k] = values[k] /\ k \in 1 .. m + 1
  <2>1. ASSUME NEW k \in 1 .. m
        PROVE  longer[k] = values[k] /\ k \in 1 .. m + 1
    <3>1. PICK j : j = more[k]
      OBVIOUS
    <3>2. k \in 1 .. m + 1 /\ j = list[k] /\ j \in S
      BY <1>1, <1>2, <1>6, <3>1
    <3>3. longer[k] = DataValue(j)'
      BY <1>7, <1>8, <3>1, <3>2
    <3>4. values[k] = DataValue(j)
      BY <1>3, <1>8, <3>2
    <3>5. QED
      BY <3>2, <3>3, <3>4
  <2>2. QED
    BY <2>1
<1>10. m + 1 \in 1 .. m + 1 /\ longer[m + 1] = value
  <2>1. m + 1 \in 1 .. m + 1
    OBVIOUS
  <2>2. longer[m + 1] = DataValue(last)'
    BY <1>6, <1>7, <1>8, <2>1
  <2>3. QED
    BY <1>8, <2>1, <2>2
<1>11. longer = Append(values, value)
  <2> DEFINE V == {longer[k] : k \in 1 .. m + 1}
  <2>1. longer = [k \in 1 .. m + 1 |-> longer[k]] /\ values = [k \in 1 .. m |-> values[k]]
    BY <1>3, <1>7, <1>8
  <2>2. \A k \in 1 .. m + 1 : longer[k] \in V
    OBVIOUS
  <2>3. \A k \in 1 .. m : values[k] \in V
    BY <1>9
  <2>4. value \in V
    BY <1>10
  <2> HIDE DEF V
  <2>5. longer \in Seq(V) /\ Len(longer) = m + 1
    BY <2>1, <2>2
  <2>6. values \in Seq(V) /\ Len(values) = m
    BY <2>1, <2>3
  <2>7. /\ Append(values, value) \in Seq(V)
        /\ Len(Append(values, value)) = m + 1
        /\ \A k \in 1 .. m : Append(values, value)[k] = values[k]
        /\ Append(values, value)[m + 1] = value
    BY <2>4, <2>6
  <2>8. \A k \in 1 .. m + 1 : k \in 1 .. m \/ k = m + 1
    OBVIOUS
  <2>9. \A k \in 1 .. m + 1 : longer[k] = Append(values, value)[k]
    BY <1>9, <1>10, <2>7, <2>8
  <2>10. QED
    BY <2>5, <2>7, <2>9, SeqEqual
<1>12. Values(Append(list, last))' = longer
  BY <1>5, <1>8
<1>13. QED
  BY <1>4, <1>8, <1>11, <1>12 DEF GoesOn

\* What is read is the same after a start tag and after text.
LEMMA GrownReading ==
  ASSUME NEW n \in Nat, NEW event, Grows(n, event), event.tag # "end", NEW t, NEW key
  PROVE  /\ \A i \in 0 .. n : /\ DataRead(t, i, key)' = DataRead(t, i, key)
                              /\ ChildrenRead(t, i, key)' = ChildrenRead(t, i, key)
         /\ DataRead(t, n + 1, key)' = << >>
         /\ ChildrenRead(t, n + 1, key)' = << >>
<1>1. n = Len(document) /\ Len(document') = n + 1
  BY GrownPositions DEF Grows
<1>2. \A j \in 1 .. n : Ends(j)' = {} <=> Ends(j) = {}
  BY GrownEnds
<1>3. ASSUME NEW i \in 0 .. n
      PROVE  /\ DataRead(t, i, key)' = DataRead(t, i, key)
             /\ ChildrenRead(t, i, key)' = ChildrenRead(t, i, key)
  <2>1. /\ Ended(DataShown(t, i, key))' = Ended(DataShown(t, i, key))
        /\ Ended(ChildrenShown(t, i, key))' = Ended(ChildrenShown(t, i, key))
    <3>1. \A j : j \in Ended(DataShown(t, i, key))' <=> j \in Ended(DataShown(t, i, key))
      BY <1>2, GrownKeys DEF Ended
    <3>2. \A j : j \in Ended(ChildrenShown(t, i, key))' <=> j \in Ended(ChildrenShown(t, i, key))
      BY <1>2, GrownKeys DEF Ended
    <3>3. \A S, T : (\A j : j \in S <=> j \in T) => S = T
      OBVIOUS
    <3>4. QED
      BY <3>1, <3>2, <3>3
  <2>2. PICK s, r : s = Ended(DataShown(t, i, key)) /\ r = Ended(ChildrenShown(t, i, key))
    OBVIOUS
  <2>3. (\A j \in s : j \in 1 .. n /\ Ends(j) # {}) /\ (\A j \in r : j \in 1 .. n)
    BY <2>2, GrownKeys DEF Ended
  <2>4. PICK list : list = Listed(n, s)
    OBVIOUS
  <2>5. list \in Seq(s) /\ Listed(n + 1, s) = list /\ Listed(n + 1, r) = Listed(n, r)
    BY <2>3, <2>4, GrownListed
  <2>6. /\ DataRead(t, i, key) = Values(list)
        /\ DataRead(t, i, key)' = Values(list)'
    BY <1>1, <2>1, <2>2, <2>4, <2>5 DEF DataRead
  <2>7. /\ ChildrenRead(t, i, key) = Listed(n, r)
        /\ ChildrenRead(t, i, key)' = Listed(n + 1, r)
    BY <1>1, <2>1, <2>2 DEF ChildrenRead
  <2>8. Values(list)' = Values(list)
    <3>1. \A j \in s : DataValue(j)' = DataValue(j)
      BY <2>3, GrownDataValue
    <3>2. CASE list = << >>
      BY <3>2 DEF Values
    <3>3. CASE list # << >>
      <4>1. PICK last : last = list[1]
        OBVIOUS
      <4>2. DataValue(last)' = DataValue(last)
        BY <2>5, <3>1, <3>3, <4>1
      <4>3. QED
        BY <2>5, <3>1, <4>2, KeptValues
    <3>4. QED
      BY <3>2, <3>3
  <2>9. QED
    BY <2>5, <2>6, <2>7, <2>8
<1>4. DataRead(t, n + 1, key)' = << >> /\ ChildrenRead(t, n + 1, key)' = << >>
  <2>1. \A j : j \notin Shown(t, n + 1)'
    BY GrownShown
  <2>2. \A j : j \notin Ended(DataShown(t, n + 1, key))' /\ j \notin Ended(ChildrenShown(t, n + 1, key))'
    BY <2>1 DEF Ended, DataShown, ChildrenShown
  <2>3. Ended(DataShown(t, n + 1, key))' = {} /\ Ended(ChildrenShown(t, n + 1, key))' = {}
    BY <2>2
  <2>4. Listed(n + 1, {}) = << >>
    <3>1. \A i \in 0 + 1 .. n + 1 : i \notin {}
      OBVIOUS
    <3>2. 0 <= n + 1 /\ n + 1 \in Nat
      OBVIOUS
    <3>3. Listed(n + 1, {}) = Listed(0, {})
      BY <3>1, <3>2, ListedBeyond
    <3>4. QED
      BY <3>3, ListedMore
  <2>5. PICK none : none = << >>
    OBVIOUS
  <2>6. DataRead(t, n + 1, key)' = Values(none)' /\ ChildrenRead(t, n + 1, key)' = none
    BY <1>1, <2>3, <2>4, <2>5 DEF DataRead, ChildrenRead
  <2>7. Values(none)' = << >>
    BY <2>5 DEF Values
  <2>8. QED
    BY <2>5, <2>6, <2>7
<1>5. QED
  BY <1>3, <1>4

\* An end tag adds the element that it ends to what is read, last.
LEMMA ClosedReading ==
  ASSUME NEW n \in Nat, NEW event, Grows(n, event), event.tag = "end",
         NEW t, NEW key, NEW i \in 0 .. n,
         NEW last \in Tagged("start"), Ends(last) = {},
         \A j \in Tagged("start") : Ends(j)' = {} <=> Ends(j) = {} /\ j # last
  PROVE  /\ last \notin DataShown(t, i, key) =>
              DataRead(t, i, key)' = DataRead(t, i, key)
         /\ last \in DataShown(t, i, key) /\ (\A j \in Ended(DataShown(t, i, key)) : j < last) =>
              GoesOn(DataRead(t, i, key), DataRead(t, i, key)', DataValue(last))
         /\ last \notin ChildrenShown(t, i, key) =>
              ChildrenRead(t, i, key)' = ChildrenRead(t, i, key)
         /\ last \in ChildrenShown(t, i, key) /\ (\A j \in Ended(ChildrenShown(t, i, key)) : j < last) =>
              GoesOn(ChildrenRead(t, i, key), ChildrenRead(t, i, key)', last)
<1>1. n = Len(document) /\ Len(document') = n + 1
  BY GrownPositions DEF Grows
<1>2. PICK D, C : D = DataShown(t, i, key) /\ C = ChildrenShown(t, i, key)
  OBVIOUS
<1>3. \A j \in D \cup C : j \in Tagged("start")
  BY <1>2 DEF DataShown, ChildrenShown, Shown
<1>4. \A j \in D \cup C : j \in 1 .. n
  BY <1>3, GrownTagged
<1>5. last \in 1 .. n
  BY GrownTagged
<1>6. \A j \in D \cup C : Ends(j)' # {} <=> Ends(j) # {} \/ j = last
  BY <1>3, Zenon
<1>7. PICK d, c : d = Ended(D) /\ c = Ended(C)
  OBVIOUS
<1>8. /\ \A j : j \in d <=> j \in D /\ Ends(j) # {}
      /\ \A j : j \in c <=> j \in C /\ Ends(j) # {}
  BY <1>7 DEF Ended
<1>9. last \notin d /\ last \notin c
  BY <1>8
<1>10. PICK dd, cc : dd = Ended(DataShown(t, i, key))' /\ cc = Ended(ChildrenShown(t, i, key))'
  OBVIOUS
<1>11. /\ \A j : j \in dd <=> j \in D /\ Ends(j)' # {}
       /\ \A j : j \in cc <=> j \in C /\ Ends(j)' # {}
  BY <1>2, <1>10, GrownKeys
<1>12. /\ last \notin D => dd = d
       /\ last \in D => dd = d \cup {last}
       /\ last \notin C => cc = c
       /\ last \in C => cc = c \cup {last}
  <2>1. \A j : j \in dd <=> j \in d \/ (j \in D /\ j = last)
    BY <1>6, <1>8, <1>11
  <2>2. \A j : j \in cc <=> j \in c \/ (j \in C /\ j = last)
    BY <1>6, <1>8, <1>11
  <2>3. QED
    BY <2>1, <2>2
<1>13. \A j \in d \cup c : j \in 1 .. n
  BY <1>4, <1>8
<1>14. PICK list : list = Listed(n, d)
  OBVIOUS
<1>15. list \in Seq(d) /\ Listed(n + 1, d) = list /\ Listed(n + 1, c) = Listed(n, c)
  BY <1>13, <1>14, GrownListed
<1>16. /\ DataRead(t, i, key) = Values(list)
       /\ ChildrenRead(t, i, key) = Listed(n, c)
  BY <1>1, <1>2, <1>7, <1>14 DEF DataRead, ChildrenRead
<1>17. ChildrenRead(t, i, key)' = Listed(n + 1, cc)
  BY <1>1, <1>10 DEF ChildrenRead
<1>18. \A j \in 1 .. n : DataValue(j)' = DataValue(j)
  <2>1. event.tag # "characters"
    OBVIOUS
  <2>2. QED
    BY <2>1, GrownDataValue
<1>19. \A j \in d : DataValue(j)' = DataValue(j)
  BY <1>13, <1>18
<1>20. ASSUME last \notin D
       PROVE  DataRead(t, i, key)' = DataRead(t, i, key)
  <2>1. DataRead(t, i, key)' = Values(list)'
    <3>1. Listed(Len(document'), Ended(DataShown(t, i, key))') = list
      BY <1>1, <1>10, <1>12, <1>15, <1>20
    <3>2. QED
      BY <3>1 DEF DataRead
  <2>2. Values(list)' = Values(list)
    BY <1>5, <1>15, <1>18, <1>19, KeptValues
  <2>3. QED
    BY <1>16, <2>1, <2>2
<1>21. ASSUME last \in D, \A j \in d : j < last
       PROVE  GoesOn(DataRead(t, i, key), DataRead(t, i, key)', DataValue(last))
  <2>1. Listed(n, d \cup {last}) = Append(Listed(n, d), last)
    BY <1>5, <1>13, <1>21, ListedInsert
  <2>2. Listed(n + 1, d \cup {last}) = Listed(n, d \cup {last})
    <3>1. PICK s : s = d \cup {last}
      OBVIOUS
    <3>2. \A j \in s : j \in 1 .. n
      BY <1>5, <1>13, <3>1
    <3>3. Listed(n + 1, s) = Listed(n, s)
      BY <3>2, GrownListed
    <3>4. QED
      BY <3>1, <3>3
  <2>3. PICK more : more = Append(list, last)
    OBVIOUS
  <2>4. Listed(Len(document'), Ended(DataShown(t, i, key))') = more
    BY <1>1, <1>10, <1>12, <1>14, <1>21, <2>1, <2>2, <2>3
  <2>5. DataRead(t, i, key)' = Values(more)'
    BY <2>4 DEF DataRead
  <2>6. GoesOn(Values(list), Values(Append(list, last))', DataValue(last))
    BY <1>5, <1>15, <1>18, <1>19, KeptValues
  <2>7. QED
    BY <1>16, <2>3, <2>5, <2>6
<1>22. ASSUME last \notin C
       PROVE  ChildrenRead(t, i, key)' = ChildrenRead(t, i, key)
  BY <1>12, <1>15, <1>16, <1>17, <1>22
<1>23. ASSUME last \in C, \A j \in c : j < last
       PROVE  GoesOn(ChildrenRead(t, i, key), ChildrenRead(t, i, key)', last)
  <2>1. Listed(n, c \cup {last}) = Append(Listed(n, c), last)
    BY <1>5, <1>13, <1>23, ListedInsert
  <2>2. Listed(n + 1, c \cup {last}) = Listed(n, c \cup {last})
    <3>1. PICK s : s = c \cup {last}
      OBVIOUS
    <3>2. \A j \in s : j \in 1 .. n
      BY <1>5, <1>13, <3>1
    <3>3. Listed(n + 1, s) = Listed(n, s)
      BY <3>2, GrownListed
    <3>4. QED
      BY <3>1, <3>3
  <2>3. QED
    BY <1>12, <1>16, <1>17, <1>23, <2>1, <2>2 DEF GoesOn
<1>24. QED
  BY <1>2, <1>7, <1>20, <1>21, <1>22, <1>23

-----------------------------------------------------------------------------
(***************************************************************************)
(* The rest of the link.                                                   *)
(***************************************************************************)

\* An open element is shown to the object that was asked about it.
ShownWhenAsked(starts, place) ==
  \A k \in 1 .. Len(open) : \A p : Made(p) =>
    (starts[k] \in Shown(type[p], place[p]) <=> open[k].answer # "skipped" /\ open[k].asked = p)

\* The history of an open data element is what the document has in it.
TextIsCollected(starts) ==
  \A k \in 1 .. Len(open) : open[k].answer = "handleAsData" =>
    /\ open[k].attributes = document[starts[k]].attributes
    /\ open[k].text = ContentsOf(starts[k])

\* No other data has begun in an open data element that is not nested.
NoDataInside(starts, place) ==
  \A k \in 1 .. Len(open) : open[k].answer = "handleAsData" /\ ~open[k].nested =>
    \A p : Made(p) => \A j \in Shown(type[p], place[p]) : starts[k] < j => ~IsData(type[p], j)

\* Objects that were made for a list of elements.
AreFor(objects, t, list, place) ==
  /\ Len(objects) = Len(list)
  /\ \A k \in 1 .. Len(list) :
       Made(objects[k]) /\ place[objects[k]] = list[k] /\ type[objects[k]] = t

\* The objects hold what is read of the elements that have ended.
ObjectsHoldRead(place) ==
  \A p : Made(p) => \A key \in Keys :
    /\ data[p][key] = DataRead(type[p], place[p], key)
    /\ AreFor(children[p][key], ChildType[type[p]][key],
              ChildrenRead(type[p], place[p], key), place)

\* All of the link.
Link(starts, place) ==
  /\ Placed(starts, place)
  /\ ShownWhenAsked(starts, place)
  /\ TextIsCollected(starts)
  /\ NoDataInside(starts, place)
  /\ ObjectsHoldRead(place)

\* After a trap the document is ahead of the open elements; the program has
\* stopped, so nothing is said of it.
Linked ==
  ~trapped => document \in Seq(Events) /\ \E starts, place : Link(starts, place)

-----------------------------------------------------------------------------
(***************************************************************************)
(* A start tag keeps the link.                                             *)
(***************************************************************************)

\* What a start tag does, seen from the document, the open elements and the
\* objects.
StartView(n, m, event) ==
  /\ Grows(n, event)
  /\ event.tag = "start"
  /\ event.name \in Names
  /\ m = Len(open)
  /\ Len(open') = m + 1
  /\ \A k \in 1 .. m :
       /\ open'[k].attributes = open[k].attributes
       /\ open'[k].asked = open[k].asked
       /\ open'[k].answer = open[k].answer
       /\ open'[k].child = open[k].child
       /\ open'[k].text = open[k].text
       /\ open[k].nested => open'[k].nested
       /\ open'[m + 1].answer = "handleAsData" /\ open[k].answer = "handleAsData"
            => open'[k].nested
  /\ open'[m + 1].attributes = event.attributes
  /\ open'[m + 1].text = << >>
  /\ UNCHANGED << data, children >>
  /\ \A p : Made(p) => Made(p)' /\ type'[p] = type[p]
  /\ open'[m + 1].answer # "skipped" <=> ~ParserP!Skipping(open)
  /\ open'[m + 1].answer # "skipped" =>
       /\ open'[m + 1].asked = ParserP!current
       /\ Made(ParserP!current)
       /\ open'[m + 1].answer = Answer(type[ParserP!current], event.name)
  /\ open'[m + 1].answer = "handleWithChild" =>
       /\ open'[m + 1].child \in Parsables
       /\ ~Made(open'[m + 1].child)
       /\ type' = [type EXCEPT ![open'[m + 1].child] =
                     ChildType[type[ParserP!current]]
                              [ChildElement[type[ParserP!current]][event.name]]]
  /\ open'[m + 1].answer # "handleWithChild" => UNCHANGED type

\* One entry of the stack is on top.
LEMMA CurrentIsMade ==
  ASSUME IInv
  PROVE  Made(ParserP!current) /\ \E k \in 1 .. Len(stack) : ParserP!current = stack[k].parseItem
<1>1. Len(stack) \in 1 .. Len(stack) /\ ParserP!current = stack[Len(stack)].parseItem
  BY StackFacts
<1>2. Made(stack[Len(stack)].parseItem)
  BY <1>1 DEF IInv, StackIsApart
<1>3. QED
  BY <1>1, <1>2

\* A start tag makes the document one event longer.
LEMMA StartIsEvent ==
  ASSUME document \in Seq(Events), NEW name \in Names, NEW attributes \in Attributes,
         document' = Append(document, Start(name, attributes))
  PROVE  Grows(Len(document), Start(name, attributes))
BY DEF Grows, Start, Events

\* startElementWithPrefix has this effect in every state of a parse, and never
\* traps.
LEMMA StartTagView ==
  ASSUME IInv, document \in Seq(Events), NEW name \in Names, NEW attributes \in Attributes,
         StartTag(name, attributes)
  PROVE  /\ StartView(Len(document), Len(open), Start(name, attributes))
         /\ ~trapped
<1>1. ParserP!startElementWithPrefix(attributes)
  BY SameStart DEF StartTag
<1>2. PICK m : m = Len(open)
  OBVIOUS
<1>3. ParserP!IInv
  BY DEF IInv
<1>4. ParserP!AddsElement(attributes, m)
  BY <1>1, <1>2, <1>3, ParserP!StartAddsElement, RootAssumption, NilAssumption, BoundsAssumption
<1>5. /\ ~trapped
      /\ m \in Nat
      /\ Len(open') = m + 1
      /\ \A k \in 1 .. m :
           /\ open'[k].attributes = open[k].attributes
           /\ open'[k].asked = open[k].asked
           /\ open'[k].answer = open[k].answer
           /\ open'[k].child = open[k].child
           /\ open'[k].text = open[k].text
           /\ open[k].nested => open'[k].nested
           /\ open'[m + 1].answer = "handleAsData" /\ open[k].answer = "handleAsData"
                => open'[k].nested
      /\ open'[m + 1].attributes = attributes
      /\ open'[m + 1].text = << >>
      /\ ParserP!Skipping(open) => open'[m + 1].answer = "skipped"
      /\ ~ParserP!Skipping(open) => /\ open'[m + 1].answer \in ParserP!Answers
                                    /\ open'[m + 1].asked = ParserP!current
                                    /\ call'.to = ParserP!current
  BY <1>4 DEF ParserP!AddsElement
<1>6. PICK opened : opened = open'[m + 1] /\ opened = Innermost(open')
  BY <1>5 DEF Innermost
<1>7. PICK event : event = Start(name, attributes)
  OBVIOUS
<1>8. /\ Grows(Len(document), event)
      /\ event.tag = "start"
      /\ event.name = name
      /\ event.attributes = attributes
  <2>1. document' = Append(document, Start(name, attributes))
    BY DEF StartTag
  <2>2. QED
    BY <1>7, <2>1, StartIsEvent DEF Start
<1>9. opened.answer # "skipped" <=> ~ParserP!Skipping(open)
  BY <1>5, <1>6 DEF ParserP!Answers
<1>10. PICK q : q = ParserP!current
  OBVIOUS
<1>11. Made(q) /\ \E k \in 1 .. Len(stack) : q = stack[k].parseItem
  BY <1>10, CurrentIsMade
<1>12. CASE opened.answer = "skipped"
  <2>1. UNCHANGED << type, data, children >>
    BY <1>6, <1>12 DEF StartTag, elementVars
  <2>2. \A p : Made(p) => Made(p)' /\ type'[p] = type[p]
    BY <2>1 DEF Made
  <2>3. QED
    BY <1>2, <1>5, <1>6, <1>7, <1>8, <1>9, <1>12, <2>1, <2>2 DEF StartView
<1>13. CASE opened.answer # "skipped"
  <2>1. opened.asked = q /\ call'.to = q
    BY <1>5, <1>6, <1>9, <1>10, <1>13
  <2>2. startElement(q, name, opened.answer, opened.child)
    BY <1>6, <1>13, <2>1 DEF StartTag
  <2>3. UNCHANGED << data, children >> /\ opened.answer = Answer(type[q], name)
    BY <2>2 DEF startElement
  <2>4. opened.answer # "handleWithChild" => UNCHANGED type
    BY <2>2 DEF startElement
  <2>5. opened.answer = "handleWithChild" =>
          /\ opened.child \in Parsables
          /\ ~Made(opened.child)
          /\ type' = [type EXCEPT ![opened.child] = ChildType[type[q]][ChildElement[type[q]][name]]]
    BY <2>2 DEF startElement, Fresh, New, Made
  <2>6. \A p : Made(p) => Made(p)' /\ type'[p] = type[p]
    <3>1. CASE opened.answer # "handleWithChild"
      BY <2>4, <3>1 DEF Made
    <3>2. CASE opened.answer = "handleWithChild"
      BY <2>5, <3>2 DEF Made, IInv, ElementsType
    <3>3. QED
      BY <3>1, <3>2
  <2>7. PICK answer, child : answer = opened.answer /\ child = opened.child
    OBVIOUS
  <2>8. QED
    BY <1>2, <1>5, <1>6, <1>7, <1>8, <1>9, <1>10, <1>11, <1>13, <2>1, <2>3, <2>4, <2>5, <2>6
       DEF StartView
<1>14. QED
  BY <1>5, <1>12, <1>13

\* The objects that were made before an event have their places in the document.
LEMMA PlacesAreBefore ==
  ASSUME NEW n \in Nat, NEW event, Grows(n, event),
         NEW starts, NEW place, ObjectsArePlaced(starts, place)
  PROVE  \A p : Made(p) => p \in Parsables /\ place[p] \in 0 .. n
<1>1. \A i \in Tagged("start") : i \in 1 .. n
  BY GrownTagged
<1>2. 0 \in 0 .. n /\ \A i \in 1 .. n : i \in 0 .. n
  OBVIOUS
<1>3. QED
  BY <1>1, <1>2, Zenon DEF ObjectsArePlaced, Made

\* After a start tag the new element has the next place, and so has the object
\* that was made for it.
Extended(n, m, event, starts, place, more, further) ==
  /\ IInv
  /\ n \in Nat
  /\ m \in Nat
  /\ StartView(n, m, event)
  /\ Link(starts, place)
  /\ more = [k \in 1 .. m + 1 |-> IF k = m + 1 THEN n + 1 ELSE starts[k]]
  /\ further = [p \in Parsables |-> IF Made(p) THEN place[p] ELSE n + 1]

\* The start tags of before are those of all open elements but the new one.
LEMMA ExtendedStarts ==
  ASSUME NEW n, NEW m, NEW event, NEW starts, NEW place, NEW more, NEW further,
         Extended(n, m, event, starts, place, more, further)
  PROVE  /\ n \in Nat /\ m \in Nat /\ Grows(n, event) /\ event.tag = "start"
         /\ Len(open) = m /\ Len(open') = m + 1
         /\ OpenAt(m, starts)
         /\ OpenAt(m + 1, more)'
         /\ \A k \in 1 .. m : /\ k \in 1 .. m + 1
                              /\ more[k] = starts[k]
                              /\ starts[k] \in Tagged("start")
                              /\ starts[k] \in 1 .. n
                              /\ document'[starts[k]] = document[starts[k]]
         /\ more[m + 1] = n + 1
         /\ document'[n + 1] = event
         /\ \A k \in 1 .. m + 1 : k \in 1 .. m \/ k = m + 1
         /\ n + 1 \notin 1 .. n
<1>1. /\ n \in Nat /\ m \in Nat /\ Grows(n, event) /\ event.tag = "start"
      /\ Len(open) = m /\ Len(open') = m + 1
  BY DEF Extended, StartView
<1>2. OpenAt(m, starts)
  BY <1>1 DEF Extended, Link, Placed
<1>3. more = [k \in 1 .. m + 1 |-> IF k = m + 1 THEN n + 1 ELSE starts[k]]
  BY DEF Extended
<1>4. OpenAt(m + 1, more)'
  BY <1>1, <1>2, <1>3, OpenAtStart
<1>5. \A k \in 1 .. m : k \in 1 .. m + 1 /\ more[k] = starts[k]
  BY <1>1, <1>3
<1>6. \A k \in 1 .. m : starts[k] \in Tagged("start") /\ starts[k] \in 1 .. n
  BY <1>1, <1>2, GrownTagged DEF OpenAt
<1>7. m + 1 \in 1 .. m + 1 /\ (\A k \in 1 .. m + 1 : k \in 1 .. m \/ k = m + 1) /\ n + 1 \notin 1 .. n
  BY <1>1
<1>8. more[m + 1] = n + 1
  BY <1>3, <1>7
<1>9. document'[n + 1] = event /\ \A i \in 1 .. n : document'[i] = document[i]
  BY <1>1, GrownPositions
<1>10. QED
  BY <1>1, <1>2, <1>4, <1>5, <1>6, <1>7, <1>8, <1>9

\* The objects of before are made and placed as they were; an object that is
\* made now has the place of the new element.
LEMMA ExtendedObjects ==
  ASSUME NEW n, NEW m, NEW event, NEW starts, NEW place, NEW more, NEW further,
         Extended(n, m, event, starts, place, more, further)
  PROVE  /\ \A p : Made(p) => /\ p \in Parsables
                              /\ further[p] = place[p]
                              /\ place[p] \in 0 .. n
                              /\ Made(p)'
                              /\ type'[p] = type[p]
         /\ \A p : Made(p)' /\ ~Made(p) => /\ p \in Parsables
                                           /\ further[p] = n + 1
                                           /\ open'[m + 1].answer = "handleWithChild"
                                           /\ open'[m + 1].child = p
                                           /\ \A q : Made(q) => q # p
         /\ \A p : Made(p)' => Made(p) \/ ~Made(p)
         /\ further \in [Parsables -> Nat]
<1>1. /\ n \in Nat
      /\ StartView(n, m, event)
      /\ ObjectsArePlaced(starts, place)
      /\ further = [p \in Parsables |-> IF Made(p) THEN place[p] ELSE n + 1]
  BY DEF Extended, Link, Placed
<1>2. \A p : Made(p) => p \in Parsables /\ place[p] \in 0 .. n
  BY <1>1, PlacesAreBefore DEF StartView
<1>3. \A p : Made(p) => Made(p)' /\ type'[p] = type[p]
  BY <1>1 DEF StartView
<1>4. ASSUME NEW p, Made(p)', ~Made(p)
      PROVE  /\ p \in Parsables
             /\ further[p] = n + 1
             /\ open'[m + 1].answer = "handleWithChild"
             /\ open'[m + 1].child = p
  <2>1. p \in Parsables /\ type'[p] # Nil /\ type[p] = Nil
    BY <1>4 DEF Made
  <2>2. open'[m + 1].answer = "handleWithChild"
    BY <1>1, <2>1 DEF StartView
  <2>3. PICK child, new : child = open'[m + 1].child /\ type' = [type EXCEPT ![child] = new]
    BY <1>1, <2>2 DEF StartView
  <2>4. child = p
    BY <2>1, <2>3 DEF Extended, IInv, ElementsType
  <2>5. QED
    BY <1>1, <1>4, <2>1, <2>2, <2>3, <2>4
<1>5. further \in [Parsables -> Nat]
  <2>1. \A p \in Parsables : (IF Made(p) THEN place[p] ELSE n + 1) \in Nat
    <3>1. n + 1 \in Nat /\ \A p \in Parsables : place[p] \in Nat
      BY <1>1 DEF ObjectsArePlaced
    <3>2. QED
      BY <3>1, Zenon
  <2>2. QED
    BY <1>1, <2>1
<1>6. \A p : Made(p) => further[p] = place[p]
  BY <1>1, <1>2
<1>7. QED
  BY <1>2, <1>3, <1>4, <1>5, <1>6

\* The objects are placed.
LEMMA StartObjects ==
  ASSUME NEW n, NEW m, NEW event, NEW starts, NEW place, NEW more, NEW further,
         Extended(n, m, event, starts, place, more, further)
  PROVE  ObjectsArePlaced(more, further)'
<1>1. ObjectsArePlaced(starts, place) /\ StartView(n, m, event)
  BY DEF Extended, Link, Placed
<1>2. /\ further \in [Parsables -> Nat]
      /\ further[Root] = 0
      /\ type'[Root] = RootType
  <2>1. Made(Root)
    BY <1>1, RootAssumption, ElementsAssumption DEF ObjectsArePlaced, Made
  <2>2. QED
    BY <1>1, <2>1, ExtendedObjects DEF ObjectsArePlaced
<1>3. ASSUME NEW p \in Parsables, ~Made(p)'
      PROVE  data'[p] = NoElements /\ children'[p] = NoElements
  <2>1. ~Made(p)
    BY <1>3, ExtendedObjects
  <2>2. UNCHANGED << data, children >>
    BY <1>1 DEF StartView
  <2>3. QED
    BY <1>1, <2>1, <2>2 DEF ObjectsArePlaced
<1>4. /\ n \in Nat /\ m \in Nat /\ Grows(n, event) /\ event.tag = "start"
      /\ Len(open) = m /\ Len(open') = m + 1
      /\ \A k \in 1 .. m : more[k] = starts[k] /\ starts[k] \in 1 .. n
      /\ more[m + 1] = n + 1
      /\ \A k \in 1 .. m + 1 : k \in 1 .. m \/ k = m + 1
      /\ n + 1 \notin 1 .. n
  BY ExtendedStarts
<1>5. /\ \A i : i \in Tagged("start") => i \in Tagged("start")' /\ i \in 1 .. n
      /\ n + 1 \in Tagged("start")'
  BY <1>4, GrownTagged
<1>6. \A k \in 1 .. m : open'[k].answer = open[k].answer /\ open'[k].child = open[k].child
  BY <1>1 DEF StartView
<1>7. ASSUME NEW p, Made(p)', p # Root
      PROVE  /\ further[p] \in Tagged("start")'
             /\ \A k \in 1 .. m + 1 : more[k] = further[p] =>
                  open'[k].answer = "handleWithChild" /\ open'[k].child = p
  <2>1. CASE Made(p)
    <3>1. further[p] = place[p] /\ place[p] \in Tagged("start")
      BY <1>1, <1>7, <2>1, ExtendedObjects DEF ObjectsArePlaced
    <3>2. \A k \in 1 .. m : starts[k] = place[p] =>
            open[k].answer = "handleWithChild" /\ open[k].child = p
      BY <1>1, <1>4, <1>7, <2>1 DEF ObjectsArePlaced
    <3>3. place[p] # n + 1
      BY <1>4, <1>5, <3>1
    <3>4. QED
      BY <1>4, <1>5, <1>6, <3>1, <3>2, <3>3, Zenon
  <2>2. CASE ~Made(p)
    <3>1. /\ further[p] = n + 1
          /\ open'[m + 1].answer = "handleWithChild"
          /\ open'[m + 1].child = p
      BY <1>7, <2>2, ExtendedObjects
    <3>2. QED
      BY <1>4, <1>5, <3>1, Zenon
  <2>3. QED
    BY <2>1, <2>2
<1>8. QED
  BY <1>2, <1>3, <1>4, <1>7 DEF ObjectsArePlaced

\* The answers are those of the types.
LEMMA StartAnswers ==
  ASSUME NEW n, NEW m, NEW event, NEW starts, NEW place, NEW more, NEW further,
         Extended(n, m, event, starts, place, more, further)
  PROVE  AnswersAreOfTypes(more, further)'
<1>1. AnswersAreOfTypes(starts, place) /\ StartView(n, m, event) /\ ObjectsArePlaced(starts, place)
  BY DEF Extended, Link, Placed
<1>2. /\ n \in Nat /\ m \in Nat
      /\ Len(open) = m /\ Len(open') = m + 1
      /\ \A k \in 1 .. m : /\ more[k] = starts[k]
                           /\ document'[starts[k]] = document[starts[k]]
      /\ more[m + 1] = n + 1
      /\ document'[n + 1] = event
      /\ \A k \in 1 .. m + 1 : k \in 1 .. m \/ k = m + 1
  BY ExtendedStarts
<1>3. ASSUME NEW k \in 1 .. m, open'[k].answer # "skipped"
      PROVE  /\ Made(open[k].asked)'
             /\ open'[k].answer = Answer(type'[open'[k].asked], document'[more[k]].name)
             /\ open'[k].answer = "handleWithChild" =>
                  /\ Made(open[k].child)'
                  /\ open'[k].child # Root
                  /\ further[open'[k].child] = more[k]
                  /\ type'[open'[k].child] =
                       ChildType[type'[open'[k].asked]]
                                [ChildElement[type'[open'[k].asked]][document'[more[k]].name]]
  <2>1. /\ open'[k].asked = open[k].asked
        /\ open'[k].answer = open[k].answer
        /\ open'[k].child = open[k].child
    BY <1>1 DEF StartView
  <2>2. PICK q, c, answer, name :
          /\ q = open[k].asked
          /\ c = open[k].child
          /\ answer = open[k].answer
          /\ name = document[starts[k]].name
    OBVIOUS
  <2>3. /\ Made(q)
        /\ answer = Answer(type[q], name)
        /\ answer = "handleWithChild" =>
             /\ Made(c)
             /\ c # Root
             /\ place[c] = starts[k]
             /\ type[c] = ChildType[type[q]][ChildElement[type[q]][name]]
    BY <1>1, <1>2, <1>3, <2>1, <2>2 DEF AnswersAreOfTypes
  <2>4. /\ Made(q)' /\ type'[q] = type[q]
        /\ Made(c) => Made(c)' /\ type'[c] = type[c] /\ further[c] = place[c]
    BY <2>3, ExtendedObjects
  <2>5. document'[more[k]].name = name
    BY <1>2, <2>2
  <2>6. Made(open[k].asked)' /\ (Made(c) => Made(open[k].child)')
    <3>1. Made(open[k].asked)' <=> Made(q)'
      BY <2>1, <2>2 DEF Made
    <3>2. Made(open[k].child)' <=> Made(c)'
      BY <2>1, <2>2 DEF Made
    <3>3. QED
      BY <2>4, <3>1, <3>2
  <2>7. QED
    BY <1>2, <2>1, <2>2, <2>3, <2>4, <2>5, <2>6
<1>4. ASSUME open'[m + 1].answer # "skipped", NEW k, k = m + 1
      PROVE  /\ Made(open[k].asked)'
             /\ open'[k].answer = Answer(type'[open'[k].asked], document'[more[k]].name)
             /\ open'[k].answer = "handleWithChild" =>
                  /\ Made(open[k].child)'
                  /\ open'[k].child # Root
                  /\ further[open'[k].child] = more[k]
                  /\ type'[open'[k].child] =
                       ChildType[type'[open'[k].asked]]
                                [ChildElement[type'[open'[k].asked]][document'[more[k]].name]]
  <2>1. PICK q, c, answer, name :
          /\ q = open'[k].asked
          /\ c = open'[k].child
          /\ answer = open'[k].answer
          /\ name = event.name
    OBVIOUS
  <2>2. q = ParserP!current /\ Made(q) /\ answer = Answer(type[q], name)
    BY <1>1, <1>4, <2>1 DEF StartView
  <2>3. Made(q)' /\ type'[q] = type[q]
    BY <2>2, ExtendedObjects
  <2>4. ASSUME answer = "handleWithChild"
        PROVE  /\ Made(c)'
               /\ c # Root
               /\ further[c] = n + 1
               /\ type'[c] = ChildType[type[q]][ChildElement[type[q]][name]]
    <3>1. /\ c \in Parsables
          /\ ~Made(c)
          /\ type' = [type EXCEPT ![c] = ChildType[type[q]][ChildElement[type[q]][name]]]
      BY <1>1, <1>4, <2>1, <2>2, <2>4 DEF StartView
    <3>2. type'[c] = ChildType[type[q]][ChildElement[type[q]][name]]
      BY <3>1 DEF Extended, IInv, ElementsType
    <3>3. type[q] \in Types /\ name \in Names
      BY <1>1, <2>1, <2>2 DEF Made, Extended, IInv, ElementsType, StartView
    <3>4. ChildElement[type[q]][name] \in Keys
      BY <2>2, <2>4, <3>3, AnswerFacts
    <3>5. type'[c] # Nil
      BY <3>2, <3>3, <3>4, ElementsAssumption
    <3>6. Made(c)'
      BY <3>1, <3>5 DEF Made
    <3>7. c # Root
      <4>1. Made(Root)
        BY <1>1, RootAssumption, ElementsAssumption DEF ObjectsArePlaced, Made
      <4>2. QED
        BY <3>1, <4>1
    <3>8. further[c] = n + 1
      BY <3>1, <3>6, ExtendedObjects
    <3>9. QED
      BY <3>2, <3>6, <3>7, <3>8
  <2>5. document'[more[k]].name = name /\ more[k] = n + 1
    BY <1>2, <1>4, <2>1
  <2>6. Made(open[k].asked)' /\ (answer = "handleWithChild" => Made(open[k].child)')
    <3>1. Made(open[k].asked)' <=> Made(q)'
      BY <2>1 DEF Made
    <3>2. Made(open[k].child)' <=> Made(c)'
      BY <2>1 DEF Made
    <3>3. QED
      BY <2>3, <2>4, <3>1, <3>2
  <2>7. QED
    BY <2>1, <2>2, <2>3, <2>4, <2>5, <2>6
<1>5. QED
  BY <1>2, <1>3, <1>4 DEF AnswersAreOfTypes

\* The new element is shown to the object that is asked, if one is.
LEMMA StartShown ==
  ASSUME NEW n, NEW m, NEW event, NEW starts, NEW place, NEW more, NEW further,
         Extended(n, m, event, starts, place, more, further)
  PROVE  ShownWhenAsked(more, further)'
<1>1. /\ ShownWhenAsked(starts, place) /\ StartView(n, m, event)
      /\ Placed(starts, place) /\ AnswersAreOfTypes(starts, place)
  BY DEF Extended, Link, Placed
<1>2. /\ n \in Nat /\ m \in Nat /\ Grows(n, event) /\ event.tag = "start"
      /\ Len(open) = m /\ Len(open') = m + 1
      /\ \A k \in 1 .. m : more[k] = starts[k] /\ starts[k] \in 1 .. n
      /\ more[m + 1] = n + 1
      /\ \A k \in 1 .. m + 1 : k \in 1 .. m \/ k = m + 1
      /\ n + 1 \notin 1 .. n
  BY ExtendedStarts
<1>3. ASSUME NEW k \in 1 .. m + 1, NEW p, Made(p), NEW t, t = type[p], NEW i, i = place[p]
      PROVE  more[k] \in Shown(t, i)' <=> open'[k].answer # "skipped" /\ open'[k].asked = p
  <2>1. i \in 0 .. n
    BY <1>3, ExtendedObjects
  <2>2. CASE k \in 1 .. m
    <3>1. PICK j \in 1 .. n : j = starts[k] /\ j = more[k] /\ j # n + 1
      BY <1>2, <2>2
    <3>2. j \in Shown(t, i)' <=> j \in Shown(t, i)
      BY <1>2, <2>1, <3>1, GrownShown
    <3>3. j \in Shown(t, i) <=> open[k].answer # "skipped" /\ open[k].asked = p
      BY <1>1, <1>2, <1>3, <2>2, <3>1 DEF ShownWhenAsked
    <3>4. open'[k].answer = open[k].answer /\ open'[k].asked = open[k].asked
      BY <1>1, <2>2 DEF StartView
    <3>5. QED
      BY <3>1, <3>2, <3>3, <3>4
  <2>3. CASE k = m + 1
    <3>1. n + 1 \in Shown(t, i)' <=> ~ParserP!Skipping(open) /\ ParserP!current = p
      BY <1>1, <1>2, <1>3, StartIsShown DEF Extended
    <3>2. /\ open'[k].answer # "skipped" <=> ~ParserP!Skipping(open)
          /\ open'[k].answer # "skipped" => open'[k].asked = ParserP!current
      BY <1>1, <2>3 DEF StartView
    <3>3. more[k] = n + 1
      BY <1>2, <2>3
    <3>4. QED
      BY <3>1, <3>2, <3>3
  <2>4. QED
    BY <1>2, <2>2, <2>3
<1>4. ASSUME NEW k \in 1 .. m + 1, NEW p, ~Made(p), NEW t
      PROVE  ~(more[k] \in Shown(t, n + 1)') /\ ~(open'[k].answer # "skipped" /\ open'[k].asked = p)
  <2>1. Shown(t, n + 1)' = {}
    BY <1>2, GrownShown
  <2>2. open'[k].answer # "skipped" => Made(open[k].asked) \/ k = m + 1
    <3>1. CASE k \in 1 .. m
      <4>1. open'[k].answer = open[k].answer
        BY <1>1, <3>1 DEF StartView
      <4>2. QED
        BY <1>1, <1>2, <3>1, <4>1 DEF AnswersAreOfTypes
    <3>2. QED
      BY <1>2, <3>1
  <2>3. CASE k \in 1 .. m
    <3>1. open'[k].answer = open[k].answer /\ open'[k].asked = open[k].asked
      BY <1>1, <2>3 DEF StartView
    <3>2. open[k].answer # "skipped" => Made(open[k].asked)
      BY <1>1, <1>2, <2>3 DEF AnswersAreOfTypes
    <3>3. QED
      BY <1>4, <2>1, <3>1, <3>2
  <2>4. CASE k = m + 1
    <3>1. open'[k].answer # "skipped" => open'[k].asked = ParserP!current /\ Made(ParserP!current)
      BY <1>1, <2>4 DEF StartView
    <3>2. QED
      BY <1>4, <2>1, <3>1
  <2>5. QED
    BY <1>2, <2>3, <2>4
<1>5. ASSUME NEW k \in 1 .. m + 1, NEW p, Made(p)',
             NEW t, t = type'[p], NEW i, i = further[p]
      PROVE  more[k] \in Shown(t, i)' <=> open'[k].answer # "skipped" /\ open'[k].asked = p
  <2>1. CASE Made(p)
    <3>1. t = type[p] /\ i = place[p]
      BY <1>5, <2>1, ExtendedObjects
    <3>2. QED
      BY <1>3, <2>1, <3>1
  <2>2. CASE ~Made(p)
    <3>1. i = n + 1
      BY <1>5, <2>2, ExtendedObjects
    <3>2. QED
      BY <1>4, <2>2, <3>1
  <2>3. QED
    BY <2>1, <2>2
<1>6. ASSUME NEW k \in 1 .. m + 1, NEW p, Made(p)'
      PROVE  more[k] \in Shown(type[p], further[p])' <=>
               open'[k].answer # "skipped" /\ open'[k].asked = p
  <2>1. PICK t, i : t = type'[p] /\ i = further[p]
    OBVIOUS
  <2>2. more[k] \in Shown(t, i)' <=> open'[k].answer # "skipped" /\ open'[k].asked = p
    BY <1>5, <1>6, <2>1
  <2>3. Shown(type[p], further[p])' = Shown(t, i)'
    BY <2>1
  <2>4. QED
    BY <2>2, <2>3
<1>7. QED
  BY <1>2, <1>6 DEF ShownWhenAsked

\* A new element has no text.
LEMMA StartText ==
  ASSUME NEW n, NEW m, NEW event, NEW starts, NEW place, NEW more, NEW further,
         Extended(n, m, event, starts, place, more, further)
  PROVE  TextIsCollected(more)'
<1>1. TextIsCollected(starts) /\ StartView(n, m, event)
  BY DEF Extended, Link
<1>2. /\ n \in Nat /\ m \in Nat /\ Grows(n, event) /\ event.tag = "start"
      /\ Len(open) = m /\ Len(open') = m + 1
      /\ \A k \in 1 .. m : /\ more[k] = starts[k]
                           /\ starts[k] \in 1 .. n
                           /\ document'[starts[k]] = document[starts[k]]
      /\ more[m + 1] = n + 1
      /\ document'[n + 1] = event
      /\ \A k \in 1 .. m + 1 : k \in 1 .. m \/ k = m + 1
  BY ExtendedStarts
<1>3. /\ \A i \in 1 .. n : ContentsOf(i)' = ContentsOf(i)
      /\ ContentsOf(n + 1)' = << >>
  <2>1. \A i \in 1 .. n : i \in 0 .. n
    OBVIOUS
  <2>2. event.tag # "characters"
    BY <1>2
  <2>3. QED
    BY <1>2, <2>1, <2>2, GrownContents
<1>4. ASSUME NEW k \in 1 .. m + 1, open'[k].answer = "handleAsData", NEW i, i = more[k]
      PROVE  open'[k].attributes = document'[i].attributes /\ open'[k].text = ContentsOf(i)'
  <2>1. CASE k \in 1 .. m
    <3>1. /\ open'[k].attributes = open[k].attributes
          /\ open'[k].answer = open[k].answer
          /\ open'[k].text = open[k].text
      BY <1>1, <2>1 DEF StartView
    <3>2. i = starts[k] /\ i \in 1 .. n /\ document'[i] = document[i]
      BY <1>2, <1>4, <2>1
    <3>3. open[k].attributes = document[i].attributes /\ open[k].text = ContentsOf(i)
      BY <1>1, <1>2, <1>4, <2>1, <3>1, <3>2 DEF TextIsCollected
    <3>4. QED
      BY <1>3, <3>1, <3>2, <3>3
  <2>2. CASE k = m + 1
    <3>1. i = n + 1 /\ document'[i] = event
      BY <1>2, <1>4, <2>2
    <3>2. open'[k].attributes = event.attributes /\ open'[k].text = << >>
      BY <1>1, <2>2 DEF StartView
    <3>3. QED
      BY <1>3, <3>1, <3>2
  <2>3. QED
    BY <1>2, <2>1, <2>2
<1>5. ASSUME NEW k \in 1 .. m + 1, open'[k].answer = "handleAsData"
      PROVE  /\ open'[k].attributes = document'[more[k]].attributes
             /\ open'[k].text = ContentsOf(more[k])'
  <2>1. PICK i : i = more[k]
    OBVIOUS
  <2>2. open'[k].attributes = document'[i].attributes /\ open'[k].text = ContentsOf(i)'
    BY <1>4, <1>5, <2>1
  <2>3. QED
    BY <2>1, <2>2
<1>6. QED
  BY <1>2, <1>5 DEF TextIsCollected

\* Data that begins in a data element makes that one nested.
LEMMA StartNested ==
  ASSUME NEW n, NEW m, NEW event, NEW starts, NEW place, NEW more, NEW further,
         Extended(n, m, event, starts, place, more, further)
  PROVE  NoDataInside(more, further)'
<1>1. NoDataInside(starts, place) /\ StartView(n, m, event) /\ Placed(starts, place)
  BY DEF Extended, Link
<1>2. /\ n \in Nat /\ m \in Nat /\ Grows(n, event) /\ event.tag = "start"
      /\ Len(open) = m /\ Len(open') = m + 1
      /\ \A k \in 1 .. m : more[k] = starts[k] /\ starts[k] \in 1 .. n
      /\ more[m + 1] = n + 1
      /\ document'[n + 1] = event
      /\ \A k \in 1 .. m + 1 : k \in 1 .. m \/ k = m + 1
      /\ n + 1 \notin 1 .. n
  BY ExtendedStarts
<1>3. ASSUME NEW k \in 1 .. m + 1, open'[k].answer = "handleAsData", ~open'[k].nested,
             NEW p, Made(p)', NEW t, t = type'[p], NEW i, i = further[p],
             NEW j, j \in Shown(t, i)', more[k] < j
      PROVE  ~IsData(t, j)'
  <2>1. CASE ~Made(p)
    <3>1. Shown(t, n + 1)' = {} /\ i = n + 1
      BY <1>2, <1>3, <2>1, GrownShown, ExtendedObjects
    <3>2. QED
      BY <1>3, <3>1
  <2>2. CASE Made(p)
    <3>1. t = type[p] /\ i = place[p] /\ i \in 0 .. n
      BY <1>3, <2>2, ExtendedObjects
    <3>2. j \in Shown(t, i) \/ j = n + 1
      BY <1>2, <1>3, <3>1, GrownShown
    <3>3. CASE j \in Shown(t, i)
      <4>1. j \in 1 .. n
        BY <1>2, <3>3, GrownTagged DEF Shown
      <4>2. k \in 1 .. m
        <5>1. ~(n + 1 < j)
          BY <1>2, <4>1
        <5>2. QED
          BY <1>2, <1>3, <5>1
      <4>3. open[k].answer = "handleAsData" /\ ~open[k].nested
        BY <1>1, <1>3, <4>2 DEF StartView
      <4>4. ~IsData(t, j)
        BY <1>1, <1>2, <1>3, <2>2, <3>1, <3>3, <4>2, <4>3 DEF NoDataInside
      <4>5. QED
        BY <1>2, <4>1, <4>4, GrownShown
    <3>4. CASE j = n + 1
      <4>1. ~ParserP!Skipping(open) /\ ParserP!current = p
        BY <1>1, <1>2, <1>3, <2>2, <3>1, <3>4, StartIsShown DEF Extended
      <4>2. open'[m + 1].answer = Answer(t, event.name)
        BY <1>1, <3>1, <4>1 DEF StartView
      <4>3. k \in 1 .. m
        <5>1. ~(n + 1 < n + 1)
          BY <1>2
        <5>2. QED
          BY <1>2, <1>3, <3>4, <5>1
      <4>4. open[k].answer = "handleAsData"
        BY <1>1, <1>3, <4>3 DEF StartView
      <4>5. open'[m + 1].answer # "handleAsData"
        BY <1>1, <1>3, <4>3, <4>4 DEF StartView
      <4>6. t \in Types /\ event.name \in Names
        BY <1>1, <2>2, <3>1 DEF Made, Extended, IInv, ElementsType, StartView
      <4>7. DataElement[t][event.name] = Nil
        BY <4>2, <4>5, <4>6, AnswerFacts
      <4>8. IsData(t, j)' <=> DataElement[t][document'[j].name] # Nil
        BY DEF IsData
      <4>9. QED
        BY <1>2, <3>4, <4>7, <4>8
    <3>5. QED
      BY <3>2, <3>3, <3>4
  <2>3. QED
    BY <2>1, <2>2
<1>4. ASSUME NEW k \in 1 .. m + 1, open'[k].answer = "handleAsData", ~open'[k].nested,
             NEW p, Made(p)', NEW j, j \in Shown(type[p], further[p])', more[k] < j
      PROVE  ~IsData(type[p], j)'
  <2>1. PICK t, i : t = type'[p] /\ i = further[p]
    OBVIOUS
  <2>2. j \in Shown(t, i)'
    <3>1. Shown(type[p], further[p])' = Shown(t, i)'
      BY <2>1
    <3>2. QED
      BY <1>4, <3>1
  <2>3. ~IsData(t, j)'
    BY <1>3, <1>4, <2>1, <2>2
  <2>4. IsData(type[p], j)' <=> IsData(t, j)'
    BY <2>1 DEF IsData
  <2>5. QED
    BY <2>3, <2>4
<1>5. QED
  BY <1>2, <1>4 DEF NoDataInside

\* The objects of before keep their types and places.
KeepsObjects(place, further) ==
  \A p : Made(p) => Made(p)' /\ type'[p] = type[p] /\ further[p] = place[p]

\* What the objects of before hold, with the objects of after.
LEMMA AreForStays ==
  ASSUME NEW objects, NEW t, NEW list, NEW place, NEW further,
         AreFor(objects, t, list, place), KeepsObjects(place, further)
  PROVE  AreFor(objects, t, list, further)'
<1>1. ASSUME NEW k \in 1 .. Len(list), NEW p, p = objects[k]
      PROVE  Made(p)' /\ further[p] = list[k] /\ type'[p] = t
  <2>1. Made(p) /\ place[p] = list[k] /\ type[p] = t
    BY <1>1 DEF AreFor
  <2>2. QED
    BY <2>1 DEF KeepsObjects
<1>2. Len(objects) = Len(list)
  BY DEF AreFor
<1>3. \A k \in 1 .. Len(list) :
        Made(objects[k])' /\ further[objects[k]] = list[k] /\ type'[objects[k]] = t
  BY <1>1
<1>4. QED
  BY <1>2, <1>3 DEF AreFor

\* ObjectsHoldRead of the next state, with names for what it speaks of.
LEMMA HeldFromRead ==
  ASSUME NEW place,
         ASSUME NEW p, Made(p)', NEW key \in Keys, NEW t, t = type'[p], NEW i, i = place[p],
                NEW objects, objects = children'[p][key],
                NEW list, list = ChildrenRead(t, i, key)'
         PROVE  /\ data'[p][key] = DataRead(t, i, key)'
                /\ AreFor(objects, ChildType[t][key], list, place)'
  PROVE  ObjectsHoldRead(place)'
<1>1. ASSUME NEW p, Made(p)', NEW key \in Keys
      PROVE  /\ data'[p][key] = DataRead(type[p], place[p], key)'
             /\ AreFor(children[p][key], ChildType[type[p]][key],
                       ChildrenRead(type[p], place[p], key), place)'
  <2>1. PICK t, i : t = type'[p] /\ i = place[p]
    OBVIOUS
  <2>2. PICK objects, list : objects = children'[p][key] /\ list = ChildrenRead(t, i, key)'
    OBVIOUS
  <2>3. /\ data'[p][key] = DataRead(t, i, key)'
        /\ AreFor(objects, ChildType[t][key], list, place)'
    BY <1>1, <2>1, <2>2
  <2>4. /\ DataRead(type[p], place[p], key)' = DataRead(t, i, key)'
        /\ ChildrenRead(type[p], place[p], key)' = list
    BY <2>1, <2>2
  <2>5. AreFor(children[p][key], ChildType[type[p]][key],
               ChildrenRead(type[p], place[p], key), place)'
    BY <2>1, <2>2, <2>3, <2>4
  <2>6. QED
    BY <2>3, <2>4, <2>5
<1>2. QED
  BY <1>1 DEF ObjectsHoldRead

\* What the objects hold is what is read.
LEMMA StartHeld ==
  ASSUME NEW n, NEW m, NEW event, NEW starts, NEW place, NEW more, NEW further,
         Extended(n, m, event, starts, place, more, further)
  PROVE  ObjectsHoldRead(further)'
<1>1. ObjectsHoldRead(place) /\ StartView(n, m, event) /\ ObjectsArePlaced(starts, place)
  BY DEF Extended, Link, Placed
<1>2. n \in Nat /\ Grows(n, event) /\ event.tag # "end"
  BY ExtendedStarts
<1>3. data' = data /\ children' = children
  BY <1>1 DEF StartView
<1>4. KeepsObjects(place, further)
  BY ExtendedObjects DEF KeepsObjects
<1>5. ASSUME NEW p, Made(p)', NEW key \in Keys, NEW t, t = type'[p], NEW i, i = further[p],
             NEW objects, objects = children'[p][key],
             NEW list, list = ChildrenRead(t, i, key)'
      PROVE  /\ data'[p][key] = DataRead(t, i, key)'
             /\ AreFor(objects, ChildType[t][key], list, further)'
  <2>1. CASE Made(p)
    <3>1. t = type[p] /\ i = place[p] /\ i \in 0 .. n
      BY <1>5, <2>1, ExtendedObjects
    <3>2. /\ DataRead(t, i, key)' = DataRead(t, i, key)
          /\ ChildrenRead(t, i, key)' = ChildrenRead(t, i, key)
      BY <1>2, <3>1, GrownReading
    <3>3. /\ data[p][key] = DataRead(t, i, key)
          /\ AreFor(children[p][key], ChildType[t][key], ChildrenRead(t, i, key), place)
      BY <1>1, <2>1, <3>1 DEF ObjectsHoldRead
    <3>4. objects = children[p][key] /\ list = ChildrenRead(t, i, key)
      BY <1>3, <1>5, <3>2
    <3>5. AreFor(objects, ChildType[t][key], list, place)
      BY <3>3, <3>4
    <3>6. AreFor(objects, ChildType[t][key], list, further)'
      BY <1>4, <3>5, AreForStays
    <3>7. QED
      BY <1>3, <3>2, <3>3, <3>6
  <2>2. CASE ~Made(p)
    <3>1. p \in Parsables /\ i = n + 1
      BY <1>5, <2>2, ExtendedObjects
    <3>2. data[p][key] = << >> /\ children[p][key] = << >>
      BY <1>1, <1>5, <2>2, <3>1 DEF ObjectsArePlaced, NoElements
    <3>3. DataRead(t, i, key)' = << >> /\ ChildrenRead(t, i, key)' = << >>
      BY <1>2, <1>5, <3>1, GrownReading
    <3>4. objects = << >> /\ list = << >>
      BY <1>3, <1>5, <3>2, <3>3
    <3>5. AreFor(objects, ChildType[t][key], list, further)'
      BY <3>4 DEF AreFor
    <3>6. QED
      BY <1>3, <3>2, <3>3, <3>5
  <2>3. QED
    BY <2>1, <2>2
<1>6. QED
  BY <1>5, HeldFromRead

\* All of it.
LEMMA StartLink ==
  ASSUME IInv, document \in Seq(Events), NEW name \in Names, NEW attributes \in Attributes,
         StartTag(name, attributes), NEW starts, NEW place, Link(starts, place)
  PROVE  \E more, further : Link(more, further)'
<1>1. PICK n, m, event :
        n = Len(document) /\ m = Len(open) /\ event = Start(name, attributes)
  OBVIOUS
<1>2. n \in Nat /\ m \in Nat
  BY <1>1, StackFacts
<1>3. StartView(n, m, event)
  BY <1>1, StartTagView
<1>4. PICK more, further :
        /\ more = [k \in 1 .. m + 1 |-> IF k = m + 1 THEN n + 1 ELSE starts[k]]
        /\ further = [p \in Parsables |-> IF Made(p) THEN place[p] ELSE n + 1]
  OBVIOUS
<1>5. Extended(n, m, event, starts, place, more, further)
  BY <1>2, <1>3, <1>4 DEF Extended
<1>6. OpenAt(m + 1, more)' /\ Len(open') = m + 1
  BY <1>5, ExtendedStarts
<1>7. OpenAt(Len(open), more)'
  BY <1>6
<1>8. Placed(more, further)'
  BY <1>5, <1>7, StartObjects, StartAnswers DEF Placed
<1>9. Link(more, further)'
  BY <1>5, <1>8, StartShown, StartText, StartNested, StartHeld DEF Link
<1>10. QED
  BY <1>9

-----------------------------------------------------------------------------
(***************************************************************************)
(* Text keeps the link.                                                    *)
(***************************************************************************)

\* Only a start tag is shown to anyone.
LEMMA SameShown ==
  ASSUME NEW n \in Nat, NEW event, Grows(n, event), event.tag # "start",
         NEW t, NEW i \in 0 .. n
  PROVE  /\ Shown(t, i)' = Shown(t, i)
         /\ \A j \in Shown(t, i) : IsData(t, j)' <=> IsData(t, j)
         /\ \A j \in Tagged("start") : document'[j] = document[j]
<1>1. \A j : j \in Shown(t, i)' <=> j \in Shown(t, i)
  BY GrownShown
<1>2. \A j \in Tagged("start") : j \in 1 .. n
  BY GrownTagged
<1>3. \A j \in Shown(t, i) : j \in 1 .. n
  BY <1>2 DEF Shown
<1>4. \A j \in 1 .. n : IsData(t, j)' <=> IsData(t, j)
  BY GrownShown
<1>5. \A j \in 1 .. n : document'[j] = document[j]
  BY GrownPositions
<1>6. Shown(t, i)' = Shown(t, i)
  BY <1>1
<1>7. QED
  BY <1>2, <1>3, <1>4, <1>5, <1>6

\* The answers about elements that stay open are still those of the types.
LEMMA AnswersStay ==
  ASSUME NEW m, m = Len(open), NEW l, l = Len(open'), UNCHANGED type,
         NEW starts, NEW fewer, NEW place, AnswersAreOfTypes(starts, place),
         \A k \in 1 .. l :
           /\ k \in 1 .. m
           /\ fewer[k] = starts[k]
           /\ document'[starts[k]] = document[starts[k]]
           /\ open'[k].asked = open[k].asked
           /\ open'[k].answer = open[k].answer
           /\ open'[k].child = open[k].child
  PROVE  AnswersAreOfTypes(fewer, place)'
<1>1. ASSUME NEW k \in 1 .. l, open'[k].answer # "skipped"
      PROVE  /\ Made(open[k].asked)'
             /\ open'[k].answer = Answer(type[open[k].asked], document[fewer[k]].name)'
             /\ open'[k].answer = "handleWithChild" =>
                  /\ Made(open[k].child)'
                  /\ open'[k].child # Root
                  /\ place[open'[k].child] = fewer[k]
                  /\ type'[open'[k].child] =
                       ChildType[type'[open'[k].asked]]
                                [ChildElement[type'[open'[k].asked]][document'[fewer[k]].name]]
  <2>1. PICK q, c, i, answer, name :
          /\ q = open[k].asked
          /\ c = open[k].child
          /\ i = starts[k]
          /\ answer = open[k].answer
          /\ name = document[starts[k]].name
    OBVIOUS
  <2>2. /\ q = open'[k].asked /\ c = open'[k].child /\ answer = open'[k].answer
        /\ i = fewer[k] /\ name = document'[i].name
        /\ k \in 1 .. Len(open) /\ answer # "skipped"
    BY <1>1, <2>1
  <2>3. /\ Made(q)
        /\ answer = Answer(type[q], name)
        /\ answer = "handleWithChild" =>
             /\ Made(c)
             /\ c # Root
             /\ place[c] = starts[k]
             /\ type[c] = ChildType[type[q]][ChildElement[type[q]][name]]
    BY <2>1, <2>2 DEF AnswersAreOfTypes
  <2>4. Made(open[k].asked)' /\ (Made(c) => Made(open[k].child)')
    BY <2>2, <2>3 DEF Made
  <2>5. Answer(type[open[k].asked], document[fewer[k]].name)' = Answer(type[q], name)
    BY <2>2 DEF Answer
  <2>6. QED
    BY <2>1, <2>2, <2>3, <2>4, <2>5
<1>2. QED
  BY <1>1 DEF AnswersAreOfTypes

\* What a piece of text does, seen from the document, the open elements and the
\* objects.
TextView(n, m, event) ==
  /\ n \in Nat
  /\ m \in Nat
  /\ Grows(n, event)
  /\ event.tag = "characters"
  /\ Len(open) = m
  /\ Len(open') = m
  /\ \A k \in 1 .. m :
       /\ open'[k].attributes = open[k].attributes
       /\ open'[k].asked = open[k].asked
       /\ open'[k].answer = open[k].answer
       /\ open'[k].child = open[k].child
       /\ open'[k].nested = open[k].nested
       /\ open[k].answer = "handleAsData" =>
            open'[k].text = Append(open[k].text, event.piece)
  /\ UNCHANGED << type, data, children >>

\* charactersFound has this effect in every state of a parse, and never traps.
LEMMA CharacterDataView ==
  ASSUME IInv, document \in Seq(Events), NEW piece \in Text, CharacterData(piece)
  PROVE  TextView(Len(document), Len(open), Characters(piece)) /\ ~trapped
<1>1. ParserP!charactersFound(piece)
  BY SameCharacters DEF CharacterData
<1>2. /\ ~trapped
      /\ open' = ParserP!Collect(open, piece)
  BY <1>1 DEF ParserP!charactersFound
<1>3. open \in Seq(ParserP!OpenElement) /\ Len(open) \in Nat
  BY StackFacts
<1>4. PICK event, m : event = Characters(piece) /\ m = Len(open)
  OBVIOUS
<1>5. /\ Len(open') = m
      /\ \A k \in 1 .. m :
           /\ open'[k].attributes = open[k].attributes
           /\ open'[k].asked = open[k].asked
           /\ open'[k].answer = open[k].answer
           /\ open'[k].child = open[k].child
           /\ open'[k].nested = open[k].nested
           /\ open[k].answer = "handleAsData" =>
                open'[k].text = Append(open[k].text, piece)
  BY <1>2, <1>3, <1>4, ParserP!CollectProperties, RootAssumption, NilAssumption, BoundsAssumption
<1>6. event.tag = "characters" /\ event.piece = piece /\ event \in Events
  BY <1>4 DEF Characters, Events
<1>7. Grows(Len(document), event)
  BY <1>4, <1>6 DEF Grows, CharacterData
<1>8. UNCHANGED << type, data, children >>
  BY DEF CharacterData, elementVars
<1>9. Len(document) \in Nat
  OBVIOUS
<1>10. QED
  BY <1>2, <1>3, <1>4, <1>5, <1>6, <1>7, <1>8, <1>9 DEF TextView

\* So a piece of text keeps every part of the link.
LEMMA TextLink ==
  ASSUME IInv, NEW n, NEW m, NEW event, TextView(n, m, event),
         NEW starts, NEW place, Link(starts, place)
  PROVE  Link(starts, place)'
<1>1. /\ n \in Nat /\ m \in Nat /\ Grows(n, event) /\ event.tag = "characters"
      /\ event.tag # "start" /\ event.tag # "end"
      /\ Len(open) = m /\ Len(open') = m
      /\ UNCHANGED << type, data, children >>
  BY DEF TextView
<1>2. /\ OpenAt(m, starts) /\ ObjectsArePlaced(starts, place)
      /\ AnswersAreOfTypes(starts, place) /\ ShownWhenAsked(starts, place)
      /\ TextIsCollected(starts) /\ NoDataInside(starts, place) /\ ObjectsHoldRead(place)
  BY <1>1 DEF Link, Placed
<1>3. \A k \in 1 .. m : starts[k] \in Tagged("start") /\ Ends(starts[k]) = {}
  BY <1>2 DEF OpenAt
<1>4. \A k \in 1 .. m : starts[k] \in 1 .. n /\ starts[k] \in 0 .. n
  BY <1>1, <1>3, GrownTagged
<1>5. \A p : Made(p)' <=> Made(p)
  BY <1>1 DEF Made
<1>6. \A p : Made(p) => place[p] \in 0 .. n
  BY <1>1, <1>2, PlacesAreBefore
<1>7. \A k \in 1 .. m : /\ open'[k].attributes = open[k].attributes
                        /\ open'[k].asked = open[k].asked
                        /\ open'[k].answer = open[k].answer
                        /\ open'[k].child = open[k].child
                        /\ open'[k].nested = open[k].nested
  BY DEF TextView
<1>8. OpenAt(m, starts)'
  BY <1>1, <1>2, OpenAtText
<1>9. Tagged("start")' = Tagged("start")
  BY <1>1, SameStarts
<1>10. \A k \in 1 .. m : document'[starts[k]] = document[starts[k]]
  BY <1>1, <1>4, GrownPositions
<1>11. \A t : \A i \in 0 .. n : /\ Shown(t, i)' = Shown(t, i)
                               /\ \A j \in Shown(t, i) : IsData(t, j)' <=> IsData(t, j)
  BY <1>1, SameShown
<1>12. ObjectsArePlaced(starts, place)'
  BY <1>1, <1>2, <1>5, <1>7, <1>9 DEF ObjectsArePlaced
<1>13. AnswersAreOfTypes(starts, place)'
  BY <1>1, <1>2, <1>7, <1>10, AnswersStay
<1>14. ShownWhenAsked(starts, place)'
  <2>1. ASSUME NEW k \in 1 .. m, NEW p, Made(p), NEW t, t = type[p], NEW i, i = place[p]
        PROVE  starts[k] \in Shown(t, i)' <=> open'[k].answer # "skipped" /\ open'[k].asked = p
    <3>1. Shown(t, i)' = Shown(t, i)
      BY <1>6, <1>11, <2>1
    <3>2. QED
      BY <1>1, <1>2, <1>7, <2>1, <3>1 DEF ShownWhenAsked
  <2>2. ASSUME NEW k \in 1 .. m, NEW p, Made(p)'
        PROVE  starts[k] \in Shown(type[p], place[p])' <=>
                 open'[k].answer # "skipped" /\ open'[k].asked = p
    <3>1. PICK t, i : t = type[p] /\ i = place[p] /\ t = type'[p]
      BY <1>1
    <3>2. Shown(type[p], place[p])' = Shown(t, i)'
      BY <3>1
    <3>3. QED
      BY <1>5, <2>1, <2>2, <3>1, <3>2
  <2>3. QED
    BY <1>1, <2>2 DEF ShownWhenAsked
<1>15. TextIsCollected(starts)'
  <2>1. ASSUME NEW k \in 1 .. m, open'[k].answer = "handleAsData", NEW i, i = starts[k]
        PROVE  /\ open'[k].attributes = document'[i].attributes
               /\ open'[k].text = ContentsOf(i)'
    <3>1. open[k].attributes = document[i].attributes /\ open[k].text = ContentsOf(i)
      BY <1>1, <1>2, <1>7, <2>1 DEF TextIsCollected
    <3>2. open'[k].text = Append(open[k].text, event.piece)
      BY <1>7, <2>1 DEF TextView
    <3>3. ContentsOf(i)' = Append(ContentsOf(i), event.piece)
      BY <1>1, <1>3, <1>4, <2>1, GrownContents
    <3>4. QED
      BY <1>7, <1>10, <2>1, <3>1, <3>2, <3>3
  <2>2. ASSUME NEW k \in 1 .. m, open'[k].answer = "handleAsData"
        PROVE  /\ open'[k].attributes = document'[starts[k]].attributes
               /\ open'[k].text = ContentsOf(starts[k])'
    <3>1. PICK i : i = starts[k]
      OBVIOUS
    <3>2. QED
      BY <2>1, <2>2, <3>1
  <2>3. QED
    BY <1>1, <2>2 DEF TextIsCollected
<1>16. NoDataInside(starts, place)'
  <2>1. ASSUME NEW k \in 1 .. m, open'[k].answer = "handleAsData", ~open'[k].nested,
               NEW p, Made(p), NEW t, t = type[p], NEW i, i = place[p],
               NEW j, j \in Shown(t, i)', starts[k] < j
        PROVE  ~IsData(t, j)'
    <3>1. j \in Shown(t, i) /\ (IsData(t, j)' <=> IsData(t, j))
      BY <1>6, <1>11, <2>1
    <3>2. QED
      BY <1>1, <1>2, <1>7, <2>1, <3>1 DEF NoDataInside
  <2>2. ASSUME NEW k \in 1 .. m, open'[k].answer = "handleAsData", ~open'[k].nested,
               NEW p, Made(p)', NEW j, j \in Shown(type[p], place[p])', starts[k] < j
        PROVE  ~IsData(type[p], j)'
    <3>1. PICK t, i : t = type[p] /\ i = place[p] /\ t = type'[p]
      BY <1>1
    <3>2. Shown(type[p], place[p])' = Shown(t, i)'
      BY <3>1
    <3>3. IsData(type[p], j)' <=> IsData(t, j)'
      BY <3>1 DEF IsData
    <3>4. QED
      BY <1>5, <2>1, <2>2, <3>1, <3>2, <3>3
  <2>3. QED
    BY <1>1, <2>2 DEF NoDataInside
<1>17. ObjectsHoldRead(place)'
  <2>1. KeepsObjects(place, place)
    BY <1>1, <1>5 DEF KeepsObjects
  <2>2. ASSUME NEW p, Made(p)', NEW key \in Keys, NEW t, t = type'[p], NEW i, i = place[p],
               NEW objects, objects = children'[p][key],
               NEW list, list = ChildrenRead(t, i, key)'
        PROVE  /\ data'[p][key] = DataRead(t, i, key)'
               /\ AreFor(objects, ChildType[t][key], list, place)'
    <3>1. Made(p) /\ t = type[p] /\ i \in 0 .. n
      BY <1>1, <1>5, <1>6, <2>2
    <3>2. /\ DataRead(t, i, key)' = DataRead(t, i, key)
          /\ ChildrenRead(t, i, key)' = ChildrenRead(t, i, key)
      BY <1>1, <3>1, GrownReading
    <3>3. /\ data[p][key] = DataRead(t, i, key)
          /\ AreFor(children[p][key], ChildType[t][key], ChildrenRead(t, i, key), place)
      BY <1>2, <2>2, <3>1 DEF ObjectsHoldRead
    <3>4. objects = children[p][key] /\ list = ChildrenRead(t, i, key)
      BY <1>1, <2>2, <3>2
    <3>5. AreFor(objects, ChildType[t][key], list, place)
      BY <3>3, <3>4
    <3>6. AreFor(objects, ChildType[t][key], list, place)'
      BY <2>1, <3>5, AreForStays
    <3>7. QED
      BY <1>1, <3>2, <3>3, <3>6
  <2>3. QED
    BY <2>2, HeldFromRead
<1>18. QED
  BY <1>1, <1>8, <1>12, <1>13, <1>14, <1>15, <1>16, <1>17 DEF Link, Placed

-----------------------------------------------------------------------------
(***************************************************************************)
(* An end tag keeps the link.                                              *)
(***************************************************************************)

\* One array of one object's dictionary has one value more.
Appends(before, after, q, key, value) ==
  /\ \A p \in Parsables : p # q => after[p] = before[p]
  /\ \A k \in Keys :
       after[q][k] = IF k = key THEN Append(before[q][k], value) ELSE before[q][k]

\* The two ways to say it agree.
LEMMA AppendToAppends ==
  ASSUME NEW before, before = [p \in Parsables |-> [k \in Keys |-> before[p][k]]],
         NEW q \in Parsables, NEW key \in Keys \cup {Nil}, NEW value, NEW after,
         after = [before EXCEPT ![q] = AppendTo(@, key, value)]
  PROVE  Appends(before, after, q, key, value)
<1>1. PICK arrays : arrays = AppendTo(before[q], key, value)
  OBVIOUS
<1>2. after = [before EXCEPT ![q] = arrays]
  BY <1>1
<1>3. after[q] = arrays /\ \A p \in Parsables : p # q => after[p] = before[p]
  BY <1>2
<1>4. PICK old : old = before[q] /\ old = [k \in Keys |-> old[k]]
  OBVIOUS
<1>5. arrays = IF key = Nil THEN old ELSE [old EXCEPT ![key] = Append(old[key], value)]
  BY <1>1, <1>4 DEF AppendTo
<1>6. \A k \in Keys : arrays[k] = IF k = key THEN Append(old[k], value) ELSE old[k]
  <2>1. CASE key = Nil
    <3>1. \A k \in Keys : k # key
      BY <2>1, ElementsAssumption
    <3>2. QED
      BY <1>5, <2>1, <3>1
  <2>2. CASE key # Nil
    <3>1. PICK longer : longer = Append(old[key], value)
      OBVIOUS
    <3>2. arrays = [old EXCEPT ![key] = longer]
      BY <1>5, <2>2, <3>1
    <3>3. \A k \in Keys : arrays[k] = IF k = key THEN longer ELSE old[k]
      BY <1>4, <3>2
    <3>4. QED
      BY <3>1, <3>3
  <2>3. QED
    BY <2>1, <2>2
<1>7. QED
  BY <1>3, <1>4, <1>6 DEF Appends

\* What an end tag does, seen from the document, the open elements and the
\* objects.
EndView(n, m, event, last) ==
  LET q == open[m].asked
      name == document[last].name
  IN  /\ n \in Nat
      /\ m \in Nat \ {0}
      /\ Grows(n, event)
      /\ event.tag = "end"
      /\ Len(open) = m
      /\ Len(open') = m - 1
      /\ \A k \in 1 .. m - 1 : open'[k] = open[k]
      /\ UNCHANGED type
      /\ \/ /\ open[m].answer \in {"ignore", "skipped"}
            /\ UNCHANGED << data, children >>
         \/ /\ open[m].answer = "handleAsData"
            /\ ~open[m].nested
            /\ Appends(data, data', q, DataElement[type[q]][name],
                       XMLDataElement(open[m].text, open[m].attributes))
            /\ UNCHANGED children
         \/ /\ open[m].answer = "handleWithChild"
            /\ Appends(children, children', q, ChildElement[type[q]][name], open[m].child)
            /\ UNCHANGED data

\* An end tag makes the document one event longer.
LEMMA EndIsEvent ==
  ASSUME document \in Seq(Events), NEW name \in Names,
         document' = Append(document, End(name))
  PROVE  Grows(Len(document), End(name)) /\ End(name).tag = "end"
BY DEF Grows, End, Events

\* endElementWithPrefix has this effect in every state that is linked to its
\* document, when it does not trap.
LEMMA EndTagView ==
  ASSUME IInv, document \in Seq(Events), EndTag, ~trapped',
         NEW starts, NEW place, Link(starts, place)
  PROVE  /\ ~trapped
         /\ \E name \in Names :
              EndView(Len(document), Len(open), End(name), starts[Len(open)])
<1>1. ParserP!endElementWithPrefix
  BY SameEnd DEF EndTag
<1>2. PICK m, n, q : m = Len(open) /\ n = Len(document) /\ q = open[m].asked
  OBVIOUS
<1>3. /\ ~trapped
      /\ m \in Nat \ {0}
      /\ Len(open') = m - 1
      /\ \A k \in 1 .. m - 1 : open'[k] = open[k]
      /\ \/ open[m].answer \in {"ignore", "skipped"} /\ call' = Nil
         \/ /\ open[m].answer = "handleWithChild"
            /\ call' = ParserP!EndChildElementCall(q, open[m].child)
         \/ /\ open[m].answer = "handleAsData"
            /\ ~open[m].nested
            /\ call' = ParserP!EndDataElementCall(q, open[m].attributes, open[m].text)
  BY <1>1, <1>2, ParserP!EndRemovesElement, RootAssumption, NilAssumption, BoundsAssumption DEF IInv
<1>4. PICK last, name : last = starts[m] /\ name = document[last].name
  OBVIOUS
<1>5. OpenAt(m, starts) /\ AnswersAreOfTypes(starts, place)
  BY <1>2 DEF Link, Placed
<1>6. OpenStart = last
  BY <1>3, <1>4, <1>5, OpenStartIsLast
<1>7. m \in 1 .. m
  BY <1>3
<1>8. last \in Tagged("start")
  BY <1>4, <1>5, <1>7 DEF OpenAt
<1>9. name \in Names
  BY <1>4, <1>8, NamesAreTyped
<1>10. document' = Append(document, End(name))
  BY <1>4, <1>6 DEF EndTag
<1>11. Grows(n, End(name)) /\ End(name).tag = "end" /\ n \in Nat
  BY <1>2, <1>9, <1>10, EndIsEvent
<1>12. open[m].answer # "skipped" =>
         /\ q \in Parsables /\ type[q] \in Types
         /\ DataElement[type[q]][name] \in Keys \cup {Nil}
         /\ ChildElement[type[q]][name] \in Keys \cup {Nil}
  <2>1. SUFFICES ASSUME open[m].answer # "skipped"
                 PROVE  /\ q \in Parsables /\ type[q] \in Types
                        /\ DataElement[type[q]][name] \in Keys \cup {Nil}
                        /\ ChildElement[type[q]][name] \in Keys \cup {Nil}
    OBVIOUS
  <2>2. Made(q)
    BY <1>2, <1>5, <1>7, <2>1 DEF AnswersAreOfTypes
  <2>3. q \in Parsables /\ type[q] \in Types
    BY <2>2 DEF Made, IInv, ElementsType
  <2>4. QED
    BY <1>9, <2>3, ElementsAssumption
<1>13. /\ open[m].text \in Seq(Text)
       /\ open[m].attributes \in Attributes
  <2>1. open[m] \in ParserP!OpenElement
    BY <1>2, <1>7, StackFacts
  <2>2. QED
    BY <2>1 DEF ParserP!OpenElement
<1>14. open[m].answer = "handleWithChild" => open[m].child \in Parsables
  BY <1>2, <1>5, <1>7 DEF AnswersAreOfTypes, Made
<1>15. \/ call' = Nil /\ UNCHANGED elementVars
       \/ /\ call' # Nil /\ call'.op = "endDataElement"
          /\ endDataElement(call'.to, name, call'.attributes, call'.contents)
       \/ /\ call' # Nil /\ call'.op = "endChildElement"
          /\ endChildElement(call'.to, name, call'.child)
  BY <1>4, <1>6 DEF EndTag
<1>16. CASE open[m].answer \in {"ignore", "skipped"} /\ call' = Nil
  <2>1. UNCHANGED << type, data, children >>
    BY <1>15, <1>16 DEF elementVars
  <2>2. QED
    BY <1>2, <1>3, <1>4, <1>9, <1>11, <1>16, <2>1 DEF EndView
<1>17. CASE /\ open[m].answer = "handleAsData"
            /\ ~open[m].nested
            /\ call' = ParserP!EndDataElementCall(q, open[m].attributes, open[m].text)
  <2>1. call' \in [op : {"endDataElement"}, to : Parsables, attributes : Attributes,
                   contents : Seq(Text)]
    BY <1>12, <1>13, <1>17 DEF ParserP!EndDataElementCall
  <2>2. /\ call' # Nil
        /\ call'.op = "endDataElement"
        /\ call'.to = q
        /\ call'.attributes = open[m].attributes
        /\ call'.contents = open[m].text
    BY <1>17, <2>1, NilAssumption DEF ParserP!EndDataElementCall
  <2>3. endDataElement(q, name, open[m].attributes, open[m].text)
    BY <1>15, <2>2
  <2>4. PICK key, value :
          /\ key = DataElement[type[q]][name]
          /\ value = XMLDataElement(open[m].text, open[m].attributes)
    OBVIOUS
  <2>5. /\ data' = [data EXCEPT ![q] = AppendTo(@, key, value)]
        /\ UNCHANGED << type, children >>
    BY <2>3, <2>4 DEF endDataElement
  <2>6. data = [p \in Parsables |-> [k \in Keys |-> data[p][k]]]
    BY DEF IInv, ElementsType
  <2>7. q \in Parsables /\ key \in Keys \cup {Nil}
    BY <1>12, <1>17, <2>4
  <2>8. Appends(data, data', q, key, value)
    BY <2>5, <2>6, <2>7, AppendToAppends
  <2>9. QED
    BY <1>2, <1>3, <1>4, <1>9, <1>11, <1>17, <2>4, <2>5, <2>8 DEF EndView
<1>18. CASE /\ open[m].answer = "handleWithChild"
            /\ call' = ParserP!EndChildElementCall(q, open[m].child)
  <2>1. call' \in [op : {"endChildElement"}, to : Parsables, child : Parsables]
    BY <1>12, <1>14, <1>18 DEF ParserP!EndChildElementCall
  <2>2. /\ call' # Nil
        /\ call'.op = "endChildElement"
        /\ call'.to = q
        /\ call'.child = open[m].child
    BY <1>18, <2>1, NilAssumption DEF ParserP!EndChildElementCall
  <2>3. endChildElement(q, name, open[m].child)
    BY <1>15, <2>2
  <2>4. PICK key, value : key = ChildElement[type[q]][name] /\ value = open[m].child
    OBVIOUS
  <2>5. /\ children' = [children EXCEPT ![q] = AppendTo(@, key, value)]
        /\ UNCHANGED << type, data >>
    BY <2>3, <2>4 DEF endChildElement
  <2>6. children = [p \in Parsables |-> [k \in Keys |-> children[p][k]]]
    BY DEF IInv, ElementsType
  <2>7. q \in Parsables /\ key \in Keys \cup {Nil}
    BY <1>12, <1>18, <2>4
  <2>8. Appends(children, children', q, key, value)
    BY <2>5, <2>6, <2>7, AppendToAppends
  <2>9. QED
    BY <1>2, <1>3, <1>4, <1>9, <1>11, <1>18, <2>4, <2>5, <2>8 DEF EndView
<1>19. QED
  BY <1>3, <1>16, <1>17, <1>18

\* After an end tag the last of the open elements is gone.
Closed(n, m, event, last, starts, place, fewer) ==
  /\ IInv
  /\ EndView(n, m, event, last)
  /\ Link(starts, place)
  /\ last = starts[m]
  /\ fewer = [k \in 1 .. m - 1 |-> starts[k]]

\* The start tags that are left are those of before but the last, whose element
\* has ended now.
LEMMA ClosedFacts ==
  ASSUME NEW n, NEW m, NEW event, NEW last, NEW starts, NEW place, NEW fewer,
         Closed(n, m, event, last, starts, place, fewer)
  PROVE  /\ n \in Nat /\ m \in Nat \ {0} /\ Grows(n, event) /\ event.tag = "end"
         /\ event.tag # "start" /\ event.tag # "characters"
         /\ Len(open) = m /\ Len(open') = m - 1 /\ m \in 1 .. m
         /\ UNCHANGED type
         /\ OpenAt(m, starts)
         /\ OpenAt(m - 1, fewer)'
         /\ last = starts[m] /\ last \in Tagged("start") /\ last \in 1 .. n /\ Ends(last) = {}
         /\ \A j \in Tagged("start") : Ends(j)' = {} <=> Ends(j) = {} /\ j # last
         /\ \A k \in 1 .. m - 1 : /\ k \in 1 .. m
                                  /\ open'[k] = open[k]
                                  /\ fewer[k] = starts[k]
                                  /\ starts[k] \in Tagged("start")
                                  /\ starts[k] \in 0 .. n
                                  /\ document'[starts[k]] = document[starts[k]]
         /\ Tagged("start")' = Tagged("start")
         /\ \A p : Made(p)' <=> Made(p)
         /\ \A p : Made(p) => p \in Parsables /\ place[p] \in 0 .. n
<1>1. /\ n \in Nat /\ m \in Nat \ {0} /\ Grows(n, event) /\ event.tag = "end"
      /\ event.tag # "start" /\ event.tag # "characters"
      /\ Len(open) = m /\ Len(open') = m - 1
      /\ UNCHANGED type
      /\ \A k \in 1 .. m - 1 : open'[k] = open[k]
  BY DEF Closed, EndView
<1>2. OpenAt(m, starts) /\ ObjectsArePlaced(starts, place)
  BY <1>1 DEF Closed, Link, Placed
<1>3. last = starts[m] /\ fewer = [k \in 1 .. m - 1 |-> starts[k]]
  BY DEF Closed
<1>4. /\ OpenAt(m - 1, fewer)'
      /\ last \in Tagged("start")
      /\ \A i \in Tagged("start") : Ends(i)' = {} <=> Ends(i) = {} /\ i # last
  BY <1>1, <1>2, <1>3, OpenAtEnd
<1>5. m \in 1 .. m /\ \A k \in 1 .. m - 1 : k \in 1 .. m
  BY <1>1
<1>6. Ends(last) = {}
  BY <1>2, <1>3, <1>4, <1>5 DEF OpenAt
<1>7. \A k \in 1 .. m : starts[k] \in Tagged("start")
  BY <1>2 DEF OpenAt
<1>8. \A i \in Tagged("start") : i \in 1 .. n
  BY <1>1, GrownTagged
<1>9. \A i \in 1 .. n : i \in 0 .. n /\ document'[i] = document[i]
  BY <1>1, GrownPositions
<1>10. Tagged("start")' = Tagged("start")
  BY <1>1, SameStarts
<1>11. \A p : Made(p)' <=> Made(p)
  BY <1>1 DEF Made
<1>12. \A p : Made(p) => p \in Parsables /\ place[p] \in 0 .. n
  BY <1>1, <1>2, PlacesAreBefore
<1>13. \A k \in 1 .. m - 1 : fewer[k] = starts[k]
  BY <1>3
<1>14. \A k \in 1 .. m - 1 : /\ k \in 1 .. m
                             /\ open'[k] = open[k]
                             /\ fewer[k] = starts[k]
                             /\ starts[k] \in Tagged("start")
                             /\ starts[k] \in 0 .. n
                             /\ document'[starts[k]] = document[starts[k]]
  BY <1>1, <1>5, <1>7, <1>8, <1>9, <1>13
<1>15. QED
  BY <1>1, <1>2, <1>3, <1>4, <1>5, <1>6, <1>8, <1>10, <1>11, <1>12, <1>14

\* The objects keep their places. Those that are not made have nothing, since
\* nothing is told to them.
LEMMA EndObjects ==
  ASSUME NEW n, NEW m, NEW event, NEW last, NEW starts, NEW place, NEW fewer,
         Closed(n, m, event, last, starts, place, fewer)
  PROVE  ObjectsArePlaced(fewer, place)' /\ AnswersAreOfTypes(fewer, place)'
<1>1. EndView(n, m, event, last) /\ ObjectsArePlaced(starts, place)
      /\ AnswersAreOfTypes(starts, place)
  BY DEF Closed, Link, Placed
<1>2. /\ m \in 1 .. m /\ Len(open) = m /\ Len(open') = m - 1 /\ UNCHANGED type
      /\ \A k \in 1 .. m - 1 : /\ k \in 1 .. m
                               /\ open'[k] = open[k]
                               /\ fewer[k] = starts[k]
                               /\ document'[starts[k]] = document[starts[k]]
      /\ Tagged("start")' = Tagged("start")
      /\ \A p : Made(p)' <=> Made(p)
  BY ClosedFacts
<1>3. ASSUME NEW p \in Parsables, ~Made(p)
      PROVE  data'[p] = data[p] /\ children'[p] = children[p]
  <2>1. open[m].answer # "skipped" => p # open[m].asked
    BY <1>1, <1>2, <1>3 DEF AnswersAreOfTypes
  <2>2. QED
    BY <1>1, <2>1 DEF EndView, Appends
<1>4. /\ place \in [Parsables -> Nat]
      /\ place[Root] = 0
      /\ type'[Root] = RootType
      /\ \A p \in Parsables : ~Made(p)' => data'[p] = NoElements /\ children'[p] = NoElements
  BY <1>1, <1>2, <1>3 DEF ObjectsArePlaced
<1>5. ASSUME NEW p, Made(p)', p # Root
      PROVE  /\ place[p] \in Tagged("start")'
             /\ \A k \in 1 .. m - 1 : fewer[k] = place[p] =>
                  open'[k].answer = "handleWithChild" /\ open'[k].child = p
  BY <1>1, <1>2, <1>5 DEF ObjectsArePlaced
<1>6. NoElements' = NoElements
  BY DEF NoElements
<1>7. ObjectsArePlaced(fewer, place)'
  BY <1>2, <1>4, <1>5, <1>6 DEF ObjectsArePlaced
<1>8. AnswersAreOfTypes(fewer, place)'
  BY <1>1, <1>2, AnswersStay
<1>9. QED
  BY <1>7, <1>8

\* What is said of the elements that stay open is as before.
LEMMA EndOpen ==
  ASSUME NEW n, NEW m, NEW event, NEW last, NEW starts, NEW place, NEW fewer,
         Closed(n, m, event, last, starts, place, fewer)
  PROVE  /\ ShownWhenAsked(fewer, place)'
         /\ TextIsCollected(fewer)'
         /\ NoDataInside(fewer, place)'
<1>1. /\ ShownWhenAsked(starts, place)
      /\ TextIsCollected(starts)
      /\ NoDataInside(starts, place)
  BY DEF Closed, Link
<1>2. /\ n \in Nat /\ Grows(n, event) /\ event.tag # "start" /\ event.tag # "characters"
      /\ Len(open) = m /\ Len(open') = m - 1 /\ UNCHANGED type
      /\ \A k \in 1 .. m - 1 : /\ k \in 1 .. m
                               /\ open'[k] = open[k]
                               /\ fewer[k] = starts[k]
                               /\ starts[k] \in 0 .. n
                               /\ document'[starts[k]] = document[starts[k]]
      /\ \A p : Made(p)' <=> Made(p)
      /\ \A p : Made(p) => place[p] \in 0 .. n
  BY ClosedFacts
<1>3. \A t : \A i \in 0 .. n : /\ Shown(t, i)' = Shown(t, i)
                              /\ \A j \in Shown(t, i) : IsData(t, j)' <=> IsData(t, j)
  BY <1>2, SameShown
<1>4. ShownWhenAsked(fewer, place)'
  <2>1. ASSUME NEW k \in 1 .. m - 1, NEW p, Made(p), NEW t, t = type[p], NEW i, i = place[p]
        PROVE  fewer[k] \in Shown(t, i)' <=> open'[k].answer # "skipped" /\ open'[k].asked = p
    <3>1. Shown(t, i)' = Shown(t, i)
      BY <1>2, <1>3, <2>1
    <3>2. QED
      BY <1>1, <1>2, <2>1, <3>1 DEF ShownWhenAsked
  <2>2. ASSUME NEW k \in 1 .. m - 1, NEW p, Made(p)'
        PROVE  fewer[k] \in Shown(type[p], place[p])' <=>
                 open'[k].answer # "skipped" /\ open'[k].asked = p
    <3>1. PICK t, i : t = type[p] /\ i = place[p] /\ t = type'[p]
      BY <1>2
    <3>2. Shown(type[p], place[p])' = Shown(t, i)'
      BY <3>1
    <3>3. QED
      BY <1>2, <2>1, <2>2, <3>1, <3>2
  <2>3. QED
    BY <1>2, <2>2 DEF ShownWhenAsked
<1>5. TextIsCollected(fewer)'
  <2>1. ASSUME NEW k \in 1 .. m - 1, open'[k].answer = "handleAsData", NEW i, i = fewer[k]
        PROVE  /\ open'[k].attributes = document'[i].attributes
               /\ open'[k].text = ContentsOf(i)'
    <3>1. i = starts[k] /\ i \in 0 .. n
      BY <1>2, <2>1
    <3>2. open[k].attributes = document[i].attributes /\ open[k].text = ContentsOf(i)
      BY <1>1, <1>2, <2>1, <3>1 DEF TextIsCollected
    <3>3. ContentsOf(i)' = ContentsOf(i)
      BY <1>2, <3>1, GrownContents
    <3>4. QED
      BY <1>2, <3>1, <3>2, <3>3
  <2>2. ASSUME NEW k \in 1 .. m - 1, open'[k].answer = "handleAsData"
        PROVE  /\ open'[k].attributes = document'[fewer[k]].attributes
               /\ open'[k].text = ContentsOf(fewer[k])'
    <3>1. PICK i : i = fewer[k]
      OBVIOUS
    <3>2. QED
      BY <2>1, <2>2, <3>1
  <2>3. QED
    BY <1>2, <2>2 DEF TextIsCollected
<1>6. NoDataInside(fewer, place)'
  <2>1. ASSUME NEW k \in 1 .. m - 1, open'[k].answer = "handleAsData", ~open'[k].nested,
               NEW p, Made(p), NEW t, t = type[p], NEW i, i = place[p],
               NEW j, j \in Shown(t, i)', fewer[k] < j
        PROVE  ~IsData(t, j)'
    <3>1. j \in Shown(t, i) /\ (IsData(t, j)' <=> IsData(t, j))
      BY <1>2, <1>3, <2>1
    <3>2. QED
      BY <1>1, <1>2, <2>1, <3>1 DEF NoDataInside
  <2>2. ASSUME NEW k \in 1 .. m - 1, open'[k].answer = "handleAsData", ~open'[k].nested,
               NEW p, Made(p)', NEW j, j \in Shown(type[p], place[p])', fewer[k] < j
        PROVE  ~IsData(type[p], j)'
    <3>1. PICK t, i : t = type[p] /\ i = place[p] /\ t = type'[p]
      BY <1>2
    <3>2. Shown(type[p], place[p])' = Shown(t, i)'
      BY <3>1
    <3>3. IsData(type[p], j)' <=> IsData(t, j)'
      BY <3>1 DEF IsData
    <3>4. QED
      BY <1>2, <2>1, <2>2, <3>1, <3>2, <3>3
  <2>3. QED
    BY <1>2, <2>2 DEF NoDataInside
<1>7. QED
  BY <1>4, <1>5, <1>6

\* The element that ends is among those that an object keeps when the object
\* was asked about it and knows it.
LEMMA LastIsKept ==
  ASSUME NEW n, NEW m, NEW event, NEW last, NEW starts, NEW place, NEW fewer,
         Closed(n, m, event, last, starts, place, fewer),
         NEW p, Made(p), NEW t, t = type[p], NEW i, i = place[p], NEW key \in Keys,
         NEW name, name = document[last].name
  PROVE  /\ last \in DataShown(t, i, key) <=>
              /\ open[m].answer = "handleAsData" /\ open[m].asked = p
              /\ key = DataElement[t][name]
         /\ last \in ChildrenShown(t, i, key) <=>
              /\ open[m].answer = "handleWithChild" /\ open[m].asked = p
              /\ key = ChildElement[t][name]
<1>1. AnswersAreOfTypes(starts, place) /\ ShownWhenAsked(starts, place)
  BY DEF Closed, Link, Placed
<1>2. /\ m \in 1 .. m /\ Len(open) = m /\ last = starts[m]
      /\ document \in Seq(Events) /\ last \in Tagged("start")
  BY ClosedFacts DEF Grows
<1>3. last \in Shown(t, i) <=> open[m].answer # "skipped" /\ open[m].asked = p
  BY <1>1, <1>2 DEF ShownWhenAsked
<1>4. open[m].answer # "skipped" /\ open[m].asked = p => open[m].answer = Answer(t, name)
  BY <1>1, <1>2 DEF AnswersAreOfTypes
<1>5. t \in Types /\ name \in Names
  BY <1>2, NamesAreTyped DEF Made, Closed, IInv, ElementsType
<1>6. key # Nil
  BY ElementsAssumption
<1>7. /\ last \in DataShown(t, i, key) <=> last \in Shown(t, i) /\ DataElement[t][name] = key
      /\ last \in ChildrenShown(t, i, key) <=>
           /\ last \in Shown(t, i)
           /\ DataElement[t][name] = Nil
           /\ ChildElement[t][name] # Nil
           /\ ChildElement[t][name] = key
  BY DEF DataShown, ChildrenShown, IsChild, IsData
<1>8. /\ Answer(t, name) = "handleAsData" <=> DataElement[t][name] # Nil
      /\ Answer(t, name) = "handleWithChild" <=>
           DataElement[t][name] = Nil /\ ChildElement[t][name] # Nil
  BY <1>5, AnswerFacts
<1>9. QED
  BY <1>3, <1>4, <1>6, <1>7, <1>8

\* The elements of a key that have ended come before the last one: data ends
\* before data begins again, and children are shown outside of children.
LEMMA EndedBeforeLast ==
  ASSUME NEW n, NEW m, NEW event, NEW last, NEW starts, NEW place, NEW fewer,
         Closed(n, m, event, last, starts, place, fewer),
         NEW p, Made(p), NEW t, t = type[p], NEW i, i = place[p], NEW key \in Keys
  PROVE  /\ last \in DataShown(t, i, key) => \A j \in Ended(DataShown(t, i, key)) : j < last
         /\ last \in ChildrenShown(t, i, key) =>
              \A j \in Ended(ChildrenShown(t, i, key)) : j < last
<1>1. /\ m \in 1 .. m /\ Len(open) = m /\ last = starts[m]
      /\ last \in Tagged("start") /\ last \in 1 .. n /\ Ends(last) = {}
      /\ n \in Nat /\ Grows(n, event)
  BY ClosedFacts
<1>2. \A j \in Tagged("start") : j \in 1 .. n
  BY <1>1, GrownTagged
<1>3. ASSUME NEW j \in Shown(t, i), Ends(j) # {}, ~(j < last)
      PROVE  last < j /\ j \in Tagged("start")
  <2>1. j \in Tagged("start") /\ j # last
    BY <1>1, <1>3 DEF Shown
  <2>2. j \in 1 .. n
    BY <1>2, <2>1
  <2>3. last < j
    BY <1>1, <1>3, <2>1, <2>2
  <2>4. QED
    BY <2>1, <2>3
<1>4. ASSUME last \in DataShown(t, i, key), NEW j \in Ended(DataShown(t, i, key))
      PROVE  j < last
  <2>1. SUFFICES ASSUME ~(j < last)
                 PROVE  FALSE
    OBVIOUS
  <2>2. open[m].answer = "handleAsData"
    <3>1. PICK name : name = document[last].name
      OBVIOUS
    <3>2. QED
      BY <1>4, <3>1, LastIsKept
  <2>3. ~open[m].nested
    BY <2>2 DEF Closed, EndView
  <2>4. j \in Shown(t, i) /\ Ends(j) # {} /\ DataElement[t][document[j].name] = key
    BY <1>4 DEF Ended, DataShown
  <2>5. last < j
    BY <1>3, <2>1, <2>4
  <2>6. ~IsData(t, j)
    BY <1>1, <2>2, <2>3, <2>4, <2>5 DEF Closed, Link, NoDataInside
  <2>7. key # Nil
    BY ElementsAssumption
  <2>8. QED
    BY <2>4, <2>6, <2>7 DEF IsData
<1>5. ASSUME last \in ChildrenShown(t, i, key), NEW j \in Ended(ChildrenShown(t, i, key))
      PROVE  j < last
  <2>1. SUFFICES ASSUME ~(j < last)
                 PROVE  FALSE
    OBVIOUS
  <2>2. j \in Shown(t, i) /\ Ends(j) # {}
    BY <1>5 DEF Ended, ChildrenShown
  <2>3. last < j
    BY <1>3, <2>1, <2>2
  <2>4. last \in Shown(t, i) /\ ~IsData(t, last)
    BY <1>5 DEF ChildrenShown, IsChild
  <2>5. Inside(i, last) /\ Inside(last, j)
    BY <1>1, <2>3, <2>4 DEF Shown, Inside
  <2>6. IsData(t, last)
    BY <1>1, <2>2, <2>5 DEF Shown
  <2>7. QED
    BY <2>4, <2>6
<1>6. QED
  BY <1>4, <1>5

\* What Append does, whatever the last is.
LEMMA AppendedFacts ==
  ASSUME NEW E, NEW list \in Seq(E), NEW last
  PROVE  /\ Len(Append(list, last)) = Len(list) + 1
         /\ Append(list, last)[Len(list) + 1] = last
         /\ \A k \in 1 .. Len(list) : Append(list, last)[k] = list[k]
<1>1. list \in Seq(E \cup {last})
  OBVIOUS
<1>2. QED
  BY <1>1

\* One object more, for one element more.
LEMMA AreForMore ==
  ASSUME NEW objects \in Seq(Parsables), NEW s, NEW list, NEW E, list \in Seq(E),
         NEW place, AreFor(objects, s, list, place),
         NEW child, Made(child), type[child] = s, NEW last, place[child] = last,
         NEW longer, GoesOn(list, longer, last),
         NEW more, GoesOn(objects, more, child)
  PROVE  AreFor(more, s, longer, place)
<1>1. longer = Append(list, last) /\ more = Append(objects, child)
  BY DEF GoesOn
<1>2. PICK l \in Nat : l = Len(list) /\ l = Len(objects)
  BY DEF AreFor
<1>3. /\ Len(longer) = l + 1
      /\ Len(more) = l + 1
      /\ longer[l + 1] = last
      /\ more[l + 1] = child
      /\ \A k \in 1 .. l : longer[k] = list[k] /\ more[k] = objects[k]
  <2>1. /\ Len(longer) = l + 1
        /\ longer[l + 1] = last
        /\ \A k \in 1 .. l : longer[k] = list[k]
    <3>1. /\ Len(Append(list, last)) = Len(list) + 1
          /\ Append(list, last)[Len(list) + 1] = last
          /\ \A k \in 1 .. Len(list) : Append(list, last)[k] = list[k]
      BY AppendedFacts, Zenon
    <3>2. QED
      BY <1>1, <1>2, <3>1, Zenon
  <2>2. /\ Len(more) = l + 1
        /\ more[l + 1] = child
        /\ \A k \in 1 .. l : more[k] = objects[k]
    BY <1>1, <1>2, AppendedFacts
  <2>3. QED
    BY <2>1, <2>2
<1>4. \A k \in 1 .. l + 1 : k \in 1 .. l \/ k = l + 1
  BY <1>2
<1>5. \A k \in 1 .. l : Made(objects[k]) /\ place[objects[k]] = list[k] /\ type[objects[k]] = s
  BY <1>2 DEF AreFor
<1>6. \A k \in 1 .. l + 1 : Made(more[k]) /\ place[more[k]] = longer[k] /\ type[more[k]] = s
  BY <1>3, <1>4, <1>5
<1>7. QED
  BY <1>3, <1>6 DEF AreFor

\* What the object that is told of the end holds is what is read.
LEMMA EndHeld ==
  ASSUME NEW n, NEW m, NEW event, NEW last, NEW starts, NEW place, NEW fewer,
         Closed(n, m, event, last, starts, place, fewer)
  PROVE  ObjectsHoldRead(place)'
<1>1. /\ EndView(n, m, event, last)
      /\ AnswersAreOfTypes(starts, place)
      /\ TextIsCollected(starts)
      /\ ObjectsHoldRead(place)
  BY DEF Closed, Link, Placed
<1>2. /\ n \in Nat /\ Grows(n, event) /\ event.tag = "end" /\ UNCHANGED type
      /\ m \in 1 .. m /\ Len(open) = m /\ last = starts[m]
      /\ last \in Tagged("start") /\ Ends(last) = {}
      /\ \A j \in Tagged("start") : Ends(j)' = {} <=> Ends(j) = {} /\ j # last
      /\ \A p : Made(p)' <=> Made(p)
      /\ \A p : Made(p) => p \in Parsables /\ place[p] \in 0 .. n
  BY ClosedFacts
<1>3. KeepsObjects(place, place)
  BY <1>2 DEF KeepsObjects
<1>4. PICK q, name : q = open[m].asked /\ name = document[last].name
  OBVIOUS
<1>5. open[m].answer # "skipped" => Made(q)
  BY <1>1, <1>2, <1>4 DEF AnswersAreOfTypes
<1>6. ASSUME NEW p, Made(p)', NEW key \in Keys, NEW t, t = type'[p], NEW i, i = place[p],
             NEW objects, objects = children'[p][key],
             NEW list, list = ChildrenRead(t, i, key)'
      PROVE  /\ data'[p][key] = DataRead(t, i, key)'
             /\ AreFor(objects, ChildType[t][key], list, place)'
  <2>1. Made(p) /\ t = type[p] /\ p \in Parsables /\ i \in 0 .. n
    BY <1>2, <1>6
  <2>2. /\ data[p][key] = DataRead(t, i, key)
        /\ AreFor(children[p][key], ChildType[t][key], ChildrenRead(t, i, key), place)
    BY <1>1, <1>6, <2>1 DEF ObjectsHoldRead
  <2>3. /\ last \in DataShown(t, i, key) <=>
             /\ open[m].answer = "handleAsData" /\ q = p
             /\ key = DataElement[t][name]
        /\ last \in ChildrenShown(t, i, key) <=>
             /\ open[m].answer = "handleWithChild" /\ q = p
             /\ key = ChildElement[t][name]
    BY <1>4, <1>6, <2>1, LastIsKept
  <2>4. /\ last \in DataShown(t, i, key) =>
             \A j \in Ended(DataShown(t, i, key)) : j < last
        /\ last \in ChildrenShown(t, i, key) =>
             \A j \in Ended(ChildrenShown(t, i, key)) : j < last
    BY <1>6, <2>1, EndedBeforeLast
  <2>5. /\ last \notin DataShown(t, i, key) => DataRead(t, i, key)' = DataRead(t, i, key)
        /\ last \in DataShown(t, i, key) =>
             GoesOn(DataRead(t, i, key), DataRead(t, i, key)', DataValue(last))
        /\ last \notin ChildrenShown(t, i, key) =>
             ChildrenRead(t, i, key)' = ChildrenRead(t, i, key)
        /\ last \in ChildrenShown(t, i, key) =>
             GoesOn(ChildrenRead(t, i, key), ChildrenRead(t, i, key)', last)
    BY <1>2, <2>1, <2>4, ClosedReading
  <2>6. data'[p][key] = DataRead(t, i, key)'
    <3>1. CASE last \in DataShown(t, i, key)
      <4>1. open[m].answer = "handleAsData" /\ q = p /\ key = DataElement[type[q]][name]
        BY <2>1, <2>3, <3>1
      <4>2. PICK value : value = XMLDataElement(open[m].text, open[m].attributes)
        OBVIOUS
      <4>3. value = DataValue(last)
        BY <1>1, <1>2, <4>1, <4>2 DEF TextIsCollected, DataValue
      <4>4. Appends(data, data', q, key, value)
        BY <1>1, <1>4, <4>1, <4>2 DEF EndView
      <4>5. data'[p][key] = Append(data[p][key], value)
        BY <4>1, <4>4, Zenon DEF Appends
      <4>6. DataRead(t, i, key)' = Append(DataRead(t, i, key), value)
        BY <2>5, <3>1, <4>3 DEF GoesOn
      <4>7. QED
        BY <2>2, <4>5, <4>6
    <3>2. CASE last \notin DataShown(t, i, key)
      <4>1. data'[p][key] = data[p][key]
        <5>1. CASE open[m].answer = "handleAsData"
          <6>1. PICK other, value : /\ Appends(data, data', q, other, value)
                                    /\ other = DataElement[type[q]][name]
            BY <1>1, <1>4, <5>1 DEF EndView
          <6>2. p # q \/ (p = q /\ key # other)
            BY <2>1, <2>3, <3>2, <5>1, <6>1
          <6>3. QED
            BY <1>6, <2>1, <6>1, <6>2 DEF Appends
        <5>2. CASE open[m].answer # "handleAsData"
          BY <1>1, <5>2 DEF EndView
        <5>3. QED
          BY <5>1, <5>2
      <4>2. QED
        BY <2>2, <2>5, <3>2, <4>1
    <3>3. QED
      BY <3>1, <3>2
  <2>7. AreFor(objects, ChildType[t][key], list, place)
    <3>1. CASE last \in ChildrenShown(t, i, key)
      <4>1. open[m].answer = "handleWithChild" /\ q = p /\ key = ChildElement[type[q]][name]
        BY <2>1, <2>3, <3>1
      <4>2. PICK child : child = open[m].child
        OBVIOUS
      <4>3. /\ Made(child)
            /\ place[child] = last
            /\ type[child] = ChildType[t][key]
        <5>1. /\ Made(child)
              /\ place[child] = starts[m]
              /\ type[child] = ChildType[type[q]][ChildElement[type[q]][document[starts[m]].name]]
          BY <1>1, <1>2, <1>4, <4>1, <4>2 DEF AnswersAreOfTypes
        <5>2. ChildElement[type[q]][document[starts[m]].name] = key /\ type[q] = t
          BY <1>2, <1>4, <2>1, <4>1
        <5>3. QED
          BY <1>2, <5>1, <5>2
      <4>4. Appends(children, children', q, key, child)
        BY <1>1, <1>4, <4>1, <4>2 DEF EndView
      <4>5. PICK before, read : before = children[p][key] /\ read = ChildrenRead(t, i, key)
        OBVIOUS
      <4>6. GoesOn(before, objects, child)
        BY <1>6, <4>1, <4>4, <4>5, Zenon DEF Appends, GoesOn
      <4>7. GoesOn(read, list, last)
        BY <1>6, <2>5, <3>1, <4>5
      <4>8. before \in Seq(Parsables)
        BY <1>6, <2>1, <4>5 DEF Closed, IInv, ElementsType
      <4>9. PICK E : read \in Seq(E)
        BY <1>2, <4>5, ListedElements DEF ChildrenRead, Grows
      <4>10. AreFor(before, ChildType[t][key], read, place)
        BY <2>2, <4>5
      <4>11. QED
        BY <4>3, <4>6, <4>7, <4>8, <4>9, <4>10, AreForMore
    <3>2. CASE last \notin ChildrenShown(t, i, key)
      <4>1. objects = children[p][key]
        <5>1. CASE open[m].answer = "handleWithChild"
          <6>1. PICK other, value : /\ Appends(children, children', q, other, value)
                                    /\ other = ChildElement[type[q]][name]
            BY <1>1, <1>4, <5>1 DEF EndView
          <6>2. p # q \/ (p = q /\ key # other)
            BY <2>1, <2>3, <3>2, <5>1, <6>1
          <6>3. QED
            BY <1>6, <2>1, <6>1, <6>2 DEF Appends
        <5>2. CASE open[m].answer # "handleWithChild"
          BY <1>1, <1>6, <5>2 DEF EndView
        <5>3. QED
          BY <5>1, <5>2
      <4>2. QED
        BY <1>6, <2>2, <2>5, <3>2, <4>1
    <3>3. QED
      BY <3>1, <3>2
  <2>8. AreFor(objects, ChildType[t][key], list, place)'
    BY <1>3, <2>7, AreForStays
  <2>9. QED
    BY <2>6, <2>8
<1>7. QED
  BY <1>6, HeldFromRead

\* All of it.
LEMMA EndLink ==
  ASSUME IInv, document \in Seq(Events), EndTag, ~trapped',
         NEW starts, NEW place, Link(starts, place)
  PROVE  /\ ~trapped
         /\ document' \in Seq(Events)
         /\ \E fewer : Link(fewer, place)'
<1>1. PICK name \in Names :
        EndView(Len(document), Len(open), End(name), starts[Len(open)])
  BY EndTagView
<1>2. ~trapped
  BY EndTagView
<1>3. PICK n, m, event, last :
        n = Len(document) /\ m = Len(open) /\ event = End(name) /\ last = starts[m]
  OBVIOUS
<1>4. PICK fewer : fewer = [k \in 1 .. m - 1 |-> starts[k]]
  OBVIOUS
<1>5. EndView(n, m, event, last)
  BY <1>1, <1>3
<1>6. Closed(n, m, event, last, starts, place, fewer)
  BY <1>3, <1>4, <1>5 DEF Closed
<1>7. n \in Nat /\ Grows(n, event) /\ Len(open') = m - 1 /\ OpenAt(m - 1, fewer)'
  BY <1>6, ClosedFacts
<1>8. document' \in Seq(Events)
  BY <1>7, GrownPositions
<1>9. Link(fewer, place)'
  <2>1. OpenAt(Len(open), fewer)'
    BY <1>7
  <2>2. Placed(fewer, place)'
    BY <1>6, <2>1, EndObjects DEF Placed
  <2>3. QED
    BY <1>6, <2>2, EndOpen, EndHeld DEF Link
<1>10. QED
  BY <1>2, <1>8, <1>9

-----------------------------------------------------------------------------
(***************************************************************************)
(* The link is an invariant.                                               *)
(***************************************************************************)
LEMMA InitLinked ==
  ASSUME Init
  PROVE  Linked
<1>1. /\ document = << >> /\ open = << >> /\ Len(document) = 0 /\ Len(open) = 0
      /\ type = [p \in Parsables |-> IF p = Root THEN RootType ELSE Nil]
      /\ data = [p \in Parsables |-> NoElements]
      /\ children = [p \in Parsables |-> NoElements]
  BY DEF Init, ElementsInit, Parser!Init
<1>2. PICK starts, place :
        /\ starts = [k \in 1 .. 0 |-> 0]
        /\ place = [p \in Parsables |-> 0]
  OBVIOUS
<1>3. \A tag : Tagged(tag) = {}
  BY <1>1 DEF Tagged, Positions
<1>4. /\ Depth(0) = 0 /\ Ends(0) = {} /\ \A k : k \notin 1 .. 0
  <2>1. {j \in Tagged("start") : j <= 0} = {} /\ {j \in Tagged("end") : j <= 0} = {}
    BY <1>3
  <2>2. Cardinality({}) = 0
    BY FS_EmptySet
  <2>3. Depth(0) = 0
    BY <2>1, <2>2 DEF Depth
  <2>4. Ends(0) = {}
    BY <1>3 DEF Ends
  <2>5. QED
    BY <2>3, <2>4
<1>5. OpenAt(Len(open), starts)
  <2>1. starts \in [1 .. 0 -> Tagged("start")]
    BY <1>2, <1>4
  <2>2. QED
    BY <1>1, <1>3, <1>4, <2>1 DEF OpenAt
<1>6. \A p : Made(p) => p = Root /\ type[p] = RootType
  BY <1>1 DEF Made
<1>7. ObjectsArePlaced(starts, place)
  BY <1>1, <1>2, <1>6, RootAssumption DEF ObjectsArePlaced
<1>8. /\ AnswersAreOfTypes(starts, place)
      /\ ShownWhenAsked(starts, place)
      /\ TextIsCollected(starts)
      /\ NoDataInside(starts, place)
  BY <1>1, <1>4 DEF AnswersAreOfTypes, ShownWhenAsked, TextIsCollected, NoDataInside
<1>9. ASSUME NEW p, Made(p), NEW key \in Keys
      PROVE  /\ data[p][key] = DataRead(type[p], place[p], key)
             /\ AreFor(children[p][key], ChildType[type[p]][key],
                       ChildrenRead(type[p], place[p], key), place)
  <2>1. \A s : Listed(0, s) = << >>
    <3>1. ASSUME NEW s
          PROVE  Listed(0, s) = << >>
      <4>1. s \cap (1 .. 0 + 1) \subseteq s
        OBVIOUS
      <4>2. QED
        BY <4>1, ListedMore
    <3>2. QED
      BY <3>1
  <2>2. /\ DataRead(type[p], place[p], key) = << >>
        /\ ChildrenRead(type[p], place[p], key) = << >>
    <3>1. PICK none : none = << >>
      OBVIOUS
    <3>2. \A s : Listed(Len(document), s) = none
      BY <1>1, <2>1, <3>1
    <3>3. DataRead(type[p], place[p], key) = Values(none)
      BY <3>2 DEF DataRead
    <3>4. Values(none) = << >>
      BY <3>1 DEF Values
    <3>5. QED
      BY <3>1, <3>2, <3>3, <3>4 DEF ChildrenRead
  <2>3. data[p][key] = << >> /\ children[p][key] = << >>
    BY <1>1, <1>9 DEF Made, NoElements
  <2>4. QED
    BY <2>2, <2>3 DEF AreFor
<1>10. ObjectsHoldRead(place)
  BY <1>9 DEF ObjectsHoldRead
<1>11. Link(starts, place)
  BY <1>5, <1>7, <1>8, <1>10 DEF Link, Placed
<1>12. document \in Seq(Events)
  BY <1>1
<1>13. QED
  BY <1>11, <1>12 DEF Linked

\* What is said of a document stays true of it.
LEMMA SameDocument ==
  ASSUME UNCHANGED document
  PROVE  /\ \A tag : Tagged(tag)' = Tagged(tag)
         /\ \A i : Depth(i)' = Depth(i) /\ Ends(i)' = Ends(i)
         /\ \A i, j : Inside(i, j)' <=> Inside(i, j)
         /\ \A t, i : /\ IsData(t, i)' <=> IsData(t, i)
                      /\ Shown(t, i)' = Shown(t, i)
         /\ \A i : ContentsOf(i)' = ContentsOf(i)
         /\ \A t, i, key : /\ DataRead(t, i, key)' = DataRead(t, i, key)
                           /\ ChildrenRead(t, i, key)' = ChildrenRead(t, i, key)
<1>1. \A tag : Tagged(tag)' = Tagged(tag)
  BY DEF Tagged, Positions
<1>2. ASSUME NEW i
      PROVE  Depth(i)' = Depth(i)
  <2>1. /\ Depth(i) = Cardinality(UpTo("start", i)) - Cardinality(UpTo("end", i))
        /\ Depth(i)' = Cardinality(UpTo("start", i)') - Cardinality(UpTo("end", i)')
    BY DEF Depth, UpTo
  <2>2. UpTo("start", i)' = UpTo("start", i) /\ UpTo("end", i)' = UpTo("end", i)
    BY <1>1 DEF UpTo
  <2>3. QED
    BY <2>1, <2>2
<1>3. \A i : Ends(i)' = Ends(i)
  <2>1. ASSUME NEW i
        PROVE  Ends(i)' = Ends(i)
    <3>1. \A j : Depth(j)' = Depth(j)
      BY <1>2
    <3>2. QED
      BY <1>1, <3>1 DEF Ends
  <2>2. QED
    BY <2>1
<1>4. \A i, j : Inside(i, j)' <=> Inside(i, j)
  BY <1>3 DEF Inside
<1>5. \A t, i : IsData(t, i)' <=> IsData(t, i)
  BY DEF IsData
<1>6. \A t, i : Shown(t, i)' = Shown(t, i)
  <2>1. ASSUME NEW t, NEW i
        PROVE  Shown(t, i)' = Shown(t, i)
    BY <1>1, <1>4, <1>5 DEF Shown
  <2>2. QED
    BY <2>1
<1>7. ASSUME NEW i
      PROVE  ContentsOf(i)' = ContentsOf(i)
  <2>1. TextsIn(i)' = TextsIn(i)
    BY <1>1, <1>4 DEF TextsIn
  <2>2. QED
    BY <2>1, ContentsArePieces
<1>8. \A i : DataValue(i)' = DataValue(i)
  BY <1>7 DEF DataValue
<1>9. ASSUME NEW t, NEW i, NEW key
      PROVE  /\ DataRead(t, i, key)' = DataRead(t, i, key)
             /\ ChildrenRead(t, i, key)' = ChildrenRead(t, i, key)
  <2>1. /\ DataShown(t, i, key)' = DataShown(t, i, key)
        /\ ChildrenShown(t, i, key)' = ChildrenShown(t, i, key)
    BY <1>5, <1>6 DEF DataShown, ChildrenShown, IsChild
  <2>2. /\ Ended(DataShown(t, i, key))' = Ended(DataShown(t, i, key))
        /\ Ended(ChildrenShown(t, i, key))' = Ended(ChildrenShown(t, i, key))
    BY <1>3, <2>1 DEF Ended
  <2>3. PICK list : list = Listed(Len(document), Ended(DataShown(t, i, key)))
    OBVIOUS
  <2>4. DataRead(t, i, key)' = Values(list)' /\ DataRead(t, i, key) = Values(list)
    BY <2>2, <2>3 DEF DataRead
  <2>5. Values(list)' = Values(list)
    BY <1>8 DEF Values
  <2>6. QED
    BY <2>2, <2>4, <2>5 DEF ChildrenRead
<1>10. QED
  BY <1>1, <1>2, <1>3, <1>4, <1>5, <1>6, <1>7, <1>9

\* A stutter keeps the link.
LEMMA LinkStays ==
  ASSUME UNCHANGED << document, open, type, data, children >>,
         NEW starts, NEW place, Link(starts, place)
  PROVE  Link(starts, place)'
<1>1. PICK m : m = Len(open) /\ m = Len(open')
  OBVIOUS
<1>2. \A p : Made(p)' <=> Made(p)
  BY DEF Made
<1>3. OpenAt(m, starts)'
  BY <1>1, SameDocument DEF Link, Placed, OpenAt
<1>4. ObjectsArePlaced(starts, place)'
  BY <1>2, SameDocument DEF Link, Placed, ObjectsArePlaced, NoElements
<1>5. AnswersAreOfTypes(starts, place)'
  BY <1>1, AnswersStay DEF Link, Placed
<1>6. ShownWhenAsked(starts, place)'
  BY <1>2, SameDocument DEF Link, ShownWhenAsked
<1>7. TextIsCollected(starts)'
  BY SameDocument DEF Link, TextIsCollected
<1>8. NoDataInside(starts, place)'
  BY <1>2, SameDocument DEF Link, NoDataInside
<1>9. ObjectsHoldRead(place)'
  BY <1>2, SameDocument DEF Link, ObjectsHoldRead, AreFor
<1>10. QED
  BY <1>1, <1>3, <1>4, <1>5, <1>6, <1>7, <1>8, <1>9 DEF Link, Placed

\* No step breaks the link: the three tags do not, and at the ends of a
\* document and at its errors nothing that is linked changes.
LEMMA NextLinked ==
  ASSUME IInv, Linked, [Next]_vars
  PROVE  Linked'
<1>1. SUFFICES ASSUME ~trapped'
               PROVE  document' \in Seq(Events) /\ \E starts, place : Link(starts, place)'
  BY DEF Linked
<1>2. ASSUME NEW name \in Names, NEW attributes \in Attributes, StartTag(name, attributes)
      PROVE  document' \in Seq(Events) /\ \E starts, place : Link(starts, place)'
  <2>1. ~trapped
    BY <1>2, SameStart DEF StartTag, ParserP!startElementWithPrefix
  <2>2. PICK starts, place : Link(starts, place)
    BY <2>1 DEF Linked
  <2>3. document \in Seq(Events)
    BY <2>1 DEF Linked
  <2>4. \E more, further : Link(more, further)'
    BY <1>2, <2>2, <2>3, StartLink
  <2>5. Grows(Len(document), Start(name, attributes))
    BY <1>2, <2>3, StartIsEvent DEF StartTag
  <2>6. document' \in Seq(Events)
    BY <2>3, <2>5, GrownPositions
  <2>7. QED
    BY <2>4, <2>6
<1>3. ASSUME NEW piece \in Text, CharacterData(piece)
      PROVE  document' \in Seq(Events) /\ \E starts, place : Link(starts, place)'
  <2>1. ~trapped
    BY <1>3, SameCharacters DEF CharacterData, ParserP!charactersFound
  <2>2. PICK starts, place : Link(starts, place)
    BY <2>1 DEF Linked
  <2>3. document \in Seq(Events)
    BY <2>1 DEF Linked
  <2>4. PICK n, m, event : TextView(n, m, event)
    BY <1>3, <2>3, CharacterDataView
  <2>5. Link(starts, place)'
    BY <2>2, <2>4, TextLink
  <2>6. document' \in Seq(Events)
    BY <2>4, GrownPositions DEF TextView
  <2>7. QED
    BY <2>5, <2>6
<1>4. CASE EndTag
  <2>1. ~trapped
    BY <1>4, SameEnd DEF EndTag, ParserP!endElementWithPrefix
  <2>2. PICK starts, place : Link(starts, place)
    BY <2>1 DEF Linked
  <2>3. document \in Seq(Events)
    BY <2>1 DEF Linked
  <2>4. QED
    BY <1>1, <1>4, <2>2, <2>3, EndLink
<1>5. CASE UNCHANGED vars
  <2>1. UNCHANGED << document, open, type, data, children, trapped >>
    BY <1>5 DEF vars, Parser!vars, elementVars
  <2>2. ~trapped /\ document \in Seq(Events)
    BY <1>1, <2>1 DEF Linked
  <2>3. PICK starts, place : Link(starts, place)
    BY <2>2 DEF Linked
  <2>4. Link(starts, place)'
    BY <2>1, <2>3, LinkStays
  <2>5. QED
    BY <2>1, <2>2, <2>4
<1>6. QED
  BY <1>2, <1>3, <1>4, <1>5 DEF Next

-----------------------------------------------------------------------------
(***************************************************************************)
(* The trees of values. A tree is well defined where the nodes below a     *)
(* node have a smaller rank.                                               *)
(***************************************************************************)
Grown(held, below, tree, node) ==
  [ data     |-> held[node],
    children |-> [key \in Keys |->
                    [n \in DOMAIN below[node][key] |-> tree[below[node][key][n]]]] ]

IsTree(tree, nodes, held, below) ==
  tree = [node \in nodes |-> Grown(held, below, tree, node)]

Ranked(nodes, below, rank) ==
  /\ \A node \in nodes : rank[node] \in Nat
  /\ \A node \in nodes, key \in Keys : \A n \in DOMAIN below[node][key] :
       /\ below[node][key][n] \in nodes
       /\ rank[below[node][key][n]] < rank[node]

UpToRank(nodes, rank, r) == {node \in nodes : rank[node] <= r}

\* There is a tree of the nodes up to every rank, by induction on it.
LEMMA TreeUpToRank ==
  ASSUME NEW nodes, NEW held, NEW below, NEW rank, Ranked(nodes, below, rank)
  PROVE  \A r \in Nat : \E tree : IsTree(tree, UpToRank(nodes, rank, r), held, below)
<1> DEFINE S == {r \in Nat : \E tree : IsTree(tree, UpToRank(nodes, rank, r), held, below)}
<1>1. 0 \in S
  <2>1. PICK more : more = [node \in UpToRank(nodes, rank, 0) |-> Grown(held, below, << >>, node)]
    OBVIOUS
  <2>2. \A node \in UpToRank(nodes, rank, 0), key \in Keys : DOMAIN below[node][key] = {}
    BY DEF UpToRank, Ranked
  <2>3. \A node \in UpToRank(nodes, rank, 0) :
          Grown(held, below, more, node) = Grown(held, below, << >>, node)
    BY <2>2 DEF Grown
  <2>4. IsTree(more, UpToRank(nodes, rank, 0), held, below)
    BY <2>1, <2>3 DEF IsTree
  <2>5. QED
    BY <2>4
<1>2. ASSUME NEW r \in Nat, r \in S
      PROVE  r + 1 \in S
  <2>1. PICK tree : IsTree(tree, UpToRank(nodes, rank, r), held, below)
    BY <1>2
  <2>2. PICK some : some = UpToRank(nodes, rank, r + 1)
    OBVIOUS
  <2>3. PICK more : more = [node \in some |-> Grown(held, below, tree, node)]
    OBVIOUS
  <2>4. \A node \in UpToRank(nodes, rank, r) : node \in some /\ more[node] = tree[node]
    <3>1. \A node \in UpToRank(nodes, rank, r) : node \in some
      BY <2>2 DEF UpToRank, Ranked
    <3>2. \A node \in UpToRank(nodes, rank, r) : tree[node] = Grown(held, below, tree, node)
      BY <2>1 DEF IsTree
    <3>3. QED
      BY <2>3, <3>1, <3>2
  <2>5. ASSUME NEW node \in some, NEW key \in Keys, NEW n \in DOMAIN below[node][key]
        PROVE  more[below[node][key][n]] = tree[below[node][key][n]]
    <3>1. PICK child : child = below[node][key][n]
      OBVIOUS
    <3>2. /\ node \in nodes /\ rank[node] <= r + 1 /\ rank[node] \in Nat
          /\ child \in nodes /\ rank[child] \in Nat /\ rank[child] < rank[node]
      BY <2>2, <2>5, <3>1 DEF UpToRank, Ranked
    <3>3. rank[child] <= r
      BY <3>2
    <3>4. child \in UpToRank(nodes, rank, r)
      BY <3>2, <3>3 DEF UpToRank
    <3>5. QED
      BY <2>4, <3>1, <3>4
  <2>6. \A node \in some : Grown(held, below, more, node) = Grown(held, below, tree, node)
    BY <2>5 DEF Grown
  <2>7. IsTree(more, some, held, below)
    BY <2>3, <2>6 DEF IsTree
  <2>8. QED
    BY <2>2, <2>7
<1>3. \A r \in Nat : r \in S
  <2> HIDE DEF S
  <2>1. QED
    BY <1>1, <1>2, InductionOnNat
<1>4. QED
  BY <1>3

\* So the recursive function that Value and Reading are is one.
LEMMA TreeExists ==
  ASSUME NEW nodes, NEW held, NEW below, NEW rank, Ranked(nodes, below, rank),
         NEW r \in Nat, \A node \in nodes : rank[node] <= r
  PROVE  IsTree(Tree(nodes, held, below), nodes, held, below)
<1>1. UpToRank(nodes, rank, r) = nodes
  BY DEF UpToRank
<1>2. \E tree : IsTree(tree, nodes, held, below)
  BY <1>1, TreeUpToRank
<1>3. PICK tree : tree = CHOOSE f : IsTree(f, nodes, held, below)
  OBVIOUS
<1>4. IsTree(tree, nodes, held, below)
  BY <1>2, <1>3
<1>5. Tree(nodes, held, below) = tree
  BY <1>3 DEF Tree, IsTree, Grown
<1>6. QED
  BY <1>4, <1>5

\* Two trees are the same at nodes that hold the same and have corresponding
\* nodes below.
Corresponds(some, at, held, below, others, otherHeld, otherBelow) ==
  \A node \in some :
    /\ at[node] \in others
    /\ held[node] = otherHeld[at[node]]
    /\ \A key \in Keys :
         /\ DOMAIN below[node][key] = DOMAIN otherBelow[at[node]][key]
         /\ \A n \in DOMAIN below[node][key] :
              /\ below[node][key][n] \in some
              /\ at[below[node][key][n]] = otherBelow[at[node]][key][n]

\* Two trees of which some nodes correspond.
Matching(tree, nodes, held, below, rank, other, others, otherHeld, otherBelow, some, at) ==
  /\ IsTree(tree, nodes, held, below)
  /\ Ranked(nodes, below, rank)
  /\ IsTree(other, others, otherHeld, otherBelow)
  /\ \A node \in some : node \in nodes
  /\ Corresponds(some, at, held, below, others, otherHeld, otherBelow)

\* By induction on the rank of the nodes.
LEMMA SameTrees ==
  ASSUME NEW tree, NEW nodes, NEW held, NEW below, NEW rank,
         NEW other, NEW others, NEW otherHeld, NEW otherBelow, NEW some, NEW at,
         Matching(tree, nodes, held, below, rank,
                  other, others, otherHeld, otherBelow, some, at)
  PROVE  \A node \in some : tree[node] = other[at[node]]
<1>1. /\ IsTree(tree, nodes, held, below)
      /\ Ranked(nodes, below, rank)
      /\ IsTree(other, others, otherHeld, otherBelow)
      /\ \A node \in some : node \in nodes
      /\ Corresponds(some, at, held, below, others, otherHeld, otherBelow)
  BY DEF Matching
<1> DEFINE S == {r \in Nat : \A node \in some : rank[node] < r => tree[node] = other[at[node]]}
<1>2. \A node \in nodes : rank[node] \in Nat
  BY <1>1 DEF Ranked
<1>3. 0 \in S
  BY <1>1, <1>2
<1>4. ASSUME NEW r \in Nat, r \in S
      PROVE  r + 1 \in S
  <2>1. ASSUME NEW node \in some, rank[node] < r + 1
        PROVE  tree[node] = other[at[node]]
    <3>1. PICK place : place = at[node] /\ place \in others /\ node \in nodes
      BY <1>1 DEF Corresponds
    <3>2. tree[node] = Grown(held, below, tree, node)
      BY <1>1, <3>1 DEF IsTree
    <3>3. other[place] = Grown(otherHeld, otherBelow, other, place)
      BY <1>1, <3>1 DEF IsTree
    <3>4. held[node] = otherHeld[place]
      BY <1>1, <3>1 DEF Corresponds
    <3>5. \A key \in Keys : DOMAIN below[node][key] = DOMAIN otherBelow[place][key]
      BY <1>1, <3>1 DEF Corresponds
    <3>6. ASSUME NEW key \in Keys, NEW n \in DOMAIN below[node][key]
          PROVE  tree[below[node][key][n]] = other[otherBelow[place][key][n]]
      <4>1. PICK child : child = below[node][key][n]
        OBVIOUS
      <4>2. child \in some /\ at[child] = otherBelow[place][key][n]
        BY <1>1, <3>1, <3>6, <4>1 DEF Corresponds
      <4>3. rank[child] < rank[node] /\ rank[child] \in Nat /\ rank[node] \in Nat
        BY <1>1, <1>2, <3>1, <3>6, <4>1, <4>2 DEF Ranked
      <4>4. rank[child] < r
        BY <2>1, <4>3
      <4>5. QED
        BY <1>4, <4>1, <4>2, <4>4
    <3>7. \A key \in Keys :
            [n \in DOMAIN below[node][key] |-> tree[below[node][key][n]]]
            = [n \in DOMAIN otherBelow[place][key] |-> other[otherBelow[place][key][n]]]
      BY <3>5, <3>6
    <3>8. Grown(held, below, tree, node) = Grown(otherHeld, otherBelow, other, place)
      BY <3>4, <3>7 DEF Grown
    <3>9. QED
      BY <3>1, <3>2, <3>3, <3>8
  <2>2. QED
    BY <2>1
<1>5. \A r \in Nat : r \in S
  <2> HIDE DEF S
  <2>1. QED
    BY <1>3, <1>4, InductionOnNat
<1>6. ASSUME NEW node \in some
      PROVE  tree[node] = other[at[node]]
  <2>1. rank[node] \in Nat /\ rank[node] + 1 \in Nat /\ rank[node] < rank[node] + 1
    BY <1>1, <1>2
  <2>2. rank[node] + 1 \in S
    BY <1>5, <2>1
  <2>3. QED
    BY <2>1, <2>2
<1>7. QED
  BY <1>6

\* The child elements of a place come after it.
LEMMA ChildrenAreAfter ==
  ASSUME document \in Seq(Events), NEW t, NEW i \in Nat, NEW key,
         NEW k \in DOMAIN ChildrenRead(t, i, key)
  PROVE  /\ ChildrenRead(t, i, key)[k] \in 0 .. Len(document)
         /\ i < ChildrenRead(t, i, key)[k]
<1>1. PICK n, s : n = Len(document) /\ s = Ended(ChildrenShown(t, i, key))
  OBVIOUS
<1>2. PICK list : list = ChildrenRead(t, i, key) /\ list = Listed(n, s)
  BY <1>1 DEF ChildrenRead
<1>3. n \in Nat
  BY <1>1
<1>4. list \in Seq(s \cap (1 .. n))
  BY <1>2, <1>3, ListedElements
<1>5. list[k] \in s /\ list[k] \in 1 .. n
  BY <1>2, <1>4
<1>6. i < list[k]
  BY <1>1, <1>5 DEF Ended, ChildrenShown, Shown, Inside
<1>7. list[k] \in 0 .. n
  BY <1>3, <1>5
<1>8. QED
  BY <1>1, <1>2, <1>6, <1>7

\* The child elements that are read are listed by their positions.
LEMMA ListIsOfNumbers ==
  ASSUME document \in Seq(Events), NEW t, NEW i, NEW key
  PROVE  ChildrenRead(t, i, key) \in Seq(Nat)
<1>1. PICK n, s : n = Len(document) /\ s = Ended(ChildrenShown(t, i, key)) /\ n \in Nat
  OBVIOUS
<1>2. PICK list : list = Listed(n, s)
  OBVIOUS
<1>3. list \in Seq(s \cap (1 .. n))
  BY <1>1, <1>2, ListedElements
<1>4. list \in Seq(Nat)
  BY <1>1, <1>3
<1>5. QED
  BY <1>1, <1>2, <1>4 DEF ChildrenRead

\* When all elements have ended, all of them are read.
LEMMA AllIsRead ==
  ASSUME \A i \in Tagged("start") : Ends(i) # {}, NEW t, NEW i, NEW key
  PROVE  /\ DataRead(t, i, key) = Values(InOrder(DataShown(t, i, key)))
         /\ ChildrenRead(t, i, key) = InOrder(ChildrenShown(t, i, key))
<1>1. \A j \in Shown(t, i) : Ends(j) # {}
  BY DEF Shown
<1>2. /\ Ended(DataShown(t, i, key)) = DataShown(t, i, key)
      /\ Ended(ChildrenShown(t, i, key)) = ChildrenShown(t, i, key)
  BY <1>1 DEF Ended, DataShown, ChildrenShown
<1>3. \A s : InOrder(s) = Listed(Len(document), s)
  BY InOrderIsListed
<1>4. QED
  BY <1>2, <1>3 DEF DataRead, ChildrenRead

\* A place holds what has been read of its element.
ReadAt(t, i) ==
  /\ DataAt(<< t, i >>) = [key \in Keys |-> DataRead(t, i, key)]
  /\ ChildrenAt(<< t, i >>) =
       [key \in Keys |->
         [n \in DOMAIN ChildrenRead(t, i, key) |->
            << ChildType[t][key], ChildrenRead(t, i, key)[n] >>]]

\* At the end of a document a place has what is read of it.
LEMMA PlaceIsRead ==
  ASSUME \A i \in Tagged("start") : Ends(i) # {}, NEW t, NEW i
  PROVE  ReadAt(t, i)
<1>1. PICK place : place = << t, i >>
  OBVIOUS
<1>2. place = << t, i >> /\ place[1] = t /\ place[2] = i
  BY <1>1
<1>3. \A key : /\ DataRead(t, i, key) = Values(InOrder(DataShown(t, i, key)))
               /\ ChildrenRead(t, i, key) = InOrder(ChildrenShown(t, i, key))
  BY AllIsRead
<1>4. \A key : Values(InOrder(DataShown(t, i, key))) =
        [n \in DOMAIN InOrder(DataShown(t, i, key)) |->
           DataValue(InOrder(DataShown(t, i, key))[n])]
  BY DEF Values
<1>5. DataAt(place) = [key \in Keys |-> DataRead(t, i, key)]
  BY <1>2, <1>3, <1>4 DEF DataAt
<1>6. ChildrenAt(place) =
        [key \in Keys |->
          [n \in DOMAIN ChildrenRead(t, i, key) |->
             << ChildType[t][key], ChildrenRead(t, i, key)[n] >>]]
  BY <1>2, <1>3 DEF ChildrenAt
<1>7. QED
  BY <1>2, <1>5, <1>6 DEF ReadAt

\* The places are well ordered by what is left of the document.
LEMMA PlacesAreRanked ==
  ASSUME document \in Seq(Events), \A i \in Tagged("start") : Ends(i) # {},
         NEW rank, rank = [place \in Places |-> Len(document) - place[2]],
         NEW below, below = [place \in Places |-> ChildrenAt(place)]
  PROVE  /\ Ranked(Places, below, rank)
         /\ \A place \in Places : rank[place] <= Len(document)
<1>1. PICK n \in Nat : n = Len(document)
  OBVIOUS
<1>2. \A place \in Places : /\ rank[place] = n - place[2]
                            /\ place[1] \in Types
                            /\ place[2] \in 0 .. n
                            /\ place = << place[1], place[2] >>
  BY <1>1 DEF Places
<1>3. \A place \in Places : rank[place] \in Nat /\ rank[place] <= n
  <2>1. ASSUME NEW place \in Places
        PROVE  rank[place] \in Nat /\ rank[place] <= n
    <3>1. rank[place] = n - place[2] /\ place[2] \in 0 .. n
      BY <1>2
    <3>2. QED
      BY <1>1, <3>1
  <2>2. QED
    BY <2>1
<1>4. ASSUME NEW place \in Places, NEW key \in Keys, NEW k \in DOMAIN below[place][key]
      PROVE  below[place][key][k] \in Places /\ rank[below[place][key][k]] < rank[place]
  <2>1. PICK t, i : t = place[1] /\ i = place[2]
    OBVIOUS
  <2>2. t \in Types /\ i \in 0 .. n /\ i \in Nat /\ place = << t, i >>
    BY <1>1, <1>2, <2>1
  <2>3. below[place] = ChildrenAt(place)
    OBVIOUS
  <2>4. PICK list : list = ChildrenRead(t, i, key)
    OBVIOUS
  <2>5. below[place][key] = [j \in DOMAIN list |-> << ChildType[t][key], list[j] >>]
    <3>1. ReadAt(t, i)
      BY PlaceIsRead
    <3>2. QED
      BY <2>2, <2>3, <2>4, <3>1 DEF ReadAt
  <2>6. k \in DOMAIN list /\ below[place][key][k] = << ChildType[t][key], list[k] >>
    BY <1>4, <2>5
  <2>7. list[k] \in 0 .. n /\ i < list[k]
    BY <1>1, <2>2, <2>4, <2>6, ChildrenAreAfter
  <2>8. ChildType[t][key] \in Types
    BY <2>2, ElementsAssumption
  <2>9. PICK child : child = << ChildType[t][key], list[k] >>
    OBVIOUS
  <2>10. child \in Places /\ child[2] = list[k]
    BY <1>1, <2>7, <2>8, <2>9 DEF Places
  <2>11. rank[child] = n - list[k] /\ rank[place] = n - i
    BY <1>2, <2>1, <2>10
  <2>12. rank[child] < rank[place]
    BY <1>1, <2>2, <2>7, <2>11
  <2>13. QED
    BY <2>6, <2>9, <2>10, <2>12
<1>5. QED
  BY <1>1, <1>3, <1>4 DEF Ranked

\* So are the objects, by the places of the elements they were made for.
LEMMA ObjectsAreRanked ==
  ASSUME IInv, document \in Seq(Events), NEW starts, NEW place, Link(starts, place),
         NEW rank,
         rank = [p \in Parsables |-> IF Made(p) THEN Len(document) - place[p] ELSE 0]
  PROVE  /\ Ranked(Parsables, children, rank)
         /\ \A p \in Parsables : rank[p] <= Len(document)
<1>1. PICK n \in Nat : n = Len(document)
  OBVIOUS
<1>2. ObjectsArePlaced(starts, place) /\ ObjectsHoldRead(place)
  BY DEF Link, Placed
<1>3. \A p : Made(p) => p \in Parsables /\ place[p] \in 0 .. n
  <2>1. \A i \in Tagged("start") : i \in 0 .. n
    BY <1>1 DEF Tagged, Positions
  <2>2. 0 \in 0 .. n
    OBVIOUS
  <2>3. QED
    BY <1>2, <2>1, <2>2, Zenon DEF ObjectsArePlaced, Made
<1>4. \A p \in Parsables : rank[p] \in Nat /\ rank[p] <= n
  <2>1. ASSUME NEW p \in Parsables
        PROVE  rank[p] \in Nat /\ rank[p] <= n
    <3>1. CASE Made(p)
      <4>1. rank[p] = n - place[p] /\ place[p] \in 0 .. n
        BY <1>1, <1>3, <3>1
      <4>2. QED
        BY <1>1, <4>1
    <3>2. CASE ~Made(p)
      BY <1>1, <3>2
    <3>3. QED
      BY <3>1, <3>2
  <2>2. QED
    BY <2>1
<1>5. ASSUME NEW p \in Parsables, NEW key \in Keys, NEW k \in DOMAIN children[p][key]
      PROVE  children[p][key][k] \in Parsables /\ rank[children[p][key][k]] < rank[p]
  <2>1. PICK child : child = children[p][key][k]
    OBVIOUS
  <2>2. children[p][key] \in Seq(Parsables)
    BY DEF IInv, ElementsType
  <2>3. Made(p)
    <3>1. SUFFICES ASSUME ~Made(p)
                   PROVE  FALSE
      OBVIOUS
    <3>2. children[p][key] = << >>
      BY <1>2, <3>1 DEF ObjectsArePlaced, NoElements
    <3>3. QED
      BY <1>5, <3>2
  <2>4. PICK t, i, list : t = type[p] /\ i = place[p] /\ list = ChildrenRead(t, i, key)
    OBVIOUS
  <2>5. AreFor(children[p][key], ChildType[t][key], list, place)
    BY <1>2, <2>3, <2>4 DEF ObjectsHoldRead
  <2>6. k \in 1 .. Len(list) /\ Made(child) /\ place[child] = list[k]
    BY <1>5, <2>1, <2>2, <2>5 DEF AreFor
  <2>7. list \in Seq(Nat)
    BY <1>1, <2>4, ListIsOfNumbers
  <2>8. i \in 0 .. n /\ i \in Nat
    BY <1>1, <1>3, <2>3, <2>4
  <2>9. list[k] \in 0 .. n /\ i < list[k]
    BY <1>1, <2>4, <2>6, <2>7, <2>8, ChildrenAreAfter
  <2>10. child \in Parsables /\ rank[child] = n - list[k] /\ rank[p] = n - i
    BY <1>1, <1>3, <2>3, <2>4, <2>6
  <2>11. rank[child] < rank[p]
    BY <1>1, <2>8, <2>9, <2>10
  <2>12. QED
    BY <2>1, <2>10, <2>11
<1>6. QED
  BY <1>1, <1>4, <1>5 DEF Ranked

\* At the end of the document every object has the value that is read of its
\* element.
LEMMA RootIsRead ==
  ASSUME IInv, Linked, documentEnded
  PROVE  Value[Root] = Reading[<< RootType, 0 >>]
<1>1. open = << >> /\ ~trapped
  BY DEF IInv, ParserP!IInv, ParserP!EndedMeansClosed, ParserP!TrapsOnlyAfterNestedData
<1>2. document \in Seq(Events)
  BY <1>1 DEF Linked
<1>3. PICK starts, place : Link(starts, place)
  BY <1>1 DEF Linked
<1>4. OpenAt(0, starts) /\ ObjectsArePlaced(starts, place) /\ ObjectsHoldRead(place)
  <2>1. Len(open) = 0
    BY <1>1
  <2>2. QED
    BY <1>3, <2>1 DEF Link, Placed
<1>5. \A i \in Tagged("start") : Ends(i) # {}
  <2>1. \A k : k \notin 1 .. 0
    OBVIOUS
  <2>2. QED
    BY <1>4, <2>1 DEF OpenAt
<1>6. PICK n \in Nat : n = Len(document)
  BY <1>2
<1>7. PICK rank : rank = [p \in Parsables |-> IF Made(p) THEN Len(document) - place[p] ELSE 0]
  OBVIOUS
<1>8. Ranked(Parsables, children, rank) /\ \A p \in Parsables : rank[p] <= n
  BY <1>2, <1>3, <1>6, <1>7, ObjectsAreRanked
<1>9. IsTree(Value, Parsables, data, children)
  BY <1>6, <1>8, TreeExists DEF Value
<1>10. PICK otherRank, held, below :
         /\ otherRank = [pl \in Places |-> Len(document) - pl[2]]
         /\ held = [pl \in Places |-> DataAt(pl)]
         /\ below = [pl \in Places |-> ChildrenAt(pl)]
  OBVIOUS
<1>11. Ranked(Places, below, otherRank) /\ \A pl \in Places : otherRank[pl] <= n
  BY <1>2, <1>5, <1>6, <1>10, PlacesAreRanked
<1>12. Reading = Tree(Places, held, below)
  BY <1>10 DEF Reading
<1>13. IsTree(Reading, Places, held, below)
  BY <1>6, <1>11, <1>12, TreeExists
<1>14. PICK some, at :
         /\ some = {p \in Parsables : Made(p)}
         /\ at = [p \in Parsables |-> << type[p], place[p] >>]
  OBVIOUS
<1>15. ASSUME NEW p \in some
       PROVE  /\ at[p] \in Places
              /\ data[p] = held[at[p]]
              /\ \A key \in Keys :
                   /\ DOMAIN children[p][key] = DOMAIN below[at[p]][key]
                   /\ \A k \in DOMAIN children[p][key] :
                        /\ children[p][key][k] \in some
                        /\ at[children[p][key][k]] = below[at[p]][key][k]
  <2>1. p \in Parsables /\ Made(p)
    BY <1>14
  <2>2. PICK t, i, pl : t = type[p] /\ i = place[p] /\ pl = << t, i >> /\ pl = at[p]
    BY <1>14, <2>1
  <2>3. t \in Types /\ i \in 0 .. n
    <3>1. t \in Types
      BY <2>1, <2>2 DEF Made, IInv, ElementsType
    <3>2. \A j \in Tagged("start") : j \in 0 .. n
      BY <1>6 DEF Tagged, Positions
    <3>3. 0 \in 0 .. n
      OBVIOUS
    <3>4. i \in 0 .. n
      BY <1>4, <2>1, <2>2, <3>2, <3>3, Zenon DEF ObjectsArePlaced
    <3>5. QED
      BY <3>1, <3>4
  <2>4. pl \in Places
    BY <1>6, <2>2, <2>3 DEF Places
  <2>5. held[pl] = DataAt(pl) /\ below[pl] = ChildrenAt(pl)
    BY <1>10, <2>4
  <2>6. ReadAt(t, i)
    BY <1>5, PlaceIsRead
  <2>7. /\ DataAt(pl) = [key \in Keys |-> DataRead(t, i, key)]
        /\ ChildrenAt(pl) =
             [key \in Keys |->
               [k \in DOMAIN ChildrenRead(t, i, key) |->
                  << ChildType[t][key], ChildrenRead(t, i, key)[k] >>]]
    BY <2>2, <2>6 DEF ReadAt
  <2>8. data[p] = held[pl]
    <3>1. data[p] = [key \in Keys |-> data[p][key]]
      BY <2>1 DEF IInv, ElementsType
    <3>2. \A key \in Keys : data[p][key] = DataRead(t, i, key)
      BY <1>4, <2>1, <2>2 DEF ObjectsHoldRead
    <3>3. QED
      BY <2>5, <2>7, <3>1, <3>2
  <2>9. ASSUME NEW key \in Keys
        PROVE  /\ DOMAIN children[p][key] = DOMAIN below[pl][key]
               /\ \A k \in DOMAIN children[p][key] :
                    /\ children[p][key][k] \in some
                    /\ at[children[p][key][k]] = below[pl][key][k]
    <3>1. PICK list, objects, s :
            /\ list = ChildrenRead(t, i, key)
            /\ objects = children[p][key]
            /\ s = ChildType[t][key]
      OBVIOUS
    <3>2. below[pl][key] = [k \in DOMAIN list |-> << s, list[k] >>]
      BY <2>5, <2>7, <3>1
    <3>3. AreFor(objects, s, list, place)
      BY <1>4, <2>1, <2>2, <3>1 DEF ObjectsHoldRead
    <3>4. objects \in Seq(Parsables)
      BY <2>1, <3>1 DEF IInv, ElementsType
    <3>5. list \in Seq(Nat)
      BY <1>2, <3>1, ListIsOfNumbers
    <3>6. DOMAIN list = 1 .. Len(list) /\ DOMAIN objects = 1 .. Len(list)
      BY <3>3, <3>4, <3>5 DEF AreFor
    <3>7. ASSUME NEW k \in 1 .. Len(list)
          PROVE  objects[k] \in some /\ at[objects[k]] = below[pl][key][k]
      <4>1. PICK child : child = objects[k]
        OBVIOUS
      <4>2. Made(child) /\ place[child] = list[k] /\ type[child] = s
        BY <3>3, <4>1 DEF AreFor
      <4>3. child \in Parsables
        BY <4>2 DEF Made
      <4>4. child \in some /\ at[child] = << s, list[k] >>
        BY <1>14, <4>2, <4>3
      <4>5. below[pl][key][k] = << s, list[k] >>
        BY <3>2, <3>6, <3>7
      <4>6. QED
        BY <4>1, <4>4, <4>5
    <3>8. DOMAIN below[pl][key] = DOMAIN list
      BY <3>2
    <3>9. QED
      BY <3>1, <3>6, <3>7, <3>8
  <2>10. QED
    BY <2>2, <2>4, <2>8, <2>9
<1>16. Corresponds(some, at, data, children, Places, held, below)
  BY <1>15 DEF Corresponds
<1>17. \A p \in some : p \in Parsables
  BY <1>14
<1>18. \A p \in some : Value[p] = Reading[at[p]]
  <2>1. PICK f, g : f = Value /\ g = Reading
    OBVIOUS
  <2>2. IsTree(f, Parsables, data, children)
    BY <1>9, <2>1
  <2>3. IsTree(g, Places, held, below)
    BY <1>13, <2>1
  <2>4. Ranked(Parsables, children, rank)
    BY <1>8
  <2>5. Matching(f, Parsables, data, children, rank, g, Places, held, below, some, at)
    BY <1>16, <1>17, <2>2, <2>3, <2>4 DEF Matching
  <2>6. \A p \in some : f[p] = g[at[p]]
    BY <2>5, SameTrees
  <2>7. QED
    BY <2>1, <2>6
<1>19. Made(Root) /\ Root \in Parsables
  BY <1>4, RootAssumption, ElementsAssumption DEF Made, ObjectsArePlaced
<1>20. Root \in some /\ at[Root] = << RootType, 0 >>
  BY <1>4, <1>14, <1>19 DEF ObjectsArePlaced
<1>21. QED
  BY <1>18, <1>20

\* The link holds at every state of a parse.
THEOREM LinkInvariant == Spec => []Linked
<1>1. Init => Linked
  BY InitLinked
<1>2. IInv /\ Linked /\ [Next]_vars => Linked'
  BY NextLinked
<1>3. QED
  BY <1>1, <1>2, Invariant, PTL DEF Spec

\* What parse and finishParsing return after a document holds what a recursive
\* reading of the document gives.
THEOREM ReadingCorrect == Spec => []RootIsReadingOfDocument
<1>1. IInv /\ Linked => RootIsReadingOfDocument
  BY RootIsRead DEF RootIsReadingOfDocument
<1>2. QED
  BY <1>1, Invariant, LinkInvariant, PTL
=============================================================================
