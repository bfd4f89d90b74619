---------------------------- MODULE XMLPushParser ----------------------------
(***************************************************************************)
(* XMLPushParser<T> of Sources/XMLPushParser.swift: the class that turns   *)
(* the SAX events of a document into calls to a tree of SAXParsable        *)
(* objects. It keeps a level counter, a stack of parsables with the level  *)
(* each was pushed at, one text buffer with the attributes that go with    *)
(* it, and the level at which ignoring ends.                               *)
(*                                                                         *)
(* libxml2 is the environment: it reports the tags of one document element *)
(* properly nested and text only inside it. The application is the         *)
(* environment too: it answers startElement as it likes, and may supply    *)
(* the same parsable more than once. Names, prefixes and URIs are passed   *)
(* through unread by this class and are left out.                          *)
(***************************************************************************)
EXTENDS OpenElements

CONSTANTS
  MaxDepth,  \* bound: how deep the elements of a document nest
  MaxText    \* bound: how many pieces of text an element handled as data holds

ASSUME BoundsAssumption == MaxDepth \in Nat /\ MaxText \in Nat

VARIABLES
  level,                     \* Int
  stack,                     \* [SAXParsableStackItem]
  buffer,                    \* NSMutableData?
  dataAttributes,            \* [String:LibXMLAttribute]?
  ignoreElementsUntilLevel,  \* Int?
  trapped,                   \* a force unwrap of nil has stopped the program
  call,                      \* the call the last event made to a parsable, or Nil
  open,                      \* history: the open elements of the document
  documentEnded              \* libxml2 has reported the end of the document element

parserVars == << level, stack, buffer, dataAttributes, ignoreElementsUntilLevel >>
vars == << parserVars, trapped, call, open, documentEnded >>

(***************************************************************************)
(* State of the class.                                                     *)
(***************************************************************************)
StackItem == [parseItem : Parsables, level : Nat]

SAXParsableStackItem(parseItem, itemLevel) ==
  [parseItem |-> parseItem, level |-> itemLevel]

Top == stack[Len(stack)]

\* The parsable on top of the stack: `stack.last!`.
current == Top.parseItem

\* ignoringElements, which the start handler reads after it has counted the
\* element in and the end handler before it has counted it out.
IgnoringBelow(l) ==  \* mutant: the ignored element's own level is left out
  /\ ignoreElementsUntilLevel # Nil
  /\ l > ignoreElementsUntilLevel

IgnoringElements(l) ==
  /\ ignoreElementsUntilLevel # Nil
  /\ l >= ignoreElementsUntilLevel

Init ==
  /\ level = 0
  /\ stack = << SAXParsableStackItem(Root, 0) >>
  /\ buffer = Nil
  /\ dataAttributes = Nil
  /\ ignoreElementsUntilLevel = Nil
  /\ trapped = FALSE
  /\ call = Nil
  /\ open = << >>
  /\ documentEnded = FALSE

(***************************************************************************)
(* startElementWithPrefix. The three answers of `current.startElement`.    *)
(***************************************************************************)
IgnoreUntilParent ==  \* mutant: remembers the level of the enclosing element
  /\ ignoreElementsUntilLevel' = level
  /\ UNCHANGED << stack, buffer, dataAttributes >>

Ignore ==
  /\ ignoreElementsUntilLevel' = level + 1
  /\ UNCHANGED << stack, buffer, dataAttributes >>

HandleAsData(attributes) ==
  /\ buffer' = << >>
  /\ dataAttributes' = attributes
  /\ UNCHANGED << stack, ignoreElementsUntilLevel >>

PushAtParentLevel(child) ==  \* mutant: the level before the element was counted in
  /\ stack' = Append(stack, SAXParsableStackItem(child, level))
  /\ UNCHANGED << buffer, dataAttributes, ignoreElementsUntilLevel >>

HandleWithChild(child) ==
  /\ stack' = Append(stack, SAXParsableStackItem(child, level + 1))
  /\ UNCHANGED << buffer, dataAttributes, ignoreElementsUntilLevel >>

StartIgnored(attributes) ==
  /\ IgnoringElements(level + 1)
  /\ call' = Nil
  /\ open' = Append(open, Skipped(attributes))
  /\ UNCHANGED << stack, buffer, dataAttributes, ignoreElementsUntilLevel >>

StartAndAsk(attributes) ==
  /\ ~IgnoringElements(level + 1)
  /\ call' = StartElementCall(current, attributes)
  /\ \/ /\ Ignore
        /\ open' = Append(open, Asked(attributes, current, "ignore", Nil))
     \/ /\ HandleAsData(attributes)
        /\ open' = Append(Enclose(open), Asked(attributes, current, "handleAsData", Nil))
     \/ \E child \in Parsables :
          /\ HandleWithChild(child)
          /\ open' = Append(open, Asked(attributes, current, "handleWithChild", child))

startElementWithPrefix(attributes) ==
  /\ ~trapped
  /\ ~documentEnded
  /\ Len(open) < MaxDepth
  /\ level' = level + 1
  /\ StartIgnored(attributes) \/ StartAndAsk(attributes)
  /\ UNCHANGED << trapped, documentEnded >>

(***************************************************************************)
(* charactersFound, `buffer?.append`: it looks neither at the level nor at *)
(* ignoring.                                                               *)
(***************************************************************************)
AppendUnlessIgnoring(piece) ==  \* mutant: text of ignored elements is dropped
  buffer' = IF buffer = Nil \/ IgnoringElements(level) THEN buffer ELSE Append(buffer, piece)

AppendToBuffer(piece) ==
  buffer' = IF buffer = Nil THEN Nil ELSE Append(buffer, piece)

charactersFound(piece) ==
  /\ ~trapped
  /\ open # << >>
  /\ \A i \in 1 .. Len(open) : Len(open[i].text) < MaxText
  /\ AppendToBuffer(piece)
  /\ open' = Collect(open, piece)
  /\ call' = Nil
  /\ UNCHANGED << level, stack, dataAttributes, ignoreElementsUntilLevel, trapped, documentEnded >>

(***************************************************************************)
(* endElementWithPrefix. The deferred block runs on every way out of it;   *)
(* a trap is no way out.                                                   *)
(***************************************************************************)
NeverStopIgnoring ==  \* mutant: the level to ignore until is kept
  UNCHANGED ignoreElementsUntilLevel

StopIgnoring ==
  ignoreElementsUntilLevel' =
    IF ignoreElementsUntilLevel = level THEN Nil ELSE ignoreElementsUntilLevel

DeferredOnTop ==  \* mutant: the early return counts an ignored element out as well
  /\ StopIgnoring
  /\ level' = IF IgnoringElements(level) THEN level - 2 ELSE level - 1
  /\ open' = Enclosing(open)
  /\ documentEnded' = (Len(open) = 1)
  /\ UNCHANGED trapped

Deferred ==
  /\ StopIgnoring
  /\ level' = level - 1
  /\ open' = Enclosing(open)
  /\ documentEnded' = (Len(open) = 1)
  /\ UNCHANGED trapped

EndIgnored ==
  /\ IgnoringElements(level)
  /\ call' = Nil
  /\ UNCHANGED << stack, buffer, dataAttributes >>
  /\ Deferred

CallBeforePop ==  \* mutant: the child itself is told of its own end
  /\ stack' = SubSeq(stack, 1, Len(stack) - 1)
  /\ call' = EndChildElementCall(current, Top.parseItem)

PeekAndCall ==  \* mutant: the child stays on the stack
  /\ call' = EndChildElementCall(stack[Len(stack) - 1].parseItem, Top.parseItem)
  /\ UNCHANGED stack

PopAndCall ==
  /\ stack' = SubSeq(stack, 1, Len(stack) - 1)
  /\ call' = EndChildElementCall(stack[Len(stack) - 1].parseItem, Top.parseItem)

EndChild ==
  /\ ~IgnoringElements(level)
  /\ Top.level = level
  /\ PopAndCall
  /\ UNCHANGED << buffer, dataAttributes >>
  /\ Deferred

ClearAfterUse ==
  /\ buffer' = Nil
  /\ dataAttributes' = Nil

EndData ==
  /\ ~IgnoringElements(level)
  /\ Top.level # level
  /\ buffer # Nil
  /\ dataAttributes # Nil
  /\ call' = EndDataElementCall(current, dataAttributes, buffer)
  /\ ClearAfterUse
  /\ UNCHANGED stack
  /\ Deferred

\* `dataAttributes!` or `buffer!` finds nil.
EndDataTraps ==
  /\ ~IgnoringElements(level)
  /\ Top.level # level
  /\ buffer = Nil \/ dataAttributes = Nil
  /\ trapped' = TRUE
  /\ call' = Nil
  /\ UNCHANGED << parserVars, open, documentEnded >>

endElementWithPrefix ==
  /\ ~trapped
  /\ open # << >>
  /\ EndIgnored \/ EndChild \/ EndData \/ EndDataTraps

Next ==
  \/ \E attributes \in Attributes : startElementWithPrefix(attributes)
  \/ \E piece \in Text : charactersFound(piece)
  \/ endElementWithPrefix

Spec == Init /\ [][Next]_vars

-----------------------------------------------------------------------------
(***************************************************************************)
(* Properties.                                                             *)
(***************************************************************************)

\* The types the Swift declarations give the fields of the parser, and the
\* shape of the history.
TypeOK ==
  /\ level \in Nat
  /\ stack \in Seq(StackItem)
  /\ buffer \in Seq(Text) \cup {Nil}
  /\ dataAttributes \in Attributes \cup {Nil}
  /\ ignoreElementsUntilLevel \in Nat \cup {Nil}
  /\ trapped \in BOOLEAN
  /\ open \in Seq(OpenElement)
  /\ documentEnded \in BOOLEAN

\* The stack is the root parsable at level 0 and above it the children of the
\* open elements that have one, in order and at their levels, whatever data
\* and ignored elements lie between them. So `stack.last!` never meets an
\* empty stack, and an end tag, which finds level at least 1, never pops the
\* root parsable.
StackHoldsOpenChildren ==
  /\ level = Len(open)
  /\ Len(stack) >= 1
  /\ stack[1] = SAXParsableStackItem(Root, 0)
  /\ \A k \in 2 .. Len(stack) :
       /\ stack[k].level \in Levels(open, "handleWithChild")
       /\ stack[k].parseItem = open[stack[k].level].child
  /\ \A j, k \in 1 .. Len(stack) : j < k => stack[j].level < stack[k].level
  /\ \A i \in Levels(open, "handleWithChild") :
       \E k \in 2 .. Len(stack) : stack[k].level = i

\* ignoreElementsUntilLevel is the level of the one ignored element that is
\* open: its descendants were shown to nobody, all else was shown to someone.
IgnoringIsOneSubtree ==
  /\ ignoreElementsUntilLevel # Nil => ignoreElementsUntilLevel \in Levels(open, "ignore")
  /\ \A i \in Levels(open, "ignore") : i = ignoreElementsUntilLevel
  /\ \A i \in 1 .. Len(open) :
       open[i].answer = "skipped" <=>
         ignoreElementsUntilLevel # Nil /\ i > ignoreElementsUntilLevel

\* The one buffer belongs to the innermost open element handled as data, as
\* long as no element inside that one took it over: it holds the text since
\* that element's start tag, and dataAttributes its attributes. A nil buffer
\* means that every open element handled as data has lost it to another.
BufferBelongsToOneElement ==
  /\ buffer = Nil <=> dataAttributes = Nil
  /\ \A i, j \in Levels(open, "handleAsData") : i < j => open[i].nested
  /\ \A i \in Levels(open, "handleAsData") :
       ~open[i].nested => buffer = open[i].text /\ dataAttributes = open[i].attributes
  /\ buffer # Nil => \E i \in Levels(open, "handleAsData") : ~open[i].nested

\* The parsable asked about an open element is the one on the stack below it,
\* so the end of the element is told to the parsable that knows of its start,
\* although the code looks `current` up anew each time.
AskedIsBelowOnStack ==
  \A i \in 1 .. Len(open), k \in 1 .. Len(stack) :
    ( /\ open[i].answer # "skipped"
      /\ stack[k].level < i
      /\ k < Len(stack) => stack[k + 1].level >= i )
    => open[i].asked = stack[k].parseItem

\* The force unwraps of the data branch fail at one place only: the end tag of
\* an element handled as data in which another one was handled as data.
TrapsOnlyAfterNestedData ==
  trapped => /\ open # << >>
             /\ Innermost(open).answer = "handleAsData"
             /\ Innermost(open).nested

\* When the document element has ended the parser is as it was when created:
\* nothing of a document outlives it in the counters and optionals.
RestoredAtDocumentEnd ==
  documentEnded =>
    /\ level = 0
    /\ stack = << SAXParsableStackItem(Root, 0) >>
    /\ buffer = Nil
    /\ dataAttributes = Nil
    /\ ignoreElementsUntilLevel = Nil

\* Once an element is ignored, no start tag, text or end tag before its own end
\* tag calls a parsable, moves the stack or starts or ends a data element, and
\* its own end tag is not told to anyone either.
IgnoredSubtreeIsSilent ==
  [][Skipping(open) => call' = Nil /\ UNCHANGED << stack, dataAttributes >>]_vars

\* The code does what ElementDispatch promises.
Dispatch == INSTANCE ElementDispatch WITH gaveUp <- trapped
ImplementsDispatch == Dispatch!Spec

\* What the `!` of dataAttributes! and buffer! asserts: both are there.
ForceUnwrapsHold == ~trapped
=============================================================================
