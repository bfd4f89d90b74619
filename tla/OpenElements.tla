---------------------------- MODULE OpenElements ----------------------------
(***************************************************************************)
(* A document as a SAX parser shows it: the elements that are open at a    *)
(* point of the document, outermost first, and what became of each one.    *)
(*                                                                         *)
(* Both ElementDispatch, the promise made to an application, and           *)
(* XMLPushParser, the code that keeps it, speak of such a sequence: the    *)
(* first as its only state, the second as a history variable beside the    *)
(* counters and optionals of the code.                                     *)
(***************************************************************************)
EXTENDS Integers, Sequences

CONSTANTS
  Parsables,   \* the SAXParsable objects an application can supply
  Root,        \* the one made by T() when the parser is created
  Attributes,  \* the attribute dictionaries an element can carry
  Text,        \* the pieces in which libxml2 reports character data
  Nil          \* Swift's nil

ASSUME RootAssumption == Root \in Parsables

\* nil is told apart from every value, and from the calls that end an element.
ASSUME NilAssumption ==
  /\ Nil \notin Parsables
  /\ Nil \notin Attributes
  /\ Nil \notin Nat
  /\ Nil \notin Seq(Text)
  /\ Nil \notin [op : {"endDataElement"}, to : Parsables, attributes : Attributes,
                 contents : Seq(Text)]
  /\ Nil \notin [op : {"endChildElement"}, to : Parsables, child : Parsables]

(***************************************************************************)
(* SAXStartElement, the three answers of a parsable to startElement.       *)
(***************************************************************************)
Answers == {"ignore", "handleAsData", "handleWithChild"}

(***************************************************************************)
(* An open element: the attributes of its start tag, the parsable that was *)
(* asked about it (Nil if none was, because an enclosing element is        *)
(* ignored), the answer ("skipped" if none was asked), the child parsable  *)
(* that came with the answer, the text reported since its start tag (kept  *)
(* for elements handled as data), and whether another element handled as   *)
(* data has begun inside this one.                                         *)
(***************************************************************************)
OpenElement ==
  [ attributes : Attributes,
    asked      : Parsables \cup {Nil},
    answer     : Answers \cup {"skipped"},
    child      : Parsables \cup {Nil},
    text       : Seq(Text),
    nested     : BOOLEAN ]

Asked(attributes, parsable, answer, child) ==
  [ attributes |-> attributes, asked |-> parsable, answer |-> answer,
    child |-> child, text |-> << >>, nested |-> FALSE ]

Skipped(attributes) == Asked(attributes, Nil, "skipped", Nil)

\* The positions, which are also the levels, of the elements with an answer.
Levels(elements, answer) ==
  {i \in 1 .. Len(elements) : elements[i].answer = answer}

\* Some open element is ignored: what begins now is not shown to anyone.
Skipping(elements) == Levels(elements, "ignore") # {}

\* The parsable in charge: the child of the innermost element that has one,
\* the root parsable when there is none.
InCharge(elements, parsable) ==
  LET parents == Levels(elements, "handleWithChild")
  IN  \/ parents = {} /\ parsable = Root
      \/ \E i \in parents : /\ \A j \in parents : j <= i
                            /\ parsable = elements[i].child

\* A piece of text belongs to every open element handled as data.
Collect(elements, piece) ==
  [i \in 1 .. Len(elements) |->
     IF elements[i].answer = "handleAsData"
     THEN [elements[i] EXCEPT !.text = Append(@, piece)]
     ELSE elements[i]]

\* An element handled as data begins inside the open ones.
Enclose(elements) ==
  [i \in 1 .. Len(elements) |->
     IF elements[i].answer = "handleAsData"
     THEN [elements[i] EXCEPT !.nested = TRUE]
     ELSE elements[i]]

Innermost(elements) == elements[Len(elements)]
Enclosing(elements) == SubSeq(elements, 1, Len(elements) - 1)

(***************************************************************************)
(* The calls a parser makes to a parsable.                                 *)
(***************************************************************************)
StartElementCall(to, attributes) ==
  [op |-> "startElement", to |-> to, attributes |-> attributes]

EndDataElementCall(to, attributes, contents) ==
  [op |-> "endDataElement", to |-> to, attributes |-> attributes, contents |-> contents]

EndChildElementCall(to, child) ==
  [op |-> "endChildElement", to |-> to, child |-> child]
=============================================================================
