---------------------------- MODULE DocumentParse ----------------------------
(***************************************************************************)
(* A whole parse: a document, the XMLPushParser that dispatches its events *)
(* and the XMLSAXElementParser objects it calls. The document is made up   *)
(* as it is parsed and remembered, so that the objects at the end can be   *)
(* compared with a recursive reading of the document.                      *)
(***************************************************************************)
EXTENDS XMLSAXElementParser, FiniteSets

CONSTANTS
  MaxDepth,  \* bound: how deep the elements of a document nest
  MaxText,   \* bound: how many pieces of text an element handled as data holds
  MaxEvents  \* bound: how many tags and pieces of text a document has

ASSUME BoundsAssumption == MaxDepth \in Nat /\ MaxText \in Nat /\ MaxEvents \in Nat

VARIABLES
  level, stack, buffer, dataAttributes, ignoreElementsUntilLevel, trapped,
  call, open, documentEnded,  \* the variables of XMLPushParser
  document                    \* history: the events so far

Parser == INSTANCE XMLPushParser

vars == << Parser!vars, elementVars, document >>

Start(name, attributes) == [tag |-> "start", name |-> name, attributes |-> attributes]
Characters(piece) == [tag |-> "characters", piece |-> piece]
End(name) == [tag |-> "end", name |-> name]

Init ==
  /\ Parser!Init
  /\ ElementsInit
  /\ document = << >>

-----------------------------------------------------------------------------
(***************************************************************************)
(* The positions of the remembered document.                               *)
(***************************************************************************)
Positions == 1 .. Len(document)
Tagged(tag) == {i \in Positions : document[i].tag = tag}

\* The number of elements open after position i.
Depth(i) == Cardinality({j \in Tagged("start") : j <= i})
            - Cardinality({j \in Tagged("end") : j <= i})

\* The end tags that take the document out of the element that starts at i;
\* the first is its own.
Ends(i) == {j \in Tagged("end") : j > i /\ Depth(j) = Depth(i) - 1}

\* The element that the next end tag closes.
OpenStart == CHOOSE i \in Tagged("start") :
  /\ Ends(i) = {}
  /\ \A j \in Tagged("start") : Ends(j) = {} => j <= i

-----------------------------------------------------------------------------
(***************************************************************************)
(* The events, as libxml2 reports them to the parser, and the calls that   *)
(* the parser makes to the objects.                                        *)
(***************************************************************************)
StartTag(name, attributes) ==
  /\ Len(document) < MaxEvents
  /\ Parser!startElementWithPrefix(attributes)
  /\ document' = Append(document, Start(name, attributes))
  /\ LET opened == Innermost(open')
     IN  \/ opened.answer = "skipped" /\ UNCHANGED elementVars
         \/ /\ opened.answer # "skipped"
            /\ startElement(call'.to, name, opened.answer, opened.child)

CharacterData(piece) ==
  /\ Len(document) < MaxEvents
  /\ Parser!charactersFound(piece)
  /\ document' = Append(document, Characters(piece))
  /\ UNCHANGED elementVars

EndTag ==
  /\ Parser!endElementWithPrefix
  /\ LET name == document[OpenStart].name
     IN  /\ document' = Append(document, End(name))
         /\ \/ call' = Nil /\ UNCHANGED elementVars
            \/ /\ call' # Nil /\ call'.op = "endDataElement"
               /\ endDataElement(call'.to, name, call'.attributes, call'.contents)
            \/ /\ call' # Nil /\ call'.op = "endChildElement"
               /\ endChildElement(call'.to, name, call'.child)

Next ==
  \/ \E name \in Names, attributes \in Attributes : StartTag(name, attributes)
  \/ \E piece \in Text : CharacterData(piece)
  \/ EndTag

Spec == Init /\ [][Next]_vars

-----------------------------------------------------------------------------
(***************************************************************************)
(* Properties.                                                             *)
(***************************************************************************)

\* The parsable has been given to its parent by endChildElement.
HandedOver(parsable) ==
  \E p \in Parsables, key \in Keys :
    \E n \in DOMAIN children[p][key] : children[p][key][n] = parsable

\* When a parsable is handed over by endChildElement it is complete: the
\* receiver may read its dictionaries at once, whatever the document goes on
\* with, and nobody writes to them again.
HandedOverIsComplete ==
  [][\A p \in Parsables : HandedOver(p) =>
       UNCHANGED << data[p], children[p] >>]_vars
=============================================================================
