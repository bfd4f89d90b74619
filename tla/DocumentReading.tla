--------------------------- MODULE DocumentReading ---------------------------
(***************************************************************************)
(* The reference for what a whole parse leaves in the parsables: a         *)
(* recursive reading of the finished document, with no counter, stack or   *)
(* buffer. Position 0 stands for the document itself.                      *)
(***************************************************************************)
EXTENDS DocumentParse, SequencesExt

\* Position j lies inside the element that starts at i.
Inside(i, j) == i < j /\ \A k \in Ends(i) : j < k

IsData(t, i) == DataElement[t][document[i].name] # Nil
IsChild(t, i) == ~IsData(t, i) /\ ChildElement[t][document[i].name] # Nil

\* The elements that a type is shown are those inside, as long as all elements
\* between are data to it.
Shown(t, i) ==
  {j \in Tagged("start") :
     Inside(i, j) /\ \A k \in Tagged("start") : Inside(i, k) /\ Inside(k, j) => IsData(t, k)}

\* Its data and child elements with a key.
DataShown(t, i, key) ==
  {j \in Shown(t, i) : DataElement[t][document[j].name] = key}
ChildrenShown(t, i, key) ==
  {j \in Shown(t, i) : IsChild(t, j) /\ ChildElement[t][document[j].name] = key}

InOrder(positions) ==
  FlattenSeq([i \in Positions |-> IF i \in positions THEN << i >> ELSE << >>])

ContentsOf(i) ==
  LET texts == InOrder({j \in Tagged("characters") : Inside(i, j)})
  IN  [n \in DOMAIN texts |-> document[texts[n]].piece]

DataValue(i) == XMLDataElement(ContentsOf(i), document[i].attributes)

\* What a node holds, and the nodes below it: by their keys.
Tree(nodes, held, below) ==
  LET tree[node \in nodes] ==
        [ data     |-> held[node],
          children |-> [key \in Keys |->
                          [n \in DOMAIN below[node][key] |-> tree[below[node][key][n]]]] ]
  IN  tree

\* An element parser of a type that was made for the element at a position.
Places == Types \X (0 .. Len(document))

DataAt(place) ==
  [key \in Keys |->
     LET elements == InOrder(DataShown(place[1], place[2], key))
     IN  [n \in DOMAIN elements |-> DataValue(elements[n])]]

ChildrenAt(place) ==
  [key \in Keys |->
     LET elements == InOrder(ChildrenShown(place[1], place[2], key))
     IN  [n \in DOMAIN elements |-> << ChildType[place[1]][key], elements[n] >>]]

Reading ==
  Tree(Places, [place \in Places |-> DataAt(place)], [place \in Places |-> ChildrenAt(place)])

\* What the objects hold.
Value == Tree(Parsables, data, children)

-----------------------------------------------------------------------------
(***************************************************************************)
(* Properties.                                                             *)
(***************************************************************************)

\* The root that parse and finishParsing return after a document holds what a
\* recursive reading of the document gives: every data element that is shown
\* to a parsable, under its key, in document order, with its attributes and
\* all the text inside it, and every child element likewise.
RootIsReadingOfDocument ==
  documentEnded => Value[Root] = Reading[<< RootType, 0 >>]
=============================================================================
