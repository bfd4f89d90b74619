--------------------------- MODULE MCDocumentParse ---------------------------
(***************************************************************************)
(* DocumentParse with two types of element parsers that contain each       *)
(* other. `title` is data to both, and the enum of child elements of a     *)
(* list knows it too; `part` is a child element of both; `other` is known  *)
(* to neither. The cases of an enum are named like the elements, as those  *)
(* of an XMLElementStringEnum are.                                         *)
(***************************************************************************)
EXTENDS DocumentReading, TLC

CONSTANTS root, one, two, three, a, b, x, y, list, record, title, part, other

MCParsables == {root, one, two, three}
MCAttributes == {a, b}
MCText == {x, y}
MCNames == {title, part, other}
MCKeys == {title, part}
MCTypes == {list, record}

MCDataElement ==
  [t \in MCTypes |-> [name \in MCNames |-> IF name = title THEN title ELSE Nil]]

MCChildElement ==
  [t \in MCTypes |-> [name \in MCNames |->
     CASE name = part -> part
       [] name = title /\ t = list -> title
       [] OTHER -> Nil]]

MCChildType ==
  [t \in MCTypes |-> [key \in MCKeys |-> IF t = list THEN record ELSE list]]

Symmetry == Permutations({one, two, three}) \cup Permutations({a, b}) \cup Permutations({x, y})
=============================================================================
