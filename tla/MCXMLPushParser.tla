--------------------------- MODULE MCXMLPushParser ---------------------------
(***************************************************************************)
(* XMLPushParser on small instances.                                       *)
(***************************************************************************)
EXTENDS XMLPushParser, TLC

CONSTANTS root, child, a, b, x, y

\* The root parsable and one that the application hands out again and again.
MCParsables == {root, child}
MCAttributes == {a, b}
MCText == {x, y}

\* The two attribute dictionaries, and the two pieces of text, are only ever
\* compared for equality.
Symmetry == Permutations(MCAttributes) \cup Permutations(MCText)
=============================================================================
