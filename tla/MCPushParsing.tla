--------------------------- MODULE MCPushParsing ---------------------------
(***************************************************************************)
(* PushParsing on a small instance: one error message and one piece of     *)
(* text, as no property here tells them apart, and two parsables.          *)
(***************************************************************************)
EXTENDS PushParsing

CONSTANTS root, child, a, x, message

MCParsables == {root, child}
MCAttributes == {a}
MCText == {x}
MCMessages == {message}

\* A chunk that fits Int32Max = 1 and one that does not.
MCChunkSizes == {0, 2}
=============================================================================
