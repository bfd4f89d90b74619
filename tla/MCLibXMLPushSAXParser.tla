----------------------- MODULE MCLibXMLPushSAXParser -----------------------
(***************************************************************************)
(* LibXMLPushSAXParser on a small instance.                                *)
(***************************************************************************)
EXTENDS LibXMLPushSAXParser

CONSTANTS first, second

\* Two messages: an error and a later one that replaces it.
MCMessages == {first, second}

\* An empty chunk, the largest that fits Int32Max = 2, and the next.
MCChunkSizes == {0, 2, 3}
=============================================================================
