---------------------- MODULE MCLibXMLCallbackFunctions ----------------------
(***************************************************************************)
(* LibXMLCallbackFunctions with two names that differ in the prefix only,  *)
(* one of them in a namespace, and `:id`, whose local name has a colon.    *)
(***************************************************************************)
EXTENDS LibXMLCallbackFunctions

MCNames ==
  { [prefix |-> Nil, localName |-> << "id" >>],
    [prefix |-> << "a" >>, localName |-> << "id" >>],
    [prefix |-> Nil, localName |-> << ":", "id" >>] }

MCNamespace == [n \in MCNames |-> IF n.prefix = Nil THEN Nil ELSE << "uri" >>]
MCCharacters == {"x", "y", Quote}
MCValues == {<< >>, << "x", "y" >>}
=============================================================================
