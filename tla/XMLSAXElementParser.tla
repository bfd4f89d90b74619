------------------------- MODULE XMLSAXElementParser -------------------------
(***************************************************************************)
(* XMLSAXElementParser<DataElement, ChildElement> of                       *)
(* Sources/XMLPushParser.swift: the parsable the library supplies. It      *)
(* knows the elements it wants by two enums, keeps the contents of data    *)
(* elements and the parsables of child elements in two dictionaries of     *)
(* arrays, and ignores the rest.                                           *)
(*                                                                         *)
(* An application subclasses it once for each kind of element; such a      *)
(* subclass is a member of Types here, with its enums as functions of the  *)
(* element name (prefix, URI and local name together). A parsable is one   *)
(* object; the calls to it come from an XMLPushParser.                     *)
(***************************************************************************)
EXTENDS OpenElements

CONSTANTS
  Names,         \* element names
  Keys,          \* cases of the application's enums
  Types,         \* subclasses of XMLSAXElementParser
  RootType,      \* the T of XMLPushParser<T>
  DataElement,   \* the DataElement a type's enum makes of a name, or Nil
  ChildElement,  \* the ChildElement a type's enum makes of a name, or Nil
  ChildType      \* ChildElement.type()

ASSUME ElementsAssumption ==
  /\ RootType \in Types
  /\ Nil \notin Keys \cup Types
  /\ DataElement \in [Types -> [Names -> Keys \cup {Nil}]]
  /\ ChildElement \in [Types -> [Names -> Keys \cup {Nil}]]
  /\ ChildType \in [Types -> [Keys -> Types]]

VARIABLES
  type,     \* the type of every parsable, Nil of those that are not made yet
  data,     \* [DataElement:[XMLDataElement]] of every parsable
  children  \* [ChildElement:[SAXParsable]] of every parsable

elementVars == << type, data, children >>

XMLDataElement(value, attributes) == [value |-> value, attributes |-> attributes]

\* A key that is missing from a dictionary and one with an empty array are the
\* same to `first` and to a loop over the arrays.
NoElements == [key \in Keys |-> << >>]

ElementsInit ==
  /\ type = [p \in Parsables |-> IF p = Root THEN RootType ELSE Nil]
  /\ data = [p \in Parsables |-> NoElements]
  /\ children = [p \in Parsables |-> NoElements]

(***************************************************************************)
(* startElement: what it answers, and the parsable it makes for a child.   *)
(***************************************************************************)
Answer(t, name) ==
  CASE DataElement[t][name] # Nil -> "handleAsData"
    [] DataElement[t][name] = Nil /\ ChildElement[t][name] # Nil -> "handleWithChild"
    [] OTHER -> "ignore"

Fresh(parsable) == parsable \in Parsables /\ type[parsable] = Nil

New(parsable, t) == type' = [type EXCEPT ![parsable] = t]

startElement(parsable, name, answer, child) ==
  LET t == type[parsable]
  IN  /\ answer = Answer(t, name)
      /\ \/ answer # "handleWithChild" /\ UNCHANGED type
         \/ /\ answer = "handleWithChild"
            /\ Fresh(child)
            /\ New(child, ChildType[t][ChildElement[t][name]])
      /\ UNCHANGED << data, children >>

(***************************************************************************)
(* The two end calls. An element the enum does not know changes nothing.   *)
(* `contents` are pieces of text; stringFromXML joins them, and the joined *)
(* string is represented by its pieces.                                    *)
(***************************************************************************)
KeepLast(arrays, element, value) ==  \* mutant: a new array for every element
  IF element = Nil THEN arrays ELSE [arrays EXCEPT ![element] = << value >>]

AppendTo(arrays, element, value) ==
  IF element = Nil THEN arrays ELSE [arrays EXCEPT ![element] = Append(@, value)]

endDataElement(parsable, name, attributes, contents) ==
  /\ data' = [data EXCEPT ![parsable] =
                AppendTo(@, DataElement[type[parsable]][name],
                         XMLDataElement(contents, attributes))]
  /\ UNCHANGED << type, children >>

endChildElement(parsable, name, child) ==
  /\ children' = [children EXCEPT ![parsable] =
                    AppendTo(@, ChildElement[type[parsable]][name], child)]
  /\ UNCHANGED << type, data >>
=============================================================================
