----------------------- MODULE LibXMLCallbackFunctions -----------------------
(***************************************************************************)
(* The attributes of a start tag, on their way through                     *)
(* Sources/LibXMLCallbackFunctions.swift: libxml2 hands over one array of  *)
(* pointers, five for each attribute, two of them into its input; the      *)
(* callback lays LibXMLRawAttribute structs over it and makes a Swift      *)
(* dictionary, which in the end is the better part of an XMLDataElement.   *)
(*                                                                         *)
(* The order in which a dictionary is iterated is Swift's: any order, but  *)
(* the same for its keys and its values.                                   *)
(***************************************************************************)
EXTENDS Integers, Sequences, FiniteSets, SequencesExt

CONSTANTS
  Names,          \* the names libxml2 makes, records of prefix and localName
  Namespace,      \* the namespace in scope for every name, or Nil
  Characters,     \* the characters of libxml2's input
  Values,         \* the values of attributes and elements, as characters
  Quote,          \* the character after a value in the input
  MaxAttributes,  \* bound: the attributes of a start tag
  MaxElements,    \* bound: the data elements kept
  Nil             \* a null pointer, and Swift's nil

\* A name as it is written. libxml2 takes what is before the first colon for
\* the prefix, and the whole for a local name if that makes no name, so what
\* is written determines the two.
Written(name) ==
  IF name.prefix = Nil THEN name.localName ELSE name.prefix \o << ":" >> \o name.localName

ASSUME NamesAssumption == \A m, n \in Names : Written(m) = Written(n) => m = n
ASSUME TextAssumption == Quote \in Characters /\ Values \subseteq Seq(Characters)
ASSUME BoundsAssumption == MaxAttributes \in Nat /\ MaxElements \in Nat

VARIABLES
  startTag,           \* external: the attributes of the start tag libxml2 is in
  input,              \* external: the characters of libxml2's input
  attributes,         \* the array of pointers that libxml2 fills
  shown,              \* history: the start tag that elementAttributes is of
  elementAttributes,  \* the dictionary the last callback made, until it is used
  elements            \* the XMLDataElements made so far

vars == << startTag, input, attributes, shown, elementAttributes, elements >>

Init ==
  /\ startTag = << >>
  /\ input = << >>
  /\ attributes = << >>
  /\ shown = Nil
  /\ elementAttributes = Nil
  /\ elements = << >>

\* libxml2 parses an attribute. The same name again would be a fatal error,
\* and the callback would not be called.
ParseAttribute(name, text) ==
  LET start == Len(input) + 1
  IN  /\ Len(elements) < MaxElements
      /\ Len(startTag) < MaxAttributes
      /\ \A k \in DOMAIN startTag : startTag[k].name # name
      /\ startTag' = Append(startTag, [name |-> name, text |-> text])
      /\ input' = input \o text \o << Quote >>
      /\ attributes' = attributes \o
           << name.localName, name.prefix, Namespace[name], start, start + Len(text) >>
      /\ UNCHANGED << shown, elementAttributes, elements >>

-----------------------------------------------------------------------------
(***************************************************************************)
(* LibXMLRawAttribute and LibXMLAttribute.                                 *)
(***************************************************************************)
LibXMLRawAttribute(k) ==
  LET field(i) == attributes[5 * (k - 1) + i]
  IN  [ localName |-> field(1), prefix |-> field(2), uri |-> field(3),
        valueStart |-> field(4), valueEnd |-> field(5) ]

LocalKey(raw) ==  \* mutant: the prefix is left out
  raw.localName

Key(raw) ==
  IF raw.prefix = Nil THEN raw.localName ELSE raw.prefix \o << ":" >> \o raw.localName

valueLength(raw) == raw.valueEnd - raw.valueStart

attributeValue(raw) ==
  SubSeq(input, raw.valueStart, raw.valueStart + valueLength(raw) - 1)

LibXMLAttribute(raw) ==
  [ prefix |-> raw.prefix, localName |-> raw.localName, URI |-> raw.uri,
    value |-> attributeValue(raw) ]

\* A dictionary: its entries, and its keys in the order of iteration. Of two
\* attributes with one key the later one stays.
Dictionaries(raws) ==
  LET keys == {Key(raws[k]) : k \in DOMAIN raws}
      last(key) == CHOOSE k \in DOMAIN raws :
                     /\ Key(raws[k]) = key
                     /\ \A j \in DOMAIN raws : Key(raws[j]) = key => j <= k
  IN  [ entries : {[key \in keys |-> LibXMLAttribute(raws[last(key)])]},
        keys : SetToSeqs(keys) ]

Entries(dictionary) ==
  [k \in DOMAIN dictionary.keys |-> dictionary.entries[dictionary.keys[k]]]

XMLPushSAXParserStartElementSAX ==
  /\ Len(elements) < MaxElements
  /\ elementAttributes' \in
       Dictionaries([k \in 1 .. Len(attributes) \div 5 |-> LibXMLRawAttribute(k)])
  /\ shown' = startTag
  /\ startTag' = << >>
  /\ input' = << >>
  /\ attributes' = << >>
  /\ UNCHANGED elements

\* endDataElement of XMLSAXElementParser, when the start tag was that of data.
endDataElement(text) ==
  /\ elementAttributes # Nil
  /\ Len(elements) < MaxElements
  /\ elements' = Append(elements, [value |-> text, attributes |-> elementAttributes])
  /\ elementAttributes' = Nil
  /\ shown' = Nil
  /\ UNCHANGED << startTag, input, attributes >>

Next ==
  \/ \E name \in Names, text \in Values : ParseAttribute(name, text)
  \/ XMLPushSAXParserStartElementSAX
  \/ \E text \in Values : endDataElement(text)

Spec == Init /\ [][Next]_vars

-----------------------------------------------------------------------------
(***************************************************************************)
(* == of XMLDataElement. The values are compared with the == of            *)
(* LibXMLAttribute, which looks at all four fields.                        *)
(***************************************************************************)
SameKeys(lhs, rhs) ==  \* mutant: the values of the dictionaries are not compared
  /\ lhs.value = rhs.value
  /\ lhs.attributes.keys = rhs.attributes.keys

Equal(lhs, rhs) ==
  /\ lhs.value = rhs.value
  /\ lhs.attributes.keys = rhs.attributes.keys
  /\ Entries(lhs.attributes) = Entries(rhs.attributes)

-----------------------------------------------------------------------------
(***************************************************************************)
(* Properties.                                                             *)
(***************************************************************************)

\* The dictionary that startElement and endDataElement get has every attribute
\* of the start tag under the name it is written with, with its own value out of
\* libxml2's input, and nothing else: none is lost to another.
DictionaryIsStartTag ==
  shown # Nil =>
    /\ Len(elementAttributes.keys) = Len(shown)
    /\ \A k \in DOMAIN shown :
         LET name == shown[k].name
         IN  /\ Contains(elementAttributes.keys, Written(name))
             /\ elementAttributes.entries[Written(name)] =
                  [ prefix |-> name.prefix, localName |-> name.localName,
                    URI |-> Namespace[name], value |-> shown[k].text ]

\* Elements that compare equal have the same value and the same attributes,
\* although == looks at keys and values apart and in an order of Swift's. (The
\* converse fails: equal dictionaries may be iterated in different orders.)
EqualElementsAreAlike ==
  \A i, j \in DOMAIN elements :
    Equal(elements[i], elements[j]) =>
      /\ elements[i].value = elements[j].value
      /\ elements[i].attributes.entries = elements[j].attributes.entries
=============================================================================
