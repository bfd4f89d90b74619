-------------------- MODULE LibXMLCallbackFunctions_proofs --------------------
(***************************************************************************)
(* Proofs about LibXMLCallbackFunctions: what the array of pointers holds  *)
(* while libxml2 fills it, what the dictionary made of it holds, and what  *)
(* == can tell of two dictionaries.                                        *)
(***************************************************************************)
EXTENDS LibXMLCallbackFunctions, FunctionTheorems, FiniteSetTheorems, SequenceTheorems, TLAPS

-----------------------------------------------------------------------------
(***************************************************************************)
(* Sequences.                                                              *)
(***************************************************************************)

\* A part of a sequence that agrees with another sequence is that sequence.
LEMMA PartOfSequence ==
  ASSUME NEW S, NEW s \in Seq(S), NEW t \in Seq(S), NEW a \in Nat \ {0},
         a + Len(t) - 1 <= Len(s),
         \A i \in 1 .. Len(t) : s[a + i - 1] = t[i]
  PROVE  SubSeq(s, a, a + Len(t) - 1) = t
<1> DEFINE n == Len(t)
           part == SubSeq(s, a, a + n - 1)
<1>1. n \in Nat /\ Len(s) \in Nat
  BY LenProperties
<1>2. \A i \in a .. a + n - 1 : i \in 1 .. Len(s) /\ s[i] \in S
  BY <1>1, ElementOfSeq
<1>3. /\ part \in Seq(S)
      /\ Len(part) = IF a <= a + n - 1 THEN (a + n - 1) - a + 1 ELSE 0
      /\ \A i \in 1 .. (a + n - 1) - a + 1 : part[i] = s[a + i - 1]
  <2>1. a \in Int /\ a + n - 1 \in Int
    BY <1>1
  <2>2. QED
    BY <1>2, <2>1, SubSeqProperties
<1>4. Len(part) = n /\ \A i \in 1 .. n : part[i] = t[i]
  <2> HIDE DEF part
  <2> QED
    BY <1>1, <1>3
<1>5. QED
  BY <1>3, <1>4, SeqEqual

\* Both parts of a sequence put together are found in it.
LEMMA JoinedParts ==
  ASSUME NEW S, NEW s \in Seq(S), NEW t \in Seq(S)
  PROVE  /\ s \o t \in Seq(S)
         /\ Len(s \o t) = Len(s) + Len(t)
         /\ \A i \in 1 .. Len(s) : (s \o t)[i] = s[i]
         /\ \A i \in 1 .. Len(t) : (s \o t)[Len(s) + i] = t[i]
OBVIOUS

\* A sequence that lists a finite set has each element of it.
LEMMA ListedIsContained ==
  ASSUME NEW S, IsFiniteSet(S), NEW s \in SetToSeqs(S)
  PROVE  /\ s \in Seq(S)
         /\ Len(s) = Cardinality(S)
         /\ \A e \in S : Contains(s, e)
<1> DEFINE D == 1 .. Cardinality(S)
<1>1. Cardinality(S) \in Nat
  BY FS_CardinalityType
<1>2. s \in [D -> S] /\ \A i, j \in D : i # j => s[i] # s[j]
  BY DEF SetToSeqs
<1>3. s \in Seq(S) /\ Len(s) = Cardinality(S)
  BY <1>1, <1>2
<1>4. s \in Injection(D, S)
  BY <1>2, Fun_IsInj
<1>5. IsFiniteSet(D) /\ Cardinality(D) = Cardinality(S)
  BY <1>1, FS_Interval
<1>6. s \in Surjection(D, S)
  BY <1>4, <1>5, FS_Injection
<1>7. \A e \in S : \E i \in D : s[i] = e
  BY <1>6 DEF Surjection
<1>8. QED
  BY <1>3, <1>7 DEF Contains

-----------------------------------------------------------------------------
(***************************************************************************)
(* Dictionaries.                                                           *)
(***************************************************************************)

\* The keys in their order are those of the entries.
GoodDictionary(dictionary) ==
  /\ dictionary.entries = [key \in DOMAIN dictionary.entries |-> dictionary.entries[key]]
  /\ Len(dictionary.keys) \in Nat
  /\ DOMAIN dictionary.keys = 1 .. Len(dictionary.keys)
  /\ \A key \in DOMAIN dictionary.entries : Contains(dictionary.keys, key)
  /\ \A k \in DOMAIN dictionary.keys : dictionary.keys[k] \in DOMAIN dictionary.entries

\* A dictionary of attributes with different keys has them all.
LEMMA DictionaryFacts ==
  ASSUME NEW n \in Nat, NEW raws, DOMAIN raws = 1 .. n,
         \A j, k \in 1 .. n : Key(raws[j]) = Key(raws[k]) => j = k,
         NEW dictionary \in Dictionaries(raws)
  PROVE  /\ GoodDictionary(dictionary)
         /\ Len(dictionary.keys) = n
         /\ \A k \in 1 .. n : /\ Contains(dictionary.keys, Key(raws[k]))
                              /\ dictionary.entries[Key(raws[k])] = LibXMLAttribute(raws[k])
<1> DEFINE keys == {Key(raws[k]) : k \in DOMAIN raws}
           last(key) == CHOOSE k \in DOMAIN raws :
                          /\ Key(raws[k]) = key
                          /\ \A j \in DOMAIN raws : Key(raws[j]) = key => j <= k
           keyOf == [k \in 1 .. n |-> Key(raws[k])]
<1>1. /\ dictionary.entries = [key \in keys |-> LibXMLAttribute(raws[last(key)])]
      /\ dictionary.keys \in SetToSeqs(keys)
  BY DEF Dictionaries
<1>2. IsFiniteSet(keys) /\ Cardinality(keys) = n
  <2>1. keyOf \in Bijection(1 .. n, keys)
    BY Fun_IsBij
  <2>2. IsFiniteSet(1 .. n) /\ Cardinality(1 .. n) = n
    BY FS_Interval
  <2>3. ExistsBijection(1 .. n, keys)
    BY <2>1, Fun_ExistsBij
  <2>4. QED
    BY <2>2, <2>3, FS_Bijection
<1>3. /\ dictionary.keys \in Seq(keys)
      /\ Len(dictionary.keys) = n
      /\ \A key \in keys : Contains(dictionary.keys, key)
  BY <1>1, <1>2, ListedIsContained
<1>4. \A k \in 1 .. n : Key(raws[k]) \in keys /\ last(Key(raws[k])) = k
  OBVIOUS
<1>5. GoodDictionary(dictionary)
  BY <1>1, <1>3, LenProperties, ElementOfSeq DEF GoodDictionary
<1>6. QED
  BY <1>1, <1>3, <1>4, <1>5

-----------------------------------------------------------------------------
(***************************************************************************)
(* The inductive invariant.                                                *)
(***************************************************************************)
Attribute == [name : Names, text : Values]

\* What libxml2 puts into its array.
Pointers ==
  {name.localName : name \in Names} \cup {name.prefix : name \in Names}
    \cup {Namespace[name] : name \in Names} \cup Nat

\* The k-th struct is that of an attribute, and its value is in the input.
Describes(k, attribute) ==
  LET raw == LibXMLRawAttribute(k)
  IN  /\ raw.localName = attribute.name.localName
      /\ raw.prefix = attribute.name.prefix
      /\ raw.uri = Namespace[attribute.name]
      /\ raw.valueStart \in Nat \ {0}
      /\ raw.valueEnd = raw.valueStart + Len(attribute.text)
      /\ raw.valueEnd - 1 <= Len(input)
      /\ \A i \in 1 .. Len(attribute.text) : input[raw.valueStart + i - 1] = attribute.text[i]

ArrayInv ==
  /\ startTag \in Seq(Attribute)
  /\ input \in Seq(Characters)
  /\ attributes \in Seq(Pointers)
  /\ Len(attributes) = 5 * Len(startTag)
  /\ \A k \in 1 .. Len(startTag) : Describes(k, startTag[k])
  /\ \A j, k \in 1 .. Len(startTag) : startTag[j].name = startTag[k].name => j = k

DictionariesInv ==
  /\ elementAttributes # Nil => GoodDictionary(elementAttributes)
  /\ \A k \in DOMAIN elements : GoodDictionary(elements[k].attributes)
  /\ Len(elements) \in Nat
  /\ elements = [k \in 1 .. Len(elements) |-> elements[k]]

IInv == ArrayInv /\ DictionaryIsStartTag /\ DictionariesInv

LEMMA EmptyArray ==
  startTag = << >> /\ input = << >> /\ attributes = << >> => ArrayInv
<1> SUFFICES ASSUME startTag = << >>, input = << >>, attributes = << >>
             PROVE  ArrayInv
  OBVIOUS
<1>1. \A S : << >> \in Seq(S) /\ Len(<< >>) = 0
  OBVIOUS
<1>2. 1 .. 0 = {}
  OBVIOUS
<1>3. Len(startTag) = 0 /\ Len(attributes) = 5 * Len(startTag)
  BY <1>1
<1>4. QED
  BY <1>1, <1>2, <1>3 DEF ArrayInv

LEMMA InitIInv ==
  ASSUME Init
  PROVE  IInv
<1>1. ArrayInv /\ DictionaryIsStartTag
  BY EmptyArray DEF Init, DictionaryIsStartTag
<1>2. DictionariesInv
  <2>1. elements = << >> /\ elementAttributes = Nil
    BY DEF Init
  <2>2. DOMAIN elements = {} /\ Len(elements) = 0 /\ 1 .. 0 = {}
    BY <2>1
  <2>3. QED
    BY <2>1, <2>2 DEF DictionariesInv
<1>3. QED
  BY <1>1, <1>2 DEF IInv

-----------------------------------------------------------------------------
(***************************************************************************)
(* libxml2 adds an attribute: five pointers, and a value with its quote.   *)
(***************************************************************************)
LEMMA ParseAttributeArray ==
  ASSUME ArrayInv, NEW name \in Names, NEW text \in Values, ParseAttribute(name, text)
  PROVE  ArrayInv'
<1> DEFINE n == Len(startTag)
           start == Len(input) + 1
           new == [name |-> name, text |-> text]
           five == << name.localName, name.prefix, Namespace[name], start, start + Len(text) >>
<1>1. /\ startTag \in Seq(Attribute)
      /\ input \in Seq(Characters)
      /\ attributes \in Seq(Pointers)
      /\ Len(attributes) = 5 * n
      /\ n \in Nat /\ Len(input) \in Nat /\ start \in Nat \ {0}
  BY DEF ArrayInv
<1>2. text \in Seq(Characters) /\ Len(text) \in Nat /\ << Quote >> \in Seq(Characters)
  BY TextAssumption
<1>3. /\ startTag' \in Seq(Attribute)
      /\ Len(startTag') = n + 1
      /\ \A k \in 1 .. n : startTag'[k] = startTag[k]
      /\ startTag'[n + 1] = new
  <2>1. startTag' = Append(startTag, new) /\ new \in Attribute
    BY DEF ParseAttribute, Attribute
  <2>2. QED
    BY <1>1, <2>1, AppendProperties
<1>4. /\ input' \in Seq(Characters)
      /\ Len(input') = Len(input) + Len(text) + 1
      /\ \A i \in 1 .. Len(input) : input'[i] = input[i]
      /\ \A i \in 1 .. Len(text) : input'[start + i - 1] = text[i]
  <2>1. input' = input \o text \o << Quote >>
    BY DEF ParseAttribute
  <2>2. QED
    BY <1>1, <1>2, <2>1
<1>5. /\ attributes' \in Seq(Pointers)
      /\ Len(attributes') = 5 * n + 5
      /\ \A i \in 1 .. 5 * n : attributes'[i] = attributes[i]
      /\ \A i \in 1 .. 5 : attributes'[5 * n + i] = five[i]
  <2>1. attributes' = attributes \o five
    BY DEF ParseAttribute
  <2>2. five \in Seq(Pointers) /\ Len(five) = 5
    BY <1>1, <1>2 DEF Pointers
  <2> HIDE DEF five
  <2>3. /\ attributes' \in Seq(Pointers)
        /\ Len(attributes') = Len(attributes) + Len(five)
        /\ \A i \in 1 .. Len(attributes) : attributes'[i] = attributes[i]
        /\ \A i \in 1 .. Len(five) : attributes'[Len(attributes) + i] = five[i]
    <3>1. attributes \in Seq(Pointers) /\ five \in Seq(Pointers)
      BY <1>1, <2>2
    <3>2. PICK whole : whole = attributes \o five
      OBVIOUS
    <3>3. /\ whole \in Seq(Pointers)
          /\ Len(whole) = Len(attributes) + Len(five)
          /\ \A i \in 1 .. Len(attributes) : whole[i] = attributes[i]
          /\ \A i \in 1 .. Len(five) : whole[Len(attributes) + i] = five[i]
      BY <3>1, <3>2, JoinedParts
    <3>4. attributes' = whole
      BY <2>1, <3>2
    <3>5. QED
      BY <3>3, <3>4
  <2>4. Len(attributes) = 5 * n /\ Len(five) = 5
    BY <1>1, <2>2
  <2>5. QED
    BY <2>3, <2>4, Zenon
<1>6. ASSUME NEW k \in 1 .. n
      PROVE  Describes(k, startTag[k])'
  <2>1. /\ k \in Nat
        /\ \A i \in 1 .. 5 : 5 * (k - 1) + i \in 1 .. 5 * n
    BY <1>1
  <2>2. LibXMLRawAttribute(k)' = LibXMLRawAttribute(k)
    BY <1>5, <2>1 DEF LibXMLRawAttribute
  <2>3. startTag'[k] = startTag[k] /\ startTag[k] \in Attribute
    BY <1>1, <1>3, ElementOfSeq
  <2>4. Len(startTag[k].text) \in Nat
    BY <2>3, TextAssumption DEF Attribute
  <2>5. Describes(k, startTag[k])
    BY DEF ArrayInv
  <2>6. PICK raw, attribute : raw = LibXMLRawAttribute(k) /\ attribute = startTag[k]
    OBVIOUS
  <2>7. /\ raw.localName = attribute.name.localName
        /\ raw.prefix = attribute.name.prefix
        /\ raw.uri = Namespace[attribute.name]
        /\ raw.valueStart \in Nat \ {0}
        /\ raw.valueEnd = raw.valueStart + Len(attribute.text)
        /\ raw.valueEnd - 1 <= Len(input)
        /\ \A i \in 1 .. Len(attribute.text) :
             input[raw.valueStart + i - 1] = attribute.text[i]
    BY <2>5, <2>6 DEF Describes
  <2>8. raw.valueEnd - 1 <= Len(input')
    BY <1>1, <1>2, <1>4, <2>4, <2>6, <2>7
  <2>9. \A i \in 1 .. Len(attribute.text) : raw.valueStart + i - 1 \in 1 .. Len(input)
    BY <1>1, <2>4, <2>6, <2>7
  <2>10. \A i \in 1 .. Len(attribute.text) :
           input'[raw.valueStart + i - 1] = attribute.text[i]
    BY <1>4, <2>7, <2>9
  <2>11. LibXMLRawAttribute(k)' = raw /\ startTag'[k] = attribute
    BY <2>2, <2>3, <2>6
  <2>12. QED
    BY <2>7, <2>8, <2>10, <2>11 DEF Describes
<1>7. ASSUME NEW k, k = n + 1
      PROVE  Describes(k, startTag[k])'
  <2>1. 5 * (k - 1) = 5 * n /\ startTag'[k] = new
    BY <1>1, <1>3, <1>7
  <2>2. LibXMLRawAttribute(k)' =
          [ localName |-> name.localName, prefix |-> name.prefix, uri |-> Namespace[name],
            valueStart |-> start, valueEnd |-> start + Len(text) ]
    BY <1>5, <2>1 DEF LibXMLRawAttribute
  <2>3. QED
    BY <1>1, <1>2, <1>4, <2>1, <2>2 DEF Describes
<1>8. \A j, k \in 1 .. n + 1 : startTag'[j].name = startTag'[k].name => j = k
  <2>1. \A j \in 1 .. n : startTag[j].name # name
    BY <1>1 DEF ParseAttribute
  <2>2. \A k \in 1 .. n + 1 : k \in 1 .. n \/ k = n + 1
    BY <1>1
  <2>3. \A j, k \in 1 .. n : startTag'[j].name = startTag'[k].name => j = k
    BY <1>3 DEF ArrayInv
  <2>4. startTag'[n + 1].name = name
    BY <1>3
  <2>5. \A j \in 1 .. n : startTag'[j].name # startTag'[n + 1].name
    BY <1>3, <2>1, <2>4
  <2>6. QED
    BY <2>2, <2>3, <2>5
<1>9. \A k \in 1 .. n + 1 : Describes(k, startTag[k])'
  <2>1. \A k \in 1 .. n + 1 : k \in 1 .. n \/ k = n + 1
    BY <1>1
  <2>2. QED
    BY <1>6, <1>7, <2>1
<1>10. Len(attributes') = 5 * (n + 1)
  BY <1>1, <1>5
<1>11. QED
  BY <1>3, <1>4, <1>5, <1>8, <1>9, <1>10 DEF ArrayInv

-----------------------------------------------------------------------------
(***************************************************************************)
(* The callback makes a dictionary of the array.                           *)
(***************************************************************************)

\* The k-th struct becomes the k-th attribute of the start tag, and its key is
\* the name as it is written.
LEMMA AttributeOfStruct ==
  ASSUME ArrayInv, NEW k \in 1 .. Len(startTag)
  PROVE  LET name == startTag[k].name
             raw == LibXMLRawAttribute(k)
         IN  /\ name \in Names
             /\ Key(raw) = Written(name)
             /\ LibXMLAttribute(raw) =
                  [ prefix |-> name.prefix, localName |-> name.localName,
                    URI |-> Namespace[name], value |-> startTag[k].text ]
<1> DEFINE name == startTag[k].name
           text == startTag[k].text
<1>1. PICK raw : raw = LibXMLRawAttribute(k)
  OBVIOUS
<1>2. name \in Names /\ text \in Seq(Characters) /\ Len(text) \in Nat
  <2>1. startTag[k] \in Attribute
    BY ElementOfSeq DEF ArrayInv
  <2>2. QED
    BY <2>1, TextAssumption DEF Attribute
<1>3. /\ raw.localName = name.localName
      /\ raw.prefix = name.prefix
      /\ raw.uri = Namespace[name]
      /\ raw.valueStart \in Nat \ {0}
      /\ raw.valueEnd = raw.valueStart + Len(text)
      /\ raw.valueEnd - 1 <= Len(input)
      /\ \A i \in 1 .. Len(text) : input[raw.valueStart + i - 1] = text[i]
  BY <1>1 DEF ArrayInv, Describes
<1>4. attributeValue(raw) = text
  <2>1. PICK from \in Nat \ {0} : from = raw.valueStart
    BY <1>3
  <2>2. input \in Seq(Characters) /\ from + Len(text) - 1 <= Len(input)
    BY <1>3, <2>1 DEF ArrayInv
  <2>3. \A i \in 1 .. Len(text) : input[from + i - 1] = text[i]
    BY <1>3, <2>1
  <2>4. raw.valueStart = from /\ raw.valueStart + valueLength(raw) - 1 = from + Len(text) - 1
    BY <1>2, <1>3, <2>1 DEF valueLength
  <2> HIDE DEF text
  <2>5. SubSeq(input, from, from + Len(text) - 1) = text
    BY <1>2, <2>2, <2>3, PartOfSequence
  <2>6. QED
    BY <2>1, <2>4, <2>5 DEF attributeValue
<1>5. QED
  BY <1>1, <1>2, <1>3, <1>4 DEF Key, Written, LibXMLAttribute

LEMMA StartElementDictionary ==
  ASSUME ArrayInv, XMLPushSAXParserStartElementSAX
  PROVE  DictionaryIsStartTag' /\ GoodDictionary(elementAttributes)'
<1> DEFINE n == Len(startTag)
           raws == [k \in 1 .. Len(attributes) \div 5 |-> LibXMLRawAttribute(k)]
<1>1. n \in Nat /\ Len(attributes) \div 5 = n
  BY DEF ArrayInv
<1>2. PICK dictionary \in Dictionaries(raws) : elementAttributes' = dictionary /\ shown' = startTag
  BY DEF XMLPushSAXParserStartElementSAX
<1>3. DOMAIN raws = 1 .. n /\ \A k \in 1 .. n : raws[k] = LibXMLRawAttribute(k)
  BY <1>1
<1>4. \A k \in 1 .. n :
        /\ startTag[k].name \in Names
        /\ Key(raws[k]) = Written(startTag[k].name)
        /\ LibXMLAttribute(raws[k]) =
             [ prefix |-> startTag[k].name.prefix, localName |-> startTag[k].name.localName,
               URI |-> Namespace[startTag[k].name], value |-> startTag[k].text ]
  BY <1>3, AttributeOfStruct
<1>5. \A j, k \in 1 .. n : Key(raws[j]) = Key(raws[k]) => j = k
  BY <1>4, NamesAssumption DEF ArrayInv
<1>6. /\ GoodDictionary(dictionary)
      /\ Len(dictionary.keys) = n
      /\ \A k \in 1 .. n : /\ Contains(dictionary.keys, Key(raws[k]))
                           /\ dictionary.entries[Key(raws[k])] = LibXMLAttribute(raws[k])
  <2> HIDE DEF raws
  <2> QED
    BY <1>1, <1>3, <1>5, DictionaryFacts
<1>7. DOMAIN startTag = 1 .. n
  BY DEF ArrayInv
<1>8. DictionaryIsStartTag'
  BY <1>2, <1>4, <1>6, <1>7 DEF DictionaryIsStartTag
<1>9. GoodDictionary(elementAttributes)'
  BY <1>2, <1>6 DEF GoodDictionary
<1>10. QED
  BY <1>8, <1>9

-----------------------------------------------------------------------------
(***************************************************************************)
(* Each step keeps the invariant.                                          *)
(***************************************************************************)
LEMMA NextIInv ==
  ASSUME IInv, [Next]_vars
  PROVE  IInv'
<1>1. ASSUME NEW name \in Names, NEW text \in Values, ParseAttribute(name, text)
      PROVE  IInv'
  <2>1. ArrayInv'
    BY <1>1, ParseAttributeArray DEF IInv
  <2>2. UNCHANGED << shown, elementAttributes, elements >>
    BY <1>1 DEF ParseAttribute
  <2>3. QED
    BY <2>1, <2>2 DEF IInv, DictionaryIsStartTag, DictionariesInv, GoodDictionary
<1>2. CASE XMLPushSAXParserStartElementSAX
  <2>1. ArrayInv'
    <3>1. startTag' = << >> /\ input' = << >> /\ attributes' = << >>
      BY <1>2 DEF XMLPushSAXParserStartElementSAX
    <3>2. (startTag = << >> /\ input = << >> /\ attributes = << >> => ArrayInv)'
      BY EmptyArray, PTL
    <3>3. QED
      BY <3>1, <3>2
  <2>2. DictionaryIsStartTag' /\ GoodDictionary(elementAttributes)' /\ UNCHANGED elements
    BY <1>2, StartElementDictionary DEF IInv, XMLPushSAXParserStartElementSAX
  <2>3. QED
    BY <2>1, <2>2 DEF IInv, DictionariesInv, GoodDictionary
<1>3. ASSUME NEW text \in Values, endDataElement(text)
      PROVE  IInv'
  <2>1. UNCHANGED << startTag, input, attributes >> /\ shown' = Nil /\ elementAttributes' = Nil
    BY <1>3 DEF endDataElement
  <2>2. ArrayInv' /\ DictionaryIsStartTag'
    BY <2>1 DEF IInv, ArrayInv, Describes, LibXMLRawAttribute, DictionaryIsStartTag
  <2>3. DictionariesInv'
    <3>1. PICK element : /\ elements' = Append(elements, element)
                         /\ GoodDictionary(element.attributes)
      <4>1. PICK element : element = [value |-> text, attributes |-> elementAttributes]
        OBVIOUS
      <4>2. GoodDictionary(element.attributes)
        BY <1>3, <4>1 DEF endDataElement, IInv, DictionariesInv
      <4>3. QED
        BY <1>3, <4>1, <4>2 DEF endDataElement
    <3>2. PICK S : elements \in Seq(S) /\ element \in S
      <4>1. elements \in Seq({elements[k] : k \in 1 .. Len(elements)} \cup {element})
        BY DEF IInv, DictionariesInv
      <4>2. QED
        BY <4>1
    <3>3. /\ Len(elements') \in Nat
          /\ elements' \in Seq(S)
          /\ \A k \in DOMAIN elements' : \/ k \in DOMAIN elements /\ elements'[k] = elements[k]
                                       \/ elements'[k] = element
      BY <3>1, <3>2
    <3>4. \A k \in DOMAIN elements' : GoodDictionary(elements[k].attributes)'
      <4>1. TAKE k \in DOMAIN elements'
      <4>2. PICK d : d = elements'[k].attributes
        OBVIOUS
      <4>3. GoodDictionary(d)
        BY <3>1, <3>3, <4>2 DEF IInv, DictionariesInv
      <4>4. QED
        BY <4>2, <4>3 DEF GoodDictionary
    <3>5. QED
      BY <2>1, <3>3, <3>4, LenProperties DEF DictionariesInv
  <2>4. QED
    BY <2>2, <2>3 DEF IInv
<1>4. CASE UNCHANGED vars
  BY <1>4 DEF vars, IInv, ArrayInv, Describes, LibXMLRawAttribute, DictionaryIsStartTag,
     DictionariesInv, GoodDictionary
<1>5. QED
  BY <1>1, <1>2, <1>3, <1>4 DEF Next

-----------------------------------------------------------------------------
(***************************************************************************)
(* What the invariant shows.                                               *)
(***************************************************************************)

\* The inductive invariant holds while libxml2 fills its array, when the callback
\* has made a dictionary of it, and when that has become part of an element.
THEOREM Invariant == Spec => []IInv
<1>1. Init => IInv
  BY InitIInv
<1>2. IInv /\ [Next]_vars => IInv'
  BY NextIInv
<1>3. QED
  BY <1>1, <1>2, PTL DEF Spec

\* The dictionary has every attribute of the start tag, under its written name
\* and with its own value: for any number of attributes, and any names and values.
THEOREM DictionaryCorrect == Spec => []DictionaryIsStartTag
<1>1. IInv => DictionaryIsStartTag
  BY DEF IInv
<1>2. QED
  BY <1>1, Invariant, PTL

\* Dictionaries that are alike in the order of their keys and in the values in
\* that order have the same entries.
LEMMA SameEntriesInOrder ==
  ASSUME NEW d, NEW e, GoodDictionary(d), GoodDictionary(e), d.keys = e.keys, Entries(d) = Entries(e)
  PROVE  d.entries = e.entries
<1>1. DOMAIN d.entries = DOMAIN e.entries
  BY DEF GoodDictionary, Contains
<1>2. ASSUME NEW key \in DOMAIN d.entries
      PROVE  d.entries[key] = e.entries[key]
  <2>1. PICK k \in DOMAIN d.keys : d.keys[k] = key
    BY DEF GoodDictionary, Contains
  <2>2. Entries(d)[k] = d.entries[key] /\ Entries(e)[k] = e.entries[key]
    BY <2>1 DEF Entries
  <2>3. QED
    BY <2>2
<1>3. QED
  BY <1>1, <1>2 DEF GoodDictionary

\* == never takes two elements for equal that differ in their value or in an
\* attribute, in whatever order Swift iterates their dictionaries.
THEOREM EqualCorrect == Spec => []EqualElementsAreAlike
<1>1. ASSUME IInv, NEW i \in DOMAIN elements, NEW j \in DOMAIN elements,
             Equal(elements[i], elements[j])
      PROVE  /\ elements[i].value = elements[j].value
             /\ elements[i].attributes.entries = elements[j].attributes.entries
  <2>1. GoodDictionary(elements[i].attributes) /\ GoodDictionary(elements[j].attributes)
    BY <1>1 DEF IInv, DictionariesInv
  <2>2. QED
    BY <1>1, <2>1, SameEntriesInOrder DEF Equal
<1>2. IInv => EqualElementsAreAlike
  BY <1>1 DEF EqualElementsAreAlike
<1>3. QED
  BY <1>2, Invariant, PTL
===============================================================================
