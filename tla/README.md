# A verification project for XMLPushParser

XMLPushParser is a small Swift library around libxml2's push SAX parser. An
application gives it a tree of *parsables* (objects that build model values), feeds
it the bytes of a document as they arrive, and the library routes every element of
the document to the parsable that is in charge of it.

This directory holds TLA+ models of the library, TLC configurations that check them on
small instances, and TLAPS proofs that carry the main results to every instance.

## 1. Inventory

The program is about 570 lines under `src/Sources`; everything named `*.h` below
`src` other than `LibXMLPushSAXParser.h` is libxml2's and outside it.

| component | code | state | operations |
|---|---|---|---|
| element dispatch | `XMLPushParser.swift` 10-119 | `level`, `stack`, `buffer`, `dataAttributes`, `ignoreElementsUntilLevel` | `startElementWithPrefix`, `charactersFound`, `endElementWithPrefix` |
| life of the parser | `LibXMLPushSAXParser.swift` 36-107 | `context`, `unsafeSelf`, `error`, `__once` | `init`, `_parse`, `_parseData`, `_finishParsing`, `errorOccurred`, `cleanupContext`, `deinit` |
| SAX callback adapter | `LibXMLCallbackFunctions.swift` | none of its own | the four C callbacks, `getParser`, attribute dictionary |
| error trampoline | `LibXMLPushSAXParser.m` | none | formats an error, calls `errorOccurred` |
| element parser | `XMLPushParser.swift` 129-246 | `data`, `children` of each parsable | `startElement`, `endDataElement`, `endChildElement`; `XMLDataElement`, `==` |
| conversion | `Conversion.swift` | none | `stringFromData`, `intFromString`, `boolFromString` |
| libxml2 | external | document position, first fatal error | `xmlCreatePushParserCtxt`, `xmlParseChunk`, `xmlFreeParserCtxt` |

**How they interact.** The client calls `parse`, or `parseData` and `finishParsing`,
which forward to the base class. That calls `xmlParseChunk`, which calls the C
callbacks synchronously with a pointer to `unsafeSelf`. The adapter finds the parser
behind the pointer and calls the handlers of `XMLPushParser`; these call the parsable
on top of the stack. Errors travel the other way: `errorOccurred` stores them, and the
method that called `xmlParseChunk` throws what is stored when it returns. There are no
threads and no persistence; what is hard is the sequence of events and calls.

**What is hard.**

- One `level` counter, one stack, one buffer and one optional ignore level stand for
  the whole nesting of a document. They are right only together: a level pushed one
  off is noticed many tags later, at some other element.
- The buffer is not on the stack. Elements handled as data can nest, because the
  parsable stays in charge inside a data element and may answer `handleAsData` again.
- The library retains itself (`unsafeSelf.initialize(to: self)`) so that callbacks find
  it; only one path of one method undoes that.
- The stored error outlives the call that met it, and errors that stop libxml2 and
  errors that do not are stored alike.
- The calls of a client come in any order; the documented protocol is not enforced.

**What makes each component correct.**

- *Element dispatch:* every element outside ignored ones is shown to the parsable in
  charge; its end is told to the same parsable with its own child, or its own
  attributes and text; ignored elements are silent; after the document nothing is left.
- *Life of the parser:* no use of a freed context, no callback into a dead parser,
  success only for a whole document without errors, every error thrown, everything
  freed in the end.
- *Adapter:* starts and ends given to the handlers stay balanced; no attribute is lost.
- *Element parser:* values are kept in document order under their element; data and
  child elements are told apart the same way at start and end.
- *Conversion:* a value is the whole text of its element, and the two ways of reading numbers and
  Booleans do not contradict each other; `==` calls only elements with the same contents equal.

`PROJECT.json` lists the hazards at their lines with the properties that watch them.

## 2. Modules

| module | models |
|---|---|
| `OpenElements` | the open elements of a document, the answers and calls; shared vocabulary |
| `ElementDispatch` | abstract specification of the dispatch: what an application is promised |
| `XMLPushParser` | the class of that name, action for handler |
| `ParserLife` | abstract specification of a parser's life: what a client is promised |
| `LibXMLPushSAXParser` | the base class and the client's calls, with libxml2 as environment |
| `PushParsing` | the library at work: the two classes and the C callbacks composed, libxml2 reading a document in chunks |
| `XMLSAXElementParser` | the parsable the library supplies: its answer to a start tag, its two dictionaries |
| `DocumentParse` | a whole parse: `XMLPushParser` calling `XMLSAXElementParser` objects |
| `DocumentReading` | the reference for a parse: what a finished document says, and what an object holds |
| `LibXMLCallbackFunctions` | the attributes of a start tag, from libxml2's array of pointers to `==` of `XMLDataElement` |
| `UTF8` | text and its bytes |
| `ErrorTrampoline` | an error message on its way through the C buffer |
| `Conversion` | strings, numbers and Booleans out of the contents of elements |
| `MC...` | small instances for TLC, one for each module that a run checks |
| `..._proofs` | theorems about the module of that name |
| `RecursionTheorems` | induction, recursion, joined sequences and lists of positions: lemmas for the proofs about text and documents |

### XMLPushParser

The variables have the names of the fields. `startElementWithPrefix(attributes)`,
`charactersFound(piece)` and `endElementWithPrefix` are the handlers; one step is one
handler with the call it makes to a parsable, recorded in `call`, and the parsable's
answer, chosen freely. `startElementWithPrefix` increments the level first, so its
guard reads `IgnoringElements(level + 1)`; `Deferred` is the `defer` block of the end
handler, which runs with each of its three ways out. `EndDataTraps` is the force unwrap
of nil, which stops the program.

`open` and `documentEnded` are history: the open elements of the document and what was
answered about each. They let properties say what the counters *mean*, and are the
state of `ElementDispatch`, so the refinement mapping is `gaveUp <- trapped` and
otherwise the identity. The environment is a well-formed document, cut off anywhere:
tags nest, text is inside the document element. Names, prefixes and URIs are handed
through unread by this class and are left out; bytes of text are pieces; attribute
dictionaries are opaque values.

`ElementDispatch` has no counter, parser stack or buffer. It decides each call from the
list of open elements: who is in charge is the child of the innermost element that has
one, the contents of a data element are the text since its own start tag. It gives up
only at the end of a data element with another data element in it.

### LibXMLPushSAXParser

`Parse`, `ParseData` and `FinishParsing` are the entries of the three methods with
their guards. While `at` is `"chunk"` or `"final"` the call is inside `xmlParseChunk`
with data or with terminate; `XmlError` and `DocumentEnds` are what libxml2 does there.
`ChunkReturns` is the rest of `_parseData`, and of `_parse` as far as the next
`xmlParseChunk`; `FinalReturns` is the rest of `_finishParsing`. The guards that `_parse`
repeats by calling the other two are not modelled twice: nothing can clear the context
between them. `Release` is the client's last reference going away and the `deinit` that
may follow. `ctxt` is the context on libxml2's heap; `usage` follows the documented
protocol and guards nothing. `Init` allows for `xmlCreatePushParserCtxt` answering NULL: such a parser
rejects every call with `usedAfterFinished` and keeps its reference to itself (`NoContextNoParse`).

Assumed of libxml2: it reports every fatal error through the error callback; after a
fatal error it parses nothing in later chunks; a terminating chunk reports an
incomplete document; `xmlParseChunk` returns. A parser is not called from inside its own
callbacks, and a client holds a reference to the object whose method it is running.

### ParserLife

Seen from the client there is no context, heap or self-reference: a parser is open or
closed, a method runs or none does, errors stick, and a call that finishes returns only
for a document that was read to its end without one. The mapping in
`LibXMLPushSAXParser` is

| `ParserLife` | `LibXMLPushSAXParser` |
|---|---|
| `phase` | whether `context` is nil |
| `running` | `at` while it is `"idle"` or `"trapped"`, otherwise `method` |
| `failure` | `error` |
| `whole` | `xml = "complete"` |
| `outcome` | `outcome` |

so `ImplementsLife` says that a nil test of `context` is exactly the question whether the
parser is closed. `_parse` is one method here and two chunks there: its step from the
first chunk to the second is a stutter.

### PushParsing

`PushParsing` has the variables of `LibXMLPushSAXParser` and of `XMLPushParser`, and
`nesting`, libxml2's own count of open elements, which knows of the program only through
`XMLPushSAXParserHandlerStruct`. An event of the document happens while a call is inside
`xmlParseChunk` and no fatal error has been met; it calls the handler that is installed
for it, and passes over the program where none is. `parse`, `parseData` and
`finishParsing` are those of `XMLPushParser`; a handler that traps never returns to
libxml2, so nothing happens after it. The guards of the callbacks against missing names, text and
pointers let every event through, since libxml2 passes none of these.

### XMLSAXElementParser and DocumentParse

An application subclasses `XMLSAXElementParser` once per kind of element; a member of
`Types` is such a subclass, and its two enums are the functions `DataElement` and
`ChildElement` from names to keys or `Nil` (an `XMLElementsNone` is `Nil` throughout).
`type`, `data` and `children` hold the fields of all objects that exist; `type().init()`
takes a parsable that is not in use yet. A missing dictionary entry and an empty array
are told apart by no operation of the class and are the same here. The value of a data
element is the sequence of the pieces of its text: `stringFromXML` joins them into one
string, which takes part in no decision here, and its fallback for bytes that are not
UTF-8 is not reached, since libxml2 hands on nothing else.

`DocumentParse` has the variables of `XMLPushParser` and of the element parsers, and
`document`, the events so far. A step is one event, the handler of the dispatcher
(`Parser!...`) and the operation of the object that the handler calls. `Reading`, in
`DocumentReading`, is the reference: from the finished document alone, and with no counter, stack or buffer, it
says what an element parser of a type should hold; `Value` is what an object does hold. Both are
trees (`Tree`, a recursive function): of the places of the document, which are pairs of a type and the
position of a start tag, and of the objects.

### LibXMLCallbackFunctions

`attributes` is the array libxml2 makes, five pointers for an attribute, two of them into
`input`. `LibXMLRawAttribute(k)` is the struct that the callback lays over it, and
`XMLPushSAXParserStartElementSAX` makes the dictionary. Swift iterates a dictionary in any
order, so a dictionary is its entries and the order of its keys, chosen once. `Equal` is `==` of
`XMLDataElement`, which looks at the keys and at the values as arrays. A local name may
hold a colon (`:id`), which is why the key of an attribute is compared as it is written.

### UTF8, ErrorTrampoline and Conversion

A character is a value with a width in bytes, and a byte is a character with an index:
enough to tell whether bytes are whole characters. `ErrorTrampoline` composes a message
character by character, as libxml2 puts names of the document into it; `vsnprintf` cuts
the bytes, `Decode` is `stringWithUTF8String:`, and `errorOccurred` is the method that
takes what comes out, nil or not. `Conversion` chooses the `text` of an element; libxml2
hands its bytes on to `charactersFound` in pieces that end after any byte, as
`charactersSAXFunc` (`parser.h`) speaks of bytes only; `value` is what `stringFromXML` makes of
the buffer, and the functions of `Conversion.swift` and the properties of `XMLDataElement` read it.
Swift's own `Int(String)` is the constant `Numeral`.

## 3. Runs

| run | kind | question |
|---|---|---|
| `dispatch` | pass | Do the four fields mean what they should, in all nestings of answers? Are the calls to parsables those of `ElementDispatch`, none missing, none extra? Is an ignored element silent? |
| `force_unwraps` | violation | Do `dataAttributes!` and `buffer!` hold? |
| `document_parse` | pass | Is the tree of element parsers after a parse the one a recursive reading of the document gives? Is a parsable complete when its parent gets it? |
| `lifecycle` | pass | In every order of calls and errors: no use after free, errors thrown, success only for whole documents, every call rejected where no context could be made, no leak from a finished parser; does the class do what `ParserLife` promises? |
| `lifecycle_liveness` | pass | Does finishing free the context, and does every call end? |
| `parse_once` | violation | Is `_parse` exactly once enough, as documented? |
| `push_parsing` | pass | With chunks, errors, rejected calls and releases around the events of a document: is a root returned only when it is finished, and what is left of a parser that is let go of? |
| `push_parsing_liveness` | pass | Does finishing free the context when handlers run, and may trap, inside it? |
| `attributes` | pass | Does the dictionary hold every attribute of the start tag? Does `==` tell different elements apart? |
| `error_trampoline` | pass | Is the message of an error the beginning of what libxml2 said, whole if it fits? |
| `message_not_empty` | violation | Does an error have a message, as `testBrokenParse` asserts? |
| `conversion` | pass | Is the value of an element its text, wherever libxml2 cuts it? Do the two ways to read numbers and Booleans agree? |

**Bounds.** Dispatch: `MaxDepth = 5` open elements, `MaxText = 2` pieces per data
element, two parsables, two attribute values, two pieces of text. Five levels hold
child, data, ignored and again any answer inside each other with a level to spare; the
handlers look at no more than the top two stack entries and the current level.
Documents have any length. The second parsable is handed out again and again, so the
same object occurs at several levels. Attributes and text are compared for equality
only and are symmetric. Document parse: start tags and pieces of text up to the sixth
event, with the end tags that are due after them, at most four levels and four parsables:
enough for three data elements in one parsable (the `[a, b, c]` of
`testMultipleDataElements`), two children side by side or in each other, and elements and
text inside a data element. A document that would need a fifth parsable is not continued.
One name is data, and a child element too in one of the two types, so the
order in which `startElement` asks the enums matters. Lifecycle: any number of calls, two messages, chunks of size
zero, the largest `Int32` and one more; all 215 states are explored. Push parsing: four open
elements (three in the liveness run), one message, one attribute value and one piece of text, as its properties
tell none of these apart; any number of chunks, one size that fits and one that does not.
Attributes: three names, two that differ in the prefix only and one with a colon in its
local name, two values, one of them empty, up to two attributes for an element and two elements: `==` compares two.
Error trampoline: a buffer of six bytes instead of 1024, messages of up to four characters
of one, two and three bytes, so that they are shorter than, as long as, and longer than the buffer, and are cut between characters
and after each byte inside one. Conversion: all texts of up to three characters
of one, two and three bytes, and the words `true` and `false`, cut after every byte; strings of up to two digits are an
`Int`.

**Fairness.** `FinishingFrees`, `ImplementsFairLife` and `FinishingFreesOrTraps` need weak
fairness of `ChunkReturns` and `FinalReturns`, that is, `xmlParseChunk` returns after
finitely many callbacks because its input is finite. The client owes nothing: no call or
release is fair, and neither is any event of a document. A handler that traps is the one
way not to return, which is why `FinishingFreesOrTraps` has its second half.

**Deadlock** is not checked where the system may stop: a document ends, the client lets
go, a trap stops the program. `ErrorTrampoline` always goes on, and is checked for it.

**Findings.**

1. `force_unwraps`: start `a` answered `handleAsData`, start `b` inside it answered
   `handleAsData`, end `b`, end `a`: the program traps at `XMLPushParser.swift:101`.
   `TrapsOnlyAfterNestedData` shows that there is no other way to that trap. The
   library's own `XMLSAXElementParser` answers by name alone, so a document with one of
   its data elements inside another is enough; `RootIsReadingOfDocument` speaks of the
   documents that do end.
2. `parse_once`: `_parse` throws at `LibXMLPushSAXParser.swift:64` before
   `_finishParsing`, so neither the context nor the self-reference is given up, although
   lines 38-40 say that a client calls `_parse` exactly once and nothing else.
   `LeaksOnlyUnfinished` shows which parsers can be left over.
3. `message_not_empty`: `vsnprintf` cuts a message at 1023 bytes
   (`LibXMLPushSAXParser.m:14-15`). If that is inside a character, `stringWithUTF8String:`
   answers nil (line 27), which is the empty string for `errorOccurred`: not the end of
   the message is lost but all of it, and `message.characters.count != 0`
   (`XMLPushParserTests.swift:137`) fails. `CutOnlyWhenTooLong` shows that shorter messages
   arrive whole.

## 4. Proofs

`XMLPushParser_proofs` proves for all constants, so for any depth, any set of parsables,
attributes and text:

- the seven parts of the invariant checked by TLC (`TypeCorrect` to `RestoredCorrect`),
- that ignored elements are silent (`IgnoredIsSilent`),
- `Refinement`: `Spec => ImplementsDispatch`.

The inductive invariant `IInv` is the conjunction of the checked parts (the restored
state follows from them) and `EndedMeansClosed`. No part is inductive alone. That a pop
leaves the root on the stack needs `level` to be the number of open elements and levels
on the stack to be those of open elements with a child. That the end of an ignored
element is not taken for data needs the ignore level to be that of an open ignored
element. That the buffer is there at the end of an un-nested data element needs all
outer data elements to be marked as nested. `AskedIsBelowOnStack` says which entry of the stack each open
element was shown to; it turns the code's second look at `current` into the parsable
remembered by `ElementDispatch`. Lemmas on `Append`, `Enclose`, `Collect` and `Enclosing`
give what each does to the positions of answers; then there is one lemma for each action.

`LibXMLPushSAXParser_proofs` proves the safety properties of `lifecycle` for any messages
and sizes. `IInv` adds to them which variables go together (`OwnershipInv`), where a call can be
(`CallInv`), and which histories end in a freed context (`OutcomeInv`, `UsageInv`).
`LifeRefinement` maps each step to one of `ParserLife`, or to a stutter; it needs the
invariant where the code tests `context` and the abstract parser asks for its phase.

`PushParsing_proofs` builds on both. A step of the composed library is a step or a stutter of each
class (`PartsCorrect`), so the parts' invariants are taken over without proving them again. What
is new is `Link`: libxml2's own count of the open elements is `level`, and a
document that libxml2 calls complete has been seen to its end by the handlers. From it
and the parts' invariants follow `StepCorrect`, `RootCorrect` and `GoneCorrect`. As the parts
do in the whole what they do alone, the whole implements both abstract specifications
(`PromisesKept`).

`DocumentParse_proofs` does the same for the dispatcher at work on the library's own
parsables (`DispatcherCorrect`). For `CompleteWhenHandedOver` its invariant says
that the objects on the parser stack have been made, are all different, and are in nobody's
`children` yet, and that whatever is in somebody's `children` has been made: so
`type().init()` never makes an object that is already on the stack or handed over,
and the calls of a handler, which reach objects on the stack only, reach none that was
handed over. The calls to the objects are again those of `ElementDispatch` (`DispatchKept`).
The refinement proof's question, which entry of the
stack an end tag goes to, is answered here for objects with contents.

`ReadingCorrect`, in the same module, is the result about the whole library: the root that is returned
after a document holds what a recursive reading of the document gives, for documents of any length and
depth, any number of objects and any enums. The reading speaks of positions in the document; the
program never sees one. The inductive invariant `Linked` therefore says that there are two functions,
`starts` from the open elements to the positions of their start tags, and `place` from the objects to
the positions of the elements they were made for, such that (`Link`):

- *`OpenAt`:* the elements without an end are those at `starts`, each inside the ones before it and as
  deep as its index. This makes the end tag of the document that of the innermost open element.
- *`ObjectsArePlaced`, `AnswersAreOfTypes`:* an object was made for one element and is the child of
  that one only; the answer about an open element is what the enums of the asked object's type say.
- *`ShownWhenAsked`:* the reading shows an open element to an object exactly if the dispatcher asked
  that object about it. For a new element this is where the levels of the stack matter
  (`DataAboveObject`): the object on top is the innermost one with nothing but data elements
  inside its own.
- *`TextIsCollected`, `NoDataInside`:* the buffer of a data element is all the text inside it, and
  if it is not nested then no data has begun in it, so values are added in document order although they are
  added at end tags (`EndedBeforeLast`).
- *`ObjectsHoldRead`:* each object holds what is read of those of its elements that have ended.

For each of the three tags the effect of the handler is stated once (`StartTagView`,
`CharacterDataView`, `EndTagView`), and one lemma for each part of the link rests on it
(`StartLink`, `TextLink`, `EndLink`). What a longer document says of the positions it had before is in
the lemmas `Grown...`. At the end every element has ended, so the objects agree with the reading one level
at a time. That they agree as trees (`SameTrees`) is an induction on how much of the document is left after an
element, which also shows that both trees are well defined (`TreeExists`). After a trap the
document is ahead of the open elements, and `Linked` says nothing.

`LibXMLCallbackFunctions_proofs` holds for any number of attributes and any values. `ArrayInv`
says that the array has five pointers for each attribute of the start tag and that the
struct laid over the k-th five describes the k-th attribute: the two pointers of its value
are in the input and enclose it. `DictionaryCorrect` follows, and
`EqualCorrect` from it, with the remark that two dictionaries whose keys are equal in
iteration order and whose values are, are the same function, each key occurring once.

`ErrorTrampoline_proofs` and `Conversion_proofs` are about functions on text of any length, so they
need induction and recursion. `RecursionTheorems` has both in a first-order form: a property of numbers
is the set of the numbers that have it, the step of a recursion is a function, and
`StepsOnInterval` shows that a recursion has values to follow. From this follows what
`FlattenSeq` does with one element more.

- *Error trampoline:* text encoded and decoded is the same text (`DecodeEncoded`, by induction on the
  text). The bytes that are left after a cut are those of the first `k` characters and of
  a part of the next one; the part is no character, so `Decode` answers nil unless it is empty
  (`CutEncoded`). `ErrorCorrect` and `CutCorrect` follow, for any characters, widths and size of the buffer.
- *Conversion:* the buffer is the beginning of the encoded text that was handed on (`IInv`), which the
  next piece makes longer wherever it ends. Once the whole text is there, `DecodeEncoded`, taken over from
  the proofs about the trampoline, gives `TextCorrect`. `ConversionsCorrect` needs of the invariant only that
  a value is a string at every time.

**Assumptions** are those on the constants: the root is a parsable; `Nil` and `Context` are
no ordinary values, and `Nil` is no call; messages are no outcome names; sizes and bounds are naturals; names
that are written the same are the same name; attribute values consist of the input's characters;
the two enums are functions from names to keys or `Nil`; every character has a width of one to
four bytes; texts are strings of such characters, and each string that Swift calls an `Int` is one.

**Only model-checked:** `FinishingFrees`, `ImplementsFairLife` and `FinishingFreesOrTraps`, which are
liveness, and with them the disagreements of the runs that expect a violation. Every invariant and
every action property of a passing run is a theorem.

## 5. Not modelled

- **libxml2.** The repository has its headers only, and they declare functions without
  saying what they do. The headers are by far the largest part of the tree, so the models stand for a
  very small share of all its lines, and for nearly all lines of the program: the
  Swift and Objective-C files. What the library does inside `xmlParseChunk` is an
  environment, assumed as said in section 2, and no definition is mapped to a header.
- **Guards that are never taken.** The callbacks return early when a name, text or
  pointer is missing, and the value of an attribute falls back to `""` when a pointer is nil or its bytes
  are not UTF-8. libxml2 calls them with all of these, and with valid UTF-8; the models do not invent
  other calls.
- **Wording.** The format of an error message and the arguments put into it, localized
  descriptions, and names that are only handed through.
- **Chunks of 2 GiB or more** trap at `LibXMLPushSAXParser.swift:72`. The trap is a state of the
  model, but the repository says nowhere what should happen instead.
- **Iteration order.** Two equal dictionaries may be iterated in different orders, and `==` then
  tells equal elements apart. The models allow it. Nothing in the repository says
  otherwise, so the properties are about the other direction: what `==` calls equal is.
- **Reentrant calls**, of a parser from its own callbacks: no doc or test makes such a call.
- **Tests and project files**, which have no logic of their own.
