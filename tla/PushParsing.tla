----------------------------- MODULE PushParsing -----------------------------
(***************************************************************************)
(* The whole of the library at work: a client makes the calls of           *)
(* LibXMLPushSAXParser, libxml2 reads the document inside them and calls   *)
(* the C callbacks of Sources/LibXMLCallbackFunctions.swift, and these     *)
(* call the handlers of XMLPushParser or errorOccurred.                    *)
(*                                                                         *)
(* libxml2 keeps its own account of the elements that are open; it knows   *)
(* the program only through the callbacks that are installed. It reports   *)
(* no element any more once a fatal error has been met. It names every     *)
(* element and passes no missing text, so the callbacks' guards for these  *)
(* let every event through.                                                *)
(***************************************************************************)
EXTENDS OpenElements

CONSTANTS
  Messages, ChunkSizes, Int32Max, Context,  \* of LibXMLPushSAXParser
  MaxDepth, MaxText                         \* the bounds of XMLPushParser

ASSUME LifeAssumption ==
  /\ Nil \notin Messages
  /\ Messages \cap {"none", "returned", "usedAfterFinished"} = {}
  /\ Context # Nil
  /\ ChunkSizes \subseteq Nat
  /\ Int32Max \in Nat

ASSUME BoundsAssumption == MaxDepth \in Nat /\ MaxText \in Nat

VARIABLES
  context, unsafeSelf, error, cleanedUp, ctxt, xml,
  at, method, outcome, held, usage,         \* of LibXMLPushSAXParser
  level, stack, buffer, dataAttributes, ignoreElementsUntilLevel,
  trapped, call, open, documentEnded,       \* of XMLPushParser
  nesting                                   \* external: the elements libxml2 is in

Life == INSTANCE LibXMLPushSAXParser
Parser == INSTANCE XMLPushParser

lifeVars == << context, unsafeSelf, error, cleanedUp, ctxt, xml,
               at, method, outcome, held, usage >>
dispatchVars == << level, stack, buffer, dataAttributes, ignoreElementsUntilLevel,
                   trapped, call, open, documentEnded >>
vars == << lifeVars, dispatchVars, nesting >>

Init ==
  /\ Life!Init
  /\ Parser!Init
  /\ nesting = 0

-----------------------------------------------------------------------------
(***************************************************************************)
(* The callbacks. Those that are not in XMLPushSAXParserHandlerStruct are  *)
(* NULL, and libxml2 passes over what they are for; it gives a CDATA       *)
(* section to `characters` as there is no `cdataBlock`.                    *)
(***************************************************************************)
StartsOnly ==  \* mutant: endElementNs is left out
  {"characters", "startElementNs", "error"}

XMLPushSAXParserHandlerStruct ==
  {"characters", "startElementNs", "endElementNs", "error"}

Calls(callback, handler) ==
  IF callback \in XMLPushSAXParserHandlerStruct THEN handler ELSE UNCHANGED dispatchVars

\* libxml2 is inside xmlParseChunk and still reports what it reads.
Reading ==
  /\ ~trapped
  /\ at \in {"chunk", "final"}
  /\ xml = "parsing"

StartElement(attributes) ==
  /\ Reading
  /\ nesting < MaxDepth
  /\ Calls("startElementNs", Parser!startElementWithPrefix(attributes))
  /\ nesting' = nesting + 1
  /\ UNCHANGED lifeVars

Characters(piece) ==
  /\ Reading
  /\ nesting > 0
  /\ Calls("characters", Parser!charactersFound(piece))
  /\ UNCHANGED << lifeVars, nesting >>

\* A handler that traps does not return to libxml2.
EndElement ==
  /\ Reading
  /\ nesting > 0
  /\ Calls("endElementNs", Parser!endElementWithPrefix)
  /\ \/ trapped' /\ UNCHANGED << lifeVars, nesting >>
     \/ ~trapped' /\ nesting > 1 /\ nesting' = nesting - 1 /\ UNCHANGED lifeVars
     \/ ~trapped' /\ nesting = 1 /\ nesting' = 0 /\ Life!DocumentEnds

ErrorEncountered ==
  /\ ~trapped
  /\ Life!XmlError
  /\ UNCHANGED << dispatchVars, nesting >>

-----------------------------------------------------------------------------
(***************************************************************************)
(* The client. parse, parseData and finishParsing of XMLPushParser do what *)
(* the methods of the base class do; parse and finishParsing return root.  *)
(***************************************************************************)
parse == ~trapped /\ Life!Parse /\ UNCHANGED << dispatchVars, nesting >>
parseData == ~trapped /\ Life!ParseData /\ UNCHANGED << dispatchVars, nesting >>
finishParsing == ~trapped /\ Life!FinishParsing /\ UNCHANGED << dispatchVars, nesting >>
release == ~trapped /\ Life!Release /\ UNCHANGED << dispatchVars, nesting >>

RootReturned == outcome = "returned" /\ method \in {"_parse", "_finishParsing"}

ChunkReturns ==
  /\ ~trapped
  /\ Life!ChunkReturns
  /\ UNCHANGED << dispatchVars, nesting >>

FinalReturns ==
  /\ ~trapped
  /\ Life!FinalReturns
  /\ UNCHANGED << dispatchVars, nesting >>

Next ==
  \/ \E attributes \in Attributes : StartElement(attributes)
  \/ \E piece \in Text : Characters(piece)
  \/ EndElement
  \/ ErrorEncountered
  \/ parse \/ parseData \/ finishParsing \/ release
  \/ ChunkReturns \/ FinalReturns

Spec == Init /\ [][Next]_vars

\* xmlParseChunk comes to the end of its input, unless a handler traps.
Fairness == WF_vars(ChunkReturns) /\ WF_vars(FinalReturns)
FairSpec == Spec /\ Fairness

-----------------------------------------------------------------------------
(***************************************************************************)
(* Properties.                                                             *)
(***************************************************************************)

\* The counter of XMLPushParser and libxml2's own account of the open elements
\* stay in step through any chunks, errors and rejected calls.
StaysInStep == level = nesting

\* parse and finishParsing return the root parsable only when its document is
\* over: every child was handed to its parent, no data element or ignored
\* element is pending, and no error was reported at any time.
RootReturnedIsFinished ==
  RootReturned =>
    /\ documentEnded
    /\ level = 0
    /\ stack = << Parser!SAXParsableStackItem(Root, 0) >>
    /\ buffer = Nil
    /\ dataAttributes = Nil
    /\ ignoreElementsUntilLevel = Nil
    /\ error = Nil

\* A parser that has gone was done with its document, or had met an error: one
\* that is let go of inside an element of a good document is still there.
GoneMeansSettled ==
  unsafeSelf = "deallocated" => error # Nil \/ (documentEnded /\ nesting = 0)

\* Once the terminating chunk is entered the context is freed in the end, or an
\* end tag inside it finds nil where it unwraps, and the program stops.
FinishingFreesOrTraps == at = "final" ~> ctxt = "freed" \/ trapped
=============================================================================
