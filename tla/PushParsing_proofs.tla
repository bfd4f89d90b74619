------------------------- MODULE PushParsing_proofs -------------------------
(***************************************************************************)
(* Proofs about PushParsing. The invariants of the two parts are proved in *)
(* their own modules and are taken over as they are: every step of the     *)
(* whole is a step or a stutter of each part. What is new is the link      *)
(* between them, libxml2's account of the document.                        *)
(***************************************************************************)
EXTENDS PushParsing, TLAPS

LifeP == INSTANCE LibXMLPushSAXParser_proofs
ParserP == INSTANCE XMLPushParser_proofs

\* What libxml2 knows of the document, and what XMLPushParser knows.
Link ==
  /\ StaysInStep
  /\ xml = "complete" => documentEnded

IInv == LifeP!IInv /\ ParserP!IInv /\ Link

-----------------------------------------------------------------------------
(***************************************************************************)
(* The operators of a module are the same in each of its instances.        *)
(***************************************************************************)
LEMMA SameState ==
  /\ \A p, l : Parser!SAXParsableStackItem(p, l) = ParserP!SAXParsableStackItem(p, l)
  /\ \A l : Parser!IgnoringElements(l) <=> ParserP!IgnoringElements(l)
  /\ Parser!current = ParserP!current
  /\ Parser!Top = ParserP!Top
BY DEF Parser!SAXParsableStackItem, ParserP!SAXParsableStackItem, Parser!IgnoringElements,
       ParserP!IgnoringElements, Parser!current, ParserP!current, Parser!Top, ParserP!Top

LEMMA SameStart ==
  \A attributes : Parser!startElementWithPrefix(attributes)
                  <=> ParserP!startElementWithPrefix(attributes)
BY SameState
   DEF Parser!startElementWithPrefix, ParserP!startElementWithPrefix,
       Parser!StartIgnored, ParserP!StartIgnored, Parser!StartAndAsk, ParserP!StartAndAsk,
       Parser!Ignore, ParserP!Ignore, Parser!HandleAsData, ParserP!HandleAsData,
       Parser!HandleWithChild, ParserP!HandleWithChild, Parser!Skipped, ParserP!Skipped,
       Parser!Asked, ParserP!Asked, Parser!Enclose, ParserP!Enclose,
       Parser!StartElementCall, ParserP!StartElementCall

LEMMA SameCharacters ==
  \A piece : Parser!charactersFound(piece) <=> ParserP!charactersFound(piece)
BY DEF Parser!charactersFound, ParserP!charactersFound, Parser!AppendToBuffer,
       ParserP!AppendToBuffer, Parser!Collect, ParserP!Collect

LEMMA SameEnd == Parser!endElementWithPrefix <=> ParserP!endElementWithPrefix
<1>1. Parser!Deferred <=> ParserP!Deferred
  BY DEF Parser!Deferred, ParserP!Deferred, Parser!StopIgnoring, ParserP!StopIgnoring,
         Parser!Enclosing, ParserP!Enclosing
<1>2. Parser!EndIgnored <=> ParserP!EndIgnored
  BY <1>1, SameState DEF Parser!EndIgnored, ParserP!EndIgnored
<1>3. Parser!EndChild <=> ParserP!EndChild
  BY <1>1, SameState DEF Parser!EndChild, ParserP!EndChild, Parser!PopAndCall,
     ParserP!PopAndCall, Parser!EndChildElementCall, ParserP!EndChildElementCall
<1>4. Parser!EndData <=> ParserP!EndData
  BY <1>1, SameState DEF Parser!EndData, ParserP!EndData, Parser!ClearAfterUse,
     ParserP!ClearAfterUse, Parser!EndDataElementCall, ParserP!EndDataElementCall
<1>5. Parser!EndDataTraps <=> ParserP!EndDataTraps
  BY SameState DEF Parser!EndDataTraps, ParserP!EndDataTraps, Parser!parserVars,
     ParserP!parserVars
<1>6. QED
  BY <1>2, <1>3, <1>4, <1>5 DEF Parser!endElementWithPrefix, ParserP!endElementWithPrefix

LEMMA SameEntries ==
  /\ Life!Parse <=> LifeP!Parse
  /\ Life!ParseData <=> LifeP!ParseData
  /\ Life!FinishParsing <=> LifeP!FinishParsing
<1>1. \A c : (Life!Use(c) <=> LifeP!Use(c)) /\ (Life!ParseChunk(c) <=> LifeP!ParseChunk(c))
  BY DEF Life!Use, LifeP!Use, Life!ParseChunk, LifeP!ParseChunk, Life!Reject, LifeP!Reject,
         Life!Enter, LifeP!Enter
<1>2. QED
  BY <1>1 DEF Life!Parse, LifeP!Parse, Life!ParseData, LifeP!ParseData, Life!FinishParsing,
     LifeP!FinishParsing, Life!Reject, LifeP!Reject, Life!Enter, LifeP!Enter,
     Life!parserVars, LifeP!parserVars, Life!xmlVars, LifeP!xmlVars

LEMMA SameLife ==
  /\ Life!XmlError <=> LifeP!XmlError
  /\ Life!DocumentEnds <=> LifeP!DocumentEnds
  /\ Life!ChunkReturns <=> LifeP!ChunkReturns
  /\ Life!FinalReturns <=> LifeP!FinalReturns
  /\ Life!Release <=> LifeP!Release
BY DEF Life!XmlError, LifeP!XmlError, Life!ErrorOccurred, LifeP!ErrorOccurred,
       Life!DocumentEnds, LifeP!DocumentEnds, Life!parserVars, LifeP!parserVars,
       Life!ChunkReturns, LifeP!ChunkReturns, Life!Throw, LifeP!Throw, Life!Return,
       LifeP!Return, Life!AfterFatalError, LifeP!AfterFatalError,
       Life!FinalReturns, LifeP!FinalReturns, Life!FinalChunk, LifeP!FinalChunk,
       Life!CleanupContext, LifeP!CleanupContext, Life!FinalOutcome, LifeP!FinalOutcome,
       Life!Release, LifeP!Release, Life!Deinit, LifeP!Deinit, Life!xmlVars, LifeP!xmlVars

-----------------------------------------------------------------------------
(***************************************************************************)
(* Every step of the whole is a step or a stutter of each part.            *)
(***************************************************************************)
LEMMA SameVars ==
  /\ UNCHANGED lifeVars => UNCHANGED LifeP!vars
  /\ UNCHANGED dispatchVars => UNCHANGED ParserP!vars
BY DEF lifeVars, LifeP!vars, LifeP!parserVars, LifeP!xmlVars,
       dispatchVars, ParserP!vars, ParserP!parserVars

\* The callbacks are installed, so each event reaches its handler.
LEMMA StartStep ==
  ASSUME NEW attributes \in Attributes, StartElement(attributes)
  PROVE  /\ ParserP!startElementWithPrefix(attributes)
         /\ nesting' = nesting + 1
         /\ UNCHANGED lifeVars
BY SameStart DEF StartElement, Calls, XMLPushSAXParserHandlerStruct

LEMMA CharactersStep ==
  ASSUME NEW piece \in Text, Characters(piece)
  PROVE  /\ ParserP!charactersFound(piece)
         /\ UNCHANGED << lifeVars, nesting >>
BY SameCharacters DEF Characters, Calls, XMLPushSAXParserHandlerStruct

LEMMA EndStep ==
  ASSUME EndElement
  PROVE  /\ ParserP!endElementWithPrefix
         /\ \/ trapped' /\ UNCHANGED << lifeVars, nesting >>
            \/ ~trapped' /\ nesting > 1 /\ nesting' = nesting - 1 /\ UNCHANGED lifeVars
            \/ ~trapped' /\ nesting = 1 /\ nesting' = 0 /\ LifeP!DocumentEnds
BY SameEnd, SameLife DEF EndElement, Calls, XMLPushSAXParserHandlerStruct

\* The steps of the client, and the errors of libxml2.
LifeSteps ==
  \/ ErrorEncountered
  \/ parse \/ parseData \/ finishParsing \/ release
  \/ ChunkReturns \/ FinalReturns

LEMMA LifeStep ==
  ASSUME LifeSteps
  PROVE  LifeP!Next /\ UNCHANGED << dispatchVars, nesting >>
BY SameEntries, SameLife
   DEF LifeSteps, ErrorEncountered, parse, parseData, finishParsing, release, ChunkReturns,
       FinalReturns, LifeP!Next

LEMMA StepOfParts ==
  ASSUME [Next]_vars
  PROVE  /\ [LifeP!Next]_(LifeP!vars)
         /\ [ParserP!Next]_(ParserP!vars)
<1>1. CASE \E attributes \in Attributes : StartElement(attributes)
  BY <1>1, StartStep, SameVars DEF ParserP!Next
<1>2. CASE \E piece \in Text : Characters(piece)
  BY <1>2, CharactersStep, SameVars DEF ParserP!Next
<1>3. CASE EndElement
  <2>1. [LifeP!Next]_(LifeP!vars)
    BY <1>3, EndStep, SameVars DEF LifeP!Next
  <2>2. QED
    BY <1>3, <2>1, EndStep DEF ParserP!Next
<1>4. CASE LifeSteps
  BY <1>4, LifeStep, SameVars
<1>5. CASE UNCHANGED vars
  <2>1. UNCHANGED lifeVars /\ UNCHANGED dispatchVars
    BY <1>5 DEF vars
  <2>2. QED
    BY <2>1, SameVars
<1>6. QED
  BY <1>1, <1>2, <1>3, <1>4, <1>5 DEF Next, LifeSteps

-----------------------------------------------------------------------------
(***************************************************************************)
(* The inductive invariant.                                                *)
(***************************************************************************)
LEMMA InitIInv == Init => IInv
<1> SUFFICES ASSUME Init PROVE IInv
  OBVIOUS
<1>1. LifeP!IInv
  BY LifeP!InitIInv, LifeAssumption DEF Init, Life!Init, LifeP!Init
<1>2. ParserP!IInv
  BY ParserP!InitIInv, SameState, RootAssumption, NilAssumption, BoundsAssumption
     DEF Init, Parser!Init, ParserP!Init
<1>3. Link
  BY DEF Init, Parser!Init, Life!Init, Link, StaysInStep
<1>4. QED
  BY <1>1, <1>2, <1>3 DEF IInv

\* What an end tag does to the level and to the end of the document.
LEMMA EndFacts ==
  ASSUME IInv, ParserP!endElementWithPrefix
  PROVE  /\ trapped' => UNCHANGED << level, documentEnded >>
         /\ ~trapped' => /\ level' = level - 1
                         /\ documentEnded' = (level = 1)
<1>1. ~trapped /\ trapped \in BOOLEAN /\ level = Len(open)
  BY DEF ParserP!endElementWithPrefix, IInv, ParserP!IInv, ParserP!StackHoldsOpenChildren,
     ParserP!TypeOK
<1>2. CASE ParserP!Deferred
  BY <1>1, <1>2 DEF ParserP!Deferred
<1>3. CASE ParserP!EndDataTraps
  BY <1>1, <1>3 DEF ParserP!EndDataTraps, ParserP!parserVars
<1>4. QED
  BY <1>2, <1>3 DEF ParserP!endElementWithPrefix, ParserP!EndIgnored, ParserP!EndChild,
     ParserP!EndData

\* The two accounts of the document are kept in step by every event. A step
\* of the client, or an error, changes neither, and no document ends in it.
LEMMA NextLink ==
  ASSUME IInv, [Next]_vars
  PROVE  Link'
<1> USE DEF IInv, Link, StaysInStep
<1>1. ASSUME NEW attributes \in Attributes, StartElement(attributes)
      PROVE  Link'
  BY <1>1, StartStep DEF ParserP!startElementWithPrefix, lifeVars
<1>2. ASSUME NEW piece \in Text, Characters(piece)
      PROVE  Link'
  BY <1>2, CharactersStep DEF ParserP!charactersFound, lifeVars
<1>3. CASE EndElement
  <2>1. level \in Nat
    BY DEF ParserP!IInv, ParserP!TypeOK
  <2>2. CASE trapped'
    BY <1>3, <2>2, EndStep, EndFacts DEF lifeVars
  <2>3. CASE ~trapped'
    <3>1. level' = level - 1 /\ documentEnded' = (level = 1)
      BY <1>3, <2>3, EndStep, EndFacts
    <3>2. CASE nesting > 1
      <4>1. xml # "complete" /\ nesting' = nesting - 1 /\ UNCHANGED xml
        BY <1>3, <2>3, <3>2, EndStep DEF lifeVars, EndElement, Reading
      <4>2. QED
        BY <3>1, <4>1
    <3>3. CASE nesting = 1
      <4>1. level = 1 /\ nesting' = 0
        BY <1>3, <2>3, <3>3, EndStep
      <4>2. documentEnded'
        BY <3>1, <4>1, Zenon
      <4>3. QED
        BY <3>1, <4>1, <4>2
    <3>4. nesting > 1 \/ nesting = 1
      BY <1>3, <2>3, EndStep, Zenon
    <3>5. QED
      BY <3>2, <3>3, <3>4
  <2>4. QED
    BY <2>2, <2>3
<1>4. CASE LifeSteps
  <2>1. xml' = "complete" => xml = "complete"
    BY <1>4, SameEntries, SameLife
       DEF LifeSteps, ErrorEncountered, parse, parseData, finishParsing, release, ChunkReturns,
           FinalReturns, Life!XmlError, Life!Parse, Life!ParseData, Life!FinishParsing,
           Life!xmlVars, Life!Release, Life!ChunkReturns, Life!FinalReturns,
           Life!AfterFatalError
  <2>2. QED
    BY <1>4, <2>1, LifeStep DEF dispatchVars
<1>5. CASE UNCHANGED vars
  BY <1>5 DEF vars, lifeVars, dispatchVars
<1>6. QED
  BY <1>1, <1>2, <1>3, <1>4, <1>5 DEF Next, LifeSteps

LEMMA NextIInv ==
  ASSUME IInv, [Next]_vars
  PROVE  IInv'
<1>1. LifeP!IInv'
  BY StepOfParts, LifeP!NextIInv, LifeAssumption DEF IInv
<1>2. ParserP!IInv'
  BY StepOfParts, ParserP!NextIInv, RootAssumption, NilAssumption, BoundsAssumption DEF IInv
<1>3. QED
  BY <1>1, <1>2, NextLink DEF IInv

-----------------------------------------------------------------------------
(***************************************************************************)
(* What the invariant shows.                                               *)
(***************************************************************************)

\* The inductive invariant holds at every state of the library.
THEOREM Invariant == Spec => []IInv
BY InitIInv, NextIInv, PTL DEF Spec

\* Put together, the base class and XMLPushParser each do what they do alone,
\* so what is proved of each holds in the whole.
THEOREM PartsCorrect == Spec => LifeP!Spec /\ ParserP!Spec
<1>1. Init => LifeP!Init /\ ParserP!Init
  BY SameState DEF Init, Life!Init, LifeP!Init, Parser!Init, ParserP!Init
<1>2. [Next]_vars => [LifeP!Next]_(LifeP!vars) /\ [ParserP!Next]_(ParserP!vars)
  BY StepOfParts
<1>3. QED
  BY <1>1, <1>2, PTL DEF Spec, LifeP!Spec, ParserP!Spec

\* So the whole keeps both promises: the chunks get the life that ParserLife
\* describes, and the parsables the calls that ElementDispatch describes.
THEOREM PromisesKept == Spec => LifeP!ImplementsLife /\ ParserP!ImplementsDispatch
<1>1. LifeP!Spec => LifeP!ImplementsLife
  BY LifeP!LifeRefinement, LifeAssumption
<1>2. ParserP!Spec => ParserP!ImplementsDispatch
  BY ParserP!Refinement, RootAssumption, NilAssumption, BoundsAssumption
<1>3. QED
  BY <1>1, <1>2, PartsCorrect

\* The level counter is libxml2's own count of the open elements, through all
\* chunks, errors and rejected calls.
THEOREM StepCorrect == Spec => []StaysInStep
<1>1. IInv => StaysInStep
  BY DEF IInv, Link
<1>2. QED
  BY <1>1, Invariant, PTL

\* A root that parse or finishParsing returns is that of a document which is
\* over and met no error.
THEOREM RootCorrect == Spec => []RootReturnedIsFinished
<1>1. ASSUME IInv
      PROVE  RootReturnedIsFinished
  <2>1. RootReturned => xml = "complete" /\ error = Nil
    BY <1>1 DEF RootReturned, IInv, LifeP!IInv, LifeP!OutcomeInv, LifeP!SuccessMeansWholeDocument
  <2>2. xml = "complete" => documentEnded
    BY <1>1 DEF IInv, Link
  <2>3. ParserP!RestoredAtDocumentEnd
    BY <1>1, ParserP!RestoredFromIInv, RootAssumption, NilAssumption,
       BoundsAssumption DEF IInv
  <2>4. QED
    BY <2>1, <2>2, <2>3, SameState DEF ParserP!RestoredAtDocumentEnd, RootReturnedIsFinished
<1>2. QED
  BY <1>1, Invariant, PTL

\* A parser that has gone had met an error, or was done with its document.
THEOREM GoneCorrect == Spec => []GoneMeansSettled
<1>1. ASSUME IInv, unsafeSelf = "deallocated", error = Nil
      PROVE  documentEnded /\ nesting = 0
  <2>1. ctxt = "freed"
    BY <1>1 DEF IInv, LifeP!IInv, LifeP!OwnershipInv, LifeP!TypeOK
  <2>2. xml = "complete"
    BY <1>1, <2>1 DEF IInv, LifeP!IInv, LifeP!OutcomeInv
  <2>3. documentEnded
    BY <1>1, <2>2 DEF IInv, Link
  <2>4. level = 0
    BY <1>1, <2>3, ParserP!RestoredFromIInv, RootAssumption, NilAssumption,
       BoundsAssumption DEF IInv, ParserP!RestoredAtDocumentEnd
  <2>5. QED
    BY <1>1, <2>3, <2>4 DEF IInv, Link, StaysInStep
<1>2. IInv => GoneMeansSettled
  BY <1>1 DEF GoneMeansSettled
<1>3. QED
  BY <1>2, Invariant, PTL
=============================================================================
