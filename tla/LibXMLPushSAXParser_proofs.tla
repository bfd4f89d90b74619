--------------------- MODULE LibXMLPushSAXParser_proofs ---------------------
(***************************************************************************)
(* Proofs about LibXMLPushSAXParser for every set of messages and chunk    *)
(* sizes.                                                                  *)
(***************************************************************************)
EXTENDS LibXMLPushSAXParser, TLAPS

(***************************************************************************)
(* The inductive invariant: what each of the variables says of the others. *)
(* The safety properties speak of the time between calls; to come back to  *)
(* it they need to know what holds while libxml2 is running, and which     *)
(* histories lead to a freed context.                                      *)
(***************************************************************************)

\* The pointer, the heap and the reference to self go together.
OwnershipInv ==
  /\ context = Context <=> ctxt = "live"
  /\ context = Nil <=> ctxt # "live"
  /\ ctxt \in {"live", "never"} => unsafeSelf = "initialized" /\ ~cleanedUp
  /\ ctxt = "freed" => unsafeSelf # "initialized" /\ cleanedUp
  /\ ~held => unsafeSelf # "deinitialized"

\* Where a call can be, and in which state of the parser.
CallInv ==
  /\ at # "idle" => ctxt = "live" /\ held /\ outcome = "none"
  /\ at = "chunk" => method \in {"_parse", "_parseData"}
  /\ at = "final" => method \in {"_parse", "_finishParsing"}
  /\ ctxt = "never" => method = "none"
  /\ at = "idle" /\ outcome = "none" => method = "none"

\* What the calls so far have left behind.
OutcomeInv ==
  /\ xml \in {"failing", "stopped"} => error # Nil
  /\ OutcomeTellsError
  /\ SuccessMeansWholeDocument
  /\ at = "idle" /\ method = "_finishParsing" => ctxt = "freed"
  /\ at = "idle" /\ method = "_parse" /\ error = Nil => ctxt = "freed"
  /\ ctxt = "freed" /\ error = Nil => xml = "complete"

\* What the calls so far say about the documented protocol.
UsageInv ==
  /\ ctxt = "freed" => usage \in {"whole", "finished", "misused"}
  /\ at = "final" => usage \in {"whole", "finished", "misused"}
  /\ at = "chunk" /\ method = "_parse" => usage \in {"whole", "finished", "misused"}
  /\ DocumentedUseNeverRejected
  /\ NoContextNoParse

IInv == TypeOK /\ OwnershipInv /\ CallInv /\ OutcomeInv /\ UsageInv

LEMMA InitIInv ==
  ASSUME Init
  PROVE  IInv
BY MessagesAssumption, ContextAssumption
   DEF Init, IInv, TypeOK, OwnershipInv, CallInv, OutcomeInv, UsageInv, OutcomeTellsError,
       SuccessMeansWholeDocument, DocumentedUseNeverRejected, NoContextNoParse

-----------------------------------------------------------------------------
(***************************************************************************)
(* Every step preserves the invariant.                                     *)
(***************************************************************************)

\* A call is counted against the protocol, and only one that is out of order
\* can come after the end of another.
LEMMA UseFacts ==
  ASSUME NEW call \in {"_parse", "_parseData", "_finishParsing"}, TypeOK, Use(call)
  PROVE  /\ usage' \in {"feeding", "whole", "finished", "misused"}
         /\ usage \in {"whole", "finished", "misused"} => usage' = "misused"
         /\ call # "_parseData" => usage' \in {"whole", "finished", "misused"}
BY DEF Use, TypeOK

\* A call that finds no context changes nothing but its outcome.
LEMMA RejectIInv ==
  ASSUME IInv, at = "idle", NEW call \in {"_parse", "_parseData", "_finishParsing"},
         Use(call), Reject, UNCHANGED << parserVars, xmlVars, held >>
  PROVE  IInv'
<1>1. /\ context = Nil
      /\ outcome' = "usedAfterFinished"
      /\ UNCHANGED << context, unsafeSelf, error, cleanedUp, ctxt, xml, held, at, method >>
  BY DEF Reject, parserVars, xmlVars
<1>2. /\ usage' \in {"feeding", "whole", "finished", "misused"}
      /\ usage \in {"whole", "finished", "misused"} => usage' = "misused"
  BY UseFacts DEF IInv
<1>3. ctxt \in {"never", "freed"}
  BY <1>1 DEF IInv, TypeOK, OwnershipInv
<1>4. TypeOK' /\ OwnershipInv' /\ CallInv'
  BY <1>1, <1>2 DEF IInv, TypeOK, OwnershipInv, CallInv
<1>5. OutcomeInv'
  BY <1>1, MessagesAssumption
     DEF IInv, OutcomeInv, OutcomeTellsError, SuccessMeansWholeDocument
<1>6. UsageInv'
  BY <1>1, <1>2, <1>3 DEF IInv, UsageInv, DocumentedUseNeverRejected, NoContextNoParse
<1>7. QED
  BY <1>4, <1>5, <1>6 DEF IInv

\* A call that finds a context.
LEMMA EnterIInv ==
  ASSUME IInv, at = "idle", held,
         NEW call \in {"_parse", "_parseData", "_finishParsing"},
         NEW stage \in {"chunk", "final", "trapped"},
         stage = "final" <=> call = "_finishParsing",
         Use(call), Enter(call, stage), UNCHANGED << parserVars, xmlVars, held >>
  PROVE  IInv'
<1>1. /\ context # Nil
      /\ at' = stage
      /\ method' = call
      /\ outcome' = "none"
      /\ UNCHANGED << context, unsafeSelf, error, cleanedUp, ctxt, xml, held >>
  BY DEF Enter, parserVars, xmlVars
<1>2. /\ usage' \in {"feeding", "whole", "finished", "misused"}
      /\ call # "_parseData" => usage' \in {"whole", "finished", "misused"}
  BY UseFacts DEF IInv
<1>3. ctxt = "live"
  BY <1>1 DEF IInv, TypeOK, OwnershipInv
<1>4. TypeOK' /\ OwnershipInv' /\ CallInv'
  BY <1>1, <1>2, <1>3 DEF IInv, TypeOK, OwnershipInv, CallInv
<1>5. OutcomeInv'
  BY <1>1, MessagesAssumption
     DEF IInv, OutcomeInv, OutcomeTellsError, SuccessMeansWholeDocument
<1>6. UsageInv'
  BY <1>1, <1>2, <1>3 DEF IInv, UsageInv, DocumentedUseNeverRejected, NoContextNoParse
<1>7. QED
  BY <1>4, <1>5, <1>6 DEF IInv

\* Every step of the client, of libxml2 and of the parser, and stuttering.
LEMMA NextIInv ==
  ASSUME IInv, [Next]_vars
  PROVE  IInv'
<1> USE MessagesAssumption, ContextAssumption
<1>1. CASE Parse
  BY <1>1, RejectIInv, EnterIInv DEF Parse, ParseChunk
<1>2. CASE ParseData
  BY <1>2, RejectIInv, EnterIInv DEF ParseData, ParseChunk
<1>3. CASE FinishParsing
  BY <1>3, RejectIInv, EnterIInv DEF FinishParsing
<1>4. CASE XmlError
  <2> USE <1>4 DEF XmlError, ErrorOccurred
  <2>1. TypeOK' /\ OwnershipInv'
    BY DEF IInv, TypeOK, OwnershipInv, CallInv
  <2>2. CallInv'
    BY DEF IInv, TypeOK, CallInv, OwnershipInv
  <2>3. OutcomeInv'
    BY DEF IInv, TypeOK, CallInv, OutcomeInv, OutcomeTellsError, SuccessMeansWholeDocument
  <2>4. UsageInv'
    BY DEF IInv, TypeOK, OwnershipInv, CallInv, UsageInv, DocumentedUseNeverRejected, NoContextNoParse
  <2>5. QED
    BY <2>1, <2>2, <2>3, <2>4 DEF IInv
<1>5. CASE DocumentEnds
  <2> USE <1>5 DEF DocumentEnds, parserVars
  <2>1. TypeOK' /\ OwnershipInv'
    BY DEF IInv, TypeOK, OwnershipInv, CallInv
  <2>2. CallInv'
    BY DEF IInv, TypeOK, CallInv, OwnershipInv
  <2>3. OutcomeInv'
    BY DEF IInv, TypeOK, CallInv, OutcomeInv, OutcomeTellsError, SuccessMeansWholeDocument
  <2>4. UsageInv'
    BY DEF IInv, TypeOK, OwnershipInv, CallInv, UsageInv, DocumentedUseNeverRejected, NoContextNoParse
  <2>5. QED
    BY <2>1, <2>2, <2>3, <2>4 DEF IInv
<1>6. CASE ChunkReturns
  <2> USE <1>6 DEF ChunkReturns, Throw, Return, AfterFatalError
  <2>1. TypeOK' /\ OwnershipInv'
    BY DEF IInv, TypeOK, OwnershipInv, CallInv
  <2>2. CallInv'
    BY DEF IInv, TypeOK, CallInv, OwnershipInv
  <2>3. OutcomeInv'
    BY DEF IInv, TypeOK, CallInv, OutcomeInv, OutcomeTellsError, SuccessMeansWholeDocument
  <2>4. UsageInv'
    BY DEF IInv, TypeOK, OwnershipInv, CallInv, UsageInv, DocumentedUseNeverRejected, NoContextNoParse
  <2>5. QED
    BY <2>1, <2>2, <2>3, <2>4 DEF IInv
<1>7. CASE FinalReturns
  <2>1. /\ error' \in Messages \cup {Nil}
        /\ xml' \in {"complete", "stopped"}
        /\ error' = Nil => xml' = "complete"
        /\ outcome' = IF error' = Nil THEN "returned" ELSE error'
        /\ at' = "idle"
        /\ UNCHANGED << method, held, usage >>
    BY <1>7 DEF FinalReturns, FinalChunk, ErrorOccurred, FinalOutcome, AfterFatalError,
       IInv, TypeOK, OutcomeInv
  <2>2. context' = Nil /\ ctxt' = "freed" /\ unsafeSelf' = "deinitialized" /\ cleanedUp' = TRUE
    BY <1>7 DEF FinalReturns, CleanupContext, IInv, CallInv, OwnershipInv
  <2>3. held /\ method \in {"_parse", "_finishParsing"}
           /\ usage \in {"whole", "finished", "misused"}
    BY <1>7 DEF FinalReturns, IInv, CallInv, UsageInv
  <2>4. QED
    BY <2>1, <2>2, <2>3 DEF IInv, TypeOK, OwnershipInv, CallInv, OutcomeInv, UsageInv,
       OutcomeTellsError, SuccessMeansWholeDocument, DocumentedUseNeverRejected, NoContextNoParse
<1>8. CASE Release
  <2> USE <1>8 DEF Release, Deinit, xmlVars
  <2>1. TypeOK' /\ OwnershipInv'
    BY DEF IInv, TypeOK, OwnershipInv, CallInv
  <2>2. CallInv'
    BY DEF IInv, TypeOK, CallInv, OwnershipInv
  <2>3. OutcomeInv'
    BY DEF IInv, TypeOK, CallInv, OutcomeInv, OutcomeTellsError, SuccessMeansWholeDocument
  <2>4. UsageInv'
    BY DEF IInv, TypeOK, OwnershipInv, CallInv, UsageInv, DocumentedUseNeverRejected, NoContextNoParse
  <2>5. QED
    BY <2>1, <2>2, <2>3, <2>4 DEF IInv
<1>9. CASE UNCHANGED vars
  <2> USE <1>9 DEF vars, parserVars, xmlVars
  <2>1. TypeOK' /\ OwnershipInv'
    BY DEF IInv, TypeOK, OwnershipInv, CallInv
  <2>2. CallInv'
    BY DEF IInv, TypeOK, CallInv, OwnershipInv
  <2>3. OutcomeInv'
    BY DEF IInv, TypeOK, CallInv, OutcomeInv, OutcomeTellsError, SuccessMeansWholeDocument
  <2>4. UsageInv'
    BY DEF IInv, TypeOK, OwnershipInv, CallInv, UsageInv, DocumentedUseNeverRejected, NoContextNoParse
  <2>5. QED
    BY <2>1, <2>2, <2>3, <2>4 DEF IInv
<1>10. QED
  BY <1>1, <1>2, <1>3, <1>4, <1>5, <1>6, <1>7, <1>8, <1>9 DEF Next

-----------------------------------------------------------------------------
(***************************************************************************)
(* What the invariant shows.                                               *)
(***************************************************************************)

\* The inductive invariant holds at every state of the parser.
THEOREM Invariant == Spec => []IInv
BY InitIInv, NextIInv, PTL DEF Spec

\* The fields keep the types of their declarations.
THEOREM TypeCorrect == Spec => []TypeOK
<1>1. IInv => TypeOK
  BY DEF IInv
<1>2. QED
  BY <1>1, Invariant, PTL

\* libxml2 is entered, and its callbacks run, with a live context and a parser
\* behind the pointer they are given, in every order of calls.
THEOREM CallbacksCorrect == Spec => []CallbacksFindParser
<1>1. IInv => CallbacksFindParser
  BY DEF IInv, CallInv, OwnershipInv, CallbacksFindParser
<1>2. QED
  BY <1>1, Invariant, PTL

\* The parser retains itself exactly as long as libxml2 points to it.
THEOREM RetainCorrect == Spec => []SelfRetainedWithContext
<1>1. IInv => SelfRetainedWithContext
  BY DEF IInv, OwnershipInv, SelfRetainedWithContext
<1>2. QED
  BY <1>1, Invariant, PTL

\* What a call throws is the error the class holds, and it returns only if it
\* holds none.
THEOREM OutcomeCorrect == Spec => []OutcomeTellsError
<1>1. IInv => OutcomeTellsError
  BY DEF IInv, OutcomeInv
<1>2. QED
  BY <1>1, Invariant, PTL

\* A call that finishes returns only for a document that was read whole.
THEOREM SuccessCorrect == Spec => []SuccessMeansWholeDocument
<1>1. IInv => SuccessMeansWholeDocument
  BY DEF IInv, OutcomeInv
<1>2. QED
  BY <1>1, Invariant, PTL

\* usedAfterFinished is thrown only to a client that has left the protocol.
THEOREM ProtocolCorrect == Spec => []DocumentedUseNeverRejected
<1>1. IInv => DocumentedUseNeverRejected
  BY DEF IInv, UsageInv
<1>2. QED
  BY <1>1, Invariant, PTL

\* Without a context every call throws usedAfterFinished, and nothing else
\* happens.
THEOREM NoContextCorrect == Spec => []NoContextNoParse
<1>1. IInv => NoContextNoParse
  BY DEF IInv, UsageInv
<1>2. QED
  BY <1>1, Invariant, PTL

\* Nothing is left of a parser that was finished and let go of.
THEOREM NoLeakAfterFinish == Spec => []LeaksOnlyUnfinished
<1>1. IInv => LeaksOnlyUnfinished
  BY DEF IInv, TypeOK, OwnershipInv, CallInv, OutcomeInv, LeaksOnlyUnfinished
<1>2. QED
  BY <1>1, Invariant, PTL

\* After the end of _finishParsing libxml2 is not entered again.
THEOREM FinishedIsFinal == Spec => FinishedStaysFinished
<1>1. ASSUME IInv, Next, ctxt = "freed"
      PROVE  at' = "idle" /\ UNCHANGED << error, xmlVars >>
  <2>1. at = "idle" /\ context = Nil
    BY <1>1 DEF IInv, CallInv, OwnershipInv, TypeOK
  <2>2. QED
    BY <1>1, <2>1 DEF Next, Parse, ParseData, FinishParsing, ParseChunk, Reject, Enter, XmlError,
       DocumentEnds, ChunkReturns, FinalReturns, Release, parserVars, xmlVars
<1>2. IInv /\ [Next]_vars =>
        [ctxt = "freed" => at' = "idle" /\ UNCHANGED << error, xmlVars >>]_vars
  BY <1>1
<1>3. QED
  BY <1>2, Invariant, PTL DEF Spec, FinishedStaysFinished

-----------------------------------------------------------------------------
(***************************************************************************)
(* The parser implements ParserLife. Each action of the code is one action *)
(* of the abstract specification, or a stutter; the two ends of a call are *)
(* where the invariant is needed, for what the mapping makes of `method`.  *)
(***************************************************************************)

\* The entries of the three methods begin a call or reject it.
LEMMA EntryRefines ==
  ASSUME IInv, at = "idle", NEW call \in {"_parse", "_parseData", "_finishParsing"},
         UNCHANGED << parserVars, xmlVars >>,
         \/ Reject
         \/ \E stage \in {"chunk", "final", "trapped"} :
              /\ Enter(call, stage)
              /\ stage = "trapped" => call # "_finishParsing"
  PROVE  Life!Next
<1>1. UNCHANGED << context, error, xml >>
  BY DEF parserVars, xmlVars
<1>2. CASE Reject
  <2>1. Life!Reject
    BY <1>1, <1>2 DEF Reject, Life!Reject
  <2>2. QED
    BY <2>1 DEF Life!Next
<1>3. CASE \E stage \in {"chunk", "final", "trapped"} :
             Enter(call, stage) /\ (stage = "trapped" => call # "_finishParsing")
  <2>1. Life!Begin(call)
    BY <1>1, <1>3 DEF Enter, Life!Begin
  <2>2. QED
    BY <2>1 DEF Life!Next
<1>4. QED
  BY <1>2, <1>3

\* Every step of Next is a step of ParserLife or leaves its variables alone.
LEMMA StepRefines ==
  ASSUME IInv, Next
  PROVE  Life!Next \/ UNCHANGED Life!vars
<1> USE MessagesAssumption, ContextAssumption
<1>1. CASE Parse
  BY <1>1, EntryRefines DEF Parse, ParseChunk
<1>2. CASE ParseData
  BY <1>2, EntryRefines DEF ParseData, ParseChunk
<1>3. CASE FinishParsing
  BY <1>3, EntryRefines DEF FinishParsing
<1>4. CASE XmlError
  <2>1. /\ at \in {"chunk", "final"}
        /\ method \in {"_parse", "_parseData", "_finishParsing"}
        /\ error' \in Messages
        /\ xml' \in {xml, "failing"}
        /\ UNCHANGED << context, at, method, outcome >>
    BY <1>4 DEF XmlError, ErrorOccurred, IInv, CallInv
  <2>2. Life!Fail
    BY <2>1 DEF Life!Fail
  <2>3. QED
    BY <2>2 DEF Life!Next
<1>5. CASE DocumentEnds
  <2>1. /\ at \in {"chunk", "final"}
        /\ method \in {"_parse", "_parseData", "_finishParsing"}
        /\ xml' = "complete"
        /\ UNCHANGED << context, error, at, method, outcome >>
    BY <1>5 DEF DocumentEnds, parserVars, IInv, CallInv
  <2>2. Life!ReadToEnd
    BY <2>1 DEF Life!ReadToEnd
  <2>3. QED
    BY <2>2 DEF Life!Next
<1>6. CASE ChunkReturns
  <2>1. /\ at = "chunk"
        /\ method \in {"_parse", "_parseData"}
        /\ xml' = "complete" <=> xml = "complete"
        /\ UNCHANGED << context, error, method >>
    BY <1>6 DEF ChunkReturns, AfterFatalError, Throw, Return, IInv, CallInv
  <2>2. CASE Throw
    <3>1. at' = "idle" /\ outcome' = error /\ error # Nil
      BY <2>2 DEF Throw
    <3>2. Life!EndFeeding
      BY <2>1, <3>1 DEF Life!EndFeeding, Life!Verdict
    <3>3. QED
      BY <3>2 DEF Life!Next
  <2>3. CASE Return /\ method = "_parseData"
    <3>1. at' = "idle" /\ outcome' = "returned" /\ error = Nil
      BY <2>3 DEF Return
    <3>2. Life!EndFeeding
      BY <2>1, <2>3, <3>1 DEF Life!EndFeeding, Life!Verdict
    <3>3. QED
      BY <3>2 DEF Life!Next
  <2>4. CASE Return /\ method = "_parse"
    <3>1. at' = "final" /\ UNCHANGED outcome
      BY <2>4 DEF Return
    <3>2. QED
      BY <2>1, <3>1 DEF Life!vars
  <2>5. QED
    BY <1>6, <2>1, <2>2, <2>3, <2>4 DEF ChunkReturns
<1>7. CASE FinalReturns
  <2>1. /\ at = "final" /\ at' = "idle"
        /\ method \in {"_parse", "_finishParsing"}
        /\ error' \in {error} \cup Messages
        /\ xml = "parsing" => error' \in Messages
        /\ xml' = "complete" <=> xml = "complete"
        /\ outcome' = IF error' = Nil THEN "returned" ELSE error'
        /\ UNCHANGED method
    BY <1>7 DEF FinalReturns, FinalChunk, ErrorOccurred, FinalOutcome, AfterFatalError,
       IInv, CallInv
  <2>2. context # Nil /\ context' = Nil
    BY <1>7 DEF FinalReturns, CleanupContext, IInv, CallInv, OwnershipInv
  <2>3. error' = Nil => xml = "complete"
    BY <2>1 DEF IInv, TypeOK, OutcomeInv
  <2>4. Life!EndFinishing
    BY <2>1, <2>2, <2>3 DEF Life!EndFinishing, Life!Verdict
  <2>5. QED
    BY <2>4 DEF Life!Next
<1>8. CASE Release
  BY <1>8 DEF Release, xmlVars, Life!vars
<1>9. QED
  BY <1>1, <1>2, <1>3, <1>4, <1>5, <1>6, <1>7, <1>8 DEF Next

\* _parse, _parseData and _finishParsing give their client what ParserLife
\* promises, for any messages and chunk sizes.
THEOREM LifeRefinement == Spec => ImplementsLife
<1>1. Init => Life!Init
  BY ContextAssumption DEF Init, Life!Init
<1>2. IInv /\ [Next]_vars => [Life!Next]_Life!vars
  <2>1. IInv /\ UNCHANGED vars => UNCHANGED Life!vars
    BY DEF vars, parserVars, xmlVars, Life!vars
  <2>2. QED
    BY <2>1, StepRefines
<1>3. QED
  BY <1>1, <1>2, Invariant, PTL DEF Spec, ImplementsLife, Life!Spec
=============================================================================
