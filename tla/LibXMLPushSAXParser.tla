------------------------- MODULE LibXMLPushSAXParser -------------------------
(***************************************************************************)
(* LibXMLPushSAXParser of Sources/LibXMLPushSAXParser.swift: the base      *)
(* class that owns a libxml2 push parser context. It gives libxml2 a       *)
(* pointer to itself, which makes it retain itself until the context is    *)
(* freed, turns libxml2's error callback into a stored error that the next *)
(* return throws, and frees the context at the end of _finishParsing.      *)
(*                                                                         *)
(* The client calls the three methods in any order, documented or not, and *)
(* lets go of the parser between two calls. libxml2 is external: inside    *)
(* xmlParseChunk it reports errors and comes to the end of the document.   *)
(* What the element callbacks do is the matter of XMLPushParser.           *)
(***************************************************************************)
EXTENDS Integers

CONSTANTS
  Messages,    \* the error messages libxml2 and the callbacks report
  ChunkSizes,  \* the sizes a chunk of data can have
  Int32Max,    \* the largest Int32
  Context,     \* a pointer to the context libxml2 made
  Nil          \* Swift's nil

ASSUME MessagesAssumption ==
  /\ Nil \notin Messages
  /\ Messages \cap {"none", "returned", "usedAfterFinished"} = {}

ASSUME ContextAssumption == Context # Nil

ASSUME SizesAssumption == ChunkSizes \subseteq Nat /\ Int32Max \in Nat

VARIABLES
  context,     \* xmlParserCtxtPtr?
  unsafeSelf,  \* the one-element allocation that holds a reference to self
  error,       \* Error?
  cleanedUp,   \* the lazy __once has run
  ctxt,        \* external: what became of the context in libxml2's heap
  xml,         \* external: where libxml2 is in the document
  at,          \* where the running call is
  method,      \* the last call that found a context
  outcome,     \* how the last call ended
  held,        \* the client holds the parser
  usage        \* history: the client's calls against the documented protocol

parserVars == << context, unsafeSelf, error, cleanedUp >>
xmlVars == << ctxt, xml >>
vars == << parserVars, xmlVars, at, method, outcome, held, usage >>

(***************************************************************************)
(* init. xmlCreatePushParserCtxt answers NULL when it cannot allocate.     *)
(***************************************************************************)
Init ==
  /\ \/ context = Context /\ ctxt = "live"
     \/ context = Nil /\ ctxt = "never"
  /\ unsafeSelf = "initialized"
  /\ error = Nil
  /\ cleanedUp = FALSE
  /\ xml = "parsing"
  /\ at = "idle"
  /\ method = "none"
  /\ outcome = "none"
  /\ held = TRUE
  /\ usage = "fresh"

(***************************************************************************)
(* The documented protocol: _parse exactly once, or _parseData any number  *)
(* of times and then _finishParsing exactly once.                          *)
(***************************************************************************)
Use(call) ==
  usage' = CASE call = "_parse" /\ usage = "fresh" -> "whole"
             [] call = "_parseData" /\ usage \in {"fresh", "feeding"} -> "feeding"
             [] call = "_finishParsing" /\ usage \in {"fresh", "feeding"} -> "finished"
             [] OTHER -> "misused"

(***************************************************************************)
(* The guards of the three methods, and how they enter xmlParseChunk.      *)
(***************************************************************************)
RejectQuietly ==  \* mutant: the guards return instead of throwing
  /\ context = Nil
  /\ outcome' = "returned"
  /\ UNCHANGED << at, method >>

Reject ==
  /\ context = Nil
  /\ outcome' = "usedAfterFinished"
  /\ UNCHANGED << at, method >>

EnterUnguarded(call, stage) ==  \* mutant: the guard is dropped
  /\ at' = stage
  /\ method' = call
  /\ outcome' = "none"

Enter(call, stage) ==
  /\ context # Nil
  /\ at' = stage
  /\ method' = call
  /\ outcome' = "none"

\* `Int32(data.count)` traps when the size does not fit.
ParseChunk(call) ==
  \E size \in ChunkSizes :
    \/ Reject
    \/ size <= Int32Max /\ Enter(call, "chunk")
    \/ size > Int32Max /\ Enter(call, "trapped")

Parse ==
  /\ at = "idle" /\ held
  /\ Use("_parse")
  /\ ParseChunk("_parse")
  /\ UNCHANGED << parserVars, xmlVars, held >>

ParseData ==
  /\ at = "idle" /\ held
  /\ Use("_parseData")
  /\ ParseChunk("_parseData")
  /\ UNCHANGED << parserVars, xmlVars, held >>

FinishParsing ==
  /\ at = "idle" /\ held
  /\ Use("_finishParsing")
  /\ Reject \/ Enter("_finishParsing", "final")
  /\ UNCHANGED << parserVars, xmlVars, held >>

(***************************************************************************)
(* Inside xmlParseChunk. The first fatal error disables the callbacks for  *)
(* elements; further errors of the same chunk are still reported, those    *)
(* of later chunks are not, as libxml2 does not look at them. A namespace  *)
(* error, and the errors of the callbacks themselves, stop nothing.        *)
(***************************************************************************)
ErrorOccurred(message) == error' = message

XmlError ==
  /\ at \in {"chunk", "final"}
  /\ xml # "stopped"
  /\ \E message \in Messages : ErrorOccurred(message)
  /\ xml' \in {xml, "failing"}
  /\ UNCHANGED << context, unsafeSelf, cleanedUp, ctxt, at, method, outcome, held, usage >>

DocumentEnds ==
  /\ at \in {"chunk", "final"}
  /\ xml = "parsing"
  /\ xml' = "complete"
  /\ UNCHANGED << parserVars, ctxt, at, method, outcome, held, usage >>

(***************************************************************************)
(* xmlParseChunk returns to _parseData, which throws the stored error, or  *)
(* returns, to the client or to the rest of _parse.                        *)
(***************************************************************************)
AfterFatalError == IF xml = "failing" THEN "stopped" ELSE xml

ThrowAndCleanUp ==  \* mutant: an error frees the context at once
  /\ error # Nil
  /\ at' = "idle"
  /\ outcome' = error
  /\ context' = Nil
  /\ ctxt' = "freed"
  /\ UNCHANGED << unsafeSelf, cleanedUp >>

ThrowUnchecked ==  \* mutant: throws without looking whether there is an error
  /\ at' = "idle"
  /\ outcome' = error
  /\ UNCHANGED << context, ctxt, unsafeSelf, cleanedUp >>

RetryAfterError ==  \* mutant: an error starts the chunk again
  /\ error # Nil
  /\ UNCHANGED << context, ctxt, unsafeSelf, cleanedUp, at, outcome >>

Throw ==
  /\ error # Nil
  /\ at' = "idle"
  /\ outcome' = error
  /\ UNCHANGED << context, ctxt, unsafeSelf, cleanedUp >>

ReturnAfterChunk ==  \* mutant: _parse does not go on to _finishParsing
  /\ error = Nil
  /\ at' = "idle"
  /\ outcome' = "returned"
  /\ UNCHANGED << context, ctxt, unsafeSelf, cleanedUp >>

Return ==
  /\ error = Nil
  /\ \/ method = "_parseData" /\ at' = "idle" /\ outcome' = "returned"
     \/ method = "_parse" /\ at' = "final" /\ UNCHANGED outcome
  /\ UNCHANGED << context, ctxt, unsafeSelf, cleanedUp >>

ChunkReturns ==
  /\ at = "chunk"
  /\ Throw \/ Return
  /\ xml' = AfterFatalError
  /\ UNCHANGED << error, method, held, usage >>

(***************************************************************************)
(* The terminating xmlParseChunk returns, with an error if the document is *)
(* not complete; the context is freed before the stored error is thrown.   *)
(***************************************************************************)
KeepSelf ==  \* mutant: the reference to self is not given up
  /\ cleanedUp' = TRUE
  /\ context' = Nil
  /\ ctxt' = "freed"
  /\ UNCHANGED unsafeSelf

CleanupNothing ==  \* mutant: cleanupContext is not called
  UNCHANGED << context, ctxt, unsafeSelf, cleanedUp >>

KeepPointer ==  \* mutant: context is not reset
  /\ cleanedUp' = TRUE
  /\ ctxt' = "freed"
  /\ unsafeSelf' = "deinitialized"
  /\ UNCHANGED context

CleanupContext ==
  LET frees == ~cleanedUp /\ context # Nil
  IN  /\ cleanedUp' = TRUE
      /\ context' = IF frees THEN Nil ELSE context
      /\ ctxt' = IF frees THEN "freed" ELSE ctxt
      /\ unsafeSelf' = IF frees THEN "deinitialized" ELSE unsafeSelf

FinalChunk ==
  \/ xml = "parsing" /\ \E message \in Messages : ErrorOccurred(message)
  \/ xml # "parsing" /\ UNCHANGED error

ErrorReadEarly ==  \* mutant: the error is read before the last chunk is parsed
  IF error = Nil THEN "returned" ELSE error

FinalOutcome ==
  IF error' = Nil THEN "returned" ELSE error'

FinalReturns ==
  /\ at = "final"
  /\ FinalChunk
  /\ CleanupContext
  /\ at' = "idle"
  /\ outcome' = FinalOutcome
  /\ xml' = IF xml = "parsing" THEN "stopped" ELSE AfterFatalError
  /\ UNCHANGED << method, held, usage >>

(***************************************************************************)
(* The client lets go of the parser. deinit runs, and frees the allocation,*)
(* unless the parser retains itself through unsafeSelf.                    *)
(***************************************************************************)
DeinitAnyway ==  \* mutant: unsafeSelf holds no strong reference
  unsafeSelf' = "deallocated"

Deinit ==
  unsafeSelf' = IF unsafeSelf = "initialized" THEN unsafeSelf ELSE "deallocated"

Release ==
  /\ at = "idle" /\ held
  /\ held' = FALSE
  /\ Deinit
  /\ UNCHANGED << context, error, cleanedUp, xmlVars, at, method, outcome, usage >>

Next ==
  \/ Parse \/ ParseData \/ FinishParsing
  \/ XmlError \/ DocumentEnds
  \/ ChunkReturns \/ FinalReturns
  \/ Release

Spec == Init /\ [][Next]_vars

\* A call to xmlParseChunk returns. The client owes nothing.
Fairness == WF_vars(ChunkReturns) /\ WF_vars(FinalReturns)
FairSpec == Spec /\ Fairness

-----------------------------------------------------------------------------
(***************************************************************************)
(* Properties.                                                             *)
(***************************************************************************)

\* The types the Swift declarations give the fields, and the shape of the rest.
TypeOK ==
  /\ context \in {Context, Nil}
  /\ unsafeSelf \in {"initialized", "deinitialized", "deallocated"}
  /\ error \in Messages \cup {Nil}
  /\ cleanedUp \in BOOLEAN
  /\ ctxt \in {"never", "live", "freed"}
  /\ xml \in {"parsing", "complete", "failing", "stopped"}
  /\ at \in {"idle", "chunk", "final", "trapped"}
  /\ method \in {"none", "_parse", "_parseData", "_finishParsing"}
  /\ outcome \in {"none", "returned", "usedAfterFinished"} \cup Messages
  /\ held \in BOOLEAN
  /\ usage \in {"fresh", "feeding", "whole", "finished", "misused"}

\* Whatever the client calls and in whatever order, xmlParseChunk is entered
\* with a context that has not been freed, and its callbacks find the parser
\* behind the pointer they are given.
CallbacksFindParser ==
  at \in {"chunk", "final"} =>
    /\ context = Context
    /\ ctxt = "live"
    /\ unsafeSelf = "initialized"

\* The reference to itself lives as long as the context that holds a pointer to
\* it, even when the client has let go of the parser, and no longer.
SelfRetainedWithContext ==
  /\ ctxt = "live" => context = Context /\ unsafeSelf = "initialized"
  /\ ctxt = "freed" => context = Nil /\ unsafeSelf # "initialized"

\* A call that found a context and has ended threw the last error reported, by
\* it or by any call before it, and returned only if there was none.
OutcomeTellsError ==
  at = "idle" /\ outcome \notin {"none", "usedAfterFinished"} =>
    outcome = IF error = Nil THEN "returned" ELSE error

\* _parse and _finishParsing return normally only when libxml2 has come to the
\* end of a document without an error, and the context is gone by then.
SuccessMeansWholeDocument ==
  outcome = "returned" /\ method \in {"_parse", "_finishParsing"} =>
    xml = "complete" /\ error = Nil /\ ctxt = "freed"

\* A client that keeps to the documented protocol is never told that the parser
\* has been used after it finished, whatever errors its calls have thrown,
\* unless libxml2 could not make a context in the first place.
DocumentedUseNeverRejected ==
  usage # "misused" /\ ctxt # "never" => outcome # "usedAfterFinished"

\* Where xmlCreatePushParserCtxt answered NULL, every call, of whatever kind and
\* in whatever order, throws usedAfterFinished, though nothing was finished: none
\* gets into libxml2 or returns as if it had parsed, and the reference to itself
\* is never given up.
NoContextNoParse ==
  ctxt = "never" =>
    /\ at = "idle" /\ error = Nil
    /\ outcome = IF usage = "fresh" THEN "none" ELSE "usedAfterFinished"
    /\ unsafeSelf = "initialized"

\* A parser that outlives its client's last reference holds a context that was
\* not freed, or never had one, and only because no call has got to the end of
\* _finishParsing: there was no call but _parseData, or _parse threw before.
LeaksOnlyUnfinished ==
  ~held /\ unsafeSelf # "deallocated" =>
    /\ ctxt # "freed"
    /\ \/ method \in {"none", "_parseData"}
       \/ method = "_parse" /\ error # Nil

\* Once the context is freed no call gets into libxml2 or changes the error.
FinishedStaysFinished ==
  [][ctxt = "freed" => at' = "idle" /\ UNCHANGED << error, xmlVars >>]_vars

\* Once the terminating xmlParseChunk is entered the context is freed in the
\* end, whether or not the document is complete.
FinishingFrees == at = "final" ~> ctxt = "freed"

\* The client of this class gets what ParserLife promises: the last error
\* reported, sticking; usedAfterFinished exactly after the end of a call that
\* finishes; a normal end of such a call for a whole document only.
Life == INSTANCE ParserLife WITH
  phase <- IF context = Nil THEN "closed" ELSE "open",
  running <- IF at \in {"idle", "trapped"} THEN at ELSE method,
  failure <- error,
  whole <- xml = "complete"
ImplementsLife == Life!Spec

\* Every call that does not trap ends, _parse through both of its chunks.
ImplementsFairLife == Life!FairSpec

\* The documentation of the class: _parse, exactly once, is all that calling
\* code must call, so nothing is left over when it has ended.
ParseOnceIsEnough == usage = "whole" /\ at = "idle" => ctxt # "live"
=============================================================================
