----------------------------- MODULE ParserLife -----------------------------
(***************************************************************************)
(* What LibXMLPushSAXParser promises its client, with no context, heap or  *)
(* reference to itself:                                                    *)
(*                                                                         *)
(*  - A parser is open until the first call that finishes has ended; after *)
(*    that every call is rejected. Nothing else closes it, an error least  *)
(*    of all.                                                              *)
(*  - Errors stick. Each is remembered, and every later call that ends     *)
(*    throws the last one.                                                 *)
(*  - A call that finishes returns only if no error was ever reported and  *)
(*    the document has been read to its end.                               *)
(***************************************************************************)
CONSTANTS
  Messages,  \* the error messages libxml2 and the callbacks report
  Nil        \* Swift's nil

VARIABLES
  phase,    \* "open" or "closed"
  running,  \* the method that is running, "idle", or "trapped"
  failure,  \* the last error reported, or Nil
  whole,    \* the document has been read to its end
  outcome   \* how the last call ended

vars == << phase, running, failure, whole, outcome >>

Init ==
  /\ phase \in {"open", "closed"}  \* closed if there was no memory for a context
  /\ running = "idle"
  /\ failure = Nil
  /\ whole = FALSE
  /\ outcome = "none"

Verdict(error) == IF error = Nil THEN "returned" ELSE error

Reject ==
  /\ phase = "closed"
  /\ running = "idle"
  /\ outcome' = "usedAfterFinished"
  /\ UNCHANGED << phase, running, failure, whole >>

\* A chunk that is too large for libxml2 stops the program.
Begin(method) ==
  /\ phase = "open"
  /\ running = "idle"
  /\ \/ running' = method
     \/ method # "_finishParsing" /\ running' = "trapped"
  /\ outcome' = "none"
  /\ UNCHANGED << phase, failure, whole >>

Fail ==
  /\ running \notin {"idle", "trapped"}
  /\ failure' \in Messages
  /\ whole' \in {whole, FALSE}
  /\ UNCHANGED << phase, running, outcome >>

ReadToEnd ==
  /\ running \notin {"idle", "trapped"}
  /\ whole' = TRUE
  /\ UNCHANGED << phase, running, failure, outcome >>

\* A chunk has been parsed; _parse ends here if there was an error.
EndFeeding ==
  /\ \/ running = "_parseData"
     \/ running = "_parse" /\ failure # Nil
  /\ running' = "idle"
  /\ outcome' = Verdict(failure)
  /\ UNCHANGED << phase, failure, whole >>

\* That the document is incomplete is an error of this call.
EndFinishing ==
  /\ running \in {"_parse", "_finishParsing"}
  /\ failure' \in {failure} \cup Messages
  /\ failure' = Nil => whole
  /\ phase' = "closed"
  /\ running' = "idle"
  /\ outcome' = Verdict(failure')
  /\ UNCHANGED whole

Next ==
  \/ Reject
  \/ \E method \in {"_parse", "_parseData", "_finishParsing"} : Begin(method)
  \/ Fail \/ ReadToEnd
  \/ EndFeeding \/ EndFinishing

Spec == Init /\ [][Next]_vars

\* A call that has begun ends.
FairSpec == Spec /\ WF_vars(EndFeeding \/ EndFinishing)
=============================================================================
