-------------------------- MODULE ElementDispatch --------------------------
(***************************************************************************)
(* What XMLPushParser promises the parsables of an application, with no    *)
(* level counter, parser stack or buffer: every decision is taken from the *)
(* open elements of the document.                                          *)
(*                                                                         *)
(*  - A parsable is asked about every element outside ignored ones, and it *)
(*    is the one in charge there; inside an ignored element nobody is      *)
(*    called.                                                              *)
(*  - The end of an element is told to the parsable that was asked about   *)
(*    its start, with the child it supplied, or with the attributes of its *)
(*    own start tag and exactly the text between its tags.                 *)
(*  - The parser gives up at the end tag of an element handled as data     *)
(*    inside which another one was handled as data, and nowhere else.      *)
(***************************************************************************)
EXTENDS OpenElements

VARIABLES
  open,   \* the open elements of the document
  call,   \* the call made to a parsable by the last event, Nil if none
  gaveUp  \* the program has stopped

vars == << open, call, gaveUp >>

Init ==
  /\ open = << >>
  /\ call = Nil
  /\ gaveUp = FALSE

(***************************************************************************)
(* A start tag.                                                            *)
(***************************************************************************)
Skip(attributes) ==
  /\ ~gaveUp
  /\ Skipping(open)
  /\ open' = Append(open, Skipped(attributes))
  /\ call' = Nil
  /\ UNCHANGED gaveUp

Ask(attributes) ==
  /\ ~gaveUp
  /\ ~Skipping(open)
  /\ \E parsable \in Parsables :
       /\ InCharge(open, parsable)
       /\ call' = StartElementCall(parsable, attributes)
       /\ \/ open' = Append(open, Asked(attributes, parsable, "ignore", Nil))
          \/ open' = Append(Enclose(open), Asked(attributes, parsable, "handleAsData", Nil))
          \/ \E child \in Parsables :
               open' = Append(open, Asked(attributes, parsable, "handleWithChild", child))
  /\ UNCHANGED gaveUp

(***************************************************************************)
(* Character data.                                                         *)
(***************************************************************************)
CollectText(piece) ==
  /\ ~gaveUp
  /\ open # << >>
  /\ open' = Collect(open, piece)
  /\ call' = Nil
  /\ UNCHANGED gaveUp

(***************************************************************************)
(* An end tag.                                                             *)
(***************************************************************************)
Close(callMade) ==
  /\ call' = callMade
  /\ open' = Enclosing(open)
  /\ UNCHANGED gaveUp

EndSkipped ==
  /\ Innermost(open).answer \in {"ignore", "skipped"}
  /\ Close(Nil)

EndChild ==
  /\ Innermost(open).answer = "handleWithChild"
  /\ Close(EndChildElementCall(Innermost(open).asked, Innermost(open).child))

EndData ==
  /\ Innermost(open).answer = "handleAsData"
  /\ ~Innermost(open).nested
  /\ Close(EndDataElementCall(Innermost(open).asked, Innermost(open).attributes,
                              Innermost(open).text))

GiveUp ==
  /\ Innermost(open).answer = "handleAsData"
  /\ Innermost(open).nested
  /\ gaveUp' = TRUE
  /\ call' = Nil
  /\ UNCHANGED open

EndElement ==
  /\ ~gaveUp
  /\ open # << >>
  /\ EndSkipped \/ EndChild \/ EndData \/ GiveUp

Next ==
  \/ \E attributes \in Attributes : Skip(attributes) \/ Ask(attributes)
  \/ \E piece \in Text : CollectText(piece)
  \/ EndElement

Spec == Init /\ [][Next]_vars
=============================================================================
