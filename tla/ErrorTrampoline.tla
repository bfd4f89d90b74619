--------------------------- MODULE ErrorTrampoline ---------------------------
(***************************************************************************)
(* _XMLPushSAXParserErrorEncounteredSAX of Sources/LibXMLPushSAXParser.m,  *)
(* the variadic C function that libxml2 calls with an error, and           *)
(* errorOccurred of LibXMLPushSAXParser, which it calls with the message.  *)
(*                                                                         *)
(* The message goes through a buffer of fixed size as bytes and becomes a  *)
(* string again afterwards. Which messages libxml2 has is its own matter;  *)
(* the names and values of a document are part of them, so they have any   *)
(* length and any characters.                                              *)
(***************************************************************************)
EXTENDS UTF8

CONSTANTS
  BufferSize,  \* the size of the buffer `str`
  MaxMessage   \* bound: the number of characters of a message

ASSUME BufferAssumption == BufferSize \in Nat \ {0} /\ MaxMessage \in Nat

VARIABLES
  formatted,  \* external: what the format and its arguments amount to so far
  reported,   \* history: the message of the last error, or Nil
  error       \* the message of the error LibXMLPushSAXParser holds, or Nil

vars == << formatted, reported, error >>

Init ==
  /\ formatted = << >>
  /\ reported = Nil
  /\ error = Nil

\* libxml2 composes a message.
Compose(character) ==
  /\ Len(formatted) < MaxMessage
  /\ formatted' = Append(formatted, character)
  /\ UNCHANGED << reported, error >>

-----------------------------------------------------------------------------
CutAgain(bytes) ==  \* mutant: room for the terminator is left twice
  IF Len(bytes) < BufferSize THEN bytes ELSE SubSeq(bytes, 1, BufferSize - 2)

\* vsnprintf stores as many bytes as leave room for the terminator.
vsnprintf(bytes) ==
  IF Len(bytes) < BufferSize THEN bytes ELSE SubSeq(bytes, 1, BufferSize - 1)

IgnoreNil(string) ==  \* mutant: a message that is nil is passed over
  error' = IF string = Nil THEN error ELSE string

\* A nil NSString arrives as the empty String in a Swift method that takes one.
errorOccurred(string) ==
  error' = IF string = Nil THEN << >> ELSE string

ErrorEncountered ==
  /\ errorOccurred(Decode(vsnprintf(Encode(formatted))))
  /\ reported' = formatted
  /\ formatted' = << >>

Next ==
  \/ \E character \in Characters : Compose(character)
  \/ ErrorEncountered

Spec == Init /\ [][Next]_vars

-----------------------------------------------------------------------------
(***************************************************************************)
(* Properties.                                                             *)
(***************************************************************************)

\* The error that is thrown says nothing libxml2 did not say: its message is the
\* beginning of the one reported last, with no half character and nothing left
\* of an earlier one.
ErrorBeginsMessage == error # Nil => IsPrefix(error, reported)

\* A message is cut only when it does not fit the buffer with its terminator,
\* and then it keeps all that fits, or, if the cut is inside a character,
\* nothing.
CutOnlyWhenTooLong ==
  error # Nil =>
    LET size == Len(Encode(reported))
    IN  \/ size < BufferSize /\ error = reported
        \/ size >= BufferSize /\ Len(Encode(error)) \in {0, BufferSize - 1}

\* What testBrokenParse asserts of the error it catches: its message is not empty.
MessageNotEmpty == error # Nil /\ reported # << >> => error # << >>
=============================================================================
