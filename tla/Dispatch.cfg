\* What the counters and optionals of XMLPushParser stand for at every event, and
\* the calls it makes against the promise of ElementDispatch.
SPECIFICATION Spec
CONSTANTS
  root = root
  child = child
  a = a
  b = b
  x = x
  y = y
  Nil = Nil
  Root = root
  Parsables <- MCParsables
  Attributes <- MCAttributes
  Text <- MCText
  MaxDepth = 5
  MaxText = 2
SYMMETRY Symmetry
INVARIANTS
  TypeOK
  StackHoldsOpenChildren
  IgnoringIsOneSubtree
  BufferBelongsToOneElement
  AskedIsBelowOnStack
  TrapsOnlyAfterNestedData
  RestoredAtDocumentEnd
PROPERTIES
  ImplementsDispatch
  IgnoredSubtreeIsSilent
\* A document ends, and a trap stops the program.
CHECK_DEADLOCK FALSE
