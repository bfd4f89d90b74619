\* Chunks, errors and calls around a document: what comes back, what is left.
SPECIFICATION Spec
CONSTANTS
  root = root
  child = child
  a = a
  x = x
  message = message
  Context = Context
  Nil = Nil
  Root = root
  Parsables <- MCParsables
  Attributes <- MCAttributes
  Text <- MCText
  Messages <- MCMessages
  ChunkSizes <- MCChunkSizes
  Int32Max = 1
  MaxDepth = 4
  MaxText = 1
INVARIANTS
  StaysInStep
  RootReturnedIsFinished
  GoneMeansSettled
\* The client may let go of the parser, and a trap stops the program.
CHECK_DEADLOCK FALSE
