\* What the terminating chunk owes when libxml2 returns from it.
SPECIFICATION FairSpec
CONSTANTS
  root = root
  child = child
  a = a
  x = x
  message = message
  Context = Context
  Nil = Nil
  Root = root
  Parsables <- MCParsables
  Attributes <- MCAttributes
  Text <- MCText
  Messages <- MCMessages
  ChunkSizes <- MCChunkSizes
  Int32Max = 1
  MaxDepth = 3
  MaxText = 1
PROPERTY FinishingFreesOrTraps
\* The client may let go of the parser, and a trap stops the program.
CHECK_DEADLOCK FALSE
