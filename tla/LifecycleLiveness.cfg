\* What a call owes when libxml2 returns from it.
SPECIFICATION FairSpec
CONSTANTS
  Context = Context
  Nil = Nil
  first = first
  second = second
  Messages <- MCMessages
  ChunkSizes <- MCChunkSizes
  Int32Max = 2
PROPERTIES
  FinishingFrees
  ImplementsFairLife
\* The client may let go of the parser, and a trap stops the program.
CHECK_DEADLOCK FALSE
