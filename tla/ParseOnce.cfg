\* The documented use of _parse on its own.
SPECIFICATION Spec
CONSTANTS
  Context = Context
  Nil = Nil
  first = first
  second = second
  Messages <- MCMessages
  ChunkSizes <- MCChunkSizes
  Int32Max = 2
INVARIANT ParseOnceIsEnough
\* The client may let go of the parser, and a trap stops the program.
CHECK_DEADLOCK FALSE
