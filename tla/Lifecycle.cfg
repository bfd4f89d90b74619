\* Every order of calls, errors and releases, against what each call owes.
SPECIFICATION Spec
CONSTANTS
  Context = Context
  Nil = Nil
  first = first
  second = second
  Messages <- MCMessages
  ChunkSizes <- MCChunkSizes
  Int32Max = 2
INVARIANTS
  TypeOK
  CallbacksFindParser
  SelfRetainedWithContext
  OutcomeTellsError
  SuccessMeansWholeDocument
  DocumentedUseNeverRejected
  NoContextNoParse
  LeaksOnlyUnfinished
PROPERTIES
  FinishedStaysFinished
  ImplementsLife
\* The client may let go of the parser, and a trap stops the program.
CHECK_DEADLOCK FALSE
