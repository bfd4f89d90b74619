\* What becomes of a message on its way through the buffer.
SPECIFICATION Spec
CONSTANTS
  latin = latin
  greek = greek
  kana = kana
  Nil = Nil
  Characters <- MCCharacters
  Width <- MCWidth
  BufferSize = 6
  MaxMessage = 4
INVARIANTS
  ErrorBeginsMessage
  CutOnlyWhenTooLong
