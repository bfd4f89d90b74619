\* The message of testBrokenParse, for messages longer than the buffer.
SPECIFICATION Spec
CONSTANTS
  latin = latin
  greek = greek
  kana = kana
  Nil = Nil
  Characters <- MCCharacters
  Width <- MCWidth
  BufferSize = 6
  MaxMessage = 4
INVARIANT MessageNotEmpty
