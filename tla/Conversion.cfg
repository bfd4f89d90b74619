\* What a text that comes in pieces reads as, by the two ways of reading it.
SPECIFICATION Spec
CONSTANTS
  Nil = Nil
  Characters <- MCCharacters
  Width <- MCWidth
  Texts <- MCTexts
  LowerCase <- MCLowerCase
  Numeral <- MCNumeral
INVARIANTS
  ValueIsText
  ConversionsAgree
\* The text comes to an end.
CHECK_DEADLOCK FALSE
