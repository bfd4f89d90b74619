\* What a start tag's attributes are when the application gets them.
SPECIFICATION Spec
CONSTANTS
  Nil = Nil
  Quote = Quote
  Names <- MCNames
  Namespace <- MCNamespace
  Characters <- MCCharacters
  Values <- MCValues
  MaxAttributes = 2
  MaxElements = 2
INVARIANTS
  DictionaryIsStartTag
  EqualElementsAreAlike
\* The parse ends.
CHECK_DEADLOCK FALSE
