\* What a whole parse leaves in the parsables, against a reading of the document.
SPECIFICATION Spec
CONSTANTS
  root = root
  one = one
  two = two
  three = three
  a = a
  b = b
  x = x
  y = y
  list = list
  record = record
  title = title
  part = part
  other = other
  Nil = Nil
  Root = root
  RootType = list
  Parsables <- MCParsables
  Attributes <- MCAttributes
  Text <- MCText
  Names <- MCNames
  Keys <- MCKeys
  Types <- MCTypes
  DataElement <- MCDataElement
  ChildElement <- MCChildElement
  ChildType <- MCChildType
  MaxDepth = 4
  MaxText = 2
  MaxEvents = 6
SYMMETRY Symmetry
INVARIANT RootIsReadingOfDocument
PROPERTY HandedOverIsComplete
\* A document ends, and a trap stops the program.
CHECK_DEADLOCK FALSE
