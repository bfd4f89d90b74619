\* The force unwraps of endElementWithPrefix, on well-formed documents.
SPECIFICATION Spec
CONSTANTS
  root = root
  child = child
  a = a
  b = b
  x = x
  y = y
  Nil = Nil
  Root = root
  Parsables <- MCParsables
  Attributes <- MCAttributes
  Text <- MCText
  MaxDepth = 3
  MaxText = 2
SYMMETRY Symmetry
INVARIANT ForceUnwrapsHold
CHECK_DEADLOCK FALSE
