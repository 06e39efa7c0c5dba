SPECIFICATION VectorsSpec
CONSTANTS
  NamedKey = {k1}
  Wording = {w1, w2}
  MaxWrites = 4
  NoText = NoText
INVARIANTS
  NoNameLingers
CHECK_DEADLOCK FALSE
