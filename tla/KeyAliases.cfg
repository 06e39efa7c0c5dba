CONSTANTS
  Proc = {p1}
  Key = {1, 3, 4}
  Form <- MCForm
  Source = {"owner", "normalized", "semantic"}
  Forgettable = {1, 3, 4}
  None = None
  NamedKey = {k1}
  Wording = {w1}
  MaxWrites = 3
  NoText = NoText
  Importer = {i1, i2}
  Task = task
  PinnedFile = {weights}
  MaxFetches = 2
  Absent = Absent
SPECIFICATION NamesSpec
CHECK_DEADLOCK FALSE
INVARIANTS
  
  PredictionIgnoresNames
  ChoiceIsReinforced
  RegretNeverPraises
  VectorsKeepUp
  ActiveIsPinned
PROPERTIES
  RejectionsStick
