SPECIFICATION Spec
CONSTANTS
  a = a  b = b  c1 = c1  folder = folder  garbled = garbled
  None = None
  Label = {a, b}
  Coord = {c1}
  Folder = folder
  Garbled = garbled
  MaxEntries = 2
  MaxDepth = 1
  MaxKills = 2
SYMMETRY LabelSymmetry
INVARIANTS TypeOK OneLostPerKill
PROPERTY AsAsked
