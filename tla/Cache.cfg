SPECIFICATION Spec
CONSTANTS
  a = a  b = b  c = c  d = d  e = e  h1 = h1  h2 = h2
  None = None
  Id = {a, b, c, d}
  DataSize <- Sizes
  EntrySize = 1
  CacheSize = 5
  Handle = {h1, h2}
INVARIANTS TypeOK ListsMatchHash SizesAddUp UsageCounts
PROPERTIES KeepsPromise MakesRoom
