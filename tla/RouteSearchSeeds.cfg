SPECIFICATION FairSpec
CONSTANTS
  a = a  b = b  c = c  b1 = b1  b2 = b2
  ab = ab  bc = bc  ca = ca  ab1 = ab1  ab2 = ab2  b1c = b1c  b2c = b2c
  None = None
  Point = {a, b, c, b1, b2}
  Segment = {ab, bc, ca, ab1, ab2, b1c, b2c}
  Start <- TurnStart
  End <- TurnEnd
  Added <- TurnAdded
  Item <- TurnItem
  At <- TurnAt
  Blocked <- TurnBlocked
  Street = {ab, bc, ca}
  Limited = {ca}
  Penalty = 3
  Times = {0, 8, 99}
  Percents = {25}
  Infinity = 99
INVARIANT SeededLeast
CHECK_DEADLOCK FALSE
