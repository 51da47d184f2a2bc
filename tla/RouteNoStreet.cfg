SPECIFICATION Spec
CONSTANTS
  p1 = p1  p2 = p2  p3 = p3  off = off  car = car  foot = foot
  None = None
  Place = {p1, off}
  NoStreet = {off}
  Tracked = {p1}
  Untracked = {off}
  Near <- OnlyAround
  Profile = {car}
  Way <- Ways
  LegId = {1, 2, 3, 4}
  Reader = {}
  MaxDestinations = 1
INVARIANTS NoFault
CHECK_DEADLOCK FALSE
