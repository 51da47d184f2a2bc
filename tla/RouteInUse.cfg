SPECIFICATION Spec
CONSTANTS
  p1 = p1  p2 = p2  p3 = p3  off = off  car = car  foot = foot
  None = None
  Place = {p1, p3}
  NoStreet = {}
  Tracked = {p1}
  Untracked = {}
  Near <- OnlyAround
  Profile = {car, foot}
  Way <- Ways
  LegId = {1, 2, 3, 4, 5, 6}
  Reader = {"draw"}
  MaxDestinations = 2
INVARIANTS ReaderSafe
CHECK_DEADLOCK FALSE
