SPECIFICATION FairSpec
CONSTANTS
  p1 = p1  p2 = p2  p3 = p3  off = off  car = car  foot = foot
  None = None
  Place = {p1, p2, p3, off}
  NoStreet = {off}
  Tracked = {p1, p2, p3, off}
  Untracked = {p2}
  Near <- OnlyAround
  Profile = {car, foot}
  Way <- Ways
  LegId = {1, 2, 3, 4, 5, 6}
  Reader = {}
  MaxDestinations = 3
INVARIANTS
  TypeOK PathNeedsGraph VisitsInOrder FloodLeadsToCurrent PathUpToDate StatusTellsPath NoFault
PROPERTY Recovers
CHECK_DEADLOCK FALSE
