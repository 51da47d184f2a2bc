SPECIFICATION Spec
CONSTANTS
  p1 = p1  p2 = p2  p3 = p3  off = off  car = car  foot = foot
  None = None
  Place = {p1, p3, off}
  NoStreet = {off}
  Tracked = {p1, p3, off}
  Untracked = {}
  Near <- OnlyAround
  Profile = {car, foot}
  Way <- Ways
  LegId = {1, 2, 3, 4, 5, 6, 7, 8}
  Reader = {"draw", "demo"}
  MaxDestinations = 2
INVARIANTS
  VisitsInOrder PathUpToDate InUseCounts
PROPERTIES PositionSparesReaders FaultsOnlyThere
CHECK_DEADLOCK FALSE
