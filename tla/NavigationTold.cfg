SPECIFICATION Spec
CONSTANTS
  main = main  market = market  circle = circle  quay = quay  lane = lane
  direct = direct  detour = detour
  End = End
  Street = {main, market, circle, quay, lane}
  Flood = {direct, detour}
  PathsOf <- Paths
  Manoeuvre <- Corners
  Roundabout = {circle}
  Announce <- Distances
  Speed <- Speeds
  Delays = {0, 2}
  turn_around_limit = 3
INVARIANT ToldMeansHeard
