SPECIFICATION Spec
CONSTANTS
  a = a  b = b  c = c  d = d
  ab = ab  bc = bc  bd = bd  cd = cd  jam = jam
  notAbc = notAbc  onlyBcd = onlyBcd
  Coord = {a, b, c, d}
  Street = {ab, bc, bd, cd, jam}
  Distortion = {jam}
  From <- Start
  To <- End
  Flags <- OneWay
  Restriction = {notAbc, onlyBcd}
  Kind <- Kinds
  Via <- Corners
  Twice = {bc}
INVARIANTS TypeOK WaysAreAllowedWays NothingTwice CopiesBarelyLonger
CHECK_DEADLOCK FALSE
