CONSTANTS
  Unit = {u1, u2, d1}
  Detector = {d1}
  None = None
  Other = Other
  MaxUpc = 4
  MaxBuilds = 1
  UpdateInterval = 4
  TrackerTimeout = 1
SYMMETRY Symmetry
SPECIFICATION Spec
 
PROPERTY CommandsOwnUnits
CHECK_DEADLOCK FALSE
