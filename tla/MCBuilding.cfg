CONSTANTS
  s1 = s1
  s2 = s2
  NoPos = NoPos
  Sites <- MCSites
  Area <- MCArea
  Addon <- MCAddon
  Entries <- MCEntries
  ModelLoaded = FALSE
  MaxUpc = 4
  MaxWanted = 2
SPECIFICATION Spec
INVARIANT ReservationsExact
INVARIANT OneBuildPerRequest
INVARIANT LiveBuildReserved
CHECK_DEADLOCK FALSE
