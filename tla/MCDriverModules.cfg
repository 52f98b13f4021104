SPECIFICATION Spec
CONSTANTS
  Progs = {p1, p2}
INVARIANTS
  TypeOK
  DanglingNeedsRace
  ReleasesWhatItHolds
  FileOutlivesOneWay
PROPERTIES
  WorkFollowsInterrupt
CHECK_DEADLOCK FALSE
