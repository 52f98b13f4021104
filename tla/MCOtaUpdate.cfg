SPECIFICATION Spec
CONSTANTS
  Targets <- MCTargets
  Archives <- MCArchives
  Absent <- MCAbsent
  Spaces <- MCSpaces
INVARIANTS
  TypeOK
  SuccessMeansWritten
  StatusBeforeWrite
PROPERTIES
  WritesJustified
