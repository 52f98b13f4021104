SPECIFICATION Spec
CONSTANTS
  Targets <- MCTargets
  Archives <- MCArchives
  Absent <- MCAbsent
  Spaces <- MCSpaces
INVARIANT
  UbootErrorReported
