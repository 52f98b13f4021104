SPECIFICATION Spec
CONSTANTS
  MaxBurst = 2
  MaxBoots = 2
PROPERTY
  CommandsRun
