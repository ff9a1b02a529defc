SPECIFICATION Spec
CONSTANTS
  Instances = {a, b}
  Commands = {c1, c2}
  None = None
  MaxOutages = 1
SYMMETRY Symmetry
CHECK_DEADLOCK FALSE
INVARIANTS
  OkMeansReloaded
  VoterIsTemporary
  LastIsNotExpelled
PROPERTIES
  OkTakesEffect
