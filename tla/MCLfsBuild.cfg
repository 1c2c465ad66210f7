CONSTANTS
  NScripts = 5
  U = U
  V = V
  Sources = {U, V}
  Needs <- TheNeeds
  Inputs <- TheInputs
  MaxFaults = 2
SPECIFICATION FairSpec
INVARIANTS
  TypeOK
  RunsInOrder
  RunsInOwnGroup
PROPERTIES
  ImplementsOrderedBuild
  BuildEnds
