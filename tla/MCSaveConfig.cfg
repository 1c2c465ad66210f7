CONSTANTS
  c1 = c1
  c2 = c2
  c3 = c3
  Missing = Missing
  Torn = Torn
  Linked = Linked
  Contents <- TheContents
SPECIFICATION Spec
INVARIANTS
  TypeOK
  LastSaveSurvives
