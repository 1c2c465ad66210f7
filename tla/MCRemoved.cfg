CONSTANTS
  s1 = s1
  s2 = s2
  one = one
  ten = ten
  NoLine = NoLine
  Syms <- TheSyms
  Vals <- TheVals
  Cut <- TheCut
SPECIFICATION Spec
INVARIANT RemovedSymbolsAreTouched
