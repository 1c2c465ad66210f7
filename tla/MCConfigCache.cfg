CONSTANTS
  MODULES = MODULES
  CH = CH
  X = X
  Z = Z
  B = B
  Empty = Empty
  NoChoice = NoChoice
  NoUser = NoUser
  NoSym = NoSym
  NoRead = NoRead
  Uncached = Uncached
  Modules = MODULES
  Def <- TheTree
  ExprValue <- Evaluated
  Symbols <- TheSymbols
  Choices <- TheChoices
  ChoiceOf <- TheChoiceOf
  UserVals <- TheUserVals
  Cells <- TheCells
  Truth <- TheTruth
  Prompted <- ThePrompted
  Globals <- TheGlobals
  Dependents <- TheDependents
  Values <- TheValues
  Placeholder <- ThePlaceholder
  Uses <- TheUses
  MayRead <- TheMayRead
  Eval <- TheEval
  Reads <- TheReads
SPECIFICATION Spec
INVARIANTS
  TypeOK
  Coherent
  ReadsStayCached
  FlagIsSound
  WalkClearsReached
PROPERTY ImplementsConfigValues
