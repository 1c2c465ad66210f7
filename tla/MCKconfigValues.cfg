CONSTANTS
  MODULES = MODULES
  T = T
  W = W
  C = C
  S = S
  L = L
  R = R
  Empty = Empty
  NoChoice = NoChoice
  NoUser = NoUser
  NoSym = NoSym
  Modules = MODULES
  Def <- TheTree
  Symbols <- TheSymbols
  Choices <- TheChoices
  UserVals <- TheUserVals
  Edits <- TheEdits
  SymbolOrder <- TheOrder
  Unsets <- TheUnsets
  Files <- TheFiles
  ExprValue <- Evaluated
  Attributes <- FromScratch
  Rank <- RankInLayers
  ExprRank <- ExprRankInLayers
SPECIFICATION Spec
INVARIANTS
  TypeOK
  IntInRange
  AssignableIsTakenUnlessLocked
  ReloadKeepsValues
  MinReloadKeepsValues
