CONSTANTS
  MODULES = MODULES
  E = E
  CH = CH
  X = X
  Z = Z
  OP = OP
  P = P
  Empty = Empty
  NoChoice = NoChoice
  NoUser = NoUser
  NoSym = NoSym
  Modules = MODULES
  Def <- TheTree
  Symbols <- TheSymbols
  Choices <- TheChoices
  UserVals <- TheUserVals
  Edits <- TheEdits
  SymbolOrder <- TheOrder
  Unsets <- TheUnsets
  Files <- TheFiles
  ExprValue <- Evaluated
  Attributes <- FromScratch
  Rank <- RankInLayers
  ExprRank <- ExprRankInLayers
SPECIFICATION Spec
INVARIANT UnsetIsAsNeverSet
