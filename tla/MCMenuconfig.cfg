CONSTANTS
  A = A
  H = H
  I = I
  CH = CH
  X = X
  Z = Z
  nTop = nTop
  nA = nA
  nM = nM
  nH = nH
  nI = nI
  nCH = nCH
  nX = nX
  nZ = nZ
  Empty = Empty
  NoChoice = NoChoice
  NoUser = NoUser
  NoSym = NoSym
  Gone = Gone
  Modules = NoSym
  Def <- TheTree
  Symbols <- TheSymbols
  Choices <- TheChoices
  UserVals <- TheUserVals
  SymbolOrder <- TheOrder
  NodeOrder <- TheNodes
  Node <- TheNode
  Typed <- TheTyped
  Files <- TheFiles
  ExprValue <- Evaluated
  Attributes <- FromScratch
  Rank <- RankInLayers
  ExprRank <- ExprRankInLayers
SPECIFICATION Spec
INVARIANTS
  TypeOK
  CursorIsOnShownNode
  MenuCanBeLeft
  QuitLosesNothing
  NothingUnwritten
  TogglingTakesEffect
