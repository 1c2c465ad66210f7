CONSTANTS
  A = A
  B = B
  D = D
  P = P
  C = C
  MainFile = MainFile
  Other = Other
  NoChoice = NoChoice
  NoUser = NoUser
  NoSym = NoSym
  Symbols <- TheSymbols
  Choices <- TheChoices
  Statements <- TheStatements
  Files = {MainFile, Other}
  MaxNodes = 5
  MaxDefs <- TheMaxDefs
  Meaning <- TheMeaning
SPECIFICATION Spec
INVARIANT AllLoopsAreFound
