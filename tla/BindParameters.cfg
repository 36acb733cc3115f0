SPECIFICATION BindSpec
CONSTANTS
  Words <- MCWords
  Texts <- MCTexts
  Printed <- MCPrinted
  ListTokens <- MCListTokens
  DictTokens <- MCDictTokens
  Begins <- MCBegins
  MaxStatement = 4
  MaxParameters = 2
INVARIANTS ListBoundRight DictBoundRight LiteralsReadBack
CHECK_DEADLOCK FALSE
