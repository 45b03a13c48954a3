\* The texts, tokens and trees are defined in MCStatements.  A statement ends.
SPECIFICATION Spec
CONSTANTS
  Tokens <- MCTokens
  YYINITDEPTH = 15
  Texts <- MCTexts
  LaterTexts <- NextTexts
  MaxStatements = 2
  Db <- MCDb
  Statements <- MCStatementTrees
  KnobSettings <- AllKnobs
  OpenTables <- MCOpenTables
  OpenIndexes <- MCOpenIndexes
CHECK_DEADLOCK FALSE
INVARIANTS
  AcceptsTheGrammar
  
  
  
  
  ConditionsTyped
  
PROPERTY EveryStageEnds
