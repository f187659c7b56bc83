CONSTANTS
  IntMax = 3
  BigMax = 63
  None = None
  Schemas <- MCSchemas
  Contents <- MCContents
  Queries <- MCQueries
  Classes = {"where", "like", "arith", "group", "order", "join"}
SPECIFICATION Spec
INVARIANTS AnswersAreRight TypesAreSound
CHECK_DEADLOCK FALSE
