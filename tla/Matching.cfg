\* Up to two matchers are asked about one request.
SPECIFICATION Spec
CONSTANTS
  Any = Any
  Words <- MCWords
  Foreign <- MCForeign
  Nothing = "nothing"
  Slash = "slash"
  Http = {"http"}
  Values = {1, 2}
  Asked <- MCAsked
  Later <- MCLater
  MaxTries = 2
INVARIANTS TypeOK VerdictIsDeclared QueryCounted
\* The last matcher has decided.
CHECK_DEADLOCK FALSE
