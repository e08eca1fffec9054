\* No bound on the steps: the state space is finite.
SPECIFICATION Spec
CONSTANTS
  Rows = {"r1", "r2", "r3"}
  Fields = {"f", "g"}
  Texts = {"t"}
  PageSizes = {1, 2}
  Nested <- MCNested
  Words <- MCWords
  Responses <- MCResponses
INVARIANTS TypeOK PageOfItems RowsHaveTheirTree DrawnAsSelected
PROPERTY ClicksKeepTrees
