SPECIFICATION Spec
CONSTANTS
  Rows = {"r1", "r2", "r3"}
  Fields = {"f", "g"}
  Texts = {"t"}
  PageSizes = {1, 2}
  Nested <- MCNested
  Words <- MCWords
  Responses <- MCResponses
INVARIANT ExpandedShowsItsRow
