\* Two sources with a database each, two tables in the first; four
\* changes are enough to complete each kind of statement.
SPECIFICATION Spec
CONSTANTS
  s1 = s1
  s2 = s2
  d1 = d1
  d2 = d2
  t1 = t1
  t2 = t2
  None = None
  Sources = {s1, s2}
  Databases = {d1, d2}
  Tables = {t1, t2}
  SourceOf <- MCSourceOf
  DatabaseOf <- MCDatabaseOf
  Editable = {"refreshType"}
  MaxPicks = 3
  MaxEdits = 4
INVARIANTS TypeOK RowsOfFields ColumnsCounted SpinnersExplained
CHECK_DEADLOCK FALSE
