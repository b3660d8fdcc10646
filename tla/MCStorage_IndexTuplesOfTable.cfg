SPECIFICATION Spec
CONSTANTS
  NoTable = NoTable
  EmptyCell = EmptyCell
  a = a
  b = b
  UpperA = UpperA
  UpperB = UpperB
  Num = Num
  Str = Str
  Null = Null
  Cells <- MCCells
  Upper <- MCUpper
  Numeric <- MCNumeric
  Capitalised <- MCToUpper
  AllCaps <- MCToUpper
  Schemas <- MCSchemas
  Rows <- MCRows
  Garbage <- MCGarbage
  MaxLines = 2
  Tables = {t1}
INVARIANT IndexTuplesOfTable
