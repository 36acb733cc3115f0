SPECIFICATION SchemaSpec
CONSTANTS
  Columns <- ServerColumns
  MaxColumns = 3
INVARIANTS PointersAreGood CastsAreGood
CHECK_DEADLOCK FALSE
