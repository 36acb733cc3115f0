\* Result sets of none to five rows in batches of one to three rows.
CONSTANTS
  RowCounts = {0, 1, 3, 5}
  BatchSizes = {1, 2, 3}
  Readers = {"fetchall_pandas", "PrintResults"}
SPECIFICATION Spec
INVARIANT CompleteUnlessFailed
PROPERTIES CallEnds ImplementsStream
