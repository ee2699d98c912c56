SPECIFICATION Spec
CONSTANTS
  Texts = {t1, t2}
  MaxNoteId = 3
CHECK_DEADLOCK FALSE
INVARIANTS TypeOK RowsAreStored
