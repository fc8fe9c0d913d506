SPECIFICATION Spec
CONSTANTS
  Names = {fa, fb, fc}
  ENTRIES = 3
  num_blocks = 6
  Requests = {1, 2}
  Commands = {"create", "write", "format"}
INVARIANTS TypeOK NoOverlap InDataArea ReadsOwnData
