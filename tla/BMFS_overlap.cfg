SPECIFICATION Spec
CONSTANTS
  Names = {fa, fb, fc}
  ENTRIES = 4
  num_blocks = 10
  Requests = {1, 2, 3}
  Commands = {"create", "delete"}
INVARIANT NoOverlap
