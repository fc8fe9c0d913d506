SPECIFICATION Spec
CONSTANTS
  Names = {fa, fb, fc}
  ENTRIES = 4
  num_blocks = 7
  Requests = {1, 2}
  Commands = {"create", "delete"}
INVARIANTS UniqueNames FindsRoom
PROPERTY NoFileLost
