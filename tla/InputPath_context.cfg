SPECIFICATION FairSpec
CONSTANTS
  BUFFER_SIZE = 1
  PortSize = 1
  scancode_table <- UsLayout
  Keys <- SnapshotKeys
  Counts = {1, 2}
  UserContexts = {u1, u2}
  StartContext = u1
  KernelContext = kernel
  NoContext = none
  REGISTERS_CANT = 2
INVARIANTS RegsNotTorn ProgramInterruptible
PROPERTIES KeysServed ReadReturns
