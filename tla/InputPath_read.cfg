SPECIFICATION Spec
CONSTANTS
  BUFFER_SIZE = 2
  PortSize = 2
  scancode_table <- UsLayout
  Keys <- LineKeys
  Counts = {0, 1, 2}
  UserContexts = {u1}
  StartContext = u1
  KernelContext = kernel
  NoContext = none
  REGISTERS_CANT = 1
INVARIANTS TypeOK RingConsistent OneLinePerRead
PROPERTY InputIsQueue
