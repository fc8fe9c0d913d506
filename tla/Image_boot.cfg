SPECIFICATION Spec
CONSTANTS
  KERNEL_LEN = 2
  BOOT_LEN = 2
  ModuleSets <- Lengths
  Sizes <- Numbers
  DigitOf <- Digits
  UnitOf <- Units
  WIDTH = 8
  KILO = 4
  minimumDiskSize = 6
  INFO_AT = 1
  DIR_AT = 2
  BOOT_AT = 3
  bufferSize = 3
  LOAD = 10
  BSS <- Bss
  Targets <- Places
  MEMORY = 18
  Faults = {"open", "write", "read", "flush"}
INVARIANTS SuccessIsWhole ModulesIntact SizeExact
CHECK_DEADLOCK FALSE
