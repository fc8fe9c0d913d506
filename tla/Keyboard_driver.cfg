SPECIFICATION KbdSpec
CONSTANTS
  BUFFER_SIZE = 2
  PortSize = 2
  scancode_table <- UsLayout
  Keys <- DriverKeys
INVARIANTS KbdTypeOK KeyStatesTrackKeys ModifiersReleased
PROPERTY RingIsQueue
