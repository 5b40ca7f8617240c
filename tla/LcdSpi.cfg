CONSTANTS
  Bytes = {0, 1}
  FifoSize = 4
  TxeLevel = 2
SPECIFICATION Spec
INVARIANTS
  TypeOK
  InFlightMatchesLine
PROPERTIES
  CallsReturn
  ImplementsLcdWire
