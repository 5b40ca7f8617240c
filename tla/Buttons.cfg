CONSTANTS
  BUTTONS = {"left", "right"}
  Left = "left"
  Right = "right"
  CLOCK = 72000000
  PRESCALE = 2250
  LIMIT = 1097
  CONVERSION = 40
  SIGGEN_CLOCK = 36000000
  LEN = 144
  DEBOUNCE = 3
  MaxLoopTicks = 2
SPECIFICATION Spec
INVARIANTS
  TypeOK
  OneStepPerPress
  StatusLineCurrent
  TimebaseLabelTrue
PROPERTIES
  ImplementsPressSpec
