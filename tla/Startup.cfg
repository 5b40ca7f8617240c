\* The real delays and tables; a SysTick period of 2 clocks, a button that is
\* debounced for 2 ticks, and all three kinds of display.
CONSTANTS
  BUTTONS = {"left"}
  DEBOUNCE = 2
  PERIOD = 2
  STARTUP = 1280
  Options = {"red", "green", "black"}
SPECIFICATION Spec
INVARIANTS DelayLongEnough TablesReadExactly LcdGetsItsTime RegulatorSettled AdcInOrder ReadyForLoop ClockAlive SlowedInTime
PROPERTIES FinishesOrHalts Boots
