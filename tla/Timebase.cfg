\* A scaled-down TIM15: slow rates 2 and 4 with the prescaler, fast ones 6, 11
\* and 24 without it; 24 leaves the ADC no spare clock.
CONSTANTS
  WRAP = 16
  CLOCK = 72
  PRESCALE = 3
  LIMIT = 5
  CONVERSION = 3
  Rates = {2, 4, 6, 11, 24}
  FirstRate = 4
  MaxCall = 4
SPECIFICATION Spec
INVARIANTS NoStarvation RateHonoured
PROPERTY EvenSpacing
