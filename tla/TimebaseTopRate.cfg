\* The last entry of the table, "~10us".
CONSTANTS
  WRAP = 65536
  CLOCK = 72000000
  PRESCALE = 2250
  LIMIT = 1097
  CONVERSION = 40
  Rates = {1600000, 3130434}
  FirstRate = 1600000
  MaxCall = 8
SPECIFICATION Spec
PROPERTY EvenSpacing
