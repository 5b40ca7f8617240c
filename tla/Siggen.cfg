\* A table of 3 samples; siggen_arr gives 11, 5, 2 and, at its lower limit, 1.
CONSTANTS
  WRAP = 16
  SIGGEN_CLOCK = 36
  LEN = 3
  SETUP_ARR = 5
  Freqs = {1, 2, 4, 12}
SPECIFICATION Spec
INVARIANTS InPhase NotInTheWeeds
PROPERTY ImplementsWaveSpec
