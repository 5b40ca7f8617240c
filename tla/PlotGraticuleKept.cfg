CONSTANTS
  Columns = {32}
  RawSamples <- MCRawSamples
SPECIFICATION Spec
INVARIANT GraticuleKept
