CONSTANTS
  Columns = {0, 32, 33, 159}
  RawSamples <- MCRawSamples
SPECIFICATION Spec
INVARIANTS
  TypeOK
  NoStaleDots
  DotWithinOneRow
