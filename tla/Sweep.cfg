CONSTANTS
  N = 3
  MaxLost = 2
SPECIFICATION FairSpec
INVARIANTS
  TypeOK
  IInv
  FreshTrace
  OvrIsAboutThisSweep
  Ld3ShowsCapture
PROPERTIES
  ChannelSwitchedAtRest
  SweepsRecur
  ImplementsSweepSpec
