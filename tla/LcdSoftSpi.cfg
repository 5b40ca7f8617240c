CONSTANT Width = 4
SPECIFICATION Spec
INVARIANTS
  TypeOK
  InStep
PROPERTY ImplementsLcdWire
