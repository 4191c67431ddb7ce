SPECIFICATION AutogradSpec
CONSTANTS
  BlockM = 2
  BlockN = 2
  RowPad = 2
  Launches <- MCLaunches
  Backwards <- MCBackwards
INVARIANTS
  TypeOK
  GradientExact
PROPERTIES
  AllWritten
  ImplementsAttention
  DStaysRight
