SPECIFICATION Spec
CONSTANTS
  Pids = {p1, p2}
  Names = {s}
  None = None
  MaxTicks = 3
  MaxPending = 3
  MaxServices = 2
SYMMETRY Interchangeable
CHECK_DEADLOCK FALSE
INVARIANTS
  PublishedCoherent
  PictureIsCore
  ImageKnown
  NothingWithheld
PROPERTIES
  SamplesInOrder
