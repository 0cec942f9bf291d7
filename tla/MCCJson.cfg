CONSTANTS
  Node = {n1, n2, n3, n4}
  Nil = Nil
  IntMax = 9
  NestingLimit = 2
  Scalar <- MCScalar
  Name <- MCName
  Asked <- MCAsked
  Number <- MCNumber
  Given <- MCGiven
  MaxRefs = 1
  MaxHeld = 2
  MaxSpare = 4
SPECIFICATION Spec
SYMMETRY MCSymmetry
INVARIANTS WellLinked NothingLost CopyIsFaithful RoundTrip CutTextLeavesNothing BufferSuffices StatsLeaveNothing
PROPERTY EditsOneList
