SPECIFICATION Spec
CONSTANTS
  Width = 6
  DisplayWidth = 3
  Samples <- MCSamples
INVARIANTS
  LatestInOrder
  DrawnToScale
