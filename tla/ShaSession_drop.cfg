SPECIFICATION Spec
CONSTANTS
  c1 = c1
  c2 = c2
  Contexts <- ContextSet
  SmallSize = 256
  FirstCap = 512
  MaxAccum = 4152
  ChunkSize = 65536
  Lengths <- LengthSet
  Totals <- TotalSet
  MaxUpdates = 3
  MaxBegins = 2
SYMMETRY ContextSymmetry
INVARIANTS
  AllBytesStreamed
\* The clients stop at the bounds MaxUpdates and MaxBegins.
CHECK_DEADLOCK FALSE
