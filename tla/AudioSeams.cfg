SPECIFICATION Spec
CONSTANTS
  Callers = {c1, c2}
  Samples = {0, 1}
  MaxLen = 8
  ChunkSize = 3
  N = 2
INVARIANTS
  SamplesKept
  NoClick
  InRange
