\* A write whose session was refused and whose second attempt loses its answer.
CONSTANTS
  Call = {a, b}
  Server = {s}
  Warm = Warm
  NoOne = NoOne
  Kinds <- WriteOnly
  CheckAttempts = 2
  VersionBound = 1
SPECIFICATION Spec
INVARIANTS
  LostWriteIsReported
CHECK_DEADLOCK FALSE
