\* Two threads with any operations on one server, the warm-up thread, an upgrade.
CONSTANTS
  Call = {a, b}
  Server = {s}
  Warm = Warm
  NoOne = NoOne
  Kinds <- AnyKind
  CheckAttempts = 4
  VersionBound = 3
SPECIFICATION FairSpec
INVARIANTS
  TypeOK
  WriteAppliedAtMostOnce
  OutcomeHonest
PROPERTIES
  ReplacedOnlyByReconnect
  CallsEnd
CHECK_DEADLOCK FALSE
