\* Three calls, two of them live at a time, one worker they wait for.
CONSTANTS
  Task = {a, b, c}
  MaxLive = 2
  Stages = 2
  Workers = 1
SPECIFICATION FairSpec
INVARIANTS
  TypeOK
PROPERTIES
  FinishedIsFinal
  TaskEnds
CHECK_DEADLOCK FALSE
