\* Three entries through pipes that hold one message, so that every process
\* waits for every other.
SPECIFICATION FairSpec
CONSTANTS
  Count = 3
  Capacity = 1
INVARIANTS TypeOK ListComplete RecordsMatch
PROPERTY AllEnd
\* It stops when all processes have ended.
CHECK_DEADLOCK FALSE
