\* No name that starts with a blank, or has a word like git's.
SPECIFICATION ScanSpec
CONSTANTS
  Names <- OwnNames
  Alone = {}
  MaxTracked = 2
  MaxOthers = 0
  Written = {}
  Legal = {}
INVARIANT StatusWhole
\* The loop ends with the output.
CHECK_DEADLOCK FALSE
