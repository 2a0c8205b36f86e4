\* Three entries and an untracked file, with every mix of names; a file alone is
\* asked about, also under names that look like answers, with every pair of values.
SPECIFICATION ScanSpec
CONSTANTS
  Names <- AllNames
  Alone <- AnswerNames
  MaxTracked = 3
  MaxOthers = 1
  Written <- SomeValues
  Legal <- SomeLegal
INVARIANTS ScanTypeOK  ListWhole StatusResumes AttributesTrue StatusAgrees
\* The loop ends with the output.
CHECK_DEADLOCK FALSE
