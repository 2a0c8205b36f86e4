\* One path and one key name, the user acting at every step.
CONSTANTS
  Files = {f1}
  KeyNames = {main}
  Default = main
  Secrets = {s1, s2}
  Texts = {t1, t2}
  NoKey = NoKey
  NoFile = NoFile
  Broken = Broken
  Absent = Absent
  BatchSize = 1
  MaxUserSteps = 3
  MaxCommands = 3
  Racing = TRUE
SPECIFICATION Spec
SYMMETRY Symmetry
\* Idle, out of commands and out of user steps, the system stops.
CHECK_DEADLOCK FALSE
INVARIANTS TypeOK FixComplete
PROPERTIES EditsSurvive SecuredStaging LastCopies Transparent
