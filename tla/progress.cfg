\* Every command comes to its end, on two paths.
CONSTANTS
  Files = {f1, f2}
  KeyNames = {main}
  Default = main
  Secrets = {s1}
  Texts = {t1}
  NoKey = NoKey
  NoFile = NoFile
  Broken = Broken
  Absent = Absent
  BatchSize = 2
  MaxUserSteps = 1
  MaxCommands = 2
  Racing = TRUE
SPECIFICATION FairSpec
\* Idle, out of commands and out of user steps, the system stops.
CHECK_DEADLOCK FALSE
PROPERTIES CommandsFinish
