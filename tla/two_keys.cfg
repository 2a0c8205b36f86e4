\* Two paths and two key names: the loops over keys and over files.
CONSTANTS
  Files = {f1, f2}
  KeyNames = {main, alt}
  Default = main
  Secrets = {s1, s2}
  Texts = {t1}
  NoKey = NoKey
  NoFile = NoFile
  Broken = Broken
  Absent = Absent
  BatchSize = 1
  MaxUserSteps = 1
  MaxCommands = 2
  Racing = TRUE
SPECIFICATION Spec
SYMMETRY Symmetry
\* Idle, out of commands and out of user steps, the system stops.
CHECK_DEADLOCK FALSE
INVARIANTS UnlockDecrypts LockEncrypts TreeStaysClean
