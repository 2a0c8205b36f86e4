\* A run that fails or is killed, and the same run again.
SPECIFICATION Spec
CONSTANTS
  Users = {u1, u2}
  Secrets = {s1, s2}
  Attributes = Attributes
  Rules = Rules
  Partial = Partial
  Malformed = Malformed
  Opaque = Opaque
  Names = {n1}
  ValidNames = {n1}
  Absent = Absent
  MaxUserSteps = 0
  MaxCommands = 2
SYMMETRY Symmetry
INVARIANT GivenCanUnlock
\* Idle, out of commands and out of user steps, the system stops.
CHECK_DEADLOCK FALSE
