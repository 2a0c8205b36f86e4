\* Two collaborators, two runs of add-gpg-user, three steps of a user who stages,
\* removes and commits, the clone among them; and for the search every content of
\* .git-crypt/keys with two key names, an entry that is none and two secret keys.
SPECIFICATION CollaborateSpec
CONSTANTS
  Users = {u1, u2}
  Names = {n1, n2, stray}
  ValidNames = {n1, n2}
  Secrets = {s1, s2}
  Attributes = Attributes
  Rules = Rules
  Partial = Partial
  Absent = Absent
  Malformed = Malformed
  Opaque = Opaque
  MaxUserSteps = 3
  MaxCommands = 2
SYMMETRY Symmetry
INVARIANTS TypeOK CreatedIsCommitted KeysInClear
INVARIANTS NothingLeftOut NoKeyIsTrue FailuresTolerated KeysFitNames
INVARIANT PromiseKept
\* Idle, out of commands and out of user steps, the system stops.
CHECK_DEADLOCK FALSE
