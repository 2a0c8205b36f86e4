\* An input longer than the counter and shorter than MAX_CRYPT_BYTES.
SPECIFICATION Spec
CONSTANTS
  MaxLen = 17
  BufferLen = 3
  MemoryLen = 4
  BlockLen = 2
  CounterRange = 8
  Secrets = {s1, s2}
  Junk = Junk
SYMMETRY Symmetry
INVARIANT AcceptedFits
\* One clean and one smudge.
CHECK_DEADLOCK FALSE
