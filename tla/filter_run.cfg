\* Paths of up to three characters, all those with a meaning to a shell among
\* them; the sizes of the streams scaled down to a counter of 8 bytes in blocks
\* of 2, a buffer that does not divide the memory, inputs on both sides of every
\* limit.
SPECIFICATION FilterRunSpec
CONSTANTS
  MaxLen = 17
  BufferLen = 3
  MemoryLen = 4
  BlockLen = 2
  CounterRange = 8
  Secrets = {s1, s2}
  Junk = Junk
  Zero = Zero
  Paths <- MCPaths
SYMMETRY Symmetry
INVARIANTS TypeOK PadsFresh RoundTrip SmudgeFaithful
INVARIANTS ConfiguredRuns KeyFaithful EndToEnd
\* One clean, and one smudge or diff.
CHECK_DEADLOCK FALSE
