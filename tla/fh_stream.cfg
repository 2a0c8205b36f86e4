\* Buffers of four bytes, three of them for output, strings that pass them by
\* from three bytes on, pipes of two, and enough bytes to fill all of them.
SPECIFICATION Spec
CONSTANTS
  MaxPut = 7
  BufferSize = 4
  Direct = 3
  Capacity = 2
INVARIANTS TypeOK StatusTellsAll
PROPERTY ImplementsPipe
\* One child; git-crypt may also wait for it while it waits for git-crypt.
CHECK_DEADLOCK FALSE
