\* Up to eight messages; they are lost and repeated, or also overtaken; mallocs fail.
SPECIFICATION Spec
CONSTANTS
  MAX_BLOCK1_SIZE = 8
  BlockSize = 2
  Bodies <- MCBodies
  Failing = {"data", "append"}
  MaxMid = 8
INVARIANTS BufferIsPrefix WholeBody NeverCopiesNull
CHECK_DEADLOCK FALSE
