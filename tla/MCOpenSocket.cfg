SPECIFICATION Spec
CONSTANTS
  Openers = {o1, o2}
  None = None
  Descriptors = 2
CHECK_DEADLOCK FALSE
INVARIANTS
  NothingLeft
  ServesAsAsked
  DefaultStarts
