SPECIFICATION Spec
CONSTANTS
  Datagrams <- MCDatagrams
  Ie <- MCIe
  Cuts = {0, 1, 2, 3, 5, 8, 12}
CHECK_DEADLOCK FALSE
INVARIANTS
  ReadsInside
  FindsWhatIsThere
PROPERTIES
  EachByteOnce
  EveryStepGetsOn
  Terminates
