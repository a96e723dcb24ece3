SPECIFICATION Spec
CONSTANTS
  k1 = k1
  k2 = k2
  k3 = k3
  f1 = f1
  f2 = f2
  Keys <- MCKeys
  Fields <- MCFields
  NoEntry = NoEntry
  MaxTemplates = 2
  MaxPending = 2
  MaxLearned = 5
SYMMETRY Symmetry
INVARIANTS
  TableBounded
  WorkingSetKept
  ConsumerCurrent
  EventsChain
  EventsAccounted
PROPERTY
  ImplementsMap
