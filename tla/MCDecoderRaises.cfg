SPECIFICATION Spec
CONSTANTS
  router = router
  domain = domain
  t1 = t1
  t2 = t2
  f1 = f1
  Sources <- MCSources
  KeyOf <- MCKeyOf
  Domains <- MCDomains
  Tids <- MCTids
  Fields <- MCFields
  NoEntry = NoEntry
  Versions = {5, 9}
  Seqs <- MCSeqs
  HeaderRates <- MCHeaderRates
  OptionSets <- MCOptionSets
  MaxTemplates = 1
  MaxPending = 1
  SeqModulus = 16
  MaxPlausibleGap = 4
  MaxReorder = 2
  ResyncAfter = 2
  MaxStreams = 1
  MaxDomains = 1
  MaxEvents = 2
  MaxRatio = 5
  MaxRecords = 1
  MaxSets = 1
  MaxPackets = 2
CHECK_DEADLOCK FALSE
INVARIANT NeverRaises
