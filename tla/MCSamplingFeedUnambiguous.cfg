SPECIFICATION Spec
CONSTANTS
  e1 = e1
  e2 = e2
  d1 = d1
  d2 = d2
  Exporters <- MCExporters
  Domains <- MCDomains
  HeaderKeys <- MCHeaderKeys
  HeaderRates <- MCHeaderRates
  OptionRecords <- MCOptionRecords
  MaxDomains = 2
  MaxNoted = 5
CHECK_DEADLOCK FALSE
INVARIANT
  WholeAnswerUnambiguous
