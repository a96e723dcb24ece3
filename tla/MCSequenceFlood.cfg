SPECIFICATION FloodSpec
CONSTANTS
  s1 = s1
  s2 = s2
  s3 = s3
  s4 = s4
  Streams <- MCStreams
  ExporterOf <- MCExporterOf
  VersionOf <- MCVersionOf
  Seqs <- MCSeqs
  RecordCounts <- MCRecordCounts
  SeqModulus = 16
  MaxPlausibleGap = 4
  MaxReorder = 2
  ResyncAfter = 2
  MaxStreams = 2
  MaxObserved = 10
SYMMETRY Symmetry
CHECK_DEADLOCK FALSE
INVARIANTS
  TablesTogether
  GapsHaveARule
  ActiveStreamKept
  LossAnnounced
