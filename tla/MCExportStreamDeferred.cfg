SPECIFICATION Spec
CONSTANTS
  s1 = s1
  Streams <- MCStreams
  ExporterOf <- MCExporterOf
  VersionOf <- MCVersionOf
  Starts <- MCStarts
  Widths <- MCWidths
  Deferral = TRUE
  SeqModulus = 64
  MaxPlausibleGap = 4
  MaxReorder = 3
  ResyncAfter = 3
  MaxStreams = 1
  MaxSent = 5
  MaxRestarts = 1
  MaxDelivered = 6
  MaxLate = 0
CHECK_DEADLOCK FALSE
INVARIANT DeferredIsNotLoss
