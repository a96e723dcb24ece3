SPECIFICATION TimeSpec
CONSTANTS
  None = None
  Milli = 2
  Day = 2
  Wrap = 13
  Skews <- MCSkews
  Templates <- MCTemplates
  Uptimes <- MCUptimes
  MaxLag = 6
  MaxFlows = 2
  Epoch = 10
  Horizon = 6
CHECK_DEADLOCK FALSE
INVARIANTS
  StartIsTrue
  UnsetClockIsNoTime
  DurationIsTrue
  OneReading
