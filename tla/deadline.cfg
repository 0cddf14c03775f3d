SPECIFICATION Spec
CONSTANTS
  Timeout = 2
  Retries = 2
  LoadTime = 17
  Delay = 2
  ChanCap = 2
  Grace = 4
  MaxStrangers = 3
INVARIANTS SilenceIs504 EndsWithContext FallbackIdentifies Paced DrainedBeforeClose
PROPERTIES Exits
CHECK_DEADLOCK FALSE
