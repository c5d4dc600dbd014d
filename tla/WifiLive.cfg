SPECIFICATION FairSpec
CONSTANTS
  Creds = {c1}
  NoCred = NoCred
  RETRIES_PER_NET = 2
  DEGRADE_N = 1
  RSSI_WARN <- MCWarn
  RSSI_CRITICAL <- MCCritical
  Readings <- MCReadings
  EventLag = 2
  SlowJoin = TRUE
PROPERTIES
  Reconnects
