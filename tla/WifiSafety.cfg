SPECIFICATION Spec
CONSTANTS
  Creds = {c1, c2}
  NoCred = NoCred
  RETRIES_PER_NET = 2
  DEGRADE_N = 2
  RSSI_WARN <- MCWarn
  RSSI_CRITICAL <- MCCritical
  Readings <- MCReadings
  EventLag = 3
  SlowJoin = TRUE
INVARIANTS
  WifiInv
  BitsFollowLink
  MonitorSettled
  NoMissedDisconnect
  NoticeInv
  SettledInv
PROPERTIES
  StaysOnline
  CountsDown
SYMMETRY Symmetry
