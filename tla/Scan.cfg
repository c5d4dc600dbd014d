SPECIFICATION Spec
CONSTANTS
  home = home
  work = work
  other = other
  NoSsid = NoSsid
  Cut = Cut
  Ssids = {home, work, other}
  CredCount = 4
  Creds <- MCCreds
  LongNames = {work}
  Readings <- MCReadings
  ScanMaxAps = 2
  MaxAir = 3
INVARIANTS
  BestOfSeen
  AnswerIsStrongest
  StrongestVisible
  JoinsStrongest
