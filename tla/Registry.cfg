SPECIFICATION FairSpec
CONSTANTS
  manager = manager
  event = event
  main = main
  dump = dump
  wifi = wifi
  off = off
  connecting = connecting
  connected = connected
  Modules = {wifi}
  States = {off, connecting, connected}
  Clients = {manager, event, main, dump}
  Dumper = dump
  Length <- MCLength
  Calls <- MCCalls
  Absent = Absent
  Torn = Torn
  None = None
INVARIANTS
  EntriesWhole
PROPERTIES
  RegisterSpec
  CallsReturn
