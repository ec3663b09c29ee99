SPECIFICATION Spec
CONSTANTS
  f = f
  g = g
  o = o
  None = None
  Torn = Torn
  MaxMounted = 4
  Base = 3
  MaxServers = 4
  Entries <- MCEntries
  Obsolete = {o}
INVARIANTS TypeOK UsedStayMounted PathsLeadHome NoFreedHandler LogIsMounted NetworkForServers
  UpdaterOwnsDevices RecordedVersionInstalled
CONSTRAINT CardOrServers
