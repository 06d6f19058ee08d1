CONSTANTS
  u1 = u1
  u2 = u2
  pOwn = pOwn
  pOpen = pOpen
  pNew = pNew
  host1 = host1
  vpn1 = vpn1
  svc1 = svc1
  cred1 = cred1
  cmd1 = cmd1
  prof1 = prof1
  prof2 = prof2
  Users = {u1, u2}
  Projects = {pOwn, pOpen, pNew}
  HostIds = {host1, host2}
  VpnIds = {vpn1, vpn2}
  ServiceIds = {svc1, svc2}
  CredentialIds = {cred1, cred2}
  CommandIds = {cmd1, cmd2}
  ProfileIds = {prof1, prof2}
  Handlers = {h1, h2}
  Records <- MCRecords
  NewProfiles <- MCNewProfiles
  Edits <- MCEdits
  Start <- MCStart
  Known <- MCKnown
  MaxRequests = 3
  Watched = {host1, host2}
  CacheTTL = 1
  HistoryWindow = 1
  HistoryMax = 2
  EntryIdleTTL = 2
  MaxGets = 3
  MaxTime = 3
  Never = Never
  NoEntry = NoEntry
  Unassigned = Unassigned
  NoHost = NoHost
  NoProfile = NoProfile
  Blank = Blank
  Absent = Absent
  Gone = Gone
  Junk = Junk
  Unread = Unread
  Idle = Idle
SYMMETRY Symmetric
SPECIFICATION ServerSpec
INVARIANTS
  OutsidersSeeNothing
  OutsidersChangeNothing
  BindingsResolve
  ProfilesComplete
  CascadeAfterHost
  OneConnection
  HistoryIsWindow
