CONSTANTS
  Keys = {k1, k2}
  Settings <- MCSettings
  Junk = {j1}
  Tabs = {a, b}
  NoKey = NoKey
  WrongKey = WrongKey
  NoConfig = NoConfig
  Torn = Torn
  MaxCrashes = 1
  MaxJunk = 1
  proj = proj
  vpnA = vpnA
  vpnB = vpnB
  host1 = host1
  service1 = service1
  credential1 = credential1
  profileA = profileA
  Projects = {proj}
  Old <- MCOld
  Stored <- MCStored
  Bindings <- MCBindings
  MaxSaves = 2
  Plans <- MCPlans
  Blank = Blank
  Kept = Kept
  Typed = Typed
  NoId = NoId
  NoProfile = NoProfile
  NoContainer = NoContainer
  Gone = Gone
  ann = ann
  ben = ben
  Pages = {a, b}
  People = {ann, ben}
  Roster <- MCRoster
  Grants = {"read"}
  MaxCalls = 2
  MaxTokens = 2
  MaxEdits = 1
  NoCall = NoCall
  NoToken = NoToken
  NoOne = NoOne
  Removed = Removed
  c1 = c1
  v1 = v1
  h1 = h1
  s1 = s1
  Items = {c1, v1, h1, s1}
  KindOf <- MCKindOf
  RefsOf <- MCRefsOf
  Extents <- MCExtents
  MaxImports = 2
  MaxLists = 3
  Home = Home
  Unassigned = Unassigned
  NoFile = NoFile
  NoList = NoList
SPECIFICATION FairScreens
CHECK_DEADLOCK FALSE
INVARIANTS
  DataReadable
  ContainerUsesBinding
  OffersMatchServer
  ImportIsFaithful
  ProfileShownIsOwn
PROPERTIES
  HandedConfigKept
  UnsealNeedsThreshold
  ImplementsSeal
  OnlyTypedChanges
  LeavesOnlyDeleted
  UnsealsEventually
