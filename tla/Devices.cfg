\* Icons: two devices, two sites and the web pages; one site has an icon to begin with.
\* Launchpad: a device with an account and without, a group and a site of each.
SPECIFICATION DevicesSpec
CONSTANTS
  s1 = s1
  w1 = w1
  p = p
  Devices = {d1, d2}
  Sites = {s1, s2}
  DeskFiles = {p, e}
  WebFiles = {w1, w2}
  EngineFiles = {e}
  NoIcon = NoIcon
  Begun <- OneSite
  Racing = FALSE
  MaxEdits = 2
  MaxFaults = 1
  Users = {anon, u}
  Anon = anon
  Names = {n1, n2}
  NoName = NoName
  MaxGroups = 3
  MaxSites = 3
  MaxEvents = 2
SYMMETRY Alike
INVARIANTS IconFilesHold LaunchpadHolds
CHECK_DEADLOCK FALSE
