\* Preferences: two accounts, an engine of one of them, two more to come.
\* Accounts: two besides the anonymous one.
\* Launchpad: two cards of which the search finds one, two icon files.
SPECIFICATION PageSpec
CONSTANTS
  Users = {u1, u2}
  Names = {n1, n2}
  Sections = {g}
  MaxEngines = 2
  MaxEvents = 2
  Accounts = {a, b}
  Anonymous = Anonymous
  MaxDialogs = 3
  Folders = {1, 2}
  Leaves = {3}
  Labels = {1, 2}
  Instances = {1, 2}
  Cards = {c, d}
  Found = {c}
  NoSite = NoSite
  Files = {f1, f2}
  NoFile = NoFile
  MaxAlerts = 1
  AccountEvents = 2
  DialogEvents = 7
  MenuEvents = 5
  SettingEvents = 4
  RunEvents = 5
  LayerEvents = 5
  IconEvents = 3
SYMMETRY Alike
INVARIANTS AccountsHold WindowHolds LayersHold RunsHold
CHECK_DEADLOCK FALSE
