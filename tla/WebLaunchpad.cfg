\* One tab, two groups and three sites, one of them yet to be made.
SPECIFICATION Spec
CONSTANTS
  Tabs = {t1}
  Groups = {g1, g2}
  NoGroup = NoGroup
  MaxSites = 3
  MaxEvents = 4
SYMMETRY AnyTabAnyGroup
INVARIANTS LocksHold PageIsTrue
CHECK_DEADLOCK FALSE
