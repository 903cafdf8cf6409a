\* A fresh server, or one with its administrator and a user; two tabs, two requests at once.
SPECIFICATION Spec
CONSTANTS
  MaxUuids = 3
  Names = {1, 2, 3}
  Passwords = {1, 2}
  Tabs = {t1, t2}
  Slots = {s1, s2}
  Nobody = Nobody
  MaxEvents = 2
SYMMETRY Alike
INVARIANTS AccountsAreSound ActsAreTold
CHECK_DEADLOCK FALSE
