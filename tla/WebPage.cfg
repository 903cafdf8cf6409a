\* Sessions: two tabs, two accounts, one request under way in each.
\* Icons: two sites, two updates between two renders.
SPECIFICATION PageSpec
CONSTANTS
  Tabs = {t1, t2}
  Users = {a, b}
  Requests = {q1}
  NoToken = NoToken
  NoUser = NoUser
  MaxTokens = 6
  MaxEvents = 3
  Sites = {1, 2}
  NoSite = NoSite
  MaxPaths = 2
  MaxUrls = 4
  MaxQueued = 2
  Anonymous = Anonymous
  Keys = {"locale", "background"}
  Apps = {"web", "client", "host"}
  IconEvents = 4
  PreferenceEvents = 5
  LayerEvents = 8
  TraceEvents = 6
SYMMETRY AnyTabAnyUser
INVARIANTS SessionHolds IconsHold PageHolds TracesHold
PROPERTIES ActsAreMeant
CHECK_DEADLOCK FALSE
