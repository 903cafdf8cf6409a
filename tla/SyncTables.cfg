\* Two devices and the web pages; answers may be lost.
SPECIFICATION TablesSpec
CONSTANTS
    Devices = {d1, d2}
    Server = server
    Groups = {g1, g2, g3}
    Sites = {s1}
    Names = {n1, n2}
    Faulty = TRUE
    MaxOps = 5
    Engines = {e1, e2, e3}
    MaxName = 3
    MaxChanges = 4
SYMMETRY Symmetry
INVARIANTS TypeOK SitesHaveGroups EverySyncGoesThrough SyncedTablesAgree EnginesHold
PROPERTIES DeletionStays
CHECK_DEADLOCK FALSE
