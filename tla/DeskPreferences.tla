--------------------------- MODULE DeskPreferences ---------------------------
(***************************************************************************)
(* What the launchpad page of the desktop client remembers of its user:    *)
(* the search engine in use and the groups that are folded.  An engine is  *)
(* in use twice, as the default among the user's rows in the database and  *)
(* as one value in localStorage for all users of the device; the page      *)
(* settles between them whenever it loads, and it loads again whenever the *)
(* value changes.                                                          *)
(***************************************************************************)
EXTENDS Naturals, FiniteSets, FiniteSetsExt

CONSTANTS
    Users,       \* accounts on the device, the anonymous one among them
    Names,       \* names of the users' own engines
    Sections,    \* groups of sites, which can be folded
    MaxEngines,  \* bound: engines of all users, deleted ones included
    MaxEvents    \* bound: acts of the user, synchronisations, failures

ASSUME DeskPreferencesAssumption == MaxEngines \in Nat /\ MaxEvents \in Nat

VARIABLES
    rows,      \* [Own -> Row]               search_engines
    default,   \* [Users -> Own \cup {0}]    its rows with is_default = 1
    active,    \* Users                      activeUser
    engine,    \* Engines                    activeEngineUuid, and its copy in localStorage
    list,      \* SUBSET Listed              allSearchEngines
    loading,   \* BOOLEAN                    isLoading
    modal,     \* [open, editing]            SearchEngineManagementModal
    fold,      \* [key, groups]              usePersistedCollapsedGroups
    stored,    \* [Users -> SUBSET Sections] its copies in localStorage
    calls,     \* SUBSET Call                handlers that wait for a command
    chosen,    \* Engines \cup {0}  history: what the user chose last
    raced,     \* BOOLEAN           history: something overlapped that choice
    crossed,   \* BOOLEAN           history: something overlapped the last load
    folded,    \* [Users -> SUBSET Sections] history: what each user folded
    events     \* Nat

Remembered == <<fold, stored, folded>>
vars == <<rows, default, active, engine, list, loading, modal, Remembered,
          calls, chosen, raced, crossed, events>>

-----------------------------------------------------------------------------
(* Values                                                                  *)

Bing     == 1
Google   == 2
BuiltIn  == {Bing, Google}
Own      == 3..(2 + MaxEngines)
Engines  == BuiltIn \cup Own
Row      == [live : BOOLEAN, owner : Users, name : Names]
Listed   == [engine : Engines, name : Names \cup {"built in"}]
Free     == {e \in Own : ~rows[e].live}

RowsOf(u) ==
    {[engine |-> e, name |-> "built in"] : e \in BuiltIn} \cup
    {[engine |-> e, name |-> rows[e].name] : e \in {f \in Own : rows[f].live /\ rows[f].owner = u}}

Known(l) == {r.engine : r \in l}

(* What the page shows as in use.                                          *)
ActiveSearchEngine == IF engine \in Known(list) THEN engine ELSE Bing

NoModal == [open |-> FALSE, editing |-> 0]

(* A handler: its user and the engine in use as it saw them, the engine it *)
(* is about, and what it read.  An unmounted page no longer takes answers. *)
NewCall(op) ==
    [op |-> op, at |-> "sent", user |-> active, saw |-> engine, about |-> 0,
     name |-> "built in", rows |-> {}, wasActive |-> FALSE, mounted |-> TRUE]

Event == events < MaxEvents /\ events' = events + 1
Overlaps == calls # {}

(* A load takes the modal away, and what it was editing.                   *)
Loads(rest, u, e) ==
    /\ calls' = rest \cup {[NewCall("load") EXCEPT !.user = u, !.saw = e]}
    /\ loading' = TRUE
    /\ modal' = [modal EXCEPT !.editing = 0]

(* A changed engine makes a new loadSearchEngines, a new loadData, a load. *)
Uses(rest, e) ==
    /\ engine' = e
    /\ IF e # engine THEN Loads(rest, active, e)
       ELSE calls' = rest /\ UNCHANGED <<loading, modal>>

(* useLocalStorage and the page's state before its first load has ended.   *)
Init ==
    /\ rows \in [Own -> {[live |-> FALSE, owner |-> u, name |-> n] : u \in Users, n \in Names}
                        \cup {[live |-> TRUE, owner |-> u, name |-> n] : u \in Users, n \in Names}]
    /\ \A e \in Own : rows[e].live <=> e < 4
    /\ \A e \in Own : ~rows[e].live => rows[e] = [rows[3] EXCEPT !.live = FALSE]
    /\ active \in Users
    /\ \E e \in Own \cup {0} :
          /\ e # 0 => rows[e].live
          /\ default = [u \in Users |-> IF e # 0 /\ rows[e].owner = u THEN e ELSE 0]
    /\ engine \in BuiltIn
    /\ list = {} /\ loading = TRUE /\ modal = NoModal
    /\ stored = [u \in Users |-> {}] /\ folded = stored
    /\ fold = [key |-> active, groups |-> stored[active]]
    /\ calls = {NewCall("load")}
    /\ chosen = 0 /\ raced = FALSE /\ crossed = FALSE /\ events = 0

-----------------------------------------------------------------------------
(* Loading: the engines, then the default, then what is in use             *)

ReadEngines(c) ==
    /\ c.op \in {"load", "refresh"} /\ c.at = "sent"
    /\ calls' = (calls \ {c}) \cup {[c EXCEPT !.rows = RowsOf(c.user), !.at = "engines"]}
    /\ crossed' = (crossed /\ ~(c.op = "load" /\ calls = {c} /\ c.user = active /\ c.saw = engine))
    /\ UNCHANGED <<rows, default, active, engine, list, loading, modal, Remembered, chosen, raced, events>>

ReadDefault(c) ==
    /\ c.at = "engines"
    /\ calls' = (calls \ {c}) \cup {[c EXCEPT !.about = default[c.user], !.at = "default"]}
    /\ raced' = (raced \/ \E d \in calls : d.op \in {"choose", "delete"})
    /\ UNCHANGED <<rows, default, active, engine, list, loading, modal, Remembered, chosen, crossed, events>>

(* The database's default wins; without one, what is in use stays if it    *)
(* was known when the load began.                                          *)
InUse(c) ==
    IF c.about # 0 THEN c.about
    ELSE IF c.saw \notin Known(c.rows) THEN Bing
    ELSE engine

LoadSearchEngines(c) ==
    /\ c.at = "default"
    /\ list' = c.rows
    /\ Uses((calls \ {c}) \cup (IF c.op = "load" THEN {[NewCall("load") EXCEPT !.at = "loaded", !.saw = 0]} ELSE {}), InUse(c))
    /\ UNCHANGED <<rows, default, active, Remembered, chosen, raced, crossed, events>>

LoadEnds(c) ==
    /\ c.at = "loaded"
    /\ calls' = calls \ {c}
    /\ loading' = FALSE
    /\ UNCHANGED <<rows, default, active, engine, list, modal, Remembered, chosen, raced, crossed, events>>

-----------------------------------------------------------------------------
(* The dialog of engines                                                   *)

CanManage == ~loading /\ modal.open

OpenModal ==
    /\ ~loading /\ ~modal.open
    /\ modal' = [NoModal EXCEPT !.open = TRUE]
    /\ UNCHANGED <<rows, default, active, engine, list, loading, Remembered, calls, chosen, raced, crossed, events>>

CloseModal ==
    /\ CanManage
    /\ modal' = NoModal
    /\ UNCHANGED <<rows, default, active, engine, list, loading, Remembered, calls, chosen, raced, crossed, events>>

HandleActiveEngineChange(e) ==
    /\ CanManage /\ modal.editing = 0
    /\ e \in Known(list)
    /\ Event
    /\ Uses(calls \cup {[NewCall("choose") EXCEPT !.about = e, !.saw = 0]}, e)
    /\ chosen' = e
    /\ raced' = (crossed \/ Overlaps)
    /\ crossed' = (crossed \/ Overlaps)
    /\ UNCHANGED <<rows, default, active, list, Remembered>>

(* One default among the user's rows; a built-in engine is nobody's.       *)
NewDefault(c) ==
    IF c.about \in Own /\ rows[c.about].live /\ rows[c.about].owner = c.user THEN c.about ELSE 0

SetActiveSearchEngine(c) ==
    /\ c.op = "choose"
    /\ default' = [default EXCEPT ![c.user] = NewDefault(c)]
    /\ calls' = calls \ {c}
    /\ UNCHANGED <<rows, active, engine, list, loading, modal, Remembered, chosen, raced, crossed, events>>

HandleEditClick(e) ==
    /\ CanManage /\ modal.editing = 0
    /\ e \in Known(list) \ BuiltIn
    /\ modal' = [modal EXCEPT !.editing = e]
    /\ UNCHANGED <<rows, default, active, engine, list, loading, Remembered, calls, chosen, raced, crossed, events>>

CancelEdit ==
    /\ CanManage /\ modal.editing # 0
    /\ modal' = [modal EXCEPT !.editing = 0]
    /\ UNCHANGED <<rows, default, active, engine, list, loading, Remembered, calls, chosen, raced, crossed, events>>

IsDuplicate(n) == \E r \in list : r.name = n /\ r.engine # modal.editing

HandleSubmit(n) ==
    /\ CanManage
    /\ ~IsDuplicate(n)
    /\ modal.editing = 0 => Free # {}
    /\ Event
    /\ calls' = calls \cup {[NewCall("save") EXCEPT !.about = modal.editing, !.name = n]}
    /\ crossed' = (crossed \/ Overlaps)
    /\ UNCHANGED <<rows, default, active, engine, list, loading, modal, Remembered, chosen, raced>>

(* UNIQUE(user_uuid, name): the statement fails, an alert is shown.        *)
Taken(c) == \E e \in Own : rows[e].live /\ rows[e].owner = c.user /\ rows[e].name = c.name /\ e # c.about

(* onEnginesUpdate, as it was when the handler began.                      *)
Refresh(c) == IF c.mounted THEN {[NewCall("refresh") EXCEPT !.user = c.user, !.saw = c.saw]} ELSE {}

SaveSearchEngine(c) ==
    /\ c.op = "save"
    /\ \/ /\ Taken(c)
          /\ calls' = calls \ {c}
          /\ UNCHANGED <<rows, modal>>
       \/ /\ ~Taken(c)
          /\ IF c.about = 0
             THEN Free # {} /\ rows' = [rows EXCEPT ![Min(Free)] = [live |-> TRUE, owner |-> c.user, name |-> c.name]]
             ELSE rows' = [rows EXCEPT ![c.about].name = IF rows[c.about].owner = c.user THEN c.name ELSE @]
          /\ calls' = (calls \ {c}) \cup Refresh(c)
          /\ modal' = IF c.mounted THEN [modal EXCEPT !.editing = 0] ELSE modal
    /\ UNCHANGED <<default, active, engine, list, loading, Remembered, chosen, raced, crossed, events>>

(* Confirmed: whether the engine is in use is decided before the answer.   *)
HandleDelete(e) ==
    /\ CanManage /\ modal.editing = 0
    /\ e \in Known(list) \ BuiltIn
    /\ Event
    /\ calls' = calls \cup {[NewCall("delete") EXCEPT !.about = e, !.wasActive = ActiveSearchEngine = e]}
    /\ crossed' = (crossed \/ Overlaps)
    /\ raced' = (raced \/ Overlaps)
    /\ UNCHANGED <<rows, default, active, engine, list, loading, modal, Remembered, chosen>>

DeleteSearchEngine(c) ==
    /\ c.op = "delete"
    /\ rows' = [rows EXCEPT ![c.about].live = FALSE]
    /\ default' = [u \in Users |-> IF default[u] = c.about THEN 0 ELSE default[u]]
    /\ chosen' = IF chosen = c.about THEN 0 ELSE chosen
    /\ LET rest  == (calls \ {c}) \cup Refresh(c)
           reset == [NewCall("choose") EXCEPT !.user = c.user, !.about = Bing, !.saw = 0]
       IN IF ~c.wasActive THEN calls' = rest /\ UNCHANGED <<engine, loading, modal>>
          ELSE IF c.mounted THEN Uses(rest \cup {reset}, Bing)
          ELSE calls' = rest \cup {reset} /\ UNCHANGED <<engine, loading, modal>>
    /\ UNCHANGED <<active, list, Remembered, raced, crossed, events>>

-----------------------------------------------------------------------------
(* Folding                                                                 *)

(* The second effect: written under the key it was read under, or not.     *)
Persisted(f, u) == IF f.key = u THEN [stored EXCEPT ![u] = f.groups] ELSE stored

CollapsedGroups == IF fold.key = active THEN fold.groups ELSE {}

Folds(g) ==
    /\ ~loading
    /\ Event
    /\ fold' = [fold EXCEPT !.groups = IF g \in @ THEN @ \ {g} ELSE @ \cup {g}]
    /\ stored' = Persisted(fold', active)
    /\ folded' = [folded EXCEPT ![active] = IF g \in CollapsedGroups THEN @ \ {g} ELSE @ \cup {g}]
    /\ UNCHANGED <<rows, default, active, engine, list, loading, modal, calls, chosen, raced, crossed>>

(* Another user's key: the first effect reads what is stored under it, the *)
(* second waits until that has become the state.                           *)
Restores(u) ==
    /\ fold' = [key |-> u, groups |-> stored[u]]
    /\ stored' = Persisted(fold', u)
    /\ UNCHANGED folded

-----------------------------------------------------------------------------
(* Around the page                                                         *)

(* Another user, whose rows and folds the page loads.                      *)
SwitchActiveUser(u) ==
    /\ u # active
    /\ Event
    /\ active' = u
    /\ Loads(calls, u, engine)
    /\ Restores(u)
    /\ chosen' = 0
    /\ crossed' = (crossed \/ Overlaps)
    /\ raced' = Overlaps
    /\ UNCHANGED <<rows, default, engine, list>>

(* The page is left and entered again: its state is what was stored.       *)
Reenter ==
    /\ Event
    /\ calls' = {[c EXCEPT !.mounted = FALSE] : c \in {d \in calls : d.op \in {"choose", "save", "delete"}}}
                \cup {NewCall("load")}
    /\ list' = {} /\ loading' = TRUE /\ modal' = NoModal
    /\ Restores(active)
    /\ crossed' = (crossed \/ Overlaps)
    /\ raced' = (raced \/ Overlaps)
    /\ UNCHANGED <<rows, default, active, engine, chosen>>

(* A synchronisation brings a row of another device, maybe the default,    *)
(* and a new dataVersion.                                                  *)
Synced(n, d) ==
    /\ Free # {} /\ ~Taken([user |-> active, name |-> n, about |-> 0])
    /\ d => default[active] = 0
    /\ Event
    /\ rows' = [rows EXCEPT ![Min(Free)] = [live |-> TRUE, owner |-> active, name |-> n]]
    /\ default' = [default EXCEPT ![active] = IF d THEN Min(Free) ELSE @]
    /\ Loads(calls, active, engine)
    /\ chosen' = IF d THEN 0 ELSE chosen
    /\ crossed' = (crossed \/ Overlaps)
    /\ raced' = (raced \/ Overlaps)
    /\ UNCHANGED <<active, engine, list, Remembered>>

(* A command fails: of a load, the page shows that it loads for good; the  *)
(* others leave things as they are.                                        *)
CallFails(c) ==
    /\ Event
    /\ c.at # "loaded"
    /\ calls' = calls \ {c}
    /\ crossed' = (crossed \/ c.op # "save")
    /\ raced' = (raced \/ c.op \in {"choose", "delete"})
    /\ UNCHANGED <<rows, default, active, engine, list, loading, modal, Remembered, chosen>>

-----------------------------------------------------------------------------
(* The specification                                                       *)

Next ==
    \/ OpenModal \/ CloseModal \/ CancelEdit \/ Reenter
    \/ \E e \in Engines : HandleActiveEngineChange(e) \/ HandleEditClick(e) \/ HandleDelete(e)
    \/ \E n \in Names : HandleSubmit(n) \/ \E d \in BOOLEAN : Synced(n, d)
    \/ \E g \in Sections : Folds(g)
    \/ \E u \in Users : SwitchActiveUser(u)
    \/ \E c \in calls :
        \/ ReadEngines(c) \/ ReadDefault(c) \/ LoadSearchEngines(c) \/ LoadEnds(c)
        \/ SetActiveSearchEngine(c) \/ SaveSearchEngine(c) \/ DeleteSearchEngine(c)
        \/ CallFails(c)

Spec == Init /\ [][Next]_vars

-----------------------------------------------------------------------------
(* Properties                                                              *)

(* Every variable has its type; a default is a live row of its user.       *)
TypeOK ==
    /\ rows \in [Own -> Row]
    /\ default \in [Users -> Own \cup {0}]
    /\ \A u \in Users : default[u] # 0 => rows[default[u]].live /\ rows[default[u]].owner = u
    /\ active \in Users /\ engine \in Engines
    /\ list \subseteq Listed /\ loading \in BOOLEAN
    /\ modal.open \in BOOLEAN /\ modal.editing \in Own \cup {0}
    /\ fold.key \in Users /\ fold.groups \subseteq Sections
    /\ stored \in [Users -> SUBSET Sections]
    /\ chosen \in Engines \cup {0} /\ raced \in BOOLEAN /\ crossed \in BOOLEAN

(* At rest, if nothing overlapped the last load nor the choice before it,  *)
(* the page lists the rows of its user and uses one of them or a built-in  *)
(* engine: the default, if the user has one.                               *)
EngineIsTheUsers ==
    (calls = {} /\ ~crossed /\ ~raced) =>
        /\ list = RowsOf(active)
        /\ engine \in Known(list)
        /\ default[active] # 0 => engine = default[active]

(* At rest, the engine in use is the one chosen last, if no other command  *)
(* overlapped that choice and no load read the default before the choice   *)
(* was written.                                                            *)
ChoiceIsKept == (calls = {} /\ ~raced /\ chosen # 0) => engine = chosen

(* What a user folded stays folded for that user, whoever comes between,   *)
(* and nobody else's groups are folded by it.                              *)
FoldingStaysWithItsUser ==
    /\ stored = folded
    /\ CollapsedGroups = folded[active]
=============================================================================
