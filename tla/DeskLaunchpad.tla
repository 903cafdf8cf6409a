---------------------------- MODULE DeskLaunchpad ----------------------------
(***************************************************************************)
(* The launchpad page of the desktop client over the client's database:    *)
(* its sites and groups, the form of a site, the dialog that manages       *)
(* groups and imports bookmarks, the claiming of anonymous data, and the   *)
(* switch to another user under all of them.  Commands to the database are *)
(* answered in any order; a handler goes on with what it saw when it began.*)
(*                                                                         *)
(* Search engines and what the page remembers are in DeskPreferences.      *)
(***************************************************************************)
EXTENDS Naturals, FiniteSets, Sequences, SequencesExt, FiniteSetsExt

CONSTANTS
    Users,       \* accounts on the device, Anon among them
    Anon,        \* ANONYMOUS_USER_UUID
    Names,       \* names of groups
    NoName,      \* of a group that is not there
    MaxGroups,   \* bound: groups, deleted ones included
    MaxSites,    \* bound: sites, deleted ones included
    MaxEvents    \* bound: commands begun by the user, switches, and failures

VARIABLES
    groups,   \* [Groups -> GroupRow]   website_groups
    sites,    \* [SiteIds -> SiteRow]     websites
    seeded,   \* Seeded                 initializationAttempted
    active,   \* Users                  activeUser
    page,     \* Page                   what LaunchpadPageContent holds
    form,     \* Form                   EditWebsiteItemModal
    config,   \* Config                 ConfigModal and its GroupModal
    calls,    \* SUBSET Call            handlers that wait for a command
    crossed,  \* BOOLEAN        history: what the page shows was overtaken
    mixed,    \* SUBSET Mixture history: what ran into what
    events    \* Nat

Tables == <<groups, sites, seeded>>
vars   == <<Tables, active, page, form, config, calls, crossed, mixed, events>>

-----------------------------------------------------------------------------
(* Values                                                                  *)

Groups == 1..MaxGroups
SiteIds == 1..MaxSites
Status == {"none", "live", "deleted", "gone"}
Seeded == {"no", "under way", "yes"}
Op     == {"load", "save", "delete", "order", "fetch", "claim",
           "list", "group", "remove", "arrange", "import"}
Mixture == {"rows", "names", "icons"}

GroupRow == [status: Status, owner: Users, name: Names \cup {NoName}, place: Nat]
SiteRow  == [status: Status, owner: Users, group: Groups, place: Nat, icon: 0..MaxSites]

(* What a page copies of the rows.  An icon is known by the site whose     *)
(* form fetched it; a new site has no uuid before it is saved.             *)
Group(g) == [group |-> g, name |-> groups[g].name, place |-> groups[g].place]
Site(s)  == [site |-> s, group |-> sites[s].group, place |-> sites[s].place, icon |-> sites[s].icon]
NoGroup  == [group |-> 0, name |-> NoName, place |-> 0]
New      == MaxSites + 1
NoSite   == [site |-> 0, group |-> 0, place |-> 0, icon |-> 0]

(* SELECT ... ORDER BY sort_order ASC, id ASC, NULL (here 0) first.        *)
ByPlace(a, i, b, j) == a.place < b.place \/ (a.place = b.place /\ i < j)

LiveGroups(u) == {g \in Groups : groups[g].status = "live" /\ groups[g].owner = u}
LiveSites(u)  == {s \in SiteIds : sites[s].status = "live" /\ sites[s].owner = u}

GroupsOf(u) ==
    CHOOSE q \in SetToSeqs({Group(g) : g \in LiveGroups(u)}) :
        \A i, j \in DOMAIN q : i < j => ByPlace(q[i], q[i].group, q[j], q[j].group)

(* getLaunchpadData: without groups there are no items.                    *)
ItemsOf(u) ==
    IF LiveGroups(u) = {} THEN <<>>
    ELSE CHOOSE q \in SetToSeqs({Site(s) : s \in LiveSites(u)}) :
             \A i, j \in DOMAIN q : i < j => ByPlace(q[i], q[i].site, q[j], q[j].site)

Ids(rows) == [i \in DOMAIN rows |-> rows[i].group]

FreeGroups == {g \in Groups : groups[g].status = "none"}
FreeSites  == {s \in SiteIds : sites[s].status = "none"}

-----------------------------------------------------------------------------
(* The page, its dialogs, and the handlers                                 *)

NoForm   == [open |-> FALSE, item |-> NoSite, copy |-> NoSite]
NoConfig == [open |-> FALSE, loading |-> TRUE, dirty |-> FALSE, rows |-> <<>>,
             modal |-> FALSE, editing |-> NoGroup, importing |-> FALSE]

(* A handler: the user and the rows it goes on with, how far it is, what   *)
(* it does in the end, whether its component is still mounted, and the act *)
(* of the user that began it, where two are alike.                         *)
NewCall(op) ==
    [op |-> op, at |-> "sent", user |-> active, site |-> NoSite, group |-> NoGroup,
     rows |-> <<>>, groups |-> <<>>, after |-> "nothing", mounted |-> TRUE, n |-> 0]

Under(ops) == \E c \in calls : c.op \in ops

(* An act of the user that starts a handler.                               *)
Event == events < MaxEvents /\ events' = events + 1
Acts  == Event /\ crossed' = (crossed \/ calls # {})

Starts(c) ==
    /\ Acts
    /\ calls' = calls \cup {c}

Goes(c, d) ==
    /\ calls' = (calls \ {c}) \cup {d}
    /\ UNCHANGED <<active, events>>

Ends(c, at) ==
    /\ c.at = at
    /\ calls' = calls \ {c}
    /\ UNCHANGED <<Tables, active, events>>

AtPage   == ~page.loading /\ ~form.open /\ ~config.open
InConfig == ~page.loading /\ config.open

(* The application's first start, or a page that has been loaded.          *)
Init ==
    /\ active \in Users
    /\ \E k \in {0, 2}, u \in Users, m, n \in Names :
        /\ u = Anon => m # n
        /\ active = IF k = 0 THEN Anon ELSE u
        /\ k = 0 => u = Anon
        /\ groups = [g \in Groups |->
               IF g > k THEN [status |-> "none", owner |-> Anon, name |-> NoName, place |-> 0]
               ELSE [status |-> "live", owner |-> IF g = 1 THEN Anon ELSE u,
                     name |-> IF g = 1 THEN m ELSE n, place |-> 0]]
        /\ sites = [s \in SiteIds |->
               IF s > k THEN [status |-> "none", owner |-> Anon, group |-> 1, place |-> 0, icon |-> 0]
               ELSE [status |-> "live", owner |-> groups[s].owner, group |-> s, place |-> 0, icon |-> 0]]
        /\ seeded = IF k = 0 THEN "no" ELSE "yes"
    /\ page = [loading |-> seeded = "no", groups |-> Ids(GroupsOf(active)), rows |-> ItemsOf(active)]
    /\ form = NoForm
    /\ config = NoConfig
    /\ events = 0
    /\ calls = IF page.loading THEN {NewCall("load")} ELSE {}
    /\ crossed = FALSE
    /\ mixed = {}

-----------------------------------------------------------------------------
(* Loading.  The page shows nothing else meanwhile: its dialogs unmount,   *)
(* and come back with what the page still holds for them.                  *)

Unmount(cs) == {[c EXCEPT !.mounted = c.op \notin {"list", "group", "remove", "arrange", "import"}] :
                c \in {d \in cs : d.op # "fetch"}}

(* loadData, begun by the user who was active when its handler was made.   *)
BeginsLoad(rest, u, stays) ==
    /\ calls' = Unmount(rest) \cup {[NewCall("load") EXCEPT !.user = u]}
    /\ page' = [page EXCEPT !.loading = TRUE]
    /\ form' = [form EXCEPT !.copy = form.item]
    /\ config' = [NoConfig EXCEPT !.open = stays]

NewGroup(g, u, n, place) == groups' = [groups EXCEPT ![g] =
    [status |-> "live", owner |-> u, name |-> n, place |-> place]]

(* ensureDefaultDataIsInitialized: who comes second does not wait.         *)
Ensure(c) ==
    /\ c.op \in {"load", "list"} /\ c.at = "sent"
    /\ c.user = Anon /\ seeded = "no"
    /\ seeded' = "under way"
    /\ Goes(c, [c EXCEPT !.at = "ensure"])
    /\ UNCHANGED <<groups, sites, page, form, config, crossed, mixed>>

EnsureDefaultData(c) ==
    /\ c.at = "ensure"
    /\ seeded' = "yes"
    /\ IF \A g \in Groups, s \in SiteIds : groups[g].status = "none" /\ sites[s].status = "none"
       THEN /\ \E n \in Names : NewGroup(1, Anon, n, 0)
            /\ sites' = [sites EXCEPT ![1].status = "live", ![1].owner = Anon, ![1].group = 1]
       ELSE UNCHANGED <<groups, sites>>
    /\ Goes(c, [c EXCEPT !.at = "sent"])
    /\ UNCHANGED <<page, form, config, crossed, mixed>>

Read(c) ==
    /\ c.op \in {"load", "list"} /\ c.at = "sent"
    /\ c.user = Anon => seeded # "no"
    /\ Goes(c, [c EXCEPT !.groups = GroupsOf(c.user), !.at = "read",
                          !.rows = IF c.op = "load" THEN ItemsOf(c.user) ELSE <<>>])
    /\ crossed' = (crossed /\ ~(c.op = "load" /\ calls = {c} /\ c.user = active /\ page.loading))
    /\ UNCHANGED <<Tables, page, form, config, mixed>>

(* The first load that ends brings the page back.                          *)
Loaded(c) ==
    /\ c.op = "load" /\ c.at = "read"
    /\ page' = [page EXCEPT !.loading = FALSE, !.groups = Ids(c.groups), !.rows = c.rows]
    /\ calls' = (calls \ {c}) \cup
           (IF page.loading /\ config.open THEN {NewCall("list")} ELSE {})
    /\ UNCHANGED <<Tables, active, form, config, crossed, mixed, events>>

(* The accounts' own handlers; a session that expires ends here too.       *)
SwitchActiveUser(u) ==
    /\ u # active
    /\ Event
    /\ active' = u
    /\ BeginsLoad(calls, u, config.open)
    /\ crossed' = (crossed \/ calls # {})
    /\ mixed' = mixed \cup (IF form.open \/ calls # {} THEN {"rows", "names"} ELSE {})
    /\ UNCHANGED Tables

-----------------------------------------------------------------------------
(* The form of a site                                                      *)

(* The form starts from its item whenever it opens.                        *)
Opened(item) == [open |-> TRUE, item |-> item, copy |-> item]

Opens(item) ==
    /\ AtPage
    /\ form' = Opened(item)
    /\ mixed' = mixed \cup (IF Under({"fetch"}) THEN {"icons"} ELSE {})
    /\ UNCHANGED <<Tables, active, page, config, calls, crossed, events>>

(* The button in a group's header.                                         *)
AddItem(g) ==
    /\ g \in ToSet(page.groups)
    /\ FreeSites # {}
    /\ Opens([site |-> New, group |-> g, place |-> 0, icon |-> 0])

(* A card's menu.                                                          *)
EditItem(r) ==
    /\ r \in ToSet(page.rows) /\ r.group \in ToSet(page.groups)
    /\ Opens(r)

FetchMetadata ==
    /\ form.open /\ ~page.loading
    /\ ~\E c \in calls : c.op = "fetch" /\ c.mounted
    /\ Starts([NewCall("fetch") EXCEPT !.site = form.copy])
    /\ UNCHANGED <<Tables, active, page, form, config, mixed>>

(* onItemChange is the same function for whatever form is open by now.     *)
MetadataFetched(c) ==
    /\ c.op = "fetch"
    /\ Ends(c, "sent")
    /\ form' = [form EXCEPT !.copy.icon = c.site.site]
    /\ UNCHANGED <<page, config, crossed, mixed>>

FormGone == {[c EXCEPT !.mounted = @ /\ c.op # "fetch"] : c \in calls}

CloseForm ==
    /\ form.open /\ ~page.loading
    /\ form' = [NoForm EXCEPT !.copy.icon = form.copy.icon]
    /\ calls' = FormGone
    /\ UNCHANGED <<Tables, active, page, config, crossed, mixed, events>>

Place(rows) == Max({0} \cup {r.place : r \in rows})

(* A new site, or one that changed its group, goes behind the sites the    *)
(* page shows of the group.                                                *)
ToSave(copy) ==
    LET target  == {r \in ToSet(page.rows) : r.group = copy.group /\ r.site # copy.site}
        changed == \E r \in ToSet(page.rows) : r.site = copy.site /\ r.group # copy.group
    IN IF copy.site = New \/ changed THEN [copy EXCEPT !.place = Place(target) + 1] ELSE copy

(* The group and whether the icon stays are what was entered by then.      *)
HandleSaveItem(g, icon) ==
    /\ form.open /\ ~page.loading
    /\ g = form.copy.group \/ g \in ToSet(page.groups)
    /\ icon \in {form.copy.icon, 0}
    /\ Event
    /\ crossed' = (crossed \/ calls # {})
    /\ calls' = FormGone \cup {[NewCall("save") EXCEPT !.site = ToSave([form.copy EXCEPT !.group = g, !.icon = icon])]}
    /\ form' = [NoForm EXCEPT !.copy.icon = form.copy.icon]
    /\ mixed' = mixed \cup (IF crossed \/ Under({"remove", "claim"}) \/ g \notin ToSet(page.groups)
                           THEN {"rows"} ELSE {})
    /\ UNCHANGED <<Tables, active, page, config>>

(* The update names the uuid only: not its user, nor that the row is live. *)
SaveItem(c) ==
    /\ c.op = "save"
    /\ LET r == c.site
       IN IF r.site = New
          THEN \E s \in FreeSites :
                 /\ s = Min(FreeSites)
                 /\ sites' = [sites EXCEPT ![s] = [status |-> "live", owner |-> c.user,
                        group |-> r.group, place |-> r.place, icon |-> IF r.icon = New THEN s ELSE r.icon]]
          ELSE sites' = [sites EXCEPT ![r.site].group = r.group, ![r.site].place = r.place,
                                      ![r.site].icon = IF r.icon = New THEN 0 ELSE r.icon]
    /\ BeginsLoad(calls \ {c}, c.user, config.open)
    /\ UNCHANGED <<groups, seeded, active, crossed, mixed, events>>

-----------------------------------------------------------------------------
(* Deleting and sorting                                                    *)

HandleContextDelete(r) ==
    /\ AtPage
    /\ r \in ToSet(page.rows) /\ r.group \in ToSet(page.groups)
    /\ Starts([NewCall("delete") EXCEPT !.site = r])
    /\ UNCHANGED <<Tables, active, page, form, config, mixed>>

DeleteItem(c) ==
    /\ c.op = "delete"
    /\ sites' = [sites EXCEPT ![c.site.site].status = "deleted"]
    /\ BeginsLoad(calls \ {c}, c.user, config.open)
    /\ UNCHANGED <<groups, seeded, active, crossed, mixed, events>>

(* arrayMove and the new sort_order, for the sites of all groups.          *)
Moved(rows, i, j) == InsertAt(RemoveAt(rows, i), j, rows[i])
Numbered(rows) == [i \in DOMAIN rows |-> [rows[i] EXCEPT !.place = i]]

HandleDragEnd(i, j) ==
    /\ AtPage
    /\ {i, j} \subseteq DOMAIN page.rows /\ i # j
    /\ page.rows[i].group = page.rows[j].group
    /\ LET rows == Numbered(Moved(page.rows, i, j))
       IN /\ page' = [page EXCEPT !.rows = rows]
          /\ Starts([NewCall("order") EXCEPT !.rows = rows])
    /\ UNCHANGED <<Tables, active, form, config, mixed>>

PlaceIn(ids, x) == CHOOSE i \in DOMAIN ids : ids[i] = x

UpdateItemsOrder(c) ==
    /\ c.op = "order"
    /\ LET ids == [i \in DOMAIN c.rows |-> c.rows[i].site]
       IN sites' = [s \in SiteIds |-> IF s \in ToSet(ids)
                                    THEN [sites[s] EXCEPT !.place = PlaceIn(ids, s)] ELSE sites[s]]
    /\ calls' = calls \ {c}
    /\ UNCHANGED <<groups, seeded, active, page, form, config, crossed, mixed, events>>

-----------------------------------------------------------------------------
(* The dialog that manages groups.  Bound: it is not opened again while    *)
(* the list it asked for before is still awaited.                          *)

OpenConfig ==
    /\ AtPage /\ ~Under({"list"})
    /\ config' = [config EXCEPT !.open = TRUE, !.loading = TRUE]
    /\ calls' = calls \cup {NewCall("list")}
    /\ UNCHANGED <<Tables, active, page, form, crossed, mixed, events>>

(* handleCloseOperation: the page loads again if the dialog knows of a     *)
(* change.                                                                 *)
CloseConfig ==
    /\ InConfig /\ ~config.modal
    /\ crossed' = (crossed \/ calls # {})
    /\ IF config.dirty
       THEN BeginsLoad(calls, active, FALSE)
       ELSE config' = [NoConfig EXCEPT !.importing = config.importing] /\ UNCHANGED <<calls, page, form>>
    /\ UNCHANGED <<Tables, active, mixed, events>>

(* loadGroups at the end of a handler.                                     *)
ListsAgain(c, after) ==
    /\ calls' = (calls \ {c}) \cup {[c EXCEPT !.op = "list", !.at = "sent", !.after = after]}
    /\ UNCHANGED <<active, page, form, crossed, mixed, events>>

Listed(c) ==
    /\ c.op = "list"
    /\ Ends(c, "read")
    /\ config' = IF ~c.mounted THEN config
                 ELSE LET modal == config.modal /\ c.after # "save"
                      IN [config EXCEPT !.rows = IF config.open THEN c.groups ELSE <<>>,
                                        !.loading = ~config.open,
                                        !.modal = modal, !.editing = IF modal THEN @ ELSE NoGroup,
                                        !.dirty = @ \/ c.after # "nothing"]
    /\ UNCHANGED <<page, form, crossed, mixed>>

CanManage == InConfig /\ ~config.modal /\ ~config.loading

OpenGroupModal(r) ==
    /\ CanManage
    /\ r = NoGroup \/ r \in ToSet(config.rows)
    /\ config' = [config EXCEPT !.modal = TRUE, !.editing = r]
    /\ UNCHANGED <<Tables, active, page, form, calls, crossed, mixed, events>>

CloseGroupModal ==
    /\ InConfig /\ config.modal
    /\ config' = [config EXCEPT !.modal = FALSE, !.editing = NoGroup]
    /\ UNCHANGED <<Tables, active, page, form, calls, crossed, mixed, events>>

IsNameDuplicate(n, g) == \E r \in ToSet(config.rows) : r.name = n /\ r.group # g

(* The button works as long as the dialog is there: until the groups are   *)
(* listed again.                                                           *)
HandleSaveGroup(n) ==
    /\ InConfig /\ config.modal
    /\ ~IsNameDuplicate(n, config.editing.group)
    /\ LET r == IF config.editing = NoGroup
                THEN [group |-> 0, name |-> n, place |-> Place(ToSet(config.rows)) + 1]
                ELSE [config.editing EXCEPT !.name = n]
       IN Starts([NewCall("group") EXCEPT !.group = r, !.n = events'])
    /\ mixed' = mixed \cup (IF crossed \/ Under({"group", "list", "import", "claim"}) THEN {"names"} ELSE {})
    /\ UNCHANGED <<Tables, active, page, form, config>>

Listing(c) == IF c.mounted THEN config' = [config EXCEPT !.loading = TRUE] ELSE UNCHANGED config

SaveGroup(c) ==
    /\ c.op = "group"
    /\ IF c.group.group = 0
       THEN FreeGroups # {} /\ NewGroup(Min(FreeGroups), c.user, c.group.name, c.group.place)
       ELSE groups' = [groups EXCEPT ![c.group.group].name = c.group.name,
                                     ![c.group.group].place = c.group.place]
    /\ ListsAgain(c, "save")
    /\ Listing(c)
    /\ UNCHANGED <<sites, seeded>>

HandleDeleteGroup(r) ==
    /\ CanManage
    /\ r \in ToSet(config.rows)
    /\ Starts([NewCall("remove") EXCEPT !.group = r])
    /\ mixed' = mixed \cup (IF Under({"save", "import", "claim"}) THEN {"rows"} ELSE {})
    /\ UNCHANGED <<Tables, active, page, form, config>>

(* One transaction: the group, and the sites that name it.                 *)
DeleteGroup_Sites(g) ==
    /\ groups' = [groups EXCEPT ![g].status = IF @ = "gone" THEN @ ELSE "deleted"]
    /\ UNCHANGED sites
DeleteGroup(g) ==
    /\ groups' = [groups EXCEPT ![g].status = IF @ = "gone" THEN @ ELSE "deleted"]
    /\ sites' = [s \in SiteIds |-> IF sites[s].group = g /\ sites[s].status = "live"
                                 THEN [sites[s] EXCEPT !.status = "deleted"] ELSE sites[s]]

RemoveGroup(c) ==
    /\ c.op = "remove"
    /\ DeleteGroup(c.group.group)
    /\ ListsAgain(c, "remove")
    /\ Listing(c)
    /\ UNCHANGED seeded

HandleGroupDragEnd(i, j) ==
    /\ CanManage
    /\ {i, j} \subseteq DOMAIN config.rows /\ i # j
    /\ LET rows == Numbered(Moved(config.rows, i, j))
       IN /\ config' = [config EXCEPT !.rows = rows, !.dirty = TRUE]
          /\ Starts([NewCall("arrange") EXCEPT !.groups = rows])
    /\ UNCHANGED <<Tables, active, page, form, mixed>>

UpdateGroupsOrder(c) ==
    /\ c.op = "arrange"
    /\ LET ids == Ids(c.groups)
       IN groups' = [g \in Groups |-> IF g \in ToSet(ids)
                                      THEN [groups[g] EXCEPT !.place = PlaceIn(ids, g)] ELSE groups[g]]
    /\ calls' = calls \ {c}
    /\ UNCHANGED <<sites, seeded, active, page, form, config, crossed, mixed, events>>

-----------------------------------------------------------------------------
(* Bookmarks: a folder of one bookmark.  First the groups that the dialog  *)
(* does not show, then the sites under what the database has by that name. *)

HandleImportBookmarks(n) ==
    /\ CanManage /\ ~config.importing
    /\ config' = [config EXCEPT !.importing = TRUE]
    /\ Starts([NewCall("import") EXCEPT
           !.group = [NoGroup EXCEPT !.name = n],
           !.at = IF \E r \in ToSet(config.rows) : r.name = n THEN "items" ELSE "groups"])
    /\ mixed' = mixed \cup (IF crossed \/ Under({"group", "list", "import", "claim", "remove"})
                           THEN {"names", "rows"} ELSE {})
    /\ UNCHANGED <<Tables, active, page, form>>

ImportGroup(c) ==
    /\ c.op = "import" /\ c.at = "groups"
    /\ FreeGroups # {} /\ NewGroup(Min(FreeGroups), c.user, c.group.name, 0)
    /\ Goes(c, [c EXCEPT !.at = "items"])
    /\ UNCHANGED <<sites, seeded, page, form, config, crossed, mixed>>

ImportRead(c) ==
    /\ c.op = "import" /\ c.at = "items"
    /\ LET all   == GroupsOf(c.user)
           found == {i \in DOMAIN all : all[i].name = c.group.name}
       IN Goes(c, IF found = {} THEN [c EXCEPT !.at = "done"]
                  ELSE [c EXCEPT !.at = "item", !.group = all[Min(found)]])
    /\ UNCHANGED <<Tables, page, form, config, crossed, mixed>>

ImportItem(c) ==
    /\ c.op = "import" /\ c.at = "item"
    /\ FreeSites # {}
    /\ sites' = [sites EXCEPT ![Min(FreeSites)] =
           [status |-> "live", owner |-> c.user, group |-> c.group.group, place |-> 0, icon |-> 0]]
    /\ Goes(c, [c EXCEPT !.at = "done"])
    /\ UNCHANGED <<groups, seeded, page, form, config, crossed, mixed>>

Imported(c) ==
    /\ c.op = "import" /\ c.at = "done"
    /\ ListsAgain(c, "nothing")
    /\ config' = IF c.mounted
                 THEN [config EXCEPT !.importing = FALSE, !.dirty = TRUE, !.loading = TRUE] ELSE config
    /\ UNCHANGED Tables

-----------------------------------------------------------------------------
(* Claiming what was made without an account, and faults                   *)

HandleConfirmClaim ==
    /\ AtPage
    /\ active # Anon
    /\ ~Under({"claim"})
    /\ Starts(NewCall("claim"))
    /\ mixed' = mixed \cup (IF calls # {} THEN {"names", "rows"} ELSE {})
    /\ UNCHANGED <<Tables, active, page, form, config>>

(* A group of the same name takes the sites over, and none asks whether it *)
(* is deleted; the others change hands.  The new dataVersion loads again.  *)
Namesake(g, u) ==
    LET same == {h \in Groups : groups[h].owner = u /\ groups[h].name = groups[g].name
                                /\ groups[h].status \in {"live", "deleted"}}
    IN IF same = {} THEN 0 ELSE Min(same)

ReassignAnonymousData(c) ==
    /\ c.op = "claim"
    /\ LET theirs == {g \in Groups : groups[g].owner = Anon /\ groups[g].status \in {"live", "deleted"}}
           into   == [g \in theirs |-> Namesake(g, c.user)]
       IN /\ groups' = [g \in Groups |->
                 IF g \notin theirs THEN groups[g]
                 ELSE IF into[g] = 0 THEN [groups[g] EXCEPT !.owner = c.user]
                 ELSE [groups[g] EXCEPT !.status = "gone"]]
          /\ sites' = [s \in SiteIds |->
                 LET g == sites[s].group
                     merged == g \in theirs /\ into[g] # 0
                 IN IF sites[s].status = "none" \/ ~(merged \/ sites[s].owner = Anon) THEN sites[s]
                    ELSE [sites[s] EXCEPT !.owner = c.user, !.group = IF merged THEN into[g] ELSE @]]
          /\ mixed' = mixed \cup (IF \E g \in theirs : into[g] # 0 /\ groups[into[g]].status = "deleted"
                                 THEN {"rows"} ELSE {})
    /\ BeginsLoad(calls \ {c}, active, config.open)
    /\ UNCHANGED <<seeded, active, crossed, events>>

(* Most handlers do not catch: the page stays as it is, a load never ends. *)
CallFails(c) ==
    /\ Event
    /\ calls' = calls \ {c}
    /\ seeded' = IF c.at = "ensure" THEN "no" ELSE seeded
    /\ config' = IF c.op = "import" /\ c.mounted THEN [config EXCEPT !.importing = FALSE] ELSE config
    /\ crossed' = (crossed \/ (IF c.op = "load" THEN ~page.loading ELSE c.op \notin {"save", "delete", "fetch", "claim"}))
    /\ UNCHANGED <<groups, sites, active, page, form, mixed>>

-----------------------------------------------------------------------------
(* The specification                                                       *)

User ==
    \/ \E u \in Users : SwitchActiveUser(u)
    \/ \E g \in Groups : AddItem(g) \/ \E k \in 0..New : HandleSaveItem(g, k)
    \/ \E i \in DOMAIN page.rows :
        \/ EditItem(page.rows[i]) \/ HandleContextDelete(page.rows[i])
        \/ \E j \in DOMAIN page.rows : HandleDragEnd(i, j)
    \/ FetchMetadata \/ CloseForm
    \/ OpenConfig \/ CloseConfig \/ CloseGroupModal \/ OpenGroupModal(NoGroup)
    \/ \E i \in DOMAIN config.rows :
        \/ OpenGroupModal(config.rows[i]) \/ HandleDeleteGroup(config.rows[i])
        \/ \E j \in DOMAIN config.rows : HandleGroupDragEnd(i, j)
    \/ \E n \in Names : HandleSaveGroup(n) \/ HandleImportBookmarks(n)
    \/ HandleConfirmClaim

Command(c) ==
    \/ Ensure(c) \/ EnsureDefaultData(c) \/ Read(c) \/ Loaded(c)
    \/ MetadataFetched(c) \/ SaveItem(c) \/ DeleteItem(c) \/ UpdateItemsOrder(c)
    \/ Listed(c) \/ SaveGroup(c) \/ RemoveGroup(c) \/ UpdateGroupsOrder(c)
    \/ ImportGroup(c) \/ ImportRead(c) \/ ImportItem(c) \/ Imported(c)
    \/ ReassignAnonymousData(c) \/ CallFails(c)

Next == User \/ \E c \in calls : Command(c)

Spec == Init /\ [][Next]_vars

-----------------------------------------------------------------------------
(* Properties                                                              *)

(* Every variable has its type; the page never holds a site twice.         *)
TypeOK ==
    /\ groups \in [Groups -> GroupRow]
    /\ sites \in [SiteIds -> SiteRow]
    /\ seeded \in Seeded
    /\ active \in Users
    /\ page.loading \in BOOLEAN
    /\ IsInjective(page.groups) /\ ToSet(page.groups) \subseteq Groups
    /\ IsInjective([i \in DOMAIN page.rows |-> page.rows[i].site])
    /\ \A c \in calls : c.op \in Op /\ c.user \in Users
    /\ crossed \in BOOLEAN /\ mixed \subseteq Mixture

(* At rest, a page none of whose handlers overlapped or failed since it    *)
(* was last loaded shows what the database has of the active user, in the  *)
(* order it would be read: after a drag that only renumbers the page, a    *)
(* save, and after the dialog, whose changes the page does not see itself. *)
PageIsTrue ==
    (AtPage /\ calls = {} /\ ~crossed) =>
        /\ page.rows = ItemsOf(active)
        /\ page.groups = Ids(GroupsOf(active))

(* A live site is in a live group of the same user, whatever is deleted,   *)
(* imported, moved and claimed: but for a site saved from a page that was  *)
(* overtaken or from a form whose group had left the page, and the         *)
(* overlaps that mixed names.                                              *)
RowsBelongTogether ==
    "rows" \notin mixed =>
        \A s \in SiteIds : sites[s].status = "live" =>
            /\ groups[sites[s].group].status = "live"
            /\ groups[sites[s].group].owner = sites[s].owner

(* No two live groups of a user have the same name: the dialog refuses it, *)
(* an import and a claim merge: but for saves and imports that overlap.    *)
GroupNamesDiffer ==
    "names" \notin mixed =>
        \A g, h \in Groups :
            (g # h /\ groups[g].status = "live" /\ groups[h].status = "live"
                   /\ groups[g].owner = groups[h].owner) => groups[g].name # groups[h].name

(* A site has the icon its own form fetched, unless a form was opened      *)
(* while the answer to an earlier one was still awaited.                   *)
IconsStayWithTheirSites ==
    "icons" \notin mixed => \A s \in SiteIds : sites[s].icon \in {0, s}
=============================================================================
