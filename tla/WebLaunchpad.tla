---------------------------- MODULE WebLaunchpad ----------------------------
(***************************************************************************)
(* The launchpad of the web page: groups of sites, the locks that hide a   *)
(* group behind a password, editing, deleting and sorting.  Each tab keeps *)
(* a copy of what it has loaded and changes it as the answers to its       *)
(* requests arrive, or, while sorting, before any request is sent.         *)
(*                                                                         *)
(* A row is a site with its place; titles sort as the sites' numbers do.   *)
(* The session and its expiry are in WebSession, icons in IconFiles.       *)
(***************************************************************************)
EXTENDS Naturals, FiniteSets, Sequences, SequencesExt

CONSTANTS
    Tabs,        \* tabs with the page open
    Groups,      \* the user's groups
    NoGroup,     \* null
    MaxSites,    \* bound: sites, deleted ones included
    MaxEvents    \* bound: acts of the user, and requests that fail

VARIABLES
    status,    \* [Sites -> Status]           websites, deleted ones included
    home,      \* [Sites -> Groups]           websites.group_uuid
    place,     \* [Sites -> Nat]              websites.sort_order, 0 for NULL
    locks,     \* SUBSET Groups               launchpad_group_locks
    password,  \* BOOLEAN                     launchpad_lock_settings
    shelf,     \* [Tabs -> [Groups -> Seq(Row)]]  launchpad, as the array is
    marked,    \* [Tabs -> SUBSET Groups]     is_locked
    open,      \* [Tabs -> SUBSET Groups]     unlockedGroups
    screen,    \* [Tabs -> [loading: BOOLEAN, error: BOOLEAN]]
    hits,      \* [Tabs -> SUBSET Sites]      what the search term matches
    sorting,   \* [Tabs -> Groups or NoGroup] sortingGroupUuid
    snapshot,  \* [Tabs -> Snapshot]          sortingSnapshotRef
    dialog,    \* [Tabs -> Dialog]            lockDialog
    banner,    \* [Tabs -> Groups or NoGroup] lockPasswordBannerGroup
    calls,     \* SUBSET Call                 handlers that wait for an answer
    crossed,   \* SUBSET Tabs   history: pages whose copy was overtaken
    raced,     \* BOOLEAN       history: a lock was overtaken by a clearing
    events     \* Nat

Server == <<status, home, place, locks, password>>
Page   == <<shelf, marked, open, screen, hits, sorting, snapshot, dialog, banner>>
vars   == <<Server, Page, calls, crossed, raced, events>>

-----------------------------------------------------------------------------
(* Values                                                                  *)

Sites  == 1..MaxSites
Status == {"none", "live", "deleted"}
Row    == [site: Sites, place: 0..MaxSites]

NoSnapshot == [group |-> NoGroup, rows |-> <<>>]
NoDialog   == [mode |-> "none", group |-> NoGroup]
Dialog     == [mode: {"none", "setup", "unlock"}, group: Groups \cup {NoGroup}]

ASSUME WebLaunchpadAssumption ==
    /\ NoGroup \notin Groups
    /\ MaxSites \in Nat /\ MaxEvents \in Nat

(* What a handler is, what it holds from its start (the group as drawn,    *)
(* the groups unlocked then), what it was answered, and how far it is.     *)
Op == {"load", "unlock", "dialog", "lock", "setup", "disable", "clear", "save", "delete", "order"}
NewCall(t, op, g, s) ==
    [tab |-> t, op |-> op, group |-> g, site |-> s, rows |-> [h \in Groups |-> <<>>],
     seen |-> {}, at |-> "sent"]

Before(a, b) ==
    \/ a.place = b.place /\ a.site < b.site
    \/ a.place # b.place /\ a.place # 0 /\ (b.place = 0 \/ a.place < b.place)

(* sortedLaunchpad, and compare_sort_then_title of the server.             *)
Sorted(rows) ==
    CHOOSE q \in SetToSeqs(rows) : \A i, j \in DOMAIN q : i < j => Before(q[i], q[j])

RowsOf(g) == {[site |-> s, place |-> place[s]] : s \in {r \in Sites : status[r] = "live" /\ home[r] = g}}

Init ==
    /\ status = [s \in Sites |-> IF s < MaxSites THEN "live" ELSE "none"]
    /\ home \in [Sites -> Groups] /\ \A s \in 3..MaxSites : home[s] = home[2]
    /\ place = [s \in Sites |-> 0]
    /\ password \in BOOLEAN
    /\ locks \in SUBSET Groups /\ (locks # {} => password)
    /\ shelf = [t \in Tabs |-> [g \in Groups |-> IF g \in locks THEN <<>> ELSE Sorted(RowsOf(g))]]
    /\ marked = [t \in Tabs |-> locks]
    /\ open = [t \in Tabs |-> {}]
    /\ screen = [t \in Tabs |-> [loading |-> FALSE, error |-> FALSE]]
    /\ hits = [t \in Tabs |-> Sites]
    /\ sorting = [t \in Tabs |-> NoGroup]
    /\ snapshot = [t \in Tabs |-> NoSnapshot]
    /\ dialog = [t \in Tabs |-> NoDialog]
    /\ banner = [t \in Tabs |-> NoGroup]
    /\ calls = {}
    /\ crossed = {}
    /\ raced = FALSE
    /\ events = 0

Event == events < MaxEvents /\ events' = events + 1

-----------------------------------------------------------------------------
(* A page                                                                  *)

Mine(t) == {c \in calls : c.tab = t}

(* unlockingGroupUuid, savingSite and savingOrderGroupUuid.                *)
Busy(t) == \E c \in Mine(t) : c.op \in {"lock", "disable", "dialog"} \/ (c.op = "unlock" /\ c.at = "sent")
Saving(t)   == \E c \in Mine(t) : c.op = "save"
Ordering(t) == \E c \in Mine(t) : c.op = "order"

CanAct(t) ==
    /\ ~screen[t].loading /\ ~screen[t].error
    /\ dialog[t].mode = "none"
    /\ ~Saving(t)

IsLocked(t, g) == g \in marked[t] \ open[t]
Shown(t, g)    == Sorted(ToSet(shelf[t][g]))
Drawn(t, g)    == Sorted({r \in ToSet(shelf[t][g]) : r.site \in hits[t]})
Searching(t)   == hits[t] # Sites
SitesOf(rows)  == [i \in DOMAIN rows |-> rows[i].site]
Without(rows, s) ==
    IF s \in ToSet(SitesOf(rows)) THEN RemoveAt(rows, CHOOSE i \in DOMAIN rows : rows[i].site = s)
    ELSE rows

(* An act of the user; its page is overtaken when another handler is still *)
(* waiting, or a sorting is not finished.                                  *)
Alone(t) == Mine(t) = {} /\ sorting[t] = NoGroup
Overtakes(t, alone) == crossed' = IF alone THEN crossed ELSE crossed \cup {t}
Acts(t) ==
    /\ Event
    /\ Overtakes(t, Alone(t))
    /\ UNCHANGED <<Server, raced>>

Start(t, c) ==
    /\ Acts(t)
    /\ calls' = calls \cup {c}
    /\ UNCHANGED Page

(* The server's part of a request, and what the page goes on with.         *)
Serve(c, d) ==
    /\ calls' = (calls \ {c}) \cup {d}
    /\ UNCHANGED <<Page, events>>
Writes(c) == crossed' = crossed \cup (Tabs \ {c.tab})
Ends(c, at) ==
    /\ c.at = at
    /\ calls' = calls \ {c}
    /\ UNCHANGED <<Server, crossed, raced, events>>

Shelve(t, g, rows) == shelf' = [shelf EXCEPT ![t][g] = rows]

-----------------------------------------------------------------------------
(* Loading.  The groups and the sites are two statements.                  *)

Reload(t) ==
    /\ Event
    /\ calls' = (calls \ Mine(t)) \cup {NewCall(t, "load", NoGroup, 0)}
    /\ shelf' = [shelf EXCEPT ![t] = [g \in Groups |-> <<>>]]
    /\ marked' = [marked EXCEPT ![t] = {}]
    /\ open' = [open EXCEPT ![t] = {}]
    /\ screen' = [screen EXCEPT ![t] = [loading |-> TRUE, error |-> FALSE]]
    /\ hits' = [hits EXCEPT ![t] = Sites]
    /\ sorting' = [sorting EXCEPT ![t] = NoGroup]
    /\ snapshot' = [snapshot EXCEPT ![t] = NoSnapshot]
    /\ dialog' = [dialog EXCEPT ![t] = NoDialog]
    /\ banner' = [banner EXCEPT ![t] = NoGroup]
    /\ crossed' = IF \E c \in Mine(t) : c.op # "load" THEN crossed \cup {t} ELSE crossed \ {t}
    /\ UNCHANGED <<Server, raced>>

(* Another language is another t, for which the list is loaded again under *)
(* whatever the page was doing.                                            *)
LanguageChanges(t) ==
    /\ dialog[t].mode = "none" /\ ~Saving(t)
    /\ Acts(t)
    /\ calls' = calls \cup {NewCall(t, "load", NoGroup, 0)}
    /\ screen' = [screen EXCEPT ![t] = [loading |-> TRUE, error |-> FALSE]]
    /\ UNCHANGED <<shelf, marked, open, hits, sorting, snapshot, dialog, banner>>

ReadGroups(c) ==
    /\ c.op = "load" /\ c.at = "sent"
    /\ Serve(c, [c EXCEPT !.seen = locks, !.at = "groups"])
    /\ UNCHANGED <<Server, crossed, raced>>

ReadSites(c) ==
    /\ c.op = "load" /\ c.at = "groups"
    /\ Serve(c, [c EXCEPT !.rows = [g \in Groups |-> IF g \in locks THEN <<>> ELSE Sorted(RowsOf(g))],
                          !.at = "answered"])
    /\ UNCHANGED <<Server, crossed, raced>>

Loaded(c) ==
    /\ c.op = "load"
    /\ Ends(c, "answered")
    /\ shelf' = [shelf EXCEPT ![c.tab] = c.rows]
    /\ marked' = [marked EXCEPT ![c.tab] = c.seen]
    /\ open' = [open EXCEPT ![c.tab] = {}]
    /\ screen' = [screen EXCEPT ![c.tab].loading = FALSE]
    /\ UNCHANGED <<hits, sorting, snapshot, dialog, banner>>

-----------------------------------------------------------------------------
(* Locks                                                                   *)

(* get_lock_password_status, before a group is locked or unlocked.         *)
StatusRead(c) ==
    /\ c.at = "status"
    /\ Serve(c, [c EXCEPT !.at = IF password THEN "configured" ELSE "missing"])
    /\ UNCHANGED <<Server, crossed, raced>>

HandleUnlockGroup(t, g) ==
    /\ CanAct(t) /\ IsLocked(t, g)
    /\ \A c \in Mine(t) : c.group # g
    /\ Start(t, [NewCall(t, "unlock", g, 0) EXCEPT !.at = "status"])

AsksForPassword(c) ==
    /\ c.op = "unlock"
    /\ Ends(c, "configured")
    /\ dialog' = [dialog EXCEPT ![c.tab] = [mode |-> "unlock", group |-> c.group]]
    /\ UNCHANGED <<shelf, marked, open, screen, hits, sorting, snapshot, banner>>

NeedsNoPassword(c) ==
    /\ c.op = "unlock" /\ c.at = "missing"
    /\ calls' = (calls \ {c}) \cup (IF Busy(c.tab) THEN {} ELSE {[c EXCEPT !.at = "sent"]})
    /\ UNCHANGED <<Server, Page, crossed, raced, events>>

SubmitUnlock(t) ==
    /\ dialog[t].mode = "unlock" /\ ~Busy(t)
    /\ Start(t, NewCall(t, "dialog", dialog[t].group, 0))

CloseDialog(t) ==
    /\ dialog[t].mode # "none"
    /\ dialog' = [dialog EXCEPT ![t] = NoDialog]
    /\ UNCHANGED <<Server, shelf, marked, open, screen, hits, sorting, snapshot, banner,
                   calls, crossed, raced, events>>

(* Sites of equal place come as they were updated last.                    *)
ByPlace(rows) ==
    {q \in SetToSeqs(rows) : \A i, j \in DOMAIN q : i < j =>
        q[i].place = q[j].place \/ Before(q[i], q[j])}

(* Without a password configured, every password is right.                 *)
UnlockGroup(c) ==
    /\ c.op \in {"unlock", "dialog"} /\ c.at = "sent"
    /\ \/ \E q \in ByPlace(RowsOf(c.group)) :
              Serve(c, [c EXCEPT !.rows[c.group] = q, !.at = "answered"])
       \/ password /\ Serve(c, [c EXCEPT !.at = "failed"])
    /\ UNCHANGED <<Server, crossed, raced>>

Unlocked(c) ==
    /\ c.op \in {"unlock", "dialog"}
    /\ Ends(c, "answered")
    /\ Shelve(c.tab, c.group, c.rows[c.group])
    /\ marked' = [marked EXCEPT ![c.tab] = @ \cup {c.group}]
    /\ open' = [open EXCEPT ![c.tab] = @ \cup {c.group}]
    /\ dialog' = IF c.op = "dialog" THEN [dialog EXCEPT ![c.tab] = NoDialog] ELSE dialog
    /\ UNCHANGED <<screen, hits, sorting, snapshot, banner>>

(* Locking a group for the first time and after it was unlocked.           *)
HandleLockGroup(t, g) ==
    /\ CanAct(t) /\ ~IsLocked(t, g) /\ ~Busy(t)
    /\ Start(t, [NewCall(t, "lock", g, 0) EXCEPT !.at = "status"])

LockGoesOn(c) ==
    /\ c.op = "lock" /\ c.at = "configured"
    /\ Serve(c, [c EXCEPT !.at = "sent"])
    /\ UNCHANGED <<Server, crossed, raced>>

(* The banner offers to set a password.                                    *)
LockNeedsPassword(c) ==
    /\ c.op = "lock" /\ c.at \in {"missing", "refused"}
    /\ Ends(c, c.at)
    /\ banner' = [banner EXCEPT ![c.tab] = c.group]
    /\ UNCHANGED <<shelf, marked, open, screen, hits, sorting, snapshot, dialog>>

OpenSetup(t) ==
    /\ CanAct(t)
    /\ banner[t] # NoGroup
    /\ dialog' = [dialog EXCEPT ![t] = [mode |-> "setup", group |-> banner[t]]]
    /\ banner' = [banner EXCEPT ![t] = NoGroup]
    /\ UNCHANGED <<Server, shelf, marked, open, screen, hits, sorting, snapshot,
                   calls, crossed, raced, events>>

SubmitSetup(t) ==
    /\ dialog[t].mode = "setup" /\ ~Busy(t)
    /\ Start(t, [NewCall(t, "setup", dialog[t].group, 0) EXCEPT !.at = "password"])

SetLockPassword(c) ==
    /\ c.op = "setup" /\ c.at = "password"
    /\ password' = TRUE
    /\ Serve(c, [c EXCEPT !.at = "sent"])
    /\ Writes(c)
    /\ UNCHANGED <<status, home, place, locks, raced>>

(* set_group_lock: the password is looked for, then the lock inserted.     *)
LockChecked(c) ==
    /\ c.op \in {"lock", "setup"} /\ c.at = "sent"
    /\ Serve(c, [c EXCEPT !.at = IF password THEN "checked" ELSE "refused"])
    /\ UNCHANGED <<Server, crossed, raced>>

LockInserted(c) ==
    /\ c.at = "checked"
    /\ locks' = locks \cup {c.group}
    /\ raced' = (raced \/ ~password)
    /\ Serve(c, [c EXCEPT !.at = "answered"])
    /\ Writes(c)
    /\ UNCHANGED <<status, home, place, password>>

(* lockGroupPersistently: what the page holds of the group is cleared.     *)
Locked(c) ==
    /\ c.op \in {"lock", "setup"}
    /\ Ends(c, "answered")
    /\ Shelve(c.tab, c.group, <<>>)
    /\ marked' = [marked EXCEPT ![c.tab] = @ \cup {c.group}]
    /\ open' = [open EXCEPT ![c.tab] = @ \ {c.group}]
    /\ snapshot' = [snapshot EXCEPT ![c.tab] = IF @.group = c.group THEN NoSnapshot ELSE @]
    /\ sorting' = [sorting EXCEPT ![c.tab] = IF @ = c.group THEN NoGroup ELSE @]
    /\ dialog' = IF c.op = "setup" THEN [dialog EXCEPT ![c.tab] = NoDialog] ELSE dialog
    /\ banner' = [banner EXCEPT ![c.tab] = NoGroup]
    /\ UNCHANGED <<screen, hits>>

(* The group is put back as it was drawn when its lock was given up, a     *)
(* search's choice of its sites included.                                  *)
HandleDisableGroupLock(t, g) ==
    /\ CanAct(t) /\ g \in marked[t] \cap open[t] /\ ~Busy(t)
    /\ Event
    /\ calls' = calls \cup {[NewCall(t, "disable", g, 0) EXCEPT !.rows[g] = Drawn(t, g)]}
    /\ Overtakes(t, Alone(t) /\ ~Searching(t))
    /\ UNCHANGED <<Server, Page, raced>>

LockRemoved(c) ==
    /\ c.op = "disable" /\ c.at = "sent"
    /\ locks' = locks \ {c.group}
    /\ Serve(c, [c EXCEPT !.at = "answered"])
    /\ Writes(c)
    /\ UNCHANGED <<status, home, place, password, raced>>

LockDisabled(c) ==
    /\ c.op = "disable"
    /\ Ends(c, "answered")
    /\ Shelve(c.tab, c.group, c.rows[c.group])
    /\ marked' = [marked EXCEPT ![c.tab] = @ \ {c.group}]
    /\ open' = [open EXCEPT ![c.tab] = @ \ {c.group}]
    /\ UNCHANGED <<screen, hits, sorting, snapshot, dialog, banner>>

(* The control center clears the password with all locks, and the page     *)
(* loads again.                                                            *)
HandleClearLockPassword(t) ==
    /\ dialog[t].mode = "none" /\ ~Saving(t)
    /\ Start(t, NewCall(t, "clear", NoGroup, 0))

ClearLockPassword(c) ==
    /\ c.op = "clear" /\ c.at = "sent"
    /\ locks' = {} /\ password' = FALSE
    /\ Serve(c, [c EXCEPT !.at = "answered"])
    /\ Writes(c)
    /\ UNCHANGED <<status, home, place, raced>>

LockPasswordCleared(c) ==
    /\ c.op = "clear" /\ c.at = "answered"
    /\ calls' = (calls \ {c}) \cup {NewCall(c.tab, "load", NoGroup, 0)}
    /\ screen' = [screen EXCEPT ![c.tab] = [loading |-> TRUE, error |-> FALSE]]
    /\ banner' = [banner EXCEPT ![c.tab] = NoGroup]
    /\ UNCHANGED <<Server, shelf, marked, open, hits, sorting, snapshot, dialog, crossed, raced, events>>

-----------------------------------------------------------------------------
(* Sites                                                                   *)

CanEdit(t) == CanAct(t) /\ sorting[t] = NoGroup /\ ~Ordering(t)
Visible(t) == UNION {{r.site : r \in ToSet(Drawn(t, g))} : g \in {h \in Groups : ~IsLocked(t, h)}}

(* The form is filled in and submitted; it stays open until the answer.    *)
HandleSaveSite(t, s, g) ==
    /\ CanEdit(t)
    /\ \/ s \in Visible(t)
       \/ status[s] = "none" /\ \A c \in calls : c.site # s
    /\ \A r \in Sites : {status[r], status[s]} = {"none"} => s <= r
    /\ ~IsLocked(t, g)
    /\ Start(t, [NewCall(t, "save", g, s) EXCEPT !.seen = open[t]])

SiteWritten(c) ==
    /\ c.op = "save" /\ c.at = "sent"
    /\ IF status[c.site] = "deleted"
       THEN Serve(c, [c EXCEPT !.at = "failed"]) /\ UNCHANGED <<status, home, crossed>>
       ELSE /\ status' = [status EXCEPT ![c.site] = "live"]
            /\ home' = [home EXCEPT ![c.site] = c.group]
            /\ Serve(c, [c EXCEPT !.rows[c.group] = <<[site |-> c.site, place |-> place[c.site]]>>,
                                  !.at = "answered"])
            /\ Writes(c)
    /\ UNCHANGED <<place, locks, password, raced>>

(* mergeSavedSite looks at the groups that were unlocked when the form was *)
(* submitted.                                                              *)
SiteSaved_InPlace(c) ==
    /\ c.op = "save"
    /\ Ends(c, "answered")
    /\ shelf' = [shelf EXCEPT ![c.tab] = [g \in Groups |->
                    IF g = c.group THEN Without(@[g], c.site) \o c.rows[g] ELSE @[g]]]
    /\ UNCHANGED <<marked, open, screen, hits, sorting, snapshot, dialog, banner>>
SiteSaved(c) ==
    /\ c.op = "save"
    /\ Ends(c, "answered")
    /\ shelf' = [shelf EXCEPT ![c.tab] = [g \in Groups |->
                    Without(@[g], c.site)
                    \o (IF g = c.group /\ g \notin marked[c.tab] \ c.seen THEN c.rows[g] ELSE <<>>)]]
    /\ UNCHANGED <<marked, open, screen, hits, sorting, snapshot, dialog, banner>>

HandleDeleteSite(t, s) ==
    /\ CanEdit(t)
    /\ s \in Visible(t)
    /\ \A c \in Mine(t) : <<c.op, c.site>> # <<"delete", s>>
    /\ Start(t, NewCall(t, "delete", NoGroup, s))

SiteRemoved(c) ==
    /\ c.op = "delete" /\ c.at = "sent"
    /\ IF status[c.site] = "live"
       THEN /\ status' = [status EXCEPT ![c.site] = "deleted"]
            /\ Serve(c, [c EXCEPT !.at = "answered"])
            /\ Writes(c)
       ELSE Serve(c, [c EXCEPT !.at = "failed"]) /\ UNCHANGED <<status, crossed>>
    /\ UNCHANGED <<home, place, locks, password, raced>>

SiteDeleted(c) ==
    /\ c.op = "delete"
    /\ Ends(c, "answered")
    /\ shelf' = [shelf EXCEPT ![c.tab] = [g \in Groups |-> Without(@[g], c.site)]]
    /\ UNCHANGED <<marked, open, screen, hits, sorting, snapshot, dialog, banner>>

-----------------------------------------------------------------------------
(* Sorting                                                                 *)

StartSorting(t, g) ==
    /\ CanAct(t) /\ ~Searching(t) /\ ~Ordering(t) /\ ~IsLocked(t, g)
    /\ sorting[t] = NoGroup
    /\ Len(shelf[t][g]) > 1
    /\ Acts(t)
    /\ snapshot' = [snapshot EXCEPT ![t] = [group |-> g, rows |-> shelf[t][g]]]
    /\ sorting' = [sorting EXCEPT ![t] = g]
    /\ UNCHANGED <<shelf, marked, open, screen, hits, dialog, banner, calls>>

(* The array is rearranged, and all of its rows numbered: a drag there and *)
(* back leaves numbers that the server never gets.                         *)
HandleSiteDragEnd(t, i, j) ==
    LET g == sorting[t]
        moved == InsertAt(RemoveAt(shelf[t][g], i), j, shelf[t][g][i])
    IN
    /\ CanAct(t) /\ g # NoGroup /\ ~Ordering(t)
    /\ {i, j} \subseteq DOMAIN shelf[t][g] /\ i # j
    /\ Event
    /\ Shelve(t, g, [k \in DOMAIN moved |-> [moved[k] EXCEPT !.place = k]])
    /\ UNCHANGED <<Server, marked, open, screen, hits, sorting, snapshot, dialog, banner, calls, crossed, raced>>

FinishSorting(t) ==
    LET g == sorting[t]
        items == SitesOf(shelf[t][g])
        original == SitesOf(snapshot[t].rows)
        changed == \E i \in DOMAIN items : i \notin DOMAIN original \/ items[i] # original[i]
    IN
    /\ CanAct(t) /\ g # NoGroup /\ ~Ordering(t) /\ ~Searching(t)
    /\ snapshot[t].group = g
    /\ Overtakes(t, Mine(t) = {} /\ (changed \/ shelf[t][g] = snapshot[t].rows))
    /\ IF changed
       THEN /\ calls' = calls \cup {[NewCall(t, "order", g, 0) EXCEPT !.rows[g] = shelf[t][g]]}
            /\ UNCHANGED <<sorting, snapshot>>
       ELSE /\ sorting' = [sorting EXCEPT ![t] = NoGroup]
            /\ snapshot' = [snapshot EXCEPT ![t] = NoSnapshot]
            /\ UNCHANGED calls
    /\ UNCHANGED <<Server, shelf, marked, open, screen, hits, dialog, banner, raced, events>>

(* reorder_websites_for_user takes nothing but an order of all the sites.  *)
OrderWritten(c) ==
    LET items == SitesOf(c.rows[c.group])
    IN
    /\ c.op = "order" /\ c.at = "sent"
    /\ IF ToSet(items) = {r.site : r \in RowsOf(c.group)}
       THEN /\ place' = [s \in Sites |-> IF s \in ToSet(items)
                                         THEN CHOOSE i \in DOMAIN items : items[i] = s ELSE place[s]]
            /\ Serve(c, [c EXCEPT !.at = "answered"])
            /\ Writes(c)
       ELSE Serve(c, [c EXCEPT !.at = "failed"]) /\ UNCHANGED <<place, crossed>>
    /\ UNCHANGED <<status, home, locks, password, raced>>

OrderSaved(c) ==
    /\ c.op = "order"
    /\ Ends(c, "answered")
    /\ snapshot' = [snapshot EXCEPT ![c.tab] = NoSnapshot]
    /\ sorting' = [sorting EXCEPT ![c.tab] = NoGroup]
    /\ UNCHANGED <<shelf, marked, open, screen, hits, dialog, banner>>

RestoreSortingSnapshot_KeepsSorting(t) ==
    IF snapshot[t] = NoSnapshot
    THEN UNCHANGED <<shelf, sorting, snapshot>>
    ELSE /\ Shelve(t, snapshot[t].group, snapshot[t].rows)
         /\ snapshot' = [snapshot EXCEPT ![t] = NoSnapshot]
         /\ UNCHANGED sorting
RestoreSortingSnapshot(t) ==
    IF snapshot[t] = NoSnapshot
    THEN UNCHANGED <<shelf, sorting, snapshot>>
    ELSE /\ Shelve(t, snapshot[t].group, snapshot[t].rows)
         /\ sorting' = [sorting EXCEPT ![t] = NoGroup]
         /\ snapshot' = [snapshot EXCEPT ![t] = NoSnapshot]

(* A search gives up a sorting that is not finished; it may meet one that  *)
(* is being saved.                                                         *)
HandleSearchTermChange(t, found) ==
    /\ CanAct(t) /\ found # Sites
    /\ Event
    /\ Overtakes(t, Mine(t) = {})
    /\ hits' = [hits EXCEPT ![t] = found]
    /\ RestoreSortingSnapshot(t)
    /\ UNCHANGED <<Server, marked, open, screen, dialog, banner, calls, raced>>

HandleClearSearch(t) ==
    /\ CanAct(t) /\ Searching(t)
    /\ hits' = [hits EXCEPT ![t] = Sites]
    /\ UNCHANGED <<Server, shelf, marked, open, screen, sorting, snapshot, dialog, banner, calls,
                   crossed, raced, events>>

(* Folding a group ends its sorting and keeps the order that was dragged,  *)
(* and the snapshot.                                                       *)
ToggleGroup(t) ==
    /\ CanAct(t) /\ sorting[t] # NoGroup
    /\ Event
    /\ sorting' = [sorting EXCEPT ![t] = NoGroup]
    /\ Overtakes(t, FALSE)
    /\ UNCHANGED <<Server, shelf, marked, open, screen, hits, snapshot, dialog, banner, calls, raced>>

-----------------------------------------------------------------------------
(* Failures.  A request or its answer is lost, whatever the server did.    *)

CallFails(c) ==
    /\ c.at \notin {"failed", "refused", "missing", "configured"}
    /\ Event
    /\ calls' = (calls \ {c}) \cup {[c EXCEPT !.at = "failed"]}
    /\ crossed' = crossed \cup {c.tab}
    /\ UNCHANGED <<Server, Page, raced>>

(* Locking, unlocking without a dialog and loading replace the page by an  *)
(* error; forms and dialogs show it and stay open.                         *)
FailureShown(c) ==
    /\ c.op \notin {"order"}
    /\ c.at = "failed" \/ (c.op = "setup" /\ c.at = "refused")
    /\ Ends(c, c.at)
    /\ screen' = [screen EXCEPT ![c.tab] =
                    [loading |-> IF c.op = "load" THEN FALSE ELSE @.loading,
                     error |-> @.error \/ c.op \in {"load", "unlock", "lock", "disable"}]]
    /\ UNCHANGED <<shelf, marked, open, hits, sorting, snapshot, dialog, banner>>

OrderFailed(c) ==
    /\ c.op = "order"
    /\ Ends(c, "failed")
    /\ RestoreSortingSnapshot(c.tab)
    /\ UNCHANGED <<marked, open, screen, hits, dialog, banner>>

-----------------------------------------------------------------------------
(* The specification                                                       *)

Serves(c) ==
    \/ ReadGroups(c) \/ ReadSites(c) \/ StatusRead(c) \/ UnlockGroup(c)
    \/ SetLockPassword(c) \/ LockChecked(c) \/ LockInserted(c) \/ LockRemoved(c)
    \/ ClearLockPassword(c) \/ SiteWritten(c) \/ SiteRemoved(c) \/ OrderWritten(c)

GoesOn(c) ==
    \/ Loaded(c) \/ AsksForPassword(c) \/ NeedsNoPassword(c) \/ Unlocked(c)
    \/ LockGoesOn(c) \/ LockNeedsPassword(c) \/ Locked(c) \/ LockDisabled(c)
    \/ LockPasswordCleared(c) \/ SiteSaved(c) \/ SiteDeleted(c)
    \/ OrderSaved(c) \/ OrderFailed(c) \/ FailureShown(c)

UserActs(t) ==
    \/ Reload(t) \/ LanguageChanges(t) \/ HandleClearLockPassword(t)
    \/ SubmitUnlock(t) \/ CloseDialog(t) \/ OpenSetup(t) \/ SubmitSetup(t)
    \/ \E g \in Groups :
        \/ HandleUnlockGroup(t, g) \/ HandleLockGroup(t, g)
        \/ HandleDisableGroupLock(t, g) \/ StartSorting(t, g)
        \/ \E s \in Sites : HandleSaveSite(t, s, g)
    \/ \E s \in Sites : HandleDeleteSite(t, s)
    \/ \E i, j \in Sites : HandleSiteDragEnd(t, i, j)
    \/ \E found \in SUBSET Sites : HandleSearchTermChange(t, found)
    \/ FinishSorting(t) \/ HandleClearSearch(t) \/ ToggleGroup(t)

Next ==
    \/ \E c \in calls : Serves(c) \/ GoesOn(c) \/ CallFails(c)
    \/ \E t \in Tabs : UserActs(t)

Spec == Init /\ [][Next]_vars

-----------------------------------------------------------------------------
(* Properties                                                              *)

(* Every variable has its type.                                            *)
TypeOK ==
    /\ status \in [Sites -> Status]
    /\ home \in [Sites -> Groups]
    /\ place \in [Sites -> 0..MaxSites]
    /\ locks \subseteq Groups /\ password \in BOOLEAN
    /\ \A t \in Tabs, g \in Groups :
        ToSet(shelf[t][g]) \subseteq Row /\ IsInjective(SitesOf(shelf[t][g]))
    /\ marked \in [Tabs -> SUBSET Groups] /\ open \in [Tabs -> SUBSET Groups]
    /\ screen \in [Tabs -> [loading: BOOLEAN, error: BOOLEAN]]
    /\ hits \in [Tabs -> SUBSET Sites]
    /\ sorting \in [Tabs -> Groups \cup {NoGroup}]
    /\ \A t \in Tabs : snapshot[t].group \in Groups \cup {NoGroup}
    /\ dialog \in [Tabs -> Dialog] /\ banner \in [Tabs -> Groups \cup {NoGroup}]
    /\ \A c \in calls : c.tab \in Tabs /\ c.op \in Op
    /\ crossed \subseteq Tabs /\ raced \in BOOLEAN
    /\ events \in 0..MaxEvents

(* A locked group can be opened only with a password: there is one, unless *)
(* it was cleared between the two statements that lock a group.            *)
LockedGroupsHaveAPassword == locks # {} => password \/ raced

(* Whoever is sorting a group can be done with it: what it was before is   *)
(* at hand, however locks, searches, failures and folding end it.          *)
SortingCanBeFinished ==
    \A t \in Tabs : sorting[t] # NoGroup => snapshot[t].group = sorting[t]

(* A page whose handlers came one at a time, and nobody else wrote since   *)
(* it loaded, shows what the server has: the groups that are locked, and   *)
(* the sites of the others in their order.                                 *)
PageIsTrue ==
    \A t \in Tabs \ crossed :
        Mine(t) = {} /\ sorting[t] = NoGroup /\ ~screen[t].loading /\ ~screen[t].error =>
            /\ marked[t] = locks
            /\ \A g \in Groups : ~IsLocked(t, g) => Shown(t, g) = Sorted(RowsOf(g))

(* What a group held is cleared from the page at once when it is locked,   *)
(* and stays out until it is unlocked: but for pages overtaken (a save     *)
(* answered after the lock, a sorting under the lock's requests).          *)
LockedGroupsAreEmpty ==
    \A t \in Tabs \ crossed, g \in Groups : IsLocked(t, g) => shelf[t][g] = <<>>
=============================================================================
