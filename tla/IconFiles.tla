------------------------------ MODULE IconFiles ------------------------------
(***************************************************************************)
(* The files of icons: where they lie, which rows name them, and who       *)
(* removes them.  A desktop client names a file after its content, so two  *)
(* sites and two devices may share one; a web page gives each upload a     *)
(* name of its own.  A save of the web page is read, written, updated and  *)
(* cleaned up in several steps; a sync settles the rows and then moves the *)
(* files one by one, and does not look back at the ones that failed.       *)
(*                                                                         *)
(* Rows are merged as in SyncTables: of each device, the server rows       *)
(* stamped since its cursor and its own rows with the later revision.      *)
(***************************************************************************)
EXTENDS Naturals, FiniteSets

CONSTANTS
    Devices,      \* desktop clients of one account
    Sites,        \* uuids of websites
    DeskFiles,    \* names made of the content of a file
    WebFiles,     \* names the server makes for the uploads of a web page
    EngineFiles,  \* the icons search engines refer to
    NoIcon,       \* the null of local_icon_path
    Racing,       \* may two saves of a site overlap, or a sync and a removal?
    Begun,        \* SUBSET [Sites -> Row]: what the server may have to begin with
    MaxEdits,     \* bound: edits made by users
    MaxFaults     \* bound: transfers that fail, processes that stop

VARIABLES
    rows,    \* [Sites -> Row]                the websites of the server
    table,   \* [Devices -> [Sites -> Row]]   the websites of each device
    unseen,  \* [Devices -> SUBSET Sites]     server rows stamped since the cursor
    later,   \* [Devices -> SUBSET Sites]     local rows with the later revision
    store,   \* [Files -> Copy]               the account's directory on the server
    disk,    \* [Devices -> [Files -> Copy]]  the icons directory of each device
    saves,   \* SUBSET Save                   web requests being handled
    named,   \* SUBSET WebFiles               names the server has made
    sync,    \* [Devices -> Transfers]        what the sync has left to move
    owed,    \* SUBSET Files                  history: asked of a device, and what
             \*                               came of it last was not whole
    stale,   \* SUBSET Icons                  history: kept by a save that had read
             \*                               its row before a sync changed it
    calm,    \* SUBSET Devices  history: nothing but its own sync since that began
    edits,   \* edits made so far
    faults   \* faults so far

vars == <<rows, table, unseen, later, store, disk, saves, named, sync, owed,
          stale, calm, edits, faults>>

-----------------------------------------------------------------------------
(* Values                                                                  *)

Files == DeskFiles \cup WebFiles
Icons == Files \cup {NoIcon}

Row   == [known: BOOLEAN, live: BOOLEAN, icon: Icons]
NoRow == [known |-> FALSE, live |-> FALSE, icon |-> NoIcon]
Site(icon) == [known |-> TRUE, live |-> TRUE, icon |-> icon]

ASSUME IconFilesAssumption ==
    /\ DeskFiles \cap WebFiles = {}
    /\ EngineFiles \subseteq DeskFiles
    /\ NoIcon \notin DeskFiles \cup WebFiles
    /\ Begun \subseteq [Sites -> Row]
    /\ \A rs \in Begun : \A s \in Sites :
        /\ rs[s].known \/ rs[s] = NoRow
        /\ \A t \in Sites : rs[s].icon \in WebFiles /\ rs[t].icon = rs[s].icon => t = s
    /\ Racing \in BOOLEAN
    /\ MaxEdits \in Nat
    /\ MaxFaults \in Nat

(* A file that is there may have been cut short.                           *)
Copy == {"none", "part", "whole"}

(* A save: what it read, what it will store, and where it is.              *)
Save == [site: Sites, old: Icons, icon: Icons, upload: BOOLEAN,
         at: {"insert", "update", "count", "unlink"}]

(* A sync: what is left to move, and the file the server is receiving.     *)
Transfers == [up: SUBSET Files, down: SUBSET Files, sending: Icons]
Idle      == [up |-> {}, down |-> {}, sending |-> NoIcon]

Present(dir) == {f \in Files : dir[f] # "none"}
NamedBy(rs)  == {rs[s].icon : s \in {t \in Sites : rs[t].live}} \ {NoIcon}

(* final_required_icons: what live sites and search engines refer to.      *)
Required(rs) == NamedBy(rs) \cup EngineFiles

(* remove_icon_if_unreferenced counts the same rows.                       *)
Referenced_SitesOnly(f) == f \in NamedBy(rows)
Referenced(f) == f \in Required(rows)

Fresh(s) ==
    /\ ~rows[s].known /\ \A d \in Devices : ~table[d][s].known
    /\ \A q \in saves : q.site # s

Known(rs) == {s \in Sites : rs[s].known}

(* Every device is new to the account.                                     *)
Init ==
    /\ rows \in Begun
    /\ table = [d \in Devices |-> [s \in Sites |-> NoRow]]
    /\ unseen = [d \in Devices |-> Known(rows)]
    /\ later = [d \in Devices |-> {}]
    /\ store = [f \in Files |-> IF f \in Required(rows) THEN "whole" ELSE "none"]
    /\ disk = [d \in Devices |-> [f \in Files |-> "none"]]
    /\ saves = {}
    /\ named = {rows[s].icon : s \in Sites} \cap WebFiles
    /\ sync = [d \in Devices |-> Idle]
    /\ owed = {}
    /\ stale = {}
    /\ calm = {}
    /\ edits = 0
    /\ faults = 0

Edit ==
    /\ edits < MaxEdits
    /\ edits' = edits + 1
    /\ calm' = {}
    /\ UNCHANGED <<stale, faults>>

Disturbs == calm' = {} /\ UNCHANGED <<edits, faults>>
Carries(d) == calm' = calm \cap {d} /\ UNCHANGED <<stale, edits, faults>>

(* A write stamps its row, and every device has it yet to see.             *)
Stamp(s, row) ==
    /\ rows' = [rows EXCEPT ![s] = row]
    /\ unseen' = [d \in Devices |-> unseen[d] \cup {s}]

-----------------------------------------------------------------------------
(* The web page: navigation_service.                                       *)

(* Written under a temporary name and renamed: there and whole at once.    *)
WriteWebsiteIcon(f) == store' = [store EXCEPT ![f] = "whole"]

Unlinked(f) == [store EXCEPT ![f] = "none"]

Begin(q) == saves' = saves \cup {q}
Replace(q, at) == saves' = (saves \ {q}) \cup {[q EXCEPT !.at = at]}
Done(q) == saves' = saves \ {q}

(* create_website_for_user with an icon: the file, then the row.           *)
CreateWebsite(s, f) ==
    /\ Edit
    /\ Fresh(s)
    /\ f \in WebFiles \ named
    /\ WriteWebsiteIcon(f)
    /\ named' = named \cup {f}
    /\ Begin([site |-> s, old |-> NoIcon, icon |-> f, upload |-> TRUE, at |-> "insert"])
    /\ UNCHANGED <<rows, table, unseen, later, disk, sync, owed>>

(* update_website_for_user reads the icon of the live row first.           *)
MayUpdate(s) ==
    /\ rows[s].live
    /\ Racing \/ \A q \in saves : q.site # s

UpdateWithUpload(s, f) ==
    /\ Edit
    /\ MayUpdate(s)
    /\ f \in WebFiles \ named
    /\ WriteWebsiteIcon(f)
    /\ named' = named \cup {f}
    /\ Begin([site |-> s, old |-> rows[s].icon, icon |-> f, upload |-> TRUE, at |-> "update"])
    /\ UNCHANGED <<rows, table, unseen, later, disk, sync, owed>>

(* Without a file the old path is kept, or reset to none.                  *)
UpdateWithoutUpload(s, icon) ==
    /\ Edit
    /\ MayUpdate(s)
    /\ icon \in {rows[s].icon, NoIcon}
    /\ Begin([site |-> s, old |-> rows[s].icon, icon |-> icon, upload |-> FALSE, at |-> "update"])
    /\ UNCHANGED <<rows, table, unseen, later, store, disk, named, sync, owed>>

(* The old file is cleaned up when the path changed and was not null.      *)
Superseded(q) == q.old \notin {q.icon, NoIcon}

(* The icon it keeps is not the one the row has by now.                    *)
Overwrites(q) == rows[q.site].live /\ q.icon = q.old /\ q.icon # rows[q.site].icon

(* The update concerns a live row only; that it changed one is not asked.  *)
SaveRow(q) ==
    /\ q.at \in {"insert", "update"}
    /\ stale' = IF Overwrites(q) THEN stale \cup {q.icon} ELSE stale
    /\ IF q.at = "insert" \/ rows[q.site].live
       THEN Stamp(q.site, Site(q.icon))
       ELSE UNCHANGED <<rows, unseen>>
    /\ IF Superseded(q) THEN Replace(q, "count") ELSE Done(q)
    /\ Disturbs
    /\ UNCHANGED <<table, later, store, disk, named, sync, owed>>

(* A failed statement takes the new file with it.                          *)
ToDiscard(q) == IF q.upload THEN q.icon ELSE NoIcon

SaveRowFails(q) ==
    /\ q.at \in {"insert", "update"}
    /\ store' = IF ToDiscard(q) = NoIcon THEN store ELSE Unlinked(ToDiscard(q))
    /\ Done(q)
    /\ Disturbs
    /\ UNCHANGED <<rows, table, unseen, later, disk, named, sync, owed, stale>>

(* remove_icon_if_unreferenced: count, then unlink.                        *)
CountReferences(q) ==
    /\ q.at = "count"
    /\ IF Referenced(q.old) THEN Done(q) ELSE Replace(q, "unlink")
    /\ Disturbs
    /\ UNCHANGED <<rows, table, unseen, later, store, disk, named, sync, owed, stale>>

RemoveIcon(q) ==
    /\ q.at = "unlink"
    /\ store' = Unlinked(q.old)
    /\ Done(q)
    /\ Disturbs
    /\ UNCHANGED <<rows, table, unseen, later, disk, named, sync, owed, stale>>

(* delete_website_for_user leaves a tombstone, and the file.               *)
DeleteWebsite(s) ==
    /\ Edit
    /\ rows[s].live
    /\ Stamp(s, [rows[s] EXCEPT !.live = FALSE])
    /\ UNCHANGED <<table, later, store, disk, saves, named, sync, owed>>

-----------------------------------------------------------------------------
(* A device.  The sync holds a modal dialog over the window, so its user   *)
(* edits between syncs.                                                    *)

AtRest(d) == sync[d] = Idle

LocalEdit(d, s, row) ==
    /\ Edit
    /\ AtRest(d)
    /\ table' = [table EXCEPT ![d][s] = row]
    /\ later' = [later EXCEPT ![d] = @ \cup {s}]
    /\ UNCHANGED <<rows, unseen, store, saves, named, sync, owed>>

(* The form fetches a favicon or takes a file; one that is there already,  *)
(* whole or not, is not written again.                                     *)
SaveItemWithIcon(d, s, f) ==
    /\ f \in DeskFiles
    /\ table[d][s].live \/ Fresh(s)
    /\ disk' = [disk EXCEPT ![d][f] = IF @ = "none" THEN "whole" ELSE @]
    /\ LocalEdit(d, s, Site(f))

SaveItem(d, s, icon) ==
    /\ table[d][s].live
    /\ icon \in {table[d][s].icon, NoIcon}
    /\ LocalEdit(d, s, Site(icon))
    /\ UNCHANGED disk

DeleteItem(d, s) ==
    /\ table[d][s].live
    /\ LocalEdit(d, s, [table[d][s] EXCEPT !.live = FALSE])
    /\ UNCHANGED disk

(* deleteUserWithData: the rows go by cascade, and then every file that no *)
(* row names.  Signed in again, the device pulls from the start.           *)
DeleteUserWithData(d) ==
    /\ Edit
    /\ AtRest(d)
    /\ table' = [table EXCEPT ![d] = [s \in Sites |-> NoRow]]
    /\ later' = [later EXCEPT ![d] = {}]
    /\ unseen' = [unseen EXCEPT ![d] = Known(rows)]
    /\ disk' = [disk EXCEPT ![d] = [f \in Files |-> "none"]]
    /\ UNCHANGED <<rows, store, saves, named, sync, owed>>

-----------------------------------------------------------------------------
(* A sync: the rows and the difference of the two listings.                *)

(* The gate: a row stamped since the cursor wins over the upload.          *)
MergedRows(d) ==
    [s \in Sites |-> IF s \in later[d] \ unseen[d] THEN table[d][s] ELSE rows[s]]

(* calculate_icon_diffs                                                    *)
ToUpload(rs, mine)   == (Required(rs) \cap Present(mine)) \ Present(store)
ToDownload(rs, mine) == (Required(rs) \cap Present(store)) \ Present(mine)

Settle(d, rs, up, down) ==
    /\ rows' = rs
    /\ table' = [table EXCEPT ![d] = rs]
    /\ unseen' = [e \in Devices |->
           IF e = d THEN {} ELSE unseen[e] \cup (later[d] \ unseen[d])]
    /\ later' = [later EXCEPT ![d] = {}]
    /\ sync' = [sync EXCEPT ![d] = [up |-> up, down |-> down, sending |-> NoIcon]]
    /\ owed' = owed \cup up
    /\ calm' = {d}
    /\ UNCHANGED <<store, disk, saves, named, stale, edits, faults>>

NewsFor(d) ==
    \/ later[d] # {} \/ unseen[d] # {}
    \/ ToUpload(rows, disk[d]) # {} \/ ToDownload(rows, disk[d]) # {}

Exchange(d) ==
    /\ AtRest(d)
    /\ NewsFor(d)
    /\ Racing \/ \A q \in saves : q.at # "unlink"
    /\ LET rs == MergedRows(d)
       IN Settle(d, rs, ToUpload(rs, disk[d]), ToDownload(rs, disk[d]))

-----------------------------------------------------------------------------
(* ... and the files one by one: uploads, then downloads.                  *)

Left(t, f) == [Idle EXCEPT !.up = t.up \ {f}, !.down = t.down \ {f}]
MoveOn(d, f) == sync' = [sync EXCEPT ![d] = Left(@, f)]

Transfer(d) ==
    /\ sync[d].sending = NoIcon
    /\ UNCHANGED <<rows, table, unseen, later, saves, named>>

(* icon_upload_handler writes the file in place.                           *)
UploadIcon(d, f) ==
    /\ Transfer(d)
    /\ f \in sync[d].up
    /\ store' = [store EXCEPT ![f] = "part"]
    /\ owed' = owed \cup {f}
    /\ sync' = [sync EXCEPT ![d].sending = f]
    /\ Carries(d)
    /\ UNCHANGED disk

UploadDone(d) ==
    /\ sync[d].sending # NoIcon
    /\ LET f == sync[d].sending
       IN /\ store' = [store EXCEPT ![f] = disk[d][f]]
          /\ owed' = IF disk[d][f] = "whole" THEN owed \ {f} ELSE owed \cup {f}
          /\ MoveOn(d, f)
    /\ Carries(d)
    /\ UNCHANGED <<rows, table, unseen, later, disk, saves, named>>

(* download_icon receives the file, and then writes it in place.           *)
MayDownload(d, f) ==
    /\ sync[d].up = {}
    /\ f \in sync[d].down
    /\ store[f] # "none"

DownloadIcon(d, f) ==
    /\ Transfer(d)
    /\ MayDownload(d, f)
    /\ disk' = [disk EXCEPT ![d][f] = store[f]]
    /\ MoveOn(d, f)
    /\ Carries(d)
    /\ UNCHANGED <<store, owed>>

(* uploadIcons and downloadIcons log a failure and go on.                  *)
Skip(d, f) ==
    /\ Transfer(d)
    /\ MoveOn(d, f)
    /\ UNCHANGED <<store, disk, owed>>

DownloadRefused(d, f) ==
    /\ sync[d].up = {}
    /\ f \in sync[d].down
    /\ store[f] = "none"
    /\ Skip(d, f)
    /\ Carries(d)

-----------------------------------------------------------------------------
(* Faults: a transfer fails, or a process stops anywhere; files stay as    *)
(* they are.                                                               *)

Fault ==
    /\ faults < MaxFaults
    /\ faults' = faults + 1
    /\ calm' = {}
    /\ UNCHANGED <<stale, edits>>

TransferFails(d, f) ==
    /\ Fault
    /\ f \in sync[d].up \/ MayDownload(d, f)
    /\ Skip(d, f)

ServerStops ==
    /\ Fault
    /\ saves # {} \/ \E d \in Devices : sync[d].sending # NoIcon
    /\ saves' = {}
    /\ sync' = [d \in Devices |->
           IF sync[d].sending = NoIcon THEN sync[d] ELSE Left(sync[d], sync[d].sending)]
    /\ UNCHANGED <<rows, table, unseen, later, store, disk, named, owed>>

(* An upload the server has received is written all the same.              *)
DeviceStops(d) ==
    /\ Fault
    /\ ~AtRest(d)
    /\ Transfer(d)
    /\ \/ UNCHANGED disk
       \/ \E f \in Files : MayDownload(d, f) /\ disk' = [disk EXCEPT ![d][f] = "part"]
    /\ sync' = [sync EXCEPT ![d] = Idle]
    /\ UNCHANGED <<store, owed>>

-----------------------------------------------------------------------------
(* The specification                                                       *)

SaveStep ==
    \E q \in saves : SaveRow(q) \/ SaveRowFails(q) \/ CountReferences(q) \/ RemoveIcon(q)

WebEdit ==
    \E s \in Sites :
        \/ \E f \in WebFiles : CreateWebsite(s, f) \/ UpdateWithUpload(s, f)
        \/ \E icon \in Icons : UpdateWithoutUpload(s, icon)
        \/ DeleteWebsite(s)

DeviceEdit(d) ==
    \/ \E s \in Sites :
        \/ \E f \in DeskFiles : SaveItemWithIcon(d, s, f)
        \/ \E icon \in Icons : SaveItem(d, s, icon)
        \/ DeleteItem(d, s)
    \/ DeleteUserWithData(d)

Move(d) ==
    \/ \E f \in Files : UploadIcon(d, f) \/ DownloadIcon(d, f) \/ DownloadRefused(d, f)
    \/ UploadDone(d)

DeviceFault(d) ==
    \/ \E f \in Files : TransferFails(d, f)
    \/ DeviceStops(d)

Next ==
    \/ WebEdit
    \/ SaveStep
    \/ \E d \in Devices : DeviceEdit(d) \/ Exchange(d) \/ Move(d) \/ DeviceFault(d)
    \/ ServerStops

Spec == Init /\ [][Next]_vars

-----------------------------------------------------------------------------
(* Properties                                                              *)

(* Every variable has its type.                                            *)
TypeOK ==
    /\ rows \in [Sites -> Row]
    /\ table \in [Devices -> [Sites -> Row]]
    /\ unseen \in [Devices -> SUBSET Sites]
    /\ later \in [Devices -> SUBSET Sites]
    /\ store \in [Files -> Copy]
    /\ disk \in [Devices -> [Files -> Copy]]
    /\ saves \subseteq Save
    /\ \A q \in saves : q.at \in {"count", "unlink"} => q.old \in Files
    /\ named \subseteq WebFiles
    /\ sync \in [Devices -> Transfers]
    /\ owed \subseteq Files /\ stale \subseteq Icons
    /\ calm \subseteq Devices
    /\ edits \in 0..MaxEdits
    /\ faults \in 0..MaxFaults

(* A live site whose icon was uploaded by a web page finds it on the       *)
(* server, whole: whatever saves fail, whatever is cleaned up after        *)
(* others, whatever devices send and wherever the server faults.            *)
WebIconsAreThere ==
    \A f \in NamedBy(rows) \cap WebFiles : store[f] = "whole"

(* No icon that a live site or a search engine refers to is lost: a whole  *)
(* copy is on the server, unless it asked a device for it and what came    *)
(* last was cut short or nothing, a failure that is only logged - or a     *)
(* save kept it that had read its row before a sync changed it.            *)
NoIconIsLost == \A f \in Required(rows) : store[f] = "whole" \/ f \in owed \cup stale

(* One sync makes up for whatever failed before it: when it has gone       *)
(* through, and nothing else happened meanwhile, the rows are the same on  *)
(* both sides, and so are the icons they need.                             *)
ASyncMakesGood ==
    \A d \in calm : AtRest(d) =>
        /\ table[d] = rows
        /\ \A f \in Required(rows) : f \in Present(store) <=> f \in Present(disk[d])
=============================================================================
