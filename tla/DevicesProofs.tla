--------------------------- MODULE DevicesProofs ---------------------------
(***************************************************************************)
(* The icon files of devices, web pages and their server, as MCDevices     *)
(* checks them: for any number of devices, sites, files, edits and faults, *)
(* what a web page uploaded for a live site is there, no icon in use is    *)
(* lost but as the property says, and one sync makes up for failures.      *)
(*                                                                         *)
(* The inductive invariant says, in this order: that an icon of the web    *)
(* page belongs to one site; what a save under way may write and may       *)
(* remove; that a device names what it has, or what the server names too;  *)
(* what a sync may move; that a file cut short on the server is owed; and  *)
(* what a sync that was not disturbed has left to do.                      *)
(***************************************************************************)
EXTENDS MCDevices, TLAPS

-----------------------------------------------------------------------------
(* The invariant                                                           *)

(* A row of the site, on either side, or a save of it has to do with f.    *)
Holds(s, f) ==
    \/ rows[s].icon = f
    \/ \E d \in Devices : table[d][s].icon = f
    \/ \E q \in saves : q.site = s /\ f \in {q.icon, q.old}

(* A row nobody knows is empty.                                            *)
RowsOK ==
    /\ \A s \in Sites : rows[s].known \/ rows[s] = NoRow
    /\ \A d \in Devices, s \in Sites : table[d][s].known \/ table[d][s] = NoRow

(* A name of the web page was made by the server, for one site.            *)
Owned ==
    \A f \in WebFiles, s \in Sites : Holds(s, f) =>
        f \in named /\ \A t \in Sites : Holds(t, f) => t = s

(* The statement of the save is still to come.                             *)
Writing(q) == q.at \in {"insert", "update"}

(* What a save uploaded nobody else names, and what it will write is       *)
(* there. What it will clean up is not the icon of its live site, and past *)
(* the count not that of anything, but for a stale save.                   *)
SaveOK(q) ==
    /\ q.at = "insert" => q.upload
    /\ Writing(q) =>
        IF q.upload
        THEN /\ q.icon \in WebFiles /\ q.icon # q.old /\ rows[q.site].icon # q.icon
             /\ \A d \in Devices : table[d][q.site].icon # q.icon
        ELSE q.icon \in {q.old, NoIcon}
    /\ Writing(q) /\ q.icon \in WebFiles => store[q.icon] = "whole"
    /\ ~Writing(q) /\ q.old \in WebFiles => ~(rows[q.site].live /\ rows[q.site].icon = q.old)
    /\ q.at = "unlink" /\ q.old \in Required(rows) => q.old \in stale

(* One save of a site at a time.                                           *)
SavesOK ==
    /\ \A q, r \in saves : q.site = r.site => q = r
    /\ \A q \in saves : SaveOK(q)

(* Rows a device has seen are those of the server but for its own edits,   *)
(* and name nothing of the device, a file it has, or what the server's     *)
(* live row names.                                                         *)
SeenOK ==
    \A d \in Devices, s \in Sites : s \notin unseen[d] =>
        /\ s \in later[d] \/ table[d][s] = rows[s]
        /\ table[d][s].live =>
            LET f == table[d][s].icon
            IN \/ f = NoIcon
               \/ f \in DeskFiles /\ disk[d][f] # "none"
               \/ rows[s].live /\ rows[s].icon = f

(* A sync sends files of devices that are there, and fetches files that    *)
(* are not.                                                                *)
SyncOK ==
    \A d \in Devices :
        /\ sync[d].up \subseteq DeskFiles
        /\ \A f \in sync[d].up : disk[d][f] # "none"
        /\ \A f \in sync[d].down : disk[d][f] = "none"
        /\ sync[d].sending \in sync[d].up \cup {NoIcon}

(* A file cut short on the server is owed.                                 *)
PartOwed == \A f \in Files : store[f] = "part" => f \in owed

(* After an exchange, and nothing but its sync since, the rows are the     *)
(* same, and so are the icons they need but for those the sync has left.   *)
CalmOK ==
    \A d \in calm :
        /\ table[d] = rows
        /\ \A f \in Required(rows) :
            \/ f \in sync[d].up
            \/ f \in sync[d].down
            \/ f \in Present(store) <=> f \in Present(disk[d])

(* The invariant.                                                          *)
IconInv ==
    TypeOK /\ RowsOK /\ Owned /\ SavesOK /\ SeenOK /\ SyncOK /\ PartOwed /\ CalmOK
    /\ NoIconIsLost /\ WebIconsAreThere

-----------------------------------------------------------------------------
(* Operators                                                               *)

(* What rows refer to, spelled out.                                        *)
LEMMA Needed ==
  ASSUME NEW rs, NEW f
  PROVE  f \in Required(rs) <=>
            f \in EngineFiles \/ (f # NoIcon /\ \E s \in Sites : rs[s].live /\ rs[s].icon = f)
BY DEF Required, NamedBy

(* Rows.                                                                   *)
LEMMA LiveIsKnown ==
  ASSUME NEW r \in Row, r.known \/ r = NoRow, r.live
  PROVE  r.known
BY DEF NoRow

LEMMA Buried ==
  ASSUME NEW r \in Row
  PROVE  /\ [r EXCEPT !.live = FALSE] \in Row
         /\ [r EXCEPT !.live = FALSE].known = r.known
         /\ [r EXCEPT !.live = FALSE].icon = r.icon
         /\ [r EXCEPT !.live = FALSE].live = FALSE
<1>1. r.known \in BOOLEAN /\ r.icon \in Icons /\ r = [known |-> r.known, live |-> r.live, icon |-> r.icon]
  BY DEF Row
<1> QED BY <1>1 DEF Row

LEMMA NewSite ==
  ASSUME NEW icon \in Icons
  PROVE  /\ Site(icon) \in Row
         /\ Site(icon).known /\ Site(icon).live /\ Site(icon).icon = icon
BY DEF Site, Row

LEMMA NothingThere == NoRow \in Row /\ ~NoRow.known /\ ~NoRow.live /\ NoRow.icon = NoIcon
BY DEF NoRow, Row, Icons

(* A save is not disturbed when its row stays and its file stays whole,    *)
(* and a file past the count is not referred to anew.                      *)
LEMMA SaveStays ==
  ASSUME NEW q \in saves, SaveOK(q), stale \subseteq stale',
         rows'[q.site] = rows[q.site],
         \A d \in Devices : table'[d][q.site] = table[d][q.site],
         Writing(q) /\ q.icon \in WebFiles => store'[q.icon] = "whole",
         q.at = "unlink" /\ q.old \in Required(rows') => q.old \in Required(rows) \cup stale'
  PROVE  SaveOK(q)'
BY DEF SaveOK, Writing

(* A save that goes on.                                                    *)
LEMMA NextSave ==
  ASSUME NEW q \in Save, NEW at \in {"insert", "update", "count", "unlink"}
  PROVE  /\ [q EXCEPT !.at = at] \in Save
         /\ [q EXCEPT !.at = at].at = at
         /\ [q EXCEPT !.at = at].site = q.site
         /\ [q EXCEPT !.at = at].old = q.old
         /\ [q EXCEPT !.at = at].icon = q.icon
<1>1. q = [site |-> q.site, old |-> q.old, icon |-> q.icon, upload |-> q.upload, at |-> q.at]
  BY DEF Save
<1> QED BY <1>1 DEF Save

-----------------------------------------------------------------------------
(* The steps                                                               *)

(* A new site names a file that nobody has named before.                   *)
LEMMA CreateWebsiteKeeps ==
  ASSUME IconInv, ~Racing, NEW s \in Sites, NEW f \in WebFiles, CreateWebsite(s, f)
  PROVE  IconInv'
<1> USE IconFilesAssumption DEF IconInv, CreateWebsite, Edit, Fresh, WriteWebsiteIcon, Begin, Files, Icons
<1>1. TypeOK'
  <2>0. PICK n : n = [site |-> s, old |-> NoIcon, icon |-> f, upload |-> TRUE, at |-> "insert"]
    OBVIOUS
  <2>1. n \in Save /\ n.site = s /\ n.old = NoIcon /\ n.icon = f /\ n.upload = TRUE /\ n.at = "insert"
    BY <2>0 DEF Save, TypeOK, Row
  <2>2. saves' = saves \cup {n}
    BY <2>0
  <2>3. saves' \subseteq Save /\ \A q \in saves' : q.at \in {"count", "unlink"} => q.old \in Files
    BY <2>1, <2>2 DEF TypeOK
  <2>4. store' \in [Files -> Copy] /\ edits' \in 0..MaxEdits
    BY DEF TypeOK, Copy
  <2> QED
    BY <2>3, <2>4 DEF TypeOK
<1>2. RowsOK'
  BY DEF RowsOK, TypeOK, Row, NoRow
<1>3. Owned'
  BY DEF Owned, Holds, TypeOK, Save
<1>4. SavesOK'
  <2>0. PICK n : n = [site |-> s, old |-> NoIcon, icon |-> f, upload |-> TRUE, at |-> "insert"]
    OBVIOUS
  <2>1. n \in Save /\ n.site = s /\ n.old = NoIcon /\ n.icon = f /\ n.upload = TRUE /\ n.at = "insert"
    BY <2>0 DEF Save, TypeOK, Row
  <2>2. saves' = saves \cup {n}
    BY <2>0
  <2>3. \A q, r \in saves' : q.site = r.site => q = r
    BY <2>1, <2>2 DEF SavesOK
  <2>4. ASSUME NEW q \in saves PROVE SaveOK(q)'
    <3>1. Writing(q) /\ q.icon \in WebFiles => store'[q.icon] = "whole"
      BY DEF SavesOK, SaveOK, TypeOK
    <3> QED
      BY <3>1, SaveStays DEF SavesOK
  <2>5. SaveOK(n)'
    <3>1. \A t \in Sites : rows[t].icon # f /\ \A d \in Devices : table[d][t].icon # f
      BY DEF Owned, Holds
    <3>2. store'[f] = "whole"
      BY DEF TypeOK
    <3> QED
      BY <2>1, <3>1, <3>2 DEF SaveOK, Writing
  <2> QED
    BY <2>2, <2>3, <2>4, <2>5 DEF SavesOK
<1>5. SeenOK'
  BY DEF SeenOK, TypeOK, Row
<1>6. SyncOK'
  BY DEF SyncOK, TypeOK, Transfers, Idle
<1>7. PartOwed'
  BY DEF PartOwed, TypeOK, Copy
<1>8. CalmOK'
  BY DEF CalmOK, TypeOK, Present, Required, NamedBy
<1>9. NoIconIsLost'
  BY DEF NoIconIsLost, TypeOK, Required, NamedBy
<1>10. WebIconsAreThere'
  BY DEF WebIconsAreThere, TypeOK, NamedBy
<1> QED BY <1>1, <1>2, <1>3, <1>4, <1>5, <1>6, <1>7, <1>8, <1>9, <1>10

(* An upload makes a name that no row and no other save has.               *)
LEMMA UpdateWithUploadKeeps ==
  ASSUME IconInv, ~Racing, NEW s \in Sites, NEW f \in WebFiles, UpdateWithUpload(s, f)
  PROVE  IconInv'
<1> USE IconFilesAssumption DEF IconInv, UpdateWithUpload, Edit, MayUpdate, WriteWebsiteIcon, Begin, Files, Icons
<1>1. TypeOK'
  <2>0. PICK n : n = [site |-> s, old |-> rows[s].icon, icon |-> f, upload |-> TRUE, at |-> "update"]
    OBVIOUS
  <2>1. n \in Save /\ n.site = s /\ n.old = rows[s].icon /\ n.icon = f /\ n.upload = TRUE /\ n.at = "update"
    BY <2>0 DEF Save, TypeOK, Row
  <2>2. saves' = saves \cup {n}
    BY <2>0
  <2>3. saves' \subseteq Save /\ \A q \in saves' : q.at \in {"count", "unlink"} => q.old \in Files
    BY <2>1, <2>2 DEF TypeOK
  <2>4. store' \in [Files -> Copy] /\ edits' \in 0..MaxEdits
    BY DEF TypeOK, Copy
  <2> QED
    BY <2>3, <2>4 DEF TypeOK
<1>2. RowsOK'
  BY DEF RowsOK, TypeOK, Row, NoRow
<1>3. Owned'
  BY DEF Owned, Holds, TypeOK, Save
<1>4. SavesOK'
  <2>0. PICK n : n = [site |-> s, old |-> rows[s].icon, icon |-> f, upload |-> TRUE, at |-> "update"]
    OBVIOUS
  <2>1. n \in Save /\ n.site = s /\ n.old = rows[s].icon /\ n.icon = f /\ n.upload = TRUE /\ n.at = "update"
    BY <2>0 DEF Save, TypeOK, Row
  <2>2. saves' = saves \cup {n}
    BY <2>0
  <2>3. \A q, r \in saves' : q.site = r.site => q = r
    BY <2>1, <2>2 DEF SavesOK
  <2>4. ASSUME NEW q \in saves PROVE SaveOK(q)'
    <3>1. Writing(q) /\ q.icon \in WebFiles => store'[q.icon] = "whole"
      BY DEF SavesOK, SaveOK, TypeOK
    <3> QED
      BY <3>1, SaveStays DEF SavesOK
  <2>5. SaveOK(n)'
    <3>1. \A t \in Sites : rows[t].icon # f /\ \A d \in Devices : table[d][t].icon # f
      BY DEF Owned, Holds
    <3>2. store'[f] = "whole"
      BY DEF TypeOK
    <3> QED
      BY <2>1, <3>1, <3>2 DEF SaveOK, Writing
  <2> QED
    BY <2>2, <2>3, <2>4, <2>5 DEF SavesOK
<1>5. SeenOK'
  BY DEF SeenOK, TypeOK, Row
<1>6. SyncOK'
  BY DEF SyncOK, TypeOK, Transfers, Idle
<1>7. PartOwed'
  BY DEF PartOwed, TypeOK, Copy
<1>8. CalmOK'
  BY DEF CalmOK, TypeOK, Present, Required, NamedBy
<1>9. NoIconIsLost'
  BY DEF NoIconIsLost, TypeOK, Required, NamedBy
<1>10. WebIconsAreThere'
  BY DEF WebIconsAreThere, TypeOK, NamedBy
<1> QED BY <1>1, <1>2, <1>3, <1>4, <1>5, <1>6, <1>7, <1>8, <1>9, <1>10

(* A save that keeps the icon read it from a live row: the file is there.  *)
LEMMA UpdateWithoutUploadKeeps ==
  ASSUME IconInv, ~Racing, NEW s \in Sites, NEW icon \in Icons, UpdateWithoutUpload(s, icon)
  PROVE  IconInv'
<1> USE IconFilesAssumption DEF IconInv, UpdateWithoutUpload, Edit, MayUpdate, Begin, Files, Icons
<1>1. TypeOK'
  <2>0. PICK n : n = [site |-> s, old |-> rows[s].icon, icon |-> icon, upload |-> FALSE, at |-> "update"]
    OBVIOUS
  <2>1. n \in Save /\ n.site = s /\ n.old = rows[s].icon /\ n.icon = icon /\ n.upload = FALSE /\ n.at = "update"
    BY <2>0 DEF Save, TypeOK, Row
  <2>2. saves' = saves \cup {n}
    BY <2>0
  <2>3. saves' \subseteq Save /\ \A q \in saves' : q.at \in {"count", "unlink"} => q.old \in Files
    BY <2>1, <2>2 DEF TypeOK
  <2>4. edits' \in 0..MaxEdits
    BY DEF TypeOK, Copy
  <2> QED
    BY <2>3, <2>4 DEF TypeOK
<1>2. RowsOK'
  BY DEF RowsOK, TypeOK, Row, NoRow
<1>3. Owned'
  BY DEF Owned, Holds, TypeOK, Save
<1>4. SavesOK'
  <2>0. PICK n : n = [site |-> s, old |-> rows[s].icon, icon |-> icon, upload |-> FALSE, at |-> "update"]
    OBVIOUS
  <2>1. n \in Save /\ n.site = s /\ n.old = rows[s].icon /\ n.icon = icon /\ n.upload = FALSE /\ n.at = "update"
    BY <2>0 DEF Save, TypeOK, Row
  <2>2. saves' = saves \cup {n}
    BY <2>0
  <2>3. \A q, r \in saves' : q.site = r.site => q = r
    BY <2>1, <2>2 DEF SavesOK
  <2>4. ASSUME NEW q \in saves PROVE SaveOK(q)'
    <3>1. Writing(q) /\ q.icon \in WebFiles => store'[q.icon] = "whole"
      BY DEF SavesOK, SaveOK, TypeOK
    <3> QED
      BY <3>1, SaveStays DEF SavesOK
  <2>5. SaveOK(n)'
    <3>1. icon \in WebFiles => store[icon] = "whole"
      BY DEF WebIconsAreThere, NamedBy
    <3> QED
      BY <2>1, <3>1 DEF SaveOK, Writing
  <2> QED
    BY <2>2, <2>3, <2>4, <2>5 DEF SavesOK
<1>5. SeenOK'
  BY DEF SeenOK, TypeOK, Row
<1>6. SyncOK'
  BY DEF SyncOK, TypeOK, Transfers, Idle
<1>7. PartOwed'
  BY DEF PartOwed, TypeOK, Copy
<1>8. CalmOK'
  BY DEF CalmOK, TypeOK, Present, Required, NamedBy
<1>9. NoIconIsLost'
  BY DEF NoIconIsLost, TypeOK, Required, NamedBy
<1>10. WebIconsAreThere'
  BY DEF WebIconsAreThere, TypeOK, NamedBy
<1> QED BY <1>1, <1>2, <1>3, <1>4, <1>5, <1>6, <1>7, <1>8, <1>9, <1>10

(* A tombstone names nothing, and no device has seen it yet.               *)
LEMMA DeleteWebsiteKeeps ==
  ASSUME IconInv, ~Racing, NEW s \in Sites, DeleteWebsite(s)
  PROVE  IconInv'
<1> USE IconFilesAssumption DEF IconInv, DeleteWebsite, Edit, Stamp, Files, Icons
<1>1. TypeOK'
  <2>1. [rows[s] EXCEPT !.live = FALSE] \in Row
    BY Buried DEF TypeOK
  <2>2. rows' \in [Sites -> Row] /\ unseen' \in [Devices -> SUBSET Sites] /\ edits' \in 0..MaxEdits
    BY <2>1 DEF TypeOK
  <2> QED
    BY <2>2 DEF TypeOK
<1>2. RowsOK'
  <2>1. [rows[s] EXCEPT !.live = FALSE].known
    BY Buried, LiveIsKnown DEF RowsOK, TypeOK
  <2>2. table' = table /\ rows' = [rows EXCEPT ![s] = [rows[s] EXCEPT !.live = FALSE]]
    OBVIOUS
  <2> QED
    BY <2>1, <2>2 DEF RowsOK, TypeOK
<1>3. Owned'
  BY DEF Owned, Holds, TypeOK, Save
<1>4. SavesOK'
  BY DEF SavesOK, SaveOK, Writing, TypeOK, Save, Owned, Holds, Required, NamedBy
<1>5. SeenOK'
  BY DEF SeenOK, TypeOK, Row
<1>6. SyncOK'
  BY DEF SyncOK, TypeOK, Transfers, Idle
<1>7. PartOwed'
  BY DEF PartOwed, TypeOK, Copy
<1>8. CalmOK'
  BY DEF CalmOK, TypeOK, Present, Required, NamedBy
<1>9. NoIconIsLost'
  BY DEF NoIconIsLost, TypeOK, Required, NamedBy
<1>10. WebIconsAreThere'
  BY DEF WebIconsAreThere, TypeOK, NamedBy
<1> QED BY <1>1, <1>2, <1>3, <1>4, <1>5, <1>6, <1>7, <1>8, <1>9, <1>10

(* The row gets a file that is there, or one that is noted as stale; the   *)
(* file to clean up is no longer the one of its site.                      *)
LEMMA SaveRowKeeps ==
  ASSUME IconInv, ~Racing, NEW q \in saves, SaveRow(q)
  PROVE  IconInv'
<1> USE IconFilesAssumption DEF IconInv, SaveRow, Stamp, Replace, Done, Disturbs, Superseded, Overwrites, Site, Files, Icons
<1>1. TypeOK'
  <2>1. q \in Save /\ q.site \in Sites /\ Site(q.icon) \in Row
    BY NewSite DEF TypeOK, Save
  <2>2. rows' \in [Sites -> Row]
    BY <2>1 DEF TypeOK
  <2>3. unseen' \in [Devices -> SUBSET Sites]
    BY <2>1 DEF TypeOK
  <2> DEFINE n == [q EXCEPT !.at = "count"]
  <2>4. n \in Save /\ n.old = q.old
    BY <2>1, NextSave
  <2>5. saves' \in {saves \ {q}, (saves \ {q}) \cup {n}} /\ (~Superseded(q) => saves' = saves \ {q})
    OBVIOUS
  <2>6. Superseded(q) => q.old \in Files
    BY <2>1 DEF Save
  <2> HIDE DEF n
  <2>7. saves' \subseteq Save /\ \A r \in saves' : r.at \in {"count", "unlink"} => r.old \in Files
    BY <2>4, <2>5, <2>6 DEF TypeOK
  <2>8. stale' \subseteq Icons
    BY <2>1 DEF TypeOK, Save
  <2> QED
    BY <2>2, <2>3, <2>7, <2>8 DEF TypeOK
<1>2. RowsOK'
  <2>1. Site(q.icon).known
    BY DEF Site
  <2>2. rows' \in {rows, [rows EXCEPT ![q.site] = Site(q.icon)]} /\ table' = table
    OBVIOUS
  <2> QED
    BY <2>1, <2>2 DEF RowsOK, TypeOK
<1>3. Owned'
  BY DEF Owned, Holds, TypeOK, Save
<1>4. SavesOK'
  <2>1. q \in Save /\ q.site \in Sites /\ q.icon \in Icons
    BY DEF TypeOK, Save
  <2>2. /\ q.at = "insert" \/ rows[q.site].live => rows' = [rows EXCEPT ![q.site] = Site(q.icon)]
        /\ ~(q.at = "insert" \/ rows[q.site].live) => rows' = rows
    OBVIOUS
  <2>3. \A t \in Sites : rows'[t] = rows[t] \/ (t = q.site /\ rows'[t].live /\ rows'[t].icon = q.icon)
    BY <2>1, <2>2, NewSite DEF TypeOK
  <2> DEFINE n == [q EXCEPT !.at = "count"]
  <2>4. n.site = q.site /\ n.old = q.old /\ n.icon = q.icon /\ n.at = "count"
    BY <2>1, NextSave
  <2>5. saves' = IF Superseded(q) THEN (saves \ {q}) \cup {n} ELSE saves \ {q}
    OBVIOUS
  <2> HIDE DEF n
  <2>6. \A r, o \in saves' : r.site = o.site => r = o
    BY <2>4, <2>5 DEF SavesOK
  <2>7. ASSUME NEW r \in saves, r # q PROVE SaveOK(r)'
    <3>0. r \in Save
      BY DEF TypeOK
    <3>1. r.site # q.site /\ r.site \in Sites
      BY <3>0, <2>7 DEF SavesOK, Save
    <3>2. rows'[r.site] = rows[r.site]
      BY <2>3, <3>1
    <3>3. Writing(r) /\ r.icon \in WebFiles => store'[r.icon] = "whole"
      BY DEF SavesOK, SaveOK
    <3>4. ASSUME r.old \in Required(rows'), r.old \notin Required(rows)
          PROVE  r.at # "unlink" \/ r.old \in stale'
      <4>1. r.old = q.icon /\ ~(rows[q.site].live /\ rows[q.site].icon = q.icon) /\ r.old # NoIcon
        BY <2>2, <2>3, <3>4, Needed
      <4>2. ~q.upload
        <5> SUFFICES ASSUME q.upload PROVE FALSE
          OBVIOUS
        <5>1. q.icon \in WebFiles
          BY DEF SavesOK, SaveOK, Writing
        <5>2. Holds(q.site, q.icon) /\ Holds(r.site, q.icon)
          BY <4>1 DEF Holds
        <5> QED
          BY <2>1, <3>1, <5>1, <5>2 DEF Owned
      <4>3. q.icon = q.old /\ q.at = "update"
        BY <4>1, <4>2 DEF SavesOK, SaveOK, Writing
      <4>4. rows[q.site].live
        BY <2>2, <3>4, <4>3
      <4> QED
        BY <4>1, <4>3, <4>4
    <3> QED
      BY <3>2, <3>3, <3>4, SaveStays DEF SavesOK
  <2>8. ASSUME Superseded(q) PROVE SaveOK(n)'
    <3>1. ~(rows'[q.site].live /\ rows'[q.site].icon = q.old)
      BY <2>1, <2>2, <2>8, NewSite DEF TypeOK
    <3> QED
      BY <2>4, <3>1 DEF SaveOK, Writing
  <2> QED
    BY <2>5, <2>6, <2>7, <2>8 DEF SavesOK
<1>5. SeenOK'
  BY DEF SeenOK, TypeOK, Row
<1>6. SyncOK'
  BY DEF SyncOK, TypeOK, Transfers, Idle
<1>7. PartOwed'
  BY DEF PartOwed, TypeOK, Copy
<1>8. CalmOK'
  BY DEF CalmOK, TypeOK, Present, Required, NamedBy
<1>9. NoIconIsLost'
  <2>1. q \in Save /\ q.site \in Sites /\ q.icon \in Icons
    BY DEF TypeOK, Save
  <2>2. /\ q.at = "insert" \/ rows[q.site].live => rows' = [rows EXCEPT ![q.site] = Site(q.icon)]
        /\ ~(q.at = "insert" \/ rows[q.site].live) => rows' = rows
    OBVIOUS
  <2>3. \A t \in Sites : rows'[t] = rows[t] \/ (t = q.site /\ rows'[t].live /\ rows'[t].icon = q.icon)
    BY <2>1, <2>2, NewSite DEF TypeOK
  <2> SUFFICES ASSUME NEW f \in Required(rows'), f \notin Required(rows)
               PROVE  store[f] = "whole" \/ f \in stale'
    BY DEF NoIconIsLost
  <2>4. f = q.icon /\ ~(rows[q.site].live /\ rows[q.site].icon = q.icon)
    BY <2>2, <2>3, Needed
  <2>5. CASE q.upload
    BY <2>4, <2>5 DEF SavesOK, SaveOK, Writing
  <2>6. CASE ~q.upload
    <3>1. q.icon = q.old /\ q.at = "update"
      BY <2>4, <2>6, Needed DEF SavesOK, SaveOK, Writing
    <3>2. rows[q.site].live
      BY <2>2, <3>1
    <3> QED
      BY <2>4, <3>1, <3>2
  <2> QED
    BY <2>5, <2>6
<1>10. WebIconsAreThere'
  <2>1. q \in Save /\ q.site \in Sites /\ q.icon \in Icons
    BY DEF TypeOK, Save
  <2>2. /\ q.at = "insert" \/ rows[q.site].live => rows' = [rows EXCEPT ![q.site] = Site(q.icon)]
        /\ ~(q.at = "insert" \/ rows[q.site].live) => rows' = rows
    OBVIOUS
  <2>3. \A t \in Sites : rows'[t] = rows[t] \/ (t = q.site /\ rows'[t].live /\ rows'[t].icon = q.icon)
    BY <2>1, <2>2, NewSite DEF TypeOK
  <2> SUFFICES ASSUME NEW t \in Sites, rows'[t].live, rows'[t].icon \in WebFiles
               PROVE  store[rows'[t].icon] = "whole"
    BY DEF WebIconsAreThere, NamedBy
  <2>4. CASE rows'[t] = rows[t]
    BY <2>4 DEF WebIconsAreThere, NamedBy
  <2>5. CASE rows'[t].icon = q.icon
    BY <2>5 DEF SavesOK, SaveOK, Writing
  <2> QED
    BY <2>3, <2>4, <2>5
<1> QED BY <1>1, <1>2, <1>3, <1>4, <1>5, <1>6, <1>7, <1>8, <1>9, <1>10

(* What a failed save discards is the file it uploaded, which nobody else  *)
(* names.                                                                  *)
LEMMA SaveRowFailsKeeps ==
  ASSUME IconInv, ~Racing, NEW q \in saves, SaveRowFails(q)
  PROVE  IconInv'
<1> USE IconFilesAssumption DEF IconInv, SaveRowFails, ToDiscard, Unlinked, Done, Disturbs, Files, Icons
<1>1. TypeOK'
  BY DEF TypeOK, Save, Copy, Transfers, Row, NoRow, Idle
<1>2. RowsOK'
  BY DEF RowsOK, TypeOK, Row, NoRow
<1>3. Owned'
  BY DEF Owned, Holds, TypeOK, Save
<1>4. SavesOK'
  <2>1. q \in Save /\ q.site \in Sites /\ q.icon \in Icons
    BY DEF TypeOK, Save
  <2>2. \A f \in Files : store'[f] = IF q.upload /\ f = q.icon THEN "none" ELSE store[f]
    BY DEF TypeOK
  <2>3. q.upload => /\ q.icon \in WebFiles
                    /\ \A t \in Sites : rows[t].icon # q.icon
    BY <2>1 DEF SavesOK, SaveOK, Writing, Owned, Holds
  <2>4. ASSUME NEW r \in saves, r # q PROVE SaveOK(r)'
    <3>0. r \in Save
      BY DEF TypeOK
    <3>1. r.site # q.site /\ r.site \in Sites
      BY <3>0, <2>4 DEF SavesOK, Save
    <3>2. q.upload => r.icon # q.icon
      BY <2>1, <2>3, <3>1 DEF Owned, Holds
    <3>3. Writing(r) /\ r.icon \in WebFiles => store'[r.icon] = "whole"
      BY <2>2, <3>2 DEF SavesOK, SaveOK
    <3> QED
      BY <3>3, SaveStays DEF SavesOK
  <2> QED
    BY <2>4 DEF SavesOK
<1>5. SeenOK'
  BY DEF SeenOK, TypeOK, Row
<1>6. SyncOK'
  BY DEF SyncOK, TypeOK, Transfers, Idle
<1>7. PartOwed'
  BY DEF PartOwed, TypeOK, Copy
<1>8. CalmOK'
  BY DEF CalmOK, TypeOK, Present, Required, NamedBy
<1>9. NoIconIsLost'
  <2>1. q \in Save /\ q.site \in Sites /\ q.icon \in Icons
    BY DEF TypeOK, Save
  <2>2. \A f \in Files : store'[f] = IF q.upload /\ f = q.icon THEN "none" ELSE store[f]
    BY DEF TypeOK
  <2>3. q.upload => /\ q.icon \in WebFiles
                    /\ \A t \in Sites : rows[t].icon # q.icon
    BY <2>1 DEF SavesOK, SaveOK, Writing, Owned, Holds
  <2>4. ASSUME NEW f \in Required(rows) PROVE f \in Files /\ ~(q.upload /\ f = q.icon)
    BY <2>3, Needed DEF TypeOK, Row
  <2> QED
    BY <2>2, <2>4 DEF NoIconIsLost
<1>10. WebIconsAreThere'
  <2>1. q \in Save /\ q.site \in Sites /\ q.icon \in Icons
    BY DEF TypeOK, Save
  <2>2. \A f \in Files : store'[f] = IF q.upload /\ f = q.icon THEN "none" ELSE store[f]
    BY DEF TypeOK
  <2>3. q.upload => /\ q.icon \in WebFiles
                    /\ \A t \in Sites : rows[t].icon # q.icon
    BY <2>1 DEF SavesOK, SaveOK, Writing, Owned, Holds
  <2> QED
    BY <2>2, <2>3 DEF WebIconsAreThere, NamedBy
<1> QED BY <1>1, <1>2, <1>3, <1>4, <1>5, <1>6, <1>7, <1>8, <1>9, <1>10

(* A clean-up goes past its count only for a file that nothing refers to.  *)
LEMMA CountReferencesKeeps ==
  ASSUME IconInv, ~Racing, NEW q \in saves, CountReferences(q)
  PROVE  IconInv'
<1> USE IconFilesAssumption DEF IconInv, CountReferences, Referenced, Replace, Done, Disturbs, Files, Icons
<1>1. TypeOK'
  <2> DEFINE n == [q EXCEPT !.at = "unlink"]
  <2>1. q \in Save /\ q.old \in Files
    BY DEF TypeOK
  <2>2. n \in Save /\ n.old = q.old
    BY <2>1, NextSave
  <2>3. saves' \in {saves \ {q}, (saves \ {q}) \cup {n}}
    OBVIOUS
  <2> HIDE DEF n
  <2>4. saves' \subseteq Save /\ \A r \in saves' : r.at \in {"count", "unlink"} => r.old \in Files
    BY <2>1, <2>2, <2>3 DEF TypeOK
  <2> QED
    BY <2>4 DEF TypeOK
<1>2. RowsOK'
  BY DEF RowsOK, TypeOK, Row, NoRow
<1>3. Owned'
  BY DEF Owned, Holds, TypeOK, Save
<1>4. SavesOK'
  <2> DEFINE n == [q EXCEPT !.at = "unlink"]
  <2>1. q \in Save
    BY DEF TypeOK
  <2>2. n.site = q.site /\ n.old = q.old /\ n.icon = q.icon /\ n.at = "unlink"
    BY <2>1, NextSave
  <2>3. saves' = IF q.old \in Required(rows) THEN saves \ {q} ELSE (saves \ {q}) \cup {n}
    OBVIOUS
  <2> HIDE DEF n
  <2>4. \A r, o \in saves' : r.site = o.site => r = o
    BY <2>2, <2>3 DEF SavesOK
  <2>5. ASSUME NEW r \in saves PROVE SaveOK(r)'
    BY SaveStays DEF SavesOK, SaveOK
  <2>6. ASSUME q.old \notin Required(rows) PROVE SaveOK(n)'
    BY <2>2, <2>6 DEF SavesOK, SaveOK, Writing
  <2> QED
    BY <2>3, <2>4, <2>5, <2>6 DEF SavesOK
<1>5. SeenOK'
  BY DEF SeenOK, TypeOK, Row
<1>6. SyncOK'
  BY DEF SyncOK, TypeOK, Transfers, Idle
<1>7. PartOwed'
  BY DEF PartOwed, TypeOK, Copy
<1>8. CalmOK'
  BY DEF CalmOK, TypeOK, Present, Required, NamedBy
<1>9. NoIconIsLost'
  BY DEF NoIconIsLost, TypeOK, Required, NamedBy
<1>10. WebIconsAreThere'
  BY DEF WebIconsAreThere, TypeOK, NamedBy
<1> QED BY <1>1, <1>2, <1>3, <1>4, <1>5, <1>6, <1>7, <1>8, <1>9, <1>10

(* What a clean-up unlinks is referred to by nothing, but for a stale      *)
(* save.                                                                   *)
LEMMA RemoveIconKeeps ==
  ASSUME IconInv, ~Racing, NEW q \in saves, RemoveIcon(q)
  PROVE  IconInv'
<1> USE IconFilesAssumption DEF IconInv, RemoveIcon, Unlinked, Done, Disturbs, Files, Icons
<1>1. TypeOK'
  BY DEF TypeOK, Save, Copy, Transfers, Row, NoRow, Idle
<1>2. RowsOK'
  BY DEF RowsOK, TypeOK, Row, NoRow
<1>3. Owned'
  BY DEF Owned, Holds, TypeOK, Save
<1>4. SavesOK'
  BY DEF SavesOK, SaveOK, Writing, TypeOK, Save, Owned, Holds, Required, NamedBy
<1>5. SeenOK'
  BY DEF SeenOK, TypeOK, Row
<1>6. SyncOK'
  BY DEF SyncOK, TypeOK, Transfers, Idle
<1>7. PartOwed'
  BY DEF PartOwed, TypeOK, Copy
<1>8. CalmOK'
  BY DEF CalmOK, TypeOK, Present, Required, NamedBy
<1>9. NoIconIsLost'
  <2>1. ASSUME NEW f \in Required(rows) PROVE f \in Files
    BY Needed DEF TypeOK, Row
  <2>2. \A f \in Files : store'[f] = IF f = q.old THEN "none" ELSE store[f]
    BY DEF TypeOK
  <2>3. q.old \in Required(rows) => q.old \in stale
    BY DEF SavesOK, SaveOK
  <2> QED
    BY <2>1, <2>2, <2>3 DEF NoIconIsLost
<1>10. WebIconsAreThere'
  <2>1. q \in Save /\ q.site \in Sites
    BY DEF TypeOK, Save
  <2>2. \A f \in Files : store'[f] = IF f = q.old THEN "none" ELSE store[f]
    BY DEF TypeOK
  <2>3. q.old \in WebFiles => \A t \in Sites : ~(rows[t].live /\ rows[t].icon = q.old)
    <3>1. q.old \in WebFiles => ~(rows[q.site].live /\ rows[q.site].icon = q.old)
      BY DEF SavesOK, SaveOK, Writing
    <3> QED
      BY <2>1, <3>1 DEF Owned, Holds
  <2> QED
    BY <2>2, <2>3 DEF WebIconsAreThere, NamedBy
<1> QED BY <1>1, <1>2, <1>3, <1>4, <1>5, <1>6, <1>7, <1>8, <1>9, <1>10

(* A device that names a file has it on its disk.                          *)
LEMMA SaveItemWithIconKeeps ==
  ASSUME IconInv, ~Racing, NEW d \in Devices, NEW s \in Sites, NEW f \in DeskFiles, SaveItemWithIcon(d, s, f)
  PROVE  IconInv'
<1> USE IconFilesAssumption DEF IconInv, SaveItemWithIcon, LocalEdit, Edit, AtRest, Fresh, Site, Files, Icons
<1>1. TypeOK'
  BY DEF TypeOK, Save, Copy, Transfers, Row, NoRow, Idle
<1>2. RowsOK'
  <2>1. (Site(f)).known
    BY NewSite DEF RowsOK, TypeOK
  <2>2. rows' = rows /\ table' = [table EXCEPT ![d][s] = Site(f)]
    OBVIOUS
  <2> QED
    BY <2>1, <2>2 DEF RowsOK, TypeOK
<1>3. Owned'
  BY DEF Owned, Holds, TypeOK, Save
<1>4. SavesOK'
  BY DEF SavesOK, SaveOK, Writing, TypeOK, Save, Owned, Holds, Required, NamedBy
<1>5. SeenOK'
  BY DEF SeenOK, TypeOK, Row
<1>6. SyncOK'
  BY DEF SyncOK, TypeOK, Transfers, Idle
<1>7. PartOwed'
  BY DEF PartOwed, TypeOK, Copy
<1>8. CalmOK'
  BY DEF CalmOK, TypeOK, Present, Required, NamedBy
<1>9. NoIconIsLost'
  BY DEF NoIconIsLost, TypeOK, Required, NamedBy
<1>10. WebIconsAreThere'
  BY DEF WebIconsAreThere, TypeOK, NamedBy
<1> QED BY <1>1, <1>2, <1>3, <1>4, <1>5, <1>6, <1>7, <1>8, <1>9, <1>10

(* An icon that is kept was named by the same row before.                  *)
LEMMA SaveItemKeeps ==
  ASSUME IconInv, ~Racing, NEW d \in Devices, NEW s \in Sites, NEW icon \in Icons, SaveItem(d, s, icon)
  PROVE  IconInv'
<1> USE IconFilesAssumption DEF IconInv, SaveItem, LocalEdit, Edit, AtRest, Site, Files, Icons
<1>1. TypeOK'
  <2>1. Site(icon) \in Row
    BY DEF Row
  <2>2. table' \in [Devices -> [Sites -> Row]] /\ later' \in [Devices -> SUBSET Sites]
    BY <2>1 DEF TypeOK
  <2> QED
    BY <2>2 DEF TypeOK
<1>2. RowsOK'
  <2>1. (Site(icon)).known
    BY NewSite DEF RowsOK, TypeOK
  <2>2. rows' = rows /\ table' = [table EXCEPT ![d][s] = Site(icon)]
    OBVIOUS
  <2> QED
    BY <2>1, <2>2 DEF RowsOK, TypeOK
<1>3. Owned'
  BY DEF Owned, Holds, TypeOK, Save
<1>4. SavesOK'
  BY DEF SavesOK, SaveOK, Writing, TypeOK, Save, Owned, Holds, Required, NamedBy
<1>5. SeenOK'
  BY DEF SeenOK, TypeOK, Row
<1>6. SyncOK'
  BY DEF SyncOK, TypeOK, Transfers, Idle
<1>7. PartOwed'
  BY DEF PartOwed, TypeOK, Copy
<1>8. CalmOK'
  BY DEF CalmOK, TypeOK, Present, Required, NamedBy
<1>9. NoIconIsLost'
  BY DEF NoIconIsLost, TypeOK, Required, NamedBy
<1>10. WebIconsAreThere'
  BY DEF WebIconsAreThere, TypeOK, NamedBy
<1> QED BY <1>1, <1>2, <1>3, <1>4, <1>5, <1>6, <1>7, <1>8, <1>9, <1>10

(* A deletion on a device names nothing.                                   *)
LEMMA DeleteItemKeeps ==
  ASSUME IconInv, ~Racing, NEW d \in Devices, NEW s \in Sites, DeleteItem(d, s)
  PROVE  IconInv'
<1> USE IconFilesAssumption DEF IconInv, DeleteItem, LocalEdit, Edit, AtRest, Files, Icons
<1>1. TypeOK'
  <2>1. [table[d][s] EXCEPT !.live = FALSE] \in Row
    BY Buried DEF TypeOK
  <2>2. table' \in [Devices -> [Sites -> Row]] /\ later' \in [Devices -> SUBSET Sites]
    BY <2>1 DEF TypeOK
  <2> QED
    BY <2>2 DEF TypeOK
<1>2. RowsOK'
  <2>1. ([table[d][s] EXCEPT !.live = FALSE]).known
    BY Buried, LiveIsKnown DEF RowsOK, TypeOK
  <2>2. rows' = rows /\ table' = [table EXCEPT ![d][s] = [table[d][s] EXCEPT !.live = FALSE]]
    OBVIOUS
  <2> QED
    BY <2>1, <2>2 DEF RowsOK, TypeOK
<1>3. Owned'
  BY DEF Owned, Holds, TypeOK, Save
<1>4. SavesOK'
  BY DEF SavesOK, SaveOK, Writing, TypeOK, Save, Owned, Holds, Required, NamedBy
<1>5. SeenOK'
  BY DEF SeenOK, TypeOK, Row
<1>6. SyncOK'
  BY DEF SyncOK, TypeOK, Transfers, Idle
<1>7. PartOwed'
  BY DEF PartOwed, TypeOK, Copy
<1>8. CalmOK'
  BY DEF CalmOK, TypeOK, Present, Required, NamedBy
<1>9. NoIconIsLost'
  BY DEF NoIconIsLost, TypeOK, Required, NamedBy
<1>10. WebIconsAreThere'
  BY DEF WebIconsAreThere, TypeOK, NamedBy
<1> QED BY <1>1, <1>2, <1>3, <1>4, <1>5, <1>6, <1>7, <1>8, <1>9, <1>10

(* A device that forgets everything has all rows of the server yet to see. *)
LEMMA DeleteUserWithDataKeeps ==
  ASSUME IconInv, ~Racing, NEW d \in Devices, DeleteUserWithData(d)
  PROVE  IconInv'
<1> USE IconFilesAssumption DEF IconInv, DeleteUserWithData, Edit, AtRest, Known, Files, Icons
<1>1. TypeOK'
  <2>1. NoRow \in Row
    BY DEF Row, NoRow
  <2>2. /\ table' \in [Devices -> [Sites -> Row]] /\ later' \in [Devices -> SUBSET Sites]
        /\ unseen' \in [Devices -> SUBSET Sites] /\ disk' \in [Devices -> [Files -> Copy]]
    BY <2>1 DEF TypeOK, Copy
  <2> QED
    BY <2>2 DEF TypeOK
<1>2. RowsOK'
  <2>1. /\ \A e \in Devices : table'[e] = IF e = d THEN [s \in Sites |-> NoRow] ELSE table[e]
        /\ \A s \in Sites : table'[d][s] = NoRow
    BY DEF TypeOK
  <2> QED
    BY <2>1 DEF RowsOK
<1>3. Owned'
  <2>1. /\ \A e \in Devices : table'[e] = IF e = d THEN [s \in Sites |-> NoRow] ELSE table[e]
        /\ \A s \in Sites : table'[d][s] = NoRow
    BY DEF TypeOK
  <2>2. ASSUME NEW s \in Sites, NEW f \in WebFiles, Holds(s, f)' PROVE Holds(s, f)
    BY <2>1, <2>2, NothingThere DEF Holds
  <2> QED
    BY <2>2 DEF Owned
<1>4. SavesOK'
  <2>1. /\ \A e \in Devices : table'[e] = IF e = d THEN [s \in Sites |-> NoRow] ELSE table[e]
        /\ \A s \in Sites : table'[d][s] = NoRow
    BY DEF TypeOK
  <2>2. ASSUME NEW q \in saves PROVE SaveOK(q)'
    <3>1. q.site \in Sites /\ SaveOK(q)
      BY DEF TypeOK, Save, SavesOK
    <3>2. \A e \in Devices : table'[e][q.site].icon \in {table[e][q.site].icon, NoIcon}
      BY <2>1, <3>1, NothingThere
    <3> QED
      BY <3>1, <3>2 DEF SaveOK, Writing
  <2> QED
    BY <2>2 DEF SavesOK
<1>5. SeenOK'
  <2>1. /\ \A e \in Devices : table'[e] = IF e = d THEN [s \in Sites |-> NoRow] ELSE table[e]
        /\ \A s \in Sites : table'[d][s] = NoRow
    BY DEF TypeOK
  <2>2. ASSUME NEW s \in Sites, s \notin unseen'[d] PROVE rows[s] = NoRow
    BY <2>2 DEF RowsOK, TypeOK
  <2>3. \A e \in Devices \ {d} : /\ unseen'[e] = unseen[e] /\ later'[e] = later[e]
                                 /\ table'[e] = table[e] /\ disk'[e] = disk[e]
    BY DEF TypeOK
  <2>4. ASSUME NEW s \in Sites, s \notin unseen'[d] PROVE table'[d][s] = rows[s] /\ ~table'[d][s].live
    BY <2>1, <2>2, <2>4, NothingThere
  <2> QED
    BY <2>3, <2>4 DEF SeenOK
<1>6. SyncOK'
  BY DEF SyncOK, TypeOK, Transfers, Idle
<1>7. PartOwed'
  BY DEF PartOwed, TypeOK, Copy
<1>8. CalmOK'
  BY DEF CalmOK, TypeOK, Present, Required, NamedBy
<1>9. NoIconIsLost'
  BY DEF NoIconIsLost, TypeOK, Required, NamedBy
<1>10. WebIconsAreThere'
  BY DEF WebIconsAreThere, TypeOK, NamedBy
<1> QED BY <1>1, <1>2, <1>3, <1>4, <1>5, <1>6, <1>7, <1>8, <1>9, <1>10

(* What the merged rows refer to was referred to before, or is on the disk *)
(* of the device: then it is whole on the server, or owed. Icons of the    *)
(* web page are never sent by a device.                                    *)
LEMMA ExchangeKeeps ==
  ASSUME IconInv, ~Racing, NEW d \in Devices, Exchange(d)
  PROVE  IconInv'
<1> USE IconFilesAssumption DEF IconInv, Exchange, AtRest, Settle, MergedRows, ToUpload, ToDownload, Files, Icons
<1>1. TypeOK'
  <2>1. rows' \in [Sites -> Row] /\ table' \in [Devices -> [Sites -> Row]]
    BY DEF TypeOK
  <2>2. unseen' \in [Devices -> SUBSET Sites] /\ later' \in [Devices -> SUBSET Sites]
    BY DEF TypeOK
  <2> DEFINE up == ToUpload(MergedRows(d), disk[d])
             down == ToDownload(MergedRows(d), disk[d])
  <2>3. up \in SUBSET Files /\ down \in SUBSET Files
    BY DEF Present
  <2>4. sync' = [sync EXCEPT ![d] = [up |-> up, down |-> down, sending |-> NoIcon]] /\ owed' = owed \cup up /\ calm' = {d}
    OBVIOUS
  <2> HIDE DEF up, down
  <2>5. [up |-> up, down |-> down, sending |-> NoIcon] \in Transfers
    BY <2>3 DEF Transfers
  <2>7. sync \in [Devices -> Transfers] /\ owed \subseteq Files
    BY DEF TypeOK
  <2> HIDE DEF Exchange, Settle, IconInv
  <2>9. sync' \in [Devices -> Transfers]
    BY <2>4, <2>5, <2>7
  <2>10. owed' \subseteq Files /\ calm' \subseteq Devices
    BY <2>3, <2>4, <2>7
  <2> USE DEF Exchange, Settle, IconInv
  <2> QED
    BY <2>1, <2>2, <2>9, <2>10 DEF TypeOK
<1>2. RowsOK'
  <2> DEFINE rs == MergedRows(d)
  <2>1. /\ rows' = rs
        /\ \A s \in Sites : rs[s] = IF s \in later[d] \ unseen[d] THEN table[d][s] ELSE rows[s]
    OBVIOUS
  <2>2. \A e \in Devices : table'[e] = IF e = d THEN rs ELSE table[e]
    BY DEF TypeOK
  <2> HIDE DEF rs
  <2> QED
    BY <2>1, <2>2 DEF RowsOK
<1>3. Owned'
  BY DEF Owned, Holds, TypeOK, Save
<1>4. SavesOK'
  <2> DEFINE rs == MergedRows(d)
  <2>1. /\ rows' = rs
        /\ \A s \in Sites : rs[s] = IF s \in later[d] \ unseen[d] THEN table[d][s] ELSE rows[s]
    OBVIOUS
  <2>2. \A e \in Devices : table'[e] = IF e = d THEN rs ELSE table[e]
    BY DEF TypeOK
  <2> HIDE DEF rs
  <2>3. ASSUME NEW q \in saves PROVE SaveOK(q)'
    <3>1. q.site \in Sites /\ SaveOK(q) /\ q.at # "unlink"
      BY DEF TypeOK, Save, SavesOK
    <3>2. \/ rs[q.site] = rows[q.site]
          \/ rs[q.site] = table[d][q.site] /\ q.site \notin unseen[d]
      BY <2>1, <3>1
    <3>3. rs[q.site].icon \in {rows[q.site].icon, table[d][q.site].icon}
      BY <3>2
    <3>4. \A e \in Devices : table'[e][q.site].icon \in {table[e][q.site].icon, rs[q.site].icon}
      BY <2>2
    <3>5. Writing(q) /\ q.upload => rs[q.site].icon # q.icon /\ \A e \in Devices : table'[e][q.site].icon # q.icon
      BY <3>1, <3>3, <3>4 DEF SaveOK
    <3>6. ~Writing(q) /\ q.old \in WebFiles => ~(rs[q.site].live /\ rs[q.site].icon = q.old)
      BY <3>1, <3>2 DEF SaveOK, SeenOK
    <3> QED
      BY <2>1, <3>1, <3>5, <3>6 DEF SaveOK, Writing
  <2> QED
    BY <2>3 DEF SavesOK
<1>5. SeenOK'
  BY DEF SeenOK, TypeOK, Row
<1>6. SyncOK'
  <2> DEFINE rs == MergedRows(d)
  <2>1. /\ rows' = rs
        /\ \A s \in Sites : rs[s] = IF s \in later[d] \ unseen[d] THEN table[d][s] ELSE rows[s]
    OBVIOUS
  <2>2. \A e \in Devices : table'[e] = IF e = d THEN rs ELSE table[e]
    BY DEF TypeOK
  <2> HIDE DEF rs
  <2>3. ASSUME NEW f \in Required(rs)
        PROVE  f \in Files /\ (f \in Required(rows) \/ (f \in DeskFiles /\ disk[d][f] # "none"))
    <3>1. CASE f \in EngineFiles
      BY <3>1, Needed
    <3>2. CASE f \notin EngineFiles
      <4>1. PICK s \in Sites : rs[s].live /\ rs[s].icon = f /\ f # NoIcon
        BY <3>2, Needed
      <4>2. CASE rs[s] = rows[s]
        BY <4>1, <4>2, Needed DEF TypeOK, Row
      <4>3. CASE rs[s] = table[d][s] /\ s \notin unseen[d]
        <5>1. f \in Icons
          BY <4>1, <4>3 DEF TypeOK, Row
        <5>2. (f \in DeskFiles /\ disk[d][f] # "none") \/ (rows[s].live /\ rows[s].icon = f)
          BY <4>1, <4>3 DEF SeenOK
        <5> QED
          BY <4>1, <5>1, <5>2, Needed
      <4> QED
        BY <2>1, <4>2, <4>3
    <3> QED
      BY <3>1, <3>2
  <2>4. ASSUME NEW f \in Required(rs), f \in WebFiles PROVE store[f] = "whole"
    <3>1. f \in NamedBy(rows)
      BY <2>3, <2>4 DEF Required
    <3> QED
      BY <2>4, <3>1 DEF WebIconsAreThere
  <2>5. /\ \A e \in Devices \ {d} : sync'[e] = sync[e]
        /\ sync'[d].up = ToUpload(rs, disk[d]) /\ sync'[d].down = ToDownload(rs, disk[d])
        /\ sync'[d].sending = NoIcon
    BY DEF TypeOK, Transfers, Idle, rs
  <2>6. ToUpload(rs, disk[d]) \subseteq DeskFiles
    BY <2>3, <2>4 DEF Present
  <2>7. /\ \A f \in ToUpload(rs, disk[d]) : disk[d][f] # "none"
        /\ \A f \in ToDownload(rs, disk[d]) : disk[d][f] = "none"
    BY DEF Present
  <2>8. disk' = disk
    OBVIOUS
  <2> HIDE DEF ToUpload, ToDownload, Exchange, Settle
  <2> QED
    BY <2>5, <2>6, <2>7, <2>8 DEF SyncOK
<1>7. PartOwed'
  BY DEF PartOwed, TypeOK, Copy
<1>8. CalmOK'
  <2> DEFINE rs == MergedRows(d)
  <2>1. /\ rows' = rs
        /\ \A s \in Sites : rs[s] = IF s \in later[d] \ unseen[d] THEN table[d][s] ELSE rows[s]
    OBVIOUS
  <2>2. \A e \in Devices : table'[e] = IF e = d THEN rs ELSE table[e]
    BY DEF TypeOK
  <2> HIDE DEF rs
  <2>3. calm' = {d} /\ store' = store /\ disk' = disk /\ table'[d] = rs
    BY <2>2
  <2>4. sync'[d].up = ToUpload(rs, disk[d]) /\ sync'[d].down = ToDownload(rs, disk[d])
    BY DEF TypeOK, Transfers, Idle, rs
  <2>5. ASSUME NEW f \in Required(rs)
        PROVE  \/ f \in sync'[d].up
               \/ f \in sync'[d].down
               \/ f \in Present(store) <=> f \in Present(disk[d])
    BY <2>4
  <2> QED
    BY <2>1, <2>3, <2>5 DEF CalmOK
<1>9. NoIconIsLost'
  <2> DEFINE rs == MergedRows(d)
  <2>1. /\ rows' = rs
        /\ \A s \in Sites : rs[s] = IF s \in later[d] \ unseen[d] THEN table[d][s] ELSE rows[s]
    OBVIOUS
  <2>2. \A e \in Devices : table'[e] = IF e = d THEN rs ELSE table[e]
    BY DEF TypeOK
  <2> HIDE DEF rs
  <2>3. ASSUME NEW f \in Required(rs)
        PROVE  f \in Files /\ (f \in Required(rows) \/ (f \in DeskFiles /\ disk[d][f] # "none"))
    <3>1. CASE f \in EngineFiles
      BY <3>1, Needed
    <3>2. CASE f \notin EngineFiles
      <4>1. PICK s \in Sites : rs[s].live /\ rs[s].icon = f /\ f # NoIcon
        BY <3>2, Needed
      <4>2. CASE rs[s] = rows[s]
        BY <4>1, <4>2, Needed DEF TypeOK, Row
      <4>3. CASE rs[s] = table[d][s] /\ s \notin unseen[d]
        <5>1. f \in Icons
          BY <4>1, <4>3 DEF TypeOK, Row
        <5>2. (f \in DeskFiles /\ disk[d][f] # "none") \/ (rows[s].live /\ rows[s].icon = f)
          BY <4>1, <4>3 DEF SeenOK
        <5> QED
          BY <4>1, <5>1, <5>2, Needed
      <4> QED
        BY <2>1, <4>2, <4>3
    <3> QED
      BY <3>1, <3>2
  <2>4. ASSUME NEW f \in Required(rs), f \in WebFiles PROVE store[f] = "whole"
    <3>1. f \in NamedBy(rows)
      BY <2>3, <2>4 DEF Required
    <3> QED
      BY <2>4, <3>1 DEF WebIconsAreThere
  <2>5. owed' = owed \cup ToUpload(rs, disk[d])
    BY DEF rs
  <2>6. ASSUME NEW f \in Required(rs), f \notin Required(rows) PROVE store[f] = "whole" \/ f \in owed'
    <3>1. f \in Files /\ disk[d][f] # "none" /\ store[f] \in {"none", "part", "whole"}
      BY <2>3, <2>6 DEF TypeOK, Copy
    <3>2. CASE store[f] = "none"
      BY <2>5, <3>1, <3>2 DEF Present
    <3>3. CASE store[f] = "part"
      BY <2>5, <3>1, <3>3 DEF PartOwed
    <3> QED
      BY <3>1, <3>2, <3>3
  <2> QED
    BY <2>1, <2>5, <2>6 DEF NoIconIsLost
<1>10. WebIconsAreThere'
  <2> DEFINE rs == MergedRows(d)
  <2>1. /\ rows' = rs
        /\ \A s \in Sites : rs[s] = IF s \in later[d] \ unseen[d] THEN table[d][s] ELSE rows[s]
    OBVIOUS
  <2>2. \A e \in Devices : table'[e] = IF e = d THEN rs ELSE table[e]
    BY DEF TypeOK
  <2> HIDE DEF rs
  <2>3. ASSUME NEW f \in Required(rs)
        PROVE  f \in Files /\ (f \in Required(rows) \/ (f \in DeskFiles /\ disk[d][f] # "none"))
    <3>1. CASE f \in EngineFiles
      BY <3>1, Needed
    <3>2. CASE f \notin EngineFiles
      <4>1. PICK s \in Sites : rs[s].live /\ rs[s].icon = f /\ f # NoIcon
        BY <3>2, Needed
      <4>2. CASE rs[s] = rows[s]
        BY <4>1, <4>2, Needed DEF TypeOK, Row
      <4>3. CASE rs[s] = table[d][s] /\ s \notin unseen[d]
        <5>1. f \in Icons
          BY <4>1, <4>3 DEF TypeOK, Row
        <5>2. (f \in DeskFiles /\ disk[d][f] # "none") \/ (rows[s].live /\ rows[s].icon = f)
          BY <4>1, <4>3 DEF SeenOK
        <5> QED
          BY <4>1, <5>1, <5>2, Needed
      <4> QED
        BY <2>1, <4>2, <4>3
    <3> QED
      BY <3>1, <3>2
  <2>4. ASSUME NEW f \in Required(rs), f \in WebFiles PROVE store[f] = "whole"
    <3>1. f \in NamedBy(rows)
      BY <2>3, <2>4 DEF Required
    <3> QED
      BY <2>4, <3>1 DEF WebIconsAreThere
  <2> QED
    BY <2>1, <2>4 DEF WebIconsAreThere, Required
<1> QED BY <1>1, <1>2, <1>3, <1>4, <1>5, <1>6, <1>7, <1>8, <1>9, <1>10

(* A file that is being received is one of a device, and owed.             *)
LEMMA UploadIconKeeps ==
  ASSUME IconInv, ~Racing, NEW d \in Devices, NEW f \in Files, UploadIcon(d, f)
  PROVE  IconInv'
<1> USE IconFilesAssumption DEF IconInv, UploadIcon, Transfer, Carries, Files, Icons
<1>1. TypeOK'
  <2>1. store' \in [Files -> Copy] /\ owed' \subseteq Files /\ calm' \subseteq Devices
    BY DEF TypeOK, Copy
  <2>2. [sync[d] EXCEPT !.sending = f] \in Transfers
    <3>1. sync[d] \in Transfers
      BY DEF TypeOK
    <3>2. sync[d] = [up |-> sync[d].up, down |-> sync[d].down, sending |-> sync[d].sending]
      BY <3>1 DEF Transfers
    <3> QED
      BY <3>1, <3>2 DEF Transfers
  <2>3. sync' \in [Devices -> Transfers]
    BY <2>2 DEF TypeOK
  <2> QED
    BY <2>1, <2>3 DEF TypeOK
<1>2. RowsOK'
  BY DEF RowsOK, TypeOK, Row, NoRow
<1>3. Owned'
  BY DEF Owned, Holds, TypeOK, Save
<1>4. SavesOK'
  <2>1. f \in DeskFiles
    BY DEF SyncOK
  <2>2. \A g \in WebFiles : store'[g] = store[g]
    BY <2>1 DEF TypeOK
  <2>3. ASSUME NEW q \in saves PROVE SaveOK(q)'
    <3>1. Writing(q) /\ q.icon \in WebFiles => store'[q.icon] = "whole"
      BY <2>2 DEF SavesOK, SaveOK
    <3> QED
      BY <3>1, SaveStays DEF SavesOK
  <2> QED
    BY <2>3 DEF SavesOK
<1>5. SeenOK'
  BY DEF SeenOK, TypeOK, Row
<1>6. SyncOK'
  BY DEF SyncOK, TypeOK, Transfers, Idle
<1>7. PartOwed'
  BY DEF PartOwed, TypeOK, Copy
<1>8. CalmOK'
  BY DEF CalmOK, TypeOK, Present, Required, NamedBy
<1>9. NoIconIsLost'
  BY DEF NoIconIsLost, TypeOK, Required, NamedBy
<1>10. WebIconsAreThere'
  <2>1. f \in DeskFiles
    BY DEF SyncOK
  <2>2. \A g \in WebFiles : store'[g] = store[g]
    BY <2>1 DEF TypeOK
  <2> QED
    BY <2>2 DEF WebIconsAreThere
<1> QED BY <1>1, <1>2, <1>3, <1>4, <1>5, <1>6, <1>7, <1>8, <1>9, <1>10

(* A file is written where none was.                                       *)
LEMMA DownloadIconKeeps ==
  ASSUME IconInv, ~Racing, NEW d \in Devices, NEW f \in Files, DownloadIcon(d, f)
  PROVE  IconInv'
<1> USE IconFilesAssumption DEF IconInv, DownloadIcon, Transfer, MayDownload, MoveOn, Left, Carries, Files, Icons
<1>1. TypeOK'
  BY DEF TypeOK, Save, Copy, Transfers, Row, NoRow, Idle
<1>2. RowsOK'
  BY DEF RowsOK, TypeOK, Row, NoRow
<1>3. Owned'
  BY DEF Owned, Holds, TypeOK, Save
<1>4. SavesOK'
  BY DEF SavesOK, SaveOK, Writing, TypeOK, Save, Owned, Holds, Required, NamedBy
<1>5. SeenOK'
  BY DEF SeenOK, TypeOK, Row
<1>6. SyncOK'
  BY DEF SyncOK, TypeOK, Transfers, Idle
<1>7. PartOwed'
  BY DEF PartOwed, TypeOK, Copy
<1>8. CalmOK'
  <2>1. /\ sync'[d].up = sync[d].up \ {f} /\ sync'[d].down = sync[d].down \ {f}
    BY DEF TypeOK, Transfers, Idle
  <2>2. calm' = calm \cap {d} /\ rows' = rows /\ table' = table /\ store' = store
    OBVIOUS
  <2>3. \A g \in Files : disk'[d][g] = IF g = f THEN store[f] ELSE disk[d][g]
    BY DEF TypeOK
  <2>4. ASSUME d \in calm, NEW g \in Required(rows)
        PROVE  g \in sync'[d].up \/ g \in sync'[d].down \/ (g \in Present(store) <=> g \in Present(disk'[d]))
    BY <2>1, <2>3, <2>4 DEF CalmOK, Present
  <2> QED
    BY <2>2, <2>4 DEF CalmOK
<1>9. NoIconIsLost'
  BY DEF NoIconIsLost, TypeOK, Required, NamedBy
<1>10. WebIconsAreThere'
  BY DEF WebIconsAreThere, TypeOK, NamedBy
<1> QED BY <1>1, <1>2, <1>3, <1>4, <1>5, <1>6, <1>7, <1>8, <1>9, <1>10

(* A download that is refused leaves both sides without the file.          *)
LEMMA DownloadRefusedKeeps ==
  ASSUME IconInv, ~Racing, NEW d \in Devices, NEW f \in Files, DownloadRefused(d, f)
  PROVE  IconInv'
<1> USE IconFilesAssumption DEF IconInv, DownloadRefused, Skip, Transfer, MoveOn, Left, Carries, Files, Icons
<1>1. TypeOK'
  BY DEF TypeOK, Save, Copy, Transfers, Row, NoRow, Idle
<1>2. RowsOK'
  BY DEF RowsOK
<1>3. Owned'
  BY DEF Owned, Holds, TypeOK, Save
<1>4. SavesOK'
  BY DEF SavesOK, SaveOK, Writing, TypeOK, Save, Owned, Holds, Required, NamedBy
<1>5. SeenOK'
  BY DEF SeenOK, TypeOK, Row
<1>6. SyncOK'
  BY DEF SyncOK, TypeOK, Transfers, Idle
<1>7. PartOwed'
  BY DEF PartOwed, TypeOK, Copy
<1>8. CalmOK'
  <2>1. /\ sync'[d].up = sync[d].up \ {f} /\ sync'[d].down = sync[d].down \ {f}
    BY DEF TypeOK, Transfers, Idle
  <2>2. store[f] = "none" /\ disk[d][f] = "none"
    BY DEF SyncOK
  <2>3. calm' = calm \cap {d} /\ rows' = rows /\ table' = table /\ store' = store /\ disk' = disk
    OBVIOUS
  <2>4. ASSUME d \in calm, NEW g \in Required(rows)
        PROVE  g \in sync'[d].up \/ g \in sync'[d].down \/ (g \in Present(store) <=> g \in Present(disk[d]))
    BY <2>1, <2>2, <2>4 DEF CalmOK, Present
  <2> QED
    BY <2>3, <2>4 DEF CalmOK
<1>9. NoIconIsLost'
  BY DEF NoIconIsLost, TypeOK, Required, NamedBy
<1>10. WebIconsAreThere'
  BY DEF WebIconsAreThere, TypeOK, NamedBy
<1> QED BY <1>1, <1>2, <1>3, <1>4, <1>5, <1>6, <1>7, <1>8, <1>9, <1>10

(* What was received is whole, or still owed.                              *)
LEMMA UploadDoneKeeps ==
  ASSUME IconInv, ~Racing, NEW d \in Devices, UploadDone(d)
  PROVE  IconInv'
<1> USE IconFilesAssumption DEF IconInv, UploadDone, MoveOn, Left, Carries, Files, Icons
<1>1. TypeOK'
  <2>1. sync[d].sending \in Files
    BY DEF TypeOK, Transfers
  <2>2. store' \in [Files -> Copy] /\ owed' \subseteq Files /\ calm' \subseteq Devices
    BY <2>1 DEF TypeOK, Copy
  <2>3. Left(sync[d], sync[d].sending) \in Transfers
    BY DEF TypeOK, Transfers, Idle
  <2>4. sync' \in [Devices -> Transfers]
    BY <2>3 DEF TypeOK
  <2> QED
    BY <2>2, <2>4 DEF TypeOK
<1>2. RowsOK'
  BY DEF RowsOK, TypeOK, Row, NoRow
<1>3. Owned'
  BY DEF Owned, Holds, TypeOK, Save
<1>4. SavesOK'
  <2>1. sync[d].sending \in DeskFiles
    BY DEF SyncOK
  <2>2. \A g \in WebFiles : store'[g] = store[g]
    BY <2>1 DEF TypeOK
  <2>3. ASSUME NEW q \in saves PROVE SaveOK(q)'
    <3>1. Writing(q) /\ q.icon \in WebFiles => store'[q.icon] = "whole"
      BY <2>2 DEF SavesOK, SaveOK
    <3> QED
      BY <3>1, SaveStays DEF SavesOK
  <2> QED
    BY <2>3 DEF SavesOK
<1>5. SeenOK'
  BY DEF SeenOK, TypeOK, Row
<1>6. SyncOK'
  BY DEF SyncOK, TypeOK, Transfers, Idle
<1>7. PartOwed'
  BY DEF PartOwed, TypeOK, Copy
<1>8. CalmOK'
  BY DEF CalmOK, TypeOK, Present, Required, NamedBy
<1>9. NoIconIsLost'
  BY DEF NoIconIsLost, TypeOK, Required, NamedBy
<1>10. WebIconsAreThere'
  <2>1. sync[d].sending \in DeskFiles
    BY DEF SyncOK
  <2>2. \A g \in WebFiles : store'[g] = store[g]
    BY <2>1 DEF TypeOK
  <2> QED
    BY <2>2 DEF WebIconsAreThere
<1> QED BY <1>1, <1>2, <1>3, <1>4, <1>5, <1>6, <1>7, <1>8, <1>9, <1>10

(* A transfer that fails changes no file.                                  *)
LEMMA TransferFailsKeeps ==
  ASSUME IconInv, ~Racing, NEW d \in Devices, NEW f \in Files, TransferFails(d, f)
  PROVE  IconInv'
<1> USE IconFilesAssumption DEF IconInv, TransferFails, Fault, Skip, Transfer, MoveOn, Left, MayDownload, Files, Icons
<1>1. TypeOK'
  <2>1. Left(sync[d], f) \in Transfers
    BY DEF TypeOK, Transfers, Idle
  <2>2. sync' \in [Devices -> Transfers]
    BY <2>1 DEF TypeOK
  <2> QED
    BY <2>2 DEF TypeOK
<1>2. RowsOK'
  BY DEF RowsOK, TypeOK, Row, NoRow
<1>3. Owned'
  BY DEF Owned, Holds, TypeOK, Save
<1>4. SavesOK'
  BY DEF SavesOK, SaveOK, Writing, TypeOK, Save, Owned, Holds, Required, NamedBy
<1>5. SeenOK'
  BY DEF SeenOK, TypeOK, Row
<1>6. SyncOK'
  BY DEF SyncOK, TypeOK, Transfers, Idle
<1>7. PartOwed'
  BY DEF PartOwed, TypeOK, Copy
<1>8. CalmOK'
  BY DEF CalmOK, TypeOK, Present, Required, NamedBy
<1>9. NoIconIsLost'
  BY DEF NoIconIsLost, TypeOK, Required, NamedBy
<1>10. WebIconsAreThere'
  BY DEF WebIconsAreThere, TypeOK, NamedBy
<1> QED BY <1>1, <1>2, <1>3, <1>4, <1>5, <1>6, <1>7, <1>8, <1>9, <1>10

(* A device that stops leaves at most a file cut short where none was.     *)
LEMMA DeviceStopsKeeps ==
  ASSUME IconInv, ~Racing, NEW d \in Devices, DeviceStops(d)
  PROVE  IconInv'
<1> USE IconFilesAssumption DEF IconInv, DeviceStops, Fault, AtRest, Transfer, MayDownload, Files, Icons
<1>1. TypeOK'
  <2>1. disk' \in [Devices -> [Files -> Copy]]
    <3>1. CASE disk' = disk
      BY <3>1 DEF TypeOK
    <3>2. CASE \E f \in Files : disk' = [disk EXCEPT ![d][f] = "part"]
      BY <3>2 DEF TypeOK, Copy
    <3> QED
      BY <3>1, <3>2
  <2>2. Idle \in Transfers
    BY DEF Transfers, Idle
  <2>3. sync' \in [Devices -> Transfers]
    BY <2>2 DEF TypeOK
  <2> QED
    BY <2>1, <2>3 DEF TypeOK
<1>2. RowsOK'
  BY DEF RowsOK, TypeOK, Row, NoRow
<1>3. Owned'
  BY DEF Owned, Holds, TypeOK, Save
<1>4. SavesOK'
  BY DEF SavesOK, SaveOK, Writing, TypeOK, Save, Owned, Holds, Required, NamedBy
<1>5. SeenOK'
  <2>1. ASSUME NEW e \in Devices, NEW f \in Files, disk[e][f] # "none" PROVE disk'[e][f] # "none"
    <3>1. CASE disk' = disk
      BY <2>1, <3>1
    <3>2. CASE \E g \in Files : disk' = [disk EXCEPT ![d][g] = "part"]
      BY <2>1, <3>2 DEF TypeOK
    <3> QED
      BY <3>1, <3>2
  <2> QED
    BY <2>1 DEF SeenOK
<1>6. SyncOK'
  BY DEF SyncOK, TypeOK, Transfers, Idle
<1>7. PartOwed'
  BY DEF PartOwed, TypeOK, Copy
<1>8. CalmOK'
  BY DEF CalmOK, TypeOK, Present, Required, NamedBy
<1>9. NoIconIsLost'
  BY DEF NoIconIsLost, TypeOK, Required, NamedBy
<1>10. WebIconsAreThere'
  BY DEF WebIconsAreThere, TypeOK, NamedBy
<1> QED BY <1>1, <1>2, <1>3, <1>4, <1>5, <1>6, <1>7, <1>8, <1>9, <1>10

(* A server that stops leaves its files as they are.                       *)
LEMMA ServerStopsKeeps ==
  ASSUME IconInv, ~Racing, ServerStops
  PROVE  IconInv'
<1> USE IconFilesAssumption DEF IconInv, ServerStops, Fault, Left, Files, Icons
<1>1. TypeOK'
  <2>1. \A d \in Devices : Left(sync[d], sync[d].sending) \in Transfers
    BY DEF TypeOK, Transfers, Idle
  <2>2. \A d \in Devices : sync[d] \in Transfers
    BY DEF TypeOK
  <2> HIDE DEF Left
  <2>3. sync' \in [Devices -> Transfers] /\ saves' = {} /\ calm' = {} /\ faults' \in 0..MaxFaults
    BY <2>1, <2>2 DEF TypeOK
  <2>4. UNCHANGED <<rows, table, unseen, later, store, disk, named, owed, stale, edits>>
    OBVIOUS
  <2> HIDE DEF ServerStops, Fault
  <2> QED
    BY <2>3, <2>4 DEF TypeOK
<1>2. RowsOK'
  BY DEF RowsOK, TypeOK, Row, NoRow
<1>3. Owned'
  BY DEF Owned, Holds, TypeOK, Save
<1>4. SavesOK'
  BY DEF SavesOK, SaveOK, Writing, TypeOK, Save, Owned, Holds, Required, NamedBy
<1>5. SeenOK'
  <2>1. UNCHANGED <<rows, table, unseen, later, disk>>
    OBVIOUS
  <2> HIDE DEF ServerStops, Fault
  <2> QED
    BY <2>1 DEF SeenOK
<1>6. SyncOK'
  BY DEF SyncOK, TypeOK, Transfers, Idle
<1>7. PartOwed'
  BY DEF PartOwed, TypeOK, Copy
<1>8. CalmOK'
  BY DEF CalmOK, TypeOK, Present, Required, NamedBy
<1>9. NoIconIsLost'
  <2>1. UNCHANGED <<rows, store, owed, stale>>
    OBVIOUS
  <2> HIDE DEF ServerStops, Fault
  <2> QED
    BY <2>1 DEF NoIconIsLost
<1>10. WebIconsAreThere'
  <2>1. UNCHANGED <<rows, store>>
    OBVIOUS
  <2> HIDE DEF ServerStops, Fault
  <2> QED
    BY <2>1 DEF WebIconsAreThere
<1> QED BY <1>1, <1>2, <1>3, <1>4, <1>5, <1>6, <1>7, <1>8, <1>9, <1>10

-----------------------------------------------------------------------------
(* The first states.                                                       *)
LEMMA IconsBegin == Init => IconInv
<1> SUFFICES ASSUME Init PROVE IconInv
  OBVIOUS
<1> USE IconFilesAssumption DEF Init, Files, Icons
<1>1. TypeOK
  <2>1. rows \in [Sites -> Row] /\ NoRow \in Row /\ Idle \in Transfers
    BY NothingThere DEF Idle, Transfers
  <2>2. /\ table \in [Devices -> [Sites -> Row]] /\ sync \in [Devices -> Transfers]
        /\ unseen \in [Devices -> SUBSET Sites] /\ later \in [Devices -> SUBSET Sites]
        /\ store \in [Files -> Copy] /\ disk \in [Devices -> [Files -> Copy]]
    BY <2>1 DEF Known, Copy
  <2>3. named \subseteq WebFiles /\ owed \subseteq Files /\ stale \subseteq Icons /\ calm \subseteq Devices
    OBVIOUS
  <2>4. edits \in 0..MaxEdits /\ faults \in 0..MaxFaults /\ saves = {}
    OBVIOUS
  <2> QED
    BY <2>1, <2>2, <2>3, <2>4 DEF TypeOK
<1>2. RowsOK
  BY DEF RowsOK
<1>3. Owned
  <2>1. ASSUME NEW s \in Sites, NEW f \in WebFiles, Holds(s, f) PROVE rows[s].icon = f
    BY <2>1, NothingThere DEF Holds
  <2> QED
    BY <2>1 DEF Owned
<1>4. SavesOK
  BY DEF SavesOK
<1>5. SeenOK
  BY NothingThere DEF SeenOK, RowsOK, Known
<1>6. SyncOK
  BY DEF SyncOK, Idle
<1>7. PartOwed
  BY DEF PartOwed
<1>8. CalmOK
  BY DEF CalmOK
<1>9. NoIconIsLost
  BY <1>1, Needed DEF NoIconIsLost, TypeOK, Row
<1>10. WebIconsAreThere
  BY DEF WebIconsAreThere, Required
<1> QED
  BY <1>1, <1>2, <1>3, <1>4, <1>5, <1>6, <1>7, <1>8, <1>9, <1>10 DEF IconInv

(* Every step.                                                             *)
LEMMA IconsStep ==
  ASSUME IconInv, ~Racing, Next
  PROVE  IconInv'
<1>1. CASE WebEdit
  BY <1>1, CreateWebsiteKeeps, UpdateWithUploadKeeps, UpdateWithoutUploadKeeps, DeleteWebsiteKeeps
     DEF WebEdit
<1>2. CASE SaveStep
  BY <1>2, SaveRowKeeps, SaveRowFailsKeeps, CountReferencesKeeps, RemoveIconKeeps DEF SaveStep
<1>3. ASSUME NEW d \in Devices, DeviceEdit(d) PROVE IconInv'
  BY <1>3, SaveItemWithIconKeeps, SaveItemKeeps, DeleteItemKeeps, DeleteUserWithDataKeeps DEF DeviceEdit
<1>4. ASSUME NEW d \in Devices, Move(d) PROVE IconInv'
  BY <1>4, UploadIconKeeps, DownloadIconKeeps, DownloadRefusedKeeps, UploadDoneKeeps DEF Move
<1>5. ASSUME NEW d \in Devices, DeviceFault(d) PROVE IconInv'
  BY <1>5, TransferFailsKeeps, DeviceStopsKeeps DEF DeviceFault
<1> QED
  BY <1>1, <1>2, <1>3, <1>4, <1>5, ExchangeKeeps, ServerStopsKeeps DEF Next

(* A stuttering step.                                                      *)
LEMMA IconsRest ==
  ASSUME IconInv, UNCHANGED vars
  PROVE  IconInv'
<1> USE DEF IconInv, vars
<1>1. TypeOK' /\ RowsOK' /\ SeenOK' /\ SyncOK' /\ PartOwed' /\ CalmOK'
  BY DEF TypeOK, RowsOK, SeenOK, SyncOK, PartOwed, CalmOK
<1>2. Owned' /\ SavesOK'
  BY DEF Owned, Holds, SavesOK, SaveOK
<1>3. NoIconIsLost' /\ WebIconsAreThere'
  BY DEF NoIconIsLost, WebIconsAreThere
<1> QED
  BY <1>1, <1>2, <1>3

(* A sync that is through has nothing left.                                *)
LEMMA IconsHold ==
  ASSUME IconInv
  PROVE  ASyncMakesGood
BY IconFilesAssumption DEF IconInv, CalmOK, ASyncMakesGood, AtRest, Idle

(* Icons are kept, on the server and by a sync: as long as two saves of    *)
(* one site do not overlap, nor a sync and a removal, every reachable      *)
(* state has a whole file for each live site with an upload of a web page, *)
(* has on the server every icon in use that is not owed or stale, and      *)
(* after an undisturbed sync the same rows and icons on both sides.        *)
THEOREM IconsAreKept ==
  ASSUME ~Racing
  PROVE  DevicesSpec => []IconFilesHold
<1> DEFINE Inv == part = "icons" => IconInv
<1>1. DevicesInit => Inv
  BY IconsBegin DEF DevicesInit
<1>2. Inv /\ [DevicesNext]_<<part, vars, launchpadVars>> => Inv'
  <2> SUFFICES ASSUME Inv, [DevicesNext]_<<part, vars, launchpadVars>>, part' = "icons"
               PROVE  IconInv'
    OBVIOUS
  <2>1. part = "icons"
    BY DEF DevicesNext
  <2>2. CASE Next
    BY <2>1, <2>2, IconsStep
  <2>3. CASE UNCHANGED vars
    BY <2>1, <2>3, IconsRest
  <2> QED
    BY <2>1, <2>2, <2>3 DEF DevicesNext
<1>3. Inv => IconFilesHold
  BY IconsHold DEF IconFilesHold, IconInv
<1> QED
  BY <1>1, <1>2, <1>3, PTL DEF DevicesSpec
=============================================================================
