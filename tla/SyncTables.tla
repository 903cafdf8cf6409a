----------------------------- MODULE SyncTables -----------------------------
(***************************************************************************)
(* What one synchronisation does to whole tables: groups with a name, and  *)
(* sites that belong to a group through a foreign key.  Two devices may    *)
(* make a group of the same name under different uuids; the server keeps   *)
(* the one it has and redirects the sites, and the client renames, empties *)
(* and deletes its own.                                                    *)
(*                                                                         *)
(* A sync is one step here.  What may happen between its merge and its     *)
(* cursor is SyncMerge, and with clocks in step revisions come down to two *)
(* sets: the server rows stamped since the cursor of a device, and the     *)
(* local rows with a revision later than the server's.                     *)
(***************************************************************************)
EXTENDS Naturals, FiniteSets, SequencesExt

CONSTANTS
    Devices,   \* desktop clients of one account
    Server,    \* the holder of the server's tables
    Groups,    \* uuids of groups
    Sites,     \* uuids of sites
    Names,     \* names a group may be given
    Faulty,    \* may the answer of a sync be lost?
    MaxOps     \* bound: edits made by users

ASSUME SyncTablesAssumption ==
    /\ Server \notin Devices
    /\ Groups \cap Sites = {}
    /\ Faulty \in BOOLEAN
    /\ MaxOps \in Nat

VARIABLES
    groups,   \* [Holders -> group table]: uuid |-> [name, del]
    order,    \* [Holders -> Seq(Groups)]  its uuids in the order of their ids
    sites,    \* [Holders -> site table]:  uuid |-> [group, del]
    unseen,   \* [Devices -> SUBSET Rows]  server rows stamped since the cursor
    later,    \* [Devices -> SUBSET Rows]  local rows with the later revision
    last,     \* [Devices -> Verdict]      how its last sync went, if it has
              \*                           not been edited since
    reused,   \* BOOLEAN                   history: a name given to a second group
    ops       \* edits made so far

vars == <<groups, order, sites, unseen, later, last, reused, ops>>

-----------------------------------------------------------------------------
(* Values                                                                  *)

Holders == Devices \cup {Server}
Rows    == Groups \cup Sites
Verdict == {"none", "ok", "refused", "unapplied"}

Group == [name: Names, del: BOOLEAN]
Site  == [group: Groups, del: BOOLEAN]

(* A table changed by the rows of another.                                 *)
Over(new, old) ==
    [x \in DOMAIN new \cup DOMAIN old |->
        IF x \in DOMAIN new THEN new[x] ELSE old[x]]
Keeping(table, S) == [x \in DOMAIN table \cap S |-> table[x]]

Live(table)    == {x \in DOMAIN table : ~table[x].del}
Named(gs, n)   == {g \in DOMAIN gs : gs[g].name = n}
Held(x)        == {h \in Holders : x \in DOMAIN groups[h] \cup DOMAIN sites[h]}
GivenNames(h)  == {groups[h][g].name : g \in DOMAIN groups[h]}

(* The rows of a table are read in the order of their ids, without a sort. *)
FirstNamed(seq, gs, n) ==
    LET found == SelectSeq(seq, LAMBDA g : gs[g].name = n)
    IN IF found = <<>> THEN {} ELSE {Head(found)}

(* The UI refuses the name of a group it shows, that is of a live one.     *)
NameFree(d, n) == \A g \in Live(groups[d]) : groups[d][g].name # n

NoteNames(n) ==
    reused' = (reused \/ \E h \in Holders : n \in GivenNames(h))

Init ==
    /\ groups = [h \in Holders |-> <<>>]
    /\ order = [h \in Holders |-> <<>>]
    /\ sites = [h \in Holders |-> <<>>]
    /\ unseen = [d \in Devices |-> {}]
    /\ later = [d \in Devices |-> {}]
    /\ last = [d \in Devices |-> "none"]
    /\ reused = FALSE
    /\ ops = 0

-----------------------------------------------------------------------------
(* Edits on a device: launchpad_repo.                                      *)

Edit ==
    /\ ops < MaxOps
    /\ ops' = ops + 1

LocalEdit(d, gs, ss) ==
    /\ Edit
    /\ groups' = [groups EXCEPT ![d] = Over(gs, @)]
    /\ order' = [order EXCEPT ![d] = @ \o SetToSeq(DOMAIN gs \ DOMAIN groups[d])]
    /\ sites' = [sites EXCEPT ![d] = Over(ss, @)]
    /\ later' = [later EXCEPT ![d] = @ \cup DOMAIN gs \cup DOMAIN ss]
    /\ last' = [last EXCEPT ![d] = "none"]
    /\ UNCHANGED unseen

One(x, row) == [y \in {x} |-> row]

AddGroup(d, g, n) ==
    /\ Held(g) = {}
    /\ NameFree(d, n)
    /\ LocalEdit(d, One(g, [name |-> n, del |-> FALSE]), <<>>)
    /\ NoteNames(n)

RenameGroup(d, g, n) ==
    /\ g \in Live(groups[d])
    /\ NameFree(d, n)
    /\ LocalEdit(d, One(g, [name |-> n, del |-> FALSE]), <<>>)
    /\ NoteNames(n)

(* A group goes with all its sites, deleted ones too.                      *)
DeleteGroup(d, g) ==
    /\ g \in Live(groups[d])
    /\ LocalEdit(d, One(g, [groups[d][g] EXCEPT !.del = TRUE]),
           [s \in {t \in DOMAIN sites[d] : sites[d][t].group = g} |->
               [sites[d][s] EXCEPT !.del = TRUE]])
    /\ UNCHANGED reused

AddSite(d, s, g) ==
    /\ Held(s) = {}
    /\ g \in Live(groups[d])
    /\ LocalEdit(d, <<>>, One(s, [group |-> g, del |-> FALSE]))
    /\ UNCHANGED reused

(* The UI shows the live sites of live groups.                             *)
MoveSite(d, s, g) ==
    /\ s \in Live(sites[d])
    /\ sites[d][s].group \in Live(groups[d])
    /\ g \in Live(groups[d])
    /\ LocalEdit(d, <<>>, One(s, [group |-> g, del |-> FALSE]))
    /\ UNCHANGED reused

DeleteSite(d, s) ==
    /\ s \in Live(sites[d])
    /\ sites[d][s].group \in Live(groups[d])
    /\ LocalEdit(d, <<>>, One(s, [sites[d][s] EXCEPT !.del = TRUE]))
    /\ UNCHANGED reused

-----------------------------------------------------------------------------
(* Edits in the web pages: navigation_service, sites only.                 *)

WebEdit(s, row) ==
    /\ Edit
    /\ sites' = [sites EXCEPT ![Server] = Over(One(s, row), @)]
    /\ unseen' = [d \in Devices |-> unseen[d] \cup {s}]
    /\ later' = [d \in Devices |-> later[d] \ {s}]
    /\ UNCHANGED <<groups, order, last, reused>>

WebAddSite(s, g) ==
    /\ Held(s) = {}
    /\ g \in Live(groups[Server])
    /\ WebEdit(s, [group |-> g, del |-> FALSE])

WebMoveSite(s, g) ==
    /\ s \in Live(sites[Server])
    /\ g \in Live(groups[Server])
    /\ WebEdit(s, [group |-> g, del |-> FALSE])

WebDeleteSite(s) ==
    /\ s \in Live(sites[Server])
    /\ WebEdit(s, [sites[Server][s] EXCEPT !.del = TRUE])

-----------------------------------------------------------------------------
(* The merge: process_website_groups, then process_websites.               *)

(* Mutant: the gate without its first check.                               *)
Accepts_NoGate(d, x) == x \in later[d]

(* The conflict gate for a row the server has.                             *)
Accepts(d, x) == x \notin unseen[d] /\ x \in later[d]

(* One group of the upload.  The server's table and the rows it stamped    *)
(* are threaded through the groups in the order they were sent.            *)
MergeGroup(d, acc, g) ==
    LET mine   == groups[d][g]
        taken  == [groups  |-> Over(One(g, mine), acc.groups),
                   order   |-> IF g \in DOMAIN acc.groups
                               THEN acc.order ELSE Append(acc.order, g),
                   stamped |-> acc.stamped \cup {g}]
        touched == Named(acc.groups, mine.name)
    IN
    IF g \in DOMAIN acc.groups
    THEN IF Accepts(d, g) /\ g \notin acc.stamped THEN taken ELSE acc
    ELSE IF touched # {} THEN [acc EXCEPT !.stamped = @ \cup touched]
                         ELSE taken

MergedGroups(d) ==
    FoldLeft(LAMBDA acc, g : MergeGroup(d, acc, g),
             [groups |-> groups[Server], order |-> order[Server],
              stamped |-> {}],
             order[d])

(* Where a new site goes: to its group, or, when the server did not take   *)
(* that, to the first of the same name.                                    *)
Home(d, gs, s) ==
    LET g == sites[d][s].group IN
    IF g \in DOMAIN gs.groups THEN {g}
    ELSE FirstNamed(gs.order, gs.groups, groups[d][g].name)

(* Mutant: a site goes unsent when its group is deleted.                   *)
NewSites_OfLiveGroups(d) ==
    {s \in DOMAIN sites[d] \ DOMAIN sites[Server] :
        sites[d][s].group \in Live(groups[d])}

NewSites(d)     == DOMAIN sites[d] \ DOMAIN sites[Server]
UpdatedSites(d) ==
    {s \in DOMAIN sites[d] \cap DOMAIN sites[Server] : Accepts(d, s)}

(* A foreign key or a missing name fails the whole transaction.            *)
MergePossible(d, gs) ==
    /\ \A s \in NewSites(d) : Home(d, gs, s) # {}
    /\ \A s \in UpdatedSites(d) : sites[d][s].group \in DOMAIN gs.groups

MergedSites(d, gs) ==
    Over([s \in NewSites(d) |->
             [sites[d][s] EXCEPT !.group = CHOOSE g \in Home(d, gs, s) : TRUE]],
         Over(Keeping(sites[d], UpdatedSites(d)), sites[Server]))

(* The server after the merge of a device's rows, and the rows it stamped. *)
(* The answer is made of these and of what the device had not seen.        *)
Merge(d, gs) ==
    [groups  |-> gs.groups, order |-> gs.order, sites |-> MergedSites(d, gs),
     stamped |-> gs.stamped \cup NewSites(d) \cup UpdatedSites(d)]

-----------------------------------------------------------------------------
(* The answer on the client: process_server_data.                          *)

(* Mutant: the answer leaves deleted groups out.                           *)
AnsweredGroups_LiveOnly(d, m) ==
    SelectSeq(m.order, LAMBDA g : /\ g \in unseen[d] \cup m.stamped
                                  /\ ~m.groups[g].del)

Answered(d, m)       == unseen[d] \cup m.stamped
AnsweredGroups(d, m) == SelectSeq(m.order, LAMBDA g : g \in Answered(d, m))
AnsweredSites(d, m)  == Answered(d, m) \cap Sites

(* A local group in the way of a server group: its name, another uuid.     *)
InTheWay(d, m, g, l) == l # g /\ groups[d][l].name = m.groups[g].name

(* One server group: the first local group in its way gives its sites up   *)
(* to it.  The server's groups are not inserted yet, so the foreign key    *)
(* fails when this one is new to the device.                               *)
ReconcileGroup(d, m, acc, g) ==
    LET foes == SelectSeq(order[d], LAMBDA l : InTheWay(d, m, g, l)) IN
    IF foes = <<>> THEN acc
    ELSE LET moved == {s \in DOMAIN acc.sites : acc.sites[s].group = Head(foes)}
         IN [sites |-> Over([s \in moved |-> [acc.sites[s] EXCEPT !.group = g]],
                            acc.sites),
             moved |-> acc.moved \cup moved,
             clean |-> acc.clean \cup {Head(foes)},
             fails |-> acc.fails \/ (moved # {} /\ g \notin DOMAIN groups[d])]

Reconciled(d, m) ==
    FoldLeft(LAMBDA acc, g : ReconcileGroup(d, m, acc, g),
             [sites |-> sites[d], moved |-> {}, clean |-> {}, fails |-> FALSE],
             AnsweredGroups(d, m))

ApplyPossible(d, m, rec) ==
    /\ ~rec.fails
    /\ \A s \in AnsweredSites(d, m) :
          m.sites[s].group \in DOMAIN groups[d] \cup Range(AnsweredGroups(d, m))

(* The rows of the answer are upserted, and then the emptied groups are    *)
(* deleted, and with them the sites that are in them.                      *)
AppliedGroups(d, m, rec) ==
    Keeping(Over(Keeping(m.groups, Answered(d, m)), groups[d]),
            Groups \ rec.clean)

(* Mutant: every group of the answer is inserted, known or not.            *)
AppliedOrder_Inserts(d, m, rec) ==
    SelectSeq(order[d] \o AnsweredGroups(d, m),
              LAMBDA g : g \notin rec.clean)

AppliedOrder(d, m, rec) ==
    SelectSeq(order[d] \o SelectSeq(AnsweredGroups(d, m),
                                    LAMBDA g : g \notin DOMAIN groups[d]),
              LAMBDA g : g \notin rec.clean)

(* Mutant: the foreign key does not cascade.                               *)
AppliedSites_NoCascade(d, m, rec) ==
    Over(Keeping(m.sites, Answered(d, m)), rec.sites)

AppliedSites(d, m, rec) ==
    LET table == Over(Keeping(m.sites, Answered(d, m)), rec.sites)
    IN Keeping(table, {s \in DOMAIN table : table[s].group \notin rec.clean})

(* A row the device already had is stamped anew by its update trigger, on  *)
(* an upsert as on the move to another group.                              *)
LaterAfterApply(d, m, rec) ==
    (later[d] \cup rec.moved
              \cup (Answered(d, m) \cap (DOMAIN groups[d] \cup DOMAIN sites[d])))
    \cap (DOMAIN AppliedGroups(d, m, rec) \cup DOMAIN AppliedSites(d, m, rec))

-----------------------------------------------------------------------------
(* How a sync of a device may go: refused by the server, merged but not    *)
(* applied, or merged and applied.                                         *)

RefusedSync(d, gs) ==
    /\ ~MergePossible(d, gs)
    /\ last' = [last EXCEPT ![d] = "refused"]
    /\ UNCHANGED <<groups, order, sites, unseen, later, reused, ops>>

(* The answer is lost, or a foreign key fails while it is applied.         *)
UnappliedSync(d, m, rec) ==
    /\ Faulty \/ ~ApplyPossible(d, m, rec)
    /\ last' = [last EXCEPT ![d] =
                    IF ApplyPossible(d, m, rec) THEN "none" ELSE "unapplied"]
    /\ groups' = [groups EXCEPT ![Server] = m.groups]
    /\ order' = [order EXCEPT ![Server] = m.order]
    /\ sites' = [sites EXCEPT ![Server] = m.sites]
    /\ unseen' = [e \in Devices |-> unseen[e] \cup m.stamped]
    /\ later' = [e \in Devices |-> later[e] \ m.stamped]
    /\ UNCHANGED <<reused, ops>>

AppliedSync(d, m, rec) ==
    /\ ApplyPossible(d, m, rec)
    /\ last' = [last EXCEPT ![d] = "ok"]
    /\ groups' = [groups EXCEPT ![Server] = m.groups, ![d] = AppliedGroups(d, m, rec)]
    /\ order' = [order EXCEPT ![Server] = m.order, ![d] = AppliedOrder(d, m, rec)]
    /\ sites' = [sites EXCEPT ![Server] = m.sites, ![d] = AppliedSites(d, m, rec)]
    /\ unseen' = [e \in Devices |->
                     IF e = d THEN {} ELSE unseen[e] \cup m.stamped]
    /\ later' = [e \in Devices |->
                    IF e = d THEN LaterAfterApply(d, m, rec) ELSE later[e] \ m.stamped]
    /\ UNCHANGED <<reused, ops>>

Sync(d) ==
    LET gs  == MergedGroups(d)
        m   == Merge(d, gs)
        rec == Reconciled(d, m)
    IN \/ RefusedSync(d, gs)
       \/ /\ MergePossible(d, gs)
          /\ UnappliedSync(d, m, rec) \/ AppliedSync(d, m, rec)

Next ==
    \/ \E d \in Devices, g \in Groups :
          \/ \E n \in Names : AddGroup(d, g, n) \/ RenameGroup(d, g, n)
          \/ DeleteGroup(d, g)
          \/ \E s \in Sites : AddSite(d, s, g) \/ MoveSite(d, s, g)
    \/ \E d \in Devices, s \in Sites : DeleteSite(d, s)
    \/ \E s \in Sites, g \in Groups : WebAddSite(s, g) \/ WebMoveSite(s, g)
    \/ \E s \in Sites : WebDeleteSite(s)
    \/ \E d \in Devices : Sync(d)

Spec == Init /\ [][Next]_vars
-----------------------------------------------------------------------------
(* Properties                                                              *)

(* Every variable has its type.                                            *)
TypeOK ==
    /\ \A h \in Holders :
          /\ DOMAIN groups[h] \subseteq Groups
          /\ \A g \in DOMAIN groups[h] : groups[h][g] \in Group
          /\ Range(order[h]) = DOMAIN groups[h]
          /\ Len(order[h]) = Cardinality(DOMAIN groups[h])
          /\ DOMAIN sites[h] \subseteq Sites
          /\ \A s \in DOMAIN sites[h] : sites[h][s] \in Site
    /\ unseen \in [Devices -> SUBSET Rows]
    /\ later \in [Devices -> SUBSET Rows]
    /\ last \in [Devices -> Verdict]
    /\ reused \in BOOLEAN
    /\ ops \in 0 .. MaxOps

(* The foreign key holds in every table, at every moment.                  *)
SitesHaveGroups ==
    \A h \in Holders : \A s \in DOMAIN sites[h] :
        sites[h][s].group \in DOMAIN groups[h]

(* As long as no name is given to a second group, every sync goes through: *)
(* the server takes every table a device may come to, and the device can   *)
(* apply every answer.                                                     *)
EverySyncGoesThrough ==
    ~reused => \A d \in Devices : last[d] \notin {"refused", "unapplied"}

(* A device whose last sync succeeded, and that neither edited nor missed  *)
(* anything since, holds exactly the tables of the server.                 *)
SyncedTablesAgree ==
    \A d \in Devices :
        (~reused /\ last[d] = "ok" /\ unseen[d] = {})
        => groups[d] = groups[Server] /\ sites[d] = sites[Server]

(* What the server has marked as deleted stays so, whatever tables the     *)
(* devices still send.                                                     *)
DeletionStays ==
    [][/\ \A g \in DOMAIN groups[Server] :
             groups[Server][g].del => groups'[Server][g].del
       /\ \A s \in DOMAIN sites[Server] :
             sites[Server][s].del => sites'[Server][s].del]_vars

=============================================================================
