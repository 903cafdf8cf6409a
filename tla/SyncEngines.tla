---------------------------- MODULE SyncEngines ----------------------------
(***************************************************************************)
(* What one synchronisation does to the search engines.  Their table is    *)
(* unique in the name and in the default, on the server as on a device,    *)
(* but both sides write it row by row: a row that still holds a name or    *)
(* the default, and would give it up a row later, fails the transaction.   *)
(* Nothing reconciles engines of the same name, as is done for groups, and *)
(* an engine is deleted for good on a device, so nobody is told of it.     *)
(*                                                                         *)
(* A sync is one step, as in SyncTables, and revisions are the same two    *)
(* sets: the server rows stamped since the cursor of a device, and the     *)
(* local rows with the later revision.                                     *)
(***************************************************************************)
EXTENDS Naturals, FiniteSets, SequencesExt

CONSTANTS
    Devices,    \* desktop clients of one account
    Server,     \* the holder of the server's table
    Engines,    \* uuids of engines
    MaxName,    \* bound: names are 1 .. MaxName, in their order
    Faulty,     \* may the answer of a sync be lost?
    MaxChanges  \* bound: changes made by users

VARIABLES
    engines,   \* [Holders -> engine table]: uuid |-> [name, default]
    missed,    \* [Devices -> SUBSET Engines] server rows stamped since the cursor
    newer,     \* [Devices -> SUBSET Engines] local rows with the later revision
    result,    \* [Devices -> Result]         how its last sync went, if it has
               \*                             not been changed since
    gone,      \* [Devices -> SUBSET Engines] history: deleted there
    clashed,   \* BOOLEAN                     history: a name or the default given
               \*                             to an engine while another had it
    changes    \* changes made so far

vars == <<engines, missed, newer, result, gone, clashed, changes>>

-----------------------------------------------------------------------------
Holders == Devices \cup {Server}
Result  == {"none", "ok", "refused", "unapplied"}
Engine  == [name: 1 .. MaxName, default: BOOLEAN]

Put(table, e, row) ==
    [f \in DOMAIN table \cup {e} |-> IF f = e THEN row ELSE table[f]]

(* The unique indexes: an engine finds its name and its default free.      *)
Fits(table, e, row) ==
    \A f \in DOMAIN table \ {e} :
        /\ table[f].name # row.name
        /\ ~(table[f].default /\ row.default)

(* A table is read through its unique index, in the order of the names.    *)
InOrder(table, S) ==
    SetToSortSeq(S, LAMBDA e, f : table[e].name < table[f].name)

(* The rows of the other engines, wherever they are.                       *)
Elsewhere(e) ==
    UNION {{engines[h][f] : f \in DOMAIN engines[h] \ {e}} : h \in Holders}

Init ==
    /\ engines = [h \in Holders |-> <<>>]
    /\ missed = [d \in Devices |-> {}]
    /\ newer = [d \in Devices |-> {}]
    /\ result = [d \in Devices |-> "none"]
    /\ gone = [d \in Devices |-> {}]
    /\ clashed = FALSE
    /\ changes = 0

-----------------------------------------------------------------------------
(* Changes on a device: launchpad_repo.  The web pages have no engines.    *)

Change(d, table, stamped) ==
    /\ changes < MaxChanges
    /\ changes' = changes + 1
    /\ engines' = [engines EXCEPT ![d] = table]
    /\ newer' = [newer EXCEPT ![d] = (@ \cup stamped) \cap DOMAIN table]
    /\ result' = [result EXCEPT ![d] = "none"]
    /\ UNCHANGED missed

(* A uuid nobody has made yet.                                             *)
Unused(e) ==
    /\ \A h \in Holders : e \notin DOMAIN engines[h]
    /\ \A d \in Devices : e \notin gone[d]

(* A name that is taken on the device is refused, by the page and by the   *)
(* index.                                                                  *)
SaveSearchEngine(d, e, n) ==
    LET row == IF e \in DOMAIN engines[d]
               THEN [engines[d][e] EXCEPT !.name = n]
               ELSE [name |-> n, default |-> FALSE]
    IN /\ e \in DOMAIN engines[d] \/ Unused(e)
       /\ Fits(engines[d], e, row)
       /\ Change(d, Put(engines[d], e, row), {e})
       /\ clashed' = (clashed \/ \E other \in Elsewhere(e) : other.name = n)
       /\ UNCHANGED gone

(* Every row is written, and stamped, before the chosen one is.            *)
SetActiveSearchEngine(d, e) ==
    /\ e \in DOMAIN engines[d]
    /\ Change(d, [f \in DOMAIN engines[d] |->
                     [engines[d][f] EXCEPT !.default = (f = e)]],
              DOMAIN engines[d])
    /\ clashed' = (clashed \/ \E other \in Elsewhere(e) : other.default)
    /\ UNCHANGED gone

ClearDefaultSearchEngine(d) ==
    /\ engines[d] # <<>>
    /\ Change(d, [f \in DOMAIN engines[d] |->
                     [engines[d][f] EXCEPT !.default = FALSE]],
              DOMAIN engines[d])
    /\ UNCHANGED <<gone, clashed>>

DeleteSearchEngine(d, e) ==
    /\ e \in DOMAIN engines[d]
    /\ Change(d, [f \in DOMAIN engines[d] \ {e} |-> engines[d][f]], {})
    /\ gone' = [gone EXCEPT ![d] = @ \cup {e}]
    /\ UNCHANGED clashed

-----------------------------------------------------------------------------
(* A table under a transaction: what it holds by now, the rows written in  *)
(* it, and whether an index has stopped it.                                *)
Begun(table) == [rows |-> table, stamped |-> {}, failed |-> FALSE]

Written(acc, e, row) ==
    [rows    |-> Put(acc.rows, e, row),
     stamped |-> acc.stamped \cup {e},
     failed  |-> acc.failed \/ ~Fits(acc.rows, e, row)]

(* Mutant: the gate without its first check.                               *)
AcceptsEngine_NoGate(d, e, acc) == e \in newer[d]

(* The conflict gate for a row the server has.                             *)
AcceptsEngine(d, e, acc) == e \notin missed[d] \cup acc.stamped /\ e \in newer[d]

(* One engine of the upload: it replaces the server's, or is inserted, or, *)
(* where its name is taken, only stamps the one that has it.               *)
MergeEngine(d, acc, e) ==
    LET mine  == engines[d][e]
        named == {f \in DOMAIN acc.rows : acc.rows[f].name = mine.name}
    IN
    IF e \in DOMAIN acc.rows
    THEN IF AcceptsEngine(d, e, acc) THEN Written(acc, e, mine) ELSE acc
    ELSE IF named # {} THEN [acc EXCEPT !.stamped = @ \cup named]
                       ELSE Written(acc, e, mine)

ProcessSearchEngines(d) ==
    FoldLeft(LAMBDA acc, e : MergeEngine(d, acc, e), Begun(engines[Server]),
             InOrder(engines[d], DOMAIN engines[d]))

AnsweredEngines(d, m) == missed[d] \cup m.stamped

UpsertSearchEngines(d, m) ==
    FoldLeft(LAMBDA acc, e : Written(acc, e, m.rows[e]), Begun(engines[d]),
             InOrder(m.rows, AnsweredEngines(d, m)))

(* The update trigger of the device stamps the rows it already had.        *)
NewerAfterApply(d, m) ==
    (newer[d] \cup AnsweredEngines(d, m)) \cap DOMAIN engines[d]

-----------------------------------------------------------------------------
(* How the sync of a device may go.  A row an index refuses takes with it  *)
(* the whole transaction, that of the groups and sites included.           *)

RefusedSync(d, m) ==
    /\ m.failed
    /\ result' = [result EXCEPT ![d] = "refused"]
    /\ UNCHANGED <<engines, missed, newer, gone, clashed, changes>>

UnappliedSync(d, m, applied) ==
    /\ ~m.failed
    /\ Faulty \/ applied.failed
    /\ result' = [result EXCEPT ![d] = IF applied.failed THEN "unapplied" ELSE "none"]
    /\ engines' = [engines EXCEPT ![Server] = m.rows]
    /\ missed' = [e \in Devices |-> missed[e] \cup m.stamped]
    /\ newer' = [e \in Devices |-> newer[e] \ m.stamped]
    /\ UNCHANGED <<gone, clashed, changes>>

AppliedSync(d, m, applied) ==
    /\ ~m.failed /\ ~applied.failed
    /\ result' = [result EXCEPT ![d] = "ok"]
    /\ engines' = [engines EXCEPT ![Server] = m.rows, ![d] = applied.rows]
    /\ missed' = [e \in Devices |-> IF e = d THEN {} ELSE missed[e] \cup m.stamped]
    /\ newer' = [e \in Devices |->
                    IF e = d THEN NewerAfterApply(d, m) ELSE newer[e] \ m.stamped]
    /\ UNCHANGED <<gone, clashed, changes>>

SyncSearchEngines(d) ==
    LET m       == ProcessSearchEngines(d)
        applied == UpsertSearchEngines(d, m)
    IN \/ RefusedSync(d, m)
       \/ UnappliedSync(d, m, applied)
       \/ AppliedSync(d, m, applied)

Next ==
    \E d \in Devices :
        \/ \E e \in Engines :
              \/ \E n \in 1 .. MaxName : SaveSearchEngine(d, e, n)
              \/ SetActiveSearchEngine(d, e)
              \/ DeleteSearchEngine(d, e)
        \/ ClearDefaultSearchEngine(d)
        \/ SyncSearchEngines(d)

Spec == Init /\ [][Next]_vars
-----------------------------------------------------------------------------
(* Properties                                                              *)

(* Every variable has its type.                                            *)
TypeOK ==
    /\ \A h \in Holders :
          /\ DOMAIN engines[h] \subseteq Engines
          /\ \A e \in DOMAIN engines[h] : engines[h][e] \in Engine
    /\ missed \in [Devices -> SUBSET Engines]
    /\ newer \in [Devices -> SUBSET Engines]
    /\ \A d \in Devices : newer[d] \subseteq DOMAIN engines[d]
    /\ result \in [Devices -> Result]
    /\ gone \in [Devices -> SUBSET Engines]
    /\ clashed \in BOOLEAN
    /\ changes \in 0 .. MaxChanges

(* As long as no name and no default passes from one engine to another,    *)
(* every sync goes through on both sides.                                  *)
EnginesGoThrough ==
    ~clashed => \A d \in Devices : result[d] \notin {"refused", "unapplied"}

(* A device whose last sync succeeded, and that neither changed nor missed *)
(* anything since, has the server's engines, but for some it deleted.      *)
SyncedEnginesAgree ==
    \A d \in Devices :
        (result[d] = "ok" /\ missed[d] = {}) =>
            /\ DOMAIN engines[d] \subseteq DOMAIN engines[Server]
            /\ DOMAIN engines[Server] \ DOMAIN engines[d] \subseteq gone[d]
            /\ \A e \in DOMAIN engines[d] : engines[d][e] = engines[Server][e]

=============================================================================
