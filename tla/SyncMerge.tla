------------------------------ MODULE SyncMerge ------------------------------
(***************************************************************************)
(* How one synchronisation merges a device's table with the server's: the  *)
(* revision every row carries, the cursor last_synced_rev, the conflict    *)
(* gate of process_data_sync, and the incremental answer the client        *)
(* applies.  The chunked session that carries the data is SyncSession;     *)
(* here an upload is one message and its processing one transaction.       *)
(*                                                                         *)
(* A row is named by its uuid.  What it says is the number of the edit     *)
(* that wrote it, so two rows say the same exactly when the same edit      *)
(* wrote them; a deletion only marks the row.  Revisions are milliseconds  *)
(* of the clock of the machine that holds the table.                       *)
(***************************************************************************)
EXTENDS Integers, FiniteSets, TLC

CONSTANTS
    Devices,   \* desktop clients of one account
    Records,   \* uuids a row may have
    Skew,      \* [Devices -> Int]: what a device's clock is ahead by
    Slip,      \* how low a trigger's rev may come out, in milliseconds
    Racing,    \* may a write land in the millisecond of another's cursor?
    Faulty,    \* may a sync be abandoned, and its upload arrive later?
    MaxTime,   \* bound: the last moment
    MaxEdits,  \* bound: edits made by users
    MaxLate    \* bound: uploads on their way for an abandoned sync

ASSUME SyncMergeAssumption ==
    /\ Skew \in [Devices -> Int]
    /\ Slip \in Nat
    /\ Racing \in BOOLEAN
    /\ Faulty \in BOOLEAN
    /\ MaxTime \in Nat
    /\ MaxEdits \in Nat
    /\ MaxLate \in Nat

VARIABLES
    clock,    \* the time of the server
    server,   \* [Records -> Row]              the server's table
    local,    \* [Devices -> [Records -> Row]] the table of each device
    cursor,   \* [Devices -> Nat]              last_synced_rev
    run,      \* [Devices -> Run]              the device's startSync
    uploads,  \* SUBSET Upload                 uploads the server has not merged
    edits,    \* edits made so far
    pending,  \* [Devices -> SUBSET Records]   history: edited since the last
              \*                               answer the device applied
    seen      \* [Devices -> SUBSET Content]   history: what rows said on the
              \*                               device since that answer

vars == <<clock, server, local, cursor, run, uploads, edits, pending, seen>>

-----------------------------------------------------------------------------
(* Values                                                                  *)

Row     == [val: 0 .. MaxEdits, del: BOOLEAN, rev: Int]
NoRow   == [val |-> 0, del |-> FALSE, rev |-> 0]
Content == (0 .. MaxEdits) \X BOOLEAN

Exists(row)  == row.val > 0
Active(row)  == Exists(row) /\ ~row.del
Says(row)    == <<row.val, row.del>>
Said(table)  == {Says(table[k]) : k \in {i \in Records : Exists(table[i])}}

Upload == [dev: Devices, since: Nat, rows: [Records -> Row], alive: BOOLEAN]
Run    == [at: {"idle", "waiting", "merged", "replied"},
           delta: [Records -> Row], cursor: Nat]
NoDelta == [k \in Records |-> NoRow]
Idle    == [at |-> "idle", delta |-> NoDelta, cursor |-> 0]

(* The default and the trigger of rev:  the milliseconds are the seconds   *)
(* with fraction minus the seconds, times 1000, cut to an integer.         *)
Stamps(now) == {now - s : s \in 0 .. Slip}

DeviceTime(d) == clock + Skew[d]

(* A uuid nobody has made yet.                                             *)
Fresh(k) ==
    /\ ~Exists(server[k])
    /\ \A d \in Devices : ~Exists(local[d][k])
    /\ \A u \in uploads : ~Exists(u.rows[k])

(* No other sync stands between its snapshot and the time of its cursor.   *)
Quiet ==
    \/ Racing
    \/ \A d \in Devices :
        /\ run[d].at # "merged"
        /\ clock > cursor[d] + Slip
        /\ clock > run[d].cursor + Slip

Init ==
    /\ clock = 1
    /\ server = [k \in Records |-> NoRow]
    /\ local = [d \in Devices |-> [k \in Records |-> NoRow]]
    /\ cursor = [d \in Devices |-> 0]
    /\ run = [d \in Devices |-> Idle]
    /\ uploads = {}
    /\ edits = 0
    /\ pending = [d \in Devices |-> {}]
    /\ seen = [d \in Devices |-> {}]

Tick ==
    /\ clock < MaxTime
    /\ clock' = clock + 1
    /\ UNCHANGED <<server, local, cursor, run, uploads, edits, pending, seen>>

-----------------------------------------------------------------------------
(* Edits in the web pages: navigation_service writes the server's table.   *)

WebWrite(k, val, del) ==
    /\ Quiet
    /\ \E rev \in Stamps(clock) :
          server' = [server EXCEPT ![k] = [val |-> val, del |-> del, rev |-> rev]]
    /\ UNCHANGED <<clock, local, cursor, run, uploads, pending, seen>>

WebCreate(k) ==
    /\ Fresh(k)
    /\ edits < MaxEdits
    /\ edits' = edits + 1
    /\ WebWrite(k, edits + 1, FALSE)

WebUpdate(k) ==
    /\ Active(server[k])
    /\ edits < MaxEdits
    /\ edits' = edits + 1
    /\ WebWrite(k, edits + 1, FALSE)

WebDelete(k) ==
    /\ Active(server[k])
    /\ WebWrite(k, server[k].val, TRUE)
    /\ UNCHANGED edits

(* Edits on a device: the overlay of a running sync keeps its user away,   *)
(* and nobody edits in the millisecond a sync ends.                        *)

LocalWrite(d, k, val, del) ==
    /\ run[d].at = "idle"
    /\ clock > cursor[d] + Slip
    /\ \E rev \in Stamps(DeviceTime(d)) :
          local' = [local EXCEPT ![d][k] = [val |-> val, del |-> del, rev |-> rev]]
    /\ pending' = [pending EXCEPT ![d] = @ \cup {k}]
    /\ seen' = [seen EXCEPT ![d] = @ \cup {<<val, del>>}]
    /\ UNCHANGED <<clock, server, cursor, run, uploads>>

LocalCreate(d, k) ==
    /\ Fresh(k)
    /\ edits < MaxEdits
    /\ edits' = edits + 1
    /\ LocalWrite(d, k, edits + 1, FALSE)

LocalUpdate(d, k) ==
    /\ Active(local[d][k])
    /\ edits < MaxEdits
    /\ edits' = edits + 1
    /\ LocalWrite(d, k, edits + 1, FALSE)

LocalDelete(d, k) ==
    /\ Active(local[d][k])
    /\ LocalWrite(d, k, local[d][k].val, TRUE)
    /\ UNCHANGED edits

-----------------------------------------------------------------------------
(* A synchronisation.                                                      *)

(* getLastSyncRevision answers 0 when the read fails.                      *)
LastSyncRevisions(d) == {cursor[d]} \cup (IF Faulty THEN {0} ELSE {})

(* Read the cursor, collect every row, send them.                          *)
StartSync(d) ==
    /\ run[d].at = "idle"
    /\ \E since \in LastSyncRevisions(d) :
          uploads' = uploads \cup
              {[dev |-> d, since |-> since, rows |-> local[d], alive |-> TRUE]}
    /\ run' = [run EXCEPT ![d].at = "waiting"]
    /\ UNCHANGED <<clock, server, local, cursor, edits, pending, seen>>

(* Mutant: the gate without its first check.                               *)
Accepts_NoGate(since, mine, theirs) ==
    /\ Exists(mine)
    /\ ~Exists(theirs) \/ mine.rev > theirs.rev

(* The conflict gate: the client's row replaces one the server has not     *)
(* changed since the cursor, and only when it carries the later revision.  *)
Accepts(since, mine, theirs) ==
    /\ Exists(mine)
    /\ \/ ~Exists(theirs)
       \/ theirs.rev <= since /\ mine.rev > theirs.rev

(* Mutant: an accepted row keeps the revision the device gave it.          *)
Merged_KeepsRev(u, rev) ==
    [k \in Records |->
        IF Accepts(u.since, u.rows[k], server[k]) THEN u.rows[k] ELSE server[k]]

Merged(u, rev) ==
    [k \in Records |->
        IF Accepts(u.since, u.rows[k], server[k])
        THEN [u.rows[k] EXCEPT !.rev = rev[k]]
        ELSE server[k]]

After(since, table) ==
    [k \in Records |-> IF table[k].rev > since THEN table[k] ELSE NoRow]

(* process_data_sync up to its commit: one transaction.                    *)
ProcessDataSync(u) ==
    /\ Quiet
    /\ \E rev \in [Records -> Stamps(clock)] : server' = Merged(u, rev)
    /\ uploads' = uploads \ {u}
    /\ run' = IF u.alive
              THEN [run EXCEPT ![u.dev].at = "merged",
                               ![u.dev].delta = After(u.since, server')]
              ELSE run
    /\ UNCHANGED <<clock, local, cursor, edits, pending, seen>>

(* The new cursor is the time read after the commit.                       *)
AnswerSync(d) ==
    /\ run[d].at = "merged"
    /\ run' = [run EXCEPT ![d].at = "replied", ![d].cursor = clock]
    /\ UNCHANGED <<clock, server, local, cursor, uploads, edits, pending, seen>>

(* A row new to the device keeps the server's revision.  Replacing one     *)
(* fires the update trigger, which stamps it with the device's time.       *)
Upserted(mine, theirs, rev) ==
    IF ~Exists(theirs) THEN mine
    ELSE IF ~Exists(mine) THEN theirs
    ELSE [theirs EXCEPT !.rev = rev]

(* Mutants: the cursor is left where it was, or set with a margin.         *)
NextCursor_Kept(d) == cursor[d]
NextCursor_Margin(d) == run[d].cursor - 3

NextCursor(d) == run[d].cursor

(* apply_sync_result: the rows and the cursor, in one transaction.         *)
ApplySyncResult(d) ==
    /\ run[d].at = "replied"
    /\ \E rev \in [Records -> Stamps(DeviceTime(d))] :
          local' = [local EXCEPT ![d] = [k \in Records |->
                        Upserted(local[d][k], run[d].delta[k], rev[k])]]
    /\ cursor' = [cursor EXCEPT ![d] = NextCursor(d)]
    /\ run' = [run EXCEPT ![d] = Idle]
    /\ pending' = [pending EXCEPT ![d] = {}]
    /\ seen' = [seen EXCEPT ![d] = Said(local'[d])]
    /\ UNCHANGED <<clock, server, uploads, edits>>

(* The client reports a failure and is idle again.  Its upload may still   *)
(* be on its way, and the merge may already have happened.                 *)
GiveUp(d) ==
    /\ Faulty
    /\ run[d].at # "idle"
    /\ Cardinality({u \in uploads : ~u.alive}) < MaxLate
    /\ run' = [run EXCEPT ![d] = Idle]
    /\ uploads' = {IF u.dev = d THEN [u EXCEPT !.alive = FALSE] ELSE u :
                      u \in uploads}
    /\ UNCHANGED <<clock, server, local, cursor, edits, pending, seen>>

LoseUpload(u) ==
    /\ Faulty
    /\ ~u.alive
    /\ uploads' = uploads \ {u}
    /\ UNCHANGED <<clock, server, local, cursor, run, edits, pending, seen>>

Next ==
    \/ Tick
    \/ \E k \in Records : WebCreate(k) \/ WebUpdate(k) \/ WebDelete(k)
    \/ \E d \in Devices, k \in Records :
          LocalCreate(d, k) \/ LocalUpdate(d, k) \/ LocalDelete(d, k)
    \/ \E d \in Devices :
          StartSync(d) \/ AnswerSync(d) \/ ApplySyncResult(d) \/ GiveUp(d)
    \/ \E u \in uploads : ProcessDataSync(u) \/ LoseUpload(u)

Spec == Init /\ [][Next]_vars

-----------------------------------------------------------------------------
(* Properties                                                              *)

(* Every variable has its type.                                            *)
TypeOK ==
    /\ clock \in Nat
    /\ server \in [Records -> Row]
    /\ local \in [Devices -> [Records -> Row]]
    /\ cursor \in [Devices -> Nat]
    /\ run \in [Devices -> Run]
    /\ uploads \subseteq Upload
    /\ edits \in 0 .. MaxEdits
    /\ pending \in [Devices -> SUBSET Records]
    /\ seen \in [Devices -> SUBSET Content]

(* The cursor promises that the device has every row the server stamped    *)
(* up to it: an idle device holds such a row as the server does, unless    *)
(* its user has edited it since.  process_data_sync answers only rows      *)
(* after the cursor, so a row it hides is never sent again.                *)
CursorIsTruthful ==
    \A d \in Devices, k \in Records :
        (run[d].at = "idle" /\ Exists(server[k]) /\ server[k].rev <= cursor[d])
        => Says(local[d][k]) = Says(server[k]) \/ k \in pending[d]

(* A row deleted on the server stays deleted, whatever tables the devices  *)
(* still hold: the gate keeps the tombstone and the answer spreads it.     *)
TombstoneStays ==
    [][\A k \in Records :
          server[k].del => server'[k].del]_vars

(* What a user wrote on a device and has not synchronised gives way, when  *)
(* an answer is applied, only to something the device has not held since   *)
(* the answer before: another author's edit, never an older state of the   *)
(* row that the edit was made upon.                                        *)
EditYieldsOnlyToNews ==
    [][\A d \in Devices :
          \A k \in pending[d] \ pending'[d] :
              \/ Says(local'[d][k]) = Says(local[d][k])
              \/ Says(local'[d][k]) \notin seen[d]]_vars
==============================================================================
