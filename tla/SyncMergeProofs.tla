-------------------------- MODULE SyncMergeProofs --------------------------
(***************************************************************************)
(* Proofs about SyncMerge for any number of devices, records, edits and    *)
(* late uploads, with uploads abandoned and revisions that come out low.   *)
(***************************************************************************)
EXTENDS MCSyncMerge, TLAPS

-----------------------------------------------------------------------------
(* Types.                                                                  *)

LEMMA RowTypes ==
    /\ NoRow \in Row
    /\ NoDelta \in [Records -> Row]
    /\ Idle \in Run
  BY SyncMergeAssumption DEF NoRow, Row, NoDelta, Idle, Run

LEMMA StampType == ASSUME NEW now \in Int PROVE Stamps(now) \subseteq Int
  BY SyncMergeAssumption DEF Stamps

LEMMA StampBound ==
    ASSUME NEW now \in Int, NEW rev \in Stamps(now)
    PROVE  now - Slip <= rev
  BY SyncMergeAssumption DEF Stamps

LEMMA ClockType ==
    ASSUME TypeOK, NEW d \in Devices
    PROVE  DeviceTime(d) \in Int
  BY SyncMergeAssumption DEF TypeOK, DeviceTime

LEMMA TypeInit == Init => TypeOK
  BY SyncMergeAssumption, RowTypes DEF Init, TypeOK, Row, NoRow, Content

LEMMA TypeWeb ==
    ASSUME TypeOK, NEW k \in Records, WebCreate(k) \/ WebUpdate(k) \/ WebDelete(k)
    PROVE  TypeOK'
<1>1. ASSUME NEW val \in 0 .. MaxEdits, NEW del \in BOOLEAN, WebWrite(k, val, del),
             edits' \in 0 .. MaxEdits
      PROVE  TypeOK'
  <2>1. PICK rev \in Stamps(clock) :
            server' = [server EXCEPT ![k] = [val |-> val, del |-> del, rev |-> rev]]
    BY <1>1 DEF WebWrite
  <2>2. rev \in Int
    BY <2>1, StampType DEF TypeOK
  <2>3. [val |-> val, del |-> del, rev |-> rev] \in Row
    BY <2>2 DEF Row
  <2>4. server' \in [Records -> Row]
    BY <2>1, <2>3 DEF TypeOK
  <2> QED
    BY <1>1, <2>4 DEF TypeOK, WebWrite
<1>2. edits < MaxEdits => edits + 1 \in 0 .. MaxEdits
  BY SyncMergeAssumption DEF TypeOK
<1>3. server[k].val \in 0 .. MaxEdits
  BY DEF TypeOK, Row
<1>4. edits \in 0 .. MaxEdits
  BY DEF TypeOK
<1>5. CASE WebCreate(k)
  BY <1>1, <1>2, <1>5 DEF WebCreate
<1>6. CASE WebUpdate(k)
  BY <1>1, <1>2, <1>6 DEF WebUpdate
<1>7. CASE WebDelete(k)
  BY <1>1, <1>3, <1>4, <1>7 DEF WebDelete
<1> QED
  BY <1>5, <1>6, <1>7

LEMMA TypeLocal ==
    ASSUME TypeOK, NEW d \in Devices, NEW k \in Records,
           LocalCreate(d, k) \/ LocalUpdate(d, k) \/ LocalDelete(d, k)
    PROVE  TypeOK'
<1>1. ASSUME NEW val \in 0 .. MaxEdits, NEW del \in BOOLEAN, LocalWrite(d, k, val, del),
             edits' \in 0 .. MaxEdits
      PROVE  TypeOK'
  <2>1. PICK rev \in Stamps(DeviceTime(d)) :
            local' = [local EXCEPT ![d][k] = [val |-> val, del |-> del, rev |-> rev]]
    BY <1>1 DEF LocalWrite
  <2>2. rev \in Int
    BY <2>1, StampType, ClockType
  <2>3. [val |-> val, del |-> del, rev |-> rev] \in Row
    BY <2>2 DEF Row
  <2>4. local' \in [Devices -> [Records -> Row]]
    BY <2>1, <2>3 DEF TypeOK
  <2>5. <<val, del>> \in Content
    BY DEF Content
  <2>6. pending' \in [Devices -> SUBSET Records] /\ seen' \in [Devices -> SUBSET Content]
    BY <1>1, <2>5 DEF TypeOK, LocalWrite
  <2> QED
    BY <1>1, <2>4, <2>6 DEF TypeOK, LocalWrite
<1>2. edits < MaxEdits => edits + 1 \in 0 .. MaxEdits
  BY SyncMergeAssumption DEF TypeOK
<1>3. local[d][k].val \in 0 .. MaxEdits
  BY DEF TypeOK, Row
<1>4. edits \in 0 .. MaxEdits
  BY DEF TypeOK
<1>5. CASE LocalCreate(d, k)
  BY <1>1, <1>2, <1>5 DEF LocalCreate
<1>6. CASE LocalUpdate(d, k)
  BY <1>1, <1>2, <1>6 DEF LocalUpdate
<1>7. CASE LocalDelete(d, k)
  BY <1>1, <1>3, <1>4, <1>7 DEF LocalDelete
<1> QED
  BY <1>5, <1>6, <1>7

LEMMA MergedType ==
    ASSUME TypeOK, NEW u \in uploads, NEW rev \in [Records -> Stamps(clock)]
    PROVE  Merged(u, rev) \in [Records -> Row]
<1> SUFFICES ASSUME NEW k \in Records
             PROVE  [u.rows[k] EXCEPT !.rev = rev[k]] \in Row /\ server[k] \in Row
  BY DEF Merged
<1>1. u.rows[k] \in Row /\ server[k] \in Row
  BY DEF TypeOK, Upload
<1>2. rev[k] \in Int
  BY StampType DEF TypeOK
<1> QED
  BY <1>1, <1>2 DEF Row

LEMMA TypeSync ==
    ASSUME TypeOK, NEW d \in Devices,
           StartSync(d) \/ AnswerSync(d) \/ ApplySyncResult(d) \/ GiveUp(d)
    PROVE  TypeOK'
<1>1. CASE StartSync(d)
  <2>1. PICK since \in LastSyncRevisions(d) : uploads' = uploads \cup
            {[dev |-> d, since |-> since, rows |-> local[d], alive |-> TRUE]}
    BY <1>1 DEF StartSync
  <2>2. since \in Nat
    BY <2>1 DEF LastSyncRevisions, TypeOK
  <2>3. uploads' \subseteq Upload
    <3>1. local[d] \in [Records -> Row]
      BY DEF TypeOK
    <3>2. [dev |-> d, since |-> since, rows |-> local[d], alive |-> TRUE] \in Upload
      BY <2>2, <3>1 DEF Upload
    <3> QED
      BY <2>1, <3>2 DEF TypeOK
  <2>4. run' \in [Devices -> Run]
    BY <1>1 DEF StartSync, TypeOK, Run
  <2>5. UNCHANGED <<clock, server, local, cursor, edits, pending, seen>>
    BY <1>1 DEF StartSync
  <2> QED
    BY <2>3, <2>4, <2>5 DEF TypeOK
<1>2. CASE AnswerSync(d)
  BY <1>2 DEF AnswerSync, TypeOK, Run
<1>3. CASE ApplySyncResult(d)
  <2>1. PICK rev \in [Records -> Stamps(DeviceTime(d))] :
            local' = [local EXCEPT ![d] = [k \in Records |->
                          Upserted(local[d][k], run[d].delta[k], rev[k])]]
    BY <1>3 DEF ApplySyncResult
  <2>2. ASSUME NEW k \in Records
        PROVE  Upserted(local[d][k], run[d].delta[k], rev[k]) \in Row
    <3>1. local[d][k] \in Row /\ run[d].delta[k] \in Row
      BY DEF TypeOK, Run
    <3>2. rev[k] \in Int
      BY <2>1, StampType, ClockType
    <3> QED
      BY <3>1, <3>2 DEF Upserted, Row
  <2>3. local' \in [Devices -> [Records -> Row]]
    BY <2>1, <2>2 DEF TypeOK
  <2>4. cursor' \in [Devices -> Nat] /\ run' \in [Devices -> Run]
    BY <1>3, RowTypes DEF ApplySyncResult, NextCursor, TypeOK, Run
  <2>5. Said(local'[d]) \subseteq Content
    BY <2>3 DEF Said, Says, Content, Row
  <2>6. seen' \in [Devices -> SUBSET Content]
    BY <1>3, <2>5 DEF ApplySyncResult, TypeOK
  <2> QED
    BY <1>3, <2>3, <2>4, <2>6 DEF ApplySyncResult, TypeOK
<1>4. CASE GiveUp(d)
  <2>1. uploads' \subseteq Upload
    <3>1. ASSUME NEW u \in uploads PROVE u \in Upload /\ [u EXCEPT !.alive = FALSE] \in Upload
      BY DEF TypeOK, Upload
    <3>2. uploads' = {IF u.dev = d THEN [u EXCEPT !.alive = FALSE] ELSE u : u \in uploads}
      BY <1>4 DEF GiveUp
    <3> QED
      BY <3>1, <3>2
  <2>2. run' \in [Devices -> Run]
    BY <1>4, RowTypes DEF GiveUp, TypeOK
  <2>3. UNCHANGED <<clock, server, local, cursor, edits, pending, seen>>
    BY <1>4 DEF GiveUp
  <2> QED
    BY <2>1, <2>2, <2>3 DEF TypeOK
<1> QED
  BY <1>1, <1>2, <1>3, <1>4

LEMMA TypeUpload ==
    ASSUME TypeOK, NEW u \in uploads, ProcessDataSync(u) \/ LoseUpload(u)
    PROVE  TypeOK'
<1>1. CASE ProcessDataSync(u)
  <2>1. server' \in [Records -> Row]
    BY <1>1, MergedType DEF ProcessDataSync
  <2>2. After(u.since, server') \in [Records -> Row]
    BY <2>1, RowTypes DEF After
  <2>3. run' \in [Devices -> Run]
    BY <1>1, <2>2 DEF ProcessDataSync, TypeOK, Run
  <2> QED
    BY <1>1, <2>1, <2>3 DEF ProcessDataSync, TypeOK
<1>2. CASE LoseUpload(u)
  BY <1>2 DEF LoseUpload, TypeOK
<1> QED
  BY <1>1, <1>2

LEMMA TypeNext == TypeOK /\ [Next]_vars => TypeOK'
<1> SUFFICES ASSUME TypeOK, [Next]_vars PROVE TypeOK'
  OBVIOUS
<1>1. CASE Tick
  BY <1>1 DEF Tick, TypeOK
<1>2. CASE UNCHANGED vars
  BY <1>2 DEF vars, TypeOK
<1> QED
  BY <1>1, <1>2, TypeWeb, TypeLocal, TypeSync, TypeUpload DEF Next

(* Every variable has its type in every state: the cursor a device takes   *)
(* from an answer is a moment, whatever clock wrote the rows.              *)
THEOREM MergeTypes == Spec => []TypeOK
  BY TypeInit, TypeNext, PTL DEF Spec

-----------------------------------------------------------------------------
(* The inductive invariant of the cursor and of deletions.                 *)

(* Devices whose clock is not behind the server's.                         *)
OnTime == {d \in Devices : Skew[d] >= 0}

(* No cursor is ahead of the server's clock, and an answer moves it on.    *)
Cursors ==
    \A d \in Devices :
        /\ cursor[d] <= clock
        /\ run[d].cursor <= clock
        /\ run[d].at = "replied" => cursor[d] <= run[d].cursor

TombstonesExist == \A k \in Records : server[k].del => Exists(server[k])

(* An upload is no newer than its device's cursor, and the one a device    *)
(* waits for carries its table as it still is.                             *)
Snapshots ==
    /\ \A u \in uploads :
        /\ u.since <= cursor[u.dev]
        /\ u.alive => run[u.dev].at = "waiting" /\ u.rows = local[u.dev]
    /\ \A u, v \in uploads : u.alive /\ v.alive /\ u.dev = v.dev => u = v

(* A row that cannot bring a deleted record back.                          *)
Gone(row) == Exists(row) => row.del

(* Up to its cursor a device, and an upload, know of every deletion.       *)
DeletionsKnown ==
    /\ \A d \in Devices, k \in Records :
          server[k].del /\ server[k].rev <= cursor[d] => Gone(local[d][k])
    /\ \A u \in uploads, k \in Records :
          server[k].del /\ server[k].rev <= u.since => Gone(u.rows[k])

(* What the answer under way to d settles about k.                         *)
Settled(d, k) ==
    \/ run[d].at = "merged"
    \/ run[d].at = "replied" /\ server[k].rev <= run[d].cursor

DeletionTold(d, k) ==
    server[k].del /\ Settled(d, k) =>
        IF Exists(run[d].delta[k]) THEN run[d].delta[k].del ELSE Gone(local[d][k])

DeletionsTold == \A d \in Devices, k \in Records : DeletionTold(d, k)

(* An edit that waits for an answer is later than the cursor, so the gate  *)
(* lets it pass wherever it hides the server's row.                        *)
EditsPass ==
    \A d \in OnTime : \A k \in pending[d] :
        Exists(local[d][k]) /\ local[d][k].rev > cursor[d]

RowsKnown ==
    \A d \in OnTime, k \in Records :
        Exists(server[k]) /\ server[k].rev <= cursor[d] =>
            Says(local[d][k]) = Says(server[k]) \/ k \in pending[d]

RowTold(d, k) ==
    Exists(server[k]) /\ Settled(d, k) =>
        IF Exists(run[d].delta[k]) THEN Says(run[d].delta[k]) = Says(server[k])
        ELSE Says(local[d][k]) = Says(server[k])

RowsTold == \A d \in OnTime, k \in Records : RowTold(d, k)

MergeInv ==
    /\ TypeOK /\ Cursors /\ TombstonesExist /\ Snapshots
    /\ DeletionsKnown /\ DeletionsTold
    /\ EditsPass /\ RowsKnown /\ RowsTold

LEMMA MergeInit == Init => MergeInv
<1> SUFFICES ASSUME Init PROVE MergeInv
  OBVIOUS
<1>1. TypeOK
  BY TypeInit
<1>2. Cursors /\ Snapshots
  BY DEF Init, Cursors, Snapshots, Idle
<1>3. \A k \in Records : ~Exists(server[k]) /\ ~server[k].del
  BY DEF Init, NoRow, Exists
<1>4. \A d \in Devices : pending[d] = {}
  BY DEF Init
<1>5. uploads = {}
  BY DEF Init
<1> QED
  BY <1>1, <1>2, <1>3, <1>4, <1>5
  DEF MergeInv, TombstonesExist, DeletionsKnown, DeletionsTold, DeletionTold, EditsPass,
      RowsKnown, RowsTold, RowTold, OnTime

-----------------------------------------------------------------------------
(* A step changes what the server holds of k only to a row later than      *)
(* every cursor, which no device and no upload takes for known.            *)
Renewed ==
    \A k \in Records :
        \/ server'[k] = server[k]
        \/ /\ Exists(server'[k])
           /\ \A d \in Devices : server'[k].rev > cursor[d] /\ server'[k].rev > run[d].cursor

(* In a quiet moment the trigger's revision is later than every cursor,    *)
(* however low it comes out.                                               *)
LEMMA StampIsNew ==
    ASSUME TypeOK, ~Racing, Quiet, NEW rev \in Stamps(clock), NEW d \in Devices
    PROVE  rev \in Int /\ rev > cursor[d] /\ rev > run[d].cursor /\ run[d].at # "merged"
<1>1. clock \in Int /\ cursor[d] \in Int /\ run[d].cursor \in Int /\ Slip \in Int
  BY SyncMergeAssumption DEF TypeOK, Run
<1>2. PICK s \in 0 .. Slip : rev = clock - s
  BY DEF Stamps
<1>3. clock > cursor[d] + Slip /\ clock > run[d].cursor + Slip /\ run[d].at # "merged"
  BY DEF Quiet
<1> QED
  BY <1>1, <1>2, <1>3

LEMMA WebRenews ==
    ASSUME TypeOK, ~Racing, NEW k \in Records, WebCreate(k) \/ WebUpdate(k) \/ WebDelete(k)
    PROVE  /\ Renewed
           /\ \A d \in Devices : run[d].at # "merged"
           /\ \A i \in Records : server[i].del /\ Exists(server[i]) => server'[i].del
           /\ UNCHANGED <<clock, local, cursor, run, uploads, pending>>
<1>1. ASSUME NEW val \in Nat \ {0}, NEW del \in BOOLEAN, WebWrite(k, val, del),
             ~(server[k].del /\ Exists(server[k]))
      PROVE  /\ Renewed
             /\ \A d \in Devices : run[d].at # "merged"
             /\ \A i \in Records : server[i].del /\ Exists(server[i]) => server'[i].del
             /\ UNCHANGED <<clock, local, cursor, run, uploads, pending>>
  <2>1. PICK rev \in Stamps(clock) :
            server' = [server EXCEPT ![k] = [val |-> val, del |-> del, rev |-> rev]]
    BY <1>1 DEF WebWrite
  <2>2. \A d \in Devices : rev > cursor[d] /\ rev > run[d].cursor /\ run[d].at # "merged"
    BY <1>1, <2>1, StampIsNew DEF WebWrite
  <2>3. /\ server'[k] = [val |-> val, del |-> del, rev |-> rev]
        /\ \A i \in Records \ {k} : server'[i] = server[i]
    BY <2>1 DEF TypeOK
  <2>4. Renewed
    BY <2>2, <2>3 DEF Renewed, Exists
  <2>5. \A i \in Records : server[i].del /\ Exists(server[i]) => server'[i].del
    BY <1>1, <2>3
  <2> QED
    BY <1>1, <2>2, <2>4, <2>5 DEF WebWrite
<1>2. edits + 1 \in Nat \ {0}
  BY SyncMergeAssumption DEF TypeOK
<1>3. CASE WebCreate(k)
  BY <1>1, <1>2, <1>3 DEF WebCreate, Fresh
<1>4. CASE WebUpdate(k)
  BY <1>1, <1>2, <1>4 DEF WebUpdate, Active
<1>5. CASE WebDelete(k)
  <2>1. server[k].val \in Nat \ {0}
    BY <1>5, SyncMergeAssumption DEF WebDelete, Active, Exists, TypeOK, Row
  <2> QED
    BY <1>1, <1>5, <2>1 DEF WebDelete, Active
<1> QED
  BY <1>3, <1>4, <1>5

LEMMA MergeRenews ==
    ASSUME TypeOK, Snapshots, ~Racing, NEW u \in uploads, ProcessDataSync(u)
    PROVE  /\ Renewed
           /\ \A d \in Devices : run[d].at # "merged"
           /\ \A k \in Records :
                IF Accepts(u.since, u.rows[k], server[k])
                THEN Says(server'[k]) = Says(u.rows[k]) /\ server'[k].rev > u.since
                ELSE server'[k] = server[k]
<1>1. PICK rev \in [Records -> Stamps(clock)] : server' = Merged(u, rev)
  BY DEF ProcessDataSync
<1>2. u.dev \in Devices /\ u.since \in Nat /\ u.rows \in [Records -> Row]
  BY DEF TypeOK, Upload
<1>3. ASSUME NEW k \in Records, NEW d \in Devices
      PROVE  rev[k] \in Int /\ rev[k] > cursor[d] /\ rev[k] > run[d].cursor /\ run[d].at # "merged"
  BY StampIsNew DEF ProcessDataSync
<1>4. ASSUME NEW k \in Records
      PROVE  IF Accepts(u.since, u.rows[k], server[k])
             THEN server'[k] = [u.rows[k] EXCEPT !.rev = rev[k]]
             ELSE server'[k] = server[k]
  BY <1>1 DEF Merged
<1>5. ASSUME NEW k \in Records, Accepts(u.since, u.rows[k], server[k])
      PROVE  server'[k].val = u.rows[k].val /\ server'[k].del = u.rows[k].del /\ server'[k].rev = rev[k]
  BY <1>2, <1>4, <1>5 DEF Row
<1>6. ASSUME NEW k \in Records
      PROVE  IF Accepts(u.since, u.rows[k], server[k])
             THEN Says(server'[k]) = Says(u.rows[k]) /\ server'[k].rev > u.since
             ELSE server'[k] = server[k]
  <2>1. u.since <= cursor[u.dev]
    BY DEF Snapshots
  <2>2. rev[k] > u.since
    BY <1>2, <1>3, <2>1 DEF TypeOK
  <2> QED
    BY <1>4, <1>5, <2>2 DEF Says
<1>7. Renewed
  BY <1>3, <1>4, <1>5 DEF Renewed, Accepts, Exists
<1>8. \A d \in Devices : run[d].at # "merged"
  BY SyncMergeAssumption DEF ProcessDataSync, Quiet
<1> QED
  BY <1>6, <1>7, <1>8

-----------------------------------------------------------------------------
(* A step of the server that renews leaves what is known and told true.    *)

LEMMA RenewedKnown ==
    ASSUME MergeInv, TypeOK', Renewed, uploads' \subseteq uploads,
           UNCHANGED <<local, cursor, pending>>
    PROVE  TombstonesExist' /\ DeletionsKnown' /\ EditsPass' /\ RowsKnown'
<1> USE DEF MergeInv
<1>1. \A d \in Devices : cursor[d] \in Int
  BY DEF TypeOK
<1>2. \A k \in Records : server[k].rev \in Int /\ server'[k].rev \in Int
  BY DEF TypeOK, Row
<1>3. \A u \in uploads : u.dev \in Devices /\ u.since \in Int /\ u.since <= cursor[u.dev]
  BY DEF TypeOK, Upload, Snapshots
<1>4. ASSUME NEW k \in Records
      PROVE  \/ server'[k] = server[k]
             \/ /\ Exists(server'[k])
                /\ \A d \in Devices : ~(server'[k].rev <= cursor[d])
                /\ \A u \in uploads : ~(server'[k].rev <= u.since)
  BY <1>1, <1>2, <1>3 DEF Renewed
<1>5. TombstonesExist'
  BY <1>4 DEF TombstonesExist
<1>6. DeletionsKnown'
  BY <1>4 DEF DeletionsKnown
<1>7. EditsPass'
  BY DEF EditsPass
<1>8. RowsKnown'
  BY <1>4 DEF RowsKnown, OnTime
<1> QED
  BY <1>5, <1>6, <1>7, <1>8

LEMMA RenewedTold ==
    ASSUME MergeInv, TypeOK', Renewed, NEW d \in Devices, NEW k \in Records,
           run[d].at # "merged", run'[d] = run[d], UNCHANGED local
    PROVE  /\ DeletionTold(d, k) => DeletionTold(d, k)'
           /\ RowTold(d, k) => RowTold(d, k)'
<1>1. server'[k].rev \in Int /\ run[d].cursor \in Int
  BY DEF MergeInv, TypeOK, Row, Run
<1>2. server'[k] = server[k] \/ ~Settled(d, k)'
  BY <1>1 DEF Renewed, Settled
<1> QED
  BY <1>2 DEF DeletionTold, RowTold, Settled

LEMMA WebStep ==
    ASSUME MergeInv, TypeOK', ~Racing,
           NEW k \in Records, WebCreate(k) \/ WebUpdate(k) \/ WebDelete(k)
    PROVE  MergeInv'
<1>1. /\ Renewed
      /\ \A d \in Devices : run[d].at # "merged"
      /\ UNCHANGED <<clock, local, cursor, run, uploads, pending>>
  BY WebRenews DEF MergeInv
<1>2. TombstonesExist' /\ DeletionsKnown' /\ EditsPass' /\ RowsKnown'
  BY <1>1, RenewedKnown
<1>3. DeletionsTold' /\ RowsTold'
  BY <1>1, RenewedTold DEF MergeInv, DeletionsTold, RowsTold, OnTime
<1>4. Cursors' /\ Snapshots'
  BY <1>1 DEF MergeInv, Cursors, Snapshots
<1> QED
  BY <1>2, <1>3, <1>4 DEF MergeInv

LEMMA LocalStep ==
    ASSUME MergeInv, TypeOK', NEW d \in Devices, NEW k \in Records,
           LocalCreate(d, k) \/ LocalUpdate(d, k) \/ LocalDelete(d, k)
    PROVE  MergeInv'
<1> USE DEF MergeInv
<1>1. ASSUME NEW val \in Nat \ {0}, NEW del \in BOOLEAN, LocalWrite(d, k, val, del),
             del \/ ~server[k].del \/ ~(server[k].rev <= cursor[d])
      PROVE  MergeInv'
  <2>1. PICK rev \in Stamps(DeviceTime(d)) :
            local' = [local EXCEPT ![d][k] = [val |-> val, del |-> del, rev |-> rev]]
    BY <1>1 DEF LocalWrite
  <2>2. /\ local'[d][k] = [val |-> val, del |-> del, rev |-> rev]
        /\ \A e \in Devices, i \in Records : e # d \/ i # k => local'[e][i] = local[e][i]
        /\ \A e \in Devices : e # d => local'[e] = local[e]
    BY <2>1 DEF TypeOK
  <2>3. /\ run[d].at = "idle" /\ clock > cursor[d] + Slip
        /\ UNCHANGED <<clock, server, cursor, run, uploads>>
        /\ pending'[d] = pending[d] \cup {k}
        /\ \A e \in Devices : e # d => pending'[e] = pending[e]
    BY <1>1 DEF LocalWrite, TypeOK
  <2>4. d \in OnTime => rev > cursor[d]
    <3>1. clock \in Int /\ cursor[d] \in Int /\ Slip \in Int /\ Skew[d] \in Int
      BY SyncMergeAssumption DEF TypeOK
    <3>2. DeviceTime(d) \in Int
      BY <3>1 DEF DeviceTime
    <3>3. rev \in Int /\ DeviceTime(d) - Slip <= rev
      BY <2>1, <3>2, StampType, StampBound
    <3> QED
      BY <2>3, <3>1, <3>3 DEF OnTime, DeviceTime
  <2>5. Cursors' /\ TombstonesExist'
    BY <2>3 DEF Cursors, TombstonesExist
  <2>6. Snapshots'
    <3>1. ASSUME NEW u \in uploads, u.alive
          PROVE  u.rows = local'[u.dev]
      BY <2>2, <2>3, <3>1 DEF Snapshots, TypeOK, Upload
    <3> QED
      BY <2>3, <3>1 DEF Snapshots
  <2>7. Gone(local'[d][k]) \/ ~server[k].del \/ ~(server[k].rev <= cursor[d])
    BY <1>1, <2>2 DEF Gone
  <2>8. DeletionsKnown'
    <3>1. ASSUME NEW e \in Devices, NEW i \in Records, server[i].del, server[i].rev <= cursor[e]
          PROVE  Gone(local'[e][i])
      BY <2>2, <2>7, <3>1 DEF DeletionsKnown
    <3> QED
      BY <2>3, <3>1 DEF DeletionsKnown
  <2>9. ASSUME NEW e \in Devices, NEW i \in Records
        PROVE  /\ DeletionTold(e, i)'
               /\ e \in OnTime => RowTold(e, i)'
    <3>1. e = d => ~Settled(e, i)'
      BY <2>3 DEF Settled
    <3>2. Settled(e, i)' <=> Settled(e, i)
      BY <2>3 DEF Settled
    <3>3. DeletionTold(e, i) /\ (e \in OnTime => RowTold(e, i))
      BY DEF DeletionsTold, RowsTold
    <3> QED
      BY <2>2, <2>3, <3>1, <3>2, <3>3 DEF DeletionTold, RowTold
  <2>10. DeletionsTold' /\ RowsTold'
    BY <2>9 DEF DeletionsTold, RowsTold, OnTime
  <2>11. EditsPass'
    <3>1. ASSUME NEW e \in OnTime, NEW i \in pending'[e]
          PROVE  Exists(local'[e][i]) /\ local'[e][i].rev > cursor[e]
      <4>1. e \in Devices /\ i \in Records
        BY DEF OnTime, TypeOK
      <4>2. CASE e = d /\ i = k
        BY <2>2, <2>4, <4>2 DEF Exists
      <4>3. CASE e # d \/ i # k
        <5>1. i \in pending[e]
          BY <2>3, <4>1, <4>3
        <5> QED
          BY <2>2, <4>1, <4>3, <5>1 DEF EditsPass
      <4> QED
        BY <4>2, <4>3
    <3> QED
      BY <2>3, <3>1 DEF EditsPass, OnTime
  <2>12. RowsKnown'
    <3>1. ASSUME NEW e \in OnTime, NEW i \in Records, Exists(server[i]), server[i].rev <= cursor[e]
          PROVE  Says(local'[e][i]) = Says(server[i]) \/ i \in pending'[e]
      <4>1. e \in Devices
        BY DEF OnTime
      <4>2. CASE e = d /\ i = k
        BY <2>3, <4>2
      <4>3. CASE e # d \/ i # k
        BY <2>2, <2>3, <3>1, <4>1, <4>3 DEF RowsKnown
      <4> QED
        BY <4>2, <4>3
    <3> QED
      BY <2>3, <3>1 DEF RowsKnown, OnTime
  <2> QED
    BY <2>5, <2>6, <2>8, <2>10, <2>11, <2>12
<1>2. edits + 1 \in Nat \ {0}
  BY SyncMergeAssumption DEF TypeOK
<1>3. CASE LocalCreate(d, k)
  BY <1>1, <1>2, <1>3 DEF LocalCreate, Fresh, TombstonesExist
<1>4. CASE LocalUpdate(d, k)
  BY <1>1, <1>2, <1>4 DEF LocalUpdate, Active, DeletionsKnown, Gone
<1>5. CASE LocalDelete(d, k)
  <2>1. local[d][k].val \in Nat \ {0}
    BY <1>5, SyncMergeAssumption DEF LocalDelete, Active, Exists, TypeOK, Row
  <2> QED
    BY <1>1, <1>5, <2>1 DEF LocalDelete
<1> QED
  BY <1>3, <1>4, <1>5

LEMMA StartStep ==
    ASSUME MergeInv, TypeOK', NEW d \in Devices, StartSync(d)
    PROVE  MergeInv'
<1> USE DEF MergeInv
<1>1. PICK since \in LastSyncRevisions(d) : uploads' = uploads \cup
          {[dev |-> d, since |-> since, rows |-> local[d], alive |-> TRUE]}
  BY DEF StartSync
<1> DEFINE new == [dev |-> d, since |-> since, rows |-> local[d], alive |-> TRUE]
<1>2. since \in Int /\ since <= cursor[d] /\ cursor[d] \in Int
  BY DEF LastSyncRevisions, TypeOK
<1>3. /\ run[d].at = "idle"
      /\ run'[d].at = "waiting" /\ run'[d].cursor = run[d].cursor
      /\ \A e \in Devices : e # d => run'[e] = run[e]
      /\ UNCHANGED <<clock, server, local, cursor, pending>>
  BY DEF StartSync, TypeOK, Run
<1>4. Cursors'
  BY <1>3 DEF Cursors
<1>5. TombstonesExist' /\ EditsPass' /\ RowsKnown'
  BY <1>3 DEF TombstonesExist, EditsPass, RowsKnown
<1>6. Snapshots'
  <2>1. ASSUME NEW u \in uploads, u.alive
        PROVE  u.dev # d
    BY <1>3, <2>1 DEF Snapshots
  <2>2. new.since <= cursor[new.dev] /\ new.rows = local[new.dev] /\ new.alive /\ new.dev = d
    BY <1>2
  <2>3. \A u \in uploads : u.dev \in Devices
    BY DEF TypeOK, Upload
  <2>4. ASSUME NEW u \in uploads'
        PROVE  /\ u.since <= cursor[u.dev]
               /\ u.alive => run'[u.dev].at = "waiting" /\ u.rows = local[u.dev]
    <3>1. CASE u \in uploads
      BY <1>3, <2>1, <2>3, <3>1 DEF Snapshots
    <3>2. CASE u = new
      BY <1>3, <2>2, <3>2
    <3> QED
      BY <1>1, <3>1, <3>2
  <2>5. \A u, v \in uploads' : u.alive /\ v.alive /\ u.dev = v.dev => u = v
    <3>1. \A u \in uploads' : u \in uploads \/ u = new
      BY <1>1
    <3>2. \A u, v \in uploads : u.alive /\ v.alive /\ u.dev = v.dev => u = v
      BY DEF Snapshots
    <3>3. \A u \in uploads : u.alive => u.dev # new.dev
      BY <2>1, <2>2
    <3> HIDE DEF new
    <3> QED
      BY <3>1, <3>2, <3>3
  <2> QED
    BY <1>3, <2>4, <2>5 DEF Snapshots
<1>7. DeletionsKnown'
  <2>1. ASSUME NEW k \in Records, server[k].del, server[k].rev <= since
        PROVE  Gone(local[d][k])
    <3>1. server[k].rev \in Int
      BY DEF TypeOK, Row
    <3>2. server[k].rev <= cursor[d]
      BY <1>2, <2>1, <3>1
    <3> QED
      BY <2>1, <3>2 DEF DeletionsKnown
  <2>2. ASSUME NEW u \in uploads', NEW k \in Records, server[k].del, server[k].rev <= u.since
        PROVE  Gone(u.rows[k])
    BY <1>1, <2>1, <2>2 DEF DeletionsKnown
  <2> QED
    BY <1>3, <2>2 DEF DeletionsKnown
<1>8. ASSUME NEW e \in Devices, NEW k \in Records
      PROVE  /\ DeletionTold(e, k)'
             /\ e \in OnTime => RowTold(e, k)'
  <2>1. DeletionTold(e, k) /\ (e \in OnTime => RowTold(e, k))
    BY DEF DeletionsTold, RowsTold
  <2>2. CASE e = d
    BY <1>3, <2>2 DEF DeletionTold, RowTold, Settled
  <2>3. CASE e # d
    BY <1>3, <2>1, <2>3 DEF DeletionTold, RowTold, Settled
  <2> QED
    BY <2>2, <2>3
<1>9. DeletionsTold' /\ RowsTold'
  BY <1>8 DEF DeletionsTold, RowsTold, OnTime
<1> QED
  BY <1>4, <1>5, <1>6, <1>7, <1>9

LEMMA AnswerStep ==
    ASSUME MergeInv, TypeOK', NEW d \in Devices, AnswerSync(d)
    PROVE  MergeInv'
<1> USE DEF MergeInv
<1>1. /\ run[d].at = "merged"
      /\ run'[d].at = "replied" /\ run'[d].cursor = clock /\ run'[d].delta = run[d].delta
      /\ \A e \in Devices : e # d => run'[e] = run[e]
      /\ UNCHANGED <<clock, server, local, cursor, uploads, pending>>
  BY DEF AnswerSync, TypeOK, Run
<1>2. clock \in Int
  BY DEF TypeOK
<1>3. Cursors'
  BY <1>1, <1>2 DEF Cursors
<1>4. TombstonesExist' /\ EditsPass' /\ RowsKnown' /\ DeletionsKnown'
  BY <1>1 DEF TombstonesExist, EditsPass, RowsKnown, DeletionsKnown
<1>5. Snapshots'
  <2>1. \A u \in uploads : u.alive => u.dev # d
    BY <1>1 DEF Snapshots
  <2>2. \A u \in uploads : u.dev \in Devices
    BY DEF TypeOK, Upload
  <2> QED
    BY <1>1, <2>1, <2>2 DEF Snapshots
<1>6. ASSUME NEW e \in Devices, NEW k \in Records
      PROVE  /\ DeletionTold(e, k)'
             /\ e \in OnTime => RowTold(e, k)'
  <2>1. DeletionTold(e, k) /\ (e \in OnTime => RowTold(e, k))
    BY DEF DeletionsTold, RowsTold
  <2> QED
    BY <1>1, <2>1 DEF DeletionTold, RowTold, Settled
<1>7. DeletionsTold' /\ RowsTold'
  BY <1>6 DEF DeletionsTold, RowsTold, OnTime
<1> QED
  BY <1>3, <1>4, <1>5, <1>7

LEMMA ApplyStep ==
    ASSUME MergeInv, TypeOK', NEW d \in Devices, ApplySyncResult(d)
    PROVE  MergeInv'
<1> USE DEF MergeInv
<1>1. PICK rev \in [Records -> Stamps(DeviceTime(d))] :
          local' = [local EXCEPT ![d] = [k \in Records |->
                        Upserted(local[d][k], run[d].delta[k], rev[k])]]
  BY DEF ApplySyncResult
<1>2. /\ run[d].at = "replied"
      /\ run'[d] = Idle /\ cursor'[d] = run[d].cursor /\ pending'[d] = {}
      /\ \A e \in Devices : e # d =>
            run'[e] = run[e] /\ cursor'[e] = cursor[e] /\ pending'[e] = pending[e]
                /\ local'[e] = local[e]
      /\ UNCHANGED <<clock, server, uploads>>
  BY DEF ApplySyncResult, NextCursor, TypeOK
<1>3. ASSUME NEW k \in Records
      PROVE  IF Exists(run[d].delta[k])
             THEN Says(local'[d][k]) = Says(run[d].delta[k])
             ELSE local'[d][k] = local[d][k]
  <2>1. local[d][k] \in Row /\ run[d].delta[k] \in Row
    BY DEF TypeOK, Run
  <2>2. local'[d][k] = Upserted(local[d][k], run[d].delta[k], rev[k])
    BY <1>1 DEF TypeOK
  <2> QED
    BY <2>1, <2>2 DEF Upserted, Says, Row
<1>4. /\ cursor[d] \in Int /\ run[d].cursor \in Int /\ cursor[d] <= run[d].cursor
      /\ run[d].cursor <= clock /\ clock \in Int
  BY <1>2 DEF Cursors, TypeOK, Run
<1>5. Cursors'
  <2>1. Idle.cursor = 0 /\ Idle.at = "idle" /\ 0 <= clock
    BY DEF Idle, TypeOK
  <2> QED
    BY <1>2, <1>4, <2>1 DEF Cursors
<1>6. TombstonesExist'
  BY <1>2 DEF TombstonesExist
<1>7. Snapshots'
  <2>1. ASSUME NEW u \in uploads
        PROVE  /\ u.since <= cursor'[u.dev]
               /\ u.alive => run'[u.dev].at = "waiting" /\ u.rows = local'[u.dev]
    <3>1. u.dev \in Devices /\ u.since \in Int /\ u.since <= cursor[u.dev]
      BY DEF Snapshots, TypeOK, Upload
    <3>2. u.alive => run[u.dev].at = "waiting" /\ u.rows = local[u.dev]
      BY DEF Snapshots
    <3>3. CASE u.dev = d
      BY <1>2, <1>4, <3>1, <3>2, <3>3
    <3>4. CASE u.dev # d
      BY <1>2, <3>1, <3>2, <3>4
    <3> QED
      BY <3>3, <3>4
  <2> QED
    BY <1>2, <2>1 DEF Snapshots
<1>8. DeletionsKnown'
  <2>1. ASSUME NEW k \in Records, server[k].del, server[k].rev <= run[d].cursor
        PROVE  Gone(local'[d][k])
    <3>1. IF Exists(run[d].delta[k]) THEN run[d].delta[k].del ELSE Gone(local[d][k])
      BY <1>2, <2>1 DEF DeletionsTold, DeletionTold, Settled
    <3> QED
      BY <1>3, <3>1 DEF Gone, Says
  <2>2. ASSUME NEW e \in Devices, NEW k \in Records, server[k].del, server[k].rev <= cursor'[e]
        PROVE  Gone(local'[e][k])
    BY <1>2, <2>1, <2>2 DEF DeletionsKnown
  <2> QED
    BY <1>2, <2>2 DEF DeletionsKnown
<1>9. RowsKnown'
  <2>1. ASSUME NEW k \in Records, Exists(server[k]), server[k].rev <= run[d].cursor, d \in OnTime
        PROVE  Says(local'[d][k]) = Says(server[k])
    <3>1. IF Exists(run[d].delta[k]) THEN Says(run[d].delta[k]) = Says(server[k])
          ELSE Says(local[d][k]) = Says(server[k])
      BY <1>2, <2>1 DEF RowsTold, RowTold, Settled
    <3> QED
      BY <1>3, <3>1
  <2>2. ASSUME NEW e \in OnTime, NEW k \in Records, Exists(server[k]), server[k].rev <= cursor'[e]
        PROVE  Says(local'[e][k]) = Says(server[k]) \/ k \in pending'[e]
    BY <1>2, <2>1, <2>2 DEF RowsKnown, OnTime
  <2> QED
    BY <1>2, <2>2 DEF RowsKnown, OnTime
<1>10. EditsPass'
  BY <1>2 DEF EditsPass, OnTime
<1>11. ASSUME NEW e \in Devices, NEW k \in Records
       PROVE  /\ DeletionTold(e, k)'
              /\ e \in OnTime => RowTold(e, k)'
  <2>1. DeletionTold(e, k) /\ (e \in OnTime => RowTold(e, k))
    BY DEF DeletionsTold, RowsTold
  <2>2. CASE e = d
    BY <1>2, <2>2 DEF DeletionTold, RowTold, Settled, Idle
  <2>3. CASE e # d
    BY <1>2, <2>1, <2>3 DEF DeletionTold, RowTold, Settled
  <2> QED
    BY <2>2, <2>3
<1>12. DeletionsTold' /\ RowsTold'
  BY <1>11 DEF DeletionsTold, RowsTold, OnTime
<1> QED
  BY <1>5, <1>6, <1>7, <1>8, <1>9, <1>10, <1>12

LEMMA GiveUpStep ==
    ASSUME MergeInv, TypeOK', NEW d \in Devices, GiveUp(d)
    PROVE  MergeInv'
<1> USE DEF MergeInv
<1>1. /\ run'[d] = Idle
      /\ \A e \in Devices : e # d => run'[e] = run[e]
      /\ uploads' = {IF u.dev = d THEN [u EXCEPT !.alive = FALSE] ELSE u : u \in uploads}
      /\ UNCHANGED <<clock, server, local, cursor, pending>>
  BY DEF GiveUp, TypeOK
<1>2. Idle.cursor = 0 /\ Idle.at = "idle" /\ clock \in Int /\ 0 <= clock
  BY DEF Idle, TypeOK
<1>3. ASSUME NEW v \in uploads'
      PROVE  \E u \in uploads : /\ v.dev = u.dev /\ v.since = u.since /\ v.rows = u.rows
                                /\ v.alive => u.alive /\ u.dev # d /\ v = u
  <2>1. PICK u \in uploads : v = IF u.dev = d THEN [u EXCEPT !.alive = FALSE] ELSE u
    BY <1>1
  <2>2. u \in Upload
    BY DEF TypeOK
  <2> QED
    BY <2>1, <2>2 DEF Upload
<1>4. Cursors'
  BY <1>1, <1>2 DEF Cursors
<1>5. TombstonesExist' /\ EditsPass' /\ RowsKnown'
  BY <1>1 DEF TombstonesExist, EditsPass, RowsKnown
<1>6. Snapshots'
  <2>1. ASSUME NEW v \in uploads'
        PROVE  /\ v.since <= cursor[v.dev]
               /\ v.alive => run'[v.dev].at = "waiting" /\ v.rows = local[v.dev]
    <3>1. PICK u \in uploads : /\ v.dev = u.dev /\ v.since = u.since /\ v.rows = u.rows
                               /\ v.alive => u.alive /\ u.dev # d /\ v = u
      BY <1>3
    <3>2. u.dev \in Devices
      BY DEF TypeOK, Upload
    <3> QED
      BY <1>1, <3>1, <3>2 DEF Snapshots
  <2>2. \A u, v \in uploads' : u.alive /\ v.alive /\ u.dev = v.dev => u = v
    BY <1>3 DEF Snapshots
  <2> QED
    BY <1>1, <2>1, <2>2 DEF Snapshots
<1>7. DeletionsKnown'
  <2>1. ASSUME NEW v \in uploads', NEW k \in Records, server[k].del, server[k].rev <= v.since
        PROVE  Gone(v.rows[k])
    BY <1>3, <2>1 DEF DeletionsKnown
  <2> QED
    BY <1>1, <2>1 DEF DeletionsKnown
<1>8. ASSUME NEW e \in Devices, NEW k \in Records
      PROVE  /\ DeletionTold(e, k)'
             /\ e \in OnTime => RowTold(e, k)'
  <2>1. DeletionTold(e, k) /\ (e \in OnTime => RowTold(e, k))
    BY DEF DeletionsTold, RowsTold
  <2>2. CASE e = d
    BY <1>1, <1>2, <2>2 DEF DeletionTold, RowTold, Settled
  <2>3. CASE e # d
    BY <1>1, <2>1, <2>3 DEF DeletionTold, RowTold, Settled
  <2> QED
    BY <2>2, <2>3
<1>9. DeletionsTold' /\ RowsTold'
  BY <1>8 DEF DeletionsTold, RowsTold, OnTime
<1> QED
  BY <1>4, <1>5, <1>6, <1>7, <1>9

(* What the merge of the upload a device waits for answers to it settles   *)
(* every record: the answer carries the row, or the device has it already. *)
LEMMA MergeTells ==
    ASSUME MergeInv, TypeOK', ~Racing, NEW u \in uploads, ProcessDataSync(u), u.alive,
           NEW k \in Records
    PROVE  /\ DeletionTold(u.dev, k)'
           /\ u.dev \in OnTime => RowTold(u.dev, k)'
<1> DEFINE d == u.dev
<1> USE DEF MergeInv
<1>1. /\ d \in Devices /\ u.since \in Int /\ cursor[d] \in Int /\ u.since <= cursor[d]
      /\ u.rows[k] = local[d][k] /\ u.rows[k] \in Row
      /\ server[k] \in Row /\ server'[k] \in Row
  BY DEF TypeOK, Upload, Snapshots
<1>2. IF Accepts(u.since, u.rows[k], server[k])
      THEN Says(server'[k]) = Says(u.rows[k]) /\ server'[k].rev > u.since
      ELSE server'[k] = server[k]
  BY MergeRenews
<1>3. /\ UNCHANGED local
      /\ run'[d].delta = After(u.since, server')
  BY <1>1 DEF ProcessDataSync, TypeOK, Run
<1>4. run'[d].delta[k] = IF server'[k].rev > u.since THEN server'[k] ELSE NoRow
  BY <1>3 DEF After
<1>5. server'[k].rev \in Int /\ server[k].rev \in Int /\ u.rows[k].rev \in Int
  BY <1>1 DEF Row
<1>6. CASE server'[k].rev > u.since
  <2>1. run'[d].delta[k] = server'[k]
    BY <1>4, <1>6
  <2>2. server'[k].del => Exists(server'[k])
    BY RenewedKnown, MergeRenews DEF TombstonesExist, ProcessDataSync
  <2> QED
    BY <2>1, <2>2 DEF DeletionTold, RowTold
<1>7. CASE ~(server'[k].rev > u.since)
  <2>1. /\ ~Exists(run'[d].delta[k])
        /\ server'[k] = server[k] /\ server[k].rev <= u.since /\ server[k].rev <= cursor[d]
        /\ ~Accepts(u.since, u.rows[k], server[k])
    BY <1>1, <1>2, <1>4, <1>5, <1>7 DEF NoRow, Exists
  <2>2. DeletionTold(d, k)'
    BY <1>1, <1>3, <2>1 DEF DeletionTold, DeletionsKnown
  <2>3. ASSUME d \in OnTime, Exists(server[k]) PROVE k \notin pending[d]
    BY <1>1, <1>5, <2>1, <2>3 DEF EditsPass, Accepts
  <2>4. d \in OnTime => RowTold(d, k)'
    BY <1>3, <2>1, <2>3 DEF RowTold, RowsKnown
  <2> QED
    BY <2>2, <2>4
<1> QED
  BY <1>6, <1>7

LEMMA ProcessStep ==
    ASSUME MergeInv, TypeOK', ~Racing, NEW u \in uploads, ProcessDataSync(u)
    PROVE  MergeInv'
<1> USE DEF MergeInv
<1>1. /\ Renewed /\ uploads' = uploads \ {u}
      /\ \A d \in Devices : run[d].at # "merged"
      /\ UNCHANGED <<clock, local, cursor, pending>>
  BY MergeRenews DEF ProcessDataSync
<1>2. TombstonesExist' /\ DeletionsKnown' /\ EditsPass' /\ RowsKnown'
  BY <1>1, RenewedKnown
<1>3. ASSUME NEW d \in Devices
      PROVE  IF u.alive /\ d = u.dev
             THEN run'[d].at = "merged" /\ run'[d].cursor = run[d].cursor
             ELSE run'[d] = run[d]
  BY DEF ProcessDataSync, TypeOK, Run
<1>4. Cursors'
  BY <1>1, <1>3 DEF Cursors
<1>5. Snapshots'
  <2>1. ASSUME NEW v \in uploads', v.alive
        PROVE  run'[v.dev].at = "waiting" /\ v.rows = local[v.dev]
    <3>1. v \in uploads /\ v # u /\ v.dev \in Devices
      BY <1>1 DEF TypeOK, Upload
    <3>2. ~(u.alive /\ v.dev = u.dev)
      BY <2>1, <3>1 DEF Snapshots
    <3> QED
      BY <1>3, <2>1, <3>1, <3>2 DEF Snapshots
  <2> QED
    BY <1>1, <2>1 DEF Snapshots
<1>6. ASSUME NEW d \in Devices, NEW k \in Records
      PROVE  /\ DeletionTold(d, k)'
             /\ d \in OnTime => RowTold(d, k)'
  <2>1. CASE u.alive /\ d = u.dev
    BY <2>1, MergeTells
  <2>2. CASE ~(u.alive /\ d = u.dev)
    BY <1>1, <1>3, <2>2, RenewedTold DEF DeletionsTold, RowsTold
  <2> QED
    BY <2>1, <2>2
<1>7. DeletionsTold' /\ RowsTold'
  BY <1>6 DEF DeletionsTold, RowsTold, OnTime
<1> QED
  BY <1>2, <1>4, <1>5, <1>7

LEMMA MergeNext == MergeInv /\ ~Racing /\ [Next]_vars => MergeInv'
<1> SUFFICES ASSUME MergeInv, ~Racing, [Next]_vars PROVE MergeInv'
  OBVIOUS
<1>1. TypeOK'
  BY TypeNext DEF MergeInv
<1>2. CASE Tick
  <2>1. UNCHANGED <<server, local, cursor, run, uploads, pending>> /\ clock' = clock + 1
    BY <1>2 DEF Tick
  <2>2. Cursors'
    BY <2>1 DEF MergeInv, Cursors, TypeOK, Run
  <2> QED
    BY <1>1, <2>1, <2>2
    DEF MergeInv, TombstonesExist, Snapshots, DeletionsKnown, DeletionsTold, DeletionTold,
        EditsPass, RowsKnown, RowsTold, RowTold, Settled
<1>3. CASE \E u \in uploads : LoseUpload(u)
  <2>1. UNCHANGED <<clock, server, local, cursor, run, pending>> /\ uploads' \subseteq uploads
    BY <1>3 DEF LoseUpload
  <2> QED
    BY <1>1, <2>1
    DEF MergeInv, Cursors, TombstonesExist, Snapshots, DeletionsKnown, DeletionsTold,
        DeletionTold, EditsPass, RowsKnown, RowsTold, RowTold, Settled
<1>4. CASE UNCHANGED vars
  BY <1>1, <1>4
  DEF vars, MergeInv, Cursors, TombstonesExist, Snapshots, DeletionsKnown, DeletionsTold,
      DeletionTold, EditsPass, RowsKnown, RowsTold, RowTold, Settled
<1> QED
  BY <1>1, <1>2, <1>3, <1>4, WebStep, LocalStep, StartStep, AnswerStep, ApplyStep, GiveUpStep,
     ProcessStep DEF Next

(* No step that starts with the invariant brings a deleted row back.       *)
LEMMA DeletionStep ==
    ASSUME MergeInv, ~Racing, [Next]_vars
    PROVE  [\A k \in Records : server[k].del => server'[k].del]_vars
<1> SUFFICES ASSUME Next PROVE \A k \in Records : server[k].del => server'[k].del
  OBVIOUS
<1>1. \A k \in Records : server[k].del => Exists(server[k])
  BY DEF MergeInv, TombstonesExist
<1>2. CASE \E k \in Records : WebCreate(k) \/ WebUpdate(k) \/ WebDelete(k)
  BY <1>1, <1>2, WebRenews DEF MergeInv
<1>3. ASSUME NEW u \in uploads, ProcessDataSync(u), NEW k \in Records, server[k].del
      PROVE  server'[k].del
  <2>1. IF Accepts(u.since, u.rows[k], server[k])
        THEN Says(server'[k]) = Says(u.rows[k]) ELSE server'[k] = server[k]
    BY <1>3, MergeRenews DEF MergeInv
  <2>2. Accepts(u.since, u.rows[k], server[k]) => u.rows[k].del
    BY <1>1, <1>3 DEF Accepts, MergeInv, DeletionsKnown, Gone
  <2> QED
    BY <1>3, <2>1, <2>2 DEF Says
<1>4. CASE UNCHANGED server
  BY <1>4
<1> QED
  BY <1>2, <1>3, <1>4
  DEF Next, Tick, LocalCreate, LocalUpdate, LocalDelete, LocalWrite, StartSync, AnswerSync,
      ApplySyncResult, GiveUp, LoseUpload

(* The cursor tells the truth on every device whose clock is not behind    *)
(* the server's, as long as no write lands between the snapshot of a merge *)
(* and the moment that becomes its cursor: what process_data_sync no       *)
(* longer sends, the device holds, whatever was abandoned or came late.    *)
THEOREM CursorsAreTruthful ==
    ASSUME ~Racing, \A d \in Devices : Skew[d] >= 0
    PROVE  Spec => []CursorIsTruthful
<1>1. MergeInv => CursorIsTruthful
  BY DEF MergeInv, RowsKnown, OnTime, CursorIsTruthful
<1> QED
  BY MergeInit, MergeNext, <1>1, PTL DEF Spec

(* A deletion the server holds stays, whatever the devices' clocks say:    *)
(* the conflict gate lets no upload past it that does not know of it.      *)
THEOREM TombstonesStay == ASSUME ~Racing PROVE Spec => TombstoneStays
  BY MergeInit, MergeNext, DeletionStep, PTL DEF Spec, TombstoneStays

-----------------------------------------------------------------------------
(* Edits have numbers: what two records say is never the same edit, and    *)
(* every edit has happened.                                                *)

Values(k) ==
    ( {server[k].val}
      \cup {local[d][k].val : d \in Devices}
      \cup {run[d].delta[k].val : d \in Devices}
      \cup {u.rows[k].val : u \in uploads} ) \ {0}

ValuesApart ==
    /\ \A k \in Records : Values(k) \subseteq 1 .. edits
    /\ \A i, j \in Records : i # j => Values(i) \cap Values(j) = {}

(* A step writes down what was there, or one new edit of one record.       *)
OneEdit(k) ==
    /\ edits' = edits + 1
    /\ \A i \in Records : Values(i)' \subseteq Values(i) \cup (IF i = k THEN {edits + 1} ELSE {})

ValuesGrow ==
    \/ edits' = edits /\ \A i \in Records : Values(i)' \subseteq Values(i)
    \/ \E k \in Records : OneEdit(k)

LEMMA GrowApart ==
    ASSUME edits \in Nat, ValuesApart, ValuesGrow
    PROVE  ValuesApart'
<1>1. CASE edits' = edits /\ \A i \in Records : Values(i)' \subseteq Values(i)
  BY <1>1 DEF ValuesApart
<1>2. CASE \E k \in Records : OneEdit(k)
  <2>1. PICK k \in Records : OneEdit(k)
    BY <1>2
  <2>2. \A i \in Records : Values(i) \subseteq 1 .. edits
    BY DEF ValuesApart
  <2>3. \A i \in Records : Values(i)' \subseteq 1 .. edits'
    BY <2>1, <2>2 DEF OneEdit
  <2>4. ASSUME NEW i \in Records, NEW j \in Records, i # j
        PROVE  Values(i)' \cap Values(j)' = {}
    <3>1. Values(i) \cap Values(j) = {} /\ edits + 1 \notin Values(i) /\ edits + 1 \notin Values(j)
      BY <2>2, <2>4 DEF ValuesApart
    <3> QED
      BY <2>1, <2>4, <3>1 DEF OneEdit
  <2> QED
    BY <2>3, <2>4 DEF ValuesApart
<1> QED
  BY <1>1, <1>2 DEF ValuesGrow

LEMMA WebGrows ==
    ASSUME TypeOK, NEW k \in Records, WebCreate(k) \/ WebUpdate(k) \/ WebDelete(k)
    PROVE  ValuesGrow
<1>1. ASSUME NEW val, NEW del, WebWrite(k, val, del)
      PROVE  \A i \in Records :
                Values(i)' \subseteq Values(i) \cup (IF i = k THEN {val} ELSE {})
  <2>1. PICK rev \in Stamps(clock) :
            server' = [server EXCEPT ![k] = [val |-> val, del |-> del, rev |-> rev]]
    BY <1>1 DEF WebWrite
  <2>2. server'[k].val = val /\ \A i \in Records : i # k => server'[i] = server[i]
    BY <2>1 DEF TypeOK
  <2> QED
    BY <1>1, <2>2 DEF Values, WebWrite
<1>2. CASE WebCreate(k)
  BY <1>1, <1>2 DEF WebCreate, ValuesGrow, OneEdit
<1>3. CASE WebUpdate(k)
  BY <1>1, <1>3 DEF WebUpdate, ValuesGrow, OneEdit
<1>4. CASE WebDelete(k)
  <2>1. server[k].val \in Values(k)
    BY <1>4, SyncMergeAssumption DEF WebDelete, Active, Exists, Values, TypeOK, Row
  <2>2. \A i \in Records : Values(i)' \subseteq Values(i)
    BY <1>1, <1>4, <2>1 DEF WebDelete
  <2> QED
    BY <1>4, <2>2 DEF WebDelete, ValuesGrow
<1> QED
  BY <1>2, <1>3, <1>4

LEMMA LocalGrows ==
    ASSUME TypeOK, NEW d \in Devices, NEW k \in Records,
           LocalCreate(d, k) \/ LocalUpdate(d, k) \/ LocalDelete(d, k)
    PROVE  ValuesGrow
<1>1. ASSUME NEW val, NEW del, LocalWrite(d, k, val, del)
      PROVE  \A i \in Records :
                Values(i)' \subseteq Values(i) \cup (IF i = k THEN {val} ELSE {})
  <2>1. PICK rev \in Stamps(DeviceTime(d)) :
            local' = [local EXCEPT ![d][k] = [val |-> val, del |-> del, rev |-> rev]]
    BY <1>1 DEF LocalWrite
  <2>2. \A e \in Devices, i \in Records :
            local'[e][i].val = IF e = d /\ i = k THEN val ELSE local[e][i].val
    BY <2>1 DEF TypeOK
  <2> QED
    BY <1>1, <2>2 DEF Values, LocalWrite
<1>2. CASE LocalCreate(d, k)
  BY <1>1, <1>2 DEF LocalCreate, ValuesGrow, OneEdit
<1>3. CASE LocalUpdate(d, k)
  BY <1>1, <1>3 DEF LocalUpdate, ValuesGrow, OneEdit
<1>4. CASE LocalDelete(d, k)
  <2>1. local[d][k].val \in Values(k)
    BY <1>4, SyncMergeAssumption DEF LocalDelete, Active, Exists, Values, TypeOK, Row
  <2>2. \A i \in Records : Values(i)' \subseteq Values(i)
    BY <1>1, <1>4, <2>1 DEF LocalDelete
  <2> QED
    BY <1>4, <2>2 DEF LocalDelete, ValuesGrow
<1> QED
  BY <1>2, <1>3, <1>4

LEMMA SyncGrows ==
    ASSUME TypeOK, NEW d \in Devices,
           StartSync(d) \/ AnswerSync(d) \/ ApplySyncResult(d) \/ GiveUp(d)
    PROVE  ValuesGrow
<1> DEFINE Idles == \A k \in Records : Idle.delta[k].val = 0
<1>1. Idles
  BY DEF Idle, NoDelta, NoRow
<1>2. CASE StartSync(d)
  <2>1. PICK since : uploads' = uploads \cup
            {[dev |-> d, since |-> since, rows |-> local[d], alive |-> TRUE]}
    BY <1>2 DEF StartSync
  <2>2. \A u \in uploads' : u \in uploads \/ u.rows = local[d]
    BY <2>1
  <2>3. \A e \in Devices : run'[e].delta = run[e].delta
    BY <1>2 DEF StartSync, TypeOK, Run
  <2>4. UNCHANGED <<server, local, edits>>
    BY <1>2 DEF StartSync
  <2>5. \A k \in Records : Values(k)' \subseteq Values(k)
    BY <2>2, <2>3, <2>4 DEF Values
  <2> QED
    BY <2>4, <2>5 DEF ValuesGrow
<1>3. CASE AnswerSync(d)
  <2>1. \A e \in Devices : run'[e].delta = run[e].delta
    BY <1>3 DEF AnswerSync, TypeOK, Run
  <2>2. UNCHANGED <<server, local, uploads, edits>>
    BY <1>3 DEF AnswerSync
  <2>3. \A k \in Records : Values(k)' \subseteq Values(k)
    BY <2>1, <2>2 DEF Values
  <2> QED
    BY <2>2, <2>3 DEF ValuesGrow
<1>4. CASE ApplySyncResult(d)
  <2>1. PICK rev \in [Records -> Stamps(DeviceTime(d))] :
            local' = [local EXCEPT ![d] = [k \in Records |->
                          Upserted(local[d][k], run[d].delta[k], rev[k])]]
    BY <1>4 DEF ApplySyncResult
  <2>2. UNCHANGED <<server, uploads, edits>> /\ run' = [run EXCEPT ![d] = Idle]
    BY <1>4 DEF ApplySyncResult
  <2>3. ASSUME NEW k \in Records, NEW e \in Devices
        PROVE  \/ local'[e][k].val = local[e][k].val
               \/ local'[e][k].val = run[e].delta[k].val
    <3>1. CASE e = d
      <4>1. local'[e][k] = Upserted(local[d][k], run[d].delta[k], rev[k])
        BY <2>1, <3>1 DEF TypeOK
      <4>2. run[d].delta[k] \in Row
        BY DEF TypeOK, Run
      <4> QED
        BY <3>1, <4>1, <4>2 DEF Upserted, Row
    <3>2. CASE e # d
      BY <2>1, <3>2 DEF TypeOK
    <3> QED
      BY <3>1, <3>2
  <2>4. \A e \in Devices : run'[e] = run[e] \/ run'[e] = Idle
    BY <2>2 DEF TypeOK
  <2>5. \A k \in Records : Values(k)' \subseteq Values(k)
    BY <1>1, <2>2, <2>3, <2>4 DEF Values
  <2> QED
    BY <2>2, <2>5 DEF ValuesGrow
<1>5. CASE GiveUp(d)
  <2>1. /\ UNCHANGED <<server, local, edits>> /\ run' = [run EXCEPT ![d] = Idle]
        /\ uploads' = {IF u.dev = d THEN [u EXCEPT !.alive = FALSE] ELSE u : u \in uploads}
    BY <1>5 DEF GiveUp
  <2>2. \A v \in uploads' : \E u \in uploads : v.rows = u.rows
    <3>1. \A u \in uploads : u.rows = [u EXCEPT !.alive = FALSE].rows
      BY DEF TypeOK, Upload
    <3> QED
      BY <2>1, <3>1
  <2>3. \A e \in Devices : run'[e] = run[e] \/ run'[e] = Idle
    BY <2>1 DEF TypeOK
  <2>4. \A k \in Records : Values(k)' \subseteq Values(k)
    BY <1>1, <2>1, <2>2, <2>3 DEF Values
  <2> QED
    BY <2>1, <2>4 DEF ValuesGrow
<1> QED
  BY <1>2, <1>3, <1>4, <1>5

LEMMA UploadGrows ==
    ASSUME TypeOK, NEW u \in uploads, ProcessDataSync(u) \/ LoseUpload(u)
    PROVE  ValuesGrow
<1>1. CASE ProcessDataSync(u)
  <2>1. PICK rev \in [Records -> Stamps(clock)] : server' = Merged(u, rev)
    BY <1>1 DEF ProcessDataSync
  <2>2. u.rows \in [Records -> Row] /\ server \in [Records -> Row]
    BY DEF TypeOK, Upload
  <2>3. ASSUME NEW k \in Records
        PROVE  server'[k].val = server[k].val \/ server'[k].val = u.rows[k].val
    <3>1. server'[k] = server[k] \/ server'[k] = [u.rows[k] EXCEPT !.rev = rev[k]]
      BY <2>1 DEF Merged
    <3>2. u.rows[k] \in Row
      BY <2>2
    <3> QED
      BY <3>1, <3>2 DEF Row
  <2>4. ASSUME NEW k \in Records, NEW e \in Devices
        PROVE  \/ run'[e].delta[k].val = run[e].delta[k].val
               \/ run'[e].delta[k].val = server'[k].val
               \/ run'[e].delta[k].val = 0
    <3>1. run'[e].delta = run[e].delta \/ run'[e].delta = After(u.since, server')
      BY <1>1 DEF ProcessDataSync, TypeOK, Run
    <3>2. After(u.since, server')[k] = server'[k] \/ After(u.since, server')[k] = NoRow
      BY DEF After
    <3> QED
      BY <3>1, <3>2 DEF NoRow
  <2>5. UNCHANGED <<local, edits>> /\ uploads' \subseteq uploads
    BY <1>1 DEF ProcessDataSync
  <2>6. \A k \in Records : Values(k)' \subseteq Values(k)
    BY <2>3, <2>4, <2>5 DEF Values
  <2> QED
    BY <2>5, <2>6 DEF ValuesGrow
<1>2. CASE LoseUpload(u)
  <2>1. UNCHANGED <<server, local, run, edits>> /\ uploads' \subseteq uploads
    BY <1>2 DEF LoseUpload
  <2>2. \A k \in Records : Values(k)' \subseteq Values(k)
    BY <2>1 DEF Values
  <2> QED
    BY <2>1, <2>2 DEF ValuesGrow
<1> QED
  BY <1>1, <1>2

LEMMA NextGrows == ASSUME TypeOK, [Next]_vars PROVE ValuesGrow
<1>1. CASE Tick \/ UNCHANGED vars
  <2>1. UNCHANGED <<server, local, run, uploads, edits>>
    BY <1>1 DEF Tick, vars
  <2>2. \A k \in Records : Values(k)' \subseteq Values(k)
    BY <2>1 DEF Values
  <2> QED
    BY <2>1, <2>2 DEF ValuesGrow
<1> QED
  BY <1>1, WebGrows, LocalGrows, SyncGrows, UploadGrows DEF Next

-----------------------------------------------------------------------------
(* The inductive invariant of the edits of an only device.                 *)

OneDevice == \A d, e \in Devices : d = e

(* The table the device will have once the answer under way is applied.    *)
Result(d) ==
    [k \in Records |-> IF Exists(run[d].delta[k]) THEN run[d].delta[k] ELSE local[d][k]]

(* What the device has said is an edit of the past; of what it called      *)
(* deleted, it still says so.                                              *)
SeenIsPast ==
    \A d \in Devices : \A c \in seen[d] :
        /\ c[1] \in 1 .. edits
        /\ c[2] => \E k \in Records : Says(local[d][k]) = c

(* Nothing is abandoned: the one upload is the table, from the cursor.     *)
NoFaults ==
    \A u \in uploads :
        /\ u.alive /\ u.since = cursor[u.dev]
        /\ run[u.dev].at = "waiting" /\ u.rows = local[u.dev]

RevsArePast == \A k \in Records : server[k].rev <= clock

(* What the server says of k after the cursor is new to the device, unless *)
(* both have deleted it.                                                   *)
IsNews(d, k) ==
    run[d].at \in {"idle", "waiting"} /\ Exists(server[k]) /\ server[k].rev > cursor[d] =>
        \/ Says(server[k]) \notin seen[d]
        \/ Says(server[k]) = Says(local[d][k]) /\ server[k].del

WillBeNews(d, k) ==
    run[d].at = "replied" /\ Exists(server[k]) /\ server[k].rev > run[d].cursor =>
        \/ Says(server[k]) \notin Said(Result(d))
        \/ Says(server[k]) = Says(Result(d)[k]) /\ server[k].del

AnswerIsNews(d, k) ==
    run[d].at \in {"merged", "replied"} /\ k \in pending[d] /\ Exists(run[d].delta[k]) =>
        \/ Says(run[d].delta[k]) = Says(local[d][k])
        \/ Says(run[d].delta[k]) \notin seen[d]

AllNews ==
    \A d \in Devices, k \in Records : IsNews(d, k) /\ WillBeNews(d, k) /\ AnswerIsNews(d, k)

SoloInv ==
    TypeOK /\ ValuesApart /\ SeenIsPast /\ NoFaults /\ RevsArePast /\ AllNews

LEMMA SoloInit == Init => SoloInv
<1> SUFFICES ASSUME Init PROVE SoloInv
  OBVIOUS
<1>1. TypeOK
  BY TypeInit
<1>2. ASSUME NEW k \in Records PROVE Values(k) = {}
  BY DEF Init, Values, NoRow, Idle, NoDelta
<1>3. ValuesApart
  BY <1>2 DEF ValuesApart
<1>4. SeenIsPast /\ NoFaults /\ RevsArePast
  BY DEF Init, SeenIsPast, NoFaults, RevsArePast, NoRow
<1>5. \A k \in Records : ~Exists(server[k])
  BY DEF Init, NoRow, Exists
<1>6. \A d \in Devices : pending[d] = {}
  BY DEF Init
<1>7. AllNews
  BY <1>5, <1>6 DEF AllNews, IsNews, WillBeNews, AnswerIsNews
<1> QED
  BY <1>1, <1>3, <1>4, <1>7 DEF SoloInv

(* What an edit in the web pages leaves is new to every device, or is the  *)
(* deletion of a row the device has deleted as well.                       *)
LEMMA SoloWeb ==
    ASSUME SoloInv, TypeOK', ValuesApart',
           NEW k \in Records, WebCreate(k) \/ WebUpdate(k) \/ WebDelete(k)
    PROVE  SoloInv'
<1> USE DEF SoloInv
<1>1. /\ UNCHANGED <<clock, local, cursor, run, uploads, pending, seen>>
      /\ \A i \in Records : i # k => server'[i] = server[i]
      /\ server'[k].rev <= clock
      /\ edits \in Nat /\ edits' \in Nat /\ edits <= edits'
      /\ \/ server'[k].val = edits + 1
         \/ server'[k].val = server[k].val /\ server'[k].del /\ Active(server[k])
  <2>1. ASSUME NEW val, NEW del, WebWrite(k, val, del)
        PROVE  /\ UNCHANGED <<clock, local, cursor, run, uploads, pending, seen>>
               /\ \A i \in Records : i # k => server'[i] = server[i]
               /\ server'[k].rev <= clock
               /\ server'[k].val = val /\ (del => server'[k].del)
    <3>1. PICK rev \in Stamps(clock) :
              server' = [server EXCEPT ![k] = [val |-> val, del |-> del, rev |-> rev]]
      BY <2>1 DEF WebWrite
    <3>2. rev <= clock
      BY <3>1, SyncMergeAssumption DEF Stamps, TypeOK
    <3> QED
      BY <2>1, <3>1, <3>2 DEF WebWrite, TypeOK
  <2>2. edits \in Nat /\ edits' \in Nat
    BY DEF TypeOK
  <2>3. CASE WebCreate(k) \/ WebUpdate(k)
    <3>1. WebWrite(k, edits + 1, FALSE) /\ edits' = edits + 1
      BY <2>3 DEF WebCreate, WebUpdate
    <3>2. edits <= edits'
      BY <2>2, <3>1
    <3>3. server'[k].rev <= clock /\ server'[k].val = edits + 1
      BY <2>1, <3>1
    <3>4. \A i \in Records : i # k => server'[i] = server[i]
      BY <2>1, <3>1
    <3>5. UNCHANGED <<clock, local, cursor, run, uploads, pending, seen>>
      BY <2>1, <3>1
    <3> QED
      BY <2>2, <3>2, <3>3, <3>4, <3>5
  <2>4. CASE WebDelete(k)
    <3>1. WebWrite(k, server[k].val, TRUE) /\ edits' = edits /\ Active(server[k])
      BY <2>4 DEF WebDelete
    <3>2. edits <= edits'
      BY <2>2, <3>1
    <3>3. server'[k].rev <= clock /\ server'[k].val = server[k].val
      BY <2>1, <3>1
    <3>4. server'[k].del
      BY <2>1, <3>1
    <3>5. \A i \in Records : i # k => server'[i] = server[i]
      BY <2>1, <3>1
    <3>6. UNCHANGED <<clock, local, cursor, run, uploads, pending, seen>>
      BY <2>1, <3>1
    <3> QED
      BY <2>2, <3>1, <3>2, <3>3, <3>4, <3>5, <3>6
  <2> QED
    BY <2>3, <2>4
<1>2. SeenIsPast'
  <2>1. \A v \in 1 .. edits : v \in 1 .. edits'
    BY <1>1
  <2> QED
    BY <1>1, <2>1 DEF SeenIsPast
<1>3. NoFaults' /\ RevsArePast'
  BY <1>1 DEF NoFaults, RevsArePast
<1>4. ASSUME NEW d \in Devices,
             NEW C, \A c \in C : c[1] \in 1 .. edits,
             NEW table \in [Records -> Row],
             \A c \in C : c[2] => \E i \in Records : Says(table[i]) = c,
             \A i \in Records : table[i].val = 0 \/ table[i].val \in Values(i)'
      PROVE  Exists(server'[k]) =>
                \/ Says(server'[k]) \notin C
                \/ Says(server'[k]) = Says(table[k]) /\ server'[k].del
  <2>1. CASE server'[k].val = edits + 1
    BY <1>1, <1>4, <2>1 DEF Says
  <2>2. CASE server'[k].del
    <3> SUFFICES ASSUME Exists(server'[k]), Says(server'[k]) \in C
                 PROVE  Says(server'[k]) = Says(table[k])
      BY <2>2
    <3>1. PICK i \in Records : Says(table[i]) = Says(server'[k])
      BY <1>4, <2>2 DEF Says
    <3>2. server'[k].val # 0 /\ table[i].val = server'[k].val
      BY <3>1, SyncMergeAssumption DEF Says, Exists, TypeOK, Row
    <3>3. server'[k].val \in Values(k)' /\ server'[k].val \in Values(i)'
      BY <1>4, <3>2 DEF Values
    <3>4. i = k
      BY <3>3 DEF ValuesApart
    <3> QED
      BY <3>1, <3>4
  <2> QED
    BY <1>1, <2>1, <2>2
<1>5. ASSUME NEW d \in Devices, NEW i \in Records
      PROVE  IsNews(d, i)' /\ WillBeNews(d, i)' /\ AnswerIsNews(d, i)'
  <2>1. IsNews(d, i) /\ WillBeNews(d, i) /\ AnswerIsNews(d, i)
    BY DEF AllNews
  <2>2. AnswerIsNews(d, i)'
    BY <1>1, <2>1 DEF AnswerIsNews
  <2>3. \A j \in Records : local[d][j] \in Row /\ run[d].delta[j] \in Row
    BY DEF TypeOK, Run
  <2>4. \A j \in Records : local[d][j].val = 0 \/ local[d][j].val \in Values(j)'
    BY <1>1 DEF Values
  <2>5. \A j \in Records : run[d].delta[j].val = 0 \/ run[d].delta[j].val \in Values(j)'
    BY <1>1 DEF Values
  <2>6. IsNews(d, i)'
    <3>1. CASE i = k
      <4>1. Exists(server'[k]) =>
                \/ Says(server'[k]) \notin seen[d]
                \/ Says(server'[k]) = Says(local[d][k]) /\ server'[k].del
        <5>1. local[d] \in [Records -> Row]
          BY DEF TypeOK
        <5>2. \A c \in seen[d] : /\ c[1] \in 1 .. edits
                                 /\ c[2] => \E j \in Records : Says(local[d][j]) = c
          BY DEF SeenIsPast
        <5> QED
          BY <1>4, <2>4, <5>1, <5>2
      <4> QED
        BY <1>1, <3>1, <4>1 DEF IsNews
    <3>2. CASE i # k
      BY <1>1, <2>1, <3>2 DEF IsNews
    <3> QED
      BY <3>1, <3>2
  <2>7. WillBeNews(d, i)'
    <3>1. Result(d)' = Result(d)
      BY <1>1 DEF Result
    <3>2. Result(d) \in [Records -> Row]
      BY <2>3 DEF Result
    <3>3. ASSUME NEW j \in Records
          PROVE  Result(d)[j].val = 0 \/ Result(d)[j].val \in Values(j)'
      BY <2>4, <2>5 DEF Result
    <3>4. CASE i = k
      <4>1. ASSUME NEW c \in Said(Result(d))
            PROVE  c[1] \in 1 .. edits /\ \E j \in Records : Says(Result(d)[j]) = c
        <5>1. PICK j \in Records : c = Says(Result(d)[j]) /\ Exists(Result(d)[j])
          BY DEF Said
        <5>2. Result(d)[j].val # 0
          BY <5>1, <3>2, SyncMergeAssumption DEF Exists, Row
        <5>3. Result(d)[j] = run[d].delta[j] \/ Result(d)[j] = local[d][j]
          BY DEF Result
        <5>4. Result(d)[j].val \in Values(j)
          BY <5>2, <5>3 DEF Values
        <5> QED
          BY <5>1, <5>4, <1>1 DEF ValuesApart, Says
      <4>2. Exists(server'[k]) =>
                \/ Says(server'[k]) \notin Said(Result(d))
                \/ Says(server'[k]) = Says(Result(d)[k]) /\ server'[k].del
        BY <1>4, <3>2, <3>3, <4>1
      <4>3. Said(Result(d))' = Said(Result(d))
        BY <3>1 DEF Said
      <4> QED
        BY <1>1, <3>1, <3>4, <4>2, <4>3 DEF WillBeNews
    <3>5. CASE i # k
      <4>1. Said(Result(d))' = Said(Result(d))
        BY <3>1 DEF Said
      <4> QED
        BY <1>1, <2>1, <3>1, <3>5, <4>1 DEF WillBeNews
    <3> QED
      BY <3>4, <3>5
  <2> QED
    BY <2>2, <2>6, <2>7
<1> QED
  BY <1>2, <1>3, <1>5 DEF AllNews

(* An edit on the device: a fresh number, or the deletion of a row whose   *)
(* number no other record bears; a row both have deleted is not edited.    *)
LEMMA SoloLocal ==
    ASSUME SoloInv, TypeOK', ValuesApart', OneDevice, NEW d \in Devices, NEW k \in Records,
           LocalCreate(d, k) \/ LocalUpdate(d, k) \/ LocalDelete(d, k)
    PROVE  SoloInv'
<1> USE DEF SoloInv
<1>1. ASSUME NEW val, NEW del \in BOOLEAN, LocalWrite(d, k, val, del)
      PROVE  /\ UNCHANGED <<clock, server, cursor, run, uploads>>
             /\ run[d].at = "idle"
             /\ local'[d][k].val = val /\ local'[d][k].del = del
             /\ \A i \in Records : i # k => local'[d][i] = local[d][i]
             /\ seen'[d] = seen[d] \cup {<<val, del>>}
  <2>1. PICK rev \in Stamps(DeviceTime(d)) :
            local' = [local EXCEPT ![d][k] = [val |-> val, del |-> del, rev |-> rev]]
    BY <1>1 DEF LocalWrite
  <2>2. /\ local'[d][k] = [val |-> val, del |-> del, rev |-> rev]
        /\ \A i \in Records : i # k => local'[d][i] = local[d][i]
    BY <2>1 DEF TypeOK
  <2> QED
    BY <1>1, <2>2 DEF LocalWrite, TypeOK
<1>2. edits \in Nat /\ edits' \in Nat
  BY DEF TypeOK
<1>3. \A e \in Devices : e = d
  BY DEF OneDevice
<1>4. \A i \in Records : server[i].val = 0 \/ server[i].val \in Values(i)
  BY DEF Values
<1>5. ASSUME UNCHANGED <<clock, server, cursor, run, uploads>>, run[d].at = "idle",
             SeenIsPast', \A i \in Records : IsNews(d, i)'
      PROVE  SoloInv'
  <2>1. \A u \in uploads : FALSE
    BY <1>3, <1>5 DEF NoFaults, TypeOK, Upload
  <2>2. NoFaults' /\ RevsArePast'
    BY <1>5, <2>1 DEF NoFaults, RevsArePast
  <2>3. AllNews'
    BY <1>3, <1>5 DEF AllNews, WillBeNews, AnswerIsNews
  <2> QED
    BY <1>5, <2>2, <2>3
<1>6. ASSUME NEW val \in Nat \ {0}, NEW del \in BOOLEAN, LocalWrite(d, k, val, del),
             edits <= edits', val <= edits', ~(Exists(local[d][k]) /\ local[d][k].del),
             \A i \in Records :
                Says(server[i]) = <<val, del>> => i = k /\ del
      PROVE  SoloInv'
  <2>1. /\ UNCHANGED <<clock, server, cursor, run, uploads>>
        /\ run[d].at = "idle"
        /\ local'[d][k].val = val /\ local'[d][k].del = del
        /\ \A i \in Records : i # k => local'[d][i] = local[d][i]
        /\ seen'[d] = seen[d] \cup {<<val, del>>}
    BY <1>1, <1>6
  <2>2. Says(local'[d][k]) = <<val, del>>
    BY <2>1 DEF Says
  <2>3. ASSUME NEW c \in seen[d], c[2]
        PROVE  \E i \in Records : Says(local'[d][i]) = c
    <3>1. PICK i \in Records : Says(local[d][i]) = c
      BY <2>3 DEF SeenIsPast
    <3>2. c[1] \in 1 .. edits
      BY DEF SeenIsPast
    <3>3. i # k
      BY <1>2, <1>6, <2>3, <3>1, <3>2 DEF Says, Exists
    <3> QED
      BY <2>1, <3>1, <3>3
  <2>4. ASSUME NEW c \in seen'[d]
        PROVE  c[1] \in 1 .. edits' /\ (c[2] => \E i \in Records : Says(local'[d][i]) = c)
    <3>1. CASE c \in seen[d]
      <4>1. c[1] \in 1 .. edits
        BY <3>1 DEF SeenIsPast
      <4> QED
        BY <1>2, <1>6, <2>3, <3>1, <4>1
    <3>2. CASE c = <<val, del>>
      <4>1. c[1] \in 1 .. edits'
        BY <1>2, <1>6, <3>2
      <4> QED
        BY <2>2, <3>2, <4>1
    <3> QED
      BY <2>1, <3>1, <3>2
  <2>5. SeenIsPast'
    BY <1>3, <2>4 DEF SeenIsPast
  <2>6. ASSUME NEW i \in Records, Exists(server[i]), server[i].rev > cursor[d]
        PROVE  \/ Says(server[i]) \notin seen'[d]
               \/ Says(server[i]) = Says(local'[d][i]) /\ server[i].del
    <3>1. \/ Says(server[i]) \notin seen[d]
          \/ Says(server[i]) = Says(local[d][i]) /\ server[i].del
      BY <2>1, <2>6 DEF AllNews, IsNews
    <3>2. CASE Says(server[i]) = <<val, del>>
      <4>1. i = k /\ del
        BY <1>6, <3>2
      <4> QED
        BY <2>2, <3>2, <4>1 DEF Says
    <3>3. CASE Says(server[i]) \notin seen[d] /\ Says(server[i]) # <<val, del>>
      BY <2>1, <3>3
    <3>4. CASE Says(server[i]) = Says(local[d][i]) /\ server[i].del
      <4>1. i # k
        BY <1>6, <2>6, <3>4 DEF Says, Exists
      <4> QED
        BY <2>1, <3>4, <4>1
    <3> QED
      BY <3>1, <3>2, <3>3, <3>4
  <2>7. \A i \in Records : IsNews(d, i)'
    BY <2>1, <2>6 DEF IsNews
  <2> QED
    BY <1>5, <2>1, <2>5, <2>7
<1>7. CASE LocalCreate(d, k) \/ LocalUpdate(d, k)
  <2>1. /\ LocalWrite(d, k, edits + 1, FALSE) /\ edits' = edits + 1
        /\ ~(Exists(local[d][k]) /\ local[d][k].del)
    BY <1>7 DEF LocalCreate, LocalUpdate, Fresh, Active
  <2>2. \A i \in Records : server[i].val # edits + 1
    BY <1>2, <1>4 DEF ValuesApart
  <2>3. \A i \in Records : Says(server[i]) # <<edits + 1, FALSE>>
    BY <2>2 DEF Says
  <2>4. edits + 1 \in Nat \ {0} /\ edits <= edits' /\ edits + 1 <= edits'
    BY <1>2, <2>1
  <2> QED
    BY <1>6, <2>1, <2>3, <2>4
<1>8. CASE LocalDelete(d, k)
  <2>1. /\ LocalWrite(d, k, local[d][k].val, TRUE) /\ edits' = edits
        /\ Exists(local[d][k]) /\ ~local[d][k].del
    BY <1>8 DEF LocalDelete, Active
  <2>2. local[d][k].val \in Values(k) /\ local[d][k].val \in Nat \ {0}
    BY <2>1, SyncMergeAssumption DEF Exists, Values, TypeOK, Row
  <2>3. local[d][k].val <= edits
    BY <1>2, <2>2 DEF ValuesApart
  <2>4. ASSUME NEW i \in Records, Says(server[i]) = <<local[d][k].val, TRUE>>
        PROVE  i = k
    <3>1. server[i].val = local[d][k].val
      BY <2>4 DEF Says
    <3>2. server[i].val \in Values(i)
      BY <1>4, <2>2, <3>1
    <3> QED
      BY <2>2, <3>1, <3>2 DEF ValuesApart
  <2>5. edits <= edits' /\ local[d][k].val <= edits'
    BY <1>2, <2>1, <2>3
  <2> QED
    BY <1>6, <2>1, <2>2, <2>4, <2>5
<1> QED
  BY <1>7, <1>8

LEMMA SoloStart ==
    ASSUME SoloInv, TypeOK', ValuesApart', OneDevice, ~Faulty, NEW d \in Devices, StartSync(d)
    PROVE  SoloInv'
<1> USE DEF SoloInv
<1>1. /\ run[d].at = "idle" /\ run'[d].at = "waiting"
      /\ uploads' = uploads \cup
            {[dev |-> d, since |-> cursor[d], rows |-> local[d], alive |-> TRUE]}
      /\ UNCHANGED <<clock, server, local, cursor, edits, pending, seen>>
  BY DEF StartSync, LastSyncRevisions, TypeOK, Run
<1>2. uploads = {}
  BY <1>1 DEF NoFaults, OneDevice, TypeOK, Upload
<1>3. NoFaults'
  BY <1>1, <1>2 DEF NoFaults
<1>4. SeenIsPast' /\ RevsArePast'
  BY <1>1 DEF SeenIsPast, RevsArePast
<1>5. \A e \in Devices : e = d
  BY DEF OneDevice
<1>6. AllNews'
  BY <1>1, <1>5 DEF AllNews, IsNews, WillBeNews, AnswerIsNews
<1> QED
  BY <1>3, <1>4, <1>6

LEMMA SoloAnswer ==
    ASSUME SoloInv, TypeOK', ValuesApart', OneDevice, NEW d \in Devices, AnswerSync(d)
    PROVE  SoloInv'
<1> USE DEF SoloInv
<1>1. /\ run[d].at = "merged" /\ run'[d].at = "replied"
      /\ run'[d].cursor = clock /\ run'[d].delta = run[d].delta
      /\ UNCHANGED <<clock, server, local, cursor, uploads, edits, pending, seen>>
  BY DEF AnswerSync, TypeOK, Run
<1>2. \A e \in Devices : e = d
  BY DEF OneDevice
<1>3. uploads = {}
  BY <1>1, <1>2 DEF NoFaults, TypeOK, Upload
<1>4. NoFaults' /\ SeenIsPast' /\ RevsArePast'
  BY <1>1, <1>3 DEF NoFaults, SeenIsPast, RevsArePast
<1>5. \A k \in Records : ~(server[k].rev > clock)
  BY DEF RevsArePast, TypeOK, Row
<1>6. AllNews'
  BY <1>1, <1>2, <1>5 DEF AllNews, IsNews, WillBeNews, AnswerIsNews
<1> QED
  BY <1>4, <1>6

LEMMA SoloApply ==
    ASSUME SoloInv, TypeOK', ValuesApart', OneDevice, NEW d \in Devices, ApplySyncResult(d)
    PROVE  SoloInv'
<1> USE DEF SoloInv
<1>1. PICK rev \in [Records -> Stamps(DeviceTime(d))] :
          local' = [local EXCEPT ![d] = [k \in Records |->
                        Upserted(local[d][k], run[d].delta[k], rev[k])]]
  BY DEF ApplySyncResult
<1>2. /\ run[d].at = "replied" /\ run'[d] = Idle /\ cursor'[d] = run[d].cursor
      /\ pending'[d] = {} /\ seen'[d] = Said(local'[d])
      /\ UNCHANGED <<clock, server, uploads, edits>>
  BY DEF ApplySyncResult, NextCursor, TypeOK
<1>3. Idle.at = "idle"
  BY DEF Idle
<1>4. \A e \in Devices : e = d
  BY DEF OneDevice
<1>5. uploads = {}
  BY <1>2, <1>4 DEF NoFaults, TypeOK, Upload
<1>6. NoFaults' /\ RevsArePast'
  BY <1>2, <1>5 DEF NoFaults, RevsArePast
<1>7. ASSUME NEW k \in Records
      PROVE  Says(local'[d][k]) = Says(Result(d)[k])
  <2>1. local[d][k] \in Row /\ run[d].delta[k] \in Row
    BY DEF TypeOK, Run
  <2>2. local'[d][k] = Upserted(local[d][k], run[d].delta[k], rev[k])
    BY <1>1 DEF TypeOK
  <2> QED
    BY <2>1, <2>2 DEF Upserted, Says, Row, Result, Exists
<1>8. Said(local'[d]) = Said(Result(d))
  <2>1. \A k \in Records : Exists(local'[d][k]) <=> Exists(Result(d)[k])
    BY <1>7 DEF Says, Exists
  <2> QED
    BY <1>7, <2>1 DEF Said
<1>9. SeenIsPast'
  <2>1. ASSUME NEW c \in Said(local'[d])
        PROVE  c[1] \in 1 .. edits /\ \E k \in Records : Says(local'[d][k]) = c
    <3>1. PICK k \in Records : c = Says(local'[d][k]) /\ Exists(local'[d][k])
      BY DEF Said
    <3>2. local'[d][k].val \in Values(k)'
      BY <3>1, SyncMergeAssumption DEF Exists, Values, TypeOK, Row
    <3> QED
      BY <1>2, <3>1, <3>2 DEF ValuesApart, Says
  <2> QED
    BY <1>2, <1>4, <2>1 DEF SeenIsPast
<1>10. ASSUME NEW k \in Records, Exists(server[k]), server[k].rev > run[d].cursor
       PROVE  \/ Says(server[k]) \notin seen'[d]
              \/ Says(server[k]) = Says(local'[d][k]) /\ server[k].del
  BY <1>2, <1>7, <1>8, <1>10 DEF AllNews, WillBeNews
<1>11. AllNews'
  BY <1>2, <1>3, <1>4, <1>10 DEF AllNews, IsNews, WillBeNews, AnswerIsNews
<1> QED
  BY <1>6, <1>9, <1>11

(* The merge answers with what the device just sent, or with what was      *)
(* written after its cursor.                                               *)
LEMMA SoloProcess ==
    ASSUME SoloInv, TypeOK', ValuesApart', OneDevice, NEW u \in uploads, ProcessDataSync(u)
    PROVE  SoloInv'
<1> DEFINE d == u.dev
<1> USE DEF SoloInv
<1>1. PICK rev \in [Records -> Stamps(clock)] : server' = Merged(u, rev)
  BY DEF ProcessDataSync
<1>2. /\ d \in Devices /\ u.rows \in [Records -> Row] /\ u.since = cursor[d]
      /\ u.rows = local[d] /\ u.alive /\ run[d].at = "waiting"
  BY DEF NoFaults, TypeOK, Upload
<1>3. \A e \in Devices : e = d
  BY <1>2 DEF OneDevice
<1>4. /\ run'[d].at = "merged" /\ run'[d].delta = After(u.since, server')
      /\ uploads' = uploads \ {u}
      /\ UNCHANGED <<clock, local, cursor, edits, pending, seen>>
  BY <1>2 DEF ProcessDataSync, TypeOK, Run
<1>5. ASSUME NEW v \in uploads PROVE v = u
  <2>1. u \in Upload /\ v \in Upload /\ v.dev = u.dev /\ v.since = u.since
        /\ v.rows = u.rows /\ v.alive = TRUE /\ u.alive = TRUE
    BY <1>2, <1>3 DEF NoFaults, TypeOK, Upload
  <2> QED
    BY <2>1 DEF Upload
<1>6. NoFaults' /\ SeenIsPast'
  BY <1>4, <1>5 DEF NoFaults, SeenIsPast
<1>7. ASSUME NEW k \in Records
      PROVE  IF Accepts(u.since, u.rows[k], server[k])
             THEN Says(server'[k]) = Says(local[d][k]) /\ server'[k].rev = rev[k]
             ELSE server'[k] = server[k]
  <2>1. u.rows[k] \in Row
    BY <1>2
  <2>2. CASE Accepts(u.since, u.rows[k], server[k])
    <3>1. server'[k] = [u.rows[k] EXCEPT !.rev = rev[k]]
      BY <1>1, <2>2 DEF Merged
    <3> QED
      BY <1>2, <2>1, <2>2, <3>1 DEF Says, Row
  <2>3. CASE ~Accepts(u.since, u.rows[k], server[k])
    BY <1>1, <2>3 DEF Merged
  <2> QED
    BY <2>2, <2>3
<1>8. RevsArePast'
  <2>1. ASSUME NEW k \in Records PROVE rev[k] <= clock
    <3>1. rev[k] \in Stamps(clock) /\ clock \in Int
      BY DEF TypeOK
    <3> QED
      BY <3>1, SyncMergeAssumption DEF Stamps
  <2> QED
    BY <1>4, <1>7, <2>1 DEF RevsArePast
<1>9. ASSUME NEW k \in Records, Exists(run'[d].delta[k])
      PROVE  \/ Says(run'[d].delta[k]) = Says(local[d][k])
             \/ Says(run'[d].delta[k]) \notin seen[d]
  <2>1. run'[d].delta[k] = server'[k] /\ server'[k].rev > cursor[d]
    <3>1. run'[d].delta[k] = IF server'[k].rev > cursor[d] THEN server'[k] ELSE NoRow
      BY <1>2, <1>4 DEF After
    <3> QED
      BY <1>9, <3>1 DEF NoRow, Exists
  <2>2. CASE Accepts(u.since, u.rows[k], server[k])
    BY <1>7, <2>1, <2>2
  <2>3. CASE ~Accepts(u.since, u.rows[k], server[k])
    <3>1. server'[k] = server[k]
      BY <1>7, <2>3
    <3>2. IsNews(d, k)
      BY <1>2 DEF AllNews
    <3> QED
      BY <1>2, <1>9, <2>1, <3>1, <3>2 DEF IsNews
  <2> QED
    BY <2>2, <2>3
<1>10. AllNews'
  <2>1. run'[d].at # "idle" /\ run'[d].at # "waiting" /\ run'[d].at # "replied"
    BY <1>4
  <2> QED
    BY <1>3, <1>4, <1>9, <2>1 DEF AllNews, IsNews, WillBeNews, AnswerIsNews
<1> QED
  BY <1>6, <1>8, <1>10

LEMMA SoloNext == SoloInv /\ OneDevice /\ ~Faulty /\ [Next]_vars => SoloInv'
<1> SUFFICES ASSUME SoloInv, OneDevice, ~Faulty, [Next]_vars PROVE SoloInv'
  OBVIOUS
<1>1. TypeOK' /\ ValuesApart'
  <2>1. edits \in Nat
    BY DEF SoloInv, TypeOK
  <2> QED
    BY <2>1, TypeNext, NextGrows, GrowApart DEF SoloInv
<1>2. CASE Tick \/ UNCHANGED vars
  <2>1. UNCHANGED <<server, local, cursor, run, uploads, edits, pending, seen>> /\ clock <= clock'
    BY <1>2 DEF Tick, vars, SoloInv, TypeOK
  <2>2. RevsArePast'
    BY <1>1, <2>1 DEF SoloInv, RevsArePast, TypeOK, Row
  <2>3. SeenIsPast' /\ NoFaults'
    BY <2>1 DEF SoloInv, SeenIsPast, NoFaults
  <2>4. AllNews'
    <3>1. ASSUME NEW d \in Devices
          PROVE  Result(d)' = Result(d) /\ Said(Result(d))' = Said(Result(d))
      BY <2>1 DEF Result, Said
    <3> QED
      BY <2>1, <3>1 DEF SoloInv, AllNews, IsNews, WillBeNews, AnswerIsNews
  <2> QED
    BY <1>1, <2>2, <2>3, <2>4 DEF SoloInv
<1>3. ASSUME NEW u \in uploads, LoseUpload(u) PROVE FALSE
  BY <1>3 DEF LoseUpload
<1>4. ASSUME NEW d \in Devices, GiveUp(d) PROVE FALSE
  BY <1>4 DEF GiveUp
<1> QED
  BY <1>1, <1>2, <1>3, <1>4, SoloWeb, SoloLocal, SoloStart, SoloAnswer, SoloApply, SoloProcess
  DEF Next

LEMMA EditStep ==
    ASSUME SoloInv, [Next]_vars
    PROVE  [\A d \in Devices : \A k \in pending[d] \ pending'[d] :
               \/ Says(local'[d][k]) = Says(local[d][k])
               \/ Says(local'[d][k]) \notin seen[d]]_vars
<1> SUFFICES ASSUME Next, NEW d \in Devices, NEW k \in pending[d] \ pending'[d]
             PROVE  \/ Says(local'[d][k]) = Says(local[d][k])
                    \/ Says(local'[d][k]) \notin seen[d]
  OBVIOUS
<1> USE DEF SoloInv
<1>1. CASE UNCHANGED pending
  BY <1>1
<1>2. ASSUME NEW e \in Devices, NEW i \in Records, NEW val, NEW del, LocalWrite(e, i, val, del)
      PROVE  pending[d] \subseteq pending'[d]
  BY <1>2 DEF LocalWrite, TypeOK
<1>3. ASSUME NEW e \in Devices, ApplySyncResult(e)
      PROVE  \/ Says(local'[d][k]) = Says(local[d][k])
             \/ Says(local'[d][k]) \notin seen[d]
  <2>1. PICK rev \in [Records -> Stamps(DeviceTime(e))] :
            local' = [local EXCEPT ![e] = [j \in Records |->
                          Upserted(local[e][j], run[e].delta[j], rev[j])]]
    BY <1>3 DEF ApplySyncResult
  <2>2. d = e /\ run[d].at = "replied" /\ k \in Records
    BY <1>3 DEF ApplySyncResult, TypeOK
  <2>3. local'[d][k] = Upserted(local[d][k], run[d].delta[k], rev[k])
    BY <2>1, <2>2 DEF TypeOK
  <2>4. local[d][k] \in Row /\ run[d].delta[k] \in Row
    BY <2>2 DEF TypeOK, Run
  <2>5. IF Exists(run[d].delta[k]) THEN Says(local'[d][k]) = Says(run[d].delta[k])
        ELSE local'[d][k] = local[d][k]
    BY <2>3, <2>4 DEF Upserted, Says, Row
  <2>6. AnswerIsNews(d, k)
    BY <2>2 DEF AllNews
  <2> QED
    BY <2>2, <2>5, <2>6 DEF AnswerIsNews
<1> QED
  BY <1>1, <1>2, <1>3
  DEF Next, Tick, WebCreate, WebUpdate, WebDelete, WebWrite, LocalCreate, LocalUpdate, LocalDelete,
      StartSync, AnswerSync, GiveUp, ProcessDataSync, LoseUpload

(* An only device whose syncs all succeed loses no edit of its user to a   *)
(* state the device has held before, whatever its clock shows.             *)
THEOREM EditsYieldOnlyToNews ==
    ASSUME ~Faulty, \A d, e \in Devices : d = e
    PROVE  Spec => EditYieldsOnlyToNews
<1>1. OneDevice
  BY DEF OneDevice
<1> QED
  BY <1>1, SoloInit, SoloNext, EditStep, PTL DEF Spec, EditYieldsOnlyToNews

(* What was decided stays decided where nothing fails and nobody writes    *)
(* in the millisecond of a cursor: neither a deletion nor an edit of the   *)
(* device is undone by its synchronisation.                                *)
THEOREM NothingComesBack ==
    ASSUME ~Racing, ~Faulty, \A d, e \in Devices : d = e
    PROVE  Spec => NothingIsUndone
  BY TombstonesStay, EditsYieldOnlyToNews DEF NothingIsUndone
=============================================================================
