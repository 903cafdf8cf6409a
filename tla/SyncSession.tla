----------------------------- MODULE SyncSession -----------------------------
(***************************************************************************)
(* The chunked upload session of a synchronisation: the desktop client's   *)
(* startSync / sendDataInChunks, the three handlers /sync/start,           *)
(* /sync/chunk and /sync/complete, the SessionManager that buffers chunks  *)
(* in memory, and the sync_sessions / sync_chunks tables beside it.        *)
(*                                                                         *)
(* A session id is a fresh UUID made by one start request, and a run of    *)
(* startSync makes one start request: the session is named by its run.     *)
(* A chunk is its data type and index; its records never differ between    *)
(* two attempts of the same run, so the contents are left out.  A handler  *)
(* is cut at every await: between two steps of it anything else may run,   *)
(* its connection may break (the future is then dropped), or the server    *)
(* may restart, which loses the SessionManager and keeps the tables.       *)
(***************************************************************************)
EXTENDS Integers, FiniteSets

CONSTANTS
    Runs,        \* executions of startSync, each with its own session
    NumTypes,    \* data types, numbered in the order startSync sends them
    MaxChunks,   \* bound: chunks of one data type
    MaxRetries,  \* attempts sendDataInChunks makes for one chunk
    MaxCrashes,  \* bound: restarts of the server
    Faulty       \* may requests, replies and the database fail?

ASSUME SyncSessionAssumption ==
    /\ NumTypes \in Nat \ {0}
    /\ MaxChunks \in Nat \ {0}
    /\ MaxRetries \in Nat \ {0}
    /\ MaxCrashes \in Nat
    /\ Faulty \in BOOLEAN

VARIABLES
    pc,          \* [Runs -> ClientPc]               where startSync is
    total,       \* [Runs -> [Types -> 0..MaxChunks]] chunks it has to send
    acked,       \* [Runs -> SUBSET Chunks]          chunks acknowledged to it
    attempt,     \* [Runs -> 0..MaxRetries]          failed tries, this chunk
    reply,       \* [Runs -> Reply]                  answer it has not read yet
    startAt,     \* [Runs -> StartStage]             its /sync/start request
    chunkReqs,   \* SUBSET ChunkReq                  /sync/chunk requests alive
    completeAt,  \* [Runs -> CompleteStage]          its /sync/complete request
    built,       \* [Runs -> SUBSET Chunks]          what complete assembled
    live,        \* SUBSET Runs                      sessions in memory
    buffer,      \* [Runs -> [Types -> ChunkBuffer]] their chunk buffers
    db,          \* [Runs -> RowStatus]              rows of sync_sessions
    expired,     \* SUBSET Runs                      rows past expires_at
    dbChunks,    \* [Runs -> SUBSET Chunks]          rows of sync_chunks
    commits,     \* [Runs -> Nat]                    history: times processed
    processed,   \* [Runs -> SUBSET Chunks]          history: what was processed
    crashes      \* restarts so far

clientVars  == <<pc, total, acked, attempt>>
requestVars == <<startAt, chunkReqs, completeAt, built>>
memoryVars  == <<live, buffer>>
tableVars   == <<db, expired, dbChunks>>
resultVars  == <<commits, processed>>
vars == <<clientVars, reply, requestVars, memoryVars, tableVars, resultVars,
          crashes>>

-----------------------------------------------------------------------------
(* Values                                                                  *)

Types  == 1 .. NumTypes
Chunks == Types \X (0 .. MaxChunks - 1)

ClientPc == {"idle", "starting", "sending", "awaiting", "completing",
             "done", "failed"}
Reply    == {"none", "ok", "err"}

StartStage    == {"none", "sent", "opened", "over"}
ChunkStage    == {"sent", "checked", "added"}
CompleteStage == {"none", "sent", "checked", "built", "committed",
                  "finished", "over"}
RowStatus     == {"absent", "active", "completed"}

ChunkReq == [run: Runs, chunk: Chunks, attempt: 0 .. MaxRetries - 1,
             at: ChunkStage]

ChunkBuffer == [total: 0 .. MaxChunks, got: SUBSET (0 .. MaxChunks - 1)]
EmptySession == [t \in Types |-> [total |-> 0, got |-> {}]]

(* The chunks a run has to send: none for a data type with no records.     *)
Plan(r) == {c \in Chunks : c[2] < total[r][c[1]]}

(* Data types in order, and the chunks of a type by index.                 *)
Precedes(c, d) == c[1] < d[1] \/ (c[1] = d[1] /\ c[2] < d[2])

IsNext(r, c) ==
    /\ c \in Plan(r) \ acked[r]
    /\ \A d \in Plan(r) : Precedes(d, c) => d \in acked[r]

(* ensure_session_active: the row exists, is active and has not expired.   *)
SessionActive(r) == db[r] = "active" /\ r \notin expired

(* Is the client still waiting for the answer to this chunk request?       *)
Awaited(q) ==
    /\ pc[q.run] = "awaiting"
    /\ IsNext(q.run, q.chunk)
    /\ q.attempt = attempt[q.run]

(* An answer reaches the client only while it waits for it.                *)
Answer(r, waiting, result) ==
    reply' = IF waiting THEN [reply EXCEPT ![r] = result] ELSE reply

Init ==
    /\ pc = [r \in Runs |-> "idle"]
    /\ total = [r \in Runs |-> [t \in Types |-> 0]]
    /\ acked = [r \in Runs |-> {}]
    /\ attempt = [r \in Runs |-> 0]
    /\ reply = [r \in Runs |-> "none"]
    /\ startAt = [r \in Runs |-> "none"]
    /\ chunkReqs = {}
    /\ completeAt = [r \in Runs |-> "none"]
    /\ built = [r \in Runs |-> {}]
    /\ live = {}
    /\ buffer = [r \in Runs |-> EmptySession]
    /\ db = [r \in Runs |-> "absent"]
    /\ expired = {}
    /\ dbChunks = [r \in Runs |-> {}]
    /\ commits = [r \in Runs |-> 0]
    /\ processed = [r \in Runs |-> {}]
    /\ crashes = 0

-----------------------------------------------------------------------------
(* The client: startSync and sendDataInChunks.                             *)

SendStart(r) ==
    /\ pc[r] = "idle"
    /\ pc' = [pc EXCEPT ![r] = "starting"]
    /\ startAt' = [startAt EXCEPT ![r] = "sent"]
    /\ UNCHANGED <<total, acked, attempt, reply, chunkReqs, completeAt, built,
                   memoryVars, tableVars, resultVars, crashes>>

(* The session is open: collect the local rows, which fixes the chunks.    *)
Collect(r) ==
    /\ pc[r] = "starting"
    /\ reply[r] = "ok"
    /\ \E n \in [Types -> 0 .. MaxChunks] : total' = [total EXCEPT ![r] = n]
    /\ pc' = [pc EXCEPT ![r] = "sending"]
    /\ reply' = [reply EXCEPT ![r] = "none"]
    /\ UNCHANGED <<acked, attempt, requestVars, memoryVars, tableVars,
                   resultVars, crashes>>

SendChunk(r) ==
    /\ pc[r] = "sending"
    /\ \E c \in Chunks :
        /\ IsNext(r, c)
        /\ chunkReqs' = chunkReqs \cup
               {[run |-> r, chunk |-> c, attempt |-> attempt[r], at |-> "sent"]}
    /\ pc' = [pc EXCEPT ![r] = "awaiting"]
    /\ UNCHANGED <<total, acked, attempt, reply, startAt, completeAt, built,
                   memoryVars, tableVars, resultVars, crashes>>

ChunkAcknowledged(r) ==
    /\ pc[r] = "awaiting"
    /\ reply[r] = "ok"
    /\ \E c \in Chunks :
        /\ IsNext(r, c)
        /\ acked' = [acked EXCEPT ![r] = @ \cup {c}]
    /\ pc' = [pc EXCEPT ![r] = "sending"]
    /\ attempt' = [attempt EXCEPT ![r] = 0]
    /\ reply' = [reply EXCEPT ![r] = "none"]
    /\ UNCHANGED <<total, requestVars, memoryVars, tableVars, resultVars,
                   crashes>>

(* An error answer, or no answer within the HTTP client's time-out.        *)
Disappointed(r) == reply[r] = "err" \/ Faulty

(* Mutants: the retry limit off by one, or never reached.                  *)
ChunkFailed_OneTooMany(r) ==
    /\ pc[r] = "awaiting"
    /\ Disappointed(r)
    /\ attempt' = [attempt EXCEPT ![r] = @ + 1]
    /\ pc' = [pc EXCEPT ![r] =
                 IF attempt[r] + 1 > MaxRetries THEN "failed" ELSE "sending"]
    /\ reply' = [reply EXCEPT ![r] = "none"]
    /\ UNCHANGED <<total, acked, requestVars, memoryVars, tableVars,
                   resultVars, crashes>>

ChunkFailed_Forever(r) ==
    /\ pc[r] = "awaiting"
    /\ Disappointed(r)
    /\ pc' = [pc EXCEPT ![r] = "sending"]
    /\ reply' = [reply EXCEPT ![r] = "none"]
    /\ UNCHANGED <<total, acked, attempt, requestVars, memoryVars, tableVars,
                   resultVars, crashes>>

ChunkFailed(r) ==
    /\ pc[r] = "awaiting"
    /\ Disappointed(r)
    /\ attempt' = [attempt EXCEPT ![r] = @ + 1]
    /\ pc' = [pc EXCEPT ![r] =
                 IF attempt[r] + 1 >= MaxRetries THEN "failed" ELSE "sending"]
    /\ reply' = [reply EXCEPT ![r] = "none"]
    /\ UNCHANGED <<total, acked, requestVars, memoryVars, tableVars,
                   resultVars, crashes>>

SendComplete(r) ==
    /\ pc[r] = "sending"
    /\ Plan(r) \subseteq acked[r]
    /\ pc' = [pc EXCEPT ![r] = "completing"]
    /\ completeAt' = [completeAt EXCEPT ![r] = "sent"]
    /\ UNCHANGED <<total, acked, attempt, reply, startAt, chunkReqs, built,
                   memoryVars, tableVars, resultVars, crashes>>

SyncSucceeded(r) ==
    /\ pc[r] = "completing"
    /\ reply[r] = "ok"
    /\ pc' = [pc EXCEPT ![r] = "done"]
    /\ reply' = [reply EXCEPT ![r] = "none"]
    /\ UNCHANGED <<total, acked, attempt, requestVars, memoryVars, tableVars,
                   resultVars, crashes>>

(* Mutants: /sync/complete retried like a chunk; a failure taken for a     *)
(* success.                                                                *)
SyncFailed_RetriesComplete(r) ==
    /\ pc[r] \in {"starting", "completing"}
    /\ Disappointed(r)
    /\ pc' = [pc EXCEPT ![r] = IF @ = "starting" THEN "failed" ELSE "sending"]
    /\ reply' = [reply EXCEPT ![r] = "none"]
    /\ UNCHANGED <<total, acked, attempt, requestVars, memoryVars, tableVars,
                   resultVars, crashes>>

SyncFailed_ReportsSuccess(r) ==
    /\ pc[r] \in {"starting", "completing"}
    /\ Disappointed(r)
    /\ pc' = [pc EXCEPT ![r] = IF @ = "starting" THEN "failed" ELSE "done"]
    /\ reply' = [reply EXCEPT ![r] = "none"]
    /\ UNCHANGED <<total, acked, attempt, requestVars, memoryVars, tableVars,
                   resultVars, crashes>>

(* /sync/start and /sync/complete are tried once: any failure ends the run.*)
SyncFailed(r) ==
    /\ pc[r] \in {"starting", "completing"}
    /\ Disappointed(r)
    /\ pc' = [pc EXCEPT ![r] = "failed"]
    /\ reply' = [reply EXCEPT ![r] = "none"]
    /\ UNCHANGED <<total, acked, attempt, requestVars, memoryVars, tableVars,
                   resultVars, crashes>>

-----------------------------------------------------------------------------
(* sync_start_handler: open the session in memory, then insert its row.    *)

StartSession(r) ==
    /\ startAt[r] = "sent"
    /\ live' = live \cup {r}
    /\ buffer' = [buffer EXCEPT ![r] = EmptySession]
    /\ startAt' = [startAt EXCEPT ![r] = "opened"]
    /\ UNCHANGED <<clientVars, reply, chunkReqs, completeAt, built, tableVars,
                   resultVars, crashes>>

CreateSession(r) ==
    /\ startAt[r] = "opened"
    /\ startAt' = [startAt EXCEPT ![r] = "over"]
    /\ \/ /\ db' = [db EXCEPT ![r] = "active"]
          /\ Answer(r, pc[r] = "starting", "ok")
       \/ /\ Faulty
          /\ db' = db
          /\ Answer(r, pc[r] = "starting", "err")
    /\ UNCHANGED <<clientVars, chunkReqs, completeAt, built, memoryVars,
                   expired, dbChunks, resultVars, crashes>>

-----------------------------------------------------------------------------
(* sync_chunk_handler.                                                     *)

Advance(q, stage) ==
    chunkReqs' = (chunkReqs \ {q}) \cup {[q EXCEPT !.at = stage]}

Finish(q, result) ==
    /\ chunkReqs' = chunkReqs \ {q}
    /\ Answer(q.run, Awaited(q), result)

CheckChunk(q) ==
    /\ q.at = "sent"
    /\ IF SessionActive(q.run)
       THEN Advance(q, "checked") /\ reply' = reply
       ELSE Finish(q, "err")
    /\ UNCHANGED <<clientVars, startAt, completeAt, built, memoryVars,
                   tableVars, resultVars, crashes>>

(* add_chunk: the first chunk of a type fixes its total; a chunk already   *)
(* there is overwritten, so attempts may arrive twice and in any order.    *)
ChunkAccepted(q) ==
    LET have == buffer[q.run][q.chunk[1]].total
    IN  /\ q.run \in live
        /\ q.chunk[2] < total[q.run][q.chunk[1]]
        /\ have = 0 \/ have = total[q.run][q.chunk[1]]

(* Mutants: a missing session is created by its first chunk; a retried     *)
(* chunk starts its buffer anew.                                           *)
AddChunk_CreatesSession(q) ==
    /\ q.at = "checked"
    /\ buffer' = [buffer EXCEPT ![q.run][q.chunk[1]] =
           [total |-> total[q.run][q.chunk[1]],
            got   |-> @.got \cup {q.chunk[2]}]]
    /\ live' = live \cup {q.run}
    /\ Advance(q, "added")
    /\ UNCHANGED <<clientVars, reply, startAt, completeAt, built, tableVars,
                   resultVars, crashes>>

AddChunk(q) ==
    /\ q.at = "checked"
    /\ \/ /\ ChunkAccepted(q)
          /\ buffer' = [buffer EXCEPT ![q.run][q.chunk[1]] =
                 [total |-> total[q.run][q.chunk[1]],
                  got   |-> @.got \cup {q.chunk[2]}]]
          /\ Advance(q, "added")
          /\ reply' = reply
       \/ /\ ~ChunkAccepted(q)
          /\ Finish(q, "err")
          /\ buffer' = buffer
    /\ UNCHANGED <<clientVars, startAt, completeAt, built, live, tableVars,
                   resultVars, crashes>>

(* Mutant: the result of upsert_chunk discarded, like complete_session's.  *)
UpsertChunk_IgnoresError(q) ==
    /\ q.at = "added"
    /\ \/ dbChunks' = [dbChunks EXCEPT ![q.run] = @ \cup {q.chunk}]
       \/ Faulty /\ dbChunks' = dbChunks
    /\ Finish(q, "ok")
    /\ UNCHANGED <<clientVars, startAt, completeAt, built, memoryVars, db,
                   expired, resultVars, crashes>>

UpsertChunk(q) ==
    /\ q.at = "added"
    /\ \/ /\ dbChunks' = [dbChunks EXCEPT ![q.run] = @ \cup {q.chunk}]
          /\ Finish(q, "ok")
       \/ /\ Faulty
          /\ dbChunks' = dbChunks
          /\ Finish(q, "err")
    /\ UNCHANGED <<clientVars, startAt, completeAt, built, memoryVars, db,
                   expired, resultVars, crashes>>

-----------------------------------------------------------------------------
(* sync_complete_handler.                                                  *)

AnswerComplete(r, result) == Answer(r, pc[r] = "completing", result)

EndComplete(r, result) ==
    /\ completeAt' = [completeAt EXCEPT ![r] = "over"]
    /\ AnswerComplete(r, result)

CheckComplete(r) ==
    /\ completeAt[r] = "sent"
    /\ IF SessionActive(r)
       THEN completeAt' = [completeAt EXCEPT ![r] = "checked"] /\ reply' = reply
       ELSE EndComplete(r, "err")
    /\ UNCHANGED <<clientVars, startAt, chunkReqs, built, memoryVars,
                   tableVars, resultVars, crashes>>

(* build_session_data: every data type that received a chunk has them all; *)
(* a type that received none counts as empty.  The session is kept.        *)
Buffered(r) == {c \in Chunks : c[2] \in buffer[r][c[1]].got}

(* Mutants: every data type must have received a chunk; a session that is  *)
(* not in memory is built from nothing.                                    *)
BuildPossible_NoEmptyType(r) ==
    /\ r \in live
    /\ \A t \in Types :
           /\ buffer[r][t].total # 0
           /\ buffer[r][t].got = 0 .. buffer[r][t].total - 1

BuildPossible_WithoutSession(r) ==
    \A t \in Types :
        buffer[r][t].total # 0 =>
            buffer[r][t].got = 0 .. buffer[r][t].total - 1

BuildPossible(r) ==
    /\ r \in live
    /\ \A t \in Types :
           buffer[r][t].total # 0 =>
               buffer[r][t].got = 0 .. buffer[r][t].total - 1

BuildSessionData(r) ==
    /\ completeAt[r] = "checked"
    /\ IF BuildPossible(r)
       THEN /\ built' = [built EXCEPT ![r] = Buffered(r)]
            /\ completeAt' = [completeAt EXCEPT ![r] = "built"]
            /\ reply' = reply
       ELSE /\ EndComplete(r, "err")
            /\ built' = built
    /\ UNCHANGED <<clientVars, startAt, chunkReqs, memoryVars, tableVars,
                   resultVars, crashes>>

(* process_data_sync is one transaction: it commits or leaves no trace.    *)
ProcessDataSync(r) ==
    /\ completeAt[r] = "built"
    /\ \/ /\ commits' = [commits EXCEPT ![r] = @ + 1]
          /\ processed' = [processed EXCEPT ![r] = built[r]]
          /\ completeAt' = [completeAt EXCEPT ![r] = "committed"]
          /\ reply' = reply
       \/ /\ Faulty
          /\ EndComplete(r, "err")
          /\ UNCHANGED resultVars
    /\ UNCHANGED <<clientVars, startAt, chunkReqs, built, memoryVars,
                   tableVars, crashes>>

FinishSession(r) ==
    /\ completeAt[r] = "committed"
    /\ live' = live \ {r}
    /\ buffer' = [buffer EXCEPT ![r] = EmptySession]
    /\ completeAt' = [completeAt EXCEPT ![r] = "finished"]
    /\ UNCHANGED <<clientVars, reply, startAt, chunkReqs, built, tableVars,
                   resultVars, crashes>>

(* The result of complete_session is discarded: the answer is "ok" anyway. *)
CompleteSession(r) ==
    /\ completeAt[r] = "finished"
    /\ \/ db' = [db EXCEPT ![r] = "completed"]
       \/ Faulty /\ db' = db
    /\ EndComplete(r, "ok")
    /\ UNCHANGED <<clientVars, startAt, chunkReqs, built, memoryVars, expired,
                   dbChunks, resultVars, crashes>>

-----------------------------------------------------------------------------
(* The environment.                                                        *)

(* A connection breaks: the request is lost, or its handler dropped at the *)
(* await it stands at.  The client finds out by its time-out.              *)
LoseStart(r) ==
    /\ Faulty
    /\ startAt[r] \in {"sent", "opened"}
    /\ startAt' = [startAt EXCEPT ![r] = "over"]
    /\ UNCHANGED <<clientVars, reply, chunkReqs, completeAt, built, memoryVars,
                   tableVars, resultVars, crashes>>

LoseChunk(q) ==
    /\ Faulty
    /\ chunkReqs' = chunkReqs \ {q}
    /\ UNCHANGED <<clientVars, reply, startAt, completeAt, built, memoryVars,
                   tableVars, resultVars, crashes>>

LoseComplete(r) ==
    /\ Faulty
    /\ completeAt[r] \notin {"none", "over"}
    /\ completeAt' = [completeAt EXCEPT ![r] = "over"]
    /\ UNCHANGED <<clientVars, reply, startAt, chunkReqs, built, memoryVars,
                   tableVars, resultVars, crashes>>

(* SESSION_TTL_MINUTES after its start, whatever still goes on in it.      *)
Expire(r) ==
    /\ Faulty
    /\ db[r] = "active"
    /\ r \notin expired
    /\ expired' = expired \cup {r}
    /\ UNCHANGED <<clientVars, reply, requestVars, memoryVars, db, dbChunks,
                   resultVars, crashes>>

Restart ==
    /\ crashes < MaxCrashes
    /\ crashes' = crashes + 1
    /\ live' = {}
    /\ buffer' = [r \in Runs |-> EmptySession]
    /\ startAt' = [r \in Runs |->
           IF startAt[r] = "opened" THEN "over" ELSE startAt[r]]
    /\ chunkReqs' = {q \in chunkReqs : q.at = "sent"}
    /\ completeAt' = [r \in Runs |->
           IF completeAt[r] \in {"none", "sent"} THEN completeAt[r] ELSE "over"]
    /\ UNCHANGED <<clientVars, reply, built, tableVars, resultVars>>

-----------------------------------------------------------------------------

Client(r) ==
    \/ SendStart(r)
    \/ Collect(r)
    \/ SendChunk(r)
    \/ ChunkAcknowledged(r)
    \/ ChunkFailed(r)
    \/ SendComplete(r)
    \/ SyncSucceeded(r)
    \/ SyncFailed(r)

StartHandler(r) == StartSession(r) \/ CreateSession(r)
ChunkHandler(q) == CheckChunk(q) \/ AddChunk(q) \/ UpsertChunk(q)
CompleteHandler(r) ==
    \/ CheckComplete(r)
    \/ BuildSessionData(r)
    \/ ProcessDataSync(r)
    \/ FinishSession(r)
    \/ CompleteSession(r)

Stop(r) == LoseStart(r) \/ LoseComplete(r) \/ Expire(r)

Next ==
    \/ \E r \in Runs :
           Client(r) \/ StartHandler(r) \/ CompleteHandler(r) \/ Stop(r)
    \/ \E q \in chunkReqs : ChunkHandler(q) \/ LoseChunk(q)
    \/ Restart

Spec == Init /\ [][Next]_vars

(* A run, once begun, goes on: startSync is one async function whose every *)
(* wait is bounded by the HTTP time-out.  The server's executor runs every *)
(* handler that is ready.                                                  *)
ClientGoesOn(r) == Client(r) /\ pc[r] # "idle"
ChunkHandlers(r) == \E q \in chunkReqs : q.run = r /\ ChunkHandler(q)

Fairness ==
    \A r \in Runs :
        /\ WF_vars(ClientGoesOn(r))
        /\ WF_vars(StartHandler(r))
        /\ WF_vars(ChunkHandlers(r))
        /\ WF_vars(CompleteHandler(r))

FairSpec == Spec /\ Fairness

-----------------------------------------------------------------------------
(* Properties.                                                             *)

(* Every variable stays within its type: in particular a chunk is tried at *)
(* most MaxRetries times (the attempt counter of sendDataInChunks).        *)
TypeOK ==
    /\ pc \in [Runs -> ClientPc]
    /\ total \in [Runs -> [Types -> 0 .. MaxChunks]]
    /\ acked \in [Runs -> SUBSET Chunks]
    /\ attempt \in [Runs -> 0 .. MaxRetries]
    /\ reply \in [Runs -> Reply]
    /\ startAt \in [Runs -> StartStage]
    /\ chunkReqs \in SUBSET ChunkReq
    /\ completeAt \in [Runs -> CompleteStage]
    /\ built \in [Runs -> SUBSET Chunks]
    /\ live \in SUBSET Runs
    /\ buffer \in [Runs -> [Types -> ChunkBuffer]]
    /\ db \in [Runs -> RowStatus]
    /\ expired \in SUBSET Runs
    /\ dbChunks \in [Runs -> SUBSET Chunks]
    /\ commits \in [Runs -> Nat]
    /\ processed \in [Runs -> SUBSET Chunks]
    /\ crashes \in Nat

(* Whatever process_data_sync commits for a session is everything the      *)
(* client collected for it.  The danger is build_session_data taking a     *)
(* data type without chunks for an empty one: it is only right as long as  *)
(* a session never loses some of its buffers and keeps others.             *)
WholeUploadProcessed ==
    \A r \in Runs : commits[r] > 0 => processed[r] = Plan(r)

(* A session is processed once at most, and a sync that reports success    *)
(* was processed.  Nothing in sync_complete_handler excludes a second      *)
(* complete between ensure_session_active and complete_session: it is the  *)
(* client that must not send one.                                          *)
ProcessedOnce ==
    \A r \in Runs : commits[r] <= 1 /\ (pc[r] = "done" => commits[r] = 1)

(* A chunk the client was told is received is in the session's buffer for  *)
(* as long as the session is in memory, late duplicates or not, and its    *)
(* row in sync_chunks outlives everything.                                 *)
AckedChunkIsKept ==
    \A r \in Runs :
        /\ acked[r] \subseteq dbChunks[r]
        /\ r \in live => acked[r] \subseteq Buffered(r)

(* Once its row says 'completed', a session is gone from memory and no     *)
(* straggling chunk handler, checked while it was active, brings it back.  *)
CompletedSessionIsGone ==
    \A r \in Runs : db[r] = "completed" => r \notin live

(* Whatever fails, a sync that began comes to an end the user is told of.  *)
EverySyncEnds ==
    \A r \in Runs : pc[r] = "starting" ~> pc[r] \in {"done", "failed"}

(* The chunks, retries and restarts implement one atomic upload per run.   *)
Upload == INSTANCE AtomicUpload WITH
    Items    <- Chunks,
    offered  <- [r \in Runs |-> Plan(r)],
    taken    <- {r \in Runs : commits[r] > 0},
    contents <- [r \in Runs |-> processed[r]],
    told     <- [r \in Runs |-> IF pc[r] = "done" THEN "ok"
                                ELSE IF pc[r] = "failed" THEN "failed"
                                ELSE "pending"]

(* AtomicUpload: taken whole, once, or not at all; "ok" only if taken.     *)
UploadIsAtomic == Upload!Spec
-----------------------------------------------------------------------------
(* The inductive invariant behind the safety properties.                   *)

(* A chunk that is being sent has a try left.                              *)
AttemptInv ==
    \A r \in Runs :
        pc[r] \in {"idle", "starting", "sending", "awaiting"} =>
            attempt[r] < MaxRetries

(* Before its session answers, a run has left no trace but its request.    *)
Untouched(r) ==
    /\ total[r] = [t \in Types |-> 0]
    /\ acked[r] = {}
    /\ completeAt[r] = "none"
    /\ commits[r] = 0
    /\ db[r] = "absent" \/ startAt[r] = "over"
    /\ buffer[r] = EmptySession
    /\ \A q \in chunkReqs : q.run # r

StartInv ==
    \A r \in Runs :
        /\ pc[r] \in {"idle", "starting"} => Untouched(r)
        /\ startAt[r] # "over" =>
               Untouched(r) /\ pc[r] \in {"idle", "starting", "failed"}
        /\ startAt[r] = "none" <=> pc[r] = "idle"
        /\ pc[r] = "starting" /\ reply[r] = "ok" => startAt[r] = "over"
        /\ pc[r] \in {"idle", "sending", "done", "failed"} => reply[r] = "none"

(* A chunk is held: recorded, and buffered unless the session is gone.     *)
Held(r, c) == r \in live => c \in Buffered(r)

BufferInv ==
    \A r \in Runs : \A t \in Types :
        /\ buffer[r][t].total \in {0, total[r][t]}
        /\ buffer[r][t].got \subseteq 0 .. buffer[r][t].total - 1

AckedInv ==
    \A r \in Runs : \A c \in acked[r] :
        c \in Plan(r) /\ c \in dbChunks[r] /\ Held(r, c)

RequestInv ==
    \A q \in chunkReqs :
        /\ q.chunk \in Plan(q.run)
        /\ q.at = "added" => Held(q.run, q.chunk)

(* An "ok" the client has yet to read is about a chunk that is held.       *)
ReplyInv ==
    \A r \in Runs : \A c \in Chunks :
        pc[r] = "awaiting" /\ reply[r] = "ok" /\ IsNext(r, c) =>
            c \in dbChunks[r] /\ Held(r, c)

ChunkInv == BufferInv /\ AckedInv /\ RequestInv /\ ReplyInv

(* The one complete request of a run: sent when everything is acked.       *)
CompleteInv ==
    \A r \in Runs :
        /\ completeAt[r] # "none" =>
               /\ Plan(r) \subseteq acked[r]
               /\ pc[r] \in {"completing", "done", "failed"}
        /\ completeAt[r] = "built" => built[r] = Plan(r)
        /\ completeAt[r] \in {"none", "sent", "checked", "built"} =>
               commits[r] = 0
        /\ completeAt[r] \in {"committed", "finished"} => commits[r] = 1
        /\ commits[r] \in {0, 1}
        /\ commits[r] = 1 => processed[r] = Plan(r)
        /\ pc[r] = "done" => commits[r] = 1
        /\ pc[r] = "completing" /\ reply[r] = "ok" => commits[r] = 1
        /\ completeAt[r] = "finished" \/ db[r] = "completed" => r \notin live
        /\ db[r] = "completed" => completeAt[r] = "over"

(* All parts together, checked as an invariant and proved inductive: the   *)
(* chain from a chunk's acknowledgement to what process_data_sync commits. *)
SessionInv == AttemptInv /\ StartInv /\ ChunkInv /\ CompleteInv
=============================================================================
