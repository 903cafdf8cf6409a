------------------------- MODULE SyncSessionProofs -------------------------
(***************************************************************************)
(* Proofs about SyncSession for any number of runs, data types, chunks,    *)
(* retries and restarts.                                                   *)
(***************************************************************************)
EXTENDS MCSyncSession, TLAPS

(* The next chunk is unique: chunks are ordered by type, then by index.    *)
LEMMA NextUnique ==
    ASSUME NEW r \in Runs, NEW c \in Chunks, NEW d \in Chunks,
           IsNext(r, c), IsNext(r, d)
    PROVE  c = d
<1>1. c[1] \in Int /\ c[2] \in Int /\ d[1] \in Int /\ d[2] \in Int
  BY SyncSessionAssumption DEF Chunks, Types
<1>2. ~Precedes(c, d) /\ ~Precedes(d, c)
  BY DEF IsNext
<1>3. c[1] = d[1] /\ c[2] = d[2]
  BY <1>1, <1>2 DEF Precedes
<1> QED
  BY <1>3 DEF Chunks

-----------------------------------------------------------------------------
(* Types.                                                                  *)

TypeInv == TypeOK /\ AttemptInv

LEMMA TypeInit == Init => TypeInv
  BY SyncSessionAssumption
  DEF Init, TypeInv, TypeOK, AttemptInv, ClientPc, Reply, StartStage,
      CompleteStage, RowStatus, EmptySession, ChunkBuffer

LEMMA TypeClient ==
    ASSUME TypeInv, NEW r \in Runs, Client(r)
    PROVE  TypeInv'
<1> USE SyncSessionAssumption DEF TypeInv, TypeOK, AttemptInv, ClientPc, Reply,
      clientVars, requestVars, memoryVars, tableVars, resultVars
<1>1. CASE SendStart(r)
  BY <1>1 DEF SendStart, StartStage
<1>2. CASE Collect(r)
  BY <1>2 DEF Collect
<1>3. CASE SendChunk(r)
  <2>1. PICK c \in Chunks :
            chunkReqs' = chunkReqs \cup {[run |-> r, chunk |-> c,
                                          attempt |-> attempt[r], at |-> "sent"]}
    BY <1>3 DEF SendChunk
  <2>2. attempt[r] \in 0 .. MaxRetries - 1
    BY <1>3 DEF SendChunk
  <2>3. [run |-> r, chunk |-> c, attempt |-> attempt[r], at |-> "sent"] \in ChunkReq
    BY <2>2 DEF ChunkReq, ChunkStage
  <2>4. chunkReqs' \in SUBSET ChunkReq
    BY <2>1, <2>3
  <2> QED
    BY <1>3, <2>4 DEF SendChunk
<1>4. CASE ChunkAcknowledged(r)
  BY <1>4 DEF ChunkAcknowledged
<1>5. CASE ChunkFailed(r)
  BY <1>5 DEF ChunkFailed
<1>6. CASE SendComplete(r)
  BY <1>6 DEF SendComplete, CompleteStage
<1>7. CASE SyncSucceeded(r)
  BY <1>7 DEF SyncSucceeded
<1>8. CASE SyncFailed(r)
  BY <1>8 DEF SyncFailed
<1> QED
  BY <1>1, <1>2, <1>3, <1>4, <1>5, <1>6, <1>7, <1>8 DEF Client

LEMMA AdvanceType ==
    ASSUME chunkReqs \in SUBSET ChunkReq, NEW q \in chunkReqs,
           NEW stage \in ChunkStage, Advance(q, stage)
    PROVE  chunkReqs' \in SUBSET ChunkReq
  BY DEF Advance, ChunkReq

LEMMA AnswerType ==
    ASSUME reply \in [Runs -> Reply], NEW r \in Runs, NEW STATE waiting,
           NEW result \in Reply, Answer(r, waiting, result)
    PROVE  reply' \in [Runs -> Reply]
  BY DEF Answer

LEMMA TypeServer ==
    ASSUME TypeInv, NEW r \in Runs, StartHandler(r) \/ CompleteHandler(r)
    PROVE  TypeInv'
<1> USE SyncSessionAssumption DEF TypeInv, TypeOK, AttemptInv, ClientPc, Reply,
      clientVars, requestVars, memoryVars, tableVars, resultVars,
      EndComplete, AnswerComplete, CompleteStage
<1>0. EmptySession \in [Types -> ChunkBuffer]
  BY DEF EmptySession, ChunkBuffer
<1>1. CASE StartSession(r)
  BY <1>0, <1>1 DEF StartSession, StartStage
<1>2. CASE CreateSession(r)
  BY <1>2 DEF CreateSession, StartStage, RowStatus, Answer
<1>3. CASE CheckComplete(r)
  BY <1>3 DEF CheckComplete, Answer
<1>4. CASE BuildSessionData(r)
  <2>1. Buffered(r) \in SUBSET Chunks
    BY DEF Buffered
  <2>2. CASE BuildPossible(r)
    <3>1. built' = [built EXCEPT ![r] = Buffered(r)]
      BY <1>4, <2>2 DEF BuildSessionData
    <3>2. built' \in [Runs -> SUBSET Chunks]
      BY <2>1, <3>1
    <3> QED
      BY <1>4, <2>2, <3>2 DEF BuildSessionData
  <2>3. CASE ~BuildPossible(r)
    BY <1>4, <2>3, AnswerType DEF BuildSessionData
  <2> QED
    BY <2>2, <2>3
<1>5. CASE ProcessDataSync(r)
  <2>1. CASE /\ commits' = [commits EXCEPT ![r] = @ + 1]
             /\ processed' = [processed EXCEPT ![r] = built[r]]
             /\ completeAt' = [completeAt EXCEPT ![r] = "committed"]
             /\ reply' = reply
    <3>1. commits' \in [Runs -> Nat] /\ processed' \in [Runs -> SUBSET Chunks]
      BY <2>1
    <3> QED
      BY <1>5, <2>1, <3>1 DEF ProcessDataSync
  <2>2. CASE EndComplete(r, "err") /\ UNCHANGED resultVars
    <3>1. reply' \in [Runs -> Reply]
      BY <2>2, AnswerType
    <3> QED
      BY <1>5, <2>2, <3>1 DEF ProcessDataSync
  <2> QED
    BY <1>5, <2>1, <2>2 DEF ProcessDataSync
<1>6. CASE FinishSession(r)
  BY <1>0, <1>6 DEF FinishSession
<1>7. CASE CompleteSession(r)
  BY <1>7 DEF CompleteSession, RowStatus, Answer
<1> QED
  BY <1>1, <1>2, <1>3, <1>4, <1>5, <1>6, <1>7 DEF StartHandler, CompleteHandler

LEMMA TypeChunkHandler ==
    ASSUME TypeInv, NEW q \in chunkReqs, ChunkHandler(q) \/ LoseChunk(q)
    PROVE  TypeInv'
<1> USE SyncSessionAssumption DEF TypeInv, TypeOK, AttemptInv, ClientPc, Reply,
      clientVars, requestVars, memoryVars, tableVars, resultVars
<1>0. q \in ChunkReq /\ q.run \in Runs /\ q.chunk \in Chunks
  BY DEF ChunkReq
<1>1. CASE CheckChunk(q)
  <2>1. chunkReqs' \in SUBSET ChunkReq
    BY <1>1, AdvanceType DEF CheckChunk, Finish, ChunkStage
  <2> QED
    BY <1>0, <1>1, <2>1 DEF CheckChunk, Finish, Answer
<1>2. CASE AddChunk(q)
  <2>1. chunkReqs' \in SUBSET ChunkReq
    BY <1>2, AdvanceType DEF AddChunk, Finish, ChunkStage
  <2>2. buffer' \in [Runs -> [Types -> ChunkBuffer]]
    <3>1. q.chunk[1] \in Types /\ q.chunk[2] \in 0 .. MaxChunks - 1
      BY <1>0 DEF Chunks
    <3> DEFINE new == [total |-> total[q.run][q.chunk[1]],
                       got |-> buffer[q.run][q.chunk[1]].got \cup {q.chunk[2]}]
    <3>2. new \in ChunkBuffer
      BY <1>0, <3>1 DEF ChunkBuffer
    <3>3. \/ buffer' = buffer
          \/ buffer' = [buffer EXCEPT ![q.run][q.chunk[1]] = new]
      BY <1>2 DEF AddChunk
    <3>4. buffer[q.run] \in [Types -> ChunkBuffer]
      BY <1>0
    <3> HIDE DEF new
    <3>5. [buffer[q.run] EXCEPT ![q.chunk[1]] = new] \in [Types -> ChunkBuffer]
      BY <3>1, <3>2, <3>4
    <3> QED
      BY <1>0, <3>3, <3>5
  <2>3. reply' = reply \/ Answer(q.run, Awaited(q), "err")
    BY <1>2 DEF AddChunk, Finish
  <2>4. reply' \in [Runs -> Reply]
    BY <1>0, <2>3, AnswerType
  <2> QED
    BY <1>0, <1>2, <2>1, <2>2, <2>4 DEF AddChunk
<1>3. CASE UpsertChunk(q)
  <2>1. chunkReqs' \in SUBSET ChunkReq
    BY <1>3 DEF UpsertChunk, Finish
  <2>2. PICK result \in {"ok", "err"} : Answer(q.run, Awaited(q), result)
    BY <1>3 DEF UpsertChunk, Finish
  <2>3. reply' \in [Runs -> Reply]
    BY <1>0, <2>2, AnswerType
  <2>4. dbChunks' \in [Runs -> SUBSET Chunks]
    <3>1. \/ dbChunks' = dbChunks
          \/ dbChunks' = [dbChunks EXCEPT ![q.run] = @ \cup {q.chunk}]
      BY <1>3 DEF UpsertChunk
    <3>2. dbChunks[q.run] \cup {q.chunk} \in SUBSET Chunks
      BY <1>0
    <3> QED
      BY <1>0, <3>1, <3>2
  <2> QED
    BY <1>0, <1>3, <2>1, <2>3, <2>4 DEF UpsertChunk
<1>4. CASE LoseChunk(q)
  BY <1>4 DEF LoseChunk
<1> QED
  BY <1>1, <1>2, <1>3, <1>4 DEF ChunkHandler

LEMMA TypeEnvironment ==
    ASSUME TypeInv, (\E r \in Runs : Stop(r)) \/ Restart
    PROVE  TypeInv'
<1> USE SyncSessionAssumption DEF TypeInv, TypeOK, AttemptInv,
      clientVars, requestVars, memoryVars, tableVars, resultVars
<1>1. CASE Restart
  BY <1>1 DEF Restart, EmptySession, ChunkBuffer, StartStage, CompleteStage
<1>2. ASSUME NEW r \in Runs, Stop(r)
      PROVE  TypeInv'
  <2>1. CASE LoseStart(r)
    BY <2>1 DEF LoseStart, StartStage
  <2>2. CASE LoseComplete(r)
    BY <2>2 DEF LoseComplete, CompleteStage
  <2>3. CASE Expire(r)
    BY <2>3 DEF Expire
  <2> QED
    BY <1>2, <2>1, <2>2, <2>3 DEF Stop
<1> QED
  BY <1>1, <1>2

(* Types and the bound on attempts are inductive together.                 *)
LEMMA TypeInvariant == Spec => []TypeInv
<1>1. TypeInv /\ [Next]_vars => TypeInv'
  <2> SUFFICES ASSUME TypeInv, [Next]_vars PROVE TypeInv'
    OBVIOUS
  <2>1. CASE UNCHANGED vars
    BY <2>1 DEF vars, clientVars, requestVars, memoryVars, tableVars,
                resultVars, TypeInv, TypeOK, AttemptInv
  <2> QED
    BY <2>1, TypeClient, TypeServer, TypeChunkHandler, TypeEnvironment DEF Next
<1> QED
  BY <1>1, TypeInit, PTL DEF Spec

(* Type correctness: in particular sendDataInChunks stops at MaxRetries.   *)
THEOREM TypeCorrect == Spec => []TypeOK
<1>1. TypeInv => TypeOK
  BY DEF TypeInv
<1> QED
  BY <1>1, TypeInvariant, PTL
-----------------------------------------------------------------------------
(* A run whose session has not answered has left no trace.                 *)

LEMMA StartInvStep ==
    ASSUME TypeInv, StartInv, [Next]_vars
    PROVE  StartInv'
<1> USE DEF TypeInv, TypeOK, StartInv, Untouched,
      clientVars, requestVars, memoryVars, tableVars, resultVars
<1>1. ASSUME NEW r \in Runs, Client(r) PROVE StartInv'
  <2>1. CASE SendStart(r)
    BY <2>1 DEF SendStart
  <2>2. CASE Collect(r)
    BY <2>2 DEF Collect
  <2>3. CASE SendChunk(r)
    <3>1. \A q \in chunkReqs' : q \in chunkReqs \/ q.run = r
      BY <2>3 DEF SendChunk
    <3> QED
      BY <2>3, <3>1 DEF SendChunk
  <2>4. CASE ChunkAcknowledged(r)
    BY <2>4 DEF ChunkAcknowledged
  <2>5. CASE ChunkFailed(r)
    BY <2>5 DEF ChunkFailed
  <2>6. CASE SendComplete(r)
    BY <2>6 DEF SendComplete
  <2>7. CASE SyncSucceeded(r)
    BY <2>7 DEF SyncSucceeded
  <2>8. CASE SyncFailed(r)
    BY <2>8 DEF SyncFailed
  <2> QED
    BY <1>1, <2>1, <2>2, <2>3, <2>4, <2>5, <2>6, <2>7, <2>8 DEF Client
<1>2. ASSUME NEW r \in Runs, StartHandler(r) PROVE StartInv'
  <2>1. CASE StartSession(r)
    BY <2>1 DEF StartSession
  <2>2. CASE CreateSession(r)
    BY <2>2 DEF CreateSession, Answer
  <2> QED
    BY <1>2, <2>1, <2>2 DEF StartHandler
<1>3. ASSUME NEW r \in Runs, CompleteHandler(r) PROVE StartInv'
  <2>1. CASE CheckComplete(r)
    BY <2>1 DEF CheckComplete, EndComplete, AnswerComplete, Answer
  <2>2. CASE BuildSessionData(r)
    BY <2>2 DEF BuildSessionData, EndComplete, AnswerComplete, Answer
  <2>3. CASE ProcessDataSync(r)
    BY <2>3 DEF ProcessDataSync, EndComplete, AnswerComplete, Answer
  <2>4. CASE FinishSession(r)
    BY <2>4 DEF FinishSession
  <2>5. CASE CompleteSession(r)
    BY <2>5 DEF CompleteSession, EndComplete, AnswerComplete, Answer
  <2> QED
    BY <1>3, <2>1, <2>2, <2>3, <2>4, <2>5 DEF CompleteHandler
<1>4. ASSUME NEW q \in chunkReqs, ChunkHandler(q) \/ LoseChunk(q) PROVE StartInv'
  <2>0. /\ q.run \in Runs
        /\ pc[q.run] \notin {"idle", "starting"}
        /\ startAt[q.run] = "over"
    BY DEF ChunkReq
  <2>1. \A p \in chunkReqs' : \E o \in chunkReqs : o.run = p.run
    BY <1>4 DEF ChunkHandler, CheckChunk, AddChunk, UpsertChunk, LoseChunk,
                Advance, Finish, ChunkReq
  <2>2. \A r \in Runs : reply'[r] = reply[r] \/ pc[r] = "awaiting"
    <3>1. reply' = reply \/ \E x \in Reply : Answer(q.run, Awaited(q), x)
      BY <1>4 DEF ChunkHandler, CheckChunk, AddChunk, UpsertChunk, LoseChunk,
                  Finish, Reply
    <3> QED
      BY <2>0, <3>1 DEF Answer, Awaited
  <2>3. \A r \in Runs \ {q.run} : buffer'[r] = buffer[r]
    <3>1. CASE AddChunk(q)
      <4>1. \/ buffer' = buffer
            \/ buffer' = [buffer EXCEPT ![q.run][q.chunk[1]] =
                             [total |-> total[q.run][q.chunk[1]],
                              got   |-> @.got \cup {q.chunk[2]}]]
        BY <3>1 DEF AddChunk
      <4> QED
        BY <2>0, <4>1
    <3> QED
      BY <1>4, <3>1 DEF ChunkHandler, CheckChunk, UpsertChunk, LoseChunk
  <2>4. UNCHANGED <<pc, total, acked, startAt, completeAt, commits, db>>
    BY <1>4 DEF ChunkHandler, CheckChunk, AddChunk, UpsertChunk, LoseChunk
  <2>5. SUFFICES ASSUME NEW r \in Runs
                 PROVE  /\ pc'[r] \in {"idle", "starting"} => Untouched(r)'
                        /\ startAt'[r] # "over" =>
                             /\ Untouched(r)'
                             /\ pc'[r] \in {"idle", "starting", "failed"}
                        /\ startAt'[r] = "none" <=> pc'[r] = "idle"
                        /\ pc'[r] = "starting" /\ reply'[r] = "ok" =>
                               startAt'[r] = "over"
                        /\ pc'[r] \in {"idle", "sending", "done", "failed"} =>
                               reply'[r] = "none"
    OBVIOUS
  <2>6. ASSUME Untouched(r), r # q.run PROVE Untouched(r)'
    <3>1. buffer'[r] = EmptySession
      BY <2>3, <2>6
    <3>2. ASSUME NEW p \in chunkReqs' PROVE p.run # r
      <4>1. PICK o \in chunkReqs : o.run = p.run
        BY <2>1
      <4> QED
        BY <2>6, <4>1
    <3>3. /\ total'[r] = [t \in Types |-> 0] /\ acked'[r] = {}
          /\ completeAt'[r] = "none" /\ commits'[r] = 0
      BY <2>4, <2>6
    <3>4. db'[r] = "absent" \/ startAt'[r] = "over"
      BY <2>4, <2>6
    <3> QED
      BY <3>1, <3>2, <3>3, <3>4
  <2>7. CASE r = q.run
    BY <2>0, <2>2, <2>4, <2>7
  <2>8. CASE r # q.run
    BY <2>2, <2>4, <2>6, <2>8
  <2> QED
    BY <2>7, <2>8
<1>5. ASSUME NEW r \in Runs, Stop(r) PROVE StartInv'
  BY <1>5 DEF Stop, LoseStart, LoseComplete, Expire
<1>6. CASE Restart
  BY <1>6 DEF Restart
<1>7. CASE UNCHANGED vars
  BY <1>7 DEF vars
<1> QED
  BY <1>1, <1>2, <1>3, <1>4, <1>5, <1>6, <1>7 DEF Next
-----------------------------------------------------------------------------
(* Acknowledged chunks are held.                                           *)

(* What a step must leave alone not to disturb ChunkInv.                   *)
ChunkFrame ==
    /\ UNCHANGED <<total, acked, dbChunks>>
    /\ chunkReqs' \subseteq chunkReqs
    /\ live' \subseteq live
    /\ \A r \in Runs : buffer'[r] = buffer[r] \/
                       (r \notin live' /\ buffer'[r] = EmptySession)
    /\ \A r \in Runs : pc'[r] = "awaiting" /\ reply'[r] = "ok" =>
                           pc[r] = "awaiting" /\ reply[r] = "ok"

LEMMA ChunkFrameStep ==
    ASSUME TypeOK, ChunkInv, ChunkFrame
    PROVE  ChunkInv'
<1>1. \A r \in Runs : Plan(r)' = Plan(r) /\ \A c : IsNext(r, c)' = IsNext(r, c)
  BY DEF Plan, IsNext, ChunkFrame
<1>2. \A r \in Runs : \A c \in Chunks : Held(r, c) => Held(r, c)'
  BY DEF Held, Buffered, ChunkFrame
<1>3. BufferInv'
  <2> SUFFICES ASSUME NEW r \in Runs, NEW t \in Types
               PROVE  /\ buffer'[r][t].total \in {0, total'[r][t]}
                      /\ buffer'[r][t].got \subseteq 0 .. buffer'[r][t].total - 1
    BY DEF BufferInv
  <2>1. CASE buffer'[r] = buffer[r]
    BY <2>1 DEF ChunkInv, BufferInv, ChunkFrame
  <2>2. CASE buffer'[r] = EmptySession
    BY <2>2 DEF EmptySession
  <2> QED
    BY <2>1, <2>2 DEF ChunkFrame
<1>4. AckedInv'
  BY <1>1, <1>2 DEF ChunkInv, AckedInv, ChunkFrame, TypeOK
<1>5. RequestInv'
  BY <1>1, <1>2 DEF ChunkInv, RequestInv, ChunkFrame, TypeOK, ChunkReq
<1>6. ReplyInv'
  BY <1>1, <1>2 DEF ChunkInv, ReplyInv, ChunkFrame
<1> QED
  BY <1>3, <1>4, <1>5, <1>6 DEF ChunkInv

LEMMA ChunkInvClient ==
    ASSUME TypeInv, StartInv, ChunkInv, NEW r \in Runs, Client(r)
    PROVE  ChunkInv'
<1> USE DEF TypeInv, clientVars, requestVars, memoryVars, tableVars, resultVars
<1>1. CASE SendStart(r)
  BY <1>1, ChunkFrameStep DEF SendStart, ChunkFrame, TypeOK
<1>2. CASE Collect(r)
  <2>1. Untouched(r)
    BY <1>2 DEF Collect, StartInv
  <2>2. /\ UNCHANGED <<acked, chunkReqs, live, buffer, dbChunks>>
        /\ \A s \in Runs \ {r} : total'[s] = total[s] /\ pc'[s] = pc[s] /\ reply'[s] = reply[s]
        /\ pc'[r] = "sending"
    BY <1>2 DEF Collect, TypeOK
  <2>3. BufferInv'
    BY <2>1, <2>2 DEF ChunkInv, BufferInv, Untouched, EmptySession
  <2>4. AckedInv'
    BY <2>1, <2>2 DEF ChunkInv, AckedInv, Untouched, Plan, Held, Buffered
  <2>5. RequestInv'
    BY <2>1, <2>2 DEF ChunkInv, RequestInv, Untouched, Plan, Held, Buffered,
                      TypeOK, ChunkReq
  <2>6. ReplyInv'
    BY <2>2 DEF ChunkInv, ReplyInv, IsNext, Plan, Held, Buffered
  <2> QED
    BY <2>3, <2>4, <2>5, <2>6 DEF ChunkInv
<1>3. CASE SendChunk(r)
  <2>1. /\ UNCHANGED <<total, acked, live, buffer, dbChunks, reply>>
        /\ pc[r] = "sending"
        /\ \A s \in Runs \ {r} : pc'[s] = pc[s]
    BY <1>3 DEF SendChunk, TypeOK
  <2>2. reply'[r] = "none"
    BY <2>1 DEF StartInv
  <2>3. \A q \in chunkReqs' :
            q \in chunkReqs \/ (q.chunk \in Plan(q.run) /\ q.at = "sent")
    <3>1. PICK c \in Chunks :
              /\ IsNext(r, c)
              /\ chunkReqs' = chunkReqs \cup {[run |-> r, chunk |-> c,
                                            attempt |-> attempt[r], at |-> "sent"]}
      BY <1>3 DEF SendChunk
    <3>2. c \in Plan(r)
      BY <3>1 DEF IsNext
    <3> DEFINE sent == [run |-> r, chunk |-> c, attempt |-> attempt[r], at |-> "sent"]
    <3>3. sent.run = r /\ sent.chunk = c /\ sent.at = "sent"
      OBVIOUS
    <3>4. chunkReqs' = chunkReqs \cup {sent}
      BY <3>1
    <3> HIDE DEF sent
    <3> QED
      BY <3>2, <3>3, <3>4
  <2>4. BufferInv' /\ AckedInv'
    BY <2>1 DEF ChunkInv, BufferInv, AckedInv, Plan, Held, Buffered
  <2>5. RequestInv'
    BY <2>1, <2>3 DEF ChunkInv, RequestInv, Plan, Held, Buffered
  <2>6. ReplyInv'
    BY <2>1, <2>2 DEF ChunkInv, ReplyInv, IsNext, Plan, Held, Buffered
  <2> QED
    BY <2>4, <2>5, <2>6 DEF ChunkInv
<1>4. CASE ChunkAcknowledged(r)
  <2>1. PICK c \in Chunks : IsNext(r, c) /\ acked' = [acked EXCEPT ![r] = @ \cup {c}]
    BY <1>4 DEF ChunkAcknowledged
  <2>2. /\ UNCHANGED <<total, live, buffer, dbChunks, chunkReqs>>
        /\ pc[r] = "awaiting" /\ reply[r] = "ok" /\ pc'[r] = "sending"
        /\ \A s \in Runs \ {r} : acked'[s] = acked[s] /\ pc'[s] = pc[s] /\ reply'[s] = reply[s]
    BY <1>4 DEF ChunkAcknowledged, TypeOK
  <2>3. c \in Plan(r) /\ c \in dbChunks[r] /\ Held(r, c)
    BY <2>1, <2>2 DEF ChunkInv, ReplyInv, IsNext
  <2>4. \A s \in Runs : acked'[s] = IF s = r THEN acked[r] \cup {c} ELSE acked[s]
    BY <2>1 DEF TypeOK
  <2>5. BufferInv' /\ RequestInv'
    BY <2>2 DEF ChunkInv, BufferInv, RequestInv, Plan, Held, Buffered
  <2>6. AckedInv'
    BY <2>2, <2>3, <2>4 DEF ChunkInv, AckedInv, Plan, Held, Buffered
  <2>7. ReplyInv'
    BY <2>2 DEF ChunkInv, ReplyInv, IsNext, Plan, Held, Buffered
  <2> QED
    BY <2>5, <2>6, <2>7 DEF ChunkInv
<1>5. CASE ChunkFailed(r)
  BY <1>5, ChunkFrameStep DEF ChunkFailed, ChunkFrame, TypeOK
<1>6. CASE SendComplete(r)
  BY <1>6, ChunkFrameStep DEF SendComplete, ChunkFrame, TypeOK
<1>7. CASE SyncSucceeded(r)
  BY <1>7, ChunkFrameStep DEF SyncSucceeded, ChunkFrame, TypeOK
<1>8. CASE SyncFailed(r)
  BY <1>8, ChunkFrameStep DEF SyncFailed, ChunkFrame, TypeOK
<1> QED
  BY <1>1, <1>2, <1>3, <1>4, <1>5, <1>6, <1>7, <1>8 DEF Client

LEMMA ChunkInvServer ==
    ASSUME TypeInv, StartInv, ChunkInv, NEW r \in Runs,
           StartHandler(r) \/ CompleteHandler(r)
    PROVE  ChunkInv'
<1> USE DEF TypeInv, clientVars, requestVars, memoryVars, tableVars, resultVars,
            EndComplete, AnswerComplete, Answer
<1>1. CASE StartSession(r)
  <2>1. Untouched(r)
    BY <1>1 DEF StartSession, StartInv
  <2>2. /\ UNCHANGED <<total, acked, dbChunks, chunkReqs, pc, reply>>
        /\ pc[r] # "awaiting"
        /\ \A s \in Runs \ {r} : (s \in live' <=> s \in live)
        /\ \A s \in Runs : buffer'[s] = buffer[s]
    BY <1>1, <2>1 DEF StartSession, StartInv, Untouched, TypeOK
  <2>3. BufferInv'
    BY <2>2 DEF ChunkInv, BufferInv
  <2>4. AckedInv'
    BY <2>1, <2>2 DEF ChunkInv, AckedInv, Untouched, Plan, Held, Buffered
  <2>5. RequestInv'
    BY <2>1, <2>2 DEF ChunkInv, RequestInv, Untouched, Plan, Held, Buffered,
                      TypeOK, ChunkReq
  <2>6. ReplyInv'
    BY <2>2 DEF ChunkInv, ReplyInv, IsNext, Plan, Held, Buffered
  <2> QED
    BY <2>3, <2>4, <2>5, <2>6 DEF ChunkInv
<1>2. CASE CreateSession(r)
  BY <1>2, ChunkFrameStep DEF CreateSession, ChunkFrame, TypeOK
<1>3. CASE CheckComplete(r)
  BY <1>3, ChunkFrameStep DEF CheckComplete, ChunkFrame, TypeOK
<1>4. CASE BuildSessionData(r)
  BY <1>4, ChunkFrameStep DEF BuildSessionData, ChunkFrame, TypeOK
<1>5. CASE ProcessDataSync(r)
  BY <1>5, ChunkFrameStep DEF ProcessDataSync, ChunkFrame, TypeOK
<1>6. CASE FinishSession(r)
  BY <1>6, ChunkFrameStep DEF FinishSession, ChunkFrame, TypeOK
<1>7. CASE CompleteSession(r)
  BY <1>7, ChunkFrameStep DEF CompleteSession, ChunkFrame, TypeOK
<1> QED
  BY <1>1, <1>2, <1>3, <1>4, <1>5, <1>6, <1>7 DEF StartHandler, CompleteHandler

LEMMA ChunkInvChunkHandler ==
    ASSUME TypeInv, StartInv, ChunkInv, NEW q \in chunkReqs,
           ChunkHandler(q) \/ LoseChunk(q)
    PROVE  ChunkInv'
<1> USE DEF TypeInv, clientVars, requestVars, memoryVars, tableVars, resultVars
<1>0. /\ q.run \in Runs /\ q.chunk \in Chunks /\ q \in ChunkReq
      /\ q.chunk \in Plan(q.run)
  BY DEF TypeOK, ChunkReq, ChunkInv, RequestInv
<1>1. CASE Finish(q, "err") /\ UNCHANGED <<pc, total, acked, live, buffer, dbChunks>>
  BY <1>0, <1>1, ChunkFrameStep DEF Finish, Answer, ChunkFrame, TypeOK
<1>2. CASE CheckChunk(q) /\ SessionActive(q.run)
  <2>1. /\ UNCHANGED <<pc, total, acked, live, buffer, dbChunks, reply>>
        /\ \A p \in chunkReqs' : p \in chunkReqs \/ (p.chunk = q.chunk /\ p.run = q.run /\ p.at = "checked")
    BY <1>0, <1>2 DEF CheckChunk, Advance, ChunkReq
  <2>2. BufferInv' /\ AckedInv' /\ ReplyInv'
    BY <2>1 DEF ChunkInv, BufferInv, AckedInv, ReplyInv, IsNext, Plan, Held, Buffered
  <2>3. RequestInv'
    BY <1>0, <2>1 DEF ChunkInv, RequestInv, Plan, Held, Buffered
  <2> QED
    BY <2>2, <2>3 DEF ChunkInv
<1>3. CASE AddChunk(q) /\ ChunkAccepted(q)
  <2> DEFINE t == q.chunk[1]
             i == q.chunk[2]
             new == [total |-> total[q.run][t], got |-> buffer[q.run][t].got \cup {i}]
  <2>1. /\ UNCHANGED <<pc, total, acked, live, dbChunks, reply>>
        /\ buffer' = [buffer EXCEPT ![q.run][t] = new]
        /\ i < total[q.run][t]
        /\ buffer[q.run][t].total \in {0, total[q.run][t]}
        /\ \A p \in chunkReqs' : p \in chunkReqs \/ (p.chunk = q.chunk /\ p.run = q.run)
    BY <1>0, <1>3 DEF AddChunk, ChunkAccepted, Advance, ChunkReq
  <2>2. t \in Types /\ i \in Nat /\ q.chunk = <<t, i>>
    BY <1>0, SyncSessionAssumption DEF Chunks
  <2> HIDE DEF t, i
  <2>3. \A r \in Runs : \A u \in Types :
            buffer'[r][u] = IF r = q.run /\ u = t THEN new ELSE buffer[r][u]
    BY <1>0, <2>1, <2>2 DEF TypeOK
  <2>4. \A r \in Runs : \A c \in Chunks : Held(r, c) => Held(r, c)'
    BY <2>1, <2>2, <2>3 DEF Held, Buffered, Chunks
  <2>5. Held(q.run, q.chunk)'
    BY <1>0, <2>2, <2>3 DEF Held, Buffered
  <2>6. BufferInv'
    <3>1. new.total = total[q.run][t] /\ new.total \in Nat
      BY <1>0, <2>2, SyncSessionAssumption DEF TypeOK
    <3>2. buffer[q.run][t].got \subseteq 0 .. buffer[q.run][t].total - 1
      BY <1>0, <2>2 DEF ChunkInv, BufferInv
    <3>3. new.got \subseteq 0 .. new.total - 1
      BY <2>1, <2>2, <3>1, <3>2
    <3> HIDE DEF new
    <3> QED
      BY <2>1, <2>3, <3>1, <3>3 DEF ChunkInv, BufferInv
  <2>7. AckedInv'
    BY <2>1, <2>4 DEF ChunkInv, AckedInv, Plan, TypeOK
  <2>8. RequestInv'
    BY <1>0, <2>1, <2>4, <2>5 DEF ChunkInv, RequestInv, Plan, TypeOK, ChunkReq
  <2>9. ReplyInv'
    BY <2>1, <2>4 DEF ChunkInv, ReplyInv, IsNext, Plan
  <2> QED
    BY <2>6, <2>7, <2>8, <2>9 DEF ChunkInv
<1>4. CASE /\ UpsertChunk(q)
           /\ dbChunks' = [dbChunks EXCEPT ![q.run] = @ \cup {q.chunk}]
           /\ Finish(q, "ok")
  <2>1. /\ UNCHANGED <<pc, total, acked, attempt, live, buffer>>
        /\ dbChunks' = [dbChunks EXCEPT ![q.run] = @ \cup {q.chunk}]
        /\ chunkReqs' \subseteq chunkReqs
        /\ Answer(q.run, Awaited(q), "ok")
        /\ q.at = "added"
    BY <1>4 DEF UpsertChunk, Finish
  <2>2. Held(q.run, q.chunk)
    BY <2>1 DEF ChunkInv, RequestInv
  <2>3. BufferInv' /\ RequestInv'
    BY <2>1 DEF ChunkInv, BufferInv, RequestInv, Plan, Held, Buffered
  <2>4. \A r \in Runs : dbChunks[r] \subseteq dbChunks'[r]
    BY <1>0, <2>1 DEF TypeOK
  <2>5. q.chunk \in dbChunks'[q.run]
    BY <1>0, <2>1 DEF TypeOK
  <2>6. AckedInv'
    BY <2>1, <2>4 DEF ChunkInv, AckedInv, Plan, Held, Buffered
  <2>7. ReplyInv'
    <3> SUFFICES ASSUME NEW r \in Runs, NEW c \in Chunks, pc'[r] = "awaiting",
                        reply'[r] = "ok", IsNext(r, c)'
                 PROVE  c \in dbChunks'[r] /\ Held(r, c)'
      BY DEF ReplyInv
    <3>1. IsNext(r, c) /\ pc[r] = "awaiting" /\ (Held(r, c) => Held(r, c)')
      BY <2>1 DEF IsNext, Plan, Held, Buffered
    <3>2. CASE reply[r] = "ok"
      BY <2>4, <3>1, <3>2 DEF ChunkInv, ReplyInv
    <3>3. CASE reply[r] # "ok"
      <4>1. Awaited(q) /\ r = q.run
        BY <1>0, <2>1, <3>3 DEF Answer, TypeOK
      <4>2. c = q.chunk
        BY <1>0, <3>1, <4>1, NextUnique DEF Awaited
      <4> QED
        BY <2>2, <2>5, <3>1, <4>1, <4>2
    <3> QED
      BY <3>2, <3>3
  <2> QED
    BY <2>3, <2>6, <2>7 DEF ChunkInv
<1>5. CASE LoseChunk(q)
  BY <1>5, ChunkFrameStep DEF LoseChunk, ChunkFrame, TypeOK
<1> QED
  <2>1. CASE CheckChunk(q)
    BY <1>1, <1>2, <2>1 DEF CheckChunk
  <2>2. CASE AddChunk(q)
    BY <1>1, <1>3, <2>2 DEF AddChunk
  <2>3. CASE UpsertChunk(q)
    BY <1>1, <1>4, <2>3 DEF UpsertChunk
  <2> QED
    BY <1>5, <2>1, <2>2, <2>3 DEF ChunkHandler

LEMMA ChunkInvEnvironment ==
    ASSUME TypeInv, ChunkInv, (\E r \in Runs : Stop(r)) \/ Restart
    PROVE  ChunkInv'
<1> USE DEF TypeInv, clientVars, requestVars, memoryVars, tableVars, resultVars
<1>1. ASSUME NEW r \in Runs, Stop(r) PROVE ChunkInv'
  BY <1>1, ChunkFrameStep DEF Stop, LoseStart, LoseComplete, Expire, ChunkFrame
<1>2. CASE Restart
  BY <1>2, ChunkFrameStep DEF Restart, ChunkFrame
<1> QED
  BY <1>1, <1>2
-----------------------------------------------------------------------------
(* The one complete request of a run.                                      *)

(* What a step must leave alone not to disturb CompleteInv.                *)
CompleteFrame ==
    /\ UNCHANGED <<total, completeAt, built, commits, processed, db>>
    /\ live' \subseteq live
    /\ \A r \in Runs :
           /\ acked[r] \subseteq acked'[r]
           /\ completeAt[r] # "none" => pc'[r] \in {"completing", "done", "failed"}
           /\ pc'[r] = "done" => pc[r] = "done"
           /\ pc'[r] = "completing" /\ reply'[r] = "ok" =>
                  pc[r] = "completing" /\ reply[r] = "ok"

LEMMA CompleteFrameStep ==
    ASSUME CompleteInv, CompleteFrame
    PROVE  CompleteInv'
<1>1. \A r \in Runs : Plan(r)' = Plan(r)
  BY DEF Plan, CompleteFrame
<1> QED
  BY <1>1 DEF CompleteInv, CompleteFrame

(* One run's part of CompleteInv.                                          *)
CompleteOf(r) ==
    /\ completeAt[r] # "none" =>
           /\ Plan(r) \subseteq acked[r]
           /\ pc[r] \in {"completing", "done", "failed"}
    /\ completeAt[r] = "built" => built[r] = Plan(r)
    /\ completeAt[r] \in {"none", "sent", "checked", "built"} => commits[r] = 0
    /\ completeAt[r] \in {"committed", "finished"} => commits[r] = 1
    /\ commits[r] \in {0, 1}
    /\ commits[r] = 1 => processed[r] = Plan(r)
    /\ pc[r] = "done" => commits[r] = 1
    /\ pc[r] = "completing" /\ reply[r] = "ok" => commits[r] = 1
    /\ completeAt[r] = "finished" \/ db[r] = "completed" => r \notin live
    /\ db[r] = "completed" => completeAt[r] = "over"

LEMMA CompleteInvIsPerRun == CompleteInv <=> \A r \in Runs : CompleteOf(r)
  BY DEF CompleteInv, CompleteOf

(* Another run's step leaves a run's part alone.                           *)
LEMMA CompleteOther ==
    ASSUME NEW s \in Runs, CompleteOf(s),
           total'[s] = total[s], acked'[s] = acked[s], pc'[s] = pc[s],
           completeAt'[s] = completeAt[s], built'[s] = built[s],
           commits'[s] = commits[s], processed'[s] = processed[s],
           reply'[s] = reply[s], db'[s] = db[s], s \in live' => s \in live
    PROVE  CompleteOf(s)'
<1>1. Plan(s)' = Plan(s)
  BY DEF Plan
<1> QED
  BY <1>1 DEF CompleteOf

LEMMA CompleteInvClient ==
    ASSUME TypeInv, StartInv, CompleteInv, NEW r \in Runs, Client(r)
    PROVE  CompleteInv'
<1> USE DEF TypeInv, TypeOK, clientVars, requestVars, memoryVars, tableVars,
            resultVars
<1>1. CASE SendStart(r)
  BY <1>1, CompleteFrameStep DEF SendStart, CompleteFrame, CompleteInv
<1>2. CASE Collect(r)
  <2>1. Untouched(r)
    BY <1>2 DEF Collect, StartInv
  <2>2. CompleteOf(r)'
    BY <1>2, <2>1 DEF Collect, Untouched, CompleteInv, CompleteOf
  <2>3. \A s \in Runs \ {r} : CompleteOf(s)'
    BY <1>2, CompleteOther, CompleteInvIsPerRun DEF Collect
  <2> QED
    BY <2>2, <2>3 DEF CompleteInv, CompleteOf
<1>3. CASE SendChunk(r)
  BY <1>3, CompleteFrameStep DEF SendChunk, CompleteFrame, CompleteInv
<1>4. CASE ChunkAcknowledged(r)
  <2>1. completeAt[r] = "none"
    BY <1>4 DEF ChunkAcknowledged, CompleteInv
  <2>2. \A s \in Runs : acked[s] \subseteq acked'[s]
    BY <1>4 DEF ChunkAcknowledged
  <2>3. CompleteFrame
    BY <1>4, <2>1, <2>2 DEF ChunkAcknowledged, CompleteFrame, CompleteInv
  <2> QED
    BY <2>3, CompleteFrameStep
<1>5. CASE ChunkFailed(r)
  BY <1>5, CompleteFrameStep DEF ChunkFailed, CompleteFrame, CompleteInv
<1>6. CASE SendComplete(r)
  <2>1. Plan(r)' = Plan(r)
    BY <1>6 DEF SendComplete, Plan
  <2>2. completeAt[r] = "none" /\ reply[r] = "none"
    BY <1>6 DEF SendComplete, CompleteInv, StartInv
  <2>3. CompleteOf(r)'
    BY <1>6, <2>1, <2>2 DEF SendComplete, CompleteInv, CompleteOf
  <2>4. \A s \in Runs \ {r} : CompleteOf(s)'
    BY <1>6, CompleteOther, CompleteInvIsPerRun DEF SendComplete
  <2> QED
    BY <2>3, <2>4 DEF CompleteInv, CompleteOf
<1>7. CASE SyncSucceeded(r)
  <2>1. Plan(r)' = Plan(r)
    BY <1>7 DEF SyncSucceeded, Plan
  <2>2. CompleteOf(r)'
    BY <1>7, <2>1 DEF SyncSucceeded, CompleteInv, CompleteOf
  <2>3. \A s \in Runs \ {r} : CompleteOf(s)'
    BY <1>7, CompleteOther, CompleteInvIsPerRun DEF SyncSucceeded
  <2> QED
    BY <2>2, <2>3 DEF CompleteInv, CompleteOf
<1>8. CASE SyncFailed(r)
  BY <1>8, CompleteFrameStep DEF SyncFailed, CompleteFrame, CompleteInv
<1> QED
  BY <1>1, <1>2, <1>3, <1>4, <1>5, <1>6, <1>7, <1>8 DEF Client

LEMMA CompleteInvStart ==
    ASSUME TypeInv, StartInv, CompleteInv, NEW r \in Runs, StartHandler(r)
    PROVE  CompleteInv'
<1> USE DEF TypeInv, TypeOK, clientVars, memoryVars, tableVars, resultVars
<1>1. Untouched(r) /\ Plan(r)' = Plan(r)
  BY DEF StartHandler, StartSession, CreateSession, StartInv, Plan
<1>2. CASE StartSession(r)
  <2>1. CompleteOf(r)'
    BY <1>1, <1>2 DEF StartSession, Untouched, CompleteInv, CompleteOf
  <2>2. \A s \in Runs \ {r} : CompleteOf(s)'
    BY <1>2, CompleteOther, CompleteInvIsPerRun DEF StartSession
  <2> QED
    BY <2>1, <2>2 DEF CompleteInv, CompleteOf
<1>3. CASE CreateSession(r)
  <2>1. CompleteOf(r)'
    BY <1>1, <1>3 DEF CreateSession, Answer, Untouched, CompleteInv, CompleteOf
  <2>2. \A s \in Runs \ {r} : CompleteOf(s)'
    BY <1>3, CompleteOther, CompleteInvIsPerRun DEF CreateSession, Answer
  <2> QED
    BY <2>1, <2>2 DEF CompleteInv, CompleteOf
<1> QED
  BY <1>2, <1>3 DEF StartHandler

(* What build_session_data assembles is the whole plan.                    *)
LEMMA BufferedIsPlan ==
    ASSUME TypeInv, ChunkInv, NEW r \in Runs, r \in live,
           Plan(r) \subseteq acked[r]
    PROVE  Buffered(r) = Plan(r)
<1>1. Plan(r) \subseteq Buffered(r)
  BY DEF ChunkInv, AckedInv, Held
<1>2. ASSUME NEW c \in Buffered(r) PROVE c \in Plan(r)
  <2>1. c \in Chunks /\ c[1] \in Types /\ c[2] \in 0 .. MaxChunks - 1
    BY <1>2 DEF Buffered, Chunks
  <2>2. c[2] \in 0 .. buffer[r][c[1]].total - 1
    BY <1>2, <2>1 DEF Buffered, ChunkInv, BufferInv
  <2>3. buffer[r][c[1]].total \in {0, total[r][c[1]]}
    BY <2>1 DEF ChunkInv, BufferInv
  <2>4. total[r][c[1]] \in Nat
    BY <2>1, SyncSessionAssumption DEF TypeInv, TypeOK
  <2>5. c[2] < total[r][c[1]]
    BY <2>2, <2>3, <2>4
  <2> QED
    BY <2>1, <2>5 DEF Plan
<1> QED
  BY <1>1, <1>2

LEMMA CompleteInvHandler ==
    ASSUME TypeInv, ChunkInv, CompleteInv, NEW r \in Runs,
           CompleteHandler(r) \/ LoseComplete(r)
    PROVE  CompleteInv'
<1> USE DEF TypeInv, TypeOK, clientVars, memoryVars, tableVars, resultVars
<1>1. \A s \in Runs \ {r} : CompleteOf(s)'
  BY CompleteOther, CompleteInvIsPerRun
  DEF CompleteHandler, CheckComplete, BuildSessionData, ProcessDataSync,
      FinishSession, CompleteSession, LoseComplete, EndComplete,
      AnswerComplete, Answer
<1>2. Plan(r)' = Plan(r)
  BY DEF CompleteHandler, CheckComplete, BuildSessionData, ProcessDataSync,
         FinishSession, CompleteSession, LoseComplete, Plan
<1>3. CompleteOf(r)
  BY CompleteInvIsPerRun
<1> SUFFICES CompleteOf(r)'
  BY <1>1 DEF CompleteInv, CompleteOf
<1>4. CASE CheckComplete(r)
  BY <1>2, <1>3, <1>4 DEF CheckComplete, EndComplete, AnswerComplete, Answer,
                          CompleteOf
<1>5. CASE BuildSessionData(r)
  <2>1. CASE BuildPossible(r)
    <3>1. Buffered(r) = Plan(r)
      BY <1>3, <1>5, <2>1, BufferedIsPlan
      DEF BuildSessionData, BuildPossible, CompleteOf
    <3>2. built' = [built EXCEPT ![r] = Plan(r)]
      BY <1>5, <2>1, <3>1 DEF BuildSessionData
    <3> QED
      BY <1>2, <1>3, <1>5, <2>1, <3>2 DEF BuildSessionData, CompleteOf
  <2>2. CASE ~BuildPossible(r)
    BY <1>2, <1>3, <1>5, <2>2 DEF BuildSessionData, EndComplete,
                                  AnswerComplete, Answer, CompleteOf
  <2> QED
    BY <2>1, <2>2
<1>6. CASE ProcessDataSync(r)
  BY <1>2, <1>3, <1>6 DEF ProcessDataSync, EndComplete, AnswerComplete, Answer,
                          CompleteOf
<1>7. CASE FinishSession(r)
  BY <1>2, <1>3, <1>7 DEF FinishSession, CompleteOf
<1>8. CASE CompleteSession(r)
  BY <1>2, <1>3, <1>8 DEF CompleteSession, EndComplete, AnswerComplete, Answer,
                          CompleteOf
<1>9. CASE LoseComplete(r)
  BY <1>2, <1>3, <1>9 DEF LoseComplete, CompleteOf
<1> QED
  BY <1>4, <1>5, <1>6, <1>7, <1>8, <1>9 DEF CompleteHandler

LEMMA CompleteInvRest ==
    ASSUME TypeInv, CompleteInv,
           \/ \E q \in chunkReqs : ChunkHandler(q) \/ LoseChunk(q)
           \/ \E r \in Runs : LoseStart(r) \/ Expire(r)
           \/ Restart
    PROVE  CompleteInv'
<1> USE DEF TypeInv, TypeOK, clientVars, requestVars, memoryVars, tableVars,
            resultVars
<1>1. ASSUME NEW q \in chunkReqs, ChunkHandler(q) \/ LoseChunk(q)
      PROVE  CompleteInv'
  <2>1. q.run \in Runs
    BY DEF ChunkReq
  <2>2. UNCHANGED <<total, acked, pc, completeAt, built, commits, processed, db,
                    live>>
    BY <1>1 DEF ChunkHandler, CheckChunk, AddChunk, UpsertChunk, LoseChunk
  <2>3. reply' = reply \/ \E x \in Reply : Answer(q.run, Awaited(q), x)
    BY <1>1 DEF ChunkHandler, CheckChunk, AddChunk, UpsertChunk, LoseChunk,
                Finish, Reply
  <2>4. \A s \in Runs : reply'[s] = reply[s] \/ pc[s] = "awaiting"
    BY <2>1, <2>3 DEF Answer, Awaited
  <2>5. CompleteFrame
    BY <2>2, <2>4 DEF CompleteFrame, CompleteInv
  <2> QED
    BY <2>5, CompleteFrameStep
<1>2. ASSUME NEW r \in Runs, LoseStart(r) \/ Expire(r) PROVE CompleteInv'
  BY <1>2, CompleteFrameStep DEF LoseStart, Expire, CompleteFrame, CompleteInv
<1>3. CASE Restart
  <2>1. \A r \in Runs : Plan(r)' = Plan(r)
    BY <1>3 DEF Restart, Plan
  <2> QED
    BY <1>3, <2>1 DEF Restart, CompleteInv
<1> QED
  BY <1>1, <1>2, <1>3
-----------------------------------------------------------------------------
(* The inductive invariant, and the safety properties that follow.         *)

LEMMA SessionInit == Init => SessionInv
  BY SyncSessionAssumption
  DEF Init, SessionInv, AttemptInv, StartInv, Untouched, ChunkInv, BufferInv,
      AckedInv, RequestInv, ReplyInv, CompleteInv, EmptySession

LEMMA SessionStep ==
    ASSUME TypeOK, SessionInv, [Next]_vars
    PROVE  SessionInv'
<1>0. TypeInv /\ StartInv /\ ChunkInv /\ CompleteInv
  BY DEF TypeInv, SessionInv
<1>1. AttemptInv'
  <2>1. CASE UNCHANGED vars
    BY <1>0, <2>1 DEF vars, clientVars, TypeInv, AttemptInv
  <2> QED
    BY <1>0, <2>1, TypeClient, TypeServer, TypeChunkHandler, TypeEnvironment
    DEF Next, TypeInv
<1>2. StartInv'
  BY <1>0, StartInvStep
<1>3. ChunkInv'
  <2>1. CASE UNCHANGED vars
    BY <1>0, <2>1, ChunkFrameStep
    DEF vars, clientVars, requestVars, memoryVars, tableVars, ChunkFrame
  <2> QED
    BY <1>0, <2>1, ChunkInvClient, ChunkInvServer, ChunkInvChunkHandler,
       ChunkInvEnvironment DEF Next
<1>4. CompleteInv'
  <2>1. CASE UNCHANGED vars
    BY <1>0, <2>1, CompleteFrameStep
    DEF vars, clientVars, requestVars, memoryVars, tableVars, resultVars,
        CompleteFrame, CompleteInv
  <2> QED
    BY <1>0, <2>1, CompleteInvClient, CompleteInvStart, CompleteInvHandler,
       CompleteInvRest DEF Next, Stop
<1> QED
  BY <1>1, <1>2, <1>3, <1>4 DEF SessionInv

(* The chain from a chunk's acknowledgement to what is committed holds in  *)
(* every reachable state.                                                  *)
THEOREM SessionCorrect == Spec => []SessionInv
<1>1. TypeInv => TypeOK
  BY DEF TypeInv
<1>2. TypeOK /\ SessionInv /\ [Next]_vars => SessionInv'
  BY SessionStep
<1> QED
  BY <1>1, <1>2, SessionInit, TypeInvariant, PTL DEF Spec

(* What process_data_sync commits is the client's whole upload.            *)
THEOREM WholeUpload == Spec => []WholeUploadProcessed
<1>1. SessionInv => WholeUploadProcessed
  BY DEF SessionInv, CompleteInv, WholeUploadProcessed
<1> QED
  BY <1>1, SessionCorrect, PTL

(* A session is processed at most once, and before success is reported.    *)
THEOREM NeverTwice == Spec => []ProcessedOnce
<1>1. SessionInv => ProcessedOnce
  BY DEF SessionInv, CompleteInv, ProcessedOnce
<1> QED
  BY <1>1, SessionCorrect, PTL

(* What the client was told is received is not lost while it matters.      *)
THEOREM AckedKept == Spec => []AckedChunkIsKept
<1>1. SessionInv => AckedChunkIsKept
  BY DEF SessionInv, ChunkInv, AckedInv, Held, AckedChunkIsKept
<1> QED
  BY <1>1, SessionCorrect, PTL

(* A completed session is not brought back by a straggling chunk.          *)
THEOREM CompletedGone == Spec => []CompletedSessionIsGone
<1>1. SessionInv => CompletedSessionIsGone
  BY DEF SessionInv, CompleteInv, CompletedSessionIsGone
<1> QED
  BY <1>1, SessionCorrect, PTL
-----------------------------------------------------------------------------
(* Refinement.                                                             *)

(* The refinement mapping: what Upload's told is made of.                  *)
Verdict(p) ==
    IF p = "done" THEN "ok" ELSE IF p = "failed" THEN "failed" ELSE "pending"

offeredBar  == [r \in Runs |-> Plan(r)]
takenBar    == {r \in Runs : commits[r] > 0}
contentsBar == [r \in Runs |-> processed[r]]
toldBar     == [r \in Runs |-> Verdict(pc[r])]

LEMMA UploadVars ==
    UNCHANGED <<offeredBar, takenBar, contentsBar, toldBar>> =>
        UNCHANGED Upload!vars
  BY DEF Upload!vars, offeredBar, takenBar, contentsBar, toldBar, Verdict

LEMMA UploadInit == Init => Upload!Init
<1> SUFFICES ASSUME Init PROVE Upload!Init
  OBVIOUS
<1>1. \A r \in Runs : Plan(r) = {}
  <2> SUFFICES ASSUME NEW r \in Runs, NEW c \in Chunks, c[2] < total[r][c[1]]
               PROVE  FALSE
    BY DEF Plan
  <2>1. c[1] \in Types /\ c[2] \in 0 .. MaxChunks - 1
    BY DEF Chunks
  <2> QED
    BY <2>1 DEF Init
<1> QED
  BY <1>1 DEF Init, Upload!Init

(* A step that changes neither totals nor results nor a verdict stutters.  *)
LEMMA UploadStutter ==
    ASSUME UNCHANGED <<total, commits, processed>>,
           \A r \in Runs : Verdict(pc'[r]) = Verdict(pc[r])
    PROVE  UNCHANGED Upload!vars
<1>1. \A r \in Runs : Plan(r)' = Plan(r)
  BY DEF Plan
<1>2. toldBar' = toldBar
  BY DEF toldBar
<1>3. offeredBar' = offeredBar
  BY <1>1 DEF offeredBar
<1>4. takenBar' = takenBar /\ contentsBar' = contentsBar
  BY DEF takenBar, contentsBar
<1> QED
  BY <1>2, <1>3, <1>4, UploadVars

(* A step in which one run's verdict becomes "failed".                     *)
LEMMA UploadFails ==
    ASSUME TypeOK, NEW r \in Runs, UNCHANGED <<total, commits, processed>>,
           pc' = [pc EXCEPT ![r] = "failed"], pc[r] \notin {"done", "failed"}
    PROVE  Upload!ReportFailure(r)
<1>1. \A s \in Runs : Plan(s)' = Plan(s)
  BY DEF Plan
<1> QED
  BY <1>1 DEF TypeOK, Upload!ReportFailure

LEMMA UploadClient ==
    ASSUME TypeOK, SessionInv, NEW r \in Runs, Client(r)
    PROVE  [Upload!Next]_(Upload!vars)
<1> USE DEF TypeOK, clientVars, requestVars, memoryVars, tableVars, resultVars
<1>1. CASE Collect(r)
  <2>1. PICK n \in [Types -> 0 .. MaxChunks] : total' = [total EXCEPT ![r] = n]
    BY <1>1 DEF Collect
  <2>2. total[r] = [t \in Types |-> 0] /\ commits[r] = 0
    BY <1>1 DEF Collect, SessionInv, StartInv, Untouched
  <2>3. Plan(r) = {}
    <3> SUFFICES ASSUME NEW c \in Chunks, c[2] < total[r][c[1]] PROVE FALSE
      BY DEF Plan
    <3>1. c[1] \in Types /\ c[2] \in 0 .. MaxChunks - 1
      BY DEF Chunks
    <3> QED
      BY <2>2, <3>1
  <2>4. Plan(r)' \in SUBSET Chunks /\ \A s \in Runs \ {r} : Plan(s)' = Plan(s)
    BY <2>1 DEF Plan
  <2>5. offeredBar' = [offeredBar EXCEPT ![r] = Plan(r)']
    BY <2>4 DEF offeredBar
  <2>6. pc' = [pc EXCEPT ![r] = "sending"] /\ pc[r] = "starting"
        /\ UNCHANGED <<commits, processed>>
    BY <1>1 DEF Collect
  <2>7. toldBar' = toldBar /\ takenBar' = takenBar /\ contentsBar' = contentsBar
    BY <2>6 DEF toldBar, takenBar, contentsBar, Verdict
  <2>8. offeredBar[r] = {} /\ r \notin takenBar /\ toldBar[r] = "pending"
    BY <2>2, <2>3, <2>6 DEF offeredBar, takenBar, toldBar, Verdict
  <2>9. Upload!Offer(r)
    BY <2>4, <2>5, <2>7, <2>8
    DEF Upload!Offer, offeredBar, takenBar, contentsBar, toldBar, Verdict
  <2> QED
    BY <2>9 DEF Upload!Next
<1>2. CASE SyncSucceeded(r)
  <2>1. commits[r] = 1 /\ \A s \in Runs : Plan(s)' = Plan(s)
    BY <1>2 DEF SyncSucceeded, SessionInv, CompleteInv, Plan
  <2>2. offeredBar' = offeredBar /\ takenBar' = takenBar
        /\ contentsBar' = contentsBar /\ r \in takenBar
    BY <1>2, <2>1 DEF SyncSucceeded, offeredBar, takenBar, contentsBar
  <2>3. toldBar[r] = "pending" /\ toldBar' = [toldBar EXCEPT ![r] = "ok"]
    BY <1>2 DEF SyncSucceeded, toldBar, Verdict
  <2>4. Upload!ReportSuccess(r)
    BY <2>2, <2>3 DEF Upload!ReportSuccess, offeredBar, takenBar, contentsBar,
                      toldBar, Verdict
  <2> QED
    BY <2>4 DEF Upload!Next
<1>3. CASE SyncFailed(r)
  <2>1. Upload!ReportFailure(r)
    BY <1>3, UploadFails DEF SyncFailed
  <2> QED
    BY <2>1 DEF Upload!Next
<1>4. CASE ChunkFailed(r)
  <2>1. CASE attempt[r] + 1 >= MaxRetries
    <3>1. Upload!ReportFailure(r)
      BY <1>4, <2>1, UploadFails DEF ChunkFailed
    <3> QED
      BY <3>1 DEF Upload!Next
  <2>2. CASE ~(attempt[r] + 1 >= MaxRetries)
    BY <1>4, <2>2, UploadStutter DEF ChunkFailed, Verdict
  <2> QED
    BY <2>1, <2>2
<1>5. CASE SendStart(r) \/ SendChunk(r) \/ ChunkAcknowledged(r) \/ SendComplete(r)
  BY <1>5, UploadStutter
  DEF SendStart, SendChunk, ChunkAcknowledged, SendComplete, Verdict
<1> QED
  BY <1>1, <1>2, <1>3, <1>4, <1>5 DEF Client

LEMMA UploadServer ==
    ASSUME TypeOK, SessionInv, NEW r \in Runs, CompleteHandler(r)
    PROVE  [Upload!Next]_(Upload!vars)
<1> USE DEF clientVars, memoryVars, tableVars, resultVars
<1>0. UNCHANGED <<pc, total>>
  BY DEF CompleteHandler, CheckComplete, BuildSessionData, ProcessDataSync,
         FinishSession, CompleteSession
<1>1. CASE UNCHANGED <<commits, processed>>
  BY <1>0, <1>1, UploadStutter
<1>2. CASE /\ completeAt[r] = "built"
           /\ commits' = [commits EXCEPT ![r] = @ + 1]
           /\ processed' = [processed EXCEPT ![r] = built[r]]
  <2>1. commits[r] = 0 /\ built[r] = Plan(r)
    BY <1>2 DEF SessionInv, CompleteInv
  <2>2. \A s \in Runs : Plan(s)' = Plan(s)
    BY <1>0 DEF Plan
  <2>3. takenBar' = takenBar \cup {r}
    BY <1>2, <2>1 DEF TypeOK, takenBar
  <2>4. contentsBar' = [contentsBar EXCEPT ![r] = Plan(r)]
    BY <1>2, <2>1 DEF TypeOK, contentsBar
  <2>5. offeredBar' = offeredBar /\ toldBar' = toldBar
    BY <1>0, <2>2 DEF offeredBar, toldBar
  <2>6. r \notin takenBar /\ offeredBar[r] = Plan(r)
    BY <2>1 DEF takenBar, offeredBar
  <2>7. Upload!Take(r)
    BY <2>3, <2>4, <2>5, <2>6
    DEF Upload!Take, offeredBar, takenBar, contentsBar, toldBar, Verdict
  <2> QED
    BY <2>7 DEF Upload!Next
<1> QED
  BY <1>1, <1>2 DEF CompleteHandler, CheckComplete, BuildSessionData,
                    ProcessDataSync, FinishSession, CompleteSession

LEMMA UploadStep ==
    ASSUME TypeOK, SessionInv, [Next]_vars
    PROVE  [Upload!Next]_(Upload!vars)
<1> USE DEF clientVars, requestVars, memoryVars, tableVars, resultVars
<1>1. ASSUME UNCHANGED <<pc, total, commits, processed>>
      PROVE  [Upload!Next]_(Upload!vars)
  BY <1>1, UploadStutter
<1>2. CASE UNCHANGED vars
  BY <1>1, <1>2 DEF vars
<1>3. ASSUME NEW r \in Runs, StartHandler(r) \/ Stop(r)
      PROVE  [Upload!Next]_(Upload!vars)
  BY <1>1, <1>3 DEF StartHandler, StartSession, CreateSession, Stop, LoseStart,
                    LoseComplete, Expire
<1>4. ASSUME NEW q \in chunkReqs, ChunkHandler(q) \/ LoseChunk(q)
      PROVE  [Upload!Next]_(Upload!vars)
  BY <1>1, <1>4 DEF ChunkHandler, CheckChunk, AddChunk, UpsertChunk, LoseChunk
<1>5. CASE Restart
  BY <1>1, <1>5 DEF Restart
<1> QED
  BY <1>2, <1>3, <1>4, <1>5, UploadClient, UploadServer DEF Next

(* The chunked upload implements the atomic one.                           *)
THEOREM Refinement == Spec => UploadIsAtomic
<1>1. TypeInv => TypeOK
  BY DEF TypeInv
<1>2. TypeOK /\ SessionInv /\ [Next]_vars => [Upload!Next]_(Upload!vars)
  BY UploadStep
<1> QED
  BY <1>1, <1>2, UploadInit, TypeInvariant, SessionCorrect, PTL
  DEF Spec, UploadIsAtomic, Upload!Spec

-----------------------------------------------------------------------------
(* Nothing fails by itself: the specification with the record of troubles. *)

(* A run no fault has touched: it has had no bad answer, its session is in *)
(* memory and in its row until it is completed, and it waits for the only  *)
(* chunk request it has under way.                                         *)
Undisturbed(r) ==
    /\ pc[r] # "failed" /\ reply[r] # "err" /\ r \notin expired
    /\ \A q \in chunkReqs : q.run = r => pc[r] = "awaiting" /\ reply[r] = "none"
    /\ \A p, q \in chunkReqs : p.run = r /\ q.run = r => p = q
    /\ startAt[r] \in {"opened", "over"} /\ completeAt[r] \notin {"finished", "over"} => r \in live
    /\ startAt[r] = "over" /\ completeAt[r] # "over" => db[r] = "active"

CauseInv == troubled \/ \A r \in Runs : Undisturbed(r)

LEMMA CauseInit == Init => \A r \in Runs : Undisturbed(r)
  BY DEF Init, Undisturbed

LEMMA CauseClient ==
    ASSUME TypeInv, SessionInv, NEW r \in Runs, Client(r), ~Trouble,
           \A s \in Runs : Undisturbed(s)
    PROVE  \A s \in Runs : Undisturbed(s)'
<1> USE DEF TypeInv, TypeOK, Undisturbed, requestVars, memoryVars, tableVars
<1>0. SUFFICES ASSUME NEW s \in Runs PROVE Undisturbed(s)'
  OBVIOUS
<1>1. CASE SendStart(r)
  BY <1>1 DEF SendStart
<1>2. CASE Collect(r)
  BY <1>2 DEF Collect
<1>3. CASE SendChunk(r)
  <2>1. PICK c \in Chunks :
          chunkReqs' = chunkReqs \cup
              {[run |-> r, chunk |-> c, attempt |-> attempt[r], at |-> "sent"]}
    BY <1>3 DEF SendChunk
  <2>2. \A q \in chunkReqs : q.run # r
    BY <1>3 DEF SendChunk
  <2>3. reply[r] = "none"
    BY <1>3 DEF SendChunk, SessionInv, StartInv
  <2> QED
    BY <1>3, <2>1, <2>2, <2>3 DEF SendChunk
<1>4. CASE ChunkAcknowledged(r)
  BY <1>4 DEF ChunkAcknowledged
<1>5. ~ChunkFailed(r) /\ ~SyncFailed(r)
  BY DEF Trouble, TimesOut
<1>6. CASE SendComplete(r)
  <2>1. completeAt[r] = "none"
    BY <1>6 DEF SendComplete, SessionInv, CompleteInv
  <2> QED
    BY <1>6, <2>1 DEF SendComplete
<1>7. CASE SyncSucceeded(r)
  BY <1>7 DEF SyncSucceeded
<1> QED
  BY <1>1, <1>2, <1>3, <1>4, <1>5, <1>6, <1>7 DEF Client

LEMMA CauseStart ==
    ASSUME TypeInv, SessionInv, NEW r \in Runs, StartHandler(r), ~Trouble,
           \A s \in Runs : Undisturbed(s)
    PROVE  \A s \in Runs : Undisturbed(s)'
<1> USE DEF TypeInv, TypeOK, Undisturbed, clientVars, memoryVars, tableVars
<1>0. SUFFICES ASSUME NEW s \in Runs PROVE Undisturbed(s)'
  OBVIOUS
<1>1. CASE StartSession(r)
  BY <1>1 DEF StartSession
<1>2. CASE CreateSession(r)
  <2>1. db' # db
    BY <1>2 DEF Trouble
  <2>2. \A q \in chunkReqs : q.run # r
    BY <1>2 DEF CreateSession, SessionInv, StartInv, Untouched
  <2> QED
    BY <1>2, <2>1, <2>2 DEF CreateSession, Answer
<1> QED
  BY <1>1, <1>2 DEF StartHandler

(* A chunk request that nothing disturbed finds its session and is taken.  *)
LEMMA ChunkIsTaken ==
    ASSUME TypeInv, SessionInv, NEW q \in chunkReqs, Undisturbed(q.run)
    PROVE  SessionActive(q.run) /\ ChunkAccepted(q)
<1> USE DEF TypeInv, TypeOK, Undisturbed
<1>1. /\ q.run \in Runs /\ pc[q.run] = "awaiting" /\ q.chunk \in Plan(q.run)
      /\ q.chunk[1] \in Types /\ q.chunk[2] \in Nat
  BY SyncSessionAssumption DEF ChunkReq, SessionInv, ChunkInv, RequestInv, Chunks
<1>2. startAt[q.run] = "over" /\ completeAt[q.run] = "none"
  BY <1>1 DEF SessionInv, StartInv, CompleteInv
<1> QED
  BY <1>1, <1>2 DEF SessionActive, ChunkAccepted, Plan, SessionInv, ChunkInv, BufferInv

LEMMA CauseChunk ==
    ASSUME TypeInv, SessionInv, NEW q \in chunkReqs, ChunkHandler(q), ~Trouble,
           \A s \in Runs : Undisturbed(s)
    PROVE  \A s \in Runs : Undisturbed(s)'
<1> USE DEF TypeInv, TypeOK, clientVars, memoryVars, tableVars
<1>0. SUFFICES ASSUME NEW s \in Runs PROVE Undisturbed(s)'
  OBVIOUS
<1>1. q.run \in Runs /\ SessionActive(q.run) /\ ChunkAccepted(q)
  BY ChunkIsTaken DEF ChunkReq
<1>2. ASSUME NEW stage, Advance(q, stage),
             UNCHANGED <<pc, reply, live, startAt, completeAt, db, expired>>
      PROVE  Undisturbed(s)'
  <2>1. [q EXCEPT !.at = stage].run = q.run
    BY DEF ChunkReq
  <2>2. \A p \in chunkReqs' : \E o \in chunkReqs : o.run = p.run
    BY <1>2, <2>1 DEF Advance
  <2>3. \A p, o \in chunkReqs' : p.run = o.run => p = o
    BY <1>1, <1>2, <2>1 DEF Advance, Undisturbed, ChunkReq
  <2>4. Undisturbed(s)
    OBVIOUS
  <2>5. ASSUME NEW p \in chunkReqs', p.run = s
        PROVE  pc'[s] = "awaiting" /\ reply'[s] = "none"
    <3>1. PICK o \in chunkReqs : o.run = s
      BY <2>2, <2>5
    <3> QED
      BY <1>2, <2>4, <3>1 DEF Undisturbed
  <2> QED
    BY <1>2, <2>3, <2>4, <2>5 DEF Undisturbed
<1>3. CASE CheckChunk(q)
  BY <1>1, <1>2, <1>3 DEF CheckChunk
<1>4. CASE AddChunk(q)
  BY <1>1, <1>2, <1>4 DEF AddChunk
<1>5. CASE UpsertChunk(q)
  <2>1. dbChunks' # dbChunks
    BY <1>5 DEF Trouble
  <2>2. Finish(q, "ok")
    BY <1>5, <2>1 DEF UpsertChunk
  <2>3. \A p \in chunkReqs' : p.run # q.run
    BY <1>1, <2>2 DEF Finish, Undisturbed
  <2> QED
    BY <1>1, <1>5, <2>2, <2>3 DEF UpsertChunk, Finish, Answer, Undisturbed
<1> QED
  BY <1>3, <1>4, <1>5 DEF ChunkHandler

LEMMA CauseComplete ==
    ASSUME TypeInv, SessionInv, NEW r \in Runs, CompleteHandler(r), ~Trouble,
           \A s \in Runs : Undisturbed(s)
    PROVE  \A s \in Runs : Undisturbed(s)'
<1> USE DEF TypeInv, TypeOK, clientVars, memoryVars, tableVars, resultVars
<1>0. SUFFICES ASSUME NEW s \in Runs PROVE Undisturbed(s)'
  OBVIOUS
<1>1. Undisturbed(r) /\ Undisturbed(s)
  OBVIOUS
<1>2. /\ completeAt[r] # "none"
      /\ Plan(r) \subseteq acked[r]
      /\ pc[r] \in {"completing", "done", "failed"}
      /\ startAt[r] = "over"
  BY DEF CompleteHandler, CheckComplete, BuildSessionData, ProcessDataSync, FinishSession,
         CompleteSession, SessionInv, StartInv, Untouched, CompleteInv
<1>3. CASE CheckComplete(r)
  <2>1. SessionActive(r)
    BY <1>1, <1>2, <1>3 DEF CheckComplete, Undisturbed, SessionActive
  <2> QED
    BY <1>1, <1>2, <1>3, <2>1 DEF CheckComplete, Undisturbed
<1>4. CASE BuildSessionData(r)
  <2>1. r \in live
    BY <1>1, <1>2, <1>4 DEF BuildSessionData, Undisturbed
  <2>2. Buffered(r) = Plan(r)
    BY <1>2, <2>1, BufferedIsPlan DEF SessionInv
  <2>3. ASSUME NEW t \in Types, buffer[r][t].total # 0
        PROVE  buffer[r][t].got = 0 .. buffer[r][t].total - 1
    <3>1. /\ buffer[r][t].total = total[r][t]
          /\ buffer[r][t].got \subseteq 0 .. buffer[r][t].total - 1
      BY <2>3 DEF SessionInv, ChunkInv, BufferInv
    <3>2. total[r][t] \in 0 .. MaxChunks
      OBVIOUS
    <3>3. ASSUME NEW i \in 0 .. total[r][t] - 1 PROVE i \in buffer[r][t].got
      <4>1. <<t, i>> \in Chunks /\ i < total[r][t]
        BY <3>2, <3>3, SyncSessionAssumption DEF Chunks
      <4>2. <<t, i>> \in Buffered(r)
        BY <2>2, <4>1 DEF Plan
      <4> QED
        BY <4>2 DEF Buffered
    <3> QED
      BY <3>1, <3>3
  <2>4. BuildPossible(r)
    BY <2>1, <2>3 DEF BuildPossible
  <2> QED
    BY <1>1, <1>2, <1>4, <2>4 DEF BuildSessionData, Undisturbed
<1>5. CASE ProcessDataSync(r)
  <2>1. commits' # commits
    BY <1>5 DEF Trouble
  <2> QED
    BY <1>1, <1>2, <1>5, <2>1 DEF ProcessDataSync, Undisturbed
<1>6. CASE FinishSession(r)
  BY <1>1, <1>2, <1>6 DEF FinishSession, Undisturbed
<1>7. CASE CompleteSession(r)
  BY <1>1, <1>2, <1>7 DEF CompleteSession, EndComplete, AnswerComplete, Answer, Undisturbed
<1> QED
  BY <1>3, <1>4, <1>5, <1>6, <1>7 DEF CompleteHandler

LEMMA CauseStep ==
    ASSUME TypeInv, SessionInv, [Next]_vars, ~Trouble,
           \A s \in Runs : Undisturbed(s)
    PROVE  \A s \in Runs : Undisturbed(s)'
<1>1. CASE UNCHANGED vars
  BY <1>1 DEF vars, clientVars, requestVars, memoryVars, tableVars, Undisturbed
<1>2. ASSUME NEW r \in Runs PROVE ~Stop(r)
  BY DEF Trouble
<1>3. ASSUME NEW q \in chunkReqs PROVE ~LoseChunk(q)
  BY DEF Trouble
<1>4. ~Restart
  BY DEF Trouble
<1> QED
  BY <1>1, <1>2, <1>3, <1>4, CauseClient, CauseStart, CauseChunk, CauseComplete DEF Next

(* A sync fails only when the network, the database, the clock or the      *)
(* server did: whatever data types are empty and however many chunks there *)
(* are, the handlers never refuse what sendDataInChunks sends.             *)
THEOREM FailsWithCause == LiveSpec => []FailsOnlyWithCause
<1>1. LiveSpec => Spec
  <2>1. [Next /\ troubled' = (troubled \/ Trouble)]_<<vars, troubled>> => [Next]_vars
    OBVIOUS
  <2> QED
    BY <2>1, PTL DEF LiveSpec, Spec
<1>2. troubled = FALSE /\ Init => CauseInv
  BY CauseInit DEF CauseInv
<1>3. /\ TypeInv /\ SessionInv /\ CauseInv
      /\ [Next /\ troubled' = (troubled \/ Trouble)]_<<vars, troubled>>
      => CauseInv'
  <2> SUFFICES ASSUME TypeInv, SessionInv, CauseInv,
                      [Next /\ troubled' = (troubled \/ Trouble)]_<<vars, troubled>>
               PROVE  CauseInv'
    OBVIOUS
  <2>1. [Next]_vars
    OBVIOUS
  <2>2. CASE UNCHANGED <<vars, troubled>>
    BY <2>2 DEF vars, clientVars, requestVars, memoryVars, tableVars, CauseInv, Undisturbed
  <2>3. CASE troubled' = (troubled \/ Trouble)
    <3>1. CASE troubled \/ Trouble
      BY <2>3, <3>1 DEF CauseInv
    <3>2. CASE ~troubled /\ ~Trouble
      <4>1. \A s \in Runs : Undisturbed(s)'
        BY <2>1, <3>2, CauseStep DEF CauseInv
      <4> QED
        BY <4>1 DEF CauseInv
    <3> QED
      BY <3>1, <3>2
  <2> QED
    BY <2>2, <2>3
<1>4. CauseInv => FailsOnlyWithCause
  BY DEF CauseInv, Undisturbed, FailsOnlyWithCause
<1> QED
  BY <1>1, <1>2, <1>3, <1>4, TypeInvariant, SessionCorrect, PTL DEF LiveSpec
=============================================================================
