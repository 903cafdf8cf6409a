--------------------------- MODULE MCSyncSession ---------------------------
(* SyncSession with a record of whether anything has gone wrong so far.    *)
EXTENDS SyncSession

VARIABLE troubled   \* has a fault happened?

(* The client gives up on an answer that has not come.                     *)
TimesOut(r) == reply[r] # "err" /\ (ChunkFailed(r) \/ SyncFailed(r))

(* A step in which the network, the database, the clock or the server      *)
(* fails.  A repeated chunk's row is there already: only a first one that  *)
(* leaves no row has failed.                                               *)
Trouble ==
    \/ \E r \in Runs :
          \/ Stop(r)
          \/ TimesOut(r)
          \/ CreateSession(r) /\ UNCHANGED db
          \/ ProcessDataSync(r) /\ UNCHANGED commits
    \/ \E q \in chunkReqs :
          \/ LoseChunk(q)
          \/ UpsertChunk(q) /\ UNCHANGED dbChunks
    \/ Restart

LiveSpec ==
    /\ troubled = FALSE /\ Init
    /\ [][Next /\ troubled' = (troubled \/ Trouble)]_<<vars, troubled>>
    /\ Fairness

(* A sync only fails when something went wrong: whichever data types are   *)
(* empty and however many chunks there are, the protocol by itself never   *)
(* refuses what the client sends.                                          *)
FailsOnlyWithCause == \A r \in Runs : pc[r] = "failed" => troubled
=============================================================================
