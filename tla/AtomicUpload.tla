---------------------------- MODULE AtomicUpload ----------------------------
(***************************************************************************)
(* What a synchronisation promises about the upload it makes, whatever the *)
(* chunks, retries, time-outs and restarts in between: the server takes    *)
(* the whole of what a run offers, once, or nothing of it; and a run that  *)
(* is told "ok" was taken.  A run that is told "failed" knows nothing: its *)
(* upload may have been taken, or may still be.                            *)
(***************************************************************************)
CONSTANTS
    Runs,    \* the synchronisations devices ever start
    Items    \* what a run may offer

VARIABLES
    offered,   \* [Runs -> SUBSET Items]  what the run collected to send
    taken,     \* SUBSET Runs             uploads the server has processed
    contents,  \* [Runs -> SUBSET Items]  what the server processed
    told       \* [Runs -> Verdict]       what the run reported to its user

vars == <<offered, taken, contents, told>>

Verdict == {"pending", "ok", "failed"}

Init ==
    /\ offered = [r \in Runs |-> {}]
    /\ taken = {}
    /\ contents = [r \in Runs |-> {}]
    /\ told = [r \in Runs |-> "pending"]

Offer(r) ==
    /\ told[r] = "pending"
    /\ r \notin taken
    /\ offered[r] = {}
    /\ \E items \in SUBSET Items : offered' = [offered EXCEPT ![r] = items]
    /\ UNCHANGED <<taken, contents, told>>

Take(r) ==
    /\ r \notin taken
    /\ taken' = taken \cup {r}
    /\ contents' = [contents EXCEPT ![r] = offered[r]]
    /\ UNCHANGED <<offered, told>>

ReportSuccess(r) ==
    /\ told[r] = "pending"
    /\ r \in taken
    /\ told' = [told EXCEPT ![r] = "ok"]
    /\ UNCHANGED <<offered, taken, contents>>

ReportFailure(r) ==
    /\ told[r] = "pending"
    /\ told' = [told EXCEPT ![r] = "failed"]
    /\ UNCHANGED <<offered, taken, contents>>

Next ==
    \E r \in Runs :
        Offer(r) \/ Take(r) \/ ReportSuccess(r) \/ ReportFailure(r)

Spec == Init /\ [][Next]_vars
=============================================================================
