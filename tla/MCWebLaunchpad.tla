--------------------------- MODULE MCWebLaunchpad ---------------------------
(* Instances of WebLaunchpad: tabs and groups are interchangeable.         *)
EXTENDS WebLaunchpad, TLC

AnyTabAnyGroup == Permutations(Tabs) \cup Permutations(Groups)

(* Locks hold on both sides: a locked group can be opened with a password, *)
(* the page has nothing of it from the lock until it is unlocked, and a    *)
(* sorting can be finished or undone whatever lock, search, failure or     *)
(* folding gets into it - but for handlers that overtook each other.       *)
LocksHold ==
    /\ TypeOK
    /\ LockedGroupsHaveAPassword
    /\ LockedGroupsAreEmpty
    /\ SortingCanBeFinished
=============================================================================
