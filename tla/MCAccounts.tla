----------------------------- MODULE MCAccounts -----------------------------
(* Accounts with interchangeable tabs and requests.                        *)
EXTENDS Accounts, TLC

Alike == Permutations(Tabs) \cup Permutations(Slots)

(* Rows that are one account's: names differ whatever is looked up when,    *)
(* one account administers unless two initialisations overlapped, and of a *)
(* deleted one nothing is left unless its deletion failed half way or a    *)
(* token that outlived it wrote again.                                     *)
AccountsAreSound ==
    /\ TypeOK
    /\ NamesAreUnique
    /\ OneAdministrator
    /\ DeletedLeaveNothing

(* What is told is so: whoever exists, is shut or gone had it done by an   *)
(* act in the audit, the administrator at rest sees the table, and the     *)
(* password a user was told of last opens the account - but for acts that  *)
(* failed or overlapped.                                                   *)
ActsAreTold ==
    /\ EveryActIsAudited
    /\ ListIsTheTable
    /\ ToldPasswordHolds
=============================================================================
