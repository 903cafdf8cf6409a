---------------------------- MODULE MCSyncTables ----------------------------
(* The tables of a synchronisation, with their symmetries.  Groups and     *)
(* sites are bound to each other, the engines to neither: a behaviour is   *)
(* one of groups and sites or one of engines, and the others stay as they  *)
(* are at first.                                                           *)
EXTENDS SyncTables, TLC

CONSTANTS Engines, MaxName, MaxChanges

VARIABLES part, engines, missed, newer, result, gone, clashed, changes

OfEngines == INSTANCE SyncEngines

engineVars == <<engines, missed, newer, result, gone, clashed, changes>>

TablesInit ==
    /\ part \in {"groups and sites", "engines"}
    /\ Init
    /\ OfEngines!Init

TablesNext ==
    /\ UNCHANGED part
    /\ \/ part = "groups and sites" /\ Next /\ UNCHANGED engineVars
       \/ part = "engines" /\ OfEngines!Next /\ UNCHANGED vars

TablesSpec == TablesInit /\ [][TablesNext]_<<part, vars, engineVars>>

(* A sync of engines fails only where a name or the default passes from    *)
(* one engine to another, and a device that has synchronised has the       *)
(* server's engines, but for those it deleted (SyncEngines).               *)
EnginesHold ==
    /\ OfEngines!TypeOK
    /\ OfEngines!EnginesGoThrough
    /\ OfEngines!SyncedEnginesAgree

Symmetry == Permutations(Groups) \cup Permutations(Sites)
            \cup Permutations(Names) \cup Permutations(Devices)
            \cup Permutations(Engines)
=============================================================================
