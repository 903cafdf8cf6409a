------------------------------- MODULE AppMenus -------------------------------
(***************************************************************************)
(* The menus of the desktop client.  In the window a submenu opens by a    *)
(* click, and from then on by hovering, until the menus are left.  On      *)
(* macOS the menu of the system bears the name of the active account and   *)
(* the words of the language: it is built anew, piece by piece, whenever   *)
(* one of them changes.                                                    *)
(***************************************************************************)
EXTENDS Naturals, FiniteSets

CONSTANTS
    Folders,   \* entries of the menu bar that have a submenu
    Leaves,    \* entries that have none
    Labels,    \* names and words a menu can bear
    MaxEvents  \* bound: changes of the label, failures

VARIABLES
    bar,     \* [open, hover, last]          Menus
    label,   \* Labels                       what the system's menu should bear
    builds,  \* SUBSET Build                 applyMenu, under way
    native,  \* Labels \cup {None}           the menu that is set
    failed,  \* BOOLEAN  history: a build failed since the label changed
    events   \* Nat

vars == <<bar, label, builds, native, failed, events>>

None  == 0
Build == [label : Labels, cancelled : BOOLEAN, at : Nat]
Event == events < MaxEvents /\ events' = events + 1

Closed == [open |-> None, hover |-> FALSE, last |-> None]

Init ==
    /\ bar = Closed
    /\ label \in Labels /\ native = None
    /\ builds = {[label |-> label, cancelled |-> FALSE, at |-> 0]}
    /\ failed = FALSE /\ events = 0

-----------------------------------------------------------------------------
(* The bar of the window                                                   *)

OfBar == UNCHANGED <<label, builds, native, failed, events>>

CloseAllSubmenus == Closed

HandleMenuItemClick(i) ==
    /\ bar' = IF i \in Leaves \/ bar.open = i THEN CloseAllSubmenus
              ELSE [open |-> i, hover |-> TRUE, last |-> i]
    /\ OfBar

HandleMouseEnter(i) ==
    /\ bar.hover
    /\ bar' = IF i \in Folders THEN [bar EXCEPT !.open = i, !.last = i]
              ELSE [bar EXCEPT !.open = bar.last]
    /\ OfBar

(* An entry of the open submenu, or a click elsewhere.                     *)
LeaveMenus ==
    /\ bar.hover
    /\ bar' = CloseAllSubmenus
    /\ OfBar

-----------------------------------------------------------------------------
(* The menu of the system                                                  *)

(* Another account or language: the cleanup cancels, the effect begins.    *)
LabelChanges(l) ==
    /\ l # label
    /\ Event
    /\ label' = l
    /\ builds' = {[b EXCEPT !.cancelled = TRUE] : b \in builds}
                 \cup {[label |-> l, cancelled |-> FALSE, at |-> events']}
    /\ failed' = FALSE
    /\ UNCHANGED <<bar, native>>

(* Everything has been built.  Cancelled, the menu is dropped; otherwise   *)
(* it is set in place of the one before.                                   *)
Discards(b) == b.cancelled

ApplyMenu(b) ==
    /\ builds' = builds \ {b}
    /\ native' = IF Discards(b) THEN native ELSE b.label
    /\ UNCHANGED <<bar, label, failed, events>>

(* A piece cannot be made: the error is logged, what was made is left.     *)
BuildFails(b) ==
    /\ Event
    /\ builds' = builds \ {b}
    /\ failed' = (failed \/ ~b.cancelled)
    /\ UNCHANGED <<bar, label, native>>

-----------------------------------------------------------------------------
(* The specification                                                       *)

Next ==
    \/ LeaveMenus
    \/ \E i \in Folders \cup Leaves : HandleMenuItemClick(i) \/ HandleMouseEnter(i)
    \/ \E l \in Labels : LabelChanges(l)
    \/ \E b \in builds : ApplyMenu(b) \/ BuildFails(b)

Spec == Init /\ [][Next]_vars

-----------------------------------------------------------------------------
(* Properties                                                              *)

(* Every variable has its type; only folders have a submenu to open.       *)
TypeOK ==
    /\ bar.open \in Folders \cup {None} /\ bar.last \in Folders \cup {None}
    /\ bar.hover \in BOOLEAN
    /\ label \in Labels /\ native \in Labels \cup {None}
    /\ builds \subseteq Build /\ failed \in BOOLEAN

(* Hovering opens submenus only between a click and leaving the menus, and *)
(* then exactly one is open.                                               *)
OneSubmenuWhileHovering ==
    bar.hover <=> (bar.open # None /\ bar.last = bar.open)

(* Once everything has been built, however the builds overtook each other, *)
(* the menu of the system bears the current name and language, unless the  *)
(* last build failed.                                                      *)
MenuIsCurrent == (builds = {} /\ ~failed) => native = label
=============================================================================
