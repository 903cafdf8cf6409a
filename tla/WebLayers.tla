------------------------------ MODULE WebLayers ------------------------------
(***************************************************************************)
(* What lies over the launchpad of the web page - the menu of a site, the  *)
(* menu of the search engines, the form of a site, the control center -    *)
(* and the Escape key, which listeners at the form, the document and the   *)
(* window hear in that order, each after the page was drawn for the one    *)
(* before it.                                                              *)
(***************************************************************************)
EXTENDS Naturals, FiniteSets

CONSTANT MaxEvents   \* bound: acts of the user

VARIABLES
    layers,   \* SUBSET Layers   what is open
    saving,   \* BOOLEAN         savingSite
    term,     \* BOOLEAN         searchTerm is not empty
    focus,    \* "search" | "field" | "none"   document.activeElement
    events    \* Nat

vars == <<layers, saving, term, focus, events>>

Layers  == {"menu", "engines", "form", "center"}
Dialogs == {"form", "center"}   \* role="dialog" aria-modal="true"

Init ==
    /\ layers = {} /\ saving = FALSE /\ term = FALSE /\ focus = "none" /\ events = 0

Event == events < MaxEvents /\ events' = events + 1

(* What the listeners on the window leave open after a press of the mouse  *)
(* and a click elsewhere; a key that clicks presses no mouse.              *)
AfterMouse == layers \ {"menu", "engines"}
AfterKey   == layers \ {"menu"}
Uncovered  == layers \cap Dialogs = {}

HandleContextMenu ==
    /\ Event
    /\ Uncovered
    /\ layers' = (layers \ {"engines"}) \cup {"menu"}
    /\ UNCHANGED <<saving, term, focus>>

ToggleEngines ==
    /\ Event
    /\ Uncovered
    /\ layers' = IF "engines" \in layers THEN AfterKey \ {"engines"} ELSE AfterKey \cup {"engines"}
    /\ UNCHANGED <<saving, term, focus>>

(* A dialog over the page, opened with the mouse or with the keyboard.     *)
OpenDialog(d, left) ==
    /\ Event
    /\ Uncovered
    /\ layers' = left \cup {d}
    /\ focus' = IF d = "form" THEN "field" ELSE "none"
    /\ UNCHANGED <<saving, term>>

CloseDialog(d) ==
    /\ Event
    /\ d \in layers /\ ~saving
    /\ layers' = layers \ {d}
    /\ focus' = "none"
    /\ UNCHANGED <<saving, term>>

TypeTerm ==
    /\ Event
    /\ Uncovered
    /\ term' = TRUE /\ focus' = "search"
    /\ layers' = AfterMouse
    /\ UNCHANGED saving

SubmitForm ==
    /\ Event
    /\ "form" \in layers /\ ~saving /\ saving' = TRUE
    /\ UNCHANGED <<layers, term, focus>>

(* A save that succeeds closes the form and the menu.                      *)
SaveArrives(ok) ==
    /\ saving /\ saving' = FALSE
    /\ layers' = IF ok THEN layers \ {"form", "menu"} ELSE layers
    /\ focus' = IF ok THEN "none" ELSE focus
    /\ UNCHANGED <<term, events>>

(* The form prevents the default of an Escape it closes on.  The center    *)
(* hears it at the document.  The window listeners were set up before the  *)
(* key was pressed: the menus', and the global one, which looks at the     *)
(* page as it is by then.                                                  *)
Prevented == "form" \in layers /\ ~saving /\ focus = "field"
Drawn == layers \ ((IF Prevented THEN {"form"} ELSE {}) \cup {"center"})

HandleGlobalEscape_Menus ==
    /\ ~Prevented
    /\ Drawn \cap Dialogs = {}
    /\ focus \in {"search", "none"}

HandleGlobalEscape ==
    /\ ~Prevented
    /\ layers \cap {"menu", "engines"} = {}
    /\ Drawn \cap Dialogs = {}
    /\ focus \in {"search", "none"}

Escape ==
    /\ Event
    /\ layers' = Drawn \ {"menu", "engines"}
    /\ focus' = IF layers' \cap Dialogs # layers \cap Dialogs THEN "none" ELSE focus
    /\ term' = (term /\ ~HandleGlobalEscape)
    /\ UNCHANGED saving

(* Focus wanders: Tab stays inside the form, a click on bare ground leaves *)
(* every field.                                                            *)
MoveFocus(f) ==
    /\ Event
    /\ f \in (IF "form" \in layers THEN {"field", "none"} ELSE {"search", "field", "none"})
    /\ focus' = f
    /\ UNCHANGED <<layers, saving, term>>

Next ==
    \/ HandleContextMenu \/ ToggleEngines \/ TypeTerm \/ SubmitForm \/ Escape
    \/ \E d \in Dialogs : CloseDialog(d) \/ OpenDialog(d, AfterMouse) \/ OpenDialog(d, AfterKey)
    \/ \E ok \in BOOLEAN : SaveArrives(ok)
    \/ \E f \in {"search", "field", "none"} : MoveFocus(f)

Spec == Init /\ [][Next]_vars

-----------------------------------------------------------------------------
(* Types: one dialog at a time among the rest.                             *)
TypeOK ==
    /\ layers \subseteq Layers /\ ~(Dialogs \subseteq layers)
    /\ {saving, term} \subseteq BOOLEAN
    /\ focus \in {"search", "field", "none"}
    /\ events \in 0..MaxEvents

(* An Escape that something on the page is open for leaves the search      *)
(* alone ("avoid modifying the search state of the covered page"), as long *)
(* as that is not the control center, which is gone when the global        *)
(* listener looks for a dialog.                                            *)
SparesTheSearch ==
    (Escape /\ layers \cap {"menu", "engines", "form"} # {}) => term' = term

(* A form that is being saved stays until it is answered.                  *)
SavingFormStays ==
    saving => "form" \in layers
==============================================================================
