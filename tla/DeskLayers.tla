------------------------------ MODULE DeskLayers ------------------------------
(***************************************************************************)
(* What lies on the launchpad of the desktop client and who may touch it:  *)
(* the menu of a card, the page's own dialogs, the alerts and questions of *)
(* the modal context, the card of the user and an open list of a form.     *)
(* A press of the mouse closes the card and the list, a click closes the   *)
(* menu unless it lands in a dialog, which keeps its clicks to itself, and *)
(* Escape is one listener of the window.  A load unmounts the page but not *)
(* what it remembers: its menu and its form come back with it.             *)
(*                                                                         *)
(* Each site stands for its section too: a section is folded and sorted as *)
(* a whole.  The menu lies above every dialog, the title bar above all.    *)
(***************************************************************************)
EXTENDS Naturals

CONSTANTS
    Sites,      \* uuids of websites
    Found,      \* those the term that is searched for finds
    NoSite,     \* the null of contextMenu and editingItem
    MaxAlerts,  \* bound: alerts at a time
    MaxEvents   \* bound: acts of the user and changes from elsewhere

VARIABLES
    kept,    \* SUBSET Sites            the sites of the database
    page,    \* [rows, loading]         what was read of them
    term,    \* BOOLEAN                 is something searched for?
    held,    \* [folded, sorting]       sections that show no cards to open
    menu,    \* Sites or NoSite         contextMenu
    over,    \* the page's own dialog: isNavConfigModalOpen, isItemModalOpen, ...
    edited,  \* Sites or NoSite         editingItem, NoSite for a new one
    modals,  \* [alerts, confirm, account]  the modal context
    popup,   \* [card, select]          isCardOpen, isOpen
    focus,   \* where the keys go
    calls,   \* SUBSET Call             handlers that wait
    loose,   \* BOOLEAN                 history: the page changed under its menu
             \*                         or its form, or was about to
    acts     \* acts so far

vars == <<kept, page, term, held, menu, over, edited, modals, popup, focus,
          calls, loose, acts>>

Call == [op: {"open", "delete", "save"}, site: Sites \cup {NoSite}]

NoModals == [alerts |-> 0, confirm |-> NoSite, account |-> FALSE]

Init ==
    /\ kept = Sites
    /\ page = [rows |-> Sites, loading |-> FALSE]
    /\ term = FALSE
    /\ held = [folded |-> {}, sorting |-> {}]
    /\ menu = NoSite /\ over = "nothing" /\ edited = NoSite
    /\ modals = NoModals
    /\ popup = [card |-> FALSE, select |-> FALSE]
    /\ focus = "page"
    /\ calls = {}
    /\ loose = FALSE
    /\ acts = 0

(* filteredAndGroupedData and the sections that are not folded.            *)
Shown == (IF term THEN page.rows \cap Found ELSE page.rows) \ held.folded

HasOpenModal == modals # NoModals
AtPage == ~page.loading /\ over = "nothing" /\ ~HasOpenModal

Acts == acts < MaxEvents /\ acts' = acts + 1

-----------------------------------------------------------------------------
(* The mouse                                                               *)

(* The listeners of mousedown: what the press is not inside of closes.     *)
Outside(on) == [card |-> popup.card /\ on = "card", select |-> popup.select /\ on = "select"]

FocusAfter(on) == IF on = "search" THEN on ELSE "page"

Presses(on) ==
    /\ Acts
    /\ popup' = Outside(on)
    /\ focus' = FocusAfter(on)

(* handleClickOutside, and the dialog that stops the click.                *)
MenuAfterClick_Stays(on) == menu
MenuAfterClick(on) == IF on = "dialog" THEN menu ELSE NoSite

Clicks(on) == Presses(on) /\ menu' = MenuAfterClick(on)

Remembered == <<kept, page, term, held, menu, over, edited, modals, calls, loose>>

(* handleContextMenu: a press of the other button is no click.             *)
OpenMenu(s) ==
    /\ AtPage
    /\ s \in Shown \ held.sorting
    /\ Presses("page")
    /\ menu' = s
    /\ loose' = \E c \in calls : c.op # "open"
    /\ UNCHANGED <<kept, page, term, held, over, edited, modals, calls>>

(* onEdit or onDelete, then onClose.                                       *)
MenuAfterChoice == NoSite

ChooseEdit ==
    /\ menu # NoSite /\ ~page.loading
    /\ Presses("page")
    /\ over' = "form" /\ edited' = menu
    /\ menu' = MenuAfterChoice
    /\ UNCHANGED <<kept, page, term, held, modals, calls, loose>>

ChooseDelete ==
    /\ menu # NoSite /\ ~page.loading
    /\ modals.confirm = NoSite
    /\ Presses("page")
    /\ modals' = [modals EXCEPT !.confirm = menu]
    /\ menu' = MenuAfterChoice
    /\ UNCHANGED <<kept, page, term, held, over, edited, calls, loose>>

ClickPage(on) ==
    /\ AtPage
    /\ on \in {"page", "search"}
    /\ Clicks(on)
    /\ UNCHANGED <<kept, page, term, held, over, edited, modals, calls, loose>>

ClearSearch ==
    /\ AtPage /\ term
    /\ Clicks("page")
    /\ term' = FALSE
    /\ UNCHANGED <<kept, page, held, over, edited, modals, calls, loose>>

(* A card that is being sorted takes no click.                             *)
ClickCard(s) ==
    /\ AtPage
    /\ s \in Shown
    /\ Clicks("page")
    /\ calls' = IF s \in held.sorting THEN calls ELSE calls \cup {[op |-> "open", site |-> s]}
    /\ UNCHANGED <<kept, page, term, held, over, edited, modals, loose>>

Toggled(S, s) == IF s \in S THEN S \ {s} ELSE S \cup {s}

ToggleSorting(s) ==
    /\ AtPage
    /\ s \in page.rows
    /\ Clicks("page")
    /\ held' = [held EXCEPT !.sorting = Toggled(@, s)]
    /\ UNCHANGED <<kept, page, term, over, edited, modals, calls, loose>>

ToggleCollapsed(s) ==
    /\ AtPage
    /\ s \in page.rows
    /\ Clicks("page")
    /\ held' = [folded |-> Toggled(held.folded, s), sorting |-> held.sorting \ {s}]
    /\ UNCHANGED <<kept, page, term, over, edited, modals, calls, loose>>

OpenDialog(d) ==
    /\ AtPage
    /\ d \in {"config", "engines", "form"}
    /\ Clicks("page")
    /\ over' = d
    /\ edited' = IF d = "form" THEN NoSite ELSE edited
    /\ UNCHANGED <<kept, page, term, held, modals, calls, loose>>

(* A click in the dialog that lies on top of the others.                   *)
InDialog(on) == ~page.loading /\ over # "nothing" /\ ~HasOpenModal /\ Clicks(on)

CloseDialog ==
    /\ InDialog("dialog")
    /\ over' = "nothing"
    /\ UNCHANGED <<kept, page, term, held, edited, modals, calls, loose>>

(* A click on the list, or on one of its options.                           *)
ToggleSelect ==
    /\ ~page.loading /\ over = "form" /\ ~HasOpenModal
    /\ Acts
    /\ popup' = [card |-> FALSE, select |-> ~popup.select]
    /\ focus' = "page"
    /\ UNCHANGED Remembered

(* handleSubmit: what is invalid is told, and the form stays.              *)
HandleSubmit(valid) ==
    /\ over = "form"
    /\ InDialog("dialog")
    /\ IF valid
       THEN /\ over' = "nothing"
            /\ calls' = calls \cup {[op |-> "save", site |-> edited]}
            /\ UNCHANGED modals
       ELSE /\ modals.alerts < MaxAlerts
            /\ modals' = [modals EXCEPT !.alerts = @ + 1]
            /\ UNCHANGED <<over, calls>>
    /\ UNCHANGED <<kept, page, term, held, edited, loose>>

(* An alert lies above a question; a click beside either takes it away,    *)
(* and reaches the window.                                                 *)
DismissAlert(on) ==
    /\ modals.alerts > 0
    /\ on \in {"dialog", "page"}
    /\ Clicks(on)
    /\ modals' = [modals EXCEPT !.alerts = @ - 1]
    /\ UNCHANGED <<kept, page, term, held, over, edited, calls, loose>>

AnswerConfirm(yes, on) ==
    /\ modals.confirm # NoSite /\ modals.alerts = 0 /\ ~modals.account
    /\ on = "dialog" \/ (on = "page" /\ ~yes)
    /\ Clicks(on)
    /\ modals' = [modals EXCEPT !.confirm = NoSite]
    /\ calls' = IF yes THEN calls \cup {[op |-> "delete", site |-> modals.confirm]} ELSE calls
    /\ UNCHANGED <<kept, page, term, held, over, edited, loose>>

(* The icon in the title bar, over every dialog; and what its card opens.  *)
ToggleCard ==
    /\ Acts
    /\ popup' = [card |-> ~popup.card, select |-> FALSE]
    /\ menu' = MenuAfterClick("card")
    /\ focus' = "page"
    /\ UNCHANGED <<kept, page, term, held, over, edited, modals, calls, loose>>

OpenAccount ==
    /\ popup.card
    /\ Acts
    /\ popup' = [popup EXCEPT !.card = FALSE]
    /\ menu' = MenuAfterClick("card")
    /\ modals' = [modals EXCEPT !.account = TRUE]
    /\ focus' = "page"
    /\ UNCHANGED <<kept, page, term, held, over, edited, calls, loose>>

CloseAccount ==
    /\ modals.account /\ modals.alerts = 0
    /\ Clicks("dialog")
    /\ modals' = [modals EXCEPT !.account = FALSE]
    /\ UNCHANGED <<kept, page, term, held, over, edited, calls, loose>>

-----------------------------------------------------------------------------
(* The keys                                                                *)

(* Tabbing reaches the search under a dialog, too.                         *)
Tab(on) ==
    /\ Acts
    /\ on \in {"page", "search", "field"}
    /\ on = "search" => ~page.loading
    /\ on = "field" => over # "nothing" \/ modals.account
    /\ focus' = on
    /\ UNCHANGED <<Remembered, popup>>

Type ==
    /\ focus = "search" /\ ~page.loading
    /\ Acts
    /\ term' = TRUE
    /\ loose' = (loose \/ menu # NoSite)
    /\ UNCHANGED <<kept, page, held, menu, over, edited, modals, popup, focus, calls>>

(* handleGlobalEscape: the menu goes first, and covered the search stays.  *)
Covered == over # "nothing" \/ HasOpenModal \/ focus = "field"

Escape ==
    /\ Acts
    /\ menu' = NoSite
    /\ term' = (term /\ (menu # NoSite \/ Covered))
    /\ UNCHANGED <<kept, page, held, over, edited, modals, popup, focus, calls, loose>>

-----------------------------------------------------------------------------
(* What comes back                                                         *)

(* loadData: the page is unmounted, and with it the list and the sorting.  *)
BeginsLoad ==
    /\ page' = [page EXCEPT !.loading = TRUE]
    /\ popup' = [popup EXCEPT !.select = FALSE]
    /\ held' = [held EXCEPT !.sorting = {}]
    /\ focus' = "page"
    /\ UNCHANGED <<term, menu, over, edited, modals>>

Loaded ==
    /\ page.loading
    /\ page' = [rows |-> kept, loading |-> FALSE]
    /\ UNCHANGED <<kept, term, held, menu, over, edited, modals, popup, focus, calls, loose, acts>>

DeleteItem(c) ==
    /\ c.op = "delete"
    /\ kept' = kept \ {c.site}
    /\ calls' = calls \ {c}
    /\ BeginsLoad
    /\ UNCHANGED <<loose, acts>>

SaveItem(c) ==
    /\ c.op = "save"
    /\ calls' = calls \ {c}
    /\ BeginsLoad
    /\ UNCHANGED <<kept, loose, acts>>

(* handleCardClick: a link that cannot be opened is told.                  *)
LinkOpened(c, fails) ==
    /\ c.op = "open"
    /\ calls' = calls \ {c}
    /\ IF fails
       THEN modals.alerts < MaxAlerts /\ modals' = [modals EXCEPT !.alerts = @ + 1]
       ELSE UNCHANGED modals
    /\ UNCHANGED <<kept, page, term, held, menu, over, edited, popup, focus, loose, acts>>

(* A statement that fails is not told.                                     *)
CallFails(c) ==
    /\ c.op # "open"
    /\ calls' = calls \ {c}
    /\ UNCHANGED <<kept, page, term, held, menu, over, edited, modals, popup, focus, loose, acts>>

(* A sync or a claim ends, or another account becomes active.              *)
DataChanges(S) ==
    /\ Acts
    /\ S # {}
    /\ kept' = S
    /\ BeginsLoad
    /\ loose' = (loose \/ menu # NoSite \/ over = "form")
    /\ UNCHANGED calls

Next ==
    \/ ChooseEdit \/ ChooseDelete \/ ClearSearch \/ CloseDialog \/ ToggleSelect
    \/ ToggleCard \/ OpenAccount \/ CloseAccount \/ Type \/ Escape \/ Loaded
    \/ \E s \in Sites : OpenMenu(s) \/ ClickCard(s) \/ ToggleSorting(s) \/ ToggleCollapsed(s)
    \/ \E on \in {"page", "search", "dialog", "field"} : ClickPage(on) \/ DismissAlert(on) \/ Tab(on)
    \/ \E d \in {"config", "engines", "form"} : OpenDialog(d)
    \/ \E b \in BOOLEAN : HandleSubmit(b) \/ (\E on \in {"page", "dialog"} : AnswerConfirm(b, on))
    \/ \E c \in calls : DeleteItem(c) \/ SaveItem(c) \/ CallFails(c) \/ (\E b \in BOOLEAN : LinkOpened(c, b))
    \/ \E S \in SUBSET Sites : DataChanges(S)

-----------------------------------------------------------------------------
TypeOK ==
    /\ kept \subseteq Sites
    /\ page \in [rows: SUBSET Sites, loading: BOOLEAN]
    /\ term \in BOOLEAN /\ loose \in BOOLEAN
    /\ held \in [folded: SUBSET Sites, sorting: SUBSET Sites]
    /\ menu \in Sites \cup {NoSite} /\ edited \in Sites \cup {NoSite}
    /\ over \in {"nothing", "config", "engines", "form"}
    /\ modals \in [alerts: 0..MaxAlerts, confirm: Sites \cup {NoSite}, account: BOOLEAN]
    /\ popup \in [card: BOOLEAN, select: BOOLEAN]
    /\ focus \in {"page", "search", "field"}
    /\ calls \subseteq Call
    /\ acts \in 0..MaxEvents

(* The menu acts on a card that is on the page, is not folded away and is  *)
(* not being sorted, unless the page changed under it.                     *)
MenuIsOfACard ==
    menu # NoSite /\ ~page.loading /\ ~loose => menu \in Shown \ held.sorting

(* The form edits a site that is still kept, unless the page changed under *)
(* it: a save would otherwise write into a deleted row.                    *)
FormIsOfASite ==
    over = "form" /\ edited # NoSite /\ ~loose => edited \in kept

(* The menu, the card and the list are never open two at a time, and no    *)
(* dialog of the page opens under the menu.                                *)
OneAtATime ==
    /\ menu # NoSite => ~popup.card /\ ~popup.select /\ over = "nothing"
    /\ ~(popup.card /\ popup.select)

(* The search keeps its term under a dialog, an alert or a question, and   *)
(* under a menu that goes first; only keys typed into it get through.      *)
SearchStaysUnderDialogs ==
    [][term' # term /\ focus # "search" => over = "nothing" /\ ~HasOpenModal]_vars
=============================================================================
