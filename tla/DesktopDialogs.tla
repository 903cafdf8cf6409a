---------------------------- MODULE DesktopDialogs ----------------------------
(***************************************************************************)
(* The dialogs of the desktop client and the page that updates it.  A      *)
(* dialog is opened over the others, replaces one of the same key, and     *)
(* closes itself; the update page also closes whichever is on top.  A      *)
(* check and a download go on when the page is left, and a download when   *)
(* it is cancelled: its events open dialogs wherever the user is by then.  *)
(***************************************************************************)
EXTENDS Naturals, Sequences, SequencesExt

CONSTANTS
    MaxDialogs,  \* bound: dialogs over one another
    MaxEvents    \* bound: acts of the user

VARIABLES
    modals,    \* Seq(Dialog)                        modals
    page,      \* [open, checking, downloading]      CheckUpdatePage
    checks,    \* SUBSET [mine]                      calls of check that wait
    downloads, \* SUBSET [id, mine, cancelled]       downloads under way
    under,     \* BOOLEAN  history: a button under a dialog that asks was pressed, by keyboard
    loose,     \* BOOLEAN  history: the alert of a check was dismissed or covered
    swept,     \* BOOLEAN  history: somebody else's dialog was closed
    haunted,   \* BOOLEAN  history: a download was heard of that was cancelled or lost its page
    events     \* Nat

vars == <<modals, page, checks, downloads, under, loose, swept, haunted, events>>

-----------------------------------------------------------------------------
(* The stack of dialogs                                                    *)

Keyed   == {"settings", "profile", "login", "progress"}
Alerts  == {"checking", "latest", "failed", "cancelled"}
Dialog  == [kind : Keyed \cup Alerts \cup {"found", "finished"}, mine : BOOLEAN]

Kinds(s) == {d.kind : d \in Range(s)}

(* openModal: a dialog of the same key is replaced where it lies.          *)
Opened(s, d) ==
    IF d.kind \in Keyed /\ d.kind \in Kinds(s)
    THEN [i \in DOMAIN s |-> IF s[i].kind = d.kind THEN d ELSE s[i]]
    ELSE Append(s, d)

(* closeModal without an id.                                               *)
Popped(s) == IF s = <<>> THEN s ELSE Front(s)

(* What closing the top would take from somebody else.                     *)
Sweeps(s, own) == s # <<>> /\ Last(s).kind # own

Closed(s, i) == RemoveAt(s, i)

(* A button is in the dialog on top, unless the keyboard reached a lower.  *)
Pressed(i) == under' = (under \/ i # Len(modals))

Room  == Len(modals) < MaxDialogs
Event == events < MaxEvents /\ events' = events + 1

Fresh(open) == [open |-> open, checking |-> FALSE, downloading |-> FALSE]

Init ==
    /\ modals = <<>> /\ page = Fresh(TRUE) /\ checks = {} /\ downloads = {}
    /\ under = FALSE /\ loose = FALSE /\ swept = FALSE /\ haunted = FALSE
    /\ events = 0

-----------------------------------------------------------------------------
(* The menus and the account card                                          *)

(* From the menu of the window or of the system, over whatever is open.    *)
OpenFromMenu(k) ==
    /\ k \in {"settings", "profile"}
    /\ Room /\ Event
    /\ modals' = Opened(modals, [kind |-> k, mine |-> TRUE])
    /\ loose' = (loose \/ checks # {})
    /\ UNCHANGED <<page, checks, downloads, under, swept, haunted>>

(* The card closes and opens the login dialog.                             *)
OpenLogin(i) ==
    /\ modals[i].kind = "profile"
    /\ Event
    /\ modals' = Opened(Closed(modals, i), [kind |-> "login", mine |-> TRUE])
    /\ Pressed(i)
    /\ UNCHANGED <<page, checks, downloads, loose, swept, haunted>>

Left(p) == Fresh(~p.open)

(* Another path: every dialog goes; what runs no longer has a page.        *)
Navigate ==
    /\ Event
    /\ modals' = <<>>
    /\ page' = Left(page)
    /\ checks' = {[c EXCEPT !.mine = FALSE] : c \in checks}
    /\ downloads' = {[d EXCEPT !.mine = FALSE] : d \in downloads}
    /\ loose' = (loose \/ checks # {})
    /\ UNCHANGED <<under, swept, haunted>>

-----------------------------------------------------------------------------
(* Checking                                                                *)

Busy == page.checking \/ page.downloading

CheckUpdate ==
    /\ page.open /\ ~Busy
    /\ Room /\ Event
    /\ checks' = checks \cup {[mine |-> TRUE]}
    /\ page' = [page EXCEPT !.checking = TRUE]
    /\ modals' = Opened(modals, [kind |-> "checking", mine |-> TRUE])
    /\ under' = (under \/ "found" \in Kinds(modals))
    /\ UNCHANGED <<downloads, loose, swept, haunted>>

(* An answer closes what is on top, its own alert if that is still there.  *)
CheckAnswers(c, k) ==
    /\ k \in {"found", "latest", "failed"}
    /\ checks' = checks \ {c}
    /\ modals' = Opened(Popped(modals), [kind |-> k, mine |-> c.mine])
    /\ page' = IF c.mine THEN [page EXCEPT !.checking = FALSE] ELSE page
    /\ swept' = (swept \/ Sweeps(modals, "checking"))
    /\ UNCHANGED <<downloads, under, loose, haunted, events>>

-----------------------------------------------------------------------------
(* Downloading                                                             *)

(* The dialog of the progress is there before the first event.             *)
Prepared(s, mine) == Opened(s, [kind |-> "progress", mine |-> mine])

StartDownload(i) ==
    /\ modals[i].kind = "found"
    /\ Event
    /\ \A d \in downloads : d.id # events
    /\ downloads' = downloads \cup {[id |-> events, mine |-> modals[i].mine, cancelled |-> FALSE]}
    /\ page' = IF modals[i].mine THEN [page EXCEPT !.downloading = TRUE] ELSE page
    /\ modals' = Prepared(Closed(modals, i), modals[i].mine)
    /\ Pressed(i)
    /\ haunted' = (haunted \/ ~modals[i].mine)
    /\ UNCHANGED <<checks, loose, swept>>

Heard(d) == haunted' = (haunted \/ d.cancelled \/ ~d.mine)

(* onProgress opens the dialog again if it is gone.                        *)
Progress(d) ==
    /\ "progress" \in Kinds(modals) \/ Room
    /\ modals' = Opened(modals, [kind |-> "progress", mine |-> d.mine])
    /\ Heard(d)
    /\ UNCHANGED <<page, checks, downloads, under, loose, swept, events>>

CleanupDownload_Kept(mine) == page
CleanupDownload(mine) == IF mine THEN [page EXCEPT !.downloading = FALSE] ELSE page

(* Finished or failed; the dialog of its progress stays below.             *)
DownloadEnds(d, k) ==
    /\ k \in {"finished", "failed"}
    /\ Room
    /\ downloads' = downloads \ {d}
    /\ page' = CleanupDownload(d.mine)
    /\ modals' = Opened(modals, [kind |-> k, mine |-> d.mine])
    /\ Heard(d)
    /\ UNCHANGED <<checks, under, loose, swept, events>>

(* There is nothing to stop a download with: it is only forgotten.         *)
CancelDownload(i) ==
    /\ modals[i].kind = "progress"
    /\ Event
    /\ page' = CleanupDownload(modals[i].mine)
    /\ downloads' = {IF d.mine = modals[i].mine THEN [d EXCEPT !.cancelled = TRUE] ELSE d : d \in downloads}
    /\ modals' = Opened(Closed(modals, i), [kind |-> "cancelled", mine |-> modals[i].mine])
    /\ Pressed(i)
    /\ UNCHANGED <<checks, loose, swept, haunted>>

(* Confirmed: the top is closed, then the dialog itself.  The application  *)
(* starts again, or installing has failed.                                 *)
InstallAndRelaunch(i) ==
    /\ modals[i].kind = "finished"
    /\ Event
    /\ \/ /\ modals' = <<>> /\ page' = Fresh(FALSE) /\ checks' = {} /\ downloads' = {}
          /\ UNCHANGED <<under, loose, swept, haunted>>
       \/ /\ LET rest == IF i = Len(modals) THEN Popped(modals) ELSE Closed(Popped(modals), i)
             IN modals' = Opened(rest, [kind |-> "failed", mine |-> modals[i].mine])
          /\ swept' = (swept \/ Sweeps(modals, "finished"))
          /\ Pressed(i)
          /\ UNCHANGED <<page, checks, downloads, loose, haunted>>

(* The button of an alert, or "later".                                     *)
Dismiss(i) ==
    /\ modals[i].kind # "progress"
    /\ Event
    /\ modals' = Closed(modals, i)
    /\ loose' = (loose \/ modals[i].kind = "checking")
    /\ Pressed(i)
    /\ UNCHANGED <<page, checks, downloads, swept, haunted>>

-----------------------------------------------------------------------------
(* The specification                                                       *)

Next ==
    \/ Navigate \/ CheckUpdate
    \/ \E k \in {"settings", "profile"} : OpenFromMenu(k)
    \/ \E i \in DOMAIN modals :
        OpenLogin(i) \/ StartDownload(i) \/ CancelDownload(i) \/ InstallAndRelaunch(i) \/ Dismiss(i)
    \/ \E c \in checks : \E k \in {"found", "latest", "failed"} : CheckAnswers(c, k)
    \/ \E d \in downloads : Progress(d) \/ \E k \in {"finished", "failed"} : DownloadEnds(d, k)

Spec == Init /\ [][Next]_vars

-----------------------------------------------------------------------------
(* Properties                                                              *)

(* Every variable has its type; a page that is left has nothing running.  *)
TypeOK ==
    /\ modals \in Seq(Dialog) /\ Len(modals) <= MaxDialogs
    /\ page \in [open : BOOLEAN, checking : BOOLEAN, downloading : BOOLEAN]
    /\ ~page.open => ~page.checking /\ ~page.downloading
    /\ checks \subseteq [mine : BOOLEAN]
    /\ downloads \subseteq [id : Nat, mine : BOOLEAN, cancelled : BOOLEAN]

(* Two dialogs of one key are never open at once.                          *)
OneDialogPerKey ==
    \A i, j \in DOMAIN modals : (modals[i].kind = modals[j].kind /\ modals[i].kind \in Keyed) => i = j

(* An answer closes somebody else's dialog only if the alert of the check  *)
(* was dismissed or covered, a covered button was pressed, or a download   *)
(* that was given up opened one.                                           *)
SweptOnlyIfLoose == swept => (loose \/ under \/ haunted)

Mine == {d \in downloads : d.mine /\ ~d.cancelled}

(* The page's button says what runs for it: never stuck, never free while  *)
(* something runs, if no dialog was closed by mistake and no download that *)
(* was given up is heard of again.                                         *)
ButtonTellsTheTruth ==
    /\ page.checking <=> \E c \in checks : c.mine
    /\ (~under /\ ~swept /\ ~haunted) => (page.downloading <=> Mine # {})

(* A download that runs for the page shows its progress, and with it the   *)
(* way to cancel, unless an answer closed it that meant another dialog.    *)
DownloadIsShown ==
    (~under /\ ~swept /\ ~haunted /\ Mine # {}) => "progress" \in Kinds(modals)
=============================================================================
