------------------------------- MODULE DeskIcons -------------------------------
(***************************************************************************)
(* Icons on the desktop client: the files that the last part of a sync     *)
(* moves, and the cards that show them.  All accounts share one directory  *)
(* of the device, each has its own on the server.  A run of the sync knows *)
(* for whom it began, but each transfer asks anew who is active, and once  *)
(* more after a refresh; when it is through, the page loads again, for a   *)
(* card that failed to show its file does not try again by itself.         *)
(***************************************************************************)
EXTENDS Naturals

CONSTANTS
    Accounts,   \* uuids of users
    Anonymous,  \* one of them, without a server
    Files,      \* names of icon files
    NoFile,     \* no transfer is under way
    MaxEvents   \* bound: acts of the user and faults

VARIABLES
    active,   \* Accounts                        the active user
    named,    \* [Accounts -> SUBSET Files]      what the device's sites refer to
    disk,     \* SUBSET Files                    the device's directory
    store,    \* [Accounts -> SUBSET Files]      the server's directories
    run,      \* [under, user, up, down]         the transfers of a sync
    sent,     \* [file, user, way, again]        the transfer under way
    cards,    \* [Files -> Look]                 the DynamicIcon of each icon
    loading,  \* BOOLEAN                         the page has no cards now
    own,      \* [Accounts -> SUBSET Files]  history: referred to by then
    crossed,  \* BOOLEAN  history: the user was switched during a run
    acts      \* acts so far

vars == <<active, named, disk, store, run, sent, cards, loading, own, crossed, acts>>

(* Not on the page; resolving its path; an img element; what came of it.   *)
Look == {"none", "resolving", "loading", "shown", "failed"}

NoRun  == [under |-> FALSE, user |-> Anonymous, up |-> {}, down |-> {}]
NoSend == [file |-> NoFile, user |-> Anonymous, way |-> "up", again |-> FALSE]

(* The card of each icon a site of u refers to, just mounted.              *)
Mounted(u) == [f \in Files |-> IF f \in named[u] THEN "resolving" ELSE "none"]

Init ==
    /\ active \in Accounts
    /\ \E S \in SUBSET Files :
        /\ named = [a \in Accounts |-> IF a = active THEN S ELSE {}]
        /\ disk \in SUBSET S
    /\ store \in [Accounts -> SUBSET Files]
    /\ \A a \in Accounts : store[a] # {} => a # Anonymous
    /\ run = NoRun
    /\ sent = NoSend
    /\ cards = Mounted(active)
    /\ loading = FALSE
    /\ own = [a \in Accounts |-> store[a] \cup named[a]]
    /\ crossed = FALSE
    /\ acts = 0

Acts == acts < MaxEvents /\ acts' = acts + 1

(* loadData: the page shows Loading, and its cards are gone.               *)
BeginsLoad ==
    /\ loading' = TRUE
    /\ cards' = [f \in Files |-> "none"]

Loaded ==
    /\ loading
    /\ loading' = FALSE
    /\ cards' = Mounted(active)
    /\ UNCHANGED <<active, named, disk, store, run, sent, own, crossed, acts>>

-----------------------------------------------------------------------------
(* DynamicIcon                                                             *)

Looks(f, was, is) ==
    /\ cards[f] = was
    /\ cards' = [cards EXCEPT ![f] = is]
    /\ UNCHANGED <<active, named, disk, store, run, sent, loading, own, crossed, acts>>

ResolveIconPath(f) == Looks(f, "resolving", "loading")

(* onError, or the picture.                                                *)
ShowImage(f) == Looks(f, "loading", IF f \in disk THEN "shown" ELSE "failed")

(* triggerIconRefresh: every icon tries again.                             *)
Retried_Pending == [f \in Files |-> IF cards[f] = "loading" THEN "resolving" ELSE cards[f]]
Retried == [f \in Files |-> IF cards[f] = "none" THEN "none" ELSE "resolving"]

(* The form of a site: an icon is fetched or uploaded to the directory and *)
(* every icon is refreshed, long before the form is saved.                 *)
HandleIconUpload(f) ==
    /\ ~loading
    /\ Acts
    /\ disk' = disk \cup {f}
    /\ cards' = Retried
    /\ UNCHANGED <<active, named, store, run, sent, loading, own, crossed>>

HandleSaveItem(S) ==
    /\ ~loading
    /\ Acts
    /\ S \subseteq disk \cup named[active]
    /\ named' = [named EXCEPT ![active] = S]
    /\ own' = [own EXCEPT ![active] = @ \cup S]
    /\ BeginsLoad
    /\ UNCHANGED <<active, disk, store, run, sent, crossed>>

SwitchActiveUser(u) ==
    /\ u # active
    /\ Acts
    /\ active' = u
    /\ crossed' = (crossed \/ run.under)
    /\ BeginsLoad
    /\ UNCHANGED <<named, disk, store, run, sent, own>>

-----------------------------------------------------------------------------
(* The end of a sync                                                       *)

(* The server's answer is applied: what the sites refer to now, what the   *)
(* server lacks of it and what the device lacks.                           *)
Lists(u, S) == [under |-> TRUE, user |-> u, up |-> S \ store[u], down |-> (S \cap store[u]) \ disk]

ApplySyncResult(S) ==
    /\ ~run.under
    /\ active # Anonymous
    /\ Acts
    /\ S \subseteq named[active] \cup store[active]
    /\ named' = [named EXCEPT ![active] = S]
    /\ own' = [own EXCEPT ![active] = @ \cup S]
    /\ run' = Lists(active, S)
    /\ UNCHANGED <<active, disk, store, sent, cards, loading, crossed>>

(* runWithActiveSessionRetry: whoever is active; nobody signed in fails.   *)
Sends(f, way) ==
    /\ sent = NoSend
    /\ sent' = IF active = Anonymous \/ (way = "up" /\ f \notin disk) THEN NoSend
               ELSE [file |-> f, user |-> active, way |-> way, again |-> FALSE]
    /\ UNCHANGED <<active, named, disk, store, cards, loading, own, crossed, acts>>

(* uploadIcons, then downloadIcons.                                        *)
UploadIcons(f) ==
    /\ f \in run.up
    /\ run' = [run EXCEPT !.up = @ \ {f}]
    /\ Sends(f, "up")

DownloadIcons(f) ==
    /\ run.up = {} /\ f \in run.down
    /\ run' = [run EXCEPT !.down = @ \ {f}]
    /\ Sends(f, "down")

(* The server refuses the token; after the refresh it is sent for whoever  *)
(* is active by then, once.                                                *)
SendAgain ==
    /\ sent # NoSend /\ ~sent.again
    /\ Acts
    /\ sent' = IF active = Anonymous THEN NoSend ELSE [sent EXCEPT !.user = active, !.again = TRUE]
    /\ UNCHANGED <<active, named, disk, store, run, cards, loading, own, crossed>>

(* A failure is logged and the next file is taken.                         *)
TransferEnds(fails) ==
    /\ sent # NoSend
    /\ sent' = NoSend
    /\ IF fails THEN Acts ELSE UNCHANGED acts
    /\ store' = IF ~fails /\ sent.way = "up"
                THEN [store EXCEPT ![sent.user] = @ \cup {sent.file}] ELSE store
    /\ disk' = IF ~fails /\ sent.way = "down" /\ sent.file \in store[sent.user]
               THEN disk \cup {sent.file} ELSE disk
    /\ UNCHANGED <<active, named, run, cards, loading, own, crossed>>

(* incrementDataVersion                                                    *)
ReloadsAfter == TRUE

Through_NotAwaited == run.up = {} /\ run.down = {}
Through == run.up = {} /\ run.down = {} /\ sent = NoSend

RunEnds ==
    /\ run.under /\ Through
    /\ run' = [run EXCEPT !.under = FALSE]
    /\ IF ReloadsAfter THEN BeginsLoad ELSE UNCHANGED <<cards, loading>>
    /\ UNCHANGED <<active, named, disk, store, sent, own, crossed, acts>>

(* The application stops and starts again.                                 *)
Restart ==
    /\ Acts
    /\ run' = NoRun
    /\ sent' = NoSend
    /\ BeginsLoad
    /\ UNCHANGED <<active, named, disk, store, own, crossed>>

Next ==
    \/ Loaded \/ SendAgain \/ RunEnds \/ Restart
    \/ \E f \in Files :
         \/ ResolveIconPath(f) \/ ShowImage(f) \/ HandleIconUpload(f)
         \/ UploadIcons(f) \/ DownloadIcons(f)
    \/ \E S \in SUBSET Files : HandleSaveItem(S) \/ ApplySyncResult(S)
    \/ \E u \in Accounts : SwitchActiveUser(u)
    \/ \E b \in BOOLEAN : TransferEnds(b)

-----------------------------------------------------------------------------
TypeOK ==
    /\ active \in Accounts
    /\ named \in [Accounts -> SUBSET Files]
    /\ disk \subseteq Files
    /\ store \in [Accounts -> SUBSET Files]
    /\ run \in [under: BOOLEAN, user: Accounts, up: SUBSET Files, down: SUBSET Files]
    /\ sent \in [file: Files \cup {NoFile}, user: Accounts, way: {"up", "down"}, again: BOOLEAN]
    /\ cards \in [Files -> Look]
    /\ loading \in BOOLEAN /\ crossed \in BOOLEAN
    /\ own \in [Accounts -> SUBSET Files]
    /\ acts \in 0..MaxEvents

(* The server's directory of an account holds what sites of that account   *)
(* referred to, unless the user was switched while a sync moved its files. *)
IconsReachTheirAccount == crossed \/ \A a \in Accounts : store[a] \subseteq own[a]

(* A card gives up its icon only if the file is missing: once a sync or a  *)
(* fetch has brought it and is through, the card has tried again.          *)
FailedAreMissing ==
    ~run.under => \A f \in Files : cards[f] = "failed" => f \notin disk
=============================================================================
