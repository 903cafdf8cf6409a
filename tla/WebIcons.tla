------------------------------ MODULE WebIcons ------------------------------
(***************************************************************************)
(* The icons of the web page.  The page fetches the icon of every site it  *)
(* shows, keeps each as an object URL that must be revoked by hand, and    *)
(* remembers the ones it could not have.  The form of a site previews the  *)
(* icon it will have once saved.                                           *)
(*                                                                         *)
(* What the continuation of a request sets is queued and applied at the    *)
(* next render; a render that changed something runs the effect again,     *)
(* which aborts the fetches under way and starts those that are missing.   *)
(* The sites are those of one group, which may be locked.  The handlers    *)
(* around the icons are in WebLaunchpad, the files in IconFiles.           *)
(***************************************************************************)
EXTENDS Naturals, FiniteSets, Sequences, SequencesExt

CONSTANTS
    Sites,       \* numbers of websites
    NoSite,      \* a site that is not there, or is not shown
    MaxPaths,    \* bound: icon files
    MaxUrls,     \* bound: object URLs at one time
    MaxQueued,   \* bound: updates between two renders
    MaxEvents    \* bound: acts, fetches that fail, tokens that expire

VARIABLES
    icon,      \* [Sites -> Path or NoSite]  websites.local_icon_path, 0 for NULL
    files,     \* Nat                        icon files stored so far
    locked,    \* BOOLEAN                    launchpad_group_locks
    mounted,   \* BOOLEAN
    page,      \* [Sites -> Path or NoSite]  launchpad
    token,     \* Token                      unlockedGroupIconTokens
    urls,      \* [Sites -> Entry]           iconUrls
    errors,    \* [Sites -> Path]            iconErrors
    alive,     \* SUBSET Urls                object URLs not revoked
    fetches,   \* SUBSET Fetch               fetchIcons
    loads,     \* SUBSET [Sites -> ...]      answers to loadLaunchpad
    queue,     \* Seq(Update)                what the next render applies
    deleting,  \* SUBSET Sites               deletions whose answer is awaited
    form,      \* Form
    lost,      \* SUBSET Urls                history: queued when the page closed
    events     \* Nat

Server == <<icon, files, locked>>
Cache  == <<page, token, urls, errors>>
vars   == <<Server, mounted, Cache, alive, fetches, loads, queue, deleting, form, lost, events>>

-----------------------------------------------------------------------------
(* Values                                                                  *)

Path  == 0..MaxPaths
Urls  == 1..MaxUrls
Token == {"none", "good", "old"}
Entry == [path: Path, url: 0..MaxUrls]
NoEntry == [path |-> 0, url |-> 0]
Shown == [Sites -> Path \cup {NoSite}]

Fetch == [site: Sites, path: Path \ {0}, token: Token]

(* A fetch that was aborted: nothing reads any more which one it was.      *)
Aborted == [site |-> NoSite, path |-> 0, token |-> "none"]

NoForm == [at |-> "closed", site |-> NoSite, path |-> 0, file |-> FALSE, url |-> 0,
           action |-> "keep"]
Form   == [at: {"closed", "edit", "saving", "saved"}, site: Sites \cup {NoSite},
           path: Path, file: BOOLEAN, url: 0..MaxUrls, action: {"keep", "reset"}]

Nothing == [s \in Sites |-> NoSite]

Init ==
    /\ icon \in {i \in [Sites -> {1, NoSite}] : i[1] = 1}
    /\ files = 1
    /\ locked = FALSE
    /\ mounted = FALSE
    /\ page = Nothing
    /\ token = "none"
    /\ urls = [s \in Sites |-> NoEntry]
    /\ errors = [s \in Sites |-> 0]
    /\ alive = {}
    /\ fetches = {}
    /\ loads = {}
    /\ queue = <<>>
    /\ deleting = {}
    /\ form = NoForm
    /\ lost = {}
    /\ events = 0

Event == events < MaxEvents /\ events' = events + 1

(* A new object URL: none that is in use, or that something still names.   *)
Named == {urls[s].url : s \in Sites} \cup {form.url}
           \cup {queue[i].url : i \in DOMAIN queue} \cup lost
Fresh == Urls \ (alive \cup Named)
NewUrl == CHOOSE u \in Fresh : \A v \in Fresh : u <= v

-----------------------------------------------------------------------------
(* What an update does when it is applied.  A view is what the updates of  *)
(* one render have come to.                                                *)

View == [page |-> page, token |-> token, urls |-> urls, errors |-> errors, alive |-> alive]

Put(site, path, url) == [op |-> "put", site |-> site, path |-> path, url |-> url, paths |-> Nothing]
Failed(site, path)   == [Put(site, path, 0) EXCEPT !.op = "fail"]
Saved(site, path)    == [Put(site, path, 0) EXCEPT !.op = "saved"]
Removed(site)        == [Put(site, 0, 0) EXCEPT !.op = "removed"]
Cleared              == [Put(NoSite, 0, 0) EXCEPT !.op = "cleared"]
Replaced(op, paths)  == [Put(NoSite, 0, 0) EXCEPT !.op = op, !.paths = paths]

Update == [op: {"put", "fail", "saved", "removed", "cleared", "load", "lock", "unlock"},
           site: Sites \cup {NoSite}, path: Path, url: 0..MaxUrls, paths: Shown]

(* An answer to loadLaunchpad: what is cached for another path goes.       *)
ApplyLoad(v, u) ==
    LET gone == {s \in Sites : v.urls[s].path # 0 /\ v.urls[s].path # u.paths[s]}
    IN [v EXCEPT !.page = u.paths,
                 !.token = "none",
                 !.urls = [s \in Sites |-> IF s \in gone THEN NoEntry ELSE v.urls[s]],
                 !.errors = [s \in Sites |-> IF v.errors[s] = u.paths[s] THEN v.errors[s] ELSE 0],
                 !.alive = v.alive \ {v.urls[s].url : s \in gone}]

DiscardSiteIconCache(v, s, path) ==
    IF v.urls[s].path \in {0, path} THEN [v EXCEPT !.errors[s] = 0]
    ELSE [v EXCEPT !.errors[s] = 0, !.urls[s] = NoEntry, !.alive = @ \ {v.urls[s].url}]

(* mergeSavedSite puts the site into its group unless the group is hidden. *)
ApplySaved(v, u) ==
    LET w == DiscardSiteIconCache(v, u.site, u.path)
    IN IF v.page = Nothing THEN w ELSE [w EXCEPT !.page[u.site] = u.path]

(* The icon that arrives replaces what was cached, unless it is there.     *)
ApplyPut(v, u) ==
    IF v.urls[u.site].path = u.path THEN [v EXCEPT !.alive = @ \ {u.url}, !.errors[u.site] = 0]
    ELSE [v EXCEPT !.urls[u.site] = [path |-> u.path, url |-> u.url],
                   !.alive = @ \ {v.urls[u.site].url},
                   !.errors[u.site] = 0]

ApplyRemoved_Kept(v, u) ==
    [v EXCEPT !.page[u.site] = NoSite, !.alive = @ \ {v.urls[u.site].url}]

(* The answer to a deletion takes the icon with the site.                  *)
ApplyRemoved(v, u) == [DiscardSiteIconCache(v, u.site, 0) EXCEPT !.page[u.site] = NoSite]

Apply(v, u) ==
    CASE u.op = "put"     -> ApplyPut(v, u)
      [] u.op = "fail"    -> [v EXCEPT !.errors[u.site] = u.path]
      [] u.op = "saved"   -> ApplySaved(v, u)
      [] u.op = "removed" -> ApplyRemoved(v, u)
      [] u.op = "cleared" -> [v EXCEPT !.token = "none"]
      [] u.op = "load"    -> ApplyLoad(v, u)
      [] u.op = "lock"    -> [v EXCEPT !.page = Nothing, !.token = "none"]
      [] u.op = "unlock"  -> [v EXCEPT !.page = u.paths, !.token = "good"]

(* The sites whose icon the effect fetches.                                *)
Missing(v) == {s \in Sites : v.page[s] \notin {0, NoSite, v.errors[s], v.urls[s].path}}

Start(v) == {[site |-> s, path |-> v.page[s], token |-> v.token] : s \in Missing(v)}
Abort(set) == {Aborted : f \in set}

(* A render: the updates in their order, and the effect if something it    *)
(* depends on is another: a new list always is, a map only if it changed.  *)
Rendered == FoldLeft(Apply, View, queue)

Commit ==
    LET v == Rendered
        rerun == \/ v.urls # urls \/ v.errors # errors \/ v.token # token
                 \/ \E i \in DOMAIN queue : queue[i].op \notin {"put", "fail"}
    IN /\ mounted /\ queue # <<>>
       /\ page' = v.page /\ token' = v.token /\ urls' = v.urls /\ errors' = v.errors
       /\ alive' = v.alive
       /\ queue' = <<>>
       /\ fetches' = IF rerun THEN Abort(fetches) \cup Start(v) ELSE fetches
       /\ UNCHANGED <<Server, mounted, loads, deleting, form, lost, events>>

Enqueue(u) == Len(queue) < MaxQueued /\ queue' = Append(queue, u)

-----------------------------------------------------------------------------
(* Fetching                                                                *)

(* What the server has under the path, with the token of the group or      *)
(* without one.                                                            *)
Served(f) == icon[f.site] = f.path /\ f.token # "old"

FetchOk(f) ==
    /\ f # Aborted /\ Served(f) /\ Fresh # {}
    /\ fetches' = fetches \ {f}
    /\ alive' = alive \cup {NewUrl}
    /\ Enqueue(Put(f.site, f.path, NewUrl))
    /\ UNCHANGED <<Server, mounted, Cache, loads, deleting, form, lost, events>>

FetchFails(f) ==
    /\ f # Aborted
    /\ IF Served(f) THEN Event ELSE UNCHANGED events
    /\ fetches' = fetches \ {f}
    /\ Enqueue(Failed(f.site, f.path))
    /\ UNCHANGED <<Server, mounted, Cache, alive, loads, deleting, form, lost>>

(* The blob of an aborted fetch gets a URL that is revoked at once, and    *)
(* its failure is passed over.  The last of them to end leaves none.       *)
AbortedEnds ==
    /\ Aborted \in fetches /\ fetches' = fetches \ {Aborted}
    /\ UNCHANGED <<Server, mounted, Cache, alive, loads, queue, deleting, form, lost, events>>

ExpireToken ==
    /\ Event
    /\ token = "good" /\ token' = "old"
    /\ fetches' = {[f EXCEPT !.token = IF @ = "good" THEN "old" ELSE @] : f \in fetches}
    /\ UNCHANGED <<Server, mounted, page, urls, errors, alive, loads, queue, deleting, form, lost>>

-----------------------------------------------------------------------------
(* The page around the icons                                               *)

(* What GET /launchpad answers: nothing of a group that is locked.         *)
Visible == IF locked THEN Nothing ELSE icon

Open ==
    /\ Event
    /\ ~mounted /\ mounted' = TRUE
    /\ loads' = {Visible}
    /\ UNCHANGED <<Server, Cache, alive, fetches, queue, deleting, form, lost>>

(* The control center of the page has cleared the lock password: the       *)
(* server has unlocked all groups, and the page drops its tokens and asks  *)
(* again.  Until the answer it shows a locked group as it did.             *)
LockPasswordCleared ==
    /\ Event
    /\ mounted
    /\ locked' = FALSE
    /\ loads' = loads \cup {icon}
    /\ Enqueue(Cleared)
    /\ UNCHANGED <<icon, files, mounted, Cache, alive, fetches, deleting, form, lost>>

LoadLaunchpad(paths) ==
    /\ loads' = loads \ {paths}
    /\ Enqueue(Replaced("load", paths))
    /\ UNCHANGED <<Server, mounted, Cache, alive, fetches, deleting, form, lost, events>>

Fixed == form.at = "closed" /\ queue = <<>> /\ mounted

LockGroup ==
    /\ Event
    /\ Fixed /\ ~locked /\ page # Nothing
    /\ locked' = TRUE
    /\ Enqueue(Replaced("lock", Nothing))
    /\ UNCHANGED <<icon, files, mounted, Cache, alive, fetches, loads, deleting, form, lost>>

UnlockGroup ==
    /\ Event
    /\ Fixed /\ locked /\ page = Nothing
    /\ Enqueue(Replaced("unlock", icon))
    /\ UNCHANGED <<Server, mounted, Cache, alive, fetches, loads, deleting, form, lost>>

(* The menu of a site is there without a form, which is what the handler   *)
(* compares with: a form that is opened before the answer stays.  The      *)
(* answer may be lost, and the site stays on the page.                     *)
HandleDeleteSite(s) ==
    /\ Event
    /\ Fixed /\ page[s] # NoSite /\ icon[s] # NoSite
    /\ icon' = [icon EXCEPT ![s] = NoSite]
    /\ deleting' = deleting \cup {s}
    /\ UNCHANGED <<files, locked, mounted, Cache, alive, fetches, loads, queue, form, lost>>

DeleteSiteArrives(s) ==
    /\ Enqueue(Removed(s))
    /\ deleting' = deleting \ {s}
    /\ UNCHANGED <<Server, mounted, Cache, alive, fetches, loads, form, lost, events>>

(* Another page of the user stores an icon.                                *)
Elsewhere(s) ==
    /\ Event
    /\ icon[s] # NoSite /\ files < MaxPaths
    /\ files' = files + 1
    /\ icon' = [icon EXCEPT ![s] = files + 1]
    /\ UNCHANGED <<locked, mounted, Cache, alive, fetches, loads, queue, deleting, form, lost>>

(* The page goes away: the cached URLs and the one of the form are         *)
(* revoked, fetches are aborted, what was queued is never applied.         *)
Close ==
    /\ mounted /\ mounted' = FALSE
    /\ alive' = alive \ ({urls[s].url : s \in Sites} \cup {form.url})
    /\ lost' = lost \cup ({queue[i].url : i \in DOMAIN queue} \ {0})
    /\ page' = Nothing /\ token' = "none"
    /\ urls' = [s \in Sites |-> NoEntry] /\ errors' = [s \in Sites |-> 0]
    /\ fetches' = Abort(fetches)
    /\ loads' = {} /\ queue' = <<>> /\ deleting' = {} /\ form' = NoForm
    /\ UNCHANGED <<Server, events>>

-----------------------------------------------------------------------------
(* The form of a site                                                      *)

PrepareSiteForm(f) ==
    /\ form' = [f EXCEPT !.at = "edit"]
    /\ UNCHANGED <<Server, mounted, Cache, alive, fetches, loads, queue, deleting, lost>>

EditForm(s) ==
    /\ Event
    /\ Fixed /\ page[s] # NoSite
    /\ PrepareSiteForm([NoForm EXCEPT !.site = s, !.path = page[s]])

CreateForm ==
    /\ Event
    /\ Fixed /\ page # Nothing
    /\ PrepareSiteForm(NoForm)

(* What the form is set to; the preview it had is revoked.                 *)
SetForm(f) ==
    /\ form' = f
    /\ UNCHANGED <<Server, mounted, Cache, fetches, loads, queue, deleting, lost, events>>

CloseSiteForm ==
    /\ form.at = "edit"
    /\ alive' = alive \ {form.url}
    /\ SetForm(NoForm)

HandleIconSelection ==
    /\ form.at = "edit" /\ Fresh # {}
    /\ alive' = (alive \ {form.url}) \cup {NewUrl}
    /\ SetForm([form EXCEPT !.file = TRUE, !.url = NewUrl, !.action = "keep"])

(* validateSelectedIcon refuses the file: the earlier choice goes with it. *)
HandleBadSelection ==
    /\ form.at = "edit" /\ form.file
    /\ alive' = alive \ {form.url}
    /\ SetForm([form EXCEPT !.file = FALSE, !.url = 0])

HandleResetSiteIcon ==
    /\ form.at = "edit"
    /\ alive' = alive \ {form.url}
    /\ SetForm([form EXCEPT !.file = FALSE, !.url = 0, !.action = "reset", !.path = 0])

HandleSaveSite ==
    /\ form.at = "edit"
    /\ UNCHANGED alive
    /\ SetForm([form EXCEPT !.at = "saving"])

(* A number for a new site: one that nothing names.                        *)
NewSites ==
    {s \in Sites \ deleting :
        /\ icon[s] = NoSite /\ page[s] = NoSite
        /\ \A paths \in loads : paths[s] = NoSite
        /\ \A i \in DOMAIN queue : queue[i].site # s /\ queue[i].paths[s] = NoSite}

(* The server stores the file that came, or clears the icon, or leaves it; *)
(* a file and a reset at once it refuses.                                  *)
SaveServed(s) ==
    /\ form.at = "saving"
    /\ IF form.site = NoSite THEN s \in NewSites ELSE s = form.site /\ icon[s] # NoSite
    /\ form.file => form.action = "keep" /\ files < MaxPaths
    /\ files' = IF form.file THEN files + 1 ELSE files
    /\ icon' = [icon EXCEPT ![s] = IF form.file THEN files + 1
                                   ELSE IF form.action = "reset" \/ form.site = NoSite THEN 0 ELSE @]
    /\ form' = [form EXCEPT !.at = "saved", !.site = s, !.path = icon'[s]]
    /\ UNCHANGED <<locked, mounted, Cache, alive, fetches, loads, queue, deleting, lost, events>>

SaveFails ==
    /\ Event
    /\ form.at = "saving"
    /\ form' = [form EXCEPT !.at = "edit"]
    /\ UNCHANGED <<Server, mounted, Cache, alive, fetches, loads, queue, deleting, lost>>

SaveArrives ==
    /\ form.at = "saved"
    /\ Enqueue(Saved(form.site, form.path))
    /\ alive' = alive \ {form.url}
    /\ form' = NoForm
    /\ UNCHANGED <<Server, mounted, Cache, fetches, loads, deleting, lost, events>>

-----------------------------------------------------------------------------
FormNext ==
    \/ CreateForm \/ CloseSiteForm \/ HandleIconSelection \/ HandleBadSelection
    \/ HandleResetSiteIcon \/ HandleSaveSite \/ SaveFails \/ SaveArrives
    \/ \E s \in Sites : EditForm(s) \/ SaveServed(s)

Next ==
    \/ Commit \/ Open \/ Close \/ LockPasswordCleared \/ LockGroup \/ UnlockGroup
    \/ AbortedEnds \/ ExpireToken \/ FormNext
    \/ \E f \in fetches : FetchOk(f) \/ FetchFails(f)
    \/ \E paths \in loads : LoadLaunchpad(paths)
    \/ \E s \in Sites : HandleDeleteSite(s) \/ Elsewhere(s)
    \/ \E s \in deleting : DeleteSiteArrives(s)

Spec == Init /\ [][Next]_vars

-----------------------------------------------------------------------------
(* Types.                                                                  *)
TypeOK ==
    /\ icon \in Shown /\ page \in Shown
    /\ files \in 1..MaxPaths
    /\ {locked, mounted} \subseteq BOOLEAN
    /\ token \in Token
    /\ urls \in [Sites -> Entry]
    /\ errors \in [Sites -> Path]
    /\ alive \subseteq Urls /\ lost \subseteq Urls
    /\ fetches \subseteq Fetch \cup {Aborted}
    /\ loads \subseteq Shown
    /\ \A i \in DOMAIN queue : queue[i] \in Update
    /\ deleting \subseteq Sites
    /\ form \in Form
    /\ events \in 0..MaxEvents

(* What the page draws for a site: the icon of the path the site has.      *)
Drawn(s) ==
    IF page[s] \notin {0, NoSite} /\ urls[s].path = page[s] /\ errors[s] # page[s]
    THEN urls[s].url ELSE 0

(* And in the head of the form: a file just chosen, or the cached icon.    *)
Preview ==
    IF form.url # 0 THEN form.url
    ELSE IF form.action = "keep" /\ form.site # NoSite /\ form.path # 0
              /\ urls[form.site].path = form.path /\ errors[form.site] # form.path
         THEN urls[form.site].url ELSE 0

(* No picture on the screen is one whose URL was revoked, whichever order  *)
(* the fetches, loads and saves were answered in (iconUrls is revoked in   *)
(* four places of the page).                                               *)
DrawnAreAlive ==
    (mounted /\ queue = <<>>) => ({Drawn(s) : s \in Sites} \cup {Preview}) \ {0} \subseteq alive

(* Every object URL that lives is in the cache, in the form, or on its way *)
(* there: a page that is closed leaves none, except those whose update had *)
(* not been rendered yet.                                                  *)
NoUrlIsForgotten ==
    alive \subseteq {urls[s].url : s \in Sites} \cup {form.url}
                      \cup {queue[i].url : i \in DOMAIN queue} \cup lost

(* Once every answer is in and rendered, each site that has an icon shows  *)
(* the one of its path, or is known to have failed with just that path: no *)
(* fetch is aborted without another in its place.                          *)
EveryIconIsSettled ==
    (mounted /\ queue = <<>> /\ fetches \subseteq {Aborted}) =>
        \A s \in Sites : page[s] \notin {0, NoSite} => page[s] \in {urls[s].path, errors[s]}

(* What is saved is what the form showed: the file that was previewed, the *)
(* default icon after a reset, the icon there was otherwise.               *)
AsPreviewed ==
    \A s \in Sites : SaveServed(s) =>
        icon'[s] = IF form.url # 0 THEN files + 1
                   ELSE IF form.action = "reset" \/ form.site = NoSite THEN 0 ELSE icon[s]
=============================================================================
