----------------------------- MODULE MCWebPage -----------------------------
(* Five parts of the web page that do not act on each other, side by side: *)
(* a behaviour is one of the session, of the icons, of the preferences, of *)
(* the layers or of the traces of requests, which the desktop client has   *)
(* as well, and leaves the variables of the others alone.  Tabs and        *)
(* accounts are interchangeable.                                           *)
EXTENDS WebSession, TLC

CONSTANTS Sites, NoSite, MaxPaths, MaxUrls, MaxQueued, Anonymous, Keys, Apps,
          IconEvents, PreferenceEvents, LayerEvents, TraceEvents

VARIABLES
    part,
    icon, files, locked, mounted, token, urls, errors, alive, fetches, loads, queue, deleting, form, lost,
    kept, signed, configured, writer, behind,
    layers, saving, term, focus,
    app, context, drawn, known, carried, early, strayed

Icons       == INSTANCE WebIcons WITH MaxEvents <- IconEvents
Preferences == INSTANCE WebPreferences WITH MaxEvents <- PreferenceEvents
Layers      == INSTANCE WebLayers WITH MaxEvents <- LayerEvents
Traces      == INSTANCE TraceContext WITH MaxEvents <- TraceEvents

(* The preferences are among those the page has, and the keys of the       *)
(* storage are apart.                                                      *)
ASSUME WebPageAssumption ==
    /\ Keys \subseteq DOMAIN Preferences!Order
    /\ Anonymous \notin Users
    /\ (Users \cup {Anonymous}) \cap ({"inset"} \cup Keys) = {}
    /\ "nobody" \notin Tabs
    /\ {MaxUrls, IconEvents, PreferenceEvents, LayerEvents, TraceEvents} \subseteq Nat

OfSession     == <<owner, rows, expired, shut, stored, accounts, cache, shown, listed, req,
                   due, crossed, troubled>>
OfIcons       == <<icon, files, locked, mounted, token, urls, errors, alive, fetches, loads,
                   queue, deleting, form, lost>>
OfPreferences == <<kept, signed, configured, writer, behind>>
OfLayers      == <<layers, saving, term, focus>>
OfTraces      == <<app, context, drawn, known, carried, early, strayed>>

NoSession ==
    /\ owner = 0 /\ rows = 0 /\ expired = 0 /\ shut = 0 /\ stored = 0
    /\ accounts = 0 /\ cache = 0 /\ shown = 0 /\ listed = 0 /\ req = 0
    /\ due = 0 /\ crossed = 0 /\ troubled = 0
NoIcons ==
    /\ icon = 0 /\ files = 0 /\ locked = 0 /\ mounted = 0 /\ token = 0
    /\ urls = 0 /\ errors = 0 /\ alive = 0 /\ fetches = 0 /\ loads = 0
    /\ queue = 0 /\ deleting = 0 /\ form = 0 /\ lost = 0
NoPreferences ==
    /\ kept = 0 /\ signed = 0 /\ configured = 0 /\ writer = 0
    /\ behind = 0
NoLayers ==
    /\ layers = 0 /\ saving = 0 /\ term = 0 /\ focus = 0
NoTraces ==
    /\ app = 0 /\ context = 0 /\ drawn = 0 /\ known = 0
    /\ carried = 0 /\ early = 0 /\ strayed = 0

PageInit ==
    \/ part = "session" /\ Init
         /\ NoIcons /\ NoPreferences /\ NoLayers /\ NoTraces
    \/ part = "icons" /\ Icons!Init /\ calls = 0
         /\ NoSession /\ NoPreferences /\ NoLayers /\ NoTraces
    \/ part = "preferences" /\ Preferences!Init
         /\ NoSession /\ NoIcons /\ NoLayers /\ NoTraces
    \/ part = "layers" /\ Layers!Init /\ calls = 0 /\ page = 0
         /\ NoSession /\ NoIcons /\ NoPreferences /\ NoTraces
    \/ part = "traces" /\ Traces!Init /\ page = 0
         /\ NoSession /\ NoIcons /\ NoPreferences /\ NoLayers

PageNext ==
    /\ UNCHANGED part
    /\ \/ part = "session" /\ Next
            /\ UNCHANGED <<OfIcons, OfPreferences, OfLayers, OfTraces>>
       \/ part = "icons" /\ Icons!Next
            /\ UNCHANGED <<OfSession, calls, OfPreferences, OfLayers, OfTraces>>
       \/ part = "preferences" /\ Preferences!Next
            /\ UNCHANGED <<OfSession, OfIcons, OfLayers, OfTraces>>
       \/ part = "layers" /\ Layers!Next
            /\ UNCHANGED <<OfSession, calls, page, OfIcons, OfPreferences, OfTraces>>
       \/ part = "traces" /\ Traces!Next
            /\ UNCHANGED <<OfSession, page, OfIcons, OfPreferences, OfLayers>>

PageVars == <<vars, part, OfIcons, OfPreferences, OfLayers, OfTraces>>
PageSpec == PageInit /\ [][PageNext]_PageVars

AnyTabAnyUser == Permutations(Tabs) \cup Permutations(Users)

(* The promises of the parts, each as its module states it.                *)

(* A session stays whole: what the list of accounts keeps the server will  *)
(* renew, a tab acts with the session it shows, a request is answered for  *)
(* the page that sent it, and none waits for a refresh that is over.       *)
SessionHolds ==
    part = "session" =>
        /\ TypeOK
        /\ SavedSessionsAreGood
        /\ TabKeepsItsSession
        /\ RequestsStayWithTheirPage
        /\ NobodyWaitsForNothing

(* Icons are drawn to the end: no picture on the screen has a revoked URL, *)
(* every URL that lives is of use, and every icon arrives or is known to   *)
(* have failed.                                                            *)
IconsHold ==
    part = "icons" =>
        /\ Icons!TypeOK
        /\ Icons!DrawnAreAlive
        /\ Icons!NoUrlIsForgotten
        /\ Icons!EveryIconIsSettled

(* What the page shows is what is kept: preferences as their last writer   *)
(* shows them, foldings under their user, the control center right about   *)
(* the lock password - and a form being saved stays until the answer.      *)
PageHolds ==
    /\ part = "preferences" =>
         /\ Preferences!TypeOK
         /\ Preferences!KeptIsShown
         /\ Preferences!FoldingStaysWithItsUser
         /\ Preferences!LockStatusIsTrue
    /\ part = "layers" =>
         /\ Layers!TypeOK
         /\ Layers!SavingFormStays

(* An application has one trace, and a record names a request that was     *)
(* sent - but for requests that left before the first answer.              *)
TracesHold ==
    part = "traces" =>
        /\ Traces!TypeOK
        /\ Traces!OneTrace
        /\ Traces!RecordsNameARequest

(* An act does what its user meant by it: what a form saves is what it     *)
(* previewed, and an Escape for what lies over the page spares the search  *)
(* under it.                                                               *)
ActsAreMeant ==
    [][/\ part = "icons" => Icons!AsPreviewed
       /\ part = "layers" => Layers!SparesTheSearch]_PageVars
=============================================================================
