---------------------------- MODULE MCDesktopPage ----------------------------
(* Eight parts of the desktop client that do not act on each other, side   *)
(* by side: a behaviour is one of the preferences, the accounts, the       *)
(* dialogs, the menus, the settings, the layers of the launchpad, its      *)
(* icons or the runs of the synchronisation, and leaves the variables of   *)
(* the others alone.  Accounts and names are interchangeable.              *)
EXTENDS DeskPreferences, TLC

CONSTANTS Accounts, Anonymous, MaxDialogs, Folders, Leaves, Labels, Instances,
          Cards, Found, NoSite, Files, NoFile, MaxAlerts,
          AccountEvents, DialogEvents, MenuEvents, SettingEvents, RunEvents, LayerEvents,
          IconEvents

VARIABLES
    part,
    table, form, asked, meant, slipped, out, removed, revived,
    modals, page, checks, downloads, under, loose, swept, haunted,
    bar, label, builds, native, failed,
    file, system, shown, ready, window, tasks,
    standing, fits, device, run, log, opened, word, cleared, trouble,
    kept, sheet, term, held, menu, over, edited, layers, popup, focus, waits, moved, acts,
    user, named, disk, store, moves, sent, looks, blank, own, astray, turns

Signed   == INSTANCE DesktopAccounts WITH MaxEvents <- AccountEvents
Dialogs  == INSTANCE DesktopDialogs WITH MaxEvents <- DialogEvents
Menus    == INSTANCE AppMenus WITH MaxEvents <- MenuEvents
Settings == INSTANCE DeviceSettings WITH MaxEvents <- SettingEvents
Runs     == INSTANCE SyncRun WITH MaxEvents <- RunEvents
Layers   == INSTANCE DeskLayers WITH
                Sites <- Cards, MaxEvents <- LayerEvents,
                page <- sheet, modals <- layers, calls <- waits, loose <- moved
Icons    == INSTANCE DeskIcons WITH
                Accounts <- Accounts \cup {Anonymous}, MaxEvents <- IconEvents,
                active <- user, run <- moves, cards <- looks, loading <- blank,
                crossed <- astray, acts <- turns

(* A dialog has room, no entry of the menu bar is the one for "none", and  *)
(* the anonymous user has no account.                                      *)
ASSUME DesktopPageAssumption ==
    /\ {MaxAlerts, AccountEvents, DialogEvents, MenuEvents, SettingEvents, RunEvents, LayerEvents,
         IconEvents} \subseteq Nat
    /\ MaxDialogs \in Nat \ {0}
    /\ Menus!None \notin Folders
    /\ Anonymous \notin Accounts

OfPreferences == <<rows, default, engine, loading, modal, fold, stored, folded>>
OfAccounts    == <<table, form, asked, meant, slipped, out, removed, revived>>
OfDialogs     == <<modals, page, checks, downloads, under, loose, swept, haunted>>
OfMenus       == <<bar, label, builds, native, failed>>
OfSettings    == <<file, system, shown, ready, window, tasks>>
OfRuns        == <<standing, fits, device, run, log, opened, word, cleared, trouble>>
OfLayers      == <<kept, sheet, term, held, menu, over, edited, layers, popup, focus, waits, moved, acts>>
OfIcons       == <<user, named, disk, store, moves, sent, looks, blank, own, astray, turns>>
OfLaunchpad   == <<OfLayers, OfIcons>>
OfTwo         == <<active, list, calls, crossed>>   \* of the preferences and the accounts
OfChoices     == <<chosen, raced>>                  \* of the preferences and the settings
OfOthers      == <<vars, OfAccounts, OfDialogs, OfMenus, OfSettings, OfRuns>>

NoPreferences ==
    /\ rows = 0 /\ default = 0 /\ engine = 0 /\ loading = 0
    /\ modal = 0 /\ fold = 0 /\ stored = 0 /\ folded = 0
NoAccounts ==
    /\ table = 0 /\ form = 0 /\ asked = 0 /\ meant = 0
    /\ slipped = 0 /\ out = 0 /\ removed = 0 /\ revived = 0
NoDialogs ==
    /\ modals = 0 /\ page = 0 /\ checks = 0 /\ downloads = 0
    /\ under = 0 /\ loose = 0 /\ swept = 0 /\ haunted = 0
NoMenus ==
    /\ bar = 0 /\ label = 0 /\ builds = 0 /\ native = 0 /\ failed = 0
NoSettings ==
    /\ file = 0 /\ system = 0 /\ shown = 0 /\ ready = 0
    /\ window = 0 /\ tasks = 0
NoRuns ==
    /\ standing = 0 /\ fits = 0 /\ device = 0 /\ run = 0 /\ log = 0
    /\ opened = 0 /\ word = 0 /\ cleared = 0 /\ trouble = 0
NoLayers ==
    /\ kept = 0 /\ sheet = 0 /\ term = 0 /\ held = 0 /\ menu = 0 /\ over = 0 /\ edited = 0
    /\ layers = 0 /\ popup = 0 /\ focus = 0 /\ waits = 0 /\ moved = 0 /\ acts = 0
NoIcons ==
    /\ user = 0 /\ named = 0 /\ disk = 0 /\ store = 0 /\ moves = 0 /\ sent = 0
    /\ looks = 0 /\ blank = 0 /\ own = 0 /\ astray = 0 /\ turns = 0
NoLaunchpad == NoLayers /\ NoIcons
NoTwo     == active = 0 /\ list = 0 /\ calls = 0 /\ crossed = 0
NoChoices == chosen = 0 /\ raced = 0
NoOthers ==
    /\ NoPreferences /\ NoTwo /\ NoChoices /\ NoAccounts /\ NoDialogs
    /\ NoMenus /\ NoSettings /\ NoRuns /\ events = 0

PageInit ==
    \/ part = "preferences" /\ Init
         /\ NoAccounts /\ NoDialogs /\ NoMenus /\ NoSettings /\ NoRuns /\ NoLaunchpad
    \/ part = "accounts" /\ Signed!Init
         /\ NoPreferences /\ NoChoices /\ NoDialogs /\ NoMenus /\ NoSettings /\ NoRuns /\ NoLaunchpad
    \/ part = "dialogs" /\ Dialogs!Init
         /\ NoPreferences /\ NoTwo /\ NoChoices /\ NoAccounts /\ NoMenus /\ NoSettings /\ NoRuns /\ NoLaunchpad
    \/ part = "menus" /\ Menus!Init
         /\ NoPreferences /\ NoTwo /\ NoChoices /\ NoAccounts /\ NoDialogs /\ NoSettings /\ NoRuns /\ NoLaunchpad
    \/ part = "settings" /\ Settings!Init
         /\ NoPreferences /\ NoTwo /\ NoAccounts /\ NoDialogs /\ NoMenus /\ NoRuns /\ NoLaunchpad
    \/ part = "run" /\ Runs!Init
         /\ NoPreferences /\ NoTwo /\ NoChoices /\ NoAccounts /\ NoDialogs /\ NoMenus /\ NoSettings /\ NoLaunchpad
    \/ part = "layers" /\ Layers!Init /\ NoOthers /\ NoIcons
    \/ part = "icons" /\ Icons!Init /\ NoOthers /\ NoLayers

PageNext ==
    /\ UNCHANGED part
    /\ \/ part = "preferences" /\ Next
            /\ UNCHANGED <<OfAccounts, OfDialogs, OfMenus, OfSettings, OfRuns, OfLaunchpad>>
       \/ part = "accounts" /\ Signed!Next
            /\ UNCHANGED <<OfPreferences, OfChoices, OfDialogs, OfMenus, OfSettings, OfRuns, OfLaunchpad>>
       \/ part = "dialogs" /\ Dialogs!Next
            /\ UNCHANGED <<OfPreferences, OfTwo, OfChoices, OfAccounts, OfMenus, OfSettings, OfRuns, OfLaunchpad>>
       \/ part = "menus" /\ Menus!Next
            /\ UNCHANGED <<OfPreferences, OfTwo, OfChoices, OfAccounts, OfDialogs, OfSettings, OfRuns, OfLaunchpad>>
       \/ part = "settings" /\ Settings!Next
            /\ UNCHANGED <<OfPreferences, OfTwo, OfAccounts, OfDialogs, OfMenus, OfRuns, OfLaunchpad>>
       \/ part = "run" /\ Runs!Next
            /\ UNCHANGED <<OfPreferences, OfTwo, OfChoices, OfAccounts, OfDialogs, OfMenus, OfSettings, OfLaunchpad>>
       \/ part = "layers" /\ Layers!Next /\ UNCHANGED <<OfOthers, OfIcons>>
       \/ part = "icons" /\ Icons!Next /\ UNCHANGED <<OfOthers, OfLayers>>

PageVars == <<part, OfOthers, OfLaunchpad>>
PageSpec == PageInit /\ [][PageNext]_PageVars

Alike == Permutations(Users) \cup Permutations(Names) \cup Permutations(Accounts)

(* The promises of the parts, each as its module states it.                *)

(* Preferences and accounts are their user's: the engine in use is one of  *)
(* the active user's and the one chosen last, what is folded stays with    *)
(* its user, the account that is active is signed in on this device, is    *)
(* the one the last act meant, keeps its own server address, and does not  *)
(* come back when deleted - but for the overlaps the modules name.         *)
AccountsHold ==
    /\ part = "preferences" =>
         /\ TypeOK
         /\ EngineIsTheUsers
         /\ ChoiceIsKept
         /\ FoldingStaysWithItsUser
    /\ part = "accounts" =>
         /\ Signed!TypeOK
         /\ Signed!ActiveIsSignedIn
         /\ Signed!ListIsTheTable
         /\ Signed!AddressesStayWithTheirUser
         /\ Signed!MeantIsActive
         /\ Signed!DeletedStayAway

(* The window tells the truth: an answer closes no dialog but its own, the *)
(* button and the progress of an update are those of its download, the     *)
(* menu of the system bears the state of the last build, and the settings  *)
(* of the device keep what was chosen and are shown as kept.               *)
WindowHolds ==
    /\ part = "dialogs" =>
         /\ Dialogs!TypeOK
         /\ Dialogs!OneDialogPerKey
         /\ Dialogs!SweptOnlyIfLoose
         /\ Dialogs!ButtonTellsTheTruth
         /\ Dialogs!DownloadIsShown
    /\ part = "menus" =>
         /\ Menus!TypeOK
         /\ Menus!OneSubmenuWhileHovering
         /\ Menus!MenuIsCurrent
    /\ part = "settings" =>
         /\ Settings!TypeOK
         /\ Settings!ChosenAreKept
         /\ Settings!ShownAreKept
         /\ Settings!TrayKeepsTheApplication

(* What lies over the launchpad is about what lies under it: the menu and  *)
(* the form are of sites that are there, layers keep out of each other's   *)
(* way, transfers of icons reach the account whose sites name them, and a  *)
(* card gives up only an icon whose file is missing.                       *)
LayersHold ==
    /\ part = "layers" =>
         /\ Layers!TypeOK
         /\ Layers!MenuIsOfACard
         /\ Layers!FormIsOfASite
         /\ Layers!OneAtATime
    /\ part = "icons" =>
         /\ Icons!TypeOK
         /\ Icons!IconsReachTheirAccount
         /\ Icons!FailedAreMissing

(* A run of the synchronisation ends as the server said: data are dropped  *)
(* for a deleted account only, a refusal is obeyed and keeps its code on   *)
(* every way, only a client that fits opens a session, the log tells how   *)
(* it ended, and what is tried again can be helped by it.                  *)
RunsHold ==
    part = "run" =>
        /\ Runs!TypeOK
        /\ Runs!DroppedOnlyIfDeleted
        /\ Runs!RefusalsAreObeyed
        /\ Runs!OnlyFittingClientsSync
        /\ Runs!LogTellsTheEnd
        /\ Runs!RefusalsKeepTheirCode
        /\ Runs!RetriesCanHelp
=============================================================================
