# navix: a verification development

navix is a self-hosted navigation page. A Tauri desktop client keeps groups, sites and search
engines in a local SQLite database, an Axum server keeps them per account in another, and web
pages embedded in the server edit the server's copy. A synchronisation, started by hand on a
desktop, brings the two together. This directory holds TLA+ models of the parts where that is
hard, their TLC runs, and proofs checked by TLAPS.

Paths below are relative to `src/`; `server/` stands for `apps/server/src/`, `client/` for
`apps/client/src/`, `tauri/` for `apps/client/src-tauri/src/`, `web/` for `apps/server/web/src/`.

## 1. Inventory

### Components

| component | code | state | operations | status |
| --- | --- | --- | --- | --- |
| Chunked upload session | `client/services/sync.ts`, `tauri/invokes/sync.rs`, `server/api/handlers/sync_handler.rs`, `server/services/sync_session_*.rs` | position and attempts of a run; `SessionManager` in memory; tables `sync_sessions`, `sync_chunks` | start, chunk (retried), complete; expiry, restart | `SyncSession`, `AtomicUpload` |
| Row merge and cursor | `server/services/sync_service.rs`, `server/db/sync_sql.rs`, `tauri/db/repo/sync_repo.rs`, triggers of both migrations | rows with `rev` and `is_deleted`, `last_synced_rev` | edits on either side, merge, answer, apply | `SyncMerge` |
| Groups and sites across devices | the same, with `tauri/db/repo/launchpad_repo.rs` | two tables with a foreign key and names | same-named groups redirected (server) and reconciled (client) | `SyncTables` |
| Desktop session | `client/services/authSession.ts`, `apiClient.ts`, `client/contexts/AuthContext.tsx`, `RootLayout.tsx`, `tauri/db/repo/user_repo.rs` | `localStorage.activeUser`, `users` table, `availableUsers`, `refreshInFlight` | refresh, retry, login, switch, logout, deletion, validation | `DesktopSession` |
| Tokens and accounts | `server/api/routes/jwt.rs`, `server/models/refresh_token.rs`, `server/services/{user,admin}_service.rs` | `refresh_tokens`, `disabled_at`, `deleted_at` | login, refresh (rotation), disable, enable, delete, clean up | `DesktopSession` (partly) |
| Search engines across devices | `sync_service.rs`, `sync_repo.rs`, `launchpad_repo.rs` | one table, unique names, one default | merge, apply, hard deletion on a device | `SyncEngines` |
| Runs of the synchronisation, compatibility check | `client/services/sync.ts`, `client/features/Auth/*`, `server/services/session_service.rs` | log of the run, standing of the account | status, compatibility, start .. complete, sign out, drop the data | `SyncRun`, `AppErrors` |
| Errors from the server to the page | `server/error.rs`, `packages/shared-ts/src/errors.ts`, `client/services/apiClient.ts`, `web/api/index.ts` | none | code, envelope, exception, retry or refresh | `AppErrors` |
| Icon files | `tauri/invokes/sync.rs`, `client/services/{iconSync,user}.ts`, `navigation_service.rs` | a directory of files on both sides, named by rows | save, update and delete with a file; difference of listings, upload, download, clean-up | `IconFiles` |
| Icons on the desktop | `client/services/iconSync.ts`, `client/components/common/DynamicIcon.tsx` | the active user, the cards' images | transfers of a run, switch under it, failed cards | `DeskIcons` |
| Navigation page | `server/services/navigation_service.rs`, `web/pages/Launchpad.tsx`, `ControlCenter.tsx` | sites, `sort_order`, group locks, lock password; the page's copy of them | load, save, delete, sort, search, fold, lock, unlock, set and clear the password | `WebLaunchpad` |
| Session of the web page | `web/api/index.ts`, `web/auth/tokenStore.ts`, `web/router/SessionBootstrap.tsx` | tokens in `localStorage`, each tab's memory, `refreshPromise` | sign in and out, restore, refresh, repeat, switch accounts | `WebSession` |
| Icons on the web page | `web/pages/Launchpad.tsx` | object URLs, failed icons, fetches under way | fetch, abort, cache, revoke, preview | `WebIcons` |
| Preferences of the web page | `web/i18n/I18nProvider.tsx`, `web/pages/Launchpad.tsx`, `ControlCenter.tsx` | keys of `localStorage`, the slider's timer, the status of the lock password | choose, slide, fold, set and clear | `WebPreferences` |
| Layers of the web page | `web/pages/Launchpad.tsx`, `ControlCenter.tsx` | menus, form, control center, focus | open, close, Escape | `WebLayers` |
| Traces of requests | `packages/shared-ts/src/telemetry.ts`, `web/api/index.ts`, `client/services/apiClient.ts`, `tauri/modules/telemetry.rs` | trace and request numbers | send, answer, refuse, replay, record | `TraceContext` (partly) |
| Local launchpad, claiming | `client/pages/Launchpad.tsx`, `client/features/Launchpad/*`, `launchpad_repo.rs`, `claim_repo.rs` | tables of the device, page, form, dialog of groups | load, save, delete, drag, import, claim, switch of users | `DeskLaunchpad` |
| Search engines and folding on the device | `client/pages/Launchpad.tsx`, `SearchEngineManagementModal.tsx`, `client/hooks/*` | default engine in two places, folded groups | choose, save, delete, load, fold | `DeskPreferences` |
| Layers of the desktop launchpad | `client/pages/Launchpad.tsx`, `client/contexts/ModalContext.tsx`, `UserIcon.tsx` | menu of a card, dialogs, alerts, user card, select | open, close, Escape, load under them | `DeskLayers` |
| Accounts of the device | `client/contexts/AuthContext.tsx`, `client/features/Auth/*`, `user_repo.rs` | `users` table, active user, the list, the address field | switch, log out, delete, change the address, refresh | `DesktopAccounts` |
| Dialogs and updates | `client/contexts/ModalContext.tsx`, `client/pages/help/Update.tsx` | stack of dialogs, checks and downloads | open, confirm, dismiss, check, download, cancel | `DesktopDialogs` |
| Menus | `client/components/layout/Menus.tsx`, `client/hooks/useMacAppMenu.tsx` | open submenu, the system's menu and its builds | hover, click, build | `AppMenus` |
| Settings of the device | `client/features/Settings/*`, `client/utils/config.ts`, `WindowControls.tsx` | configuration file, autostart, what is shown | read, change, write, close to tray | `DeviceSettings` |
| Accounts of the server | `user_service.rs`, `admin_service.rs`, `web/components/ControlCenter.tsx`, `web/pages/Login.tsx` | `users`, audit log, the pages' lists | bootstrap, create, disable, enable, delete, clean up, rename, password | `Accounts` |
| The rest | shared UI, writing of records, metadata and bookmark parsing, DTOs, start-up, build | | | not modelled, see section 6 |

### How they interact

A run of `startSync` checks the account (`/auth/status`, through the desktop session, which may
refresh the tokens), checks compatibility, opens an upload session, sends every local row in
chunks, and completes. `/sync/complete` assembles the chunks and merges them in one transaction
(`process_data_sync`), reads the rows changed since the device's cursor, and answers them with the
new cursor. The client applies the answer in one transaction and then transfers icons one by one.
The web pages write the same server tables through `navigation_service` at any time. The
administrator may shut an account at any time. The pieces share: the server's tables; the tokens
of the active user, which every request of a run reads again; the `SessionManager`; and, on the
device, `localStorage` next to the `users` table.

### What is hard, and what makes each component correct

| component | hard behaviour | what must hold |
| --- | --- | --- |
| upload session | lost answers and retries, duplicates that arrive late, a restart that empties the memory and keeps the tables, handlers of one session overlapping | the server processes the whole upload or none of it, once; every run ends |
| merge | several authors, a cursor taken from a clock, uploads merged after the device gave up, triggers that stamp what was only received | nothing is missed, no deletion undone, no edit overwritten by an older state |
| tables | the same name under two uuids, deleted groups, the order of upserts under an immediate foreign key | every sync goes through, tables agree after it, no site vanishes |
| desktop session | one refresh shared by many requests, rotation whose answer is lost, logout or switch while it is under way, two places that say who is signed in | the device keeps a token the server takes; requests stay with their user; a logout stays a logout; nobody waits forever |
| accounts | an account shut between two statements of a login | no new token for it |
| icon files | a file and the row that names it are written in two steps, in two stores; a file may be shared; transfers that fail are only logged | an icon in use is on the server or still to be had from a device; a web page's icon is on the server; one sync makes up for failed ones |
| search engines | two unique indexes, rows written one by one, nothing reconciled | every sync goes through, tables agree after it |
| web session | tabs share `localStorage` and each remembers what it read; one refresh for many requests; sign-out and sign-in under it | what is saved is a token the server takes; a request goes out under its page's account; nobody waits for nothing |
| navigation page | a page changes its copy before and after answers that overlap; a lock and its password are two rows; a sorting has six ends | the copy is the server's; a locked group has a password and shows nothing; a sorting can be finished |
| web icons, preferences, layers | continuations applied at the next render, an effect that aborts all fetches; a timer; one key heard by three listeners | no URL lost and none shown after it is revoked; what is kept is shown; Escape closes the top layer only |
| local launchpad | handlers that go on after a switch of users, names merged by a claim | rows of one user together, page shows the tables |
| device accounts, dialogs, menus, settings | closures older than the state they act on; answers that close what is on top; builds that overtake each other; a file read and written whole | the last act wins, dialogs close their own, the menu is current, other keys survive |
| accounts of the server | handlers of several statements, lists that land late | one administrator, names unique, nothing left of the deleted, every act audited |

The forty hazards judged hardest to test are listed at their lines in `PROJECT.json`, each with the
properties about it.

## 2. Modules

| module | role |
| --- | --- |
| `AtomicUpload` | abstract: an upload is offered, taken whole at most once, and its verdict told |
| `SyncSession` | the session protocol; implements `AtomicUpload` |
| `MCSyncSession` | adds a record of whether a fault has happened |
| `SyncSessionProofs` | theorems about `SyncSession` and `MCSyncSession` |
| `SyncMerge`, `MCSyncMerge` | rows, revisions, cursor |
| `SyncMergeProofs` | theorems about `SyncMerge` |
| `SyncTables`, `MCSyncTables` | whole tables with names and foreign keys |
| `DesktopSession`, `MCDesktopSession` | tokens, accounts, who is signed in |
| `DesktopSessionProofs` | theorems about `DesktopSession`: types, who asks with what, which token the server holds |
| `SyncEngines` | search engines under a sync; checked with `SyncTables` in `MCSyncTables` |
| `IconFiles` | the files of icons, the rows that name them, saves of web pages, transfers |
| `DeskLaunchpad` | the launchpad page of the desktop over its tables; checked with `IconFiles` in `MCDevices` |
| `DevicesProofs` | theorem about `IconFiles` |
| `WebSession`, `WebIcons`, `WebPreferences`, `WebLayers`, `TraceContext` | parts of the web page; side by side in `MCWebPage` |
| `WebProofs` | theorems about `WebSession`, `WebPreferences`, `WebLayers`, `TraceContext` and the form of `WebIcons` |
| `WebLaunchpad`, `MCWebLaunchpad` | the navigation page with its locks and sorting |
| `WebLaunchpadProofs` | theorems about `WebLaunchpad` |
| `DeskPreferences`, `DesktopAccounts`, `DesktopDialogs`, `AppMenus`, `DeviceSettings`, `SyncRun` (with the operators of `AppErrors`), `DeskLayers`, `DeskIcons` | parts of the desktop client; side by side in `MCDesktopPage` |
| `DesktopPageProofs` | theorems about these eight |
| `Accounts`, `MCAccounts` | accounts of the server and the pages that manage them |
| `AccountsProofs` | theorems about `Accounts` |

The modules cut the system by concern, each taking what the others establish as one step:
`SyncSession` shows that an upload arrives whole and once, so an upload is one message in
`SyncMerge`; `SyncMerge` shows what clocks and overlapping syncs do to the cursor, so a sync is one
step and revisions are two sets in `SyncTables` and `SyncEngines`, and again in `IconFiles`, which
follows what happens to files after the rows are settled; `DesktopSession` has a run as four
requests and leaves their contents out; `SyncRun` has the whole run and leaves the tokens out.

Some MC modules put parts side by side that do not act on each other: a variable `part` chooses in
the initial state which of them a behaviour is about, and the variables of the others are 0 in it.
So one run checks several modules over the sum, not the product, of their states. The property
`part = "icons" => P` of such a module is the property `P` of its part.

### SyncSession

*State.* `pc`, `total`, `acked`, `attempt`: the local variables of `startSync` and of
`sendDataInChunks` (`sync.ts:552`); `reply`: an HTTP answer not yet read. `startAt`, `chunkReqs`,
`completeAt`, `built`: the handlers being executed on the server. `live`, `buffer`: the
`SessionManager`. `db`, `expired`, `dbChunks`: the tables. `commits`, `processed`: history.

*Actions.* The client's `SendStart` .. `SyncFailed`. The handlers cut at every `await`:
`StartSession`, `CreateSession`; `CheckChunk`, `AddChunk`, `UpsertChunk`; `CheckComplete`,
`BuildSessionData`, `ProcessDataSync`, `FinishSession`, `CompleteSession`. The environment:
`LoseStart`, `LoseChunk`, `LoseComplete` (the connection breaks and the future is dropped),
`Expire`, `Restart`. A chunk is its type and index: a retry sends the same records.

### SyncMerge

*State.* `clock`, `server`, `local`, `cursor`, `run`, `uploads` and the histories `pending`, `seen`.
A row is `[val, del, rev]` with `val` the number of the edit that wrote it. `Slip` is what the
triggers' floating-point revision may come out low; `Skew` how far a device's clock is off;
`Racing` lets a write fall between the snapshot of a merge and the time taken for its cursor.

*Actions.* `WebCreate/Update/Delete` (navigation_service), `LocalCreate/Update/Delete`
(launchpad_repo), `StartSync`, `ProcessDataSync` (gate `Accepts`, answer `After`), `AnswerSync`
(the cursor), `ApplySyncResult` (upsert with its trigger), `GiveUp`, `LoseUpload`.

### SyncTables

*State.* For the server and every device: `groups`, `order` (the ids), `sites`; per device `unseen`
(server rows after its cursor) and `later` (rows whose local revision is the later one).

*Actions.* The edits of a device and of the web pages, and `Sync`, one step made of
`MergedGroups` (a fold over the uploaded groups: gate, same-name touch), `Home` (redirection of
sites), `Reconciled` and `Applied...` (the client's order: reconcile, upsert groups, upsert sites,
delete emptied groups with the cascade). A sync may be refused by the server, merged and not
applied, or applied.

### DesktopSession

*State.* Server: `account`, `rows`, `expired`, `issued`, `renamed`, and `calls`, the login and
refresh handlers under way. Device: `users` (the table), `active` (`localStorage.activeUser`),
`listed` (`availableUsers`), `flight` (`refreshInFlight`), `sync`, `login`, `leaving`, `told` (a
`user-rename` event), `watch` (`validateActiveUser`). An access token and the refresh token issued
with it are one value: the client reads and writes them together.

*Actions.* Server handlers one statement at a time (`FindValid`, `GetUser`, `Revoke`, `Create`),
the administrator's acts, renaming. On the device: `Refresh...` (performTokenRefresh and
clearInvalidSession), `Login...`, `WrongPassword...` (a 401 of the login form starts a refresh of
the session it was called in), `SwitchActiveUser`, `Leave...` (logoutUser, deleteUser and the three
handlers of a refused run), `Validate`, `Sync...`, `Rename...`, `Restart`. `SetActive` is
everything a change of the active user triggers: storage, the listener of AuthContext, the effect
of RootLayout.

*Named abstractions.* The requests of a run are check, start, complete and icon: chunks behave
like complete. Of several validations of one user only the newest counts. The read of the table
and the update of the list are one step. When `MaxTokens` pairs were issued a further insert
fails, which it may do anyway.

### IconFiles

*State.* `rows`, `table`, `unseen`, `later`: the sites of the server and of each device, as in
`SyncTables`, reduced to whether a site lives and which file it names. `store`, `disk`: for each
file, whether it is absent, cut short or whole, in the account's directory on the server and in the
icons directory of each device. `saves`: the web requests under way, each with what it read, what it
will store and the step it is at. `sync`: what a run has left to move. `named`: the names the
server has made. `owed`: history, the files the server asked a device for and has not, or not whole,
received last. `stale`: history, icons kept by a save that had read its row before a sync changed it.

*Actions.* `CreateWebsite`, `UpdateWithUpload`, `UpdateWithoutUpload` write the file and leave a
save, which goes on with `SaveRow` (or `SaveRowFails`, which discards the new file),
`CountReferences` and `RemoveIcon`; `DeleteWebsite` is one statement. A device edits with
`SaveItemWithIcon`, `SaveItem`, `DeleteItem` and `DeleteUserWithData`. `Exchange` merges the rows
and takes the difference of the listings (`calculate_icon_diffs`); `UploadIcon`/`UploadDone` and
`DownloadIcon` move one file each; `Skip` is the failure that is logged. `TransferFails`,
`ServerStops` and `DeviceStops` are the faults, each of which may leave a file cut short.

*Named abstractions.* Files of a desktop are named by a hash of their content, so one name stands
for one content; the server makes a new name for every upload of a web page. Search engines keep
their icons (`EngineFiles`). A device's user edits between syncs, because `SyncOverlay` covers the
window during one. `ensure_group_owner` refuses before anything is written and is left out, as is
a removal that fails, which leaves a file nobody names. With `Racing` FALSE two updates of one
site do not overlap and no sync settles between the count and the unlinking of a clean-up; what
happens otherwise is told in section 7. An update and a sync of the same site do overlap.

### SyncEngines

*State.* `engines`: the table of the server and of each device; `missed`, `newer` as `unseen` and
`later` of `SyncTables`; `result`: how the last sync of a device went; `gone`: what a device deleted
for good; `clashed`: a name or the default has passed from one engine to another.

*Actions.* The edits of each holder and `Sync`: rows are sent and answered in the order of their
names, the same-name touch of the server included, and each row is written if both unique indexes
allow it; the first row that is refused fails the transaction (`Refused`, `Unapplied`).

### WebSession

*State.* `stored` and `accounts`: `localStorage`; `cache`: what each tab's `tokenStore` remembers;
`page`, `shown`, `listed`: the tab as it is drawn; `req`: requests of the page with the token they
left with; `calls`: the refreshes and logins under way; `due`: timers; `rows`, `owner`, `expired`: the
server. *Actions.* The request and its refusal, the refresh that others join, its outcomes (answered,
refused, lost), bootstrap, sign-in and -out, the switch of accounts, `storage` events that tabs do
not listen to (a tab learns of another only when it reads). `crossed` and `troubled` name what the
properties exclude: sessions exchanged by another tab, answers lost.

### WebLaunchpad

*State.* `status`, `home`, `place`, `locks`, `password`: the server's tables. Per tab, `shelf` is the
array the page holds, `marked` and `open` the locked and the unlocked groups, `hits` what a search
leaves, `sorting` and `snapshot` the sorting mode, `dialog` and `banner` those of the locks. `calls`
are handlers between two awaits, with what they saw. *Actions.* Each handler of the page up to its
first await, each statement or transaction of `navigation_service`, each continuation; `CallFails`
anywhere. A list is read in two statements. `crossed` is a page with handlers that overlapped or a
server somebody else wrote to; `raced` a lock inserted after the password was cleared. A group whose
status is being read for an unlock is not clicked again, which the page would allow: the second answer
opens the same dialog, or finds the unlock under way.

### WebIcons, WebPreferences, WebLayers, TraceContext

`WebIcons` has React's batches: continuations enqueue, `Commit` applies the queue and runs the
effect's clean-up and body when a dependency changed. `urls` is the cache, `alive` the object URLs not
revoked. URLs are revoked by what arrives in place of another (`ApplyPut`), by a load, a save and the
answer to a deletion (`ApplyLoad`, `ApplySaved`, `ApplyRemoved`, the last two through
`DiscardSiteIconCache`), by the form and by `Close`. A deletion is two actions, the server's and the
answer's, so a load sent before or a form opened meanwhile may come between. Clearing the lock password
unlocks the group on the server, drops the page's token and so runs the effect again. Aborted fetches
are one value, `Aborted`, because nothing reads any more which they were. `WebPreferences`
has the keys of `localStorage`, each tab's copy, the 120 ms timer of the inset, the folded groups of
each user and the status of the lock password. `WebLayers` follows one Escape through the listeners
of form, document and window with a render in between. `TraceContext` has one actor per application
(`web`, `client`, `host`) and the numbers a request carries, a record notes and a server can know.

### DeskLaunchpad

*State.* `groups`, `sites`, `seeded`: the device's tables; `page`, `form`, `config`: what
`LaunchpadPageContent`, the form and the dialog of groups hold; `calls`: handlers waiting for a
command, with the user, rows and callbacks they saw. *Actions.* Load (with the seeding of a first
start), save, delete, drag, fetch of metadata, the dialog's list, save, removal, order and import, the
claim, the switch of users; each command answered in any order or refused. `mixed` and `crossed` name
the overlaps the properties exclude.

### The desktop client's other parts

`DeskPreferences`: the default engine in the table and the one in `localStorage`, settled at each
load. `DesktopAccounts`: the handlers of AuthContext with the closures they were made with.
`DesktopDialogs`: the stack of ModalContext by key, checks, downloads and their events. `AppMenus`: the
hovering of submenus and the macOS menu built piece by piece. `DeviceSettings`: the configuration
file read, changed and written whole by each setter. `DeskLayers`: mouse, click and Escape over card
menu, page dialogs, alerts, user card and select, with loads under them. `DeskIcons`: the transfers of
a run, each asking anew who is active, and the cards' images. `SyncRun`: the requests of a run in
their order, how each refusal travels (`AppErrors`: envelope, text, exception), what becomes of the
account, and the row of the log, whose last write may fail.

### Accounts

*State.* `users`, `gone`, `data`, `audit`: tables; `page`: what each tab shows; `call`: handlers at a
statement. *Actions.* Each statement of bootstrap, create, disable, enable, delete, clean-up, rename
and password change, and the page's part before and after; `Fail` anywhere. `twice`, `late`, `failed`,
`unsure` name the overlaps and failures the properties exclude.

## 3. Runs

| run | instance | shows |
| --- | --- | --- |
| `session` | 1 run, 2 types of 0..2 chunks, 2 tries, 1 restart, every fault, `Fairness` | all safety properties, refinement of `AtomicUpload`; `EverySyncEnds`; `FailsOnlyWithCause`: a run fails only after a fault |
| `merge_solo` | 1 device, web pages, 2 rows, 3 edits, 7 moments, `Slip` 1 | `NothingIsUndone`: no deletion comes back (`TombstoneStays`), and what a device's user wrote is overwritten only by what was written later (`EditYieldsOnlyToNews`) |
| `merge_pair` | 2 devices, web pages, abandoned syncs, an upload that comes late, cursor read as 0 | `CursorIsTruthful`, `TombstoneStays` |
| `merge_race` (violation) | 1 device, `Racing` | a deletion between snapshot and cursor is not told and then undone |
| `tables` | 2 devices, web pages; 3 groups, 1 site, 2 names, 5 edits; 3 engines, 3 names, 4 edits; lost answers | foreign keys and deletions hold; as long as no name (no default) is given twice every sync goes through and tables agree |
| `desktop` | 2 users, 3 token pairs, no faults | the device keeps a token the server takes; a run shows only its user's token |
| `desktop_faults` | 1 user, 2 token pairs, 1 expiry, fault, restart or act of the administrator | the device keeps a token the server takes, unless an answer or a statement was lost; no token for a shut account, every request ends, logout prevails |
| `devices` | icons: 2 devices, 2 sites, 4 files, 2 edits, 1 fault; launchpad: 2 users, 3 groups, 3 sites, 2 acts | a web page's icon is on the server, whole; no icon in use is lost but from the server that owes it or by a stale save; one sync repairs what failed; the page shows the tables, rows of a user stay together, names and icons stay apart |
| `web_page` | 2 tabs, 2 accounts, 3 events; 2 sites, 4 URLs; 2 keys; 3 applications | saved sessions are good, requests stay, nobody waits for nothing; URLs are revoked once and none is shown after; preferences are kept; Escape spares the search; one trace |
| `web_launchpad` | 1 tab, 2 groups, 3 sites, 4 events | locked groups have a password and are empty, a sorting can be finished, the page is true |
| `desktop_page` | 2 users, 2 accounts, 2 cards, 2 icon files, 2 to 7 acts per part | the engine is the user's and the choice is kept; the active account is the one meant; dialogs close their own; settings survive; refusals are obeyed; menus, forms and searches stay with what they belong to; icons reach their account |
| `accounts` | 2 tabs, 2 requests at once, 3 accounts, 2 acts or failures | one administrator, unique names, nothing left of the deleted, the list is the table, every act is audited, a password told of holds |

A property of a composition is a conjunction of the properties its parts state, each of them named
and explained in its module:

| property | of |
| --- | --- |
| `EnginesHold` (tables) | `SyncEngines`: `EnginesGoThrough`, `SyncedEnginesAgree` |
| `IconFilesHold` (devices) | `IconFiles`: `WebIconsAreThere`, `NoIconIsLost`, `ASyncMakesGood` |
| `LaunchpadHolds` (devices) | `DeskLaunchpad`: `PageIsTrue`, `RowsBelongTogether`, `GroupNamesDiffer`, `IconsStayWithTheirSites` |
| `SessionHolds` (web_page) | `WebSession`: `SavedSessionsAreGood`, `TabKeepsItsSession`, `RequestsStayWithTheirPage`, `NobodyWaitsForNothing` |
| `IconsHold` (web_page) | `WebIcons`: `DrawnAreAlive`, `NoUrlIsForgotten`, `EveryIconIsSettled` |
| `PageHolds` (web_page) | `WebPreferences`: `KeptIsShown`, `FoldingStaysWithItsUser`, `LockStatusIsTrue`; `WebLayers`: `SavingFormStays` |
| `TracesHold` (web_page) | `TraceContext`: `OneTrace`, `RecordsNameARequest` |
| `ActsAreMeant` (web_page) | action properties of `WebIcons` (`AsPreviewed`) and `WebLayers` (`SparesTheSearch`) |
| `LocksHold` (web_launchpad) | `LockedGroupsHaveAPassword`, `LockedGroupsAreEmpty`, `SortingCanBeFinished` |
| `AccountsHold` (desktop_page) | `DeskPreferences`: `EngineIsTheUsers`, `ChoiceIsKept`, `FoldingStaysWithItsUser`; `DesktopAccounts`: `ActiveIsSignedIn`, `ListIsTheTable`, `AddressesStayWithTheirUser`, `MeantIsActive`, `DeletedStayAway` |
| `WindowHolds` (desktop_page) | `DesktopDialogs`: `OneDialogPerKey`, `SweptOnlyIfLoose`, `ButtonTellsTheTruth`, `DownloadIsShown`; `AppMenus`: `OneSubmenuWhileHovering`, `MenuIsCurrent`; `DeviceSettings`: `ChosenAreKept`, `ShownAreKept`, `TrayKeepsTheApplication` |
| `LayersHold` (desktop_page) | `DeskLayers`: `MenuIsOfACard`, `FormIsOfASite`, `OneAtATime`; `DeskIcons`: `IconsReachTheirAccount`, `FailedAreMissing` |
| `RunsHold` (desktop_page) | `SyncRun`: `DroppedOnlyIfDeleted`, `RefusalsAreObeyed`, `OnlyFittingClientsSync`, `LogTellsTheEnd`, `RefusalsKeepTheirCode`, `RetriesCanHelp` |
| `AccountsAreSound`, `ActsAreTold` (accounts) | `NamesAreUnique`, `OneAdministrator`, `DeletedLeaveNothing`; `EveryActIsAudited`, `ListIsTheTable`, `ToldPasswordHolds` |

The types of each part (`TypeOK`) are among the conjuncts.

`CHECK_DEADLOCK FALSE` everywhere: the system may stop, since users and faults need not act and
edits, time and tokens are bounded.

Many properties exclude an overlap by a history variable (`crossed`, `raced`, `mixed`, `reused`,
`clashed`, `twice`, `late`, `unsure`, ...). The exclusion is not an assumption about the system: the
model contains those behaviours, the property fails in them, and section 7 tells what happens there.
What the run shows is that nothing else breaks it.

### Why the bounds are enough

*Session.* Two chunks of one type and two types have every relation the code distinguishes: first
and last chunk, an empty type before or after a full one. Two tries make a duplicate and a late
one; one restart can fall anywhere. Sessions of different runs share no variable, so one run is
checked here and any number is covered by the proofs.

*Merge.* A violation of the cursor needs two writers, a sync and the sync after it: three edits
and seven moments allow two syncs with an edit before, between and after. Rows do not influence
each other in the merge; the second row lets one be answered and the other not.

*Tables.* Three groups allow a name given twice and a third bystander; five edits allow two groups
and a site on one device and an edit on each side between two syncs.

*Desktop.* Two users are needed for a request that could show another's token; three pairs of
tokens allow a login of each and a refresh. `Begun` gives the starts of a device used for long, so
that an old token does not cost an event. `desktop_faults` puts one event (an expiry, a lost answer,
a failed statement, a restart, an act of the administrator) at any moment; two events that coincide
are not covered. A lost answer to a refresh really does leave the device with a dead token, so
`ServerHoldsTheToken` excludes users in `troubled`, and only those.

*Icon files.* Two sites and an engine share a desktop's file; two names of the web page allow a
superseded upload. Two edits allow every pair of a save and another author's edit, with a sync of
either device between their steps and a fault anywhere; `Begun` gives a site with an icon of either
kind, so that neither edit is spent on one. The devices are interchangeable.

*Engines.* Three engines allow one on each side of a pair that exchanges a name or the default.

*Web page.* Two tabs are what it takes to cross a session; one request per tab can be refused,
wait, be repeated and be lost, while three events (expiry, sign-out, another tab's refresh) fall
anywhere. Six tokens allow a refresh of each tab after a login. Two sites with two versions of an
icon show a late answer next to an early one; the parts with keys and layers have a few acts more
than the longest chain they react to.

*Navigation page.* The tables allow a group that loses a site and another that gains it; four
events allow a lock and a search, a sorting and a failure to overlap. One tab suffices, since others
count as writers of the server only (`Writes`).

*Desktop parts.* Each has two or three acts more than the overlaps its code can have: a switch under
a handler, two handlers of one kind, a failure. A menu needs one event per hover. *Launchpad of the
device.* Two acts overlap in every order of their answers; a switch of users is one of them.

*Accounts.* Two acts in two slots interleave statement by statement; a third account lets an act
fall on the result of one before it. A fresh server has no account, another has an administrator and
a user who may be shut already.

## 4. Fairness

`SyncSession`: `startSync` is one async function whose every wait is bounded by the time-out of the
HTTP client, so a run that began goes on; the server's executor polls every handler that is ready.
Each run's client, start handler, chunk handlers and complete handler are weakly fair. Nothing is
assumed of faults, expiry, restarts, or of a user starting a run.

`DesktopSession`: the same for each server handler, and for the continuations of the device's
promises (refresh, login, logout, the run, the listener, the validation). The user, the
administrator and faults are not fair.

Everything else is checked for safety only. That one sync repairs what failed before it
(`ASyncMakesGood`) and that no request waits for a refresh that is not under way
(`NobodyWaitsForNothing`) are stated as invariants, without fairness.

## 5. Proofs

Every theorem is about the specification a run checks, for every value of its constants that satisfies
the assumptions of its module (`SyncSessionAssumption`, `SyncMergeAssumption`, `UsersAssumption`,
`TokenAssumption`, `BoundsAssumption`, `AccountsAssumption`, `WebSessionAssumption`,
`WebPageAssumption`, `WebLaunchpadAssumption`, `DesktopPageAssumption`, `IconFilesAssumption`: bounds
are natural numbers, null values and the keys of one storage are apart, the anonymous user has no
account, a name the server makes is of one site), and for the hypotheses named here and no others.

| module | theorem | states | hypotheses |
| --- | --- | --- | --- |
| `SyncSessionProofs` | `TypeCorrect` | `TypeOK` | |
| | `SessionCorrect` | `SessionInv`, the inductive invariant | |
| | `WholeUpload` | `WholeUploadProcessed` | |
| | `NeverTwice` | `ProcessedOnce` | |
| | `AckedKept` | `AckedChunkIsKept` | |
| | `CompletedGone` | `CompletedSessionIsGone` | |
| | `FailsWithCause` | `FailsOnlyWithCause` | |
| | `Refinement` | `UploadIsAtomic` | |
| `SyncMergeProofs` | `MergeTypes` | `TypeOK` | |
| | `CursorsAreTruthful` | `CursorIsTruthful` | `~Racing`, no device's clock behind |
| | `TombstonesStay` | `TombstoneStays` | `~Racing` |
| | `EditsYieldOnlyToNews` | `EditYieldsOnlyToNews` | `~Faulty`, one device |
| | `NothingComesBack` | `NothingIsUndone` | `~Racing`, `~Faulty`, one device |
| `DesktopSessionProofs` | `DesktopTypes` | `TypeOK` | |
| | `RequestsStay` | `RequestsStayWithTheirUser` | |
| | `NoTokensForShut` | `NoTokensForTheShut` | |
| | `TheServerHoldsTheToken` | `ServerHoldsTheToken` | |
| `AccountsProofs` | `AccountsStaySound` | `AccountsAreSound` | |
| | `ActsStayTold` | `ActsAreTold` | |
| `DevicesProofs` | `IconsAreKept` | `IconFilesHold` | `~Racing` |
| `WebProofs` | `SessionStaysWhole` | `SessionHolds` | |
| | `WhatIsKeptIsShown` | `PageHolds` | |
| | `OneTraceForAll` | `TracesHold` | |
| | `ActsDoWhatTheyMean` | `ActsAreMeant` | |
| `DesktopPageProofs` | `RunsEndAsTheServerSaid` | `RunsHold` | |
| | `LayersKeepApart` | `LayersHold` | |
| | `TheWindowTellsTheTruth` | `WindowHolds` | |
| | `EveryUserKeepsTheirOwn` | `AccountsHold` | |
| `WebLaunchpadProofs` | `LocksAreKept` | `LocksHold` | |
| | `ThePageIsTrue` | `PageIsTrue` | |

No property is inductive as it stands. Each invariant below was checked by TLC before it was
proved.

*SyncSession.* That what `ProcessDataSync` commits is whole depends on everything since the first
acknowledgement. `SessionInv` follows that chain. A run without an answer to its start has left no
trace (`StartInv`), so its session id is its own. A chunk request past `AddChunk` has its chunk in
the buffer for as long as the session is in memory (`RequestInv`), hence so has an "ok" not yet read
(`ReplyInv`) and everything acknowledged (`AckedInv`). The client completes only when everything is
acknowledged, and sends one complete (`CompleteInv`); `BuildSessionData` needs the session in
memory, and a session that lost its buffers is not in memory, so what is built is the plan. After
the commit the same invariant says that the session leaves memory before its row says `completed`,
and that no chunk handler can recreate it, because `AddChunk` does not create sessions. `AttemptInv`
bounds the attempts, which `TypeOK` needs. That the protocol alone never fails (`FailsWithCause`)
needs more: `CauseInv` says of a run that nothing has disturbed that it has not expired, has no
refusal to read and at most one chunk request, which it waits for, and that its session is in memory
and its row `active` from the start to the commit; so each error path of a handler contradicts one
of these. The lemmas go by component; `NextUnique` (the next chunk is one) ties an answer to its
chunk. For the refinement each step is shown to be a step of `AtomicUpload` or a stutter under the
mapping `Upload`.

*SyncMerge.* `MergeInv` says of every row what the device, its uploads and the answer on its way
know. Cursors are never ahead of the server's clock (`Cursors`); an upload carries a cursor that was
the device's when it left, and the one a device waits for is its table as it still is (`Snapshots`).
Up to its cursor a device, and up to the cursor it carries an upload, holds no deleted row alive
(`DeletionsKnown`), and what is about to become known by an answer is in that answer
(`DeletionsTold`); so whoever uploads a deleted row alive has a cursor before the deletion, and the
gate keeps the tombstone. Nothing here depends on clocks, and `TombstonesStay` assumes nothing of
them. `RowsKnown` and `RowsTold` say the same of contents, with edits not yet synchronised in
`pending`. For these the gate must let the user's edit pass wherever it hides the server's row, so
it must be stamped after the cursor (`EditsPass`), which only a clock that is not behind guarantees:
the edit of a slow device may carry a revision below the cursor, and is lost while the device counts
it as sent. `Racing` is the finding of `merge_race`. `EditYieldsOnlyToNews` is an action property;
it needs one device without faults, because applied rows are stamped anew and look edited (section
7). `SoloInv` says that what the server has after the cursor was never said by the device, and
follows it through merge, answer and application (`IsNews`, `WillBeNews`, `AnswerIsNews`).

*DesktopSession.* `OwnInv` is typing with ownership: a token is stored under, sent for and answered
to the user it was issued to, in the server's rows, the calls, the refresh, the login form, the run,
the rename event and both tables of the device; a handler that may still issue tokens found its
account open after it arrived. `RequestsStay` and `NoTokensForShut` follow from it.

*The server holds the token.* The difficulty is the window in which a refresh has revoked the token
of the table and the device does not know yet, while logins, a restart, a switch, a rename that
writes an old row back and a second refresh fall into it. `TokenInv` has three parts.
`FreshInv`: a token on its way to the table is carried once, was issued, has never been shown to
anyone who could ask with it, and is valid at the server unless the account is lost. `WorkInv`: a
refresh call that may still revoke the token of the table is awaited by `refreshInFlight`, or its
user is `troubled`. `KeptInv`: the property itself. Only together are they inductive: the revocation
of a token is harmless because the call is awaited, the arrival of the new one because it is fresh.

*Accounts.* Handlers interleave statement by statement, so nothing can be said of an account that is
not qualified by the requests that are between two statements with it. `Inv` consists of `ShapeInv`
(types, and what a request carries at each statement), `KnownInv` (an account once met is in the
table or gone for good, and who is listed is no administrator: this is why no act reaches the
administrator), `UniqueInv`, `AdminInv` (with `twice` unset, a bootstrap past its count found an
empty table and is the only one), `DataInv` and `AuditInv` (what a deleted account has left, or the
audit lacks, some request at a named statement is about to remove or to write), `PasswordInv` (of
changes of one password at most one is under way, and once the server has made it the answer carries
it) and `ListInv`. The last says where a page that is neither behind nor crossed gets its list from:
an act of its own that has changed the table and will ask for the list again, a list under way that
is not read yet or was read after the last change, or the list it has. That needs the place of a
request: a deletion counts as done from its first statement on (the table is changed before the rows
are removed), a refused act has changed nothing, and a page that leaves the control centre takes no
answers with it. `NextIsStep` groups the actions by what they do to pages, requests and tables, and a
lemma per action says what it leaves alone; the eight parts of the invariant are then preserved one by
one over those groups.

*WebSession.* `SessionHolds` is a conjunction of four promises, and none can be proved without the
others. `Own` says whom every token belongs to, wherever it is: in the server's rows, in the storage
all tabs share, in the variables of a tab, in a list that was read when the control center opened, in
a call. The initial states need a pigeonhole: one token for each account, so every issued token has
an owner. `Fresh`: the answer of a call carries a token no one holds yet and the server will take.
`Saved`: what the list of accounts keeps for a user who is not `troubled` the server will take, or the
call that has just replaced it is found or answered and will be heard. `Unheeded` is its counterpart:
a call whose page has gone, or whose answer is lost, has made its user troubled if it had already
rotated a token. `Order` is the order of a page: a closed tab has no call that anyone hears, a
booting tab only the call of its boot, no tab has two refreshes, and a request waits exactly while
there is one. `Settles` says what a tab that is alone shows, which is no matter of tokens alone: between
a logout and the leaving of the page, after a refused refresh, or while a login has been answered, the
storage and the page differ, and for each of these moments it names what the page can still do. The
lemmas follow what steps have in common: answers of the server (`Handled`), answers the page hears
(`HearStep`), what a tab does by itself (`OneTabActs`), a page that opens (`Boot`).

*The web page.* `WebProofs` takes the parts of `MCWebPage` one by one; `PageInv` says of each part
its invariant and that the others are not there. `TraceInv`: a trace once known to an application is
the trace of its context, or two requests have left early; a number the context notes was carried, or
the request it was drawn for bears another, is a repetition, and is still under way. `LayersInv` is
small: the form and the control center are never open together, which every opening and every
`Escape` re-establishes. `FormInv` ties the file of a form to its preview; that a new URL is not one
that is alive needs a least number, which `FS_StrictSubsetOrderingWellFounded` and `WFMin` give for
the initial segments without induction of our own. `PrefInv` has the folding under every key and in
every request that captured one (`Folded`): an answer that comes when the page has changed hands
writes under the key it captured or nowhere. `StatusKnown` follows the status of the lock password
through overlapping requests: while a control center is not behind, all answers on their way to it
say what the server has, so the order in which they come is no matter, and whoever changes the
password leaves every other center of the user, and its own if it still waits, behind.

*The desktop client.* `DesktopPageProofs` does the same for `MCDesktopPage`. A run (`RunInv`) is
described by where it stands: what it has found so far of the account, of its client and of the
session (`WorkInv`), and, where it decides, that the error it holds is the last word of the server
(`DecideInv`, `EndInv`). `startSync` looks at the text of an error before its code, and the same
refusal comes in four forms; that text and code lead to the same decision is a fact about the
operators of `AppErrors`, proved code by code (`HandlersAgree`, `CodesAreKept`). An account is dropped
only for what `/auth/status` alone says, and a deleted account does not come back (`BoundInv`). Of the
layers, `MenuInv` says that an open menu lies alone, and that its card is on the page with no handler
on its way that could take it away; `FormInv` that the site of an open form is kept, with no deletion
of it under way: both unless `moved`, a change from elsewhere. Of the icons, `RunIsOfItsUser` says
that until a switch crosses a run (`crossed`) the files to be sent and the one on its way are of the
run's user, who is the active one; `FailedAreMissing` that after a run a card that gave up has no file
on the device, since whatever brings a file ends in a load or a retry. Of the dialogs,
`ChecksInv` and `CalmInv` describe the stack while nobody has pressed a covered button, an answer has
closed no stranger and no download is heard of that was given up: a check that waits has its alert on
top, what runs for the page is one check or one download and never both, a download has its progress
in the stack, and the question whether to download is open only while neither runs. What opening,
closing and replacing do to a stack are lemmas about sequences (`OpenedIsOver`, `OpenedInPlace`,
`ClosedIsWithout`). A dialog must have room (`MaxDialogs` is positive). Of the menus, of the builds
under way the one that is not cancelled bears the label (`MenusInv`; no entry of the bar is `None`). Of
the settings, until two handlers overlap, `SettingsInv` says where each choice is: in the file, or, while
the file is empty, in what the one handler under way has read and is about to write.

*Icon files.* Of `MCDevices` the part of the icons is proved. A file is removed by name, so the proof is
about who may name it. `Owned`: a name of the web page belongs to one site. `SaveOK` follows a save:
what it uploaded nobody else names, so discarding it harms nobody; what it will clean up is no more the
icon of its own site, and past the count of nothing, because until the unlinking no sync settles and a
save that would bring the name back is noted as `stale`. `SeenOK` is why a sync brings back no removed
icon: a row the device has seen names what the server's live row names, or a file the device has; so
what merged rows refer to newly is on the disk of the device, and either whole on the server or owed
(`PartOwed`). That an upload never touches an icon of the web page (`SyncOK`) follows, because those
are there when the listings are compared. `CalmOK` says what an undisturbed sync has left to do. The
proof showed that the property as it was first stated could fail beyond the bounds of the run: for the
two reasons section 7 gives with `stale` and with files cut short, which it now names.

*What belongs to a user.* `DesktopPageProofs` also proves what `MCDesktopPage` says of the preferences and
of the accounts. An engine in use is kept twice, and what makes the two agree at rest is spread over
the handlers under way. `ListInv`: until something crosses a load, every handler is of the active user
and of this page, what one has read is the user's rows, and a page whose list is not of them has a load
that still reads. `EngineInv`: the engine in use is good (one of the user's or built in, and the
default if there is one), or a load or a choice is still to settle it; whoever has read the default has
read the one that is there, since a choice to be written and a default that was read never stand side by
side. `ChoiceInv` needs less, only that nothing overlapped the choice: all handlers have seen the engine
chosen, and it is the default or about to be written as such. That a new row takes a free place needs a
least number, as on the web page. Of the accounts, the types already carry that a handler's address is
one of its account's. `ActiveInv`: the active account is signed in, or a handler is under way that will
make another one active, unless one signed it out as it became active. `QuietInv`: while acts do not overlap, either one
handler works alone, and it says what it has still to bring about (`Works`), or none does and the list
and the active account are those of the table (`Idle`), which a check or the start does not disturb.
The anonymous user must have no account, or its row could be deleted.

*The navigation page.* `Inv` of `WebLaunchpadProofs` consists of the types, of what `LocksHold` says
of passwords and sorting, and of `PageInv` for every page that nobody overtook. Such a page waits for
one answer at most, and `Knows` says what it knows while it waits: the page is what the server has
(`Settled`), but for what that answer will tell. A handler has done some of its work before it asks,
so there is a clause for each: a group just locked is not marked yet, one whose lock has gone still
is, and its handler carries the rows; a site deleted on the server is still shown; a load carries what
was locked when it read the groups, and no row of those. What is shown is compared as a set of rows.
The page draws it by the order of the server, which a definition by `CHOOSE` only promises if there is
such an order: `SortedExists` proves it for every set of rows of different sites, by well-founded
induction over finite sets. A sorting needs `Sorts` and `Draft`: the snapshot has the rows of the
server until the order is saved, the page has the same sites and either the snapshot's order or
numbers from one on, which dragging keeps (`MovedRows`) and the server stores. `AsksFor`: a dialog
asks for a password only for a group that is marked, so an answer can be trusted to concern one. A
locked group is empty on the page (`Empty`), which no handler may forget: it is what `LocksHold` says
of the page.

*What proving changed in the models.* Some definitions relied on TLC where TLA+ leaves a value open.
`CASE` expressions with overlapping guards, of which TLC takes the first, are now disjoint or `IF`
(`GetUser` of `DesktopSession`, `RefreshUserTokens` of `SyncRun`, `ReassignAnonymousData` of
`DeskLaunchpad`, `Before` of `WebLaunchpad`). `DesktopSession` needs `MaxTokens` positive and
`Accounts` two accounts, `WebSession` an account and a token for each, since their initial states have
tokens and accounts. `InsertUser` of `Accounts` takes any unused uuid and not the least. `OneTrace` of
`TraceContext` compares traces and no longer counts them, the fold of a render in `WebIcons` has a
name, `Rendered`, and `TypeOK` of `WebPreferences` puts parentheses where TLC and the prover read
`UNION` differently. `Sorted`, `Drawn` and `Without` of `WebLaunchpad` are defined by the rows they
return and not by `SortSeq` and `SelectSeq`, which the prover does not expand. A site saved from a
form whose group has since left the page is now among the overlaps of `DeskLaunchpad`; and a page
counts as caught up again only when the read that brings it up to date comes while it is loading: of
two loads the first brings the page back, and what it shows until the second ends may be old.
`GroupsOf` and `ItemsOf` choose among the orders of the rows, where they had called `SetToSortSeq`.

*Only model-checked.* Liveness (`EverySyncEnds`, `RequestsEnd`, `LogoutPrevails`), which needs
fairness and `ENABLED`, out of the prover's reach. `SyncTables` and `SyncEngines` fold over the
uploaded rows, and what a fold yields for every table needs induction over data, which the installed
provers cannot be given; so does `Rendered`, and with it `IconsHold`. `DeskLaunchpad` (`LaunchpadHolds`) is
checked and not yet proved.

## 6. What is not modelled, and why

* Contents of rows, icons and messages, wording and logging. No property is about them.
* Rendering, shared UI, DTOs, parsing of metadata and bookmarks, calls to the operating system,
  start-up, build and scripts: no state shared between actors, or run once. `Admin.tsx`,
  `UserSettings.tsx`, `PreferenceDock.tsx` and `UserMenu.tsx` of the web page are on no route.
* Of the navigation page the sidebar that scrolls to a group (`web/pages/Launchpad.tsx:1029`, 1286)
  and the proxy for favicons; of the desktop form the upload of an icon from a file, which waits for
  nothing but the reading of the file.
* What is written to logs: `TraceContext` has the numbers a record bears, not the record.
* The numbering of traces by the server, and revoked tokens in `Accounts` (they are in `WebSession`
  and `DesktopSession`).
* Device clocks that differ from the server's: `SyncMerge` is parameterised by `Skew`; the runs
  have it at 0. With a slow device an edit may carry a revision below the server's and is dropped
  by the gate; this follows from comparing revisions of two clocks (`sync_service.rs:154`).

## 7. Observed while modelling

The violation run `merge_race` is listed as a finding in `PROJECT.json`. The following is true of the
models too, most of it shown by traces TLC gave while the properties were being stated, and is what
their history variables exclude.

*Synchronisation*

* A device that renames a group to the name of one it deleted finds, in the answer to its own sync,
  each of the two in the way of the other, moves the sites back and forth and deletes both groups, and
  by the foreign key every site in them, although `navigation_service.rs:781` says that rows are never
  physically deleted because the synchronisation tells of deletions by tombstones.
* A second desktop that has sites in a group of the same name as the server's can apply no answer:
  `reconcile_website_group_conflicts` (`sync_repo.rs:75`) moves the sites to a group the next step
  inserts, and the foreign key is immediate.
* A site the server already has is not redirected when its group was (`update_sync_website`): the
  upload fails on the foreign key, at every sync, once a name was reused.
* A group deleted on one device while a site is added on another leaves a live site in a deleted group.
* Choosing as default an engine whose name sorts before the current default, or whose old default the
  server keeps, violates the server's unique index and fails the whole sync, groups and sites
  included, at every later one (`README.md:41` promises that engines synchronise). An engine named as
  one of another device is left out by the server and makes its answer inapplicable. A deleted engine
  comes back once another device's sync stamps it again.
* Applying an answer updates rows, and the trigger gives them a new revision: a row a device has only
  received looks edited, and with two devices its echo can win over the other's edit. This is why
  `EditYieldsOnlyToNews` is checked with one device.
* After a lost answer to `/sync/complete` the next run sends from the old cursor; the server's own
  stamps of the first upload then count as news.
* A session whose client gave up is never removed from memory: nothing sweeps expired rows.
* The `user-rename` listener (`client/services/sync.ts:365`) writes back the user the run started
  with, tokens from before a refresh included, and `/sync/start`, `/sync/chunk`, `/sync/complete`
  resolve with a refusal instead of rejecting, so no refresh follows and the run signs the user out
  although the server holds a good refresh token; `sync.ts:628` says that an invalid token is
  refreshed automatically.
* `startSync` classifies an error by its text before its code (`sync.ts:836`), although the comments at
  `sync.ts:111` and 132 say that only codes count. An error body that is no JSON is reported as a
  network failure, and a refused refresh of that kind does not clear the session.
* The log of a run stays "running" when `/sync/complete` answers that the token has expired, or after
  a crash. Only `/auth/status` looks at the standing of the account, so the handlers of a deleted or
  disabled account at start and complete are never reached.
* Icon transfers do not name their user: after a switch the rest of the icons of a run goes to, and
  comes from, the other account.

*Desktop*

* `logoutUser` compares with the active user of the moment of the click (a React closure): a login of
  the same user that ends meanwhile stays active, signed out in the table, until the next validation.
  `deleteUser` always switches to the anonymous user for the same reason, and a refresh that ends after
  it writes the user's row again. `updateServerAddress` after a switch puts the old user back.
* With an active account that has a refresh token, a wrong password for another account refreshes the
  active one and tries the login again; with one that has none, the login itself is refused.
* A claim merges groups by name with deleted ones: the sites vanish (`claim.ts:8` promises that
  conflicts are handled). The dialog of groups has no busy flag: pressed twice, Save makes two groups
  of one name. A late answer with metadata writes into whatever form is open; a form survives a switch
  of users and saves under the new owner with a group of the old, and one that outlives its group
  saves into the deleted one; two drags' orders may land out of order; a load that is rejected leaves
  the page loading.
* Choosing a built-in engine while a load reads the old default reverts the choice for good. Saving an
  engine while another is open for editing resets that form.
* Two setters that overlap lose a key of the configuration file; a file read while it is written, or
  after a crash, counts as empty, and the next setter loses everything.
* Cancelling a download does not stop it: its events open the progress again and offer to install it,
  and a second download may run beside it. The answer to a check closes whatever dialog is on top.
* The menu of a card lies above dialogs and alerts although `tokens/zIndex.ts` calls notifications the
  highest layer, and survives a load with an item that may be gone. Escape with the user card or a select
  open clears the search under it. The user card opens over any dialog, and a search term can be typed
  under an alert.
* An icon that failed is shown as failed until the page loads again, though its file may have come.

*Web page*

* A lock inserted after `clear_lock_password` removed password and locks leaves a locked group without
  a password, which any password opens (`navigation_service.rs:301`).
* A save answered after its group was locked again puts the site into the locked group
  (`web/pages/Launchpad.tsx:646`; the comment at line 737 says that the page is cleared at once); so
  does a search that ends a sorting begun under the lock's requests. Icons of a locked group stay cached
  until the next load.
* A search during the save of an order reverts the page while the server keeps it. Unlocking and giving
  up a lock put the group back as it was at the click, so with a search the group loses the sites that
  did not match until it is loaded again. Dragging in a sorted group moves by the index of the array,
  which the screen does not show. An unlock or a failure after which a group cannot be locked hides the
  whole page until it is loaded.
* A deletion under way while a sorting is given up brings the deleted site back on the page.
* Two tabs refresh with one token: the second refusal clears the session the first has renewed. A
  refresh the network loses at start-up clears the session and the saved account, although
  `tokenStore.ts:154` keeps that for sessions confirmed to be beyond recovery.
* Every icon that arrives aborts the fetches of all others and starts them again; an icon that failed
  once is not fetched again when its group is unlocked; a URL queued as the page closes is never revoked.
  An icon that arrives in one render with the answer to the deletion of its site is cached for a site that
  is gone, until the next load. The form of a site opened while its deletion is under way stays open.
* A page closed within 120 ms of the slider loses the inset; a fresh browser starts with an inset of 8,
  not the default of 24 (`Number(null)` is 0, and is clamped). A late answer with the status of the lock
  password overrides what was set meanwhile. Two tabs overwrite each other's folded groups.
* Escape in the control center clears the search under it as well, although a comment says that dialogs
  handle their own Escape in order to spare the search they cover.
* Two overlapping updates of one site can leave it without its file (`IconFiles` with `Racing` TRUE
  violates `WebIconsAreThere`): one uploads a new icon and removes the old one, the other read the old
  path before and stores it again after the count. So can an update that keeps the icon, when a sync
  changes the site between the update's read and its write: the old path comes back, and its file may
  have been cleaned up meanwhile after another site (`stale`). A device that sends a file cut short on
  its disk overwrites the whole one that another device sent at the same time. An update of a site deleted meanwhile reports
  success and leaves its new file behind (`navigation_service.rs:649`). A file cut short by a stop is
  never repaired: listings take a name that is there for a file that is whole.

*Accounts and traces*

* Two initialisations that overlap make two administrators, although `user_service.rs:82` promises the
  only one; a status that can not be read leaves a fresh system's page at the login form.
* Access tokens are not checked against the table: a deleted account's page can write after its
  clean-up. Enabling a deleted account from a stale list clears `disabled_at`. An act that fails half
  way is neither audited nor shown. The timer after a rename signs out whoever is signed in 1.2 s later.
* `docs/telemetry-logging-spec.md:69` says that logs of a sync share a trace: `sync.ts` and `logger.ts`
  have loggers of their own that never hear an answer, so each of their records bears a fresh one. A
  request sent again keeps its number while the page notes a new one.

## 8. Plan

Done: the components of section 1. `SyncSession`, `SyncMerge`, `DesktopSession`, `Accounts`,
`WebSession`, `WebPreferences`, `WebLayers`, `TraceContext`, the form of `WebIcons`, `SyncRun`,
`DeskLayers`, `DeskIcons`, `DesktopDialogs`, `AppMenus`, `DeviceSettings`, `DeskPreferences`,
`DesktopAccounts`, `IconFiles` and `WebLaunchpad` are proved about; the others are checked.

Next, a proof: `LaunchpadHolds` of `DeskLaunchpad`, whose claim and import write many rows at once.

Then, if the bounds allow: two tabs in `web_launchpad`, two faults in `devices`.
