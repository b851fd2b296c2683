# Concord: TLA+ models, checks and proofs

Concord is a chat application. Its desktop build (`src/src-tauri`, Rust) hosts a
personal "porch": a SQLite file of channels, messages, access lists, knocks,
themes, assets and vault bindings, which the devices of one user keep in step
over libp2p; conflicts that a merge must not decide alone go to a resumable
conflict agent. Its interface (`src/client/src`, TypeScript) is one React client
for the browser and the desktop: it picks a server, signs in, keeps sources,
servers and rooms, sends and shows messages, joins voice rooms, embeds
extensions and pairs peers. This project models the porch's sync, the conflict
agent, and the client. The FastAPI server in front of the Matrix homeserver,
native voice, tunnels and installers are not modelled.

## Inventory

| Component | State | Operations | Modules |
|---|---|---|---|
| Porch multi-device sync (`porch/sync/`, `PersonalDevices.tsx`) | device links, per-row stamps (lamport, device, tombstone), cursors, rounds in progress, the tab that starts them | link, unlink, tick, pull, push, merge, record success | `PorchRows`, `PorchSync`, `PersonalDevices`; promise: `LwwReplicas` |
| Porch content writes (`porch/db.rs`, `knock.rs`, `theme.rs`, `obsidian.rs`, `channel.rs`) | seven synced tables | create channel, post, grant, revoke, knock, accept, reject, withdraw, set theme, upload asset, bind vault | `PorchRows`, `PorchSync` |
| Resumable conflict agent (`porch/conflict_agent.rs`) | `conflict_queue`, `conflict_attempts`, running tasks | enqueue, run a pass, attempt, snapshot, time out, abort, succeed, give up, force manual, resolve manually | `ConflictAgent` |
| Calls of the client (`api/concord.ts`, `api/porch.ts`, ...) | the collection behind each call | read, add, remove, patch, replace, rewrite | `ConcordApi`, `NativeApi` |
| Panels (settings, porch, peers, dialogs) | what is shown, of which subject, busy flags, requests under way | mount, change of subject, load, call, answer, interval | `PanelView`, `SettingsPanels`, `ClientPanels` |
| Voice (`stores/voice.ts`, `joinVoiceSession.ts`, `VoiceChannel.tsx`, `App.tsx`) | connect lock, stored channel, stats session, LiveKit room, reconnect loop | join, cancel, leave, kick, reconnect, reload, sign out | `VoiceSession`, `VoiceWatchdog` |
| Server picker and discovery (`ServerPickerScreen.tsx`, `wellKnown.ts`) | phase, host generation, status polls | type, paste, scan, host, cancel, back | `ServerPicker`, `WellKnown` |
| Launch and sign-in (`App.tsx`, `LoginForm.tsx`, `LaunchAnimation.tsx`) | session, second factor, invite, splash timers | launch, sign in, verify, redeem, sign out, reload | `ClientBoot` |
| Sources of a user (`stores/sources.ts`, `SourcesPanel.tsx`, `matrixSourceAuth.ts`) | sources with owners and accounts, rail order, pending single sign-on | add, sign in, bind to a user, reorder, disconnect | `Sources` |
| Embedded server in the background (`useServitudeLifecycle.ts`) | server, pause flag, handlers at their awaits | blur, focus, switch | `ServitudeLifecycle` |
| Servers and place (`stores/server.ts`, sidebars, `ChatLayout.tsx`) | servers with channels, what is active, last channel, joined rooms | load, create, join, leave, delete, reorder, select, clean up, reload | `ServerNavigation` |
| Messages (`useMatrix.ts`) | timeline, list on the screen, key, debounce, pages under way | open, arrive, edit, redact, page, trim | `RoomMessages` |
| Composer (`MessageInput.tsx`, `useTyping.ts`) | draft, edit, submission under way, typing timers | write, submit, rejoin and retry, move | `Composer` |
| Unread badges (`useUnreadCounts.ts`, `useNotifications.ts`) | counts, receipts, three timers | arrive, recount, mark read, look away | `ReadMarkers` |
| Extension sessions (`stores/extension.ts`, `useExtension.ts`) | room state log, each client's place in it, catalog | start, stop, follow, load the catalog | `ExtensionSessions` |
| Extension frames (`useExtensionBridge.ts`, `ExtensionEmbed.tsx`, `sdk.ts`) | subscription, seen events, what the frame got and sent | change channel, deliver, post | `ExtensionBridge` |
| Paired peers (`peerStore.ts`, `peerStoreBrowser.ts`, scanner, `useMatrixPeerCards.ts`) | peers on disk and in the list, camera, cards | load, pair, revoke, grant, forget, scan | `PeerBook` |
| Hero sync, servitude lifecycle, backup and restore, home export, profiles, visibility, visits, ephemeral porch, identity, trust store, libp2p node, tunnels, transports, federation, native voice, Tauri commands, HTTP server, tvOS client, scripts | see `PROJECT.json` | | not modelled |

How they interact. The Tauri commands of `lib.rs` call the porch operations under
one mutex per porch; while its settings tab is mounted, `PersonalDevices.tsx` starts
`sync_now` with every linked device every 60 s, and at a button at any time; nothing
else starts a round; `sync_now` talks to the `SyncHandler` of the other device, one
stream per request; the user decides what the conflict agent gives up. In the
client everything runs on one thread: stores (zustand) are shared state, React
effects run in the order they are declared (a child's before its parent's), and
everything else happens at awaits: REST calls to the server, `invoke` calls to
the native side, events of the Matrix SDK, timers. An action of a client module is
therefore a stretch between two awaits, and what makes the client hard is that the
user and other answers get in between.

What is hard in this code, with the line where it bites, is the list `hazards` of
`PROJECT.json`: rounds of `sync_now` that are cut at any await while their last
request may still arrive; a merge that drops equal stamps without looking at the
columns; a batch that one row can fail; a lock that several screens claim across
awaits; answers that come after the subject, room, user or page they were for is
gone; effects and events in an order nobody wrote down; retries of what may
already have been done; timers that must fire in the end.

## Modules

`PorchRows` holds what is pure: primary keys, rows with their CRDT columns, the
two SQLite constraints that merges can violate, `observed_max` and
`next_lamport`, `remote_wins`, the merge, the batch transaction, cursors and
deltas. A porch file and a `SyncDelta` are both functions from keys to rows, with
`NoRow` where there is none. The values of a row are abstracted to the one column
that a rule or a merge can tell apart. `apply_sync_batch` yields the set of
possible outcomes: all rows, or none. A foreign key fails exactly when the
channel is neither stored nor in the batch, because channels are applied first;
the pending-knock index can fail depending on the order of rows in a table,
which the readers leave open.

`PorchSync` is the system: a file per device (`db`), links (`linked`, `mark`), the
`sync_now` rounds of every ordered pair (`sess`; no lock keeps the timer's round and
the button's apart, so a pair has a slot for each round under way), push requests
whose sender has gone (`late`). Local writes are one action each, since the code holds the mutex from
`next_lamport` to the write. A round is cut where the code releases the mutex or
awaits:

| Phase after the step | Action | Code |
|---|---|---|
| `pull` | `StartSync` | `is_personal_device`, `local_cursor`, PullDelta sent |
| `pull_linked` | `AssertLinked` | the handler's link test |
| `pulled` | `ServePull` | `collect_delta` at the responder |
| `applied` | `ApplyPulled` | `apply_sync_batch` at the initiator; failure ends the round |
| `push` | `CollectPush` | `collect_local_delta` since 0, PushDelta sent |
| `push_linked` | `AssertLinked` | the handler's link test |
| `acked` | `ApplyPush` | `apply_sync_batch` at the responder |
| `idle` | `RecordSuccess` | `record_sync_success` |

`Abandon` ends a round at any of these points (broken stream, crash, error
response lost), and `HandleLate` lets the responder read a push whose sender
gave up. `written` and `consent` are history variables for the properties:
nothing in the protocol reads them except the minting of ids, which uses
`written` to say that a ULID is new. Initial files are fresh installs (default
channel at lamport 1) or installs older than schema v6, whose rows the
migration stamps with lamport 0.

`PersonalDevices` is what starts rounds: the settings tab with its mount effect, its
timer and its buttons, over `PorchSync`, whose rounds go on when the tab is gone.

`MCPorchSync` and `MCPersonalDevices` have the definitions that the configurations substitute: which pairs
of devices can dial each other and which rows are older than v6.

`ConflictAgent` models the queue and the passes of `run_once`. A task of
`drive_one` is a program counter over the calls that take the mutex; a resolver
snapshots, then succeeds, aborts or times out. `DriveFails` is the `?` on a
failing statement and `Crash` the closing of the application; both leave the
tables and lose the tasks.

`LwwReplicas` is the abstract specification of the sync: replicas that author
stamped versions and to which authored versions are delivered, each only in the
place of an older one. `PorchSync` instantiates it with the files for the replicas
and the history of written rows for the versions
(`ImplementsLwwReplicas == Lww!Spec`).

The client modules. `ConcordApi` and `NativeApi` describe each REST or native
call by its effect on the collection it addresses (`Get`, `Add`, `Remove`,
`Patch`, `Replace`, `Rewrite`, `Act`) and by what its caller can see of a failure.
`PanelView` is the one state machine behind every panel: it mounts, loads, changes
subject, calls and folds outcomes in. A panel is a record of the decisions in
which panels differ: how it treats a change of subject (remount, a cancelled
flag, or nothing), what hides it while it loads, whether a swallowed error
leaves it loading, which busy flag a button looks at and whether it works before the
first answer (`early`), and what follows a call (a
reload, a local change, an optimistic change, nothing). `SettingsPanels` and
`ClientPanels` give the record of each component; `MCClientPanels` runs one of
each shape.

`VoiceSession` composes the store, the join with its awaits, the screens, the
connection bar and the reconnect loop of `App.tsx`; `VoiceWatchdog` gives the
watchdog's ladder as a function of ages. `ServerPicker` with `WellKnown`,
`ClientBoot`, `Sources`, `ServitudeLifecycle` and `ReadMarkers` share no variable
and are run side by side by `MCClientSession`; `ServerNavigation`, `RoomMessages`,
`Composer`, `ExtensionSessions`, `ExtensionBridge` and `PeerBook` by
`MCClientChat`. In both, a variable `focus` says which part a behaviour is of, so
that the state space is the sum of the parts and not their product; no property
relates two parts. Names follow the code; variables carry a prefix per module.

Where the code hands over to a library or a service, the model has what the code
can see of it: the homeserver's room state is a log each client follows at its
own pace, the Matrix SDK a timeline per room that grows, the LiveKit room live
or dead, local storage a value that outlives a reload. These definitions are
marked external in the map.

`Selection` says what a filter keeps of an array by numbering the positions that
are kept, and not by walking the array: what the lists of `Sources`,
`ServerNavigation`, `RoomMessages` and `PeerBook` do is written over it, so that it
can be proved about.

`PorchSyncProofs`, `PorchSafetyProofs`, `ConflictAgentProofs`,
`VoiceSessionProofs`, `PanelViewProofs`, `SelectionProofs`, `ClientSessionProofs`
and `ClientChatProofs` hold the theorems (below); each extends the modules it is
about. `SelectionProofs` has the lemmas on filters, ranks, suffixes and
concatenation that the last two rest on; these two each have a section for every
part of their run (picker, launch, sources, embedded server, badges; box, frames,
peers, sessions, servers, messages) and one that puts the parts together.

## Runs

Every property of a passing run has a mutant in `PROJECT.json`: a plausible bug in
one definition under which TLC finds that property violated. Invariants that need
a line each are conjoined under one name per run (`SessionInv`, `ChatInv`,
`PanelInv`, `VoiceInv`, `AuditTrail`), the type invariants among them.

| Run | Instance | Shows |
|---|---|---|
| `acl` | 2 devices, one of them older than schema v6, one visitor granted and revoked, lamports to 2, two rounds at a time for each pair, one disruption or overlap, one late push | stamps identify rows; rows only advance; an acknowledged push is covered; rows cross only between devices that linked each other; the sync implements last-writer-wins replicas |
| `knock` | 2 devices, one visitor, 2 knock ids, lamports to 3 | files keep their constraints; a resolved knock never reopens |
| `parents` | 2 devices, one of them older than schema v6, two further channels (symmetric), a message, an asset, a vault binding | no file has a row without its channel, though batches do fail |
| `convergence` | 2 devices older than schema v6, two themes, one disruption, one late push, fair ticks while the tab is open | files converge if the devices stay linked and the tab stays open on both |
| `conflict_drive` | 2 conflicts, one pass at a time, budget 2, one failure, fair tasks | the budget is kept and used; the audit trail explains every verdict and every resumption; decisions are final; a pass that takes up a conflict settles it unless a statement fails or the process dies |
| `voice` | 1 user, 2 channels, 2 screens, 2 manual joins, 2 reconnect attempts, one reload or sign-out | the connect lock has a holder; no stats session ends twice; the watchdog waits for both windows; the reconnect loop settles |
| `panels` | one panel of each shape, 2 subjects, 2 entries, 3 requests, one disturbance | a panel shows its subject and, when idle, what the server has; a panel that gates all its calls on one flag has one under way; spinners end |
| `session` | 4 generations of a host start; 1 reload; 2 users, 2 hosts, 2 sources, 1 restart; 3 changes of focus; 2 rooms with 2 events | see below |
| `chat` | 2 servers and 3 rooms, 2 calls, the load of the start included, 1 reload; 2 rooms with 2 events; 1 submission and 2 moves, 2 typing notices; 2 clients with 3 state events; 3 channels with 2 extensions; 2 peers | see below |

`session`: a cancelled host start commits nothing; every result of
discovery that is committed is https; a sign-in with a second factor is not complete without it; a source that was
disconnected stays gone but for one late answer (below), one Matrix server has one source, every source is on the
rail, and another user's sources are not shown; whoever never hosted never hosts;
an invite survives until it was used; the splash goes; the badge of a room one
looks at goes.

`chat`: the pane shows a channel of the server beside it, unless the answer to a call
strayed (below); the list of messages is the timeline of the room
on the screen once its timer has fired; a submission is sent once; typing is shown
in no room one has left, but for the way of the notice that ends it; clients that have followed the log agree on the session;
a frame gets an event once; a revoked peer stays revoked; the list of peers mirrors the
disk; the camera is on only in its tab.

Three runs show where the code and what the repository says of it disagree; each
has an entry in `findings`.

| Run | What happens |
|---|---|
| `parent_wedge` | Each device creates a channel and one row in it at equal lamports. The watermark of the channel table hides the other's channel, the child row fails on the foreign key, and since a failed pull returns before the push, both rounds fail for ever. |
| `voice_lock` | Cancelling a join gives the connect lock back while the call still runs, and a second join runs beside it. |
| `bridge_room` | After a change of channel the child's effect subscribes before its parent's effect has moved the ref: the frame is fed the previous channel's events under the new channel's name. |

Bounds. Two devices give every pairwise interleaving of two rounds in opposite
directions with writes on both sides; two slots in `acl` add a second round of the
same pair, at any point of the first. A device older than schema v6 starts at
lamport 0, so that two lamports allow a row to be written there, seen and overwritten
on the other device and written again; three, in `knock`, an accepted knock with its
two stamps; with two and a channel from either device at lamport 1 the pull misses
the parent of a row it carries, so that batches do fail and roll back in `parents`.
One disruption puts a cut round (or an unlink, or an overlapping round) at every
point of every behaviour; with one late push, a stale delta can arrive after any
later step. In the client, two of what is shared (screens, clients, rooms,
users) and one disturbance put a second actor at every await of the
first; a third request, event or channel is there where the second can hide the
first (the list of messages, the panels, the extension frames). Two calls of the
server store are the load of a start or a join and one call of the user during it,
with every click, reload, logout and answer in between; that two calls of the user
overlap is left to the proof, which is for any number. One submission meets every change of room and draft at each of its awaits, and
submissions do not overlap (`isSending`). Two typing notices are one
that starts and one that ends, which may arrive in either order or not at all; two
image reads overlap as two drops of a file do. The bounds are constants and appear
only in guards and initial states; the theorems hold for all their values.

Deadlock is checked in the `PorchSync` runs, where it says little: a device can
always link again. It is off in the others: with every conflict resolved, the call
left or the bounds used up there is nothing left to do.

Fairness. Nothing in `src-tauri` starts a round of its own accord: the timer belongs
to the settings tab (`PersonalDevices.tsx`) and is cleared when the tab unmounts. So
`TabSpec` of `PersonalDevices` gives weak fairness to `tick`, which is enabled only
while the tab is mounted, and to the steps of a round that was started, since the
runtime polls it; nobody owes a mounted tab, a link, a write, a late push or a
disruption. `Convergence` therefore supposes that from some point on all devices are
linked to each other and the tab is open on each of them; with the tab closed the
devices need not converge, and no property says so. Nothing at this commit starts
passes of the conflict agent either, and no fairness is assumed of them: `FairSpec`
of `ConflictAgent` has weak fairness on the steps of a pass that runs (the wall-clock
timeout ends every attempt), and `PassesSettle` is about a conflict that a pass has
taken up. In the client, promises settle and timers fire: the steps of a join and
the wake-up of the reconnect loop (`VoiceSession`), the service and answer of
requests (`PanelView`), the splash's timers and painted frames (`ClientBoot`), the
debounce timers of the read marker and the answers to it (`ReadMarkers`). Nothing is
assumed of the user, of other clients, or of an answer being the wanted one.

## Proofs

Every theorem holds for all values of the constants, bounds included, under the
assumptions the models name. For the porch (`PorchRows`, `PorchSync`): device ids
are naturals (only their order matters), ids are naturals, `NoRow` is not a row,
`MaxLamport` is positive, a device is not paired with itself, and old rows come
with their channels. For the panels: a descriptor has finitely many operations,
none of them an optimistic replacement (`DescriptorAssumption`, which every record
of `SettingsPanels` and `ClientPanels` meets), there are entries, and the values
for "no panel" and "no entry" are neither subjects nor entries
(`SubjectAssumption`). The other client modules assume of their bounds that they
are naturals, and of values that stand for "nothing" that they are nothing else
(`Nowhere` is no server and no room, `NoRoom` no room, `"none"` no user and no
host); a room has members, and a hook tracks at least one card.
TLC evaluates each assumption in the runs.

| Theorem | Module | Statement |
|---|---|---|
| `TypeCorrect` | `PorchSyncProofs` | `Spec => []TypeOK` |
| `Advance` | `PorchSafetyProofs` | `Spec => RowsOnlyAdvance` |
| `StampsIdentify` | `PorchSafetyProofs` | `Spec => []StampIdentity` |
| `ClockCovers` | `PorchSafetyProofs` | `Spec => []ClockCoversOwnWrites` |
| `Authored` | `PorchSafetyProofs` | `Spec => []RowsAreAuthored` |
| `AckedPushes` | `PorchSafetyProofs` | `Spec => []AckedPushIsCovered` |
| `Refinement` | `PorchSafetyProofs` | `Spec => ImplementsLwwReplicas` |
| `Consistent` | `PorchSafetyProofs` | `Spec => []FilesAreConsistent` |
| `VerdictsAreFinal` | `PorchSafetyProofs` | `Spec => ResolvedKnocksStayResolved` |
| `ConsentConfines` | `PorchSafetyProofs` | `Spec => []ConsentConfinesRows` |
| `BudgetKept` | `ConflictAgentProofs` | `OnePass` implies `Spec => []BudgetIsKept` |
| `TrailHolds` | `ConflictAgentProofs` | `OnePass` implies `Spec => []AuditTrail` |
| `DecisionsFinal` | `ConflictAgentProofs` | `OnePass` implies `Spec => DecidedIsFinal` |
| `LockIsHeld` | `VoiceSessionProofs` | `Spec => []VoiceInv` |
| `StatsEndOnce` | `VoiceSessionProofs` | `Spec => []EndedOnce` |
| `PatientWatchdog` | `VoiceSessionProofs` | `Spec => WatchdogIsPatient` |
| `PanelsKeepTheirSubject` | `PanelViewProofs` | `PanelSpec => []PanelInv` |
| `IdlePanelsAreCurrent` | `PanelViewProofs` | `PanelSpec => []IdleShowsTheServer` |
| `NeverHostsUnasked` | `ClientSessionProofs` | `LifecycleSpec => []NoHostingWithoutConsent` |
| `LifecycleTypeCorrect` | `ClientSessionProofs` | `LifecycleSpec => []LifecycleTypeOK` |
| `CommitsOverHttps` | `ClientSessionProofs` | `PickerSpec => []CommittedOverHttps` |
| `CancelCancels` | `ClientSessionProofs` | `PickerSpec => CancelledHostStaysCancelled` |
| `BootTypes` | `ClientSessionProofs` | `BootSpec => []BootTypeOK` |
| `SecondFactorHolds` | `ClientSessionProofs` | `BootSpec => []SecondFactor` |
| `InviteSurvives` | `ClientSessionProofs` | `BootSpec => InviteKept` |
| `ReadTypes` | `ClientSessionProofs` | `ReadSpec => []ReadTypeOK` |
| `SourcesTypes` | `ClientSessionProofs` | `SourcesSpec => []SourcesTypeOK` |
| `SourcesStayGone` | `ClientSessionProofs` | `SourcesSpec => []DisconnectedStaysGone` |
| `InvitesScoped` | `ClientSessionProofs` | `SourcesSpec => []InvitedSourcesAreScoped` |
| `OneRowPerMatrixServer` | `ClientSessionProofs` | `SourcesSpec => []OneMatrixSourcePerHost` |
| `RailComplete` | `ClientSessionProofs` | `SourcesSpec => []RailShowsEverySource` |
| `SessionHolds` | `ClientSessionProofs` | `Spec => []SessionInv`, of `MCClientSession` |
| `ComposerTypes` | `ClientChatProofs` | `ComposerSpec => []ComposerTypeOK` |
| `TextSentOnce` | `ClientChatProofs` | `ComposerSpec => []SentOnce` |
| `NoticeOnlyHere` | `ClientChatProofs` | `ComposerSpec => []TypingOnlyHere` |
| `BridgeTypes` | `ClientChatProofs` | `BridgeSpec => []BridgeTypeOK` |
| `EventForwardedOnce` | `ClientChatProofs` | `BridgeSpec => []ForwardedOnce` |
| `RevocationHolds` | `ClientChatProofs` | `PeerSpec => []RevokedStaysRevoked` |
| `ListMirrorsDisk` | `ClientChatProofs` | `PeerSpec => []MirrorOfDisk` |
| `CameraOnlyOnItsTab` | `ClientChatProofs` | `PeerSpec => []CameraOff` |
| `ClientsShowOneSession` | `ClientChatProofs` | `SessionsSpec => []SessionsAgree` |
| `PeerTypes` | `ClientChatProofs` | `PeerSpec => []PeerTypeOK` |
| `SessionsTypes` | `ClientChatProofs` | `SessionsSpec => []SessionsTypeOK` |
| `NavigationTypes` | `ClientChatProofs` | `NavigationSpec => []NavigationTypeOK` |
| `ChannelIsOfServer` | `ClientChatProofs` | `NavigationSpec => []ChannelOfActiveServer` |
| `PorchIsAlone` | `ClientChatProofs` | `NavigationSpec => []OneSurface` |
| `MessagesTypes` | `ClientChatProofs` | `MessagesSpec => []MessagesTypeOK` |
| `ListShowsTimeline` | `ClientChatProofs` | `MessagesSpec => []ShowsTheTimeline` |
| `ChatHolds` | `ClientChatProofs` | `Spec => []ChatInv`, of `MCClientChat` |

The client theorems are about the specification of one part, but for the last of
each group: a step of the composed specification of `session` or `chat` is a step
of one part and a stutter of the others, so that the parts' inductive invariants
hold together (`PartsInv`), and with them the conjunctions the runs check
(`SessionHolds`, `ChatHolds`). Every invariant of a passing run is stated by a
theorem.

`PorchSyncProofs` begins with the facts about the data: maxima over finite sets of
lamports, what a key's columns are, that `observed_max` bounds every row of a
file, that a batch either leaves the file or gives the merge, and what the merge
does to one row. It then reduces the actions to a few shapes (one row authored,
one batch applied to one file, files unchanged), so that an invariant is proved
once per shape and not once per action. `PanelViewProofs` does the same with the
six ways a request goes on.

Why the invariants have to be strengthened:

- `StampIdentity` alone is not inductive: a device whose clock had fallen behind
  one of its own earlier versions could stamp it again. `StampInv` adds that the
  clock covers every version the device authored, and that everything in a
  file, in a round or in a late request was authored, so that a merge keeps the
  clock where it was or moves it forward.
- `AckedPushIsCovered` follows because files only advance: `CoveredInv` says that
  the file of the responder covers the acknowledged delta, and every later step
  keeps or raises each row.
- `ConsentConfinesRows` needs the same of rows in transit: `ConsentInv` adds that
  a delta in a phase after the link test, or in a late request, comes with the
  consent its carriers needed, and that links are a subset of past consent. That
  is what makes it survive an unlink between the test and the write.
- The refinement maps files to replicas and `written` to the authored versions. A
  step of a device that writes is an `Author` step, since the new stamp is above
  the clock and `StampInv` says the clock is above all of the device's earlier
  stamps; a merged batch, wherever it came from, is a `Deliver` step, since
  `StampInv` says that rows in transit were authored; everything else stutters.
- `FilesAreConsistent` is inductive with the types and the shape of a merge: a
  local write checks what it refers to, and a batch that breaks a constraint is
  rolled back, so that a delivered one left a file that holds them.
- `ResolvedKnocksStayResolved` needs `KnockInv`: of all versions ever written, the
  pending one of a knock is the oldest (`VerdictBeatsKnock`), because a knock is
  minted once and a verdict is stamped by a device that holds it pending. With
  `StampInv` that excludes that a pending version replaces a verdict.
- The voice properties need three facts about what is not in the store: an id whose
  session was ended is kept nowhere and ids are never used twice (`StatsFresh`);
  the store shows no more retries than the loop made; a restarted track was silent for
  the first window before (`QuietLeads`).
- `PanelInv` and `IdleShowsTheServer` need `PanelIInv`: a request knows an operation
  of its panel and an answer tells of its subject's past only (`Requests`); the
  content is of one subject, and of an earlier one only while the load of the new
  one is under way (`Shown`); a shared flag admits one request (`Gated`), and a
  panel that runs one at a time has one (`OneCurrent`), whose stage says by what the
  screen and the server differ (`InStep`): by the change shown in advance, by the
  change made at the server but not yet shown, or by nothing.
- The picker's `LoopsOK` says that a loop whose generation is current belongs to the
  hosting screen, or to a screen that is gone; `FoundOverHttps` that what the success
  screen offers was checked.
- `BootInv` adds to `SecondFactor` that the session kept for the next launch is as
  verified as the one in memory, and to `InviteKept` that the form on the screen
  holds the pending invite.
- `SentOnce` needs that the submission under way has not posted its text yet
  (`PostsOK`): whatever follows a text that got through ends the submission.
- `RevokedStaysRevoked` and `MirrorOfDisk` need what a call under way will bring: an
  answer to a list read carries a listing of the disk, or the drift is noted.
- `TypingOnlyHere` needs that every room that shows the user is the one typed in,
  or has the notice that ends it on its way as the last one sent there, or lost that
  notice (`TypingOK`): a room is left with an ending notice, whatever starting
  notices are still under way to it.
- `DisconnectedStaysGone` is kept only because the configuration is forgotten with
  the source: `migrateFromSession` refills an empty store from it, so that `GoneOK`
  says it names no host that was disconnected; and, with `NamingOK`, that while the
  answer with the instance's name is out the page's own origin does not count as gone. That one Matrix server has one row
  and the rail every source needs ids that are used once (`SourceList`), and that
  the dialog has a host whenever its screen or its call uses one (`ModalOK`).
- The badges are bounded by what has arrived: `ReadIInv` says that a timeline is no
  longer than the arrivals counted, and a receipt no further than its timeline.
- `ChannelOfActiveServer` is inductive with the types alone (`NavIInv`): an answer that
  does not stray leaves the pane's channel in its list whatever calls and clicks came
  between, so nothing has to be known of the other calls under way.
- `ShowsTheTimeline` needs, of what is in a timeline, that an edit or a reaction
  comes after what it is about (`FollowUps`): the list is not extracted
  again when the front is trimmed, and the trim could otherwise take an edit of a
  message that stays. It needs ids in the order of arrival, apart from those of
  scrollback, and a timer that is for the room on the screen.
- `SessionsAgree` needs `ShowsTheLog`: a client that is up to date and has nothing on
  its way shows what the log says; whoever starts or stops a session shows it ahead
  of the log, but then a call is under way or lost or its event not yet synced. Two
  readings of one log agree since the last event of a key is one.
- `NoHostingWithoutConsent` speaks of the server only. `LifecycleInv` adds that for
  a user who never hosted no stop is under way, no pause flag is set and no focus
  handler runs; each of the three would let an answer turn hosting on.
- `AgentInv` adds to the agent's properties what a task knows of its conflict: one
  that is about to insert has room in the budget, the context it carries is the
  last attempt's if that one timed out, and the attempt it runs is the last one
  and still running. A second pass could break each of the three, since the count
  and the insert take the mutex each on its own, so the theorems assume `OnePass`:
  a caller awaits `run_once` before it calls it again, as the tests do. The run
  has one pass for the same reason.

Only model-checked are the liveness properties (`Convergence`,
`PassesSettle`, `ReconnectSettles`, `SpinnerEnds`, `SplashGoes`, `BadgeGoes`):
this prover knows neither fairness nor ENABLED. The three properties that the code
violates have their counterexample and no theorem.

## Not modelled

Sizes (the 32 MiB envelope), wall-clock columns, wording and formats; queries; the
LinkRequest exchange, which writes nothing; the files behind assets and vaults;
the reference from an image theme to its asset, which merges do not check;
saturation of the lamport at `i64::MAX`. In the client: rendering, layout, media,
decryption, presence, emoji and markdown, device selection, the soundboard, vote
kicks, the PIN gate, the stores of direct messages, porches and visits, and the
per-source Matrix clients. The components left out are listed with the reason in
`PROJECT.json`: most are I/O around libraries or single-statement requests; the
others are in the plan.

Behaviour that the models have and no property forbids, because the code does it:
two pending knocks of one pair with different ids make a pulled batch fail on the
unique index (`merge.rs:387`); rows stamped 0 by the v6 migration are not part of
a "full pull" from 0 (`merge.rs:657`); an accept that loses to a concurrent reject
leaves its grant behind (`knock.rs:206`); forcing a conflict to
`manual_required` does not stop a drive under way, and an attempt's verdict
replaces one the user gave meanwhile (`conflict_agent.rs:692`, `1064`); two passes
at once can exceed the budget (`conflict_agent.rs:694`); a whole list sent back from
a stale copy drops what another administrator added (`AdminTab.tsx:633`); a panel that
waits for a value waits for ever when the load fails (`AdminTab.tsx:112`); a blur
whose stop answers after the focus leaves the pause flag set
(`useServitudeLifecycle.ts:92`); the last channel is overwritten before a reload
restores it (`ChatLayout.tsx:454`); an abandoned page leaves `isPaginating` set
(`useMatrix.ts:604`); edits of equal length are not shown (`useMatrix.ts:530`);
finishing an edit cancels the edit begun since (`MessageInput.tsx:132`); when the rail's
stored order reaches the tile that adds a source, every source not placed yet goes
before it, those that the order names after the tile included, although the comment
speaks of new sources only (`SourcesPanel.tsx:65`).

Where the code and a comment of it disagree and no run is spent on it, the model
follows the code, and the property next to it names what it excuses:

- A `beforeunload` whose page stays leaves `isUnloadingRef` set; a room that closes
  afterwards leaves the store connected, though `App.tsx:238` means a page that is
  refreshing (`UnloadCancelled`). No property speaks of the store and the room.
- The answer with the instance's name (`main.tsx:84`) ensures the origin's row again
  though the user disconnected it meanwhile (`InstanceNamed`); `DisconnectedStaysGone`
  excuses the origin while that answer is out (`Lasts`), and nothing else.
- `deleteChannel` takes the active channel for deleted when it is not one of the
  server the call was about, whichever server is active by then (`server.ts:653`),
  and `handleStopAppChannel` goes to a channel of the server it was called for
  (`ChatLayout.tsx:1752`). A launch, a server shown twice and the rollback of a
  reorder over a changed list have similar effects. `ChannelOfActiveServer` excuses
  the pane from such an answer (`Strays`) to the user's next move or the next load.
- A message of the previous frame is handled with the channel and the permissions on
  the screen, since the listener replies to `event.source` and compares it with
  nothing (`ExtensionEmbed.tsx:500`, `postMessage`, `sendStateEvent`). No property
  speaks of what frames write.
- The recent cards keep the entry that came last, not the newest: `upsert` does not
  compare `origin_server_ts` (`useMatrixPeerCards.ts:110`), while its comments speak of
  "newer" entries (18, 91), and the list shows them "newest first". `CardSeen` brings
  cards of any time, and no property speaks of their order.
- A typing notice that ends what another one started may be lost or overtaken on its
  way; others then see the user typing until it expires (`useTyping.ts:77`).
  `TypingOnlyHere` excuses exactly the rooms where that happened (`bAstray`).
- Overlapping calls of the peer store patch or replace the list in the order their
  answers come (`peerStore.ts:229`); `MirrorOfDisk` excuses the list for the rest of
  the behaviour (`pDrift`).
- The sign-in form lets a 404 of the second factor's status pass as "no second
  factor" (`LoginForm.tsx:100`), which never happens: the `Error` that `apiFetch`
  throws (`api/concord.ts:106-138`) has no `status`. So any failure keeps the user
  out, a missing endpoint included, and `SecondFactor` holds for an API base that is
  another server's (`StatusAnswers`). Its mutant is an `apiFetch` that passes the
  status on.

## Plan

1. `Servitude`: lifecycle graph, ordered start over critical and non-critical
   transports, rollback by `started_count`, stop.
2. `HeroSync` with the verdict rules of `deterministic_verdict`, composed with
   `ConflictAgent`.
3. `PorchBackup`: upload, retention, restore of an older file under running sync.
4. `Visibility` and `UserProfiles`: two further last-writer-wins merges.
5. In the client: direct messages, visits, the soundboard and vote kicks.
