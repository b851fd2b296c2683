---------------------------- MODULE VoiceSession ----------------------------
(***************************************************************************)
(* Joining, keeping and leaving a voice channel in the web client: the     *)
(* voice store (stores/voice.ts), joinVoiceSession with the awaits inside  *)
(* it, the join screen and the room of VoiceChannel.tsx, the connection    *)
(* bar, and App.tsx, which reconnects after a page refresh and hosts the   *)
(* LiveKit room.  JavaScript runs each stretch between two awaits without  *)
(* interruption; those stretches are the actions.                          *)
(***************************************************************************)
EXTENDS VoiceWatchdog, Sequences, FiniteSets, Functions

CONSTANTS
  User, VoiceChan, None,
  Viewer,                  \* instances of the VoiceChannel screen
  MAX_RECONNECT_ATTEMPTS,
  MaxJoins,                \* bound on manual joins
  MaxDisturbances          \* bound on reloads, logouts and logins

ASSUME VoiceAssumption ==
  /\ MAX_RECONNECT_ATTEMPTS \in Nat \ {0}
  /\ MaxJoins \in Nat /\ MaxDisturbances \in Nat
  /\ None \notin User \cup VoiceChan
  /\ "auto" \notin Viewer

VARIABLES
  user,       \* the signed-in user of the auth store, or None
  native,     \* isTauri
  view,       \* the voice channel on screen, or None
  screen,     \* the VoiceChannel instance that shows it, or None
  voice,      \* the voice store
  saved,      \* localStorage: the session to resume, per user
  tabSaved,   \* sessionStorage: the same session, for the tab
  tabStats,   \* sessionStorage: the id of the running stats session, 0 = none
  joins,      \* joinVoiceSession calls, by caller
  auto,       \* the reconnect loop of App.tsx
  room,       \* the LiveKit room: "off", "live", or "dead" (closed but on screen)
  unloading,  \* isUnloadingRef
  mic,        \* whether the room's microphone captures
  wd,         \* the watchdog's state of one remote track
  stats,      \* startVoiceSession requests not answered yet
  started,    \* stats sessions requested so far (ids are 1..started)
  ended,      \* the endVoiceSession calls, in order
  manual, disturbances   \* spent bounds

vars == <<user, native, view, screen, voice, saved, tabSaved, tabStats, joins, auto, room,
          unloading, mic, wd, stats, started, ended, manual, disturbances>>

Caller == Viewer \cup {"auto"}
Chan == VoiceChan \cup {None}
Scope == User \cup {None}

ConnectionState ==
  {"disconnected", "connecting", "connected", "reconnecting", "failed"}

VoiceState ==
  [connected : BOOLEAN, state : ConnectionState,
   attempt : 0..MAX_RECONNECT_ATTEMPTS, transport : {"livekit", "libp2p_mesh"},
   chan : Chan, stats : Nat, micActive : BOOLEAN]

Disconnected ==
  [connected |-> FALSE, state |-> "disconnected", attempt |-> 0,
   transport |-> "livekit", chan |-> None, stats |-> 0, micActive |-> FALSE]

\* A joinVoiceSession call waits for the microphone prompt, for the path
\* selection and mesh join, or for the voice token.
Join == [pc : {"none", "media", "mesh", "token"}, chan : Chan]
NoJoin == [pc |-> "none", chan |-> None]

Reconnecting == [pc : {"idle", "join", "sleep", "done"}, chan : Chan,
         attempt : 0..MAX_RECONNECT_ATTEMPTS]
AutoIdle == [pc |-> "idle", chan |-> None, attempt |-> 0]

\* The room is rendered by App around the shell: the web build shows the login
\* form without it while nobody is signed in.
Rendered(v, u) == v.connected /\ v.transport = "livekit" /\ (native \/ u # None)

\* ChatLayout and the connection bar are on screen.
Shell == native \/ user # None

\* VoiceChannel shows VoiceRoomUI instead of the join screen.
RoomUI == user # None /\ voice.connected /\ view = voice.chan

Init ==
  /\ user \in User
  /\ native \in BOOLEAN
  /\ view = None
  /\ screen = None
  /\ voice = Disconnected
  /\ saved = [s \in Scope |-> None]
  /\ tabSaved = None
  /\ tabStats = 0
  /\ joins = [c \in Caller |-> NoJoin]
  /\ auto = AutoIdle
  /\ room = "off"
  /\ unloading = FALSE
  /\ mic = FALSE
  /\ wd = NoTrack
  /\ stats = {}
  /\ started = 0
  /\ ended = <<>>
  /\ manual = 0
  /\ disturbances = 0

-----------------------------------------------------------------------------
(***************************************************************************)
(* The voice store.                                                        *)
(***************************************************************************)

getPendingVoiceSession == IF saved[user] # None THEN saved[user] ELSE tabSaved

clearPendingVoiceSession ==
  /\ saved' = [saved EXCEPT ![user] = None]
  /\ tabSaved' = None

\* connect: persist, set, and start a stats session without waiting for it.
\* The id of an earlier stats session and the microphone flag stay.
connect(ch, transport) ==
  /\ saved' = [saved EXCEPT ![user] = ch]
  /\ tabSaved' = ch
  /\ voice' = [voice EXCEPT !.connected = TRUE, !.state = "connected", !.attempt = 0,
                            !.transport = transport, !.chan = ch]
  /\ room' = IF Rendered(voice', user) THEN "live" ELSE "off"
  /\ wd' = NoTrack
  /\ IF user # None
     THEN started' = started + 1 /\ stats' = stats \cup {started + 1}
     ELSE UNCHANGED <<started, stats>>
  /\ UNCHANGED <<tabStats, ended, mic>>

\* The response of startVoiceSession, whenever it comes; a failure is dropped.
StatsStarted(id) ==
  /\ stats' = stats \ {id}
  /\ \/ /\ voice' = [voice EXCEPT !.stats = id]
        /\ tabStats' = id
     \/ UNCHANGED <<voice, tabStats>>
  /\ UNCHANGED <<user, native, view, screen, saved, tabSaved, joins, auto, room, unloading,
                 mic, wd, started, ended, manual, disturbances>>

\* Mutant: the id in sessionStorage survives.
disconnect_KeepsTabStats ==
  LET id == IF voice.stats # 0 THEN voice.stats ELSE tabStats IN
  /\ ended' = IF id # 0 /\ user # None THEN Append(ended, id) ELSE ended
  /\ tabStats' = tabStats
  /\ clearPendingVoiceSession
  /\ voice' = Disconnected
  /\ room' = "off"
  /\ mic' = FALSE
  /\ wd' = NoTrack
  /\ UNCHANGED <<stats, started>>

disconnect ==
  LET id == IF voice.stats # 0 THEN voice.stats ELSE tabStats IN
  /\ ended' = IF id # 0 /\ user # None THEN Append(ended, id) ELSE ended
  /\ tabStats' = IF id # 0 THEN 0 ELSE tabStats
  /\ clearPendingVoiceSession
  /\ voice' = Disconnected
  /\ room' = "off"
  /\ mic' = FALSE
  /\ wd' = NoTrack
  /\ UNCHANGED <<stats, started>>

InFlight(state) == state \in {"connecting", "reconnecting"}

\* What disconnect and connect leave to their callers.
page == <<user, native, unloading>>
bounds == <<manual, disturbances>>
store == <<voice, saved, tabSaved, tabStats, room, mic, wd, stats, started, ended>>

\* beginConnectAttempt: the lock is the connection state alone, so it can be
\* claimed while connected.
beginConnectAttempt(reconnecting) ==
  /\ ~InFlight(voice.state)
  /\ voice' = [voice EXCEPT !.state = IF reconnecting THEN "reconnecting" ELSE "connecting"]

-----------------------------------------------------------------------------
(***************************************************************************)
(* joinVoiceSession, from one await to the next, for the caller c.         *)
(***************************************************************************)

\* The first stretch: claim the lock and ask for the microphone.
Claim(c, ch, reconnecting) ==
  /\ beginConnectAttempt(reconnecting)
  /\ joins' = [joins EXCEPT ![c] = [pc |-> "media", chan |-> ch]]
  /\ UNCHANGED <<saved, tabSaved, tabStats, room, mic, wd, stats, started, ended>>

\* The prompt is answered, either way; the path selection starts.
MediaAnswered(c) ==
  /\ joins[c].pc = "media"
  /\ joins' = [joins EXCEPT ![c].pc = "mesh"]
  /\ UNCHANGED <<page, bounds, store, view, screen, auto>>

\* No native runtime, LiveKit selected, or voice_mesh_join failed.
FallBackToLiveKit(c) ==
  /\ joins[c].pc = "mesh"
  /\ joins' = [joins EXCEPT ![c].pc = "token"]
  /\ UNCHANGED <<page, bounds, store, view, screen, auto>>

\* One instance stays mounted from voice channel to voice channel; coming from a
\* text channel mounts a new one.
Mounts(ch) ==
  IF ch = None THEN screen' = None
  ELSE IF view # None THEN UNCHANGED screen
  ELSE \E s \in Viewer : joins[s].pc = "none" /\ screen' = s

\* What the caller does when the call resolves: handleJoin clears its flag,
\* attemptReconnect goes back to the text channel it remembers, if any.
Resolved(c, ch) ==
  IF c = "auto"
  THEN /\ auto' = [auto EXCEPT !.pc = "done"]
       /\ view' \in {None, ch}
       /\ Mounts(view')
  ELSE UNCHANGED <<auto, view, screen>>

MeshJoined(c) ==
  /\ joins[c].pc = "mesh" /\ native
  /\ connect(joins[c].chan, "libp2p_mesh")
  /\ joins' = [joins EXCEPT ![c] = NoJoin]
  /\ Resolved(c, joins[c].chan)
  /\ UNCHANGED <<page, bounds>>

TokenGranted(c) ==
  /\ joins[c].pc = "token"
  /\ connect(joins[c].chan, "livekit")
  /\ joins' = [joins EXCEPT ![c] = NoJoin]
  /\ Resolved(c, joins[c].chan)
  /\ UNCHANGED <<page, bounds>>

\* Mutant: the attempts are not counted.
NextAttempt_Uncounted(v) ==
  /\ auto' = [auto EXCEPT !.pc = "sleep"]
  /\ voice' = v
  /\ UNCHANGED <<saved, tabSaved>>

\* attemptReconnect(attempt + 1), up to its sleep or its end.
NextAttempt(v) ==
  IF auto.attempt + 1 >= MAX_RECONNECT_ATTEMPTS
  THEN /\ auto' = [auto EXCEPT !.pc = "done"]
       /\ voice' = [v EXCEPT !.state = "failed"]
       /\ clearPendingVoiceSession
  ELSE /\ auto' = [auto EXCEPT !.pc = "sleep", !.attempt = @ + 1]
       /\ voice' = [v EXCEPT !.attempt = @ + 1]
       /\ UNCHANGED <<saved, tabSaved>>

\* Mutant: the lock is not released.
TokenRefused_KeepsLock(c) ==
  /\ joins[c].pc = "token"
  /\ joins' = [joins EXCEPT ![c] = NoJoin]
  /\ IF c = "auto" THEN NextAttempt(voice) ELSE UNCHANGED <<auto, voice, saved, tabSaved>>
  /\ UNCHANGED <<page, bounds, view, screen, tabStats, room, mic, wd, stats, started, ended>>

\* The failure releases the lock, whoever holds it by now.
TokenRefused(c) ==
  /\ joins[c].pc = "token"
  /\ joins' = [joins EXCEPT ![c] = NoJoin]
  /\ LET v == [voice EXCEPT !.state = "disconnected"] IN
     IF c = "auto" THEN NextAttempt(v)
     ELSE voice' = v /\ UNCHANGED <<auto, saved, tabSaved>>
  /\ UNCHANGED <<page, bounds, view, screen, tabStats, room, mic, wd, stats, started, ended>>

-----------------------------------------------------------------------------
(***************************************************************************)
(* The join screen (VoiceChannel) and the room (VoiceRoomUI).              *)
(***************************************************************************)

\* Navigation.
Show(ch) ==
  /\ user # None /\ ch # view
  /\ view' = ch
  /\ Mounts(ch)
  /\ UNCHANGED <<page, bounds, store, joins, auto>>

\* The Join and Retry buttons: disabled while this instance is connecting and
\* while connected to another channel.  Without the lock the call returns at once.
handleJoin ==
  /\ user # None /\ screen # None /\ ~RoomUI
  /\ joins[screen].pc = "none" /\ ~voice.connected
  /\ manual < MaxJoins
  /\ Claim(screen, view, FALSE)
  /\ manual' = manual + 1
  /\ UNCHANGED <<page, disturbances, view, screen, auto>>

\* Cancel and Leave in the connection bar, Leave in the room, and the kick that
\* the room's poll reports.
BarShown == \/ voice.connected /\ view # voice.chan
            \/ ~voice.connected /\ (InFlight(voice.state) \/ voice.state = "failed")

Leave ==
  /\ Shell
  /\ \/ RoomUI
     \/ BarShown /\ voice.state # "failed"
  /\ disconnect
  /\ UNCHANGED <<page, bounds, view, screen, joins, auto>>

Dismiss ==
  /\ Shell /\ BarShown /\ voice.state = "failed"
  /\ voice' = [voice EXCEPT !.state = "disconnected"]
  /\ UNCHANGED <<page, bounds, view, screen, joins, auto, saved, tabSaved, tabStats, room,
                 mic, wd, stats, started, ended>>

\* toggleMic.  Only the room's effect copies the state to the store; the bar
\* changes the microphone alone.
toggleMic ==
  /\ room = "live" /\ (RoomUI \/ BarShown)
  /\ mic' = ~mic
  /\ voice' = IF RoomUI THEN [voice EXCEPT !.micActive = ~mic] ELSE voice
  /\ UNCHANGED <<page, bounds, view, screen, joins, auto, saved, tabSaved, tabStats, room,
                 wd, stats, started, ended>>

\* handleVoiceDisconnect: the room closed, by itself or by the watchdog.
handleVoiceDisconnect ==
  IF unloading
  THEN /\ room' = "dead"
       /\ mic' = FALSE
       /\ UNCHANGED <<voice, saved, tabSaved, tabStats, wd, stats, started, ended>>
  ELSE disconnect

RoomCloses ==
  /\ room = "live"
  /\ handleVoiceDisconnect
  /\ UNCHANGED <<page, bounds, view, screen, joins, auto>>

\* handleVoiceError does not ask whether the page unloads.
RoomFails ==
  /\ room = "live"
  /\ disconnect
  /\ UNCHANGED <<page, bounds, view, screen, joins, auto>>

\* A tick of the watchdog that VoiceRoomUI starts; a track without a sample is
\* forgotten.
WatchdogTick ==
  /\ room = "live" /\ RoomUI
  /\ \/ /\ wd' = NoTrack
        /\ UNCHANGED <<voice, saved, tabSaved, tabStats, room, mic, stats, started, ended>>
     \/ \E progressed \in BOOLEAN :
          LET e == evaluateTrackHealth(wd, progressed) IN
          IF e.action = "reconnect-room"
          THEN handleVoiceDisconnect
          ELSE /\ wd' = e.next
               /\ UNCHANGED <<voice, saved, tabSaved, tabStats, room, mic, stats, started, ended>>
  /\ UNCHANGED <<page, bounds, view, screen, joins, auto>>

-----------------------------------------------------------------------------
(***************************************************************************)
(* App: reconnect after a refresh, the unload warning, reload, sign-out.   *)
(***************************************************************************)

\* The effect runs once per page.  A call that finds the lock taken resolves
\* like a successful one.
StartReconnect ==
  /\ user # None /\ auto.pc = "idle" /\ ~voice.connected
  /\ getPendingVoiceSession # None
  /\ LET ch == getPendingVoiceSession IN
     \/ /\ Claim("auto", ch, FALSE)
        /\ auto' = [pc |-> "join", chan |-> ch, attempt |-> 0]
        /\ UNCHANGED <<view, screen>>
     \/ /\ InFlight(voice.state)
        /\ auto' = [pc |-> "done", chan |-> ch, attempt |-> 0]
        /\ view' = None /\ screen' = None
        /\ UNCHANGED <<store, joins>>
  /\ UNCHANGED <<page, bounds>>

\* The backoff ends; whether the user connected meanwhile is not looked at.
WakeReconnect ==
  /\ auto.pc = "sleep"
  /\ \/ /\ Claim("auto", auto.chan, TRUE)
        /\ auto' = [auto EXCEPT !.pc = "join"]
     \/ /\ InFlight(voice.state)
        /\ auto' = [auto EXCEPT !.pc = "done"]
        /\ UNCHANGED <<store, joins>>
  /\ UNCHANGED <<page, bounds, view, screen>>

\* beforeunload, when the user then stays on the page.
UnloadCancelled ==
  /\ voice.connected /\ ~unloading
  /\ unloading' = TRUE
  /\ UNCHANGED <<user, native, bounds, store, view, screen, joins, auto>>

\* A new page: memory starts over, both storages stay, restoreSession
\* signs the user in again.
Reload ==
  /\ disturbances < MaxDisturbances
  /\ disturbances' = disturbances + 1
  /\ voice' = Disconnected
  /\ joins' = [c \in Caller |-> NoJoin]
  /\ auto' = AutoIdle
  /\ view' = None /\ screen' = None
  /\ room' = "off" /\ mic' = FALSE /\ wd' = NoTrack
  /\ unloading' = FALSE /\ stats' = {}
  /\ UNCHANGED <<user, native, manual, saved, tabSaved, tabStats, started, ended>>

\* The auth store's logout leaves the voice store alone.
logout ==
  /\ user # None /\ disturbances < MaxDisturbances
  /\ disturbances' = disturbances + 1
  /\ user' = None
  /\ view' = None /\ screen' = None
  /\ room' = IF Rendered(voice, None) THEN room ELSE "off"
  /\ mic' = (mic /\ room' = "live") /\ wd' = NoTrack
  /\ UNCHANGED <<native, unloading, manual, voice, saved, tabSaved, tabStats, joins, auto,
                 stats, started, ended>>

login ==
  /\ user = None
  /\ user' \in User
  /\ room' = IF Rendered(voice, user') /\ room = "off" THEN "live" ELSE room
  /\ UNCHANGED <<native, unloading, bounds, view, screen, voice, saved, tabSaved, tabStats,
                 joins, auto, mic, wd, stats, started, ended>>

-----------------------------------------------------------------------------

JoinStep(c) == \/ MediaAnswered(c) \/ FallBackToLiveKit(c) \/ MeshJoined(c)
               \/ TokenGranted(c) \/ TokenRefused(c)

Next ==
  \/ \E c \in Caller : JoinStep(c)
  \/ \E ch \in Chan : Show(ch)
  \/ handleJoin \/ Leave \/ Dismiss \/ toggleMic
  \/ RoomCloses \/ RoomFails \/ WatchdogTick
  \/ StartReconnect \/ WakeReconnect
  \/ \E id \in stats : StatsStarted(id)
  \/ UnloadCancelled \/ Reload \/ logout \/ login

\* Promises settle and timers fire; the user need not do anything.
Fairness ==
  /\ \A c \in Caller : WF_vars(JoinStep(c))
  /\ WF_vars(WakeReconnect)

Spec == Init /\ [][Next]_vars
FairSpec == Spec /\ Fairness

-----------------------------------------------------------------------------

TypeOK ==
  /\ user \in Scope /\ native \in BOOLEAN
  /\ view \in Chan /\ screen \in Viewer \cup {None}
  /\ voice \in VoiceState
  /\ saved \in [Scope -> Chan] /\ tabSaved \in Chan /\ tabStats \in Nat
  /\ joins \in [Caller -> Join] /\ auto \in Reconnecting
  /\ room \in {"off", "live", "dead"}
  /\ unloading \in BOOLEAN /\ mic \in BOOLEAN
  /\ wd \in TrackHealth \cup {NoTrack}
  /\ stats \subseteq Nat /\ started \in Nat /\ ended \in Seq(Nat)
  /\ manual \in 0..MaxJoins /\ disturbances \in 0..MaxDisturbances

\* The connect-attempt lock is never left taken by nobody: whenever the store
\* says connecting or reconnecting, some joinVoiceSession call is still running
\* and will set the state again (beginConnectAttempt's "Must be paired with").
LockHasHolder ==
  InFlight(voice.state) => \E c \in Caller : joins[c].pc # "none"

\* The state is well formed and the lock held by a call that will give it back.
VoiceInv == TypeOK /\ LockHasHolder

\* A stats session is ended at most once, whatever refreshes, late answers of
\* startVoiceSession and repeated leaves happen (disconnect).
EndedOnce == IsInjective(ended)

\* The watchdog closes a room only after a track was silent for both windows
\* (evaluateTrackHealth: level one, then level two).
WatchdogIsPatient ==
  [][WatchdogTick /\ room' # "live" => wd.quiet + SAMPLE_INTERVAL >= STALE_AFTER + L2_AFTER]_vars

\* The reconnect loop of a page ends: it joins or gives up after
\* MAX_RECONNECT_ATTEMPTS (attemptReconnect).
ReconnectSettles == auto.pc \in {"join", "sleep"} ~> auto.pc \in {"idle", "done"}

\* "both paths hold the same connect-attempt lock so they can't run concurrently"
\* (App.tsx:317): at most one joinVoiceSession call at a time.
OneJoinAtATime == Cardinality({c \in Caller : joins[c].pc # "none"}) <= 1
=============================================================================
