---------------------------- MODULE ReadMarkers -----------------------------
(***************************************************************************)
(* Unread badges, read receipts and desktop notifications:                 *)
(* hooks/useUnreadCounts.ts, hooks/useNotifications.ts.  Badges are        *)
(* recounted 200 ms after the last event or receipt; the active room is    *)
(* marked read by three debounced triggers, each cleared when the room or  *)
(* the visibility of the chat pane changes.  The SDK keeps the timelines   *)
(* and the receipts (external).                                            *)
(***************************************************************************)
EXTENDS Naturals, Sequences, FiniteSets

CONSTANTS
  BadgeRoom,     \* rooms
  UnreadCap,     \* UNREAD_DISPLAY_CAP + 1
  MaxArrivals,   \* bound on the events of all rooms
  MaxGlances     \* bound on what the user does

ASSUME ReadAssumption == {UnreadCap, MaxArrivals, MaxGlances} \subseteq Nat

Trigger == {"switch", "live", "focus"}

VARIABLES
  kTimeline,   \* of each room: events [by, type, mention]
  kReceipt,    \* position of the user's receipt in each
  kBadge,      \* counts: unread and highlight, of each room
  kRecount,    \* a recount is pending
  kRoom,       \* roomId
  kPane,       \* isVisible: the chat pane is on screen
  kTab,        \* document.visibilityState = "visible"
  kTimers,     \* pending triggers
  kSent,       \* read markers under way: [room, at]
  kFailed,     \* read markers that were refused and not made up for by a later one
  kMuted,      \* notification level of each room
  kAlerts,     \* rooms with a desktop notification
  kArrived, kGlances

readVars == <<kTimeline, kReceipt, kBadge, kRecount, kRoom, kPane, kTab, kTimers, kSent,
              kFailed, kMuted, kAlerts, kArrived, kGlances>>
look == <<kRoom, kPane, kTab>>

Levels == {"all", "mentions", "nothing"}
Incoming ==
  [by : {"other"}, type : {"message"}, mention : BOOLEAN]
  \cup [by : {"me"}, type : {"message"}, mention : {FALSE}]
  \cup [by : {"other"}, type : {"state"}, mention : {FALSE}]
Contributes(e) == e.type = "message"

\* findLastUnreadContributingEvent: its position, 0 when there is none.
findLastUnreadContributingEvent(t) ==
  LET at == {i \in DOMAIN t : Contributes(t[i])} IN
  IF at = {} THEN 0 ELSE CHOOSE i \in at : \A j \in at : j <= i

\* computeUnreadForRoom: what others wrote after the newest event of theirs
\* that is read.
computeUnreadForRoom(t, receipt) ==
  LET theirs == {i \in DOMAIN t : Contributes(t[i]) /\ t[i].by # "me" /\ i > receipt}
      n == Cardinality(theirs) IN
  [unread |-> IF n > UnreadCap THEN UnreadCap ELSE n,
   highlight |-> Cardinality({i \in theirs : t[i].mention})]

\* update
Recount ==
  /\ kRecount /\ kRecount' = FALSE
  /\ kBadge' = [r \in BadgeRoom |-> computeUnreadForRoom(kTimeline[r], kReceipt[r])]
  /\ UNCHANGED <<kTimeline, kReceipt, look, kTimers, kSent, kFailed, kMuted, kAlerts,
                 kArrived, kGlances>>

-----------------------------------------------------------------------------
(***************************************************************************)
(* Notifications: the level of the channel, else of its server, else the   *)
(* default; kMuted is what the cascade gives.                              *)
(***************************************************************************)

Alerts(r, e) ==
  /\ ~kTab /\ Contributes(e) /\ e.by # "me"
  /\ kMuted[r] = "all" \/ (kMuted[r] = "mentions" /\ e.mention)

-----------------------------------------------------------------------------

\* An event arrives.  One's own moves the receipt (the SDK's synthetic one).
Arrives(r, e) ==
  /\ kArrived < MaxArrivals /\ kArrived' = kArrived + 1
  /\ kTimeline' = [kTimeline EXCEPT ![r] = Append(@, e)]
  /\ kReceipt' = IF e.by = "me" THEN [kReceipt EXCEPT ![r] = Len(kTimeline'[r])] ELSE kReceipt
  /\ kRecount' = TRUE
  /\ kTimers' = IF r = kRoom /\ kPane /\ kTab THEN kTimers \cup {"live"} ELSE kTimers
  /\ kAlerts' = IF Alerts(r, e) THEN kAlerts \cup {r} ELSE kAlerts
  /\ UNCHANGED <<kBadge, look, kSent, kFailed, kMuted, kGlances>>

\* markRoomRead, run by a trigger: the marker names the room of then.
markRoomRead(t) ==
  /\ t \in kTimers /\ kTimers' = kTimers \ {t}
  /\ LET at == findLastUnreadContributingEvent(kTimeline[kRoom]) IN
     kSent' = IF at = 0 THEN kSent ELSE kSent \cup {[room |-> kRoom, at |-> at]}
  /\ UNCHANGED <<kTimeline, kReceipt, kBadge, kRecount, look, kFailed, kMuted, kAlerts,
                 kArrived, kGlances>>

\* Its answer, whatever room is on screen by now; a failure is logged and not tried
\* again.
MarkerAnswered(q, ok) ==
  /\ q \in kSent /\ kSent' = kSent \ {q}
  /\ IF ok
     THEN /\ kReceipt' = [kReceipt EXCEPT ![q.room] = IF q.at > @ THEN q.at ELSE @]
          /\ kRecount' = TRUE
          /\ kFailed' = {f \in kFailed : f.room # q.room \/ f.at > q.at}
     ELSE /\ kFailed' = kFailed \cup {q} /\ UNCHANGED <<kReceipt, kRecount>>
  /\ UNCHANGED <<kTimeline, kBadge, look, kTimers, kMuted, kAlerts, kArrived, kGlances>>

\* The effects of a change of room or pane: every timer is cleared, and the
\* switch trigger set when the user can see the room.
Watch(room, pane) ==
  /\ kGlances < MaxGlances /\ kGlances' = kGlances + 1
  /\ kRoom' = room /\ kPane' = pane
  /\ kTimers' = IF pane /\ kTab THEN {"switch"} ELSE {}
  /\ UNCHANGED <<kTimeline, kReceipt, kBadge, kRecount, kTab, kSent, kFailed, kMuted, kAlerts,
                 kArrived>>
SwitchRoom(r) == r # kRoom /\ Watch(r, kPane)
TogglePane == Watch(kRoom, ~kPane)

HideTab ==
  /\ kTab /\ kTab' = FALSE
  /\ kGlances < MaxGlances /\ kGlances' = kGlances + 1
  /\ UNCHANGED <<kTimeline, kReceipt, kBadge, kRecount, kRoom, kPane, kTimers, kSent, kFailed,
                 kMuted, kAlerts, kArrived>>
\* Mutant: coming back to the tab is no trigger.
ShowTab_NoTrigger ==
  /\ ~kTab /\ kTab' = TRUE
  /\ UNCHANGED <<kTimeline, kReceipt, kBadge, kRecount, kRoom, kPane, kTimers, kSent, kFailed,
                 kMuted, kAlerts,
                 kArrived, kGlances>>
\* visibilitychange and focus; a click on a notification focuses the window.
ShowTab ==
  /\ ~kTab /\ kTab' = TRUE
  /\ kTimers' = IF kPane THEN kTimers \cup {"focus"} ELSE kTimers
  /\ kAlerts' \in {kAlerts} \cup {kAlerts \ {r} : r \in kAlerts}
  /\ UNCHANGED <<kTimeline, kReceipt, kBadge, kRecount, kRoom, kPane, kSent, kFailed, kMuted,
                 kArrived, kGlances>>

\* NotificationsTab
SetLevel(r, l) ==
  /\ kGlances < MaxGlances /\ kGlances' = kGlances + 1
  /\ kMuted' = [kMuted EXCEPT ![r] = l]
  /\ UNCHANGED <<kTimeline, kReceipt, kBadge, kRecount, look, kTimers, kSent, kFailed,
                 kAlerts, kArrived>>

ReadInit ==
  /\ kTimeline = [r \in BadgeRoom |-> <<>>] /\ kReceipt = [r \in BadgeRoom |-> 0]
  /\ kBadge = [r \in BadgeRoom |-> [unread |-> 0, highlight |-> 0]] /\ kRecount = FALSE
  /\ kRoom \in BadgeRoom /\ kPane \in BOOLEAN /\ kTab = TRUE
  /\ kTimers = IF kPane THEN {"switch"} ELSE {}
  /\ kSent = {} /\ kFailed = {} /\ kMuted = [r \in BadgeRoom |-> "all"]
  /\ kAlerts = {} /\ kArrived = 0 /\ kGlances = 0

ReadNext ==
  \/ Recount \/ TogglePane \/ HideTab \/ ShowTab
  \/ \E r \in BadgeRoom :
       \/ SwitchRoom(r)
       \/ \E l \in Levels : SetLevel(r, l)
       \/ \E e \in Incoming : Arrives(r, e)
  \/ \E t \in Trigger : markRoomRead(t)
  \/ \E q \in kSent, ok \in BOOLEAN : MarkerAnswered(q, ok)

\* The timers run out, and requests are answered.
ReadTimers ==
  \/ Recount
  \/ \E t \in Trigger : markRoomRead(t)
  \/ \E q \in kSent, ok \in BOOLEAN : MarkerAnswered(q, ok)
ReadSpec == ReadInit /\ [][ReadNext]_readVars /\ WF_readVars(ReadTimers)

-----------------------------------------------------------------------------

\* The hooks' state is well formed.
ReadTypeOK ==
  /\ kRoom \in BadgeRoom /\ {kPane, kTab, kRecount} \subseteq BOOLEAN
  /\ kTimers \subseteq Trigger /\ kAlerts \subseteq BadgeRoom
  /\ kBadge \in [BadgeRoom -> [unread : 0..UnreadCap, highlight : 0..MaxArrivals]]
  /\ kSent \cup kFailed \subseteq [room : BadgeRoom, at : 1..MaxArrivals]
  /\ kReceipt \in [BadgeRoom -> 0..MaxArrivals] /\ kMuted \in [BadgeRoom -> Levels]

\* "Without the aggressive visibility/focus triggers ... leaves the badge
\* stuck" (useUnreadCounts.ts): a room the user keeps looking at loses its
\* badge, unless the homeserver refused the marker.
Looking == kPane /\ kTab
BadgeClears ==
  []<>(~Looking \/ kBadge[kRoom].unread = 0 \/ \E q \in kFailed : q.room = kRoom)
=============================================================================
