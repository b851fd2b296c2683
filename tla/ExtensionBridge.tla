-------------------------- MODULE ExtensionBridge ---------------------------
(***************************************************************************)
(* An app channel: the extension's frame on the screen (ExtensionEmbed),   *)
(* the bridge that feeds it the room's events and sends for it             *)
(* (useExtensionBridge.ts), and the gates between them (InputRouter,       *)
(* sdk.ts).  ChatLayout calls the hook and ExtensionEmbed is its child:    *)
(* React runs the effects of a child before those of its parent.           *)
(***************************************************************************)
EXTENDS Naturals, FiniteSets

CONSTANTS
  AppRoom,      \* channels
  AppOf,        \* the extension of each, NoApp for a text channel
  Permission,   \* what the manifest of each extension lists
  MaxHappened,  \* bound on the events of all rooms
  MaxHops,      \* bound on changes of channel and of catalog
  MaxPosts      \* bound on what extensions ask to send

NoApp == "no app"
Unopened == "no room"
ASSUME BridgeAssumption ==
  /\ Unopened \notin AppRoom
  /\ DOMAIN AppOf = AppRoom
  /\ \A r \in AppRoom : AppOf[r] = NoApp \/ AppOf[r] \in DOMAIN Permission
  /\ {MaxHappened, MaxHops, MaxPosts} \subseteq Nat

VARIABLES
  yRoom,     \* activeChannelId
  yRef,      \* roomIdRef.current
  yCatalog,  \* the extensions in the catalog
  ySub,      \* the subscription of the frame: its room, the room prop, seen
  yEvents,   \* the events of every room: [id, room, state]
  yPending,  \* their deliveries by the SDK's two emitters
  yFrame,    \* the messages that reached the frame
  yMail,     \* what extensions asked to send and the window has yet to handle
  yPosted,   \* state events sent for extensions
  yReplies,  \* permission_denied messages
  yHops, yPosts

bridgeVars == <<yRoom, yRef, yCatalog, ySub, yEvents, yPending, yFrame, yMail, yPosted, yReplies,
                yHops, yPosts>>

NoSub == [label |-> Unopened, of |-> Unopened, seen |-> {}, n |-> 0]

-----------------------------------------------------------------------------
(***************************************************************************)
(* Gates.                                                                  *)
(***************************************************************************)

\* DEFAULT_PERMISSIONS of InputRouter, by mode and action: the seats allowed.
Everyone == {"host", "participant", "observer"}
Seated == {"host", "participant"}
DEFAULT_PERMISSIONS(mode, action) ==
  IF action = "admin_commands" THEN {"host"}
  ELSE IF action = "react" THEN IF mode = "per_user" THEN Seated ELSE Everyone
  ELSE IF mode \in {"shared_readonly", "shared_admin_input"} THEN {"host"}
  ELSE Seated
check(mode, seat, action) == seat \in DEFAULT_PERMISSIONS(mode, action)

manifestAllows(app, anyOf) == Permission[app] \cap anyOf # {}

-----------------------------------------------------------------------------
(***************************************************************************)
(* The frame and its subscription.                                         *)
(***************************************************************************)

Embedded(r, catalog) == r # Unopened /\ AppOf[r] # NoApp /\ AppOf[r] \in catalog

\* subscribeRoomEvents, called by the effect of ExtensionEmbed: it listens to
\* the room that the hook's ref names at that moment.
Subscription(r, catalog) ==
  IF Embedded(r, catalog) /\ yRef # Unopened /\ manifestAllows(AppOf[r], {"state_events", "matrix.read"})
  THEN [label |-> r, of |-> yRef, seen |-> {}, n |-> yHops + 1]
  ELSE NoSub

\* The channel changes: the frame's effect runs, then the hook's, which moves
\* the ref.
openChannel(r) ==
  /\ r # yRoom /\ yHops < MaxHops /\ yHops' = yHops + 1
  /\ yRoom' = r
  /\ ySub' = Subscription(r, yCatalog)
  /\ yRef' = r
  /\ UNCHANGED <<yCatalog, yEvents, yPending, yFrame, yMail, yPosted, yReplies, yPosts>>
\* The catalog is replaced; so are the arrays of permissions in it, and the
\* frame subscribes again.
reloadPermissions(catalog) ==
  /\ yHops < MaxHops /\ yHops' = yHops + 1
  /\ yCatalog' = catalog
  /\ ySub' = Subscription(yRoom, catalog)
  /\ UNCHANGED <<yRoom, yRef, yEvents, yPending, yFrame, yMail, yPosted, yReplies, yPosts>>

\* The SDK (external): a state event is emitted by the timeline and by the
\* room state, and once more after a gap in the sync.
EventHappens(r, state) ==
  /\ Cardinality(yEvents) < MaxHappened
  /\ LET e == [id |-> Cardinality(yEvents) + 1, room |-> r] IN
     /\ yEvents' = yEvents \cup {e}
     /\ yPending' = yPending \cup
          {[event |-> e, bus |-> b, again |-> FALSE] : b \in IF state THEN {"timeline", "state"} ELSE {"timeline"}}
  /\ UNCHANGED <<yRoom, yRef, yCatalog, ySub, yFrame, yMail, yPosted, yReplies, yHops, yPosts>>

\* handler: the message bears the roomId prop, not the room of the event.
Forward(e) ==
  /\ ySub' = [ySub EXCEPT !.seen = @ \cup {e.id}]
  /\ yFrame' = yFrame \cup
       {[event |-> e, label |-> ySub.label, sub |-> ySub.n,
         times |-> Cardinality({m \in yFrame : m.event = e /\ m.sub = ySub.n}) + 1]}

\* onTimeline, onStateEvent: events of the room, not seen yet.
Listens(d) == ySub.of = d.event.room /\ d.event.id \notin ySub.seen

Delivered(d) ==
  /\ d \in yPending
  /\ \/ yPending' = yPending \ {d}
     \/ ~d.again /\ yPending' = (yPending \ {d}) \cup {[d EXCEPT !.again = TRUE]}
  /\ IF Listens(d) THEN Forward(d.event) ELSE UNCHANGED <<ySub, yFrame>>
  /\ UNCHANGED <<yRoom, yRef, yCatalog, yEvents, yMail, yPosted, yReplies, yHops, yPosts>>

CrossRoom(r) == r # Unopened /\ r # yRoom

\* extension:send_state_event from the frame, for room r, or Unopened when the
\* message names none.
postMessage(r, valid) ==
  /\ Embedded(yRoom, yCatalog) /\ yPosts < MaxPosts /\ yPosts' = yPosts + 1
  /\ yMail' = yMail \cup {[n |-> yPosts', from |-> AppOf[yRoom], room |-> r, valid |-> valid]}
  /\ UNCHANGED <<yRoom, yRef, yCatalog, ySub, yEvents, yPending, yFrame, yPosted, yReplies, yHops>>

\* Why a message is refused, by the channel on the screen as it is handled,
\* whoever sent it (event.source is only replied to); an app channel is in mode
\* shared, its viewer a participant.
Refused(m) ==
  IF ~m.valid THEN {"invalid_payload"}
  ELSE IF CrossRoom(m.room) \/ ~check("shared", "participant", "send_state_events")
       THEN {"session_role_forbidden"}
  ELSE IF ~manifestAllows(AppOf[yRoom], {"state_events", "matrix.send"})
       THEN {"manifest_missing_permission"}
  ELSE {}

\* The listener of ExtensionEmbed; without an embed nobody listens.
sendStateEvent(m, ok) ==
  /\ m \in yMail /\ yMail' = yMail \ {m}
  /\ IF Embedded(yRoom, yCatalog) /\ Refused(m) = {} /\ ok
     THEN yPosted' = yPosted \cup {[room |-> yRoom, app |-> AppOf[yRoom], from |-> m.from]}
     ELSE UNCHANGED yPosted
  /\ yReplies' = yReplies \cup (IF ~Embedded(yRoom, yCatalog) THEN {}
                               ELSE IF Refused(m) # {} \/ ok THEN Refused(m) ELSE {"backend_error"})
  /\ UNCHANGED <<yRoom, yRef, yCatalog, ySub, yEvents, yPending, yFrame, yHops, yPosts>>

BridgeInit ==
  /\ yRoom = Unopened /\ yRef = Unopened /\ ySub = NoSub
  /\ yCatalog \in {{}, DOMAIN Permission}
  /\ yEvents = {} /\ yPending = {} /\ yFrame = {} /\ yMail = {} /\ yPosted = {} /\ yReplies = {}
  /\ yHops = 0 /\ yPosts = 0

BridgeNext ==
  \/ \E r \in AppRoom : openChannel(r) \/ \E state \in BOOLEAN : EventHappens(r, state)
  \/ \E catalog \in SUBSET DOMAIN Permission : reloadPermissions(catalog)
  \/ \E d \in yPending : Delivered(d)
  \/ \E r \in AppRoom \cup {Unopened}, valid \in BOOLEAN : postMessage(r, valid)
  \/ \E m \in yMail, ok \in BOOLEAN : sendStateEvent(m, ok)

BridgeSpec == BridgeInit /\ [][BridgeNext]_bridgeVars

-----------------------------------------------------------------------------

\* The frame's state is well formed.
BridgeTypeOK ==
  /\ yRoom \in AppRoom \cup {Unopened} /\ yRef = yRoom
  /\ ySub.label \in {Unopened, yRoom} /\ yCatalog \subseteq DOMAIN Permission
  /\ \A p \in yPosted : p.room \in AppRoom

\* A subscription forwards an event at most once, though the timeline and the
\* room state both emit it, in either order and after a gap again.
ForwardedOnce == \A m \in yFrame : m.times = 1

\* "Filters to the target room" (useExtensionBridge.ts): what reaches the frame
\* of a room is an event of that room.
EventsOfItsRoom == \A m \in yFrame : m.label = m.event.room
=============================================================================
