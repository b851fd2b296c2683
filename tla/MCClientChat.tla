---------------------------- MODULE MCClientChat ----------------------------
(***************************************************************************)
(* One run for the parts of the chat that share no state.  A behaviour is  *)
(* one of the part that focus names; the others stand still.               *)
(***************************************************************************)
EXTENDS ServerNavigation, RoomMessages, Composer, ExtensionSessions, MCExtensionBridge, PeerBook

VARIABLE focus

\* Two short messages: at most three characters fit together.
MCBody == {[text |-> "a", length |-> 1], [text |-> "bc", length |-> 2]}

vars == <<focus, navigationVars, messagesVars, composerVars, sessionsVars, bridgeVars, peerVars>>

Init ==
  /\ focus \in {"navigation", "messages", "composer", "sessions", "bridge", "peers"}
  /\ NavigationInit
  \* A cleanup that waits is of a user of no server yet, and in no room (no property
  \* is about the rooms it leaves); one that is done left none.
  /\ IF focus = "navigation"
     THEN /\ nCleanup.stage = "waiting" => nJoined = {} /\ ~nNative /\ nBackend = <<>>
          /\ nCleanup.stage = "done" => nJoined = Managed(nBackend)
          /\ nBackend # <<>> => nBackend[Lobby][1] = AppChan("r1") /\ nBackend[Lobby][2].room = "r2"
     ELSE nBackend = <<>> /\ nJoined = {} /\ nNative /\ nCleanup.stage = "done"
  /\ MessagesInit
  /\ IF focus = "messages"
     THEN \E r \in MsgRoom : r \in rKnown /\ \A s \in MsgRoom \ {r} : rOlder[s] = <<>>
     ELSE rKnown = {} /\ \A r \in MsgRoom : rOlder[r] = <<>>
  /\ ComposerInit
  /\ bRoom = "ra" /\ (focus # "composer" => bMember = BoxRoom)
  /\ SessionsInit
  \* c watches the room and has yet to load the catalog; d does not know the room.
  /\ xInstalled = App /\ xLoaded = {"d"} /\ xWatch["c"] = "watching" /\ xKnows = {"c"}
  /\ BridgeInit
  /\ focus # "bridge" => yCatalog = {}
  /\ PeerInit
  \* Only a browser starts with a peer of an earlier run.
  /\ pDisk["q"] = Unpaired
  /\ pNative => pDisk["p"] = Unpaired
  /\ focus # "peers" => pNative

Stays(f) ==
  /\ focus = f /\ UNCHANGED focus
  /\ f # "navigation" => UNCHANGED navigationVars
  /\ f # "messages" => UNCHANGED messagesVars
  /\ f # "composer" => UNCHANGED composerVars
  /\ f # "sessions" => UNCHANGED sessionsVars
  /\ f # "bridge" => UNCHANGED bridgeVars
  /\ f # "peers" => UNCHANGED peerVars

Next ==
  \/ Stays("navigation") /\ NavigationNext
  \/ Stays("messages") /\ MessagesNext
  \/ Stays("composer") /\ ComposerNext
  \/ Stays("sessions") /\ SessionsNext
  \/ Stays("bridge") /\ BridgeNext
  \/ Stays("peers") /\ PeerNext

Spec == Init /\ [][Next]_vars

\* Every part of the chat is well formed; one surface is shown at a time; a
\* frame gets an event once; the camera is off outside its tab.
ChatInv ==
  /\ NavigationTypeOK /\ MessagesTypeOK /\ ComposerTypeOK
  /\ SessionsTypeOK /\ BridgeTypeOK /\ PeerTypeOK
  /\ OneSurface
  /\ ForwardedOnce
  /\ CameraOff
=============================================================================
