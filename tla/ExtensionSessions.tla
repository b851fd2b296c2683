------------------------- MODULE ExtensionSessions --------------------------
(***************************************************************************)
(* Extension sessions of one room, on several clients: stores/extension.ts *)
(* and hooks/useExtension.ts.  A session is a room state event under a key *)
(* of its own; older clients keep theirs under one fixed key.  A client    *)
(* shows the newest active session of an extension that its catalog lists, *)
(* or the legacy one.  The room state is the homeserver's (external): each *)
(* client follows its log at its own pace.  Clocks are not in step.        *)
(***************************************************************************)
EXTENDS Naturals, Sequences, FiniteSets, FiniteSetsExt

CONSTANTS
  Peer,         \* clients, each of a user of its own
  App,          \* extensions
  MaxSends,     \* bound on state events
  MaxTime,      \* bound on the clocks
  MaxTurns      \* bound on changes of room and of catalog

ASSUME SessionsAssumption == {MaxSends, MaxTime, MaxTurns} \subseteq Nat

Legacy == 0   \* LEGACY_EXTENSION_STATE_KEY
None == [key |-> 0, app |-> "none", host |-> "none", at |-> 0, active |-> FALSE]

VARIABLES
  xLog,       \* the room's extension state events, in the homeserver's order
  xSeen,      \* how much of it each client has synced
  xWatch,     \* "away", "watching", or "deaf": the room was unknown when it was opened
  xKnows,     \* clients whose sync has delivered the room
  xActive,    \* activeExtensions of the room, of each client
  xCatalog,   \* catalog
  xLoaded,    \* catalogLoaded
  xInstalled, \* the extensions installed on the server (external)
  xSends,     \* sendStateEvent calls under way
  xLost,      \* a send has failed
  xUnread,    \* clients whose catalog changed after they last read the state
  xCount, xTurns

sessionsVars == <<xLog, xSeen, xWatch, xKnows, xActive, xCatalog, xLoaded, xInstalled, xSends, xLost,
                  xUnread, xCount, xTurns>>
room == <<xLog, xSeen, xKnows>>
catalogs == <<xCatalog, xLoaded, xInstalled>>
bounds == <<xCount, xTurns>>

-----------------------------------------------------------------------------
(***************************************************************************)
(* Reading the state.                                                      *)
(***************************************************************************)

\* The state at the end of a log: the last event of every key.
StateOf(log) == {log[i] : i \in {j \in DOMAIN log : \A l \in DOMAIN log : l > j => log[l].key # log[j].key}}

\* What counts as a session: an active one of an extension that the catalog lists.
parseExtensionSessionContent(catalog, e) == e.key # Legacy /\ e.active /\ e.app \in catalog
parseLegacyExtensionContent(catalog, e) == e.key = Legacy /\ e.active /\ e.app \in catalog

\* readState.  Sessions with equal times come in the order of the SDK's map.
readState(catalog, log) ==
  LET sessions == {e \in StateOf(log) : parseExtensionSessionContent(catalog, e)}
      legacy == {e \in StateOf(log) : parseLegacyExtensionContent(catalog, e)} IN
  IF sessions # {} THEN {e \in sessions : \A f \in sessions : f.at <= e.at}
  ELSE IF legacy # {} THEN legacy ELSE {None}

Reads(c) ==
  /\ \E e \in readState(xCatalog[c], SubSeq(xLog, 1, xSeen'[c])) : xActive' = [xActive EXCEPT ![c] = e]
  /\ xUnread' = xUnread \ {c}

\* Mutant: the room is shown as the store last had it.
openRoomOfSessions_NoRead(c) ==
  /\ xWatch[c] = "away" /\ xTurns < MaxTurns /\ xTurns' = xTurns + 1
  /\ xWatch' = [xWatch EXCEPT ![c] = IF c \in xKnows THEN "watching" ELSE "deaf"]
  /\ UNCHANGED <<room, xActive, xUnread, catalogs, xSends, xLost, xCount>>

\* The effects of useExtension for a room: it reads, and listens to the room
\* if the client knows it by now.
openRoomOfSessions(c) ==
  /\ xWatch[c] = "away" /\ xTurns < MaxTurns /\ xTurns' = xTurns + 1
  /\ xWatch' = [xWatch EXCEPT ![c] = IF c \in xKnows THEN "watching" ELSE "deaf"]
  /\ UNCHANGED <<room, catalogs, xSends, xLost, xCount>>
  /\ IF c \in xKnows THEN Reads(c) ELSE UNCHANGED <<xActive, xUnread>>
leaveRoomOfSessions(c) ==
  /\ xWatch[c] # "away" /\ xWatch' = [xWatch EXCEPT ![c] = "away"]
  /\ UNCHANGED <<room, xActive, catalogs, xSends, xLost, xUnread, bounds>>

\* onStateEvent, for the next event of the log.
onStateEvent(c) ==
  /\ c \in xKnows /\ xSeen[c] < Len(xLog)
  /\ xSeen' = [xSeen EXCEPT ![c] = @ + 1]
  /\ UNCHANGED <<xLog, xKnows, xWatch, catalogs, xSends, xLost, bounds>>
  /\ IF xWatch[c] = "watching" THEN Reads(c) ELSE UNCHANGED <<xActive, xUnread>>
\* The first sync of the room brings its state as it is.
RoomArrives(c) ==
  /\ c \notin xKnows /\ xKnows' = xKnows \cup {c}
  /\ xSeen' = [xSeen EXCEPT ![c] = Len(xLog)]
  /\ UNCHANGED <<xLog, xWatch, xActive, catalogs, xSends, xLost, xUnread, bounds>>

-----------------------------------------------------------------------------
(***************************************************************************)
(* Starting and stopping: shown first, sent then.                          *)
(***************************************************************************)

createSessionId(n) == n

Sending(e) == xSends' = xSends \cup {e}

\* The menu starts what is not shown already.
startExtension(c, a, at) ==
  /\ xWatch[c] # "away" /\ a \in xCatalog[c] /\ xActive[c].app # a
  /\ xCount < MaxSends /\ xCount' = xCount + 1
  /\ LET session == [key |-> createSessionId(xCount'), app |-> a, host |-> c, at |-> at, active |-> TRUE] IN
       xActive' = [xActive EXCEPT ![c] = session] /\ Sending(session)
  /\ UNCHANGED <<room, xWatch, catalogs, xLost, xUnread, xTurns>>
\* Its host stops what is shown; a session's end carries the time of the end.
stopExtension(c, at) ==
  /\ xWatch[c] # "away" /\ xActive[c] # None /\ xActive[c].host = c
  /\ xCount < MaxSends /\ xCount' = xCount + 1
  /\ Sending([xActive[c] EXCEPT !.active = FALSE, !.at = at])
  /\ xActive' = [xActive EXCEPT ![c] = None]
  /\ UNCHANGED <<room, xWatch, catalogs, xLost, xUnread, xTurns>>

\* The homeserver takes the calls in any order.  Failures are logged; what was
\* shown stays shown.
SendArrives(e) ==
  /\ e \in xSends /\ xSends' = xSends \ {e} /\ xLog' = Append(xLog, e)
  /\ UNCHANGED <<xSeen, xKnows, xWatch, xActive, catalogs, xLost, xUnread, bounds>>
SendFails(e) ==
  /\ e \in xSends /\ xSends' = xSends \ {e} /\ xLost' = TRUE
  /\ UNCHANGED <<room, xWatch, xActive, catalogs, xUnread, bounds>>
\* An older client starts a session under the fixed key.
LegacyStart(h, a) ==
  /\ xCount < MaxSends /\ xCount' = xCount + 1
  /\ xLog' = Append(xLog, [key |-> Legacy, app |-> a, host |-> h, at |-> 1, active |-> TRUE])
  /\ UNCHANGED <<xSeen, xKnows, xWatch, xActive, catalogs, xSends, xLost, xUnread, xTurns>>

-----------------------------------------------------------------------------
(***************************************************************************)
(* The catalog.  Loading it reads no room state.                           *)
(***************************************************************************)

reloadCatalog(c) ==
  /\ xCatalog[c] # xInstalled \/ c \notin xLoaded
  /\ xCatalog' = [xCatalog EXCEPT ![c] = xInstalled] /\ xLoaded' = xLoaded \cup {c}
  /\ xUnread' = xUnread \cup {c}
  /\ UNCHANGED <<room, xWatch, xActive, xInstalled, xSends, xLost, bounds>>
\* At startup, and only until it has succeeded once; the loads after an install
\* or uninstall of one's own force it.
loadCatalog(c) == c \notin xLoaded /\ reloadCatalog(c)
handleInstall(c, a) ==
  /\ xTurns < MaxTurns /\ xTurns' = xTurns + 1
  /\ xInstalled' = IF a \in xInstalled THEN xInstalled \ {a} ELSE xInstalled \cup {a}
  /\ xCatalog' = [xCatalog EXCEPT ![c] = xInstalled'] /\ xLoaded' = xLoaded \cup {c}
  /\ xUnread' = xUnread \cup {c}
  /\ UNCHANGED <<room, xWatch, xActive, xSends, xLost, xCount>>

SessionsInit ==
  /\ xLog = <<>> /\ xSeen = [c \in Peer |-> 0] /\ xKnows \in SUBSET Peer
  /\ xWatch \in [Peer -> {"away", "watching"}] /\ (\A c \in Peer : xWatch[c] = "watching" => c \in xKnows)
  /\ xActive = [c \in Peer |-> None]
  /\ xInstalled \in {App} \cup {App \ {a} : a \in App}
  /\ xLoaded \in SUBSET Peer /\ xCatalog = [c \in Peer |-> IF c \in xLoaded THEN xInstalled ELSE {}]
  /\ xSends = {} /\ xLost = FALSE /\ xUnread = {} /\ xCount = 0 /\ xTurns = 0

SessionsNext ==
  \/ \E c \in Peer :
       \/ openRoomOfSessions(c) \/ leaveRoomOfSessions(c) \/ onStateEvent(c) \/ RoomArrives(c)
       \/ loadCatalog(c)
       \/ \E at \in 1..MaxTime : stopExtension(c, at) \/ \E a \in App : startExtension(c, a, at)
       \/ \E a \in App : LegacyStart(c, a) \/ handleInstall(c, a)
  \/ \E e \in xSends : SendArrives(e) \/ SendFails(e)

SessionsSpec == SessionsInit /\ [][SessionsNext]_sessionsVars

-----------------------------------------------------------------------------

\* The state of the clients is well formed.
SessionsTypeOK ==
  /\ xSeen \in [Peer -> 0..Len(xLog)] /\ xWatch \in [Peer -> {"away", "watching", "deaf"}]
  /\ \A c \in Peer : xActive[c] # None =>
       xActive[c].key \in 0..MaxSends /\ xActive[c].app \in App /\ xActive[c].host \in Peer
  /\ xCatalog \in [Peer -> SUBSET App] /\ xInstalled \subseteq App /\ {xLoaded, xUnread} \subseteq SUBSET Peer

\* When every send has arrived and been synced, two clients that watch the
\* room, with the same catalog since they last read the state, show the same
\* session, whoever started or stopped what in whatever order, unless two
\* active sessions bear the same time.
AllSent == xSends = {} /\ ~xLost
UpToDate(c) == xWatch[c] = "watching" /\ xSeen[c] = Len(xLog) /\ c \notin xUnread
Untied == \A e, f \in StateOf(xLog) : e.active /\ f.active /\ e.at = f.at => e.key = f.key
SessionsAgree ==
  AllSent /\ Untied =>
    \A c, d \in Peer : UpToDate(c) /\ UpToDate(d) /\ xCatalog[c] = xCatalog[d] =>
      xActive[c].key = xActive[d].key /\ xActive[c].app = xActive[d].app

=============================================================================
