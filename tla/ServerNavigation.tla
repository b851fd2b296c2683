-------------------------- MODULE ServerNavigation --------------------------
(***************************************************************************)
(* The user's servers and where in them the client is: stores/server.ts,   *)
(* the sidebars that drive it, and the effects of ChatLayout and App that  *)
(* follow it.  Every store operation awaits a REST call and then changes   *)
(* the state as it finds it, so operations interleave with each other and  *)
(* with the user's clicks.  The effects of a change run before the next    *)
(* step (React commits and runs them in the order they are declared).      *)
(***************************************************************************)
EXTENDS Naturals, Sequences, SequencesExt, FiniteSets, Selection

CONSTANTS
  SrvId,      \* servers; Lobby is the one named so
  Lobby,
  NavRoom,    \* Matrix rooms on the user's homeserver
  MaxCalls,   \* bound on calls
  MaxReloads  \* bound on reloads and logouts

Nowhere == "nowhere"  \* null

ASSUME NavigationAssumption ==
  /\ Lobby \in SrvId /\ MaxCalls \in Nat /\ MaxReloads \in Nat
  /\ Nowhere \notin SrvId \cup NavRoom

VARIABLES
  nServers,   \* servers: the store's list
  nActive,    \* activeServerId
  nChannel,   \* activeChannelId
  nDM,        \* dmActive
  nPorch,     \* localActive
  nNative,    \* a native build: ChatLayout stays mounted without a login
  nIn,        \* somebody is logged in
  nLoaded,    \* serversLoaded: "mounted", "loading", "settling", "loaded"
  nRestored,  \* startupRestoreHandled
  nLast,      \* concord_last_channel, in localStorage
  nCalls,     \* calls under way
  nSent,      \* calls made so far
  nBackend,   \* the channels of the servers the user is a member of (external)
  nJoined,    \* the rooms the user is joined to (external)
  nCleanup,   \* the one-shot cleanup: its stage and the rooms left to leave
  nReloads,   \* reloads and logouts so far
  nStray      \* history: an answer strayed, and the user did not move since

navigationVars == <<nServers, nActive, nChannel, nDM, nPorch, nNative, nIn, nLoaded,
                    nRestored, nLast, nCalls, nSent, nBackend, nJoined, nCleanup, nReloads,
                    nStray>>
place == <<nActive, nChannel, nDM, nPorch, nNative, nIn>>

Chan(r, name) == [room |-> r, name |-> name, app |-> FALSE]
AppChan(r) == [room |-> r, name |-> "other", app |-> TRUE]
Srv(s, chans) == [id |-> s, channels |-> chans]
RoomsOf(chans) == {c.room : c \in ToSet(chans)}
Listed(servers, s) == \E i \in 1..Len(servers) : servers[i].id = s
ServerOf(servers, s) == servers[First({i \in 1..Len(servers) : servers[i].id = s})]
InServer(servers, s, r) == Listed(servers, s) /\ r \in RoomsOf(ServerOf(servers, s).channels)

\* listServers: the memberships, in an order of the server's.
Listing(backend) ==
  [i \in 1..Cardinality(DOMAIN backend) |->
     LET s == SetToSeq(DOMAIN backend)[i] IN Srv(s, backend[s])]
Including(backend, s, chans) ==
  [x \in DOMAIN backend \cup {s} |-> IF x = s THEN chans ELSE backend[x]]
Managed(backend) == UNION {RoomsOf(backend[s]) : s \in DOMAIN backend}

FirstRoom(chans) == IF chans = <<>> THEN Nowhere ELSE chans[1].room
\* pickPreferredChannel and pickLobbyServer
pickPreferredChannel(chans) ==
  LET named == Where(chans, LAMBDA c : c.name = "welcome") IN
  IF named # <<>> THEN named[1].room ELSE FirstRoom(chans)
pickLobbyServer(servers) ==
  IF Listed(servers, Lobby) THEN ServerOf(servers, Lobby) ELSE servers[1]

\* Each server of the list with f applied to the channels of server s.
MapServer(servers, s, f(_)) ==
  [i \in 1..Len(servers) |->
     IF servers[i].id = s THEN [servers[i] EXCEPT !.channels = f(@)] ELSE servers[i]]

-----------------------------------------------------------------------------
(***************************************************************************)
(* The effects that follow a change: ChatLayout notes the channel, leaves  *)
(* the porch when something else is active, and, once after startup,       *)
(* returns to the noted channel.                                           *)
(***************************************************************************)

Noted(a, c, dm) == IF ~dm /\ a # Nowhere /\ c # Nowhere THEN <<a, c>> ELSE nLast

Commit(servers, a, c, dm, porch, loaded) ==
  LET noted == Noted(a, c, dm)
      tries == loaded = "loaded" /\ ~nRestored
      back == tries /\ noted # Nowhere /\ InServer(servers, noted[1], noted[2]) IN
  /\ nServers' = servers /\ nLoaded' = loaded /\ nLast' = noted /\ UNCHANGED <<nNative, nIn>>
  /\ nActive' = IF back THEN noted[1] ELSE a
  /\ nChannel' = IF back THEN noted[2] ELSE c
  /\ nDM' = (dm /\ ~back)
  /\ nPorch' = (porch /\ a = Nowhere /\ c = Nowhere /\ ~dm /\ ~back)
  /\ nRestored' = (nRestored \/ (tries /\ (noted = Nowhere \/ back)))

Mounted == nIn \/ nNative
\* The startup effect comes before anything the user does.
Free == nIn => nLoaded # "mounted"

\* A click that moves the user.
Go(a, c, dm, porch) ==
  /\ Free
  /\ Commit(nServers, a, c, dm, porch, nLoaded)
  /\ nStray' = FALSE
  /\ UNCHANGED <<nCalls, nSent, nBackend, nJoined, nCleanup, nReloads>>

\* ServerSidebar.handleServerClick, setActiveServer.
setActiveServer(servers, s) ==
  IF Listed(servers, s) THEN pickPreferredChannel(ServerOf(servers, s).channels) ELSE Nowhere
handleServerClick(s) ==
  /\ Mounted /\ Listed(nServers, s)
  /\ Go(s, setActiveServer(nServers, s), FALSE, nPorch)
handleDMClick == Mounted /\ Go(Nowhere, Nowhere, TRUE, nPorch)
handleChannelClick(r) ==
  /\ Mounted /\ ~nDM /\ InServer(nServers, nActive, r)
  /\ Go(nActive, r, nDM, nPorch)
openLocal == nNative /\ Go(Nowhere, Nowhere, FALSE, TRUE)

-----------------------------------------------------------------------------
(***************************************************************************)
(* Calls.  prev: the list when the call was made, where its answer uses    *)
(* it; value: what the server answered.                                    *)
(***************************************************************************)

Call(op, s, c) ==
  [id |-> nSent, op |-> op, server |-> s, channel |-> c, boot |-> FALSE,
   prev |-> IF op \in {"reorder", "stop"} THEN nServers ELSE <<>>,
   stage |-> "sent", value |-> <<>>]

Ask(c) ==
  /\ nSent < MaxCalls /\ nIn /\ Free
  /\ nCalls' = nCalls \cup {c} /\ nSent' = nSent + 1
AskOnly(c) ==
  /\ Ask(c)
  /\ UNCHANGED <<nServers, place, nLoaded, nRestored, nLast, nBackend, nJoined, nCleanup,
                 nReloads, nStray>>

FreshRooms == NavRoom \ (nJoined \cup Managed(nBackend))
NoChannel == Chan(Nowhere, "other")
AskLoad(s) == AskOnly(Call("load", s, NoChannel))                  \* a refresh, or after joining s
AskJoin(s) == s \notin DOMAIN nBackend /\ AskOnly(Call("join", s, NoChannel))
AskCreateServer(s, r) ==
  /\ s \notin DOMAIN nBackend /\ r \in FreshRooms
  /\ AskOnly(Call("create server", s, Chan(r, "other")))
AskChannel(op, r, name) ==
  /\ op \in {"create channel", "launch"} => r \in FreshRooms
  /\ op \in {"delete channel", "rename"} => InServer(nServers, nActive, r)
  /\ ~nDM /\ Listed(nServers, nActive)
  /\ AskOnly(Call(op, nActive, [Chan(r, name) EXCEPT !.app = (op = "launch")]))
\* handleStopAppChannel: the app that the pane shows.
AskStop ==
  /\ ~nDM /\ InServer(nServers, nActive, nChannel)
  /\ \E x \in ToSet(ServerOf(nServers, nActive).channels) : x.room = nChannel /\ x.app
  /\ AskOnly(Call("stop", nActive, Chan(nChannel, "other")))
AskRemoveServer(op, s) == Listed(nServers, s) /\ AskOnly(Call(op, s, NoChannel))

\* reorderChannels shows the new order at once.
AskReorder ==
  /\ ~nDM /\ Listed(nServers, nActive) /\ Len(ServerOf(nServers, nActive).channels) > 1
  /\ Ask(Call("reorder", nActive, NoChannel))
  /\ Commit(MapServer(nServers, nActive, Reverse), nActive, nChannel, nDM, nPorch, nLoaded)
  /\ UNCHANGED <<nBackend, nJoined, nCleanup, nReloads, nStray>>

-----------------------------------------------------------------------------
(***************************************************************************)
(* The server (external).                                                  *)
(***************************************************************************)

Enrolled(s) ==
  Including(nBackend, s, <<Chan(CHOOSE r \in NavRoom : r \notin Managed(nBackend), "welcome")>>)
WithChannel(b, s, f(_)) == [b EXCEPT ![s] = f(@)]
Without(chans, r) == Where(chans, LAMBDA x : x.room # r)
Renamed(chans, c) ==
  [i \in 1..Len(chans) |-> IF chans[i].room = c.room THEN [chans[i] EXCEPT !.name = c.name] ELSE chans[i]]
\* The order sent with a reorder, and the channels put into it.
OrderSent(c) == Reverse(ServerOf(c.prev, c.server).channels)
Arranged(chans, order) ==
  [i \in 1..Len(order) |-> CHOOSE x \in ToSet(chans) : x.room = order[i].room]
Known(c) == c.server \in DOMAIN nBackend

\* What carrying out a call makes of the memberships.
Carried(c) ==
  CASE c.op \in {"join", "joining"} /\ ~Known(c) -> Enrolled(c.server)
    [] c.op = "create server" -> Including(nBackend, c.server, <<c.channel>>)
    [] c.op \in {"create channel", "launch"} ->
         WithChannel(nBackend, c.server, LAMBDA chans : Append(chans, c.channel))
    [] c.op \in {"delete channel", "stop"} ->
         WithChannel(nBackend, c.server, LAMBDA chans : Without(chans, c.channel.room))
    [] c.op = "rename" -> WithChannel(nBackend, c.server, LAMBDA chans : Renamed(chans, c.channel))
    [] c.op = "reorder" -> WithChannel(nBackend, c.server, LAMBDA chans : Arranged(chans, OrderSent(c)))
    [] c.op \in {"delete server", "leave"} ->
         [s \in DOMAIN nBackend \ {c.server} |-> nBackend[s]]
    [] OTHER -> nBackend

ServerOps == {"create channel", "launch", "delete channel", "stop", "rename", "reorder",
              "delete server", "leave"}
\* It refuses what it cannot carry out.
Feasible(c) ==
  /\ c.op \in ServerOps => Known(c)
  /\ c.op \in {"delete channel", "stop", "rename"} => c.channel.room \in RoomsOf(nBackend[c.server])
  \* every channel of the server exactly once
  /\ c.op = "reorder" => RoomsOf(OrderSent(c)) = RoomsOf(nBackend[c.server])
                         /\ Cardinality(RoomsOf(OrderSent(c))) = Len(OrderSent(c))
  /\ c.op = "create server" => ~Known(c) /\ c.channel.room \notin Managed(nBackend)
  /\ c.op \in {"create channel", "launch"} => c.channel.room \notin Managed(nBackend)
  /\ c.op \in {"join", "joining"} /\ ~Known(c) => NavRoom \ Managed(nBackend) # {}

CallMoved(c, stage, value) ==
  nCalls' = (nCalls \ {c}) \cup {[c EXCEPT !.stage = stage, !.value = value]}
ServeCall(c) ==
  /\ c.stage = "sent" /\ Feasible(c)
  /\ nBackend' = Carried(c)
  /\ nJoined' = nJoined \cup Managed(nBackend')
  /\ CallMoved(c, "done", IF c.op \in {"load", "joining"} THEN Listing(nBackend') ELSE <<>>)
  /\ UNCHANGED <<nServers, place, nLoaded, nRestored, nLast, nSent, nCleanup, nReloads, nStray>>
RefuseCall(c) ==
  /\ c.stage = "sent"
  /\ CallMoved(c, "failed", <<>>)
  /\ UNCHANGED <<nServers, place, nLoaded, nRestored, nLast, nSent, nBackend, nJoined, nCleanup,
                 nReloads, nStray>>

-----------------------------------------------------------------------------
(***************************************************************************)
(* Answers.                                                                *)
(***************************************************************************)

\* An answer strays when it moves the pane though the user has left its server
\* or the list has lost it, shows a server a second time, or goes by a list that
\* has changed since.
Strays(c) ==
  \/ c.op \in {"launch", "delete channel", "stop"} /\ c.server # nActive
  \/ c.op = "launch" /\ ~Listed(nServers, c.server)
  \/ c.op = "stop" /\ nServers # c.prev
  \/ c.op = "create server" /\ Listed(nServers, c.server)
  \/ c.op = "reorder" /\ c.stage = "failed" /\ nServers # MapServer(c.prev, c.server, Reverse)
\* A list that was loaded settles where the user is.
Done(c) ==
  /\ nStray' = IF c.op \in {"load", "joining"} THEN nStray /\ c.stage = "failed" /\ c.op = "load"
               ELSE nStray \/ (c.stage = "done" /\ Strays(c)) \/ (c.op = "reorder" /\ Strays(c))
  /\ nCalls' = nCalls \ {c}
  /\ UNCHANGED <<nSent, nBackend, nJoined, nCleanup, nReloads>>
Settled(c) == IF c.boot /\ nLoaded = "loading" THEN "settling" ELSE nLoaded

\* loadServers: where the user is after the list changed.
Landed(servers) ==
  IF InServer(servers, nActive, nChannel) \/ servers = <<>> THEN <<nActive, nChannel>>
  ELSE LET lobby == pickLobbyServer(servers) IN <<lobby.id, pickPreferredChannel(lobby.channels)>>

\* loadServers: an empty list is followed by an attempt to join the default
\* server; whatever comes of that, the list is taken over.  A caller that
\* joined a server goes there next, even when the load failed.
loadServers(c) ==
  /\ c.op \in {"load", "joining"} /\ c.stage \in {"done", "failed"}
  /\ LET gives == c.stage = "done" \/ c.op = "joining"
         at == IF gives THEN Landed(c.value) ELSE <<nActive, nChannel>>
         servers == IF gives THEN c.value ELSE nServers IN
     IF c.op = "load" /\ c.stage = "done" /\ c.value = <<>> THEN
       /\ nCalls' = (nCalls \ {c}) \cup {[c EXCEPT !.op = "joining", !.server = Lobby,
                                                   !.channel.room = c.server, !.stage = "sent"]}
       /\ UNCHANGED <<nServers, place, nLoaded, nRestored, nLast, nSent, nBackend, nJoined, nCleanup,
                      nReloads, nStray>>
     ELSE LET next == IF c.op = "joining" THEN c.channel.room ELSE c.server IN
       /\ IF next = Nowhere THEN Commit(servers, at[1], at[2], nDM, nPorch, Settled(c))
          ELSE Commit(servers, next, setActiveServer(servers, next), nDM, nPorch, Settled(c))
       /\ Done(c)

\* A joined server is loaded, then shown.
Joined(c) ==
  /\ c.op = "join" /\ c.stage \in {"done", "failed"}
  /\ IF c.stage = "done"
     THEN nCalls' = (nCalls \ {c}) \cup {[c EXCEPT !.op = "load", !.stage = "sent"]}
     ELSE nCalls' = nCalls \ {c}
  /\ UNCHANGED <<nServers, place, nLoaded, nRestored, nLast, nSent, nBackend, nJoined, nCleanup,
                 nReloads, nStray>>

createServer(c) ==
  /\ c.op = "create server" /\ c.stage = "done"
  /\ Commit(Append(nServers, Srv(c.server, <<c.channel>>)), c.server, c.channel.room, nDM, nPorch,
            nLoaded)
  /\ Done(c)

WithNew(c) == MapServer(nServers, c.server, LAMBDA chans : Append(chans, c.channel))
createChannel(c) ==
  /\ c.op = "create channel" /\ c.stage = "done"
  /\ Commit(WithNew(c), nActive, nChannel, nDM, nPorch, nLoaded)
  /\ Done(c)
\* The launcher goes to the channel it started.
startServerExtension(c) ==
  /\ c.op = "launch" /\ c.stage = "done"
  /\ Commit(WithNew(c), nActive, c.channel.room, nDM, nPorch, nLoaded)
  /\ Done(c)

\* Where removing a server leaves the user; deleteServer and leaveServer.
deleteServer(c) ==
  /\ c.op \in {"delete server", "leave"} /\ c.stage = "done"
  /\ LET remaining == Where(nServers, LAMBDA x : x.id # c.server)
         gone == nActive = c.server
         a == IF ~gone THEN nActive ELSE IF remaining = <<>> THEN Nowhere ELSE remaining[1].id
         ch == IF ~gone THEN nChannel
               ELSE IF remaining = <<>> THEN Nowhere ELSE FirstRoom(remaining[1].channels) IN
     Commit(remaining, a, ch, nDM, nPorch, nLoaded)
  /\ Done(c)

WithoutOld(c) == MapServer(nServers, c.server, LAMBDA chans : Without(chans, c.channel.room))
\* The pane after a channel went: moved when its room is none of that server's,
\* whichever server is active.
AfterDelete(c) ==
  LET chans == ServerOf(WithoutOld(c), c.server).channels
      wasActive == nChannel # Nowhere /\ Listed(nServers, c.server) /\ nChannel \notin RoomsOf(chans) IN
  IF wasActive THEN FirstRoom(chans) ELSE nChannel

\* Mutant: the deleted channel stays on the screen.
deleteChannel_Shown(c) ==
  /\ c.op = "delete channel" /\ c.stage = "done"
  /\ Commit(WithoutOld(c), nActive, nChannel, nDM, nPorch, nLoaded)
  /\ Done(c)

deleteChannel(c) ==
  /\ c.op = "delete channel" /\ c.stage = "done"
  /\ Commit(WithoutOld(c), nActive, AfterDelete(c), nDM, nPorch, nLoaded)
  /\ Done(c)
\* handleStopAppChannel goes on to a text channel of the list it was made with
\* (React's render in between is left out).
handleStopAppChannel(c) ==
  /\ c.op = "stop" /\ c.stage = "done"
  /\ LET others == Where(ServerOf(c.prev, c.server).channels,
                         LAMBDA x : x.room # c.channel.room /\ ~x.app) IN
     Commit(WithoutOld(c), nActive, IF others = <<>> THEN AfterDelete(c) ELSE others[1].room,
            nDM, nPorch, nLoaded)
  /\ Done(c)

renameChannel(c) ==
  /\ c.op = "rename" /\ c.stage = "done"
  /\ Commit(MapServer(nServers, c.server, LAMBDA chans : Renamed(chans, c.channel)),
            nActive, nChannel, nDM, nPorch, nLoaded)
  /\ Done(c)

\* A failure puts back the whole list as it was when the call was made.
reorderChannels(c) ==
  /\ c.op = "reorder" /\ c.stage \in {"done", "failed"}
  /\ Commit(IF c.stage = "failed" THEN c.prev ELSE nServers, nActive, nChannel, nDM, nPorch, nLoaded)
  /\ Done(c)

\* Any other failed call is a toast.
Toasted(c) ==
  /\ c.stage = "failed" /\ c.op \notin {"load", "joining", "join", "reorder"}
  /\ Done(c)
  /\ UNCHANGED <<nServers, place, nLoaded, nRestored, nLast>>

Answer(c) ==
  \/ loadServers(c) \/ Joined(c) \/ createServer(c) \/ createChannel(c) \/ startServerExtension(c)
  \/ deleteServer(c) \/ deleteChannel(c) \/ handleStopAppChannel(c) \/ renameChannel(c) \/ reorderChannels(c) \/ Toasted(c)

-----------------------------------------------------------------------------
(***************************************************************************)
(* The page: startup, the orphan cleanup, reload, logout.                  *)
(***************************************************************************)

NavigationInit ==
  /\ nServers = <<>> /\ nActive = Nowhere /\ nChannel = Nowhere /\ nDM = FALSE
  /\ nNative \in BOOLEAN /\ nPorch = nNative   \* a native build opens the porch
  /\ nIn = TRUE
  /\ nLoaded = "mounted" /\ nRestored = FALSE /\ nLast = Nowhere
  /\ nCalls = {} /\ nSent = 0
  /\ \/ nBackend = <<>>
     \/ \E a, b \in NavRoom : \E c \in {Chan(a, "other"), AppChan(a)} :
          a # b /\ nBackend = Including(<<>>, Lobby, <<c, Chan(b, "welcome")>>)
  /\ nJoined \in {Managed(nBackend), NavRoom}
  /\ nCleanup \in [stage : {"waiting", "done"}, todo : {{}}]
  /\ nReloads = 0 /\ nStray = FALSE

\* The startup effect.
Boot ==
  /\ nLoaded = "mounted" /\ nIn
  /\ nLoaded' = "loading"
  /\ nCalls' = nCalls \cup {[Call("load", Nowhere, NoChannel) EXCEPT !.boot = TRUE]}
  /\ nSent' = nSent + 1
  /\ UNCHANGED <<nServers, place, nRestored, nLast, nBackend, nJoined, nCleanup, nReloads, nStray>>
\* The conversations and the catalog have settled too.
BootSettled ==
  /\ nLoaded = "settling"
  /\ Commit(nServers, nActive, nChannel, nDM, nPorch, "loaded")
  /\ UNCHANGED <<nCalls, nSent, nBackend, nJoined, nCleanup, nReloads, nStray>>

\* Three seconds after the login: leaveOrphanRooms picks its rooms.
leaveOrphanRooms ==
  /\ nCleanup.stage = "waiting" /\ nIn /\ nLoaded # "mounted"
  /\ nCleanup' = [stage |-> "leaving",
                  todo |-> nJoined \ UNION {RoomsOf(nServers[i].channels) : i \in 1..Len(nServers)}]
  /\ UNCHANGED <<nServers, place, nLoaded, nRestored, nLast, nCalls, nSent, nBackend, nJoined,
                 nReloads, nStray>>
LeaveRoom(r, ok) ==
  /\ nCleanup.stage = "leaving" /\ r \in nCleanup.todo
  /\ nCleanup' = [nCleanup EXCEPT !.todo = @ \ {r}]
  /\ nJoined' = IF ok THEN nJoined \ {r} ELSE nJoined
  /\ UNCHANGED <<nServers, place, nLoaded, nRestored, nLast, nCalls, nSent, nBackend, nReloads, nStray>>
CleanedUp ==
  /\ nCleanup.stage = "leaving" /\ nCleanup.todo = {}
  /\ nCleanup' = [stage |-> "done", todo |-> {}]
  /\ UNCHANGED <<nServers, place, nLoaded, nRestored, nLast, nCalls, nSent, nBackend, nJoined,
                 nReloads, nStray>>

\* resetState; a call of the startup effect no longer settles it.
resetState ==
  /\ nServers' = <<>> /\ nActive' = Nowhere /\ nChannel' = Nowhere /\ nStray' = FALSE
  /\ UNCHANGED <<nNative, nLast, nBackend, nJoined>>
Orphaned == {[c EXCEPT !.boot = FALSE] : c \in nCalls}
\* A reload ends the calls; a cleanup that had not ended starts over.
ReloadPage ==
  /\ nIn /\ nReloads < MaxReloads /\ nReloads' = nReloads + 1
  /\ resetState
  /\ nDM' = FALSE /\ nPorch' = nNative
  /\ nLoaded' = "mounted" /\ nRestored' = FALSE /\ nCalls' = {} /\ nSent' = 0
  /\ nCleanup' = IF nCleanup.stage = "done" THEN nCleanup ELSE [stage |-> "waiting", todo |-> {}]
  /\ UNCHANGED nIn
\* auth.logout.  On the web ChatLayout unmounts; the direct messages stay.
Logout ==
  /\ nIn /\ Free /\ nReloads < MaxReloads /\ nReloads' = nReloads + 1
  /\ resetState
  /\ nIn' = FALSE
  /\ nLoaded' = IF nNative /\ nLoaded = "loaded" THEN nLoaded ELSE "mounted"
  /\ nRestored' = (nNative /\ nRestored)
  /\ nCalls' = Orphaned
  /\ UNCHANGED <<nDM, nPorch, nSent, nCleanup>>
Login ==
  /\ ~nIn
  /\ resetState
  /\ nIn' = TRUE
  /\ UNCHANGED <<nDM, nPorch, nLoaded, nRestored, nCalls, nSent, nCleanup, nReloads>>

NavigationNext ==
  \/ Boot \/ BootSettled \/ handleDMClick \/ openLocal \/ AskReorder \/ AskStop
  \/ leaveOrphanRooms \/ CleanedUp \/ ReloadPage \/ Logout \/ Login
  \/ AskLoad(Nowhere)
  \/ \E s \in SrvId :
       \/ handleServerClick(s) \/ AskJoin(s)
       \/ AskRemoveServer("delete server", s) \/ AskRemoveServer("leave", s)
       \/ \E r \in NavRoom : AskCreateServer(s, r)
  \/ \E r \in NavRoom :
       \/ handleChannelClick(r)
       \/ AskChannel("create channel", r, "other") \/ AskChannel("launch", r, "other")
       \/ AskChannel("delete channel", r, "other")
       \/ \E name \in {"welcome", "other"} : AskChannel("rename", r, name)
       \/ \E ok \in BOOLEAN : LeaveRoom(r, ok)
  \/ \E c \in nCalls : ServeCall(c) \/ RefuseCall(c) \/ Answer(c)

NavigationSpec == NavigationInit /\ [][NavigationNext]_navigationVars

-----------------------------------------------------------------------------

\* The list of servers and the place in it are well formed.
NavigationTypeOK ==
  /\ \A i \in 1..Len(nServers) :
       /\ nServers[i].id \in SrvId
       /\ ToSet(nServers[i].channels) \subseteq [room : NavRoom, name : {"welcome", "other"}, app : BOOLEAN]
  /\ nActive \in SrvId \cup {Nowhere} /\ nChannel \in NavRoom \cup {Nowhere}
  /\ {nDM, nPorch, nNative, nIn, nRestored, nStray} \subseteq BOOLEAN
  /\ nLoaded \in {"mounted", "loading", "settling", "loaded"}
  /\ nSent \in 0..MaxCalls + MaxReloads + 1 /\ nReloads \in 0..MaxReloads

\* Whatever calls and clicks overlap, and whatever was deleted, left, reordered,
\* stopped, reloaded or restored meanwhile, the chat pane shows a room of the
\* server beside it, unless an answer strayed since the user moved or the list
\* was loaded.
ChannelOfActiveServer ==
  nServers # <<>> /\ nChannel # Nowhere /\ ~nStray => InServer(nServers, nActive, nChannel)

\* "keeps the porch tile and Matrix tiles mutually exclusive" (ChatLayout.tsx).
OneSurface == nPorch => nActive = Nowhere /\ nChannel = Nowhere /\ ~nDM
=============================================================================
