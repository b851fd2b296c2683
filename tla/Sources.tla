------------------------------ MODULE Sources ------------------------------
(***************************************************************************)
(* The sources of a user (stores/sources.ts): Concord, Matrix and Reticulum*)
(* servers with a session each, the dialog that adds them, the browser that*)
(* signs in to one, the rail that shows them and lib/disconnectSource.ts.  *)
(***************************************************************************)
EXTENDS Naturals, Sequences, SequencesExt, Selection

CONSTANTS User,       \* Concord accounts
          Host,       \* servers
          Origin,     \* the host that serves a web build
          MaxSources, \* bound on sources ever added
          MaxStarts   \* bound on launches

ASSUME SourcesAssumption ==
  /\ Origin \in Host /\ "none" \notin User \cup Host
  /\ MaxSources \in Nat \ {0} /\ MaxStarts \in Nat

VARIABLES
  sNative,   \* a Tauri build
  sStarts,   \* launches so far
  sUser,     \* auth.userId, persisted with the session
  sBound,    \* boundUserId
  sSources,  \* the store, persisted
  sAdded,    \* identifiers given out
  sConfig,   \* the host of the persisted serverConfig, or "none"
  sRail,     \* railOrder, with the tile that adds a source
  sModal,    \* the dialog: the screen, its draft, the call under way
  sBrowsing, \* the source whose sign-in is under way in the browser, or 0
  sPending,  \* the source of the pending single sign-on, or 0
  sAway,     \* the page has been left for a sign-on
  sNaming,   \* a web page's request for the name of its instance is under way
  sGone      \* hosts whose last row was disconnected for good, and not added again

sourcesVars == <<sNative, sStarts, sUser, sBound, sSources, sAdded, sConfig, sRail,
                 sModal, sBrowsing, sPending, sAway, sNaming, sGone>>

Plus == 0  \* ADD_SOURCE_TILE_ID
Platforms == {"concord", "matrix", "reticulum"}
Closed == [screen |-> "closed", host |-> "none", call |-> "none"]

\* A source; account is the one signed in to.  Names, colours, the status dot
\* and the enabled switch are left out.
Source(id, host, platform, invited, owner, account) ==
  [id |-> id, host |-> host, platform |-> platform, invited |-> invited, owner |-> owner,
   account |-> account]

Ids(sources) == [i \in 1..Len(sources) |-> sources[i].id]
Has(sources, id) == \E i \in 1..Len(sources) : sources[i].id = id
SourceOf(sources, id) == sources[CHOOSE i \in 1..Len(sources) : sources[i].id = id]

isPrimarySource(s) == s.platform = "concord" /\ ~s.invited

-----------------------------------------------------------------------------
(***************************************************************************)
(* The rail (components/layout/SourcesPanel.tsx).                          *)
(***************************************************************************)

Unplaced(ids, rail) == Where(ids, LAMBDA id : ~Contains(rail, id))

\* The stored order is replayed up to the tile, before which goes everything not yet
\* placed, also what is stored after it.
normalizeRailOrder(ids, stored) ==
  LET tiles == {i \in DOMAIN stored : stored[i] = Plus}
      above == IF tiles = {} THEN stored ELSE SubSeq(stored, 1, First(tiles) - 1)
      placed == Distinct(above, ToSet(ids)) IN
  placed \o Unplaced(ids, placed) \o (IF tiles = {} THEN <<Plus>> ELSE Picked(stored, tiles))

\* The store changes, and the panel's effect brings the rail up to date.
PutSources(sources, rail) ==
  /\ sSources' = sources
  /\ sRail' = normalizeRailOrder(Ids(sources), rail)

\* The sources in the order of their tiles; one without a tile goes last.
setSourceOrder(order) ==
  LET known == Distinct(order, ToSet(Ids(sSources))) IN
  [i \in DOMAIN known |-> SourceOf(sSources, known[i])]
    \o Where(sSources, LAMBDA s : ~Contains(order, s.id))

\* Dragging a tile onto another moves it there, and the store follows the rail.
handleDragEnd(from, to) ==
  /\ from # to
  /\ LET next == InsertAt(RemoveAt(sRail, from), to, sRail[from]) IN
     PutSources(setSourceOrder(Where(next, LAMBDA id : id # Plus)), next)
  /\ UNCHANGED <<sNative, sStarts, sUser, sBound, sAdded, sConfig, sModal, sBrowsing,
                  sPending, sAway, sNaming, sGone>>

-----------------------------------------------------------------------------
(***************************************************************************)
(* Sessions of the Concord user (stores/auth.ts).                          *)
(***************************************************************************)

\* Mutant: the sources of the previous user stay.
Bound_KeepsAll(sources, bound, user) == sources

\* The sources left once the store is bound to a user: primary ones, and the user's own.
Bound(sources, bound, user) ==
  LET owner(s) == IF isPrimarySource(s) THEN "none" ELSE IF s.owner # "none" THEN s.owner ELSE bound
      kept == Where(sources, LAMBDA s : isPrimarySource(s) \/ (user # "none" /\ owner(s) = user))
  IN [i \in 1..Len(kept) |-> [kept[i] EXCEPT !.owner = owner(kept[i])]]

login(user) ==
  /\ ~sNative /\ sUser = "none"
  /\ sUser' = user /\ sBound' = user
  /\ PutSources(Bound(sSources, sBound, user), sRail)
  /\ UNCHANGED <<sNative, sStarts, sAdded, sConfig, sModal, sBrowsing, sPending, sAway,
                  sNaming, sGone>>

logout ==
  /\ sUser # "none" /\ sModal = Closed /\ sBrowsing = 0
  /\ sUser' = "none" /\ sBound' = "none"
  /\ PutSources(Bound(sSources, sBound, "none"), sRail)
  /\ UNCHANGED <<sNative, sStarts, sAdded, sConfig, sModal, sBrowsing, sPending, sAway,
                  sNaming, sGone>>

-----------------------------------------------------------------------------
(***************************************************************************)
(* The store's writers.                                                    *)
(***************************************************************************)

NewId == sAdded + 1
addSource(host, platform, invited, account) ==
  Append(sSources, Source(NewId, host, platform, invited, sBound, account))

HostOf(sources, host) == {i \in 1..Len(sources) : sources[i].host = host}

\* ensurePrimarySource: a source of that host is refreshed, else a primary one is added.
ensurePrimarySource(sources, host) ==
  IF HostOf(sources, host) # {}
  THEN LET i == First(HostOf(sources, host)) IN
       [sources EXCEPT ![i].owner = "none"]
  ELSE Append(sources, Source(NewId, host, "concord", FALSE, "none", "none"))

\* migrateFromSession: an empty store is filled from the persisted configuration.
migrateFromSession(sources) ==
  IF sources = <<>> /\ sConfig # "none"
  THEN <<Source(NewId, sConfig, "concord", FALSE, "none", "none")>> ELSE sources

\* A launch: the stored session is restored and bound, then the startup of main.tsx
\* runs.  The rail starts from the order stored for the user; a login token in the URL
\* opens the dialog, which signs in the pending source.
Launch(stored, token) ==
  /\ sStarts < MaxStarts /\ (token => sAway)
  /\ sStarts' = sStarts + 1
  /\ LET bound == IF sUser = "none" THEN sSources ELSE Bound(sSources, sBound, sUser)
         sources == IF sNative THEN migrateFromSession(bound)
                    ELSE ensurePrimarySource(bound, Origin) IN
     /\ sAdded' = IF Len(sources) > Len(bound) THEN NewId ELSE sAdded
     /\ sAdded' <= MaxSources
     /\ sGone' = IF sNative THEN sGone ELSE sGone \ {Origin}
     /\ PutSources(sources, stored)
  /\ sBound' = IF sUser = "none" THEN sBound ELSE sUser
  /\ sModal' = IF token THEN [Closed EXCEPT !.screen = "validating", !.call = "sso"] ELSE Closed
  /\ sPending' = IF token THEN sPending ELSE 0
  /\ sBrowsing' = 0 /\ sAway' = FALSE /\ sNaming' = ~sNative
  /\ UNCHANGED <<sNative, sUser, sConfig>>

\* The answer to the request that a web page makes at its launch: with a name,
\* main.tsx ensures the row of the origin once more, disconnected or not.
InstanceNamed(named) ==
  /\ sNaming /\ sNaming' = FALSE
  /\ LET sources == IF named THEN ensurePrimarySource(sSources, Origin) ELSE sSources IN
     /\ sAdded' = IF Len(sources) > Len(sSources) THEN NewId ELSE sAdded
     /\ sAdded' <= MaxSources
     /\ PutSources(sources, sRail)
  /\ UNCHANGED <<sNative, sStarts, sUser, sBound, sConfig, sModal, sBrowsing, sPending, sAway,
                  sGone>>

\* Disconnecting lasts, except for the row of the page's own origin while the answer
\* that will ensure it again is under way.
Lasts(host) == ~(sNaming /\ host = Origin)

\* Mutant: the configuration of the host stays behind.
disconnectSource_KeepsConfig(id) ==
  /\ Has(sSources, id) /\ sModal = Closed
  /\ LET s == SourceOf(sSources, id)
         out == sUser # "none" /\ s.account = sUser
         left == Where(IF out THEN Bound(sSources, sBound, "none") ELSE sSources,
                       LAMBDA t : t.id # id) IN
     /\ sUser' = IF out THEN "none" ELSE sUser
     /\ sBound' = IF out THEN "none" ELSE sBound
     /\ sGone' = IF HostOf(left, s.host) = {} /\ Lasts(s.host) THEN sGone \cup {s.host} ELSE sGone
     /\ PutSources(left, sRail)
  /\ UNCHANGED <<sNative, sStarts, sAdded, sConfig, sModal, sBrowsing, sPending, sAway, sNaming>>

\* disconnectSource: log out if the source carries the session, drop the row and a
\* configuration that names its host.
disconnectSource(id) ==
  /\ Has(sSources, id) /\ sModal = Closed
  /\ LET s == SourceOf(sSources, id)
         out == sUser # "none" /\ s.account = sUser
         left == Where(IF out THEN Bound(sSources, sBound, "none") ELSE sSources,
                       LAMBDA t : t.id # id) IN
     /\ sUser' = IF out THEN "none" ELSE sUser
     /\ sBound' = IF out THEN "none" ELSE sBound
     /\ sConfig' = IF sConfig = s.host THEN "none" ELSE sConfig
     /\ sGone' = IF HostOf(left, s.host) = {} /\ Lasts(s.host) THEN sGone \cup {s.host} ELSE sGone
     /\ PutSources(left, sRail)
  /\ UNCHANGED <<sNative, sStarts, sAdded, sModal, sBrowsing, sPending, sAway, sNaming>>

-----------------------------------------------------------------------------
(***************************************************************************)
(* The dialog that adds a source.                                          *)
(***************************************************************************)

OnModal(modal) ==
  /\ sModal' = modal
  /\ UNCHANGED <<sNative, sStarts, sUser, sBound, sSources, sAdded, sConfig, sRail,
                 sBrowsing, sPending, sAway, sNaming, sGone>>

OpenModal == sModal = Closed /\ sBrowsing = 0 /\ OnModal([Closed EXCEPT !.screen = "address"])

CloseModal == sModal.screen # "closed" /\ sModal.call = "none" /\ OnModal(Closed)

Back == sModal.screen \in {"concord", "matrix-auth", "reticulum", "error"}
        /\ OnModal([Closed EXCEPT !.screen = "address"])

\* An address is detected, or a platform picked by hand; a Matrix one is discovered.
handleDetectAddress(host, kind) ==
  /\ sModal.screen = "address"
  /\ OnModal(CASE kind = "matrix" -> [screen |-> "matrix-auth", host |-> host, call |-> "none"]
               [] kind = "invalid" -> [screen |-> "error", host |-> "none", call |-> "none"]
               [] OTHER -> [screen |-> kind, host |-> host, call |-> "none"])

\* Connect: discovery, and the invite token's check when there is one.
ConnectStarts(call) ==
  /\ sModal.screen = (IF call = "sign in" THEN "matrix-auth" ELSE "concord")
  /\ OnModal([sModal EXCEPT !.screen = "validating", !.call = call])

ConnectFails ==
  /\ sModal.screen = "validating" /\ sModal.call # "sso"
  /\ OnModal([sModal EXCEPT !.screen = "error", !.call = "none"])

\* A source is added, and the dialog closes.
Added(sources, host) ==
  /\ PutSources(sources, sRail)
  /\ sAdded' = IF Len(sources) > Len(sSources) THEN NewId ELSE sAdded
  /\ sGone' = sGone \ {host}
  /\ UNCHANGED <<sNative, sStarts, sUser, sBound, sConfig, sBrowsing, sNaming>>

handleConnectConcord ==
  /\ sModal.call \in {"with token", "without token"} /\ sAdded < MaxSources
  /\ Added(addSource(sModal.host, "concord", sModal.call = "with token", "none"), sModal.host)
  /\ sModal' = Closed /\ UNCHANGED <<sPending, sAway>>

AddReticulum ==
  /\ sModal.screen = "reticulum" /\ sAdded < MaxSources
  /\ Added(addSource(sModal.host, "reticulum", FALSE, "none"), sModal.host)
  /\ sModal' = Closed /\ UNCHANGED <<sPending, sAway>>

matchesExistingSource(s, host) == s.platform = "matrix" /\ s.host = host

Existing(host) == {i \in 1..Len(sSources) : matchesExistingSource(sSources[i], host)}

\* The Matrix source of a host is replaced, else added.
upsertMatrixSourceRecord(host, account) ==
  IF Existing(host) = {} THEN addSource(host, "matrix", FALSE, account)
  ELSE LET i == First(Existing(host)) IN
       [sSources EXCEPT ![i].account = account]

handleMatrixPasswordLogin(account) ==
  /\ sModal.call = "sign in" /\ sAdded < MaxSources
  /\ Added(upsertMatrixSourceRecord(sModal.host, account), sModal.host)
  /\ sModal' = Closed /\ UNCHANGED <<sPending, sAway>>

\* Single sign-on: the source is written without a session, and the page left.
handleMatrixSsoLogin ==
  /\ sModal.screen = "matrix-auth" /\ sAdded < MaxSources
  /\ Added(upsertMatrixSourceRecord(sModal.host, "none"), sModal.host)
  /\ sPending' = IF Existing(sModal.host) = {} THEN NewId ELSE sSources[First(Existing(sModal.host))].id
  /\ sModal' = Closed /\ sAway' = TRUE

\* The browser of a source starts single sign-on for it.
handleSsoLogin(id) ==
  /\ Has(sSources, id) /\ sModal = Closed /\ sBrowsing = 0
  /\ sPending' = id /\ sAway' = TRUE
  /\ UNCHANGED <<sNative, sStarts, sUser, sBound, sSources, sAdded, sConfig, sRail,
                 sModal, sBrowsing, sNaming, sGone>>

SignedIn(sources, id, account) ==
  [i \in 1..Len(sources) |->
     IF sources[i].id = id THEN [sources[i] EXCEPT !.account = account] ELSE sources[i]]

\* The token was exchanged, and the pending source is signed in.
SsoReturns(account, accepted) ==
  /\ sModal.call = "sso"
  /\ PutSources(IF accepted THEN SignedIn(sSources, sPending, account) ELSE sSources, sRail)
  /\ sPending' = 0
  /\ sModal' = IF accepted THEN Closed ELSE [Closed EXCEPT !.screen = "error"]
  /\ UNCHANGED <<sNative, sStarts, sUser, sBound, sAdded, sConfig, sBrowsing, sAway, sNaming,
                  sGone>>

-----------------------------------------------------------------------------
(***************************************************************************)
(* The browser of a source (ChatLayout.tsx, SourceServerBrowser).          *)
(***************************************************************************)

handlePasswordLogin(id) ==
  /\ sBrowsing = 0 /\ sModal = Closed /\ Has(sSources, id)
  /\ SourceOf(sSources, id).platform # "reticulum"
  /\ sBrowsing' = id
  /\ UNCHANGED <<sNative, sStarts, sUser, sBound, sSources, sAdded, sConfig, sRail,
                 sModal, sPending, sAway, sNaming, sGone>>

PasswordAnswered(account, accepted) ==
  /\ sBrowsing # 0
  /\ PutSources(IF accepted THEN SignedIn(sSources, sBrowsing, account) ELSE sSources,
                sRail)
  /\ sBrowsing' = 0
  /\ UNCHANGED <<sNative, sStarts, sUser, sBound, sAdded, sConfig, sModal, sPending, sAway,
                  sNaming, sGone>>

-----------------------------------------------------------------------------

SourcesInit ==
  /\ sNative \in BOOLEAN /\ sStarts = 0
  /\ sUser \in {"none"} \cup (IF sNative THEN User ELSE {}) /\ sBound = sUser
  /\ sConfig \in {"none"} \cup (IF sNative THEN Host ELSE {})
  /\ sSources = IF sNative THEN <<>> ELSE <<Source(1, Origin, "concord", FALSE, "none", "none")>>
  /\ sAdded = Len(sSources)
  /\ sRail = normalizeRailOrder(Ids(sSources), <<>>)
  /\ sModal = Closed /\ sBrowsing = 0 /\ sPending = 0 /\ sAway = FALSE
  /\ sNaming = ~sNative /\ sGone = {}

\* An account of a Matrix server: the Concord user's own, or another one.
AccountsOf(user) == {user, "other"} \ {"none"}

Here ==
  \/ \E from, to \in 1..Len(sRail) : handleDragEnd(from, to)
  \/ \E user \in User : login(user)
  \/ \E named \in BOOLEAN : InstanceNamed(named)
  \/ logout \/ OpenModal \/ CloseModal \/ Back \/ ConnectFails
  \/ \E i \in 1..Len(sSources) : LET id == sSources[i].id IN
       disconnectSource(id) \/ handleSsoLogin(id) \/ handlePasswordLogin(id)
  \/ \E host \in Host, kind \in Platforms \cup {"invalid"} : handleDetectAddress(host, kind)
  \/ \E call \in {"with token", "without token", "sign in"} : ConnectStarts(call)
  \/ handleConnectConcord \/ AddReticulum \/ handleMatrixSsoLogin
  \/ \E account \in AccountsOf(sUser) : handleMatrixPasswordLogin(account)
  \/ \E account \in AccountsOf(sUser), accepted \in BOOLEAN :
       SsoReturns(account, accepted) \/ PasswordAnswered(account, accepted)

\* A page that has been left runs nothing until it is loaded again.
SourcesNext ==
  \/ ~sAway /\ Here
  \/ \E stored \in {<<>>, sRail, Reverse(sRail)}, token \in BOOLEAN : Launch(stored, token)

SourcesSpec == SourcesInit /\ [][SourcesNext]_sourcesVars

-----------------------------------------------------------------------------

SourcesTypeOK ==
  /\ sUser \in User \cup {"none"} /\ sBound \in User \cup {"none"} /\ sConfig \in Host \cup {"none"}
  /\ \A i \in 1..Len(sSources) :
       sSources[i] \in [id : 1..sAdded, host : Host, platform : Platforms, invited : BOOLEAN,
                        owner : User \cup {"none"}, account : User \cup {"none", "other"}]
  /\ sAdded \in 0..MaxSources /\ sBrowsing \in 0..sAdded /\ sPending \in 0..sAdded
  /\ sModal.screen \in {"closed", "address", "concord", "matrix-auth", "reticulum", "validating", "error"}

\* "After all five: the source is gone ... Next launch starts clean"
\* (disconnectSource): no launch, late answer or sign-on brings a host back.  The one
\* exception is the origin of a web page whose instance name has not arrived yet
\* (Lasts), and its next launch.
DisconnectedStaysGone == \A host \in sGone : HostOf(sSources, host) = {}

\* However a Matrix server is added, twice, abandoned or by single sign-on, it has one row.
OneMatrixSourcePerHost ==
  \A i, j \in 1..Len(sSources) :
     sSources[i].platform = "matrix" /\ sSources[j].platform = "matrix"
       /\ sSources[i].host = sSources[j].host => i = j

\* The rail has one tile per source and one to add, whatever order was stored.
RailShowsEverySource ==
  /\ IsInjective(sRail)
  /\ ToSet(sRail) = ToSet(Ids(sSources)) \cup {Plus}

\* A source that came with an invite, or is no Concord server, is seen by its user only.
InvitedSourcesAreScoped ==
  \A i \in 1..Len(sSources) : ~isPrimarySource(sSources[i]) => sSources[i].owner \in {sBound, "none"}

=============================================================================
