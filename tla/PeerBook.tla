------------------------------ MODULE PeerBook -------------------------------
(***************************************************************************)
(* Paired peers: stores/peerStore.ts, the list the client shows, over the  *)
(* native peer store or, on the web, over localStorage                     *)
(* (peerStoreBrowser.ts), where every operation is done at once; the       *)
(* scanner that pairs from a camera, an image, a link or a card posted in  *)
(* a room; and the cards seen in rooms (useMatrixPeerCards.ts).  Errors    *)
(* and the spinner are left out: no guard reads them.                      *)
(***************************************************************************)
EXTENDS Naturals, Sequences, FiniteSets, Selection

CONSTANTS
  PeerId, Addr,
  MaxTracked,  \* MAX_TRACKED
  MaxPairing,  \* bound on calls, camera effects and posted cards together
  MaxReading   \* bound on images decoded at a time

ASSUME PeerBookAssumption ==
  MaxTracked \in Nat \ {0} /\ MaxPairing \in Nat /\ MaxReading \in Nat

VARIABLES
  pNative,    \* the native build
  pDisk,      \* the peers on disk
  pKnown,     \* knownPeers
  pRevoked,   \* history: peers revoked, and neither granted nor removed since
  pCalls,     \* native calls under way
  pSent,
  pListening, \* the event listeners: "no", "attaching", "yes"
  pPaired,    \* peer_paired events on their way
  pLoaded,    \* history: the list was loaded
  pDrift,     \* history: calls overlapped, a load failed or an event was missed
  pTab,       \* the tab of the scanner, or "closed"
  pCameras,   \* the camera effects that wait for a stream or hold one
  pEffects,
  pReading,   \* images being decoded
  pTimeline,  \* the cards posted in the user's rooms
  pCards      \* the cards listed

diskVars == <<pDisk, pKnown, pRevoked, pCalls, pSent, pListening, pPaired, pLoaded, pDrift>>
cameraVars == <<pCameras, pEffects>>
cardVars == <<pTimeline, pCards>>
peerVars == <<pNative, diskVars, pTab, cameraVars, pReading, cardVars>>

Within == pSent + pEffects + Cardinality(pTimeline) < MaxPairing
Unpaired == [addrs |-> {}, granted |-> "no"]

-----------------------------------------------------------------------------
(***************************************************************************)
(* The book on disk; addBrowserPeerFromCard and its kin, and the native    *)
(* commands alike.                                                         *)
(***************************************************************************)

\* listBrowserPeers: rows of the first version have no access flag.
listBrowserPeers(disk) ==
  [p \in PeerId |-> IF disk[p].granted = "unset" THEN [disk[p] EXCEPT !.granted = "yes"] ELSE disk[p]]

\* Mutant: pairing once more grants access.
addPeer_Grants(rows, p, a) == [rows EXCEPT ![p] = [addrs |-> @.addrs \cup {a}, granted |-> "yes"]]
addPeer(rows, p, a) ==
  [rows EXCEPT ![p] = [addrs |-> @.addrs \cup {a}, granted |-> IF @ = Unpaired THEN "yes" ELSE @.granted]]
revokePeerAccess(rows, p) == IF rows[p] = Unpaired THEN rows ELSE [rows EXCEPT ![p].granted = "no"]
grantPeerAccess(rows, p) == IF rows[p] = Unpaired THEN rows ELSE [rows EXCEPT ![p].granted = "yes"]
removePeer(rows, p) == [rows EXCEPT ![p] = Unpaired]

Written(op, p, a) ==
  LET rows == listBrowserPeers(pDisk) IN
  CASE op = "add" -> addPeer(rows, p, a)
    [] op = "revoke" -> revokePeerAccess(rows, p)
    [] op = "grant" -> grantPeerAccess(rows, p)
    [] op = "remove" -> removePeer(rows, p)
    [] op = "load" -> pDisk
Write(op, p, a) ==
  /\ pDisk' = Written(op, p, a)
  /\ pRevoked' = CASE op = "revoke" /\ pDisk[p] # Unpaired -> pRevoked \cup {p}
                   [] op \in {"grant", "remove"} -> pRevoked \ {p}
                   [] OTHER -> pRevoked

\* Mutant: the list is left for the next load.
Mirrored_Later(known, found, p, row) == known
\* What revoke, grant and remove make of the list.
Mirrored(known, found, p, row) ==
  IF found /\ known[p] # Unpaired THEN [known EXCEPT ![p] = row] ELSE known

-----------------------------------------------------------------------------
(***************************************************************************)
(* The scanner's camera.                                                   *)
(***************************************************************************)

\* Mutant: a stream that is there stays on.
Cleaned_KeepsLive(cameras) == {[c EXCEPT !.cancelled = TRUE] : c \in cameras}
\* The cleanup: streams that are there are stopped.
Cleaned(cameras) == {[c EXCEPT !.cancelled = TRUE, !.live = FALSE] : c \in {d \in cameras : d.asking}}
Started(cameras) ==
  Cleaned(cameras) \cup {[id |-> pEffects + 1, asking |-> TRUE, cancelled |-> FALSE, live |-> FALSE]}

Unmount == pTab' = "closed" /\ pCameras' = Cleaned(pCameras) /\ pCards' = <<>>

-----------------------------------------------------------------------------
(***************************************************************************)
(* The store.                                                              *)
(***************************************************************************)

\* The web build: written and mirrored at once, unless storage refuses.
WebCall(op, p, a, ok) ==
  /\ ~pNative /\ Within /\ pSent' = pSent + 1
  /\ UNCHANGED <<pCalls, pListening, pPaired, pDrift>>
  /\ IF ok THEN
       /\ Write(op, p, a)
       /\ pLoaded' = (pLoaded \/ op \in {"load", "add"})
       /\ pKnown' = IF op \in {"load", "add"} THEN listBrowserPeers(pDisk')
                    ELSE Mirrored(pKnown, pDisk[p] # Unpaired, p, pDisk'[p])
     ELSE UNCHANGED <<pDisk, pKnown, pRevoked, pLoaded>>

\* The native build: a call, answered later.  load attaches the listeners.
Sends(op, p, a, closes) ==
  /\ pCalls' = pCalls \cup
       {[id |-> pSent, op |-> op, peer |-> p, addr |-> a, closes |-> closes, stage |-> "sent",
         found |-> FALSE, rows |-> pKnown]}
  /\ pDrift' = (pDrift \/ pCalls # {})
  /\ pListening' = IF op = "load" /\ pListening = "no" THEN "attaching" ELSE pListening
  /\ UNCHANGED <<pDisk, pKnown, pRevoked, pLoaded>>
NativeCall(op, p, a, closes) ==
  /\ pNative /\ Within /\ pSent' = pSent + 1
  /\ Sends(op, p, a, closes)
  /\ UNCHANGED pPaired

\* The list loads itself when it is shown; a row toggles its access and can be
\* removed.
Asks(op, p, ok) ==
  /\ op # "load" => pKnown[p] # Unpaired
  /\ op = "revoke" => pKnown[p].granted = "yes"
  /\ op = "grant" => pKnown[p].granted = "no"
  /\ \E a \in Addr : WebCall(op, p, a, ok) \/ (ok /\ NativeCall(op, p, a, FALSE))
  /\ UNCHANGED <<pNative, pTab, cameraVars, pReading, cardVars>>

Stands == UNCHANGED <<pNative, pTab, cameraVars, pReading, cardVars>>
Served(c, ok) ==
  /\ c \in pCalls /\ c.stage = "sent"
  /\ IF ok THEN Write(c.op, c.peer, c.addr) ELSE UNCHANGED <<pDisk, pRevoked>>
  /\ pCalls' = (pCalls \ {c}) \cup
       {[c EXCEPT !.stage = IF ok THEN "done" ELSE "failed", !.rows = listBrowserPeers(pDisk'),
                  !.found = pDisk[c.peer] # Unpaired]}
  /\ UNCHANGED <<pKnown, pSent, pListening, pPaired, pLoaded, pDrift>> /\ Stands

\* addFromCard goes on with a load, and only then has the scanner closed.
addFromCard(c) ==
  /\ c.op = "add" /\ c.stage = "done"
  /\ pCalls' = (pCalls \ {c}) \cup {[c EXCEPT !.op = "load", !.stage = "sent"]}
  /\ pDrift' = (pDrift \/ pCalls # {c})
  /\ pListening' = IF pListening = "no" THEN "attaching" ELSE pListening
  /\ UNCHANGED <<pDisk, pKnown, pRevoked, pSent, pPaired, pLoaded>> /\ Stands
\* A failed load keeps the list.
load(c) ==
  /\ c.op = "load" /\ c.stage \in {"done", "failed"}
  /\ pCalls' = pCalls \ {c}
  /\ pKnown' = IF c.stage = "done" THEN c.rows ELSE pKnown
  /\ pDrift' = (pDrift \/ c.stage = "failed") /\ pLoaded' = (pLoaded \/ c.stage = "done")
  /\ UNCHANGED <<pDisk, pRevoked, pSent, pListening, pPaired, pNative, pEffects, pReading, pTimeline>>
  /\ IF c.closes THEN Unmount ELSE UNCHANGED <<pTab, pCameras, pCards>>
revokeAccess(c) ==
  /\ c.op # "load" /\ (c.stage = "failed" \/ (c.op # "add" /\ c.stage = "done"))
  /\ pCalls' = pCalls \ {c}
  /\ pKnown' = Mirrored(pKnown, c.stage = "done" /\ c.found, c.peer, c.rows[c.peer])
  /\ UNCHANGED <<pDisk, pRevoked, pSent, pListening, pPaired, pLoaded, pDrift>> /\ Stands

\* ensureEventSubscription; a deeplink pairs in the backend, whose event makes
\* the store load.
ensureEventSubscription(ok) ==
  /\ pListening = "attaching" /\ pListening' = IF ok THEN "yes" ELSE "no"
  /\ UNCHANGED <<pDisk, pKnown, pRevoked, pCalls, pSent, pPaired, pLoaded, pDrift>> /\ Stands
DeeplinkPairs(p, a) ==
  /\ pNative /\ Within /\ pSent' = pSent + 1
  /\ Write("add", p, a)
  /\ IF pListening = "yes" THEN pPaired' = pPaired + 1 /\ UNCHANGED pDrift
     ELSE pDrift' = TRUE /\ UNCHANGED pPaired
  /\ UNCHANGED <<pKnown, pCalls, pListening, pLoaded>> /\ Stands
peerPaired ==
  /\ pPaired > 0 /\ pPaired' = pPaired - 1 /\ pSent' = pSent + 1
  /\ \E p \in PeerId, a \in Addr : Sends("load", p, a, FALSE)
  /\ Stands

-----------------------------------------------------------------------------
(***************************************************************************)
(* The scanner.                                                            *)
(***************************************************************************)

\* handleAdd, for a card from anywhere: the scanner closes once it is added.
handleAdd(p, a, ok) ==
  \/ /\ WebCall("add", p, a, ok)
     /\ IF ok THEN Unmount ELSE UNCHANGED <<pTab, pCameras, pCards>>
  \/ ok /\ NativeCall("add", p, a, TRUE) /\ UNCHANGED <<pTab, pCameras, pCards>>
Keeps == UNCHANGED <<pNative, pEffects, pTimeline>>

\* The newest card of every peer, sorted newest first (no two cards of a
\* timeline have one time), and the first MaxTracked of a list.
Newer(cards, c) == {d \in cards : d.at >= c.at}
Sorted(cards) == [n \in 1..Cardinality(cards) |-> CHOOSE c \in cards : Cardinality(Newer(cards, c)) = n]
LastOfEach(timeline) == {c \in timeline : \A d \in timeline : d.peer = c.peer => d.at <= c.at}
Tracked(cards) == SubSeq(cards, 1, IF Len(cards) < MaxTracked THEN Len(cards) ELSE MaxTracked)

\* The cards that a scan of the rooms finds.
initialScan(timeline) == Tracked(Sorted(LastOfEach(timeline)))

\* The dialog opens on the camera tab; a tab's content is mounted while shown.
showTab(tab) ==
  /\ tab # pTab /\ pTab' = tab
  /\ pTab = "closed" => tab = "camera"
  /\ pCards' = IF tab = "rooms" THEN initialScan(pTimeline) ELSE <<>>
  /\ IF tab = "camera"
     THEN Within /\ pEffects' = pEffects + 1 /\ pCameras' = Started(pCameras)
     ELSE pCameras' = Cleaned(pCameras) /\ UNCHANGED pEffects
  /\ UNCHANGED <<pNative, diskVars, pReading, pTimeline>>
closeScanner == pTab # "closed" /\ Unmount /\ UNCHANGED <<pNative, diskVars, pEffects, pReading, pTimeline>>
\* The effect depends on onDecoded, a new function whenever the dialog renders.
Rerender ==
  /\ pTab = "camera" /\ Within
  /\ pEffects' = pEffects + 1 /\ pCameras' = Started(pCameras)
  /\ UNCHANGED <<pNative, diskVars, pTab, pReading, cardVars>>

StreamGiven(c) ==
  /\ c.asking
  /\ pCameras' = (pCameras \ {c}) \cup
       (IF c.cancelled THEN {} ELSE {[c EXCEPT !.asking = FALSE, !.live = TRUE]})
  /\ UNCHANGED <<pNative, diskVars, pTab, pEffects, pReading, cardVars>>
\* A message that is new renders the dialog.
StreamRefused(c, new) ==
  /\ c.asking
  /\ IF new /\ ~c.cancelled
     THEN Within /\ pEffects' = pEffects + 1 /\ pCameras' = Started(pCameras \ {c})
     ELSE pCameras' = pCameras \ {c} /\ UNCHANGED pEffects
  /\ UNCHANGED <<pNative, diskVars, pTab, pReading, cardVars>>
\* A frame holds a card: the camera stops, then the card is added.
CameraDecodes(c, p, a, ok) ==
  /\ c.live /\ ~c.cancelled /\ pTab = "camera"
  /\ \/ WebCall("add", p, a, ok) /\ IF ok THEN Unmount
                                     ELSE pCameras' = pCameras \ {c} /\ UNCHANGED <<pTab, pCards>>
     \/ ok /\ NativeCall("add", p, a, TRUE) /\ pCameras' = pCameras \ {c} /\ UNCHANGED <<pTab, pCards>>
  /\ Keeps /\ UNCHANGED pReading

\* An image is decoded later, several at a time; nothing cancels that.
handleFile(p, a, n) ==
  /\ pTab = "image" /\ \A r \in pReading : r.n # n
  /\ pReading' = pReading \cup {[peer |-> p, addr |-> a, n |-> n]}
  /\ UNCHANGED <<pNative, diskVars, pTab, cameraVars, cardVars>>
ImageDecoded(r, card, ok) ==
  /\ pReading' = pReading \ {r}
  /\ IF card THEN handleAdd(r.peer, r.addr, ok) ELSE UNCHANGED <<diskVars, pTab, pCameras, pCards>>
  /\ Keeps
handlePasteSubmit(p, a, ok) == pTab = "paste" /\ handleAdd(p, a, ok) /\ Keeps /\ UNCHANGED pReading
onPick(p, a, ok) ==
  /\ \E i \in DOMAIN pCards : pCards[i].peer = p /\ pCards[i].addr = a
  /\ handleAdd(p, a, ok) /\ Keeps /\ UNCHANGED pReading

upsert(cards, c) == Tracked(<<c>> \o Where(cards, LAMBDA d : d.peer # c.peer))
\* A card reaches a timeline: posted just now, or late by federation or
\* scrollback.  It bears the time its server gave it.
CardSeen(p, a, at) ==
  /\ Within /\ \A c \in pTimeline : c.at # at
  /\ LET c == [peer |-> p, addr |-> a, at |-> at] IN
     /\ pTimeline' = pTimeline \cup {c}
     /\ pCards' = IF pTab = "rooms" THEN upsert(pCards, c) ELSE pCards
  /\ UNCHANGED <<pNative, diskVars, pTab, cameraVars, pReading>>

PeerInit ==
  /\ pNative \in BOOLEAN
  /\ pDisk \in [PeerId -> {Unpaired} \cup [addrs : {{a} : a \in Addr}, granted : {"yes", "no", "unset"}]]
  /\ pKnown = [p \in PeerId |-> Unpaired]
  /\ pRevoked = {p \in PeerId : pDisk[p] # Unpaired /\ pDisk[p].granted = "no"}
  /\ pCalls = {} /\ pSent = 0 /\ pListening = "no" /\ pPaired = 0 /\ pLoaded = FALSE /\ pDrift = FALSE
  /\ pTab = "closed" /\ pCameras = {} /\ pEffects = 0 /\ pReading = {}
  /\ pTimeline = {} /\ pCards = <<>>

PeerNext ==
  \/ \E p \in PeerId, op \in {"load", "revoke", "grant", "remove"}, ok \in BOOLEAN : Asks(op, p, ok)
  \/ \E c \in pCalls : load(c) \/ addFromCard(c) \/ revokeAccess(c) \/ \E ok \in BOOLEAN : Served(c, ok)
  \/ \E ok \in BOOLEAN : ensureEventSubscription(ok)
  \/ peerPaired \/ closeScanner \/ Rerender
  \/ \E tab \in {"camera", "image", "paste", "rooms"} : showTab(tab)
  \/ \E c \in pCameras : StreamGiven(c) \/ \E new \in BOOLEAN : StreamRefused(c, new)
  \/ \E p \in PeerId, a \in Addr :
       \/ DeeplinkPairs(p, a) \/ \E n \in 1..MaxReading : handleFile(p, a, n)
       \/ \E at \in 1..MaxPairing : CardSeen(p, a, at)
       \/ \E ok \in BOOLEAN : handlePasteSubmit(p, a, ok) \/ onPick(p, a, ok)
                             \/ \E c \in pCameras : CameraDecodes(c, p, a, ok)
  \/ \E r \in pReading, card, ok \in BOOLEAN : ImageDecoded(r, card, ok)

PeerSpec == PeerInit /\ [][PeerNext]_peerVars

-----------------------------------------------------------------------------

\* The book, the calls and the scanner are well formed.
PeerTypeOK ==
  /\ \A rows \in {pDisk, pKnown} : \A p \in PeerId : rows[p].addrs \subseteq Addr /\ rows[p].granted \in {"yes", "no", "unset"}
  /\ \A p \in PeerId : pDisk[p].addrs = {} => pDisk[p] = Unpaired
  /\ pTab \in {"closed", "camera", "image", "paste", "rooms"}
  /\ pListening \in {"no", "attaching", "yes"} /\ pEffects \in 0..MaxPairing
  /\ pRevoked \subseteq PeerId /\ Len(pCards) <= MaxTracked

\* "A repeat pairing doesn't auto-grant access to a revoked peer; the user must
\* explicitly call grant_access" (peerStoreBrowser.ts): from whatever card,
\* deeplink or posted card the peer comes again.
RevokedStaysRevoked == \A p \in pRevoked : pDisk[p].granted = "no"

\* Once loaded, the list is "a strict mirror of the on-disk source of truth"
\* (peerStore.ts) whenever no call and no event is under way, unless calls
\* overlapped, a load failed or an event came before its listener.
MirrorOfDisk == pLoaded /\ pCalls = {} /\ pPaired = 0 /\ ~pDrift => pKnown = listBrowserPeers(pDisk)

\* No camera is on unless the camera tab is on the screen, and then one at
\* most, however fast the dialog is opened and closed and rendered again.
CameraOff ==
  /\ \A c \in pCameras : c.live => pTab = "camera" /\ c.id = pEffects
  /\ \A c, d \in pCameras : c.live /\ d.live => c = d
=============================================================================
