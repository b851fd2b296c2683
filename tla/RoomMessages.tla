---------------------------- MODULE RoomMessages ----------------------------
(***************************************************************************)
(* The messages of the active room (hooks/useMatrix.ts, useRoomMessages):  *)
(* read off the SDK's live timeline 50 ms after it last changed, paged     *)
(* backwards by the list's top sentinel, and trimmed once a minute.  The   *)
(* SDK and the homeserver are external.                                    *)
(***************************************************************************)
EXTENDS Naturals, Sequences, SequencesExt, FiniteSets, Selection

CONSTANTS
  MsgRoom,      \* rooms
  Member,       \* who writes in them
  Body,         \* texts of messages, with their length
  MaxTimeline,  \* MAX_TIMELINE_EVENTS
  MaxTail,      \* how many events are looked at (1000 in the code)
  MaxEvents,    \* bound on new events
  MaxSwitches   \* bound on changes of room

NoRoom == "no room"

ASSUME MessagesAssumption ==
  /\ Body \subseteq [text : STRING, length : Nat]
  /\ {MaxTimeline, MaxTail, MaxEvents, MaxSwitches} \subseteq Nat
  /\ Member # {} /\ NoRoom \notin MsgRoom

VARIABLES
  rRoom,        \* roomId
  rKnown,       \* the rooms client.getRoom knows
  rTimeline,    \* the live timeline of each room
  rOlder,       \* what the homeserver has before it
  rCount,       \* events so far
  rShown,       \* messages
  rKey,         \* lastIdsRef
  rTimer,       \* the debounced extraction: the room it is for
  rPaginating,  \* isPaginating
  rHasMore,     \* hasMore
  rPages,       \* pagination calls under way
  rSwitches

messagesVars == <<rRoom, rKnown, rTimeline, rOlder, rCount, rShown, rKey, rTimer, rPaginating,
                  rHasMore, rPages, rSwitches>>
view == <<rRoom, rShown, rKey, rTimer, rPaginating, rHasMore, rPages, rSwitches>>
pager == <<rPaginating, rHasMore, rPages>>

\* kind: "message", "edit" of or "reaction" to event of; gone: redacted.
Event(id, kind, of, by, body) ==
  [id |-> id, kind |-> kind, of |-> of, by |-> by, body |-> body, gone |-> FALSE]

-----------------------------------------------------------------------------
(***************************************************************************)
(* extractMessages                                                         *)
(***************************************************************************)

Newest(s, n) == IF Len(s) > n THEN SubSeq(s, Len(s) - n + 1, Len(s)) ELSE s

\* Pass 1.  The last edit counts; one reaction per sender.
Edits(t, id) == Where(t, LAMBDA e : ~e.gone /\ e.kind = "edit" /\ e.of = id)
Reactions(t, id) == {e.by : e \in {t[i] : i \in {j \in DOMAIN t :
                        ~t[j].gone /\ t[j].kind = "reaction" /\ t[j].of = id}}}

\* Pass 2.  A redacted edit has lost its relation and counts as a message.
Listable(e) == e.kind = "message" \/ (e.kind = "edit" /\ e.gone)
Blank == [text |-> "", length |-> 0]
Message(t, e) ==
  LET edits == Edits(t, e.id) IN
  [id |-> e.id, by |-> e.by, redacted |-> e.gone, edited |-> edits # <<>>,
   body |-> IF e.gone THEN Blank ELSE IF edits # <<>> THEN Last(edits).body ELSE e.body,
   reactions |-> Reactions(t, e.id)]
extractMessages(t) ==
  LET tail == Newest(t, MaxTail)
      kept == Where(tail, Listable) IN
  [i \in DOMAIN kept |-> Message(tail, kept[i])]

\* idsKey: what a re-render depends on.
IdsKey(msgs) ==
  [i \in DOMAIN msgs |-> <<msgs[i].id, msgs[i].redacted, msgs[i].edited, msgs[i].body.length,
                           Cardinality(msgs[i].reactions)>>]

\* Running the extraction for room r; an unknown room leaves the list alone.
Extracts(r) ==
  LET msgs == extractMessages(rTimeline'[r]) IN
  IF r \in rKnown' /\ IdsKey(msgs) # rKey
  THEN rShown' = msgs /\ rKey' = IdsKey(msgs)
  ELSE UNCHANGED <<rShown, rKey>>

\* onTimeline, onRedaction
debouncedExtract(r) == rTimer' = IF r = rRoom THEN r ELSE rTimer

TimerFires ==
  /\ rTimer # NoRoom /\ rTimer' = NoRoom
  /\ UNCHANGED <<rRoom, rKnown, rTimeline, rOlder, rCount, pager, rSwitches>>
  /\ Extracts(rTimer)

-----------------------------------------------------------------------------
(***************************************************************************)
(* The homeserver and the SDK (external).                                  *)
(***************************************************************************)

Grown(r, e) ==
  /\ rCount < MaxEvents /\ rCount' = rCount + 1
  /\ rTimeline' = [rTimeline EXCEPT ![r] = Append(@, e)]

SyncEvent(r, kind, by, body) ==
  /\ r \in rKnown
  /\ \E of \in IF kind = "message" THEN {0}
               ELSE {e.id : e \in {x \in ToSet(rTimeline[r]) : x.kind = "message" /\ ~x.gone}} :
       Grown(r, Event(rCount + 1, kind, of, by, body))
  /\ debouncedExtract(r)
  /\ UNCHANGED <<rRoom, rKnown, rOlder, rShown, rKey, pager, rSwitches>>

SyncRedaction(r, i) ==
  /\ i \in DOMAIN rTimeline[r] /\ ~rTimeline[r][i].gone
  /\ rCount < MaxEvents /\ rCount' = rCount + 1
  /\ rTimeline' = [rTimeline EXCEPT ![r][i].gone = TRUE]
  /\ debouncedExtract(r)
  /\ UNCHANGED <<rRoom, rKnown, rOlder, rShown, rKey, pager, rSwitches>>

\* A joined room arrives with the event that made it.
SyncRoom(r) ==
  /\ r \notin rKnown /\ rKnown' = rKnown \cup {r}
  /\ Grown(r, Event(rCount + 1, "state", 0, CHOOSE m \in Member : TRUE, Blank))
  /\ debouncedExtract(r)
  /\ UNCHANGED <<rRoom, rOlder, rShown, rKey, pager, rSwitches>>

\* The SDK serves the pages asked of one timeline together.
Paged(r) ==
  /\ \E p \in rPages : p.room = r /\ p.stage = "sent"
  /\ LET older == rOlder[r]
         n == Len(older)
         stage == IF n > 1 THEN "more" ELSE "end" IN
     /\ rTimeline' = IF n = 0 THEN rTimeline ELSE [rTimeline EXCEPT ![r] = <<older[n]>> \o @]
     /\ rOlder' = IF n = 0 THEN rOlder ELSE [rOlder EXCEPT ![r] = SubSeq(older, 1, n - 1)]
     /\ rPages' = {IF p.room = r /\ p.stage = "sent" THEN [p EXCEPT !.stage = stage] ELSE p : p \in rPages}
     /\ IF n = 0 THEN UNCHANGED rTimer ELSE debouncedExtract(r)
  /\ UNCHANGED <<rRoom, rKnown, rCount, rShown, rKey, rPaginating, rHasMore, rSwitches>>
PageRefused(r) ==
  /\ \E p \in rPages : p.room = r /\ p.stage = "sent"
  /\ rPages' = {IF p.room = r /\ p.stage = "sent" THEN [p EXCEPT !.stage = "failed"] ELSE p : p \in rPages}
  /\ UNCHANGED <<rRoom, rKnown, rTimeline, rOlder, rCount, rShown, rKey, rTimer, rPaginating, rHasMore,
                 rSwitches>>

\* Every minute.  Removing an event fires nothing.
trimTimeline ==
  /\ \E r \in rKnown : Len(rTimeline[r]) > MaxTimeline
  /\ rTimeline' = [r \in MsgRoom |-> IF r \in rKnown THEN Newest(rTimeline[r], MaxTimeline) ELSE rTimeline[r]]
  /\ UNCHANGED <<rKnown, rOlder, rCount, view>>

-----------------------------------------------------------------------------
(***************************************************************************)
(* The hook.                                                               *)
(***************************************************************************)

Page(r, kind) == [n |-> rSwitches, room |-> r, kind |-> kind, cancelled |-> FALSE, stage |-> "sent"]
Abandoned == {IF p.kind = "initial" THEN [p EXCEPT !.cancelled = TRUE] ELSE p : p \in rPages}
HasMessages(r) == \E e \in ToSet(rTimeline[r]) : e.kind \in {"message", "edit"}

\* Mutant: the cleanup leaves the timer of the old room running.
openRoom_TimerKept(r) ==
  /\ r # rRoom /\ rSwitches < MaxSwitches /\ rSwitches' = rSwitches + 1
  /\ rRoom' = r
  /\ UNCHANGED <<rKnown, rTimeline, rOlder, rCount, rTimer, pager>>
  /\ IF r = NoRoom THEN rShown' = <<>> /\ rKey' = <<>> ELSE Extracts(r)

\* The effect's cleanup, then the effect for the new room: a first extraction,
\* and a page when the timeline holds no message.
openRoom(r) ==
  /\ r # rRoom /\ rSwitches < MaxSwitches /\ rSwitches' = rSwitches + 1
  /\ rRoom' = r /\ rTimer' = NoRoom
  /\ UNCHANGED <<rKnown, rTimeline, rOlder, rCount>>
  /\ IF r = NoRoom
     THEN /\ rShown' = <<>> /\ rKey' = <<>> /\ rHasMore' = TRUE
          /\ rPages' = Abandoned /\ UNCHANGED rPaginating
     ELSE /\ Extracts(r)
          /\ UNCHANGED rHasMore
          /\ IF r \in rKnown /\ ~HasMessages(r)
             THEN rPaginating' = TRUE /\ rPages' = Abandoned \cup {Page(r, "initial")}
             ELSE rPages' = Abandoned /\ UNCHANGED rPaginating

\* The top sentinel comes into view.
loadMore ==
  /\ rRoom \in rKnown /\ rShown # <<>> /\ ~rPaginating /\ rHasMore
  /\ rPaginating' = TRUE /\ rPages' = rPages \cup {Page(rRoom, "more")}
  /\ UNCHANGED <<rRoom, rKnown, rTimeline, rOlder, rCount, rShown, rKey, rTimer, rHasMore, rSwitches>>

\* The answer: only the initial page of a room that was left is dropped; a page
\* of loadMore is taken for the room of the moment.
PageAnswered(p) ==
  /\ p.stage \in {"more", "end", "failed"}
  /\ rPages' = rPages \ {p}
  /\ UNCHANGED <<rRoom, rKnown, rTimeline, rOlder, rCount, rTimer, rSwitches>>
  /\ IF p.cancelled THEN UNCHANGED <<rPaginating, rHasMore, rShown, rKey>>
     ELSE /\ rPaginating' = FALSE
          /\ IF p.stage = "failed" \/ rRoom = NoRoom
             THEN UNCHANGED <<rShown, rKey>> ELSE Extracts(rRoom)
          /\ rHasMore' = IF p.stage = "failed" THEN rHasMore ELSE p.stage = "more"

MessagesInit ==
  /\ rRoom = NoRoom /\ rKnown \in SUBSET MsgRoom
  /\ rTimeline = [r \in MsgRoom |-> <<>>]
  /\ \E b \in Body, m \in Member :
       rOlder \in [MsgRoom -> {<<>>, <<Event(MaxEvents + 1, "message", 0, m, b),
                                        Event(MaxEvents + 2, "message", 0, m, b)>>}]
  /\ rCount = 0
  /\ rShown = <<>> /\ rKey = <<>> /\ rTimer = NoRoom
  /\ rPaginating = FALSE /\ rHasMore = TRUE /\ rPages = {} /\ rSwitches = 0

MessagesNext ==
  \/ TimerFires \/ trimTimeline \/ loadMore
  \/ \E r \in MsgRoom \cup {NoRoom} : openRoom(r)
  \/ \E r \in MsgRoom :
       \/ SyncRoom(r) \/ Paged(r) \/ PageRefused(r)
       \/ \E m \in Member, b \in Body :
            SyncEvent(r, "message", m, b) \/ SyncEvent(r, "edit", m, b)
       \/ \E m \in Member : SyncEvent(r, "reaction", m, Blank)
       \/ \E i \in 1..MaxEvents + 2 : SyncRedaction(r, i)
  \/ \E p \in rPages : PageAnswered(p)

MessagesSpec == MessagesInit /\ [][MessagesNext]_messagesVars

-----------------------------------------------------------------------------

\* The hook's state is well formed; the key is that of the list.
MessagesTypeOK ==
  /\ rRoom \in MsgRoom \cup {NoRoom} /\ rKnown \subseteq MsgRoom
  /\ rTimer \in MsgRoom \cup {NoRoom}
  /\ {rPaginating, rHasMore} \subseteq BOOLEAN
  /\ rKey = IdsKey(rShown)

\* Once the timer has fired, the list of a room the client knows is the one
\* its timeline gives, up to what idsKey tells apart: nothing of another room,
\* no missing message, edit, reaction or redaction; trimmed messages stay.
ShowsTheTimeline ==
  rTimer = NoRoom /\ rRoom \in rKnown =>
    IsSuffix(IdsKey(extractMessages(rTimeline[rRoom])), IdsKey(rShown))
=============================================================================
