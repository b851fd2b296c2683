-------------------------- MODULE VoiceSessionProofs --------------------------
(***************************************************************************)
(* Theorems about VoiceSession, for any users, channels, screens and       *)
(* bounds: the connect-attempt lock has a holder, a stats session is ended *)
(* at most once, the store follows the room, the watchdog is patient.      *)
(*                                                                         *)
(* None of the four is inductive alone.  The retries the store shows are   *)
(* at most those the reconnect loop made, or its counter could leave its   *)
(* range; an id that has been ended is nowhere any more, not in the store, *)
(* not in sessionStorage and not in a request under way; and a track that  *)
(* was restarted has been silent for longer than since then.               *)
(***************************************************************************)
EXTENDS VoiceSession, TLAPS

StoreTyped ==
  /\ voice \in VoiceState
  /\ saved \in [Scope -> Chan] /\ tabSaved \in Chan /\ tabStats \in Nat
  /\ room \in {"off", "live", "dead"} /\ mic \in BOOLEAN
  /\ wd \in TrackHealth \cup {NoTrack}
  /\ stats \subseteq Nat /\ started \in Nat /\ ended \in Seq(Nat)

PageTyped ==
  /\ user \in Scope /\ native \in BOOLEAN /\ unloading \in BOOLEAN
  /\ view \in Chan /\ screen \in Viewer \cup {None}
  /\ manual \in 0..MaxJoins /\ disturbances \in 0..MaxDisturbances

\* The loop counts from zero on every page.
CallsTyped ==
  /\ joins \in [Caller -> Join] /\ auto \in Reconnecting
  /\ auto.pc = "idle" => auto.attempt = 0

\* An id that has been ended is kept nowhere, and one that is awaited is kept nowhere
\* yet: ids are never used twice.
StatsFresh ==
  /\ stats \subseteq 1..started
  /\ voice.stats \in (0..started) \ stats /\ tabStats \in (0..started) \ stats
  /\ \A i \in DOMAIN ended : ended[i] \in (1..started) \ (stats \cup {voice.stats, tabStats})

\* A restarted track was already silent when it was restarted.
QuietLeads ==
  wd.l1 # Never => wd.quiet >= wd.l1 + STALE_AFTER \/ wd.quiet = AgeCap

\* The retries that the store shows are those of the loop.
AttemptsAgree == voice.attempt <= auto.attempt

StoreInv == StoreTyped /\ StatsFresh /\ QuietLeads /\ EndedOnce
IInv == PageTyped /\ CallsTyped /\ StoreInv /\ LockHasHolder /\ AttemptsAgree

LEMMA TypeParts == StoreTyped /\ PageTyped /\ CallsTyped => TypeOK
  BY DEF TypeOK, StoreTyped, PageTyped, CallsTyped

-----------------------------------------------------------------------------
(***************************************************************************)
(* The watchdog.                                                           *)
(***************************************************************************)

\* Both windows are whole numbers of seconds.
LEMMA WatchdogBounds ==
  /\ SAMPLE_INTERVAL = 2 /\ STALE_AFTER = 5 /\ L2_AFTER = 5 /\ AgeCap = 12 /\ Never = -1
  BY DEF SAMPLE_INTERVAL, STALE_AFTER, L2_AFTER, AgeCap, Never

\* A sample ages what the watchdog knows, and silence stays ahead of the restart.
LEMMA AgedTrack ==
  ASSUME NEW prev \in TrackHealth,
         prev.l1 # Never => prev.quiet >= prev.l1 + STALE_AFTER \/ prev.quiet = AgeCap
  PROVE  /\ Aged(prev) \in TrackHealth
         /\ Aged(prev).quiet <= prev.quiet + SAMPLE_INTERVAL
         /\ Aged(prev).l1 # Never =>
              Aged(prev).quiet >= Aged(prev).l1 + STALE_AFTER \/ Aged(prev).quiet = AgeCap
  <1>1. prev.quiet \in 0..12 /\ prev.l1 \in (0..12) \cup {-1} /\ prev.l2 \in BOOLEAN
    BY WatchdogBounds DEF TrackHealth, Age
  <1>2. Older(prev.quiet) = IF prev.quiet + 2 > 12 THEN 12 ELSE prev.quiet + 2
    BY <1>1, WatchdogBounds DEF Older
  <1>3. /\ prev.l1 = -1 => Older(prev.l1) = -1
        /\ prev.l1 # -1 => Older(prev.l1) = IF prev.l1 + 2 > 12 THEN 12 ELSE prev.l1 + 2
    BY <1>1, WatchdogBounds DEF Older
  <1>4. /\ Aged(prev).quiet = Older(prev.quiet) /\ Aged(prev).l1 = Older(prev.l1)
        /\ Aged(prev) = [quiet |-> Older(prev.quiet), l1 |-> Older(prev.l1), l2 |-> prev.l2]
    BY DEF Aged
  <1>5. Older(prev.quiet) \in 0..12 /\ Older(prev.l1) \in (0..12) \cup {-1}
    BY <1>1, <1>2, <1>3
  <1>6. Aged(prev) \in TrackHealth
    BY <1>1, <1>4, <1>5, WatchdogBounds DEF TrackHealth, Age
  <1>7. Older(prev.quiet) <= prev.quiet + 2
    BY <1>1, <1>2
  <1>8. prev.l1 # -1 => prev.quiet >= prev.l1 + 5 \/ prev.quiet = 12
    BY WatchdogBounds
  <1>9. Older(prev.l1) # -1 => Older(prev.quiet) >= Older(prev.l1) + 5 \/ Older(prev.quiet) = 12
    BY <1>1, <1>2, <1>3, <1>8
  <1> QED
    BY <1>4, <1>6, <1>7, <1>9, WatchdogBounds

\* What evaluateTrackHealth makes of a track, and when it asks for a new room.
LEMMA EvaluatedTrack ==
  ASSUME NEW prev \in TrackHealth \cup {NoTrack}, NEW progressed \in BOOLEAN,
         prev.l1 # Never => prev.quiet >= prev.l1 + STALE_AFTER \/ prev.quiet = AgeCap
  PROVE  LET e == evaluateTrackHealth(prev, progressed) IN
         /\ e.next \in TrackHealth
         /\ e.next.l1 # Never => e.next.quiet >= e.next.l1 + STALE_AFTER \/ e.next.quiet = AgeCap
         /\ e.action = "reconnect-room" =>
              prev \in TrackHealth /\ prev.quiet + SAMPLE_INTERVAL >= STALE_AFTER + L2_AFTER
  <1> DEFINE e == evaluateTrackHealth(prev, progressed)
             now == Aged(prev)
             Ahead(t) == t.l1 # Never => t.quiet >= t.l1 + STALE_AFTER \/ t.quiet = AgeCap
  <1>1. CASE prev = NoTrack \/ progressed
    <2>1. e = [next |-> Fresh, action |-> "noop"]
      BY <1>1 DEF evaluateTrackHealth
    <2>2. Fresh \in TrackHealth /\ Fresh.l1 = Never
      BY WatchdogBounds DEF Fresh, TrackHealth, Age
    <2> QED
      BY <2>1, <2>2
  <1>2. CASE prev # NoTrack /\ ~progressed
    <2>1. now \in TrackHealth /\ now.quiet <= prev.quiet + SAMPLE_INTERVAL /\ Ahead(now)
      BY <1>2, AgedTrack
    <2>2. \/ e = [next |-> now, action |-> "noop"]
          \/ /\ now.quiet >= STALE_AFTER
             /\ e = [next |-> [now EXCEPT !.l1 = 0], action |-> "restart-subscription"]
          \/ /\ now.l1 # Never /\ now.l1 >= L2_AFTER
             /\ e = [next |-> [now EXCEPT !.l2 = TRUE], action |-> "reconnect-room"]
      <3>1. now.quiet \in 0..12
        BY <2>1, WatchdogBounds DEF TrackHealth, Age
      <3>2. now.quiet < STALE_AFTER \/ now.quiet >= STALE_AFTER
        BY <3>1, WatchdogBounds
      <3> HIDE DEF now
      <3>3. e = IF now.quiet < STALE_AFTER THEN [next |-> now, action |-> "noop"]
                ELSE IF now.l1 = Never
                     THEN [next |-> [now EXCEPT !.l1 = 0], action |-> "restart-subscription"]
                ELSE IF now.l1 >= L2_AFTER /\ ~now.l2
                     THEN [next |-> [now EXCEPT !.l2 = TRUE], action |-> "reconnect-room"]
                ELSE [next |-> now, action |-> "noop"]
        BY <1>2 DEF evaluateTrackHealth, now
      <3> HIDE DEF e
      <3> QED
        BY <3>2, <3>3
    <2> HIDE DEF now, e
    <2>3. now.quiet \in 0..12 /\ now.l1 \in (0..12) \cup {-1}
      BY <2>1, WatchdogBounds DEF TrackHealth, Age
    <2>4. prev \in TrackHealth /\ prev.quiet \in 0..12
      BY <1>2, WatchdogBounds DEF TrackHealth, Age
    <2>5. CASE e = [next |-> now, action |-> "noop"]
      BY <2>1, <2>5 DEF e
    <2>6. CASE /\ now.quiet >= STALE_AFTER
               /\ e = [next |-> [now EXCEPT !.l1 = 0], action |-> "restart-subscription"]
      <3> DEFINE next == [now EXCEPT !.l1 = 0]
      <3>1. next \in TrackHealth /\ next.l1 = 0 /\ next.quiet = now.quiet
        BY <2>1, WatchdogBounds DEF TrackHealth, Age
      <3>2. e.next = next /\ e.action = "restart-subscription"
        BY <2>6
      <3> HIDE DEF next
      <3> QED
        BY <2>3, <2>6, <3>1, <3>2, WatchdogBounds DEF e
    <2>7. CASE /\ now.l1 # Never /\ now.l1 >= L2_AFTER
               /\ e = [next |-> [now EXCEPT !.l2 = TRUE], action |-> "reconnect-room"]
      <3> DEFINE next == [now EXCEPT !.l2 = TRUE]
      <3>1. next \in TrackHealth /\ next.l1 = now.l1 /\ next.quiet = now.quiet
        BY <2>1 DEF TrackHealth
      <3>2. e.next = next
        BY <2>7
      <3>3. now.quiet >= STALE_AFTER + L2_AFTER
        BY <2>1, <2>3, <2>7, WatchdogBounds
      <3>4. prev.quiet + SAMPLE_INTERVAL >= STALE_AFTER + L2_AFTER
        BY <2>1, <2>3, <2>4, <3>3, WatchdogBounds
      <3> HIDE DEF next
      <3> QED
        BY <2>1, <2>4, <3>1, <3>2, <3>4 DEF e
    <2> QED
      BY <2>2, <2>5, <2>6, <2>7
  <1> QED
    BY <1>1, <1>2

-----------------------------------------------------------------------------
(***************************************************************************)
(* What the operations of the store do to StoreInv.                        *)
(***************************************************************************)

\* Fields of the store, one by one.
LEMMA VoiceFields ==
  ASSUME NEW v \in VoiceState
  PROVE  /\ v.attempt \in 0..MAX_RECONNECT_ATTEMPTS /\ v.stats \in Nat /\ v.chan \in Chan
         /\ v.state \in ConnectionState /\ v.connected \in BOOLEAN /\ v.micActive \in BOOLEAN
         /\ v.transport \in {"livekit", "libp2p_mesh"}
  BY DEF VoiceState

LEMMA DisconnectedTyped ==
  /\ Disconnected \in VoiceState /\ Disconnected.state = "disconnected"
  /\ Disconnected.attempt = 0 /\ Disconnected.stats = 0
  BY VoiceAssumption DEF Disconnected, VoiceState, ConnectionState, Chan

\* A step that leaves the ids and the watchdog alone.
LEMMA SameStats ==
  ASSUME StoreInv, UNCHANGED <<tabStats, stats, started, ended>>, voice'.stats \in {voice.stats, 0},
         wd' \in {wd, NoTrack}, voice' \in VoiceState, saved' \in [Scope -> Chan], tabSaved' \in Chan,
         room' \in {"off", "live", "dead"}, mic' \in BOOLEAN
  PROVE  StoreInv'
  <1>1. StoreTyped'
    BY DEF StoreInv, StoreTyped
  <1>2. StatsFresh'
    <2>1. 0 \in 0..started /\ 0 \notin stats
      BY DEF StoreInv, StatsFresh, StoreTyped
    <2>2. voice'.stats \in (0..started) \ stats
      BY <2>1 DEF StoreInv, StatsFresh
    <2>3. \A i \in DOMAIN ended : ended[i] \in 1..started /\ ended[i] # voice'.stats
      BY <2>1 DEF StoreInv, StatsFresh, StoreTyped
    <2> QED
      BY <2>2, <2>3 DEF StoreInv, StatsFresh
  <1>3. QuietLeads'
    <2>1. CASE wd' = wd
      BY <2>1 DEF StoreInv, QuietLeads
    <2>2. CASE wd' = NoTrack
      BY <2>2 DEF QuietLeads, NoTrack
    <2> QED
      BY <2>1, <2>2
  <1>4. EndedOnce'
    BY DEF StoreInv, EndedOnce
  <1> QED
    BY <1>1, <1>2, <1>3, <1>4 DEF StoreInv

\* connect asks for a stats session under a new id.
LEMMA ConnectKeepsStore ==
  ASSUME StoreInv, PageTyped, NEW ch \in Chan, NEW transport \in {"livekit", "libp2p_mesh"},
         connect(ch, transport)
  PROVE  StoreInv' /\ voice'.state = "connected" /\ voice'.attempt = 0 /\ room' # "dead"
  <1>1. /\ saved' = [saved EXCEPT ![user] = ch] /\ tabSaved' = ch
        /\ voice' = [voice EXCEPT !.connected = TRUE, !.state = "connected", !.attempt = 0,
                                  !.transport = transport, !.chan = ch]
        /\ room' \in {"live", "off"} /\ wd' = NoTrack /\ UNCHANGED <<tabStats, ended, mic>>
        /\ \/ started' = started + 1 /\ stats' = stats \cup {started + 1}
           \/ UNCHANGED <<started, stats>>
    BY DEF connect
  <1>2. /\ voice \in VoiceState /\ user \in Scope /\ started \in Nat /\ mic \in BOOLEAN
        /\ saved \in [Scope -> Chan]
    BY DEF StoreInv, StoreTyped, PageTyped
  <1>3. voice' \in VoiceState /\ voice'.state = "connected" /\ voice'.attempt = 0
        /\ voice'.stats = voice.stats
    <2> DEFINE v1 == [voice EXCEPT !.connected = TRUE]
               v2 == [v1 EXCEPT !.state = "connected"]
               v3 == [v2 EXCEPT !.attempt = 0]
               v4 == [v3 EXCEPT !.transport = transport]
               v5 == [v4 EXCEPT !.chan = ch]
    <2>1. v1 \in VoiceState /\ v1.stats = voice.stats
      BY <1>2 DEF VoiceState
    <2> HIDE DEF v1
    <2>2. v2 \in VoiceState /\ v2.stats = v1.stats /\ v2.state = "connected"
      BY <2>1 DEF VoiceState, ConnectionState
    <2> HIDE DEF v2
    <2>3. v3 \in VoiceState /\ v3.stats = v2.stats /\ v3.state = v2.state /\ v3.attempt = 0
      BY <2>2, VoiceAssumption DEF VoiceState
    <2> HIDE DEF v3
    <2>4. v4 \in VoiceState /\ v4.stats = v3.stats /\ v4.state = v3.state /\ v4.attempt = v3.attempt
      BY <2>3 DEF VoiceState
    <2> HIDE DEF v4
    <2>5. v5 \in VoiceState /\ v5.stats = v4.stats /\ v5.state = v4.state /\ v5.attempt = v4.attempt
      BY <2>4 DEF VoiceState
    <2>6. voice' = v5
      BY <1>1 DEF v1, v2, v3, v4
    <2> HIDE DEF v5
    <2> QED
      BY <2>1, <2>2, <2>3, <2>4, <2>5, <2>6
  <1>4. saved' \in [Scope -> Chan]
    BY <1>1, <1>2
  <1>5. StoreTyped'
    BY <1>1, <1>2, <1>3, <1>4 DEF StoreInv, StoreTyped
  <1>6. StatsFresh'
    <2>1. CASE UNCHANGED <<started, stats>>
      BY <1>1, <1>3, <2>1 DEF StoreInv, StatsFresh
    <2>2. CASE started' = started + 1 /\ stats' = stats \cup {started + 1}
      <3>1. stats' \subseteq 1..started'
        BY <1>2, <2>2 DEF StoreInv, StatsFresh
      <3>2. \A x \in (0..started) \ stats : x \in (0..started') \ stats'
        BY <1>2, <2>2
      <3>3. voice'.stats \in (0..started') \ stats' /\ tabStats' \in (0..started') \ stats'
        BY <1>1, <1>3, <3>2 DEF StoreInv, StatsFresh
      <3>4. \A x \in (1..started) \ stats : x \in (1..started') \ stats'
        BY <1>2, <2>2
      <3>5. \A i \in DOMAIN ended' : ended'[i] \in (1..started') \ (stats' \cup {voice'.stats, tabStats'})
        BY <1>1, <1>3, <3>4 DEF StoreInv, StatsFresh
      <3> QED
        BY <3>1, <3>3, <3>5 DEF StatsFresh
    <2> QED
      BY <1>1, <2>1, <2>2
  <1>7. QuietLeads' /\ EndedOnce'
    BY <1>1 DEF StoreInv, QuietLeads, EndedOnce, NoTrack
  <1> QED
    BY <1>1, <1>3, <1>5, <1>6, <1>7 DEF StoreInv

\* disconnect ends the session of the store, or the one that a refresh left in
\* sessionStorage, and forgets both.
LEMMA DisconnectKeepsStore ==
  ASSUME StoreInv, PageTyped, disconnect
  PROVE  StoreInv' /\ voice' = Disconnected /\ room' = "off"
  <1> DEFINE id == IF voice.stats # 0 THEN voice.stats ELSE tabStats
  <1>1. /\ ended' = (IF id # 0 /\ user # None THEN Append(ended, id) ELSE ended)
        /\ tabStats' = (IF id # 0 THEN 0 ELSE tabStats)
        /\ saved' = [saved EXCEPT ![user] = None] /\ tabSaved' = None
        /\ voice' = Disconnected /\ room' = "off" /\ mic' = FALSE /\ wd' = NoTrack
        /\ UNCHANGED <<stats, started>>
    BY DEF disconnect, clearPendingVoiceSession
  <1>2. /\ started \in Nat /\ ended \in Seq(Nat) /\ saved \in [Scope -> Chan] /\ user \in Scope
        /\ voice.stats \in (0..started) \ stats /\ tabStats \in (0..started) \ stats
        /\ stats \subseteq 1..started
    BY DEF StoreInv, StoreTyped, StatsFresh, PageTyped
  <1>3. id \in (0..started) \ stats /\ \A i \in DOMAIN ended : ended[i] # id
    BY DEF StoreInv, StatsFresh
  <1>4. tabStats' = 0
    BY <1>1
  <1> HIDE DEF id
  <1>5. /\ saved' \in [Scope -> Chan] /\ tabSaved' \in Chan /\ voice' \in VoiceState /\ tabStats' \in Nat
        /\ room' \in {"off", "live", "dead"} /\ mic' \in BOOLEAN /\ wd' \in TrackHealth \cup {NoTrack}
        /\ stats' \subseteq Nat /\ started' \in Nat
    <2>1. saved' \in [Scope -> Chan] /\ tabSaved' \in Chan /\ voice' \in VoiceState
      BY <1>1, <1>2, DisconnectedTyped DEF Chan
    <2>2. room' = "off" /\ mic' \in BOOLEAN /\ wd' = NoTrack
      BY <1>1
    <2>3. tabStats' \in Nat /\ stats' \subseteq Nat /\ started' \in Nat
      BY <1>1, <1>2, <1>4
    <2> QED
      BY <2>1, <2>2, <2>3
  <1>6. CASE ended' = ended
    <2>1. StoreTyped'
      BY <1>2, <1>5, <1>6 DEF StoreTyped
    <2>2. StatsFresh'
      <3>1. \A i \in DOMAIN ended : ended[i] \in (1..started) \ stats
        BY DEF StoreInv, StatsFresh
      <3>2. voice'.stats = 0
        BY <1>1, DisconnectedTyped
      <3> QED
        BY <1>1, <1>2, <1>4, <1>6, <3>1, <3>2 DEF StatsFresh
    <2>3. QuietLeads' /\ EndedOnce'
      BY <1>1, <1>6 DEF StoreInv, QuietLeads, EndedOnce, NoTrack
    <2> QED
      BY <1>1, <2>1, <2>2, <2>3 DEF StoreInv
  <1>7. CASE id # 0 /\ ended' = Append(ended, id)
    <2>1. id \in Nat /\ id \in 1..started
      BY <1>2, <1>3, <1>7
    <2>2. ended' \in Seq(Nat) /\ DOMAIN ended = 1..Len(ended) /\ DOMAIN ended' = 1..(Len(ended) + 1)
          /\ Len(ended) \in Nat
      BY <1>2, <1>7, <2>1
    <2>3. /\ \A i \in 1..Len(ended) : ended'[i] = ended[i]
          /\ ended'[Len(ended) + 1] = id
      BY <1>2, <1>7, <2>1
    <2>4. \A i \in DOMAIN ended' : ended'[i] \in (1..started) \ stats
      <3>1. \A i \in DOMAIN ended : ended[i] \in (1..started) \ stats
        BY DEF StoreInv, StatsFresh
      <3>2. \A i \in DOMAIN ended' : i \in DOMAIN ended \/ i = Len(ended) + 1
        BY <2>2
      <3> QED
        BY <1>3, <2>1, <2>2, <2>3, <3>1, <3>2
    <2>5. StoreTyped'
      BY <1>5, <2>2 DEF StoreTyped
    <2>6. StatsFresh'
      <3>1. voice'.stats = 0
        BY <1>1, DisconnectedTyped
      <3> QED
        BY <1>1, <1>2, <1>4, <2>4, <3>1 DEF StatsFresh
    <2>7. EndedOnce'
      <3>1. \A i, j \in DOMAIN ended : ended[i] = ended[j] => i = j
        BY DEF StoreInv, EndedOnce, IsInjective
      <3>2. \A i, j \in DOMAIN ended' : ended'[i] = ended'[j] => i = j
        <4>1. \A i \in DOMAIN ended' : i \in DOMAIN ended \/ i = Len(ended) + 1
          BY <2>2
        <4> QED
          BY <1>3, <2>2, <2>3, <3>1, <4>1
      <3> QED
        BY <3>2 DEF EndedOnce, IsInjective
    <2>8. QuietLeads'
      BY <1>1 DEF QuietLeads, NoTrack
    <2> QED
      BY <1>1, <2>5, <2>6, <2>7, <2>8 DEF StoreInv
  <1> QED
    BY <1>1, <1>6, <1>7

\* The room closed: the store forgets it, unless the page is unloading.
LEMMA ClosingKeepsStore ==
  ASSUME StoreInv, PageTyped, handleVoiceDisconnect
  PROVE  /\ StoreInv'
         /\ \/ voice' = Disconnected /\ room' = "off"
            \/ UNCHANGED voice /\ room' = "dead" /\ unloading
  <1>1. CASE unloading
    <2>1. room' = "dead" /\ mic' = FALSE
          /\ UNCHANGED <<voice, saved, tabSaved, tabStats, wd, stats, started, ended>>
      BY <1>1 DEF handleVoiceDisconnect
    <2>2. StoreInv'
      BY <2>1, SameStats DEF StoreInv, StoreTyped
    <2> QED
      BY <1>1, <2>1, <2>2
  <1>2. CASE ~unloading
    <2>1. disconnect
      BY <1>2 DEF handleVoiceDisconnect
    <2> QED
      BY <2>1, DisconnectKeepsStore
  <1> QED
    BY <1>1, <1>2

\* A late answer of startVoiceSession: its id is no longer awaited, and not ended.
LEMMA AnswerKeepsStore ==
  ASSUME StoreInv, NEW id \in stats, StatsStarted(id)
  PROVE  StoreInv' /\ voice'.state = voice.state /\ voice'.attempt = voice.attempt
  <1>1. /\ stats' = stats \ {id} /\ UNCHANGED <<saved, tabSaved, room, mic, wd, started, ended>>
        /\ \/ voice' = [voice EXCEPT !.stats = id] /\ tabStats' = id
           \/ UNCHANGED <<voice, tabStats>>
    BY DEF StatsStarted
  <1>2. /\ voice \in VoiceState /\ started \in Nat /\ id \in 1..started /\ stats \subseteq 1..started
    BY DEF StoreInv, StoreTyped, StatsFresh
  <1>3. /\ voice' \in VoiceState /\ voice'.state = voice.state /\ voice'.attempt = voice.attempt
        /\ voice'.stats \in {voice.stats, id} /\ tabStats' \in {tabStats, id}
    BY <1>1, <1>2 DEF VoiceState
  <1>4. StoreTyped'
    BY <1>1, <1>2, <1>3 DEF StoreInv, StoreTyped
  <1>5. StatsFresh'
    <2>1. /\ stats' \subseteq 1..started
          /\ voice'.stats \in (0..started) \ stats' /\ tabStats' \in (0..started) \ stats'
      BY <1>1, <1>2, <1>3 DEF StoreInv, StatsFresh
    <2>2. \A i \in DOMAIN ended : ended[i] \in (1..started) \ (stats' \cup {voice'.stats, tabStats'})
      BY <1>1, <1>3 DEF StoreInv, StatsFresh
    <2> QED
      BY <1>1, <2>1, <2>2 DEF StatsFresh
  <1>6. QuietLeads' /\ EndedOnce'
    BY <1>1 DEF StoreInv, QuietLeads, EndedOnce
  <1> QED
    BY <1>3, <1>4, <1>5, <1>6 DEF StoreInv

-----------------------------------------------------------------------------
(***************************************************************************)
(* The steps of a joinVoiceSession call.                                   *)
(***************************************************************************)

LEMMA CallFacts ==
  ASSUME CallsTyped
  PROVE  /\ \A c \in Caller : joins[c].chan \in Chan
         /\ auto.chan \in Chan /\ auto.attempt \in 0..MAX_RECONNECT_ATTEMPTS
         /\ \A c \in Caller : [joins EXCEPT ![c] = NoJoin] \in [Caller -> Join]
         /\ \A pc \in {"join", "sleep", "done"} :
              /\ [auto EXCEPT !.pc = pc] \in Reconnecting
              /\ [auto EXCEPT !.pc = pc].attempt = auto.attempt
              /\ [auto EXCEPT !.pc = pc].pc = pc
         /\ AutoIdle \in Reconnecting /\ AutoIdle.attempt = 0 /\ NoJoin \in Join
  <1>1. joins \in [Caller -> Join] /\ auto \in Reconnecting
    BY DEF CallsTyped
  <1>2. NoJoin \in Join /\ AutoIdle \in Reconnecting /\ AutoIdle.attempt = 0
    BY VoiceAssumption DEF NoJoin, Join, AutoIdle, Reconnecting, Chan
  <1>3. \A c \in Caller : joins[c].chan \in Chan /\ [joins EXCEPT ![c] = NoJoin] \in [Caller -> Join]
    <2> SUFFICES ASSUME NEW c \in Caller
                 PROVE  joins[c].chan \in Chan /\ [joins EXCEPT ![c] = NoJoin] \in [Caller -> Join]
      OBVIOUS
    <2>1. joins[c] \in Join
      BY <1>1
    <2>2. joins[c].chan \in Chan
      BY <2>1 DEF Join
    <2> QED
      BY <1>1, <1>2, <2>2
  <1>4. auto.chan \in Chan /\ auto.attempt \in 0..MAX_RECONNECT_ATTEMPTS
    BY <1>1 DEF Reconnecting
  <1>5. \A pc \in {"join", "sleep", "done"} :
          /\ [auto EXCEPT !.pc = pc] \in Reconnecting
          /\ [auto EXCEPT !.pc = pc].attempt = auto.attempt
          /\ [auto EXCEPT !.pc = pc].pc = pc
    BY <1>1 DEF Reconnecting
  <1> QED
    BY <1>2, <1>3, <1>4, <1>5

\* What the screen shows when a call of App resolves.
LEMMA ResolvedKeeps ==
  ASSUME CallsTyped, PageTyped, NEW c \in Caller, NEW ch \in Chan, Resolved(c, ch),
         joins' = [joins EXCEPT ![c] = NoJoin], UNCHANGED page, UNCHANGED bounds
  PROVE  CallsTyped' /\ PageTyped' /\ auto'.attempt = auto.attempt
  <1>1. /\ auto' \in {auto, [auto EXCEPT !.pc = "done"]}
        /\ \/ UNCHANGED <<view, screen>>
           \/ view' \in {None, ch} /\ Mounts(view')
    BY DEF Resolved
  <1>2. /\ auto' \in Reconnecting /\ auto'.attempt = auto.attempt
        /\ auto'.pc = "idle" => auto'.attempt = 0
    BY <1>1, CallFacts DEF CallsTyped
  <1>3. joins' \in [Caller -> Join]
    BY CallFacts
  <1>4. view' \in Chan
    BY <1>1 DEF PageTyped, Chan
  <1>5. screen' \in Viewer \cup {None}
    BY <1>1 DEF PageTyped, Mounts
  <1>6. PageTyped'
    BY <1>4, <1>5 DEF PageTyped, page, bounds
  <1> QED
    BY <1>2, <1>3, <1>6 DEF CallsTyped

\* A call that joined: the lock is free, the retries are over.
LEMMA JoinedStep ==
  ASSUME IInv, NEW c \in Caller, NEW transport \in {"livekit", "libp2p_mesh"},
         connect(joins[c].chan, transport), joins' = [joins EXCEPT ![c] = NoJoin],
         Resolved(c, joins[c].chan), UNCHANGED page, UNCHANGED bounds
  PROVE  IInv'
  <1> DEFINE ch == joins[c].chan
  <1>1. ch \in Chan
    BY CallFacts DEF IInv
  <1>2. StoreInv' /\ voice'.state = "connected" /\ voice'.attempt = 0 /\ room' # "dead"
    BY <1>1, ConnectKeepsStore DEF IInv
  <1>3. CallsTyped' /\ PageTyped' /\ auto'.attempt = auto.attempt
    BY <1>1, ResolvedKeeps DEF IInv
  <1>4. LockHasHolder'
    BY <1>2 DEF LockHasHolder, InFlight
  <1>5. AttemptsAgree'
    BY <1>2, <1>3, CallFacts DEF AttemptsAgree, IInv
  <1> QED
    BY <1>2, <1>3, <1>4, <1>5 DEF IInv

\* A call that goes on keeps the lock it took.
LEMMA WaitStep ==
  ASSUME IInv, NEW c \in Caller, NEW pc \in {"media", "mesh", "token"}, joins[c].pc # "none",
         joins' = [joins EXCEPT ![c].pc = pc],
         UNCHANGED page, UNCHANGED bounds, UNCHANGED store, UNCHANGED <<view, screen, auto>>
  PROVE  IInv'
  <1>1. joins[c] \in Join /\ joins \in [Caller -> Join] /\ auto \in Reconnecting
    BY DEF IInv, CallsTyped
  <1> DEFINE next == [joins[c] EXCEPT !.pc = pc]
  <1>2. next \in Join /\ next.pc # "none"
    BY <1>1 DEF Join
  <1>3. joins' = [joins EXCEPT ![c] = next]
    BY <1>1
  <1> HIDE DEF next
  <1>4. joins' \in [Caller -> Join] /\ joins'[c].pc # "none"
    BY <1>1, <1>2, <1>3
  <1>5. CallsTyped'
    BY <1>1, <1>4 DEF IInv, CallsTyped
  <1>6. StoreInv'
    <2>1. voice' \in VoiceState /\ saved' \in [Scope -> Chan] /\ tabSaved' \in Chan
          /\ room' \in {"off", "live", "dead"} /\ mic' \in BOOLEAN
      BY DEF IInv, StoreInv, StoreTyped, store
    <2>2. UNCHANGED <<tabStats, stats, started, ended>> /\ voice' = voice /\ wd' = wd
      BY DEF store
    <2> QED
      BY <2>1, <2>2, SameStats DEF IInv
  <1>7. PageTyped'
    BY DEF IInv, PageTyped, page, bounds
  <1>8. LockHasHolder'
    BY <1>4 DEF LockHasHolder
  <1>9. AttemptsAgree'
    BY DEF IInv, AttemptsAgree, store, page
  <1> QED
    BY <1>5, <1>6, <1>7, <1>8, <1>9 DEF IInv

\* A call that failed gives the lock back; App's call may be tried again, and then
\* both count the attempt.
LEMMA RefusedStep ==
  ASSUME IInv, NEW c \in Caller, TokenRefused(c)
  PROVE  IInv'
  <1> DEFINE v == [voice EXCEPT !.state = "disconnected"]
  <1>1. /\ joins' = [joins EXCEPT ![c] = NoJoin]
        /\ \/ NextAttempt(v)
           \/ voice' = v /\ UNCHANGED <<auto, saved, tabSaved>>
        /\ UNCHANGED page /\ UNCHANGED bounds
        /\ UNCHANGED <<view, screen, tabStats, room, mic, wd, stats, started, ended>>
    BY DEF TokenRefused
  <1>2. /\ voice \in VoiceState /\ voice.attempt \in 0..MAX_RECONNECT_ATTEMPTS
        /\ auto \in Reconnecting /\ auto.attempt \in 0..MAX_RECONNECT_ATTEMPTS
        /\ voice.attempt <= auto.attempt /\ MAX_RECONNECT_ATTEMPTS \in Nat
        /\ saved \in [Scope -> Chan] /\ tabSaved \in Chan /\ user \in Scope
    BY CallFacts, VoiceFields, VoiceAssumption
       DEF IInv, StoreInv, StoreTyped, CallsTyped, PageTyped, AttemptsAgree
  <1>3. /\ v \in VoiceState /\ v.state = "disconnected" /\ v.attempt = voice.attempt
        /\ v.stats = voice.stats
    BY <1>2 DEF VoiceState, ConnectionState
  <1> HIDE DEF v
  <1>4. /\ voice' \in VoiceState /\ voice'.stats = voice.stats /\ ~InFlight(voice'.state)
        /\ auto' \in Reconnecting /\ voice'.attempt <= auto'.attempt
        /\ auto'.pc = "idle" => auto'.attempt = 0
        /\ saved' \in [Scope -> Chan] /\ tabSaved' \in Chan
    <2>1. CASE voice' = v /\ UNCHANGED <<auto, saved, tabSaved>>
      BY <1>2, <1>3, <2>1 DEF InFlight, IInv, CallsTyped
    <2>2. CASE NextAttempt(v) /\ auto.attempt + 1 >= MAX_RECONNECT_ATTEMPTS
      <3>1. /\ auto' = [auto EXCEPT !.pc = "done"] /\ voice' = [v EXCEPT !.state = "failed"]
            /\ saved' = [saved EXCEPT ![user] = None] /\ tabSaved' = None
        BY <2>2 DEF NextAttempt, clearPendingVoiceSession
      <3>2. auto' \in Reconnecting /\ auto'.attempt = auto.attempt /\ auto'.pc = "done"
        BY <3>1, CallFacts DEF IInv
      <3>3. /\ voice' \in VoiceState /\ voice'.state = "failed" /\ voice'.attempt = v.attempt
            /\ voice'.stats = v.stats
        BY <1>3, <3>1 DEF VoiceState, ConnectionState
      <3>4. saved' \in [Scope -> Chan] /\ tabSaved' \in Chan
        BY <1>2, <3>1 DEF Chan
      <3>5. voice'.attempt <= auto'.attempt /\ ~InFlight(voice'.state)
        BY <1>2, <1>3, <3>2, <3>3 DEF InFlight
      <3> QED
        BY <1>3, <3>2, <3>3, <3>4, <3>5
    <2>3. CASE NextAttempt(v) /\ ~(auto.attempt + 1 >= MAX_RECONNECT_ATTEMPTS)
      <3>1. /\ auto' = [auto EXCEPT !.pc = "sleep", !.attempt = @ + 1]
            /\ voice' = [v EXCEPT !.attempt = @ + 1]
            /\ UNCHANGED <<saved, tabSaved>>
        BY <2>3 DEF NextAttempt
      <3>2. auto.attempt + 1 \in 0..MAX_RECONNECT_ATTEMPTS /\ v.attempt + 1 \in 0..MAX_RECONNECT_ATTEMPTS
        BY <1>2, <1>3, <2>3
      <3>3. auto' \in Reconnecting /\ auto'.attempt = auto.attempt + 1 /\ auto'.pc = "sleep"
        BY <1>2, <3>1, <3>2 DEF Reconnecting
      <3>4. /\ voice' \in VoiceState /\ voice'.state = "disconnected" /\ voice'.attempt = v.attempt + 1
            /\ voice'.stats = v.stats
        BY <1>3, <3>1, <3>2 DEF VoiceState
      <3>5. voice'.attempt <= auto'.attempt /\ ~InFlight(voice'.state)
        BY <1>2, <1>3, <3>3, <3>4 DEF InFlight
      <3> QED
        BY <1>2, <1>3, <3>1, <3>3, <3>4, <3>5
    <2> QED
      BY <1>1, <2>1, <2>2, <2>3
  <1>5. StoreInv'
    <2>1. room' \in {"off", "live", "dead"} /\ mic' \in BOOLEAN
      BY <1>1 DEF IInv, StoreInv, StoreTyped
    <2> QED
      BY <1>1, <1>4, <2>1, SameStats DEF IInv
  <1>6. CallsTyped'
    BY <1>1, <1>4, CallFacts DEF IInv, CallsTyped
  <1>7. PageTyped'
    BY <1>1 DEF IInv, PageTyped, page, bounds
  <1>8. LockHasHolder' /\ AttemptsAgree'
    BY <1>4 DEF LockHasHolder, AttemptsAgree
  <1> QED
    BY <1>5, <1>6, <1>7, <1>8 DEF IInv

\* Whoever takes the lock is running.
LEMMA ClaimStep ==
  ASSUME IInv, NEW c \in Caller, NEW ch \in Chan, NEW reconnecting \in BOOLEAN,
         Claim(c, ch, reconnecting), PageTyped', auto' \in Reconnecting,
         auto'.pc = "idle" => UNCHANGED auto, auto'.attempt = auto.attempt, UNCHANGED unloading
  PROVE  IInv'
  <1>1. /\ voice' = [voice EXCEPT !.state = IF reconnecting THEN "reconnecting" ELSE "connecting"]
        /\ joins' = [joins EXCEPT ![c] = [pc |-> "media", chan |-> ch]]
        /\ UNCHANGED <<saved, tabSaved, tabStats, room, mic, wd, stats, started, ended>>
    BY DEF Claim, beginConnectAttempt
  <1>2. voice \in VoiceState /\ joins \in [Caller -> Join]
    BY DEF IInv, StoreInv, StoreTyped, CallsTyped
  <1>3. voice' \in VoiceState /\ voice'.stats = voice.stats /\ voice'.attempt = voice.attempt
    BY <1>1, <1>2 DEF VoiceState, ConnectionState
  <1>4. [pc |-> "media", chan |-> ch] \in Join
    BY DEF Join
  <1>5. joins' \in [Caller -> Join] /\ joins'[c].pc # "none"
    BY <1>1, <1>2, <1>4
  <1>6. StoreInv'
    <2>1. /\ room' \in {"off", "live", "dead"} /\ mic' \in BOOLEAN
          /\ saved' \in [Scope -> Chan] /\ tabSaved' \in Chan
      BY <1>1 DEF IInv, StoreInv, StoreTyped
    <2> QED
      BY <1>1, <1>3, <2>1, SameStats DEF IInv
  <1>7. CallsTyped' /\ LockHasHolder'
    BY <1>5 DEF IInv, CallsTyped, LockHasHolder
  <1>8. AttemptsAgree'
    BY <1>1, <1>3 DEF IInv, AttemptsAgree
  <1> QED
    BY <1>6, <1>7, <1>8 DEF IInv

-----------------------------------------------------------------------------
(***************************************************************************)
(* The other steps, and the theorems.                                      *)
(***************************************************************************)

\* A step of the page or of the user that leaves the calls alone.
LEMMA PageStep ==
  ASSUME IInv, StoreInv', PageTyped', UNCHANGED joins, auto' \in Reconnecting,
         auto'.pc = "idle" => UNCHANGED auto, auto'.attempt = auto.attempt,
         voice'.attempt \in {voice.attempt, 0}, InFlight(voice'.state) => voice'.state = voice.state
  PROVE  IInv'
  <1>1. CallsTyped'
    BY DEF IInv, CallsTyped
  <1>2. LockHasHolder'
    BY DEF IInv, LockHasHolder
  <1>3. AttemptsAgree'
    BY CallFacts DEF IInv, AttemptsAgree
  <1> QED
    BY <1>1, <1>2, <1>3 DEF IInv

\* The steps that keep the store, or close it by disconnect.
LEMMA LeaveStep ==
  ASSUME IInv, StoreInv', \/ voice' = Disconnected /\ room' = "off"
                          \/ UNCHANGED voice,
         UNCHANGED page, UNCHANGED bounds, UNCHANGED <<view, screen, joins, auto>>
  PROVE  IInv'
  <1>1. PageTyped' /\ auto' \in Reconnecting /\ auto' = auto
    BY DEF IInv, PageTyped, CallsTyped, page, bounds
  <1>2. voice'.attempt \in {voice.attempt, 0} /\ (InFlight(voice'.state) => voice'.state = voice.state)
    BY DisconnectedTyped DEF InFlight
  <1> QED
    BY <1>1, <1>2, PageStep

\* Nothing is joined, saved, ended or restarted on a new page.
LEMMA InitIInv == Init => IInv
  <1> SUFFICES ASSUME Init
               PROVE  IInv
    OBVIOUS
  <1>1. PageTyped
    <2>1. user \in Scope /\ native \in BOOLEAN /\ unloading \in BOOLEAN
      BY DEF Init, Scope
    <2>2. view \in Chan /\ screen \in Viewer \cup {None}
      BY DEF Init, Chan
    <2>3. manual = 0 /\ disturbances = 0
      BY DEF Init
    <2>4. manual \in 0..MaxJoins /\ disturbances \in 0..MaxDisturbances
      BY <2>3, VoiceAssumption
    <2> QED
      BY <2>1, <2>2, <2>4 DEF PageTyped
  <1>2. /\ NoJoin \in Join /\ AutoIdle \in Reconnecting /\ AutoIdle.attempt = 0
    BY VoiceAssumption DEF NoJoin, Join, AutoIdle, Reconnecting, Chan
  <1>3. CallsTyped
    BY <1>2 DEF Init, CallsTyped
  <1>4. StoreTyped
    <2>1. voice \in VoiceState /\ room \in {"off", "live", "dead"} /\ mic \in BOOLEAN /\ wd = NoTrack
      BY DisconnectedTyped DEF Init
    <2>2. saved \in [Scope -> Chan] /\ tabSaved \in Chan
      BY DEF Init, Chan
    <2>3. tabStats \in Nat /\ stats \subseteq Nat /\ started \in Nat /\ ended \in Seq(Nat)
      BY DEF Init
    <2> QED
      BY <2>1, <2>2, <2>3 DEF StoreTyped
  <1>5. StatsFresh /\ QuietLeads /\ EndedOnce
    <2>1. voice.stats = 0 /\ tabStats = 0 /\ started = 0 /\ stats = {} /\ ended = <<>>
      BY DisconnectedTyped DEF Init
    <2>2. QuietLeads
      BY DEF Init, QuietLeads, NoTrack
    <2>3. StatsFresh /\ EndedOnce
      BY <2>1 DEF StatsFresh, EndedOnce, IsInjective
    <2> QED
      BY <2>2, <2>3
  <1>6. LockHasHolder /\ AttemptsAgree
    BY <1>2, DisconnectedTyped DEF Init, LockHasHolder, AttemptsAgree, InFlight
  <1> QED
    BY <1>1, <1>3, <1>4, <1>5, <1>6 DEF IInv, StoreInv

\* A step of a joinVoiceSession call.
LEMMA JoinKeepsIInv ==
  ASSUME IInv, NEW c \in Caller, JoinStep(c)
  PROVE  IInv'
  <1>1. CASE MediaAnswered(c)
    BY <1>1, WaitStep DEF MediaAnswered
  <1>2. CASE FallBackToLiveKit(c)
    BY <1>2, WaitStep DEF FallBackToLiveKit
  <1>3. CASE MeshJoined(c)
    BY <1>3, JoinedStep DEF MeshJoined
  <1>4. CASE TokenGranted(c)
    BY <1>4, JoinedStep DEF TokenGranted
  <1>5. CASE TokenRefused(c)
    BY <1>5, RefusedStep
  <1> QED
    BY <1>1, <1>2, <1>3, <1>4, <1>5 DEF JoinStep

LEMMA SameStore ==
  ASSUME StoreInv, UNCHANGED store
  PROVE  StoreInv'
  <1>1. /\ voice' \in VoiceState /\ saved' \in [Scope -> Chan] /\ tabSaved' \in Chan
        /\ room' \in {"off", "live", "dead"} /\ mic' \in BOOLEAN
    BY DEF StoreInv, StoreTyped, store
  <1>2. UNCHANGED <<tabStats, stats, started, ended>> /\ voice' = voice /\ wd' = wd
    BY DEF store
  <1> QED
    BY <1>1, <1>2, SameStats

\* A tick of the watchdog: the track ages, or the room closes.
LEMMA TickKeepsIInv ==
  ASSUME IInv, WatchdogTick
  PROVE  IInv'
  <1>1. UNCHANGED page /\ UNCHANGED bounds /\ UNCHANGED <<view, screen, joins, auto>>
    BY DEF WatchdogTick
  <1>2. CASE handleVoiceDisconnect
    BY <1>1, <1>2, ClosingKeepsStore, LeaveStep DEF IInv
  <1>3. CASE /\ wd' \in TrackHealth \cup {NoTrack}
             /\ wd'.l1 # Never => wd'.quiet >= wd'.l1 + STALE_AFTER \/ wd'.quiet = AgeCap
             /\ UNCHANGED <<voice, saved, tabSaved, tabStats, room, mic, stats, started, ended>>
    <2>1. StoreTyped' /\ StatsFresh' /\ EndedOnce'
      BY <1>3 DEF IInv, StoreInv, StoreTyped, StatsFresh, EndedOnce
    <2>2. QuietLeads'
      BY <1>3 DEF QuietLeads
    <2>3. StoreInv' /\ UNCHANGED voice
      BY <1>3, <2>1, <2>2 DEF IInv, StoreInv
    <2> QED
      BY <1>1, <2>3, LeaveStep
  <1>4. \/ handleVoiceDisconnect
        \/ /\ wd' \in TrackHealth \cup {NoTrack}
           /\ wd'.l1 # Never => wd'.quiet >= wd'.l1 + STALE_AFTER \/ wd'.quiet = AgeCap
           /\ UNCHANGED <<voice, saved, tabSaved, tabStats, room, mic, stats, started, ended>>
    <2>1. CASE /\ wd' = NoTrack
               /\ UNCHANGED <<voice, saved, tabSaved, tabStats, room, mic, stats, started, ended>>
      BY <2>1 DEF NoTrack
    <2>2. ASSUME NEW progressed \in BOOLEAN,
                 evaluateTrackHealth(wd, progressed).action # "reconnect-room",
                 wd' = evaluateTrackHealth(wd, progressed).next,
                 UNCHANGED <<voice, saved, tabSaved, tabStats, room, mic, stats, started, ended>>
          PROVE  /\ wd' \in TrackHealth \cup {NoTrack}
                 /\ wd'.l1 # Never => wd'.quiet >= wd'.l1 + STALE_AFTER \/ wd'.quiet = AgeCap
                 /\ UNCHANGED <<voice, saved, tabSaved, tabStats, room, mic, stats, started, ended>>
      <3> DEFINE next == evaluateTrackHealth(wd, progressed).next
      <3>1. /\ next \in TrackHealth
            /\ next.l1 # Never => next.quiet >= next.l1 + STALE_AFTER \/ next.quiet = AgeCap
        BY EvaluatedTrack DEF IInv, StoreInv, StoreTyped, QuietLeads
      <3> HIDE DEF next
      <3> QED
        BY <2>2, <3>1 DEF next
    <2> QED
      BY <2>1, <2>2, Zenon DEF WatchdogTick
  <1> QED
    BY <1>2, <1>3, <1>4

\* Navigation, the Join button, and what only the room changes.
LEMMA UserKeepsIInv ==
  ASSUME IInv, \/ \E ch \in Chan : Show(ch)
               \/ handleJoin \/ Leave \/ Dismiss \/ toggleMic \/ RoomCloses \/ RoomFails
  PROVE  IInv'
  <1>t. /\ user \in Scope /\ view \in Chan /\ screen \in Viewer \cup {None}
        /\ voice \in VoiceState /\ mic \in BOOLEAN /\ auto \in Reconnecting
        /\ saved \in [Scope -> Chan] /\ tabSaved \in Chan /\ room \in {"off", "live", "dead"}
        /\ manual \in Nat /\ PageTyped /\ StoreInv
    BY DEF IInv, PageTyped, StoreInv, StoreTyped, CallsTyped
  <1>1. CASE \E ch \in Chan : Show(ch)
    <2>1. /\ view' \in Chan /\ Mounts(view')
          /\ UNCHANGED page /\ UNCHANGED bounds /\ UNCHANGED store /\ UNCHANGED <<joins, auto>>
      BY <1>1 DEF Show
    <2>2. screen' \in Viewer \cup {None}
      BY <1>t, <2>1 DEF Mounts
    <2>3. PageTyped'
      BY <1>t, <2>1, <2>2 DEF PageTyped, page, bounds
    <2>4. voice' = voice /\ StoreInv'
      BY <1>t, <2>1, SameStore DEF IInv, store, page
    <2> QED
      BY <1>t, <2>1, <2>3, <2>4, PageStep
  <1>2. CASE handleJoin
    <2>1. /\ screen # None /\ Claim(screen, view, FALSE) /\ manual < MaxJoins /\ manual' = manual + 1
          /\ UNCHANGED page /\ UNCHANGED <<disturbances, view, screen, auto>>
      BY <1>2 DEF handleJoin
    <2>2. manual' \in 0..MaxJoins
      BY <1>t, <2>1, VoiceAssumption
    <2>3. PageTyped' /\ UNCHANGED unloading
      BY <1>t, <2>1, <2>2 DEF PageTyped, page
    <2>4. screen \in Caller
      BY <1>t, <2>1 DEF Caller
    <2> QED
      BY <1>t, <2>1, <2>3, <2>4, ClaimStep
  <1>3. CASE Leave
    BY <1>t, <1>3, DisconnectKeepsStore, LeaveStep DEF Leave
  <1>4. CASE Dismiss
    <2>1. /\ voice' = [voice EXCEPT !.state = "disconnected"]
          /\ UNCHANGED page /\ UNCHANGED bounds /\ UNCHANGED <<view, screen, joins, auto>>
          /\ UNCHANGED <<saved, tabSaved, tabStats, room, mic, wd, stats, started, ended>>
      BY <1>4 DEF Dismiss
    <2>2. /\ voice' \in VoiceState /\ voice'.stats = voice.stats /\ voice'.attempt = voice.attempt
          /\ voice'.state = "disconnected"
      BY <1>t, <2>1 DEF VoiceState, ConnectionState
    <2>3. StoreInv'
      BY <1>t, <2>1, <2>2, SameStats
    <2>4. PageTyped'
      BY <1>t, <2>1 DEF IInv, PageTyped, page, bounds
    <2> QED
      BY <1>t, <2>1, <2>2, <2>3, <2>4, PageStep DEF InFlight
  <1>5. CASE toggleMic
    <2>1. /\ mic' = ~mic /\ voice' \in {voice, [voice EXCEPT !.micActive = ~mic]}
          /\ UNCHANGED page /\ UNCHANGED bounds /\ UNCHANGED <<view, screen, joins, auto>>
          /\ UNCHANGED <<saved, tabSaved, tabStats, room, wd, stats, started, ended>>
      BY <1>5, Zenon DEF toggleMic
    <2>2. /\ voice' \in VoiceState /\ voice'.stats = voice.stats /\ voice'.attempt = voice.attempt
          /\ voice'.state = voice.state
      <3> DEFINE flag == ~mic
      <3>1. flag \in BOOLEAN
        OBVIOUS
      <3>2. voice' \in {voice, [voice EXCEPT !.micActive = flag]}
        BY <2>1
      <3> HIDE DEF flag
      <3> QED
        BY <1>t, <3>1, <3>2 DEF VoiceState
    <2>3. mic' \in BOOLEAN
      BY <2>1
    <2>4. StoreInv'
      BY <1>t, <2>1, <2>2, <2>3, SameStats
    <2>5. PageTyped'
      BY <1>t, <2>1 DEF IInv, PageTyped, page, bounds
    <2> QED
      BY <1>t, <2>1, <2>2, <2>4, <2>5, PageStep
  <1>6. CASE RoomCloses
    BY <1>t, <1>6, ClosingKeepsStore, LeaveStep DEF RoomCloses
  <1>7. CASE RoomFails
    BY <1>t, <1>7, DisconnectKeepsStore, LeaveStep DEF RoomFails
  <1> QED
    BY <1>1, <1>2, <1>3, <1>4, <1>5, <1>6, <1>7

\* App: the reconnect loop, reload, sign-out and sign-in.
LEMMA AppKeepsIInv ==
  ASSUME IInv, \/ StartReconnect \/ WakeReconnect \/ UnloadCancelled \/ Reload \/ logout \/ login
               \/ \E id \in stats : StatsStarted(id)
  PROVE  IInv'
  <1>t. /\ user \in Scope /\ view \in Chan /\ screen \in Viewer \cup {None} /\ native \in BOOLEAN
        /\ voice \in VoiceState /\ mic \in BOOLEAN /\ auto \in Reconnecting
        /\ saved \in [Scope -> Chan] /\ tabSaved \in Chan /\ room \in {"off", "live", "dead"}
        /\ disturbances \in Nat /\ PageTyped /\ StoreInv /\ joins \in [Caller -> Join]
        /\ auto.pc = "idle" => auto.attempt = 0
    BY DEF IInv, PageTyped, StoreInv, StoreTyped, CallsTyped
  <1>a. "auto" \in Caller
    BY DEF Caller
  <1>1. CASE StartReconnect
    <2> DEFINE ch == getPendingVoiceSession
    <2>1. /\ auto.pc = "idle" /\ UNCHANGED page /\ UNCHANGED bounds
          /\ \/ /\ Claim("auto", ch, FALSE)
                /\ auto' = [pc |-> "join", chan |-> ch, attempt |-> 0]
                /\ UNCHANGED <<view, screen>>
             \/ /\ auto' = [pc |-> "done", chan |-> ch, attempt |-> 0]
                /\ view' = None /\ screen' = None
                /\ UNCHANGED <<store, joins>>
      BY <1>1 DEF StartReconnect
    <2>2. ch \in Chan
      BY <1>t DEF getPendingVoiceSession
    <2> HIDE DEF ch
    <2>3. auto' \in Reconnecting /\ auto'.attempt = auto.attempt /\ auto'.pc # "idle"
      <3> DEFINE Loop(pc) == [pc |-> pc, chan |-> ch, attempt |-> 0]
      <3>1. \A pc \in {"join", "done"} :
              Loop(pc) \in Reconnecting /\ Loop(pc).attempt = 0 /\ Loop(pc).pc = pc
        BY <2>2, VoiceAssumption DEF Reconnecting
      <3>2. auto' = Loop("join") \/ auto' = Loop("done")
        BY <2>1
      <3>3. auto.attempt = 0
        BY <1>t, <2>1
      <3> HIDE DEF Loop
      <3> QED
        BY <3>1, <3>2, <3>3
    <2>4. PageTyped'
      BY <1>t, <2>1 DEF PageTyped, page, bounds, Chan
    <2>5. CASE Claim("auto", ch, FALSE)
      <3>1. UNCHANGED unloading
        BY <2>1 DEF page
      <3> QED
        BY <1>a, <2>2, <2>3, <2>4, <2>5, <3>1, ClaimStep
    <2>6. CASE UNCHANGED <<store, joins>>
      <3>1. voice' = voice /\ StoreInv'
        BY <1>t, <2>1, <2>6, SameStore DEF IInv, store, page
      <3> QED
        BY <2>3, <2>4, <2>6, <3>1, PageStep
    <2> QED
      BY <2>1, <2>5, <2>6
  <1>2. CASE WakeReconnect
    <2>1. /\ UNCHANGED page /\ UNCHANGED bounds /\ UNCHANGED <<view, screen>>
          /\ \/ Claim("auto", auto.chan, TRUE) /\ auto' = [auto EXCEPT !.pc = "join"]
             \/ auto' = [auto EXCEPT !.pc = "done"] /\ UNCHANGED <<store, joins>>
      BY <1>2 DEF WakeReconnect
    <2>2. auto' \in Reconnecting /\ auto'.attempt = auto.attempt /\ auto'.pc # "idle"
      BY <2>1, CallFacts DEF IInv
    <2>3. PageTyped'
      BY <1>t, <2>1 DEF PageTyped, page, bounds
    <2>4. CASE Claim("auto", auto.chan, TRUE)
      <3>1. UNCHANGED unloading /\ auto.chan \in Chan
        BY <2>1, CallFacts DEF page, IInv
      <3> QED
        BY <1>a, <2>2, <2>3, <2>4, <3>1, ClaimStep
    <2>5. CASE UNCHANGED <<store, joins>>
      <3>1. voice' = voice /\ StoreInv'
        BY <1>t, <2>1, <2>5, SameStore DEF IInv, store, page
      <3> QED
        BY <2>2, <2>3, <2>5, <3>1, PageStep
    <2> QED
      BY <2>1, <2>4, <2>5
  <1>3. CASE UnloadCancelled
    <2>1. /\ unloading' = TRUE /\ UNCHANGED <<user, native>> /\ UNCHANGED bounds /\ UNCHANGED store
          /\ UNCHANGED <<view, screen, joins, auto>>
      BY <1>3 DEF UnloadCancelled
    <2>2. PageTyped' /\ voice' = voice
      BY <1>t, <2>1 DEF PageTyped, bounds, store
    <2> QED
      BY <1>t, <2>1, <2>2, SameStore, PageStep
  <1>4. CASE Reload
    <2>1. /\ disturbances < MaxDisturbances /\ disturbances' = disturbances + 1
          /\ voice' = Disconnected /\ joins' = [c \in Caller |-> NoJoin] /\ auto' = AutoIdle
          /\ view' = None /\ screen' = None /\ room' = "off" /\ mic' = FALSE /\ wd' = NoTrack
          /\ unloading' = FALSE /\ stats' = {}
          /\ UNCHANGED <<user, native, manual, saved, tabSaved, tabStats, started, ended>>
      BY <1>4 DEF Reload
    <2>2. disturbances' \in 0..MaxDisturbances
      BY <1>t, <2>1, VoiceAssumption
    <2>3. view' \in Chan /\ screen' \in Viewer \cup {None} /\ unloading' \in BOOLEAN
      BY <2>1 DEF Chan
    <2>4. PageTyped'
      BY <1>t, <2>1, <2>2, <2>3 DEF PageTyped
    <2>5. CallsTyped'
      <3>1. NoJoin \in Join /\ AutoIdle \in Reconnecting /\ AutoIdle.attempt = 0
        BY CallFacts DEF IInv
      <3> QED
        BY <2>1, <3>1 DEF CallsTyped
    <2>6. StoreTyped'
      <3>1. voice' \in VoiceState /\ room' = "off" /\ mic' \in BOOLEAN /\ wd' = NoTrack /\ stats' = {}
        BY <2>1, DisconnectedTyped
      <3>2. saved' \in [Scope -> Chan] /\ tabSaved' \in Chan /\ tabStats' \in Nat /\ started' \in Nat
            /\ ended' \in Seq(Nat)
        BY <2>1 DEF IInv, StoreInv, StoreTyped
      <3> QED
        BY <3>1, <3>2 DEF StoreTyped
    <2>7. StatsFresh'
      <3>1. voice'.stats = 0 /\ stats' = {} /\ UNCHANGED <<tabStats, started, ended>>
        BY <2>1, DisconnectedTyped
      <3>2. started \in Nat /\ tabStats \in 0..started
            /\ \A i \in DOMAIN ended : ended[i] \in 1..started /\ ended[i] # tabStats
        BY DEF IInv, StoreInv, StoreTyped, StatsFresh
      <3> QED
        BY <3>1, <3>2 DEF StatsFresh
    <2>8. QuietLeads' /\ EndedOnce'
      BY <2>1 DEF IInv, StoreInv, QuietLeads, EndedOnce, NoTrack
    <2>9. LockHasHolder' /\ AttemptsAgree'
      <3>1. voice'.state = "disconnected" /\ voice'.attempt = 0 /\ auto'.attempt = 0 /\ room' = "off"
        BY <2>1, DisconnectedTyped, CallFacts DEF IInv
      <3> QED
        BY <3>1 DEF LockHasHolder, AttemptsAgree, InFlight
    <2> QED
      BY <2>4, <2>5, <2>6, <2>7, <2>8, <2>9 DEF IInv, StoreInv
  <1>5. CASE logout
    <2>1. /\ disturbances < MaxDisturbances /\ disturbances' = disturbances + 1 /\ user' = None
          /\ view' = None /\ screen' = None /\ room' \in {room, "off"} /\ wd' = NoTrack
          /\ UNCHANGED <<native, unloading, manual>> /\ UNCHANGED <<joins, auto>>
          /\ UNCHANGED <<voice, saved, tabSaved, tabStats, stats, started, ended>>
      BY <1>5 DEF logout
    <2>2. mic' \in BOOLEAN
      BY <1>5, Zenon DEF logout
    <2>3. disturbances' \in 0..MaxDisturbances
      BY <1>t, <2>1, VoiceAssumption
    <2>4. PageTyped'
      BY <1>t, <2>1, <2>3 DEF IInv, PageTyped, Scope, Chan
    <2>5. StoreInv'
      BY <1>t, <2>1, <2>2, SameStats
    <2> QED
      BY <1>t, <2>1, <2>4, <2>5, PageStep
  <1>6. CASE login
    <2>1. /\ user' \in User /\ room' \in {room, "live"}
          /\ UNCHANGED <<native, unloading, view, screen, joins, auto, mic, wd>> /\ UNCHANGED bounds
          /\ UNCHANGED <<voice, saved, tabSaved, tabStats, stats, started, ended>>
      BY <1>6 DEF login
    <2>2. PageTyped'
      BY <1>t, <2>1 DEF IInv, PageTyped, Scope, bounds
    <2>3. StoreInv'
      BY <1>t, <2>1, SameStats
    <2> QED
      BY <1>t, <2>1, <2>2, <2>3, PageStep
  <1>7. CASE \E id \in stats : StatsStarted(id)
    <2>1. PICK id \in stats : StatsStarted(id)
      BY <1>7
    <2>2. UNCHANGED <<user, native, view, screen, joins, auto, room, unloading, manual, disturbances>>
      BY <2>1 DEF StatsStarted
    <2>3. StoreInv' /\ voice'.state = voice.state /\ voice'.attempt = voice.attempt
      BY <1>t, <2>1, AnswerKeepsStore
    <2>4. PageTyped'
      BY <1>t, <2>2 DEF IInv, PageTyped
    <2> QED
      BY <1>t, <2>2, <2>3, <2>4, PageStep
  <1> QED
    BY <1>1, <1>2, <1>3, <1>4, <1>5, <1>6, <1>7

\* Every step keeps IInv.
LEMMA StepKeepsIInv == IInv /\ [Next]_vars => IInv'
  <1> SUFFICES ASSUME IInv, [Next]_vars
               PROVE  IInv'
    OBVIOUS
  <1>1. CASE \E c \in Caller : JoinStep(c)
    BY <1>1, JoinKeepsIInv
  <1>2. CASE \/ \E ch \in Chan : Show(ch)
             \/ handleJoin \/ Leave \/ Dismiss \/ toggleMic \/ RoomCloses \/ RoomFails
    BY <1>2, UserKeepsIInv
  <1>3. CASE WatchdogTick
    BY <1>3, TickKeepsIInv
  <1>4. CASE \/ StartReconnect \/ WakeReconnect \/ UnloadCancelled \/ Reload \/ logout \/ login
             \/ \E id \in stats : StatsStarted(id)
    BY <1>4, AppKeepsIInv
  <1>5. CASE UNCHANGED vars
    <2>1. UNCHANGED page /\ UNCHANGED bounds /\ UNCHANGED store /\ UNCHANGED <<view, screen, joins, auto>>
      BY <1>5 DEF vars, page, bounds, store
    <2>2. StoreInv' /\ UNCHANGED voice
      BY <2>1, SameStore DEF IInv, store
    <2> QED
      BY <2>1, <2>2, LeaveStep
  <1> QED
    BY <1>1, <1>2, <1>3, <1>4, <1>5, Zenon DEF Next

LEMMA IInvAlways == Spec => []IInv
  BY InitIInv, StepKeepsIInv, PTL DEF Spec

\* beginConnectAttempt "must be paired with" connect or a reset: the state is well
\* formed, and while it says connecting or reconnecting some call is running that
\* will set it again, whoever cancelled, left, reloaded or retried meanwhile.
THEOREM LockIsHeld == Spec => []VoiceInv
  <1>1. IInv => VoiceInv
    BY TypeParts DEF IInv, StoreInv, VoiceInv
  <1> QED
    BY IInvAlways, <1>1, PTL

\* disconnect: no stats session is ended twice, for any order of refreshes, late
\* answers of startVoiceSession and leaves.
THEOREM StatsEndOnce == Spec => []EndedOnce
  <1>1. IInv => EndedOnce
    BY DEF IInv, StoreInv
  <1> QED
    BY IInvAlways, <1>1, PTL

\* evaluateTrackHealth: the watchdog closes a room only for a track that stayed
\* silent through both windows, one after the other.
THEOREM PatientWatchdog == Spec => WatchdogIsPatient
  <1> DEFINE Patient == WatchdogTick /\ room' # "live" => wd.quiet + SAMPLE_INTERVAL >= STALE_AFTER + L2_AFTER
  <1>1. IInv => Patient
    <2> SUFFICES ASSUME IInv, WatchdogTick, room' # "live"
                 PROVE  wd.quiet + SAMPLE_INTERVAL >= STALE_AFTER + L2_AFTER
      OBVIOUS
    <2>1. \E progressed \in BOOLEAN : evaluateTrackHealth(wd, progressed).action = "reconnect-room"
      BY DEF WatchdogTick
    <2> QED
      BY <2>1, EvaluatedTrack DEF IInv, StoreInv, StoreTyped, QuietLeads
  <1>2. IInv /\ [Next]_vars => [Patient]_vars
    BY <1>1
  <1>3. WatchdogIsPatient <=> [][Patient]_vars
    BY DEF WatchdogIsPatient
  <1> QED
    BY IInvAlways, <1>2, <1>3, PTL DEF Spec

=============================================================================
