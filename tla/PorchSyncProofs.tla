--------------------------- MODULE PorchSyncProofs ---------------------------
(***************************************************************************)
(* Theorems about PorchSync, for every set of devices, channels, peers and *)
(* ids and every bound.                                                    *)
(*                                                                         *)
(* The proofs rest on what a step can do to the files.  A local write      *)
(* commits one or two fresh versions to one file (LocalWriteShape); every  *)
(* other step leaves each file alone or merges into it a delta that was in *)
(* transit (SyncShape).                                                    *)
(***************************************************************************)
EXTENDS PorchSync, TLAPS, WellFoundedInduction

-----------------------------------------------------------------------------
(***************************************************************************)
(* Lemmas about the operators of PorchRows: what the clock bounds, what a  *)
(* merge and a batch return, what a cursor and a delta contain.            *)
(***************************************************************************)

\* A non-empty bounded set of naturals has a maximum, so Max returns it.
LEMMA MaxIsMaximum ==
  ASSUME NEW S, NEW N \in Nat, S \subseteq 0..N, S # {}
  PROVE  /\ Max(S) \in S
         /\ \A x \in S : x <= Max(S)
PROOF
<1> DEFINE U == {b \in Nat : \A x \in S : x <= b}
<1>1. N \in U
  OBVIOUS
<1>2. \E m \in U : \A b \in U : ~(b < m)
  <2>1. U \subseteq Nat /\ U # {}
    BY <1>1
  <2>2. \E m \in U : \A b \in U : <<b, m>> \notin OpToRel(<, Nat)
    <3> HIDE DEF U
    <3> QED BY <2>1, NatLessThanWellFounded, WFMin, Zenon
  <2> QED BY <2>1, <2>2 DEF OpToRel
<1>3. PICK m \in U : \A b \in U : ~(b < m)
  BY <1>2
<1>4. m \in S
  <2> SUFFICES ASSUME m \notin S PROVE FALSE
    OBVIOUS
  <2>1. \A x \in S : x \in Nat /\ x < m
    OBVIOUS
  <2>2. m - 1 \in Nat
    <3>1. PICK x \in S : TRUE
      OBVIOUS
    <3> QED BY <2>1, <3>1
  <2>3. m - 1 \in U
    BY <2>1, <2>2
  <2> QED BY <1>3, <2>3
<1> QED BY <1>4 DEF Max

\* Every key names a synced table, a channel and, for ACL rows and knocks, a
\* peer; the keys the operations build are keys.
LEMMA KeyFacts ==
  /\ \A c \in Channel : ChannelKey(c) \in Key
  /\ \A c \in Channel, m \in MessageId : MessageKey(c, m) \in Key
  /\ \A c \in Channel, p \in Peer : AclKey(c, p) \in Key
  /\ \A c \in Channel, p \in Peer, n \in KnockId : KnockKey(c, p, n) \in Key
  /\ \A c \in Channel : ThemeKey(c) \in Key
  /\ \A c \in Channel, a \in AssetId : AssetKey(c, a) \in Key
  /\ \A c \in Channel : ObsidianKey(c) \in Key
PROOF
  BY DEF Key

LEMMA KeyColumns ==
  ASSUME NEW k \in Key
  PROVE  /\ k.tab \in SYNCED_TABLES
         /\ k.chan \in Channel
         /\ k \in Knocks => k.peer \in Peer
PROOF
<1>1. CASE \E c \in Channel : k = ChannelKey(c)
  BY <1>1 DEF ChannelKey, PrimaryKey, SYNCED_TABLES, Knocks
<1>2. CASE \E c \in Channel, m \in MessageId : k = MessageKey(c, m)
  BY <1>2 DEF MessageKey, PrimaryKey, SYNCED_TABLES, Knocks
<1>3. CASE \E c \in Channel, p \in Peer : k = AclKey(c, p)
  BY <1>3 DEF AclKey, PrimaryKey, SYNCED_TABLES, Knocks
<1>4. CASE \E c \in Channel, p \in Peer, n \in KnockId : k = KnockKey(c, p, n)
  BY <1>4 DEF KnockKey, PrimaryKey, SYNCED_TABLES, Knocks
<1>5. CASE \E c \in Channel : k = ThemeKey(c)
  BY <1>5 DEF ThemeKey, PrimaryKey, SYNCED_TABLES, Knocks
<1>6. CASE \E c \in Channel, a \in AssetId : k = AssetKey(c, a)
  BY <1>6 DEF AssetKey, PrimaryKey, SYNCED_TABLES, Knocks
<1>7. CASE \E c \in Channel : k = ObsidianKey(c)
  BY <1>7 DEF ObsidianKey, PrimaryKey, SYNCED_TABLES, Knocks
<1> QED
  BY <1>1, <1>2, <1>3, <1>4, <1>5, <1>6, <1>7 DEF Key

\* The clock of a file, and of any part of it, is within the bound and at least
\* as high as every row it looks at.
LEMMA MaxLamportOfBounds ==
  ASSUME NEW rows \in Porch, NEW ks, ks \subseteq Present(rows)
  PROVE  /\ MaxLamportOf(rows, ks) \in 0..MaxLamport
         /\ \A k \in ks : rows[k].lamport <= MaxLamportOf(rows, ks)
PROOF
<1> DEFINE S == {0} \cup {rows[k].lamport : k \in ks}
<1>1. \A k \in ks : rows[k] \in Row
  BY DEF Porch, Present
<1>2. S \subseteq 0..MaxLamport /\ S # {} /\ MaxLamport \in Nat
  BY <1>1, LamportAssumption DEF Row
<1>3. Max(S) \in S /\ \A x \in S : x <= Max(S)
  <2> HIDE DEF S
  <2> QED BY <1>2, MaxIsMaximum
<1> QED BY <1>2, <1>3 DEF MaxLamportOf

LEMMA ObservedMaxBounds ==
  ASSUME NEW rows \in Porch
  PROVE  /\ observed_max(rows) \in 0..MaxLamport
         /\ \A k \in Present(rows) : rows[k].lamport <= observed_max(rows)
PROOF
  BY MaxLamportOfBounds DEF observed_max

LEMMA LocalCursorType ==
  ASSUME NEW rows \in Porch
  PROVE  local_cursor(rows) \in Cursor
PROOF
  BY MaxLamportOfBounds DEF local_cursor, Cursor

LEMMA CollectDeltaType ==
  ASSUME NEW rows \in Porch, NEW cursor \in Cursor
  PROVE  /\ collect_delta(rows, cursor) \in Porch
         /\ \A k \in Key : \/ collect_delta(rows, cursor)[k] = rows[k]
                           \/ collect_delta(rows, cursor)[k] = NoRow
PROOF
  BY DEF collect_delta, Porch

LEMMA EmptyTypes ==
  /\ EmptyDelta \in Porch
  /\ Present(EmptyDelta) = {}
  /\ ZeroCursor \in Cursor
PROOF
  BY LamportAssumption DEF EmptyDelta, Porch, Present, ZeroCursor, Cursor

\* A batch either lands as a whole merge or leaves the file alone.
LEMMA BatchOutcome ==
  ASSUME NEW rows \in Porch, NEW delta \in Porch,
         NEW o \in apply_sync_batch(rows, delta)
  PROVE  /\ o.db \in Porch
         /\ o.ok => o.db = Merged(rows, delta)
         /\ ~o.ok => o.db = rows
         /\ o.ok \in BOOLEAN
         /\ o.ok => ForeignKeysHold(o.db) /\ OnePendingPerPair(o.db)
PROOF
<1>1. Merged(rows, delta) \in Porch
  BY DEF Merged, Porch
<1>2. /\ o \in {[ok |-> TRUE, db |-> Merged(rows, delta)], [ok |-> FALSE, db |-> rows]}
      /\ o.ok => /\ ForeignKeysHold(Merged(rows, delta))
                 /\ OnePendingPerPair(Merged(rows, delta))
  BY DEF apply_sync_batch
<1>3. CASE o = [ok |-> TRUE, db |-> Merged(rows, delta)]
  <2>1. o.ok = TRUE /\ o.db = Merged(rows, delta)
    BY <1>3
  <2> QED BY <1>1, <1>2, <2>1
<1>4. CASE o = [ok |-> FALSE, db |-> rows]
  <2>1. o.ok = FALSE /\ o.db = rows
    BY <1>4
  <2> QED BY <2>1
<1> QED BY <1>2, <1>3, <1>4

\* A merge keeps each row or replaces it by a newer one of the delta.
LEMMA MergedRows ==
  ASSUME NEW rows \in Porch, NEW delta \in Porch, NEW k \in Key
  PROVE  \/ Merged(rows, delta)[k] = rows[k]
         \/ /\ Merged(rows, delta)[k] = delta[k]
            /\ delta[k] \in Row
            /\ rows[k] = NoRow \/ Newer(delta[k], rows[k])
PROOF
  BY DEF Merged, Applies, remote_wins, Newer, Porch, Row

-----------------------------------------------------------------------------
(***************************************************************************)
(* Type correctness.                                                       *)
(***************************************************************************)

LEMMA OpenType ==
  ASSUME NEW d \in Device
  PROVE  /\ open(d) \in Porch
         /\ \A k \in Present(open(d)) : open(d)[k].device = d
PROOF
<1>1. \A k \in Legacy[d] : k \in Key /\ LegacyValue(k) \in Value
  BY LegacyAssumption DEF LegacyValue, Value, AclMode
<1>2. ASSUME NEW l \in 0..MaxLamport, NEW val \in Value
      PROVE  Stamped(d, l, FALSE, val) \in Row /\ Stamped(d, l, FALSE, val).device = d
  BY DEF Stamped, Row
<1>3. /\ migrate_v6(d) \in Porch
      /\ \A k \in Present(migrate_v6(d)) : migrate_v6(d)[k].device = d
  <2>1. 0 \in 0..MaxLamport
    BY LamportAssumption
  <2> QED BY <1>1, <1>2, <2>1 DEF migrate_v6, Porch, Present
<1>4. /\ ensure_default_channel(d) \in Porch
      /\ \A k \in Present(ensure_default_channel(d)) :
           ensure_default_channel(d)[k].device = d
  <2>1. 1 \in 0..MaxLamport /\ "open" \in Value
    BY LamportAssumption DEF Value, AclMode
  <2> QED BY <1>2, <2>1
          DEF ensure_default_channel, EmptyDelta, Porch, Present
<1> QED BY <1>3, <1>4 DEF open

LEMMA VersionsType ==
  ASSUME NEW rows \in Porch
  PROVE  Versions(rows) \subseteq Version
PROOF
  BY DEF Versions, Version, Present, Porch

LEMMA IdleType == Idle \in Round
PROOF
  BY EmptyTypes DEF Idle, Round, Phase

LEMMA TypeInit == Init => TypeOK
PROOF
<1> SUFFICES ASSUME Init PROVE TypeOK
  OBVIOUS
<1>1. db \in [Device -> Porch]
  BY OpenType DEF Init
<1>2. written \subseteq Version
  BY OpenType, VersionsType DEF Init
<1>3. mark \in [Device -> [Device -> 0..MaxLamport]]
  BY LamportAssumption DEF Init
<1>4. sess \in [Device -> [Device -> [Slot -> Round]]]
  BY IdleType DEF Init
<1> QED BY <1>1, <1>2, <1>3, <1>4, BoundAssumption DEF Init, TypeOK

\* What a local write does: it commits versions with one fresh stamp each.
Fresh(d, V) ==
  /\ V \subseteq Version
  /\ \A v \in V : v.row.device = d /\ v.row.lamport > observed_max(db[d])
  /\ \A v, w \in V : v.key = w.key => v = w

Commits(d, V) ==
  /\ written' = written \cup V
  /\ db' \in [Device -> Porch]
  /\ \A e \in Device \ {d} : db'[e] = db[e]
  /\ \A v \in V : db'[d][v.key] = v.row
  /\ \A k \in Key : (\A v \in V : v.key # k) => db'[d][k] = db[d][k]
  /\ UNCHANGED <<linked, mark, sess, late, disruptions, consent>>

LEMMA AuthorShape ==
  ASSUME TypeOK, NEW d \in Device, NEW k \in Key, NEW row,
         row.lamport = next_lamport(db[d]), row.device = d,
         row.lamport <= MaxLamport => row \in Row,
         Author(d, k, row)
  PROVE  \E V : Fresh(d, V) /\ Commits(d, V)
PROOF
<1> DEFINE v == [key |-> k, row |-> row]
<1>1. db \in [Device -> Porch] /\ db[d] \in Porch
  BY DEF TypeOK
<1>2. row \in Row /\ v \in Version /\ v.key = k /\ v.row = row
  BY DEF Author, Version
<1>3. row.lamport > observed_max(db[d])
  BY <1>1, ObservedMaxBounds, LamportAssumption DEF next_lamport
<1>4. Fresh(d, {v})
  BY <1>2, <1>3 DEF Fresh
<1>5. Commits(d, {v})
  <2>1. db' = [db EXCEPT ![d][k] = row]
    BY DEF Author
  <2>2. db' \in [Device -> Porch]
    BY <1>1, <1>2, <2>1 DEF Porch
  <2>3. db'[d][k] = row
    BY <1>1, <2>1 DEF Porch
  <2>4. \A j \in Key : j # k => db'[d][j] = db[d][j]
    BY <1>1, <2>1 DEF Porch
  <2>5. \A e \in Device \ {d} : db'[e] = db[e]
    BY <1>1, <2>1
  <2>6. /\ written' = written \cup {v}
        /\ UNCHANGED <<linked, mark, sess, late, disruptions, consent>>
    BY DEF Author
  <2> QED BY <1>2, <2>2, <2>3, <2>4, <2>5, <2>6 DEF Commits
<1> QED BY <1>4, <1>5

LEMMA StampedType ==
  ASSUME NEW d \in Device, NEW l, NEW tomb, NEW val
  PROVE  /\ Stamped(d, l, tomb, val).lamport = l
         /\ Stamped(d, l, tomb, val).device = d
         /\ l \in 0..MaxLamport /\ tomb \in BOOLEAN /\ val \in Value =>
              Stamped(d, l, tomb, val) \in Row
PROOF
  BY DEF Stamped, Row

LEMMA StampedShape ==
  ASSUME TypeOK, NEW d \in Device, NEW k \in Key,
         NEW tomb \in BOOLEAN, NEW val \in Value,
         Author(d, k, Stamped(d, next_lamport(db[d]), tomb, val))
  PROVE  \E V : Fresh(d, V) /\ Commits(d, V)
PROOF
<1> DEFINE l == next_lamport(db[d])
<1>1. l \in Nat
  BY ObservedMaxBounds, LamportAssumption DEF TypeOK, next_lamport
<1>2. l <= MaxLamport => l \in 0..MaxLamport
  BY <1>1, LamportAssumption
<1> DEFINE row == Stamped(d, l, tomb, val)
<1>3. /\ row.lamport = next_lamport(db[d])
      /\ row.device = d
      /\ row.lamport <= MaxLamport => row \in Row
  <2> HIDE DEF l
  <2>1. row.lamport = l /\ row.device = d /\ (l \in 0..MaxLamport => row \in Row)
    BY StampedType
  <2> QED BY <1>2, <2>1 DEF l
<1>4. Author(d, k, row)
  OBVIOUS
<1> HIDE DEF row
<1> QED BY <1>3, <1>4, AuthorShape

LEMMA WriteShape ==
  ASSUME TypeOK, NEW d \in Device, NEW k \in Key, NEW val \in Value,
         Write(d, k, val)
  PROVE  \E V : Fresh(d, V) /\ Commits(d, V)
PROOF
  BY StampedShape DEF Write

LEMMA RevokeShape ==
  ASSUME TypeOK, NEW d \in Device, NEW c \in Channel, NEW p \in Grantee,
         revoke_acl(d, c, p)
  PROVE  \E V : Fresh(d, V) /\ Commits(d, V)
PROOF
<1> DEFINE k == AclKey(c, p)
<1>1. k \in Key
  BY KeyFacts DEF Peer
<1>2. db[d][k].val \in Value
  BY <1>1 DEF revoke_acl, TypeOK, Porch, Row
<1>3. Author(d, k, Stamped(d, next_lamport(db[d]), TRUE, db[d][k].val))
  BY DEF revoke_acl
<1> HIDE DEF k
<1> QED BY <1>1, <1>2, <1>3, StampedShape

LEMMA ResolveShape ==
  ASSUME TypeOK, NEW d \in Device, NEW k \in Knocks, NEW status \in KnockStatus,
         ResolveKnock(d, k, status)
  PROVE  \E V : Fresh(d, V) /\ Commits(d, V)
PROOF
<1>1. k \in Key
  BY DEF Knocks
<1>2. db[d][k] \in Row
  BY <1>1 DEF ResolveKnock, Pending, TypeOK, Porch
<1>3. db[d][k].tomb \in BOOLEAN /\ status \in Value
  BY <1>2 DEF Row, Value
<1>4. Author(d, k, Stamped(d, next_lamport(db[d]), db[d][k].tomb, status))
  BY DEF ResolveKnock
<1> QED BY <1>1, <1>3, <1>4, StampedShape

\* The one operation that commits two rows: the knock and the ACL row.
LEMMA AcceptShape ==
  ASSUME TypeOK, NEW d \in Device, NEW k \in Knocks, accept_knock(d, k)
  PROVE  \E V : Fresh(d, V) /\ Commits(d, V)
PROOF
<1> DEFINE l == next_lamport(db[d])
           a == AclKey(k.chan, k.peer)
           kv == Stamped(d, l, db[d][k].tomb, "accepted")
           av == Stamped(d, l + 1, FALSE, "member")
           V == {[key |-> k, row |-> kv], [key |-> a, row |-> av]}
<1>1. k \in Key /\ a \in Key
  BY KeyFacts, KeyColumns DEF Knocks
<1>2. a # k
  BY DEF Knocks, AclKey, PrimaryKey
<1>3. db \in [Device -> Porch] /\ db[d] \in Porch /\ db[d][k] \in Row
  BY <1>1 DEF accept_knock, Pending, TypeOK, Porch
<1>4. l \in Nat /\ l > observed_max(db[d]) /\ l + 1 > observed_max(db[d])
  BY <1>3, ObservedMaxBounds, LamportAssumption DEF next_lamport
<1>5. l + 1 <= MaxLamport
  BY DEF accept_knock
<1>6. /\ kv \in Row /\ kv.lamport = l /\ kv.device = d
      /\ av \in Row /\ av.lamport = l + 1 /\ av.device = d
  <2>1. "accepted" \in Value /\ "member" \in Value
    BY DEF Value, KnockStatus
  <2>2. l \in 0..MaxLamport /\ l + 1 \in 0..MaxLamport
    BY <1>4, <1>5, LamportAssumption
  <2>3. db[d][k].tomb \in BOOLEAN
    BY <1>3 DEF Row
  <2> HIDE DEF l
  <2>4. kv \in Row /\ kv.lamport = l /\ kv.device = d
    BY <2>1, <2>2, <2>3, StampedType
  <2>5. av \in Row /\ av.lamport = l + 1 /\ av.device = d
    BY <2>1, <2>2 DEF Stamped, Row
  <2> QED BY <2>4, <2>5
<1>7. db' = [db EXCEPT ![d] = [@ EXCEPT ![k] = kv, ![a] = av]]
  BY DEF accept_knock
<1>8. written' = written \cup V
  BY DEF accept_knock
<1>9. UNCHANGED <<linked, mark, sess, late, disruptions, consent>>
  BY DEF accept_knock
<1> HIDE DEF l, a, kv, av
<1>10. Fresh(d, V)
  BY <1>1, <1>2, <1>4, <1>6 DEF Fresh, Version
<1>11. Commits(d, V)
  <2>1. db' \in [Device -> Porch]
    BY <1>1, <1>3, <1>6, <1>7 DEF Porch
  <2>2. db'[d][k] = kv /\ db'[d][a] = av
    BY <1>1, <1>2, <1>3, <1>7 DEF Porch
  <2>3. \A j \in Key : j # k /\ j # a => db'[d][j] = db[d][j]
    BY <1>1, <1>3, <1>7 DEF Porch
  <2>4. \A e \in Device \ {d} : db'[e] = db[e]
    BY <1>3, <1>7
  <2> QED BY <1>8, <1>9, <2>1, <2>2, <2>3, <2>4 DEF Commits
<1> QED BY <1>10, <1>11

LEMMA LocalWriteShape ==
  ASSUME TypeOK, NEW d \in Device, LocalWrite(d)
  PROVE  \E V : Fresh(d, V) /\ Commits(d, V)
PROOF
<1> USE KeyFacts, WriteShape
<1>1. AclMode \cup KnockStatus \cup {"member", "blob"} \cup Theme \cup Vault \subseteq Value
  BY DEF Value
<1>2. ASSUME NEW c \in Channel, NEW mode \in CreateMode, insert_channel(d, c, mode)
      PROVE  \E V : Fresh(d, V) /\ Commits(d, V)
  BY <1>1, <1>2, CreateModeAssumption DEF insert_channel
<1>3. ASSUME NEW c \in Channel, NEW m \in MessageId, post_message(d, c, m)
      PROVE  \E V : Fresh(d, V) /\ Commits(d, V)
  BY <1>1, <1>3 DEF post_message
<1>4. ASSUME NEW c \in Channel, NEW a \in AssetId, upload_asset(d, c, a)
      PROVE  \E V : Fresh(d, V) /\ Commits(d, V)
  BY <1>1, <1>4 DEF upload_asset
<1>5. ASSUME NEW c \in Channel, NEW x \in Theme, set_theme(d, c, x)
      PROVE  \E V : Fresh(d, V) /\ Commits(d, V)
  BY <1>1, <1>5 DEF set_theme
<1>6. ASSUME NEW c \in Channel, NEW x \in Vault, set_obsidian_config(d, c, x)
      PROVE  \E V : Fresh(d, V) /\ Commits(d, V)
  BY <1>1, <1>6 DEF set_obsidian_config
<1>7. ASSUME NEW c \in Channel, NEW p \in Grantee, grant_acl(d, c, p)
      PROVE  \E V : Fresh(d, V) /\ Commits(d, V)
  BY <1>1, <1>7 DEF grant_acl, Peer
<1>8. ASSUME NEW c \in Channel, NEW p \in Knocker, NEW n \in KnockId, knock(d, c, p, n)
      PROVE  \E V : Fresh(d, V) /\ Commits(d, V)
  BY <1>1, <1>8 DEF knock, Peer, KnockStatus
<1>9. ASSUME NEW k \in Knocks, reject_knock(d, k) \/ withdraw_knock(d, k)
      PROVE  \E V : Fresh(d, V) /\ Commits(d, V)
  BY <1>9, ResolveShape DEF reject_knock, withdraw_knock, KnockStatus
<1> QED
  BY <1>2, <1>3, <1>4, <1>5, <1>6, <1>7, <1>8, <1>9, RevokeShape, AcceptShape
     DEF LocalWrite
\* The disjuncts of Next other than local writes.
LinkStep ==
  \E p \in Pair : link_personal_device(p[1], p[2]) \/ unlink_device(p[1], p[2])
RoundStep ==
  \E p \in Pair, n \in Slot : SyncStep(p[1], p[2], n) \/ Abandon(p[1], p[2], n)

LEMMA NextCases ==
  Next = \/ \E d \in Device : LocalWrite(d)
         \/ LinkStep
         \/ RoundStep
         \/ \E q \in late : HandleLate(q)
PROOF
  BY DEF Next, LinkStep, RoundStep

LEMMA PairType == \A p \in Pair : p[1] \in Device /\ p[2] \in Device
PROOF
  BY PairAssumption

LEMMA EnterType ==
  ASSUME TypeOK, NEW i \in Device, NEW r \in Device, NEW n \in Slot, NEW phase \in Phase,
         NEW cursor \in Cursor, NEW delta \in Porch,
         Enter(i, r, n, phase, cursor, delta)
  PROVE  /\ sess' \in [Device -> [Device -> [Slot -> Round]]]
         /\ sess'[i][r][n].delta = delta
         /\ sess'[i][r][n].phase = phase
         /\ \A j, s \in Device, m \in Slot :
              <<j, s, m>> # <<i, r, n>> => sess'[j][s][m] = sess[j][s][m]
PROOF
<1> DEFINE new == [phase |-> phase, cursor |-> cursor, delta |-> delta]
<1>1. new \in Round /\ new.delta = delta /\ new.phase = phase
  BY DEF Round
<1>2. sess' = [sess EXCEPT ![i][r][n] = new] /\ sess \in [Device -> [Device -> [Slot -> Round]]]
  BY DEF Enter, TypeOK
<1> HIDE DEF new
<1> QED BY <1>1, <1>2

LEMMA EndRoundType ==
  ASSUME TypeOK, NEW i \in Device, NEW r \in Device, NEW n \in Slot, EndRound(i, r, n)
  PROVE  /\ sess' \in [Device -> [Device -> [Slot -> Round]]]
         /\ sess'[i][r][n] = Idle
         /\ \A j, s \in Device, m \in Slot :
              <<j, s, m>> # <<i, r, n>> => sess'[j][s][m] = sess[j][s][m]
PROOF
  BY IdleType DEF EndRound, TypeOK

LEMMA RoundFields ==
  ASSUME TypeOK, NEW i \in Device, NEW r \in Device, NEW n \in Slot
  PROVE  /\ sess[i][r][n].cursor \in Cursor
         /\ sess[i][r][n].delta \in Porch
         /\ db[i] \in Porch
PROOF
<1>1. sess[i][r][n] \in Round /\ db[i] \in Porch
  BY DEF TypeOK
<1> QED BY <1>1 DEF Round

\* What the other steps do.  A delta in transit is one of a round or of a late
\* request.
InTransit(delta) ==
  \/ \E i, r \in Device, n \in Slot : delta = sess[i][r][n].delta
  \/ \E q \in late : delta = q.delta

Delivers ==
  \A e \in Device :
    \/ db'[e] = db[e]
    \/ /\ \E delta \in Porch : InTransit(delta) /\ db'[e] = Merged(db[e], delta)
       /\ ForeignKeysHold(db'[e]) /\ OnePendingPerPair(db'[e])

Forwards ==
  /\ \A i, r \in Device, n \in Slot :
       \/ sess'[i][r][n].delta = sess[i][r][n].delta
       \/ sess'[i][r][n].delta = EmptyDelta
       \/ \E e \in Device, c \in Cursor : sess'[i][r][n].delta = collect_delta(db[e], c)
  /\ \A q \in late' : InTransit(q.delta)

SyncShape ==
  /\ db' \in [Device -> Porch]
  /\ sess' \in [Device -> [Device -> [Slot -> Round]]]
  /\ late' \subseteq Request
  /\ written' = written
  /\ Delivers
  /\ Forwards

LEMMA EnterForwards ==
  ASSUME TypeOK, NEW i \in Device, NEW r \in Device, NEW n \in Slot, NEW phase \in Phase,
         NEW cursor \in Cursor, NEW delta \in Porch,
         Enter(i, r, n, phase, cursor, delta),
         \/ delta = sess[i][r][n].delta
         \/ delta = EmptyDelta
         \/ \E e \in Device, c \in Cursor : delta = collect_delta(db[e], c),
         late' = late
  PROVE  /\ sess' \in [Device -> [Device -> [Slot -> Round]]]
         /\ late' \subseteq Request
         /\ Forwards
PROOF
<1>1. /\ sess' \in [Device -> [Device -> [Slot -> Round]]]
      /\ sess'[i][r][n].delta = delta
      /\ \A j, s \in Device, m \in Slot :
           <<j, s, m>> # <<i, r, n>> => sess'[j][s][m] = sess[j][s][m]
  BY EnterType
<1>2. ASSUME NEW j \in Device, NEW s \in Device, NEW m \in Slot
      PROVE  \/ sess'[j][s][m].delta = sess[j][s][m].delta
             \/ sess'[j][s][m].delta = EmptyDelta
             \/ \E e \in Device, c \in Cursor : sess'[j][s][m].delta = collect_delta(db[e], c)
  <2>1. CASE j = i /\ s = r /\ m = n
    BY <1>1, <2>1
  <2>2. CASE ~(j = i /\ s = r /\ m = n)
    BY <1>1, <2>2
  <2> QED BY <2>1, <2>2
<1> QED BY <1>1, <1>2 DEF Forwards, InTransit, TypeOK

LEMMA EndRoundForwards ==
  ASSUME TypeOK, NEW i \in Device, NEW r \in Device, NEW n \in Slot, EndRound(i, r, n), late' = late
  PROVE  /\ sess' \in [Device -> [Device -> [Slot -> Round]]]
         /\ late' \subseteq Request
         /\ Forwards
PROOF
<1>1. EndRound(i, r, n) <=> Enter(i, r, n, "idle", ZeroCursor, EmptyDelta)
  BY DEF EndRound, Enter, Idle
<1>2. "idle" \in Phase
  BY DEF Phase
<1> QED BY <1>1, <1>2, EmptyTypes, EnterForwards

\* Applying a batch to the file of e.
LEMMA BatchDelivers ==
  ASSUME TypeOK, NEW e \in Device, NEW delta \in Porch, InTransit(delta),
         NEW o \in apply_sync_batch(db[e], delta),
         db' = [db EXCEPT ![e] = o.db]
  PROVE  /\ db' \in [Device -> Porch]
         /\ db'[e] = o.db
         /\ Delivers
PROOF
<1>1. db \in [Device -> Porch] /\ db[e] \in Porch
  BY DEF TypeOK
<1>2. /\ o.db \in Porch
      /\ \/ o.db = db[e]
         \/ /\ o.db = Merged(db[e], delta)
            /\ ForeignKeysHold(o.db) /\ OnePendingPerPair(o.db)
  BY <1>1, BatchOutcome
<1> QED BY <1>1, <1>2 DEF Delivers

LEMMA RoundStepShape ==
  ASSUME TypeOK, NEW i \in Device, NEW r \in Device, NEW n \in Slot,
         SyncStep(i, r, n) \/ Abandon(i, r, n)
  PROVE  SyncShape
PROOF
<1> USE RoundFields, EmptyTypes
<1>1. ASSUME db' = db
      PROVE  db' \in [Device -> Porch] /\ Delivers
  BY <1>1 DEF TypeOK, Delivers
<1>2. InTransit(sess[i][r][n].delta)
  BY DEF InTransit
<1>3. CASE StartSync(i, r, n)
  <2>1. local_cursor(db[i]) \in Cursor /\ "pull" \in Phase
    BY LocalCursorType DEF Phase
  <2>2. Enter(i, r, n, "pull", local_cursor(db[i]), EmptyDelta)
    BY <1>3 DEF StartSync
  <2>3. db' = db /\ late' = late /\ written' = written
    BY <1>3 DEF StartSync
  <2> QED BY <1>1, <2>1, <2>2, <2>3, EnterForwards DEF SyncShape
<1>4. CASE AssertLinked(i, r, n)
  <2>1. db' = db /\ late' = late /\ written' = written
    BY <1>4 DEF AssertLinked
  <2>2. \/ \E ph \in Phase : Enter(i, r, n, ph, sess[i][r][n].cursor, sess[i][r][n].delta)
        \/ EndRound(i, r, n)
    BY <1>4 DEF AssertLinked, Phase
  <2>3. CASE EndRound(i, r, n)
    BY <1>1, <2>1, <2>3, EndRoundForwards DEF SyncShape
  <2>4. CASE \E ph \in Phase : Enter(i, r, n, ph, sess[i][r][n].cursor, sess[i][r][n].delta)
    BY <1>1, <2>1, <2>4, EnterForwards DEF SyncShape
  <2> QED BY <2>2, <2>3, <2>4
<1>5. CASE ServePull(i, r, n)
  <2> DEFINE c == sess[i][r][n].cursor
             x == collect_delta(db[r], c)
  <2>1. c \in Cursor /\ x \in Porch /\ "pulled" \in Phase
    BY CollectDeltaType DEF Phase
  <2>2. Enter(i, r, n, "pulled", c, x)
    BY <1>5 DEF ServePull
  <2>3. db' = db /\ late' = late /\ written' = written
    BY <1>5 DEF ServePull
  <2>4. \E e \in Device, k \in Cursor : x = collect_delta(db[e], k)
    BY <2>1
  <2> HIDE DEF x, c
  <2> QED BY <1>1, <2>1, <2>2, <2>3, <2>4, EnterForwards DEF SyncShape
<1>6. CASE ApplyPulled(i, r, n)
  <2>1. PICK o \in apply_sync_batch(db[i], sess[i][r][n].delta) :
          /\ db' = [db EXCEPT ![i] = o.db]
          /\ IF o.ok THEN Enter(i, r, n, "applied", ZeroCursor, EmptyDelta)
                     ELSE EndRound(i, r, n)
    BY <1>6 DEF ApplyPulled
  <2>2. db' \in [Device -> Porch] /\ Delivers
    BY <1>2, <2>1, BatchDelivers
  <2>3. late' = late /\ written' = written
    BY <1>6 DEF ApplyPulled
  <2>4. "applied" \in Phase
    BY DEF Phase
  <2>5. CASE EndRound(i, r, n)
    BY <2>2, <2>3, <2>5, EndRoundForwards DEF SyncShape
  <2>6. CASE Enter(i, r, n, "applied", ZeroCursor, EmptyDelta)
    BY <2>2, <2>3, <2>4, <2>6, EnterForwards DEF SyncShape
  <2> QED BY <2>1, <2>5, <2>6
<1>7. CASE CollectPush(i, r, n)
  <2> DEFINE x == collect_delta(db[i], ZeroCursor)
  <2>1. x \in Porch /\ "push" \in Phase
    BY CollectDeltaType DEF Phase
  <2>2. Enter(i, r, n, "push", ZeroCursor, x)
    BY <1>7 DEF CollectPush
  <2>3. db' = db /\ late' = late /\ written' = written
    BY <1>7 DEF CollectPush
  <2>4. \E e \in Device, k \in Cursor : x = collect_delta(db[e], k)
    OBVIOUS
  <2> HIDE DEF x
  <2> QED BY <1>1, <2>1, <2>2, <2>3, <2>4, EnterForwards DEF SyncShape
<1>8. CASE ApplyPush(i, r, n)
  <2>1. PICK o \in apply_sync_batch(db[r], sess[i][r][n].delta) :
          /\ db' = [db EXCEPT ![r] = o.db]
          /\ IF o.ok THEN Enter(i, r, n, "acked", ZeroCursor, sess[i][r][n].delta)
                     ELSE EndRound(i, r, n)
    BY <1>8 DEF ApplyPush
  <2>2. db' \in [Device -> Porch] /\ Delivers
    BY <1>2, <2>1, BatchDelivers
  <2>3. late' = late /\ written' = written
    BY <1>8 DEF ApplyPush
  <2>4. "acked" \in Phase
    BY DEF Phase
  <2>5. CASE EndRound(i, r, n)
    BY <2>2, <2>3, <2>5, EndRoundForwards DEF SyncShape
  <2>6. CASE Enter(i, r, n, "acked", ZeroCursor, sess[i][r][n].delta)
    BY <2>2, <2>3, <2>4, <2>6, EnterForwards DEF SyncShape
  <2> QED BY <2>1, <2>5, <2>6
<1>9. CASE RecordSuccess(i, r, n)
  <2>1. EndRound(i, r, n) /\ db' = db /\ late' = late /\ written' = written
    BY <1>9 DEF RecordSuccess
  <2> QED BY <1>1, <2>1, EndRoundForwards DEF SyncShape
<1>10. CASE Abandon(i, r, n)
  <2>1. EndRound(i, r, n) /\ db' = db /\ written' = written
    BY <1>10 DEF Abandon
  <2>2. late' \subseteq late \cup {[from |-> i, to |-> r, delta |-> sess[i][r][n].delta]}
    BY <1>10 DEF Abandon
  <2>3. late' \subseteq Request /\ \A q \in late' : InTransit(q.delta)
    <3> DEFINE new == [from |-> i, to |-> r, delta |-> sess[i][r][n].delta]
    <3>1. new \in Request /\ InTransit(new.delta)
      BY <1>2 DEF Request
    <3>2. late \subseteq Request /\ \A q \in late : InTransit(q.delta)
      BY DEF TypeOK, InTransit
    <3>3. late' \subseteq late \cup {new}
      BY <2>2
    <3> HIDE DEF new
    <3> QED BY <3>1, <3>2, <3>3
  <2>4. /\ sess' \in [Device -> [Device -> [Slot -> Round]]]
        /\ \A j, s \in Device, m \in Slot : \/ sess'[j][s][m].delta = sess[j][s][m].delta
                                            \/ sess'[j][s][m].delta = EmptyDelta
    <3>1. Idle.delta = EmptyDelta
      BY DEF Idle
    <3>2. /\ sess' \in [Device -> [Device -> [Slot -> Round]]]
          /\ sess'[i][r][n] = Idle
          /\ \A j, s \in Device, m \in Slot :
               <<j, s, m>> # <<i, r, n>> => sess'[j][s][m] = sess[j][s][m]
      BY <2>1, EndRoundType
    <3>3. ASSUME NEW j \in Device, NEW s \in Device, NEW m \in Slot
          PROVE  \/ sess'[j][s][m].delta = sess[j][s][m].delta
                 \/ sess'[j][s][m].delta = EmptyDelta
      <4>1. CASE j = i /\ s = r /\ m = n
        BY <3>1, <3>2, <4>1
      <4>2. CASE ~(j = i /\ s = r /\ m = n)
        BY <3>2, <4>2
      <4> QED BY <4>1, <4>2
    <3> QED BY <3>2, <3>3
  <2> QED BY <1>1, <2>1, <2>3, <2>4 DEF SyncShape, Forwards
<1> QED
  BY <1>3, <1>4, <1>5, <1>6, <1>7, <1>8, <1>9, <1>10 DEF SyncStep, Proceed

LEMMA LateShape ==
  ASSUME TypeOK, NEW q \in late, HandleLate(q)
  PROVE  SyncShape
PROOF
<1>1. q.to \in Device /\ q.delta \in Porch /\ InTransit(q.delta)
  BY DEF TypeOK, Request, InTransit
<1>2. db' \in [Device -> Porch] /\ Delivers
  <2>1. CASE db' = db
    BY <2>1 DEF TypeOK, Delivers
  <2>2. CASE \E o \in apply_sync_batch(db[q.to], q.delta) :
               db' = [db EXCEPT ![q.to] = o.db]
    BY <1>1, <2>2, BatchDelivers
  <2> QED BY <2>1, <2>2 DEF HandleLate
<1>3. late' \subseteq late /\ sess' = sess /\ written' = written
  BY DEF HandleLate
<1>4. Forwards
  BY <1>3 DEF Forwards, InTransit
<1> QED BY <1>2, <1>3, <1>4 DEF SyncShape, TypeOK

LEMMA LinkShape ==
  ASSUME TypeOK, LinkStep
  PROVE  SyncShape
PROOF
<1>1. db' = db /\ sess' = sess /\ late' = late /\ written' = written
  BY DEF LinkStep, link_personal_device, unlink_device
<1> QED BY <1>1 DEF SyncShape, Delivers, Forwards, InTransit, TypeOK

LEMMA OtherShape ==
  ASSUME TypeOK, LinkStep \/ RoundStep \/ (\E q \in late : HandleLate(q))
  PROVE  SyncShape
PROOF
<1>1. CASE RoundStep
  BY <1>1, PairType, RoundStepShape DEF RoundStep
<1> QED BY <1>1, LinkShape, LateShape

\* What a step of a round does to the links, the consent, the disruptions and the
\* push cursors.
LEMMA RoundStepFrame ==
  ASSUME NEW i, NEW r, NEW n, SyncStep(i, r, n) \/ Abandon(i, r, n)
  PROVE  /\ linked' = linked /\ consent' = consent
         /\ \/ disruptions' = disruptions
            \/ disruptions < MaxDisruptions /\ disruptions' = disruptions + 1
         /\ mark' = mark \/ RecordSuccess(i, r, n)
PROOF
<1>1. CASE StartSync(i, r, n) \/ AssertLinked(i, r, n)
  BY <1>1 DEF StartSync, AssertLinked
<1>2. CASE ServePull(i, r, n) \/ ApplyPulled(i, r, n)
  BY <1>2 DEF ServePull, ApplyPulled
<1>3. CASE CollectPush(i, r, n) \/ ApplyPush(i, r, n)
  BY <1>3 DEF CollectPush, ApplyPush
<1>4. CASE RecordSuccess(i, r, n)
  BY <1>4 DEF RecordSuccess
<1>5. CASE Abandon(i, r, n)
  BY <1>5 DEF Abandon
<1> QED BY <1>1, <1>2, <1>3, <1>4, <1>5 DEF SyncStep, Proceed

LEMMA TypeStep == TypeOK /\ [Next]_vars => TypeOK'
PROOF
<1> SUFFICES ASSUME TypeOK, [Next]_vars PROVE TypeOK'
  OBVIOUS
<1>1. ASSUME NEW d \in Device, LocalWrite(d)
      PROVE  TypeOK'
  <2>1. PICK V : Fresh(d, V) /\ Commits(d, V)
    BY <1>1, LocalWriteShape
  <2> QED BY <2>1 DEF Fresh, Commits, TypeOK
<1>2. CASE LinkStep
  <2>1. SyncShape
    BY <1>2, OtherShape
  <2>2. /\ linked' \in [Device -> SUBSET Device]
        /\ mark' \in [Device -> [Device -> 0..MaxLamport]]
        /\ disruptions' \in 0..MaxDisruptions
        /\ consent' \subseteq Device \X Device
    <3>1. PICK p \in Pair :
            link_personal_device(p[1], p[2]) \/ unlink_device(p[1], p[2])
      BY <1>2 DEF LinkStep
    <3>2. p[1] \in Device /\ p[2] \in Device
      BY PairType
    <3>3. CASE link_personal_device(p[1], p[2])
      BY <3>2, <3>3 DEF link_personal_device, TypeOK
    <3>4. CASE unlink_device(p[1], p[2])
      BY <3>2, <3>4, BoundAssumption, LamportAssumption DEF unlink_device, TypeOK
    <3> QED BY <3>1, <3>3, <3>4
  <2> QED BY <2>1, <2>2 DEF SyncShape, TypeOK
<1>3. CASE RoundStep
  <2>1. SyncShape
    BY <1>3, OtherShape
  <2>2. PICK p \in Pair, n \in Slot : SyncStep(p[1], p[2], n) \/ Abandon(p[1], p[2], n)
    BY <1>3 DEF RoundStep
  <2>3. p[1] \in Device /\ p[2] \in Device
    BY PairType
  <2>4. linked' = linked /\ consent' = consent
    BY <2>2, RoundStepFrame
  <2>5. disruptions' \in 0..MaxDisruptions
    <3>1. disruptions \in 0..MaxDisruptions
      BY DEF TypeOK
    <3>2. \/ disruptions' = disruptions
          \/ disruptions < MaxDisruptions /\ disruptions' = disruptions + 1
      BY <2>2, RoundStepFrame, Zenon
    <3> QED BY <3>1, <3>2, BoundAssumption
  <2>6. mark' \in [Device -> [Device -> 0..MaxLamport]]
    <3>1. CASE RecordSuccess(p[1], p[2], n)
      <4> DEFINE m == Max({mark[p[1]][p[2]], observed_max(db[p[1]])})
      <4>1. {mark[p[1]][p[2]], observed_max(db[p[1]])} \subseteq 0..MaxLamport
        BY <2>3, ObservedMaxBounds DEF TypeOK
      <4>2. m \in 0..MaxLamport
        BY <4>1, MaxIsMaximum, LamportAssumption
      <4>3. mark' = [mark EXCEPT ![p[1]][p[2]] = m] \/ mark' = mark
        BY <3>1 DEF RecordSuccess
      <4>4. mark \in [Device -> [Device -> 0..MaxLamport]]
        BY DEF TypeOK
      <4> HIDE DEF m
      <4> QED BY <2>3, <4>2, <4>3, <4>4
    <3>2. CASE ~RecordSuccess(p[1], p[2], n)
      BY <2>2, <3>2, RoundStepFrame DEF TypeOK
    <3> QED BY <3>1, <3>2
  <2> QED BY <2>1, <2>4, <2>5, <2>6 DEF SyncShape, TypeOK
<1>4. CASE \E q \in late : HandleLate(q)
  <2>1. SyncShape
    BY <1>4, OtherShape
  <2>2. UNCHANGED <<linked, mark, disruptions, consent>>
    BY <1>4 DEF HandleLate
  <2> QED BY <2>1, <2>2 DEF SyncShape, TypeOK
<1>5. CASE UNCHANGED vars
  BY <1>5 DEF vars, TypeOK
<1> QED BY <1>1, <1>2, <1>3, <1>4, <1>5, NextCases

\* Type correctness: no operation, merge, cursor or late request leaves the
\* domain of its table column, whatever the devices, ids and bounds.
THEOREM TypeCorrect == Spec => []TypeOK
PROOF
  BY TypeInit, TypeStep, PTL DEF Spec
=============================================================================
