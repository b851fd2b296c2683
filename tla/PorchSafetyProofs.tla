-------------------------- MODULE PorchSafetyProofs --------------------------
(***************************************************************************)
(* The safety theorems of PorchSync: rows only advance, stamps identify    *)
(* versions, acknowledged pushes are covered, rows stay among devices that *)
(* consented to each other.                                                *)
(***************************************************************************)
EXTENDS PorchSyncProofs

-----------------------------------------------------------------------------
(***************************************************************************)
(* Rows only advance.                                                      *)
(***************************************************************************)

LEMMA CommitAdvances ==
  ASSUME TypeOK, NEW d \in Device, NEW V, Fresh(d, V), Commits(d, V)
  PROVE  OnlyAdvances
PROOF
<1> SUFFICES ASSUME NEW e \in Device, NEW k \in Key, db'[e][k] # db[e][k]
             PROVE  /\ db'[e][k] # NoRow
                    /\ db[e][k] # NoRow => Newer(db'[e][k], db[e][k])
  BY DEF OnlyAdvances
<1>1. e = d
  BY DEF Commits
<1>2. PICK v \in V : v.key = k
  BY <1>1 DEF Commits
<1>3. db'[d][k] = v.row /\ v.row \in Row /\ v.row.lamport > observed_max(db[d])
  BY <1>2 DEF Commits, Fresh, Version
<1>4. db[d] \in Porch
  BY DEF TypeOK
<1>5. db[d][k] # NoRow => Newer(v.row, db[d][k])
  <2> SUFFICES ASSUME db[d][k] # NoRow PROVE Newer(v.row, db[d][k])
    OBVIOUS
  <2>1. db[d][k] \in Row /\ k \in Present(db[d])
    BY <1>4 DEF Porch, Present
  <2>2. db[d][k].lamport <= observed_max(db[d]) /\ observed_max(db[d]) \in 0..MaxLamport
    BY <1>4, <2>1, ObservedMaxBounds
  <2> QED BY <1>3, <2>1, <2>2, LamportAssumption DEF Newer, Row
<1> QED BY <1>1, <1>3, <1>5, NoRowAssumption

LEMMA DeliveryAdvances ==
  ASSUME TypeOK, Delivers
  PROVE  OnlyAdvances
PROOF
<1> SUFFICES ASSUME NEW e \in Device, NEW k \in Key, db'[e][k] # db[e][k]
             PROVE  /\ db'[e][k] # NoRow
                    /\ db[e][k] # NoRow => Newer(db'[e][k], db[e][k])
  BY DEF OnlyAdvances
<1>1. PICK delta \in Porch : db'[e] = Merged(db[e], delta)
  BY DEF Delivers
<1>2. db[e] \in Porch
  BY DEF TypeOK
<1>3. \/ db'[e][k] = db[e][k]
      \/ /\ db'[e][k] \in Row
         /\ db[e][k] = NoRow \/ Newer(db'[e][k], db[e][k])
  BY <1>1, <1>2, MergedRows
<1> QED BY <1>3, NoRowAssumption

LEMMA AdvanceStep == TypeOK /\ [Next]_vars => [OnlyAdvances]_vars
PROOF
<1> SUFFICES ASSUME TypeOK, Next PROVE OnlyAdvances
  OBVIOUS
<1>1. ASSUME NEW d \in Device, LocalWrite(d)
      PROVE  OnlyAdvances
  BY <1>1, LocalWriteShape, CommitAdvances
<1>2. CASE LinkStep \/ RoundStep \/ (\E q \in late : HandleLate(q))
  BY <1>2, OtherShape, DeliveryAdvances DEF SyncShape
<1> QED BY <1>1, <1>2, NextCases

\* Last-writer-wins never goes back: whatever local writes, pulls, pushes and
\* late pushes interleave, a row at a device is replaced only by one with a newer
\* (lamport, device_id) stamp, and no row disappears.
THEOREM Advance == Spec => RowsOnlyAdvance
PROOF
  BY TypeCorrect, AdvanceStep, PTL DEF Spec, RowsOnlyAdvance

-----------------------------------------------------------------------------
(***************************************************************************)
(* Stamps identify versions.  StampIdentity is not inductive: a fresh      *)
(* stamp is new only because the author's clock covers every version it    *)
(* wrote, and the clock keeps covering them because files only advance.    *)
(***************************************************************************)

StampInv ==
  /\ TypeOK
  /\ RowsAreAuthored
  /\ ClockCoversOwnWrites
  /\ StampIdentity

LEMMA StampInit == Init => StampInv
PROOF
<1> SUFFICES ASSUME Init PROVE StampInv
  OBVIOUS
<1>1. TypeOK
  BY TypeInit
<1>2. ASSUME NEW v \in written
      PROVE  \E d \in Device : /\ v.key \in Present(db[d])
                               /\ v.row = db[d][v.key]
                               /\ v.row.device = d
                               /\ v = [key |-> v.key, row |-> db[d][v.key]]
  <2>1. PICK d \in Device : v \in Versions(open(d))
    BY <1>2 DEF Init
  <2>2. db[d] = open(d)
    BY DEF Init
  <2> QED BY <2>1, <2>2, OpenType DEF Versions
<1>3. RowsAreAuthored
  <2>1. \A d \in Device : Carried(db[d])
    BY DEF Init, Carried
  <2>2. Carried(EmptyDelta) /\ Idle.delta = EmptyDelta
    BY EmptyTypes DEF Carried, Versions, Idle
  <2> QED BY <2>1, <2>2 DEF RowsAreAuthored, Init
<1>4. ClockCoversOwnWrites
  BY <1>1, <1>2, ObservedMaxBounds DEF ClockCoversOwnWrites, TypeOK
<1>5. StampIdentity
  BY <1>2 DEF StampIdentity
<1> QED BY <1>1, <1>3, <1>4, <1>5 DEF StampInv

\* A file that only advances never lowers its clock.
LEMMA ClockMonotone ==
  ASSUME NEW rows \in Porch, NEW new \in Porch,
         \A k \in Present(rows) : /\ k \in Present(new)
                                  /\ rows[k].lamport <= new[k].lamport
  PROVE  observed_max(rows) <= observed_max(new)
PROOF
<1> DEFINE S == {0} \cup {rows[k].lamport : k \in Present(rows)}
<1>1. \A k \in Present(rows) : rows[k].lamport \in 0..MaxLamport
  BY DEF Present, Porch, Row
<1>2. S \subseteq 0..MaxLamport /\ S # {} /\ MaxLamport \in Nat
  BY <1>1, LamportAssumption
<1>3. Max(S) \in S
  <2> HIDE DEF S
  <2> QED BY <1>2, MaxIsMaximum
<1>4. observed_max(rows) = Max(S)
  BY DEF observed_max, MaxLamportOf
<1>5. /\ observed_max(new) \in 0..MaxLamport
      /\ \A k \in Present(new) : new[k].lamport <= observed_max(new)
  BY ObservedMaxBounds
<1>6. \A k \in Present(new) : new[k].lamport \in 0..MaxLamport
  BY DEF Present, Porch, Row
<1> HIDE DEF S
<1>7. Max(S) = 0 \/ \E k \in Present(rows) : Max(S) = rows[k].lamport
  BY <1>3 DEF S
<1> QED BY <1>1, <1>2, <1>4, <1>5, <1>6, <1>7

LEMMA ClockNeverFalls ==
  ASSUME TypeOK, TypeOK', OnlyAdvances, NEW d \in Device
  PROVE  observed_max(db[d]) <= observed_max(db'[d])
PROOF
<1>1. db[d] \in Porch /\ db'[d] \in Porch
  BY DEF TypeOK
<1>2. ASSUME NEW k \in Present(db[d])
      PROVE  k \in Present(db'[d]) /\ db[d][k].lamport <= db'[d][k].lamport
  <2>1. k \in Key /\ db[d][k] \in Row /\ db[d][k] # NoRow
    BY <1>1 DEF Present, Porch
  <2>2. CASE db'[d][k] = db[d][k]
    BY <1>1, <2>1, <2>2 DEF Present, Row
  <2>3. CASE db'[d][k] # db[d][k]
    <3>1. db'[d][k] # NoRow /\ Newer(db'[d][k], db[d][k])
      BY <2>1, <2>3 DEF OnlyAdvances
    <3>2. db'[d][k] \in Row
      BY <1>1, <2>1, <3>1 DEF Porch
    <3> QED BY <2>1, <3>1, <3>2 DEF Newer, Present, Row
  <2> QED BY <2>2, <2>3
<1> QED BY <1>1, <1>2, ClockMonotone
LEMMA AuthoredStep ==
  ASSUME StampInv, [Next]_vars
  PROVE  RowsAreAuthored'
PROOF
<1> USE DEF StampInv
<1>1. ASSUME NEW d \in Device, LocalWrite(d)
      PROVE  RowsAreAuthored'
  <2>1. PICK V : Fresh(d, V) /\ Commits(d, V)
    BY <1>1, LocalWriteShape
  <2>2. written \subseteq written' /\ sess' = sess /\ late' = late
    BY <2>1 DEF Commits
  <2>3. ASSUME NEW e \in Device
        PROVE  Versions(db'[e]) \subseteq written'
    <3> SUFFICES ASSUME NEW k \in Key, db'[e][k] # NoRow
                 PROVE  [key |-> k, row |-> db'[e][k]] \in written'
      BY DEF Versions, Present
    <3>1. CASE db'[e][k] = db[e][k]
      BY <2>2, <3>1 DEF RowsAreAuthored, Carried, Versions, Present
    <3>2. CASE db'[e][k] # db[e][k]
      <4>1. e = d
        BY <2>1, <3>2 DEF Commits
      <4>2. PICK v \in V : v.key = k
        BY <2>1, <3>2, <4>1 DEF Commits
      <4>3. v = [key |-> k, row |-> db'[e][k]]
        BY <2>1, <4>1, <4>2 DEF Commits, Fresh, Version
      <4> QED BY <2>1, <4>3 DEF Commits
    <3> QED BY <3>1, <3>2
  <2> QED BY <2>2, <2>3 DEF RowsAreAuthored, Carried
<1>2. ASSUME SyncShape
      PROVE  RowsAreAuthored'
  <2>1. written' = written
    BY <1>2 DEF SyncShape
  <2>2. \A delta : InTransit(delta) => Versions(delta) \subseteq written
    BY DEF InTransit, RowsAreAuthored, Carried
  <2>3. ASSUME NEW e \in Device
        PROVE  Versions(db'[e]) \subseteq written
    <3>1. CASE db'[e] = db[e]
      BY <3>1 DEF RowsAreAuthored, Carried
    <3>2. CASE \E delta \in Porch : InTransit(delta) /\ db'[e] = Merged(db[e], delta)
      <4>1. PICK delta \in Porch : InTransit(delta) /\ db'[e] = Merged(db[e], delta)
        BY <3>2
      <4>2. Versions(delta) \subseteq written /\ Versions(db[e]) \subseteq written
        BY <2>2, <4>1 DEF RowsAreAuthored, Carried
      <4>3. \A k \in Key : db'[e][k] = db[e][k] \/ db'[e][k] = delta[k]
        BY <4>1, MergedRows DEF TypeOK
      <4> QED BY <4>2, <4>3 DEF Versions, Present
    <3> QED BY <1>2, <3>1, <3>2 DEF SyncShape, Delivers
  <2>4. ASSUME NEW i \in Device, NEW r \in Device, NEW n \in Slot
        PROVE  Versions(sess'[i][r][n].delta) \subseteq written
    <3>1. CASE sess'[i][r][n].delta = sess[i][r][n].delta
      BY <3>1 DEF RowsAreAuthored, Carried
    <3>2. CASE sess'[i][r][n].delta = EmptyDelta
      BY <3>2, EmptyTypes DEF Versions
    <3>3. CASE \E e \in Device, c \in Cursor : sess'[i][r][n].delta = collect_delta(db[e], c)
      <4>1. PICK e \in Device, c \in Cursor : sess'[i][r][n].delta = collect_delta(db[e], c)
        BY <3>3
      <4>2. Versions(db[e]) \subseteq written /\ db[e] \in Porch
        BY DEF RowsAreAuthored, Carried, TypeOK
      <4>3. \A k \in Key : sess'[i][r][n].delta[k] = db[e][k] \/ sess'[i][r][n].delta[k] = NoRow
        BY <4>1, <4>2, CollectDeltaType
      <4> QED BY <4>2, <4>3 DEF Versions, Present
    <3> QED BY <1>2, <3>1, <3>2, <3>3 DEF SyncShape, Forwards
  <2>5. \A q \in late' : Versions(q.delta) \subseteq written
    BY <1>2, <2>2 DEF SyncShape, Forwards
  <2> QED BY <2>1, <2>3, <2>4, <2>5 DEF RowsAreAuthored, Carried
<1>3. CASE UNCHANGED vars
  BY <1>3 DEF vars, RowsAreAuthored, Carried
<1> QED BY <1>1, <1>2, <1>3, OtherShape, NextCases

LEMMA StampStep == StampInv /\ [Next]_vars => StampInv'
PROOF
<1> SUFFICES ASSUME StampInv, [Next]_vars PROVE StampInv'
  OBVIOUS
<1> USE DEF StampInv
<1>1. TypeOK'
  BY TypeStep
<1>2. RowsAreAuthored'
  BY AuthoredStep
<1>3. CASE UNCHANGED vars
  BY <1>1, <1>2, <1>3 DEF vars, ClockCoversOwnWrites, StampIdentity
<1>4. CASE Next
  <2>1. OnlyAdvances \/ UNCHANGED vars
    BY AdvanceStep
  <2>2. \A e \in Device : /\ observed_max(db[e]) <= observed_max(db'[e])
                          /\ observed_max(db[e]) \in 0..MaxLamport
                          /\ observed_max(db'[e]) \in 0..MaxLamport
    <3>1. \A e \in Device : db[e] \in Porch /\ db'[e] \in Porch
      BY <1>1 DEF TypeOK
    <3>2. \A e \in Device : /\ observed_max(db[e]) \in 0..MaxLamport
                            /\ observed_max(db'[e]) \in 0..MaxLamport
      BY <3>1, ObservedMaxBounds
    <3>3. CASE OnlyAdvances
      BY <1>1, <3>2, <3>3, ClockNeverFalls
    <3>4. CASE UNCHANGED vars
      BY <3>2, <3>4 DEF vars
    <3> QED BY <2>1, <3>3, <3>4
  <2>3. \A v \in written : /\ v.row.device \in Device
                           /\ v.row.lamport \in 0..MaxLamport
                           /\ v.row.lamport <= observed_max(db[v.row.device])
    BY DEF ClockCoversOwnWrites, TypeOK, Version, Row
  <2>4. \A v \in written : v.row.lamport <= observed_max(db'[v.row.device])
    BY <2>2, <2>3
  <2>5. ASSUME NEW d \in Device, LocalWrite(d)
        PROVE  ClockCoversOwnWrites' /\ StampIdentity'
    <3>1. PICK V : Fresh(d, V) /\ Commits(d, V)
      BY <2>5, LocalWriteShape
    <3>2. written' = written \cup V
      BY <3>1 DEF Commits
    <3>3. \A v \in V : /\ v.row.device = d
                       /\ v.row.lamport > observed_max(db[d])
                       /\ v.row.lamport \in 0..MaxLamport
                       /\ v.key \in Key
                       /\ v.row \in Row
      BY <3>1 DEF Fresh, Version, Row
    <3>4. \A v \in V : v.row.lamport <= observed_max(db'[d])
      <4>1. \A v \in V : db'[d][v.key] = v.row /\ v.key \in Present(db'[d])
        BY <3>1, <3>3, NoRowAssumption DEF Commits, Present
      <4>2. db'[d] \in Porch
        BY <1>1 DEF TypeOK
      <4> QED BY <4>1, <4>2, ObservedMaxBounds
    <3>5. ClockCoversOwnWrites'
      BY <2>4, <3>2, <3>3, <3>4 DEF ClockCoversOwnWrites
    <3>6. \A v \in written, w \in V :
            ~(v.row.device = w.row.device /\ v.row.lamport = w.row.lamport)
      BY <2>2, <2>3, <3>3
    <3>7. \A v, w \in V : v.key = w.key => v = w
      BY <3>1 DEF Fresh
    <3>8. StampIdentity'
      BY <3>2, <3>6, <3>7 DEF StampIdentity
    <3> QED BY <3>5, <3>8
  <2>6. CASE SyncShape
    <3>1. written' = written
      BY <2>6 DEF SyncShape
    <3> QED BY <1>1, <1>2, <2>4, <3>1 DEF ClockCoversOwnWrites, StampIdentity
  <2> QED BY <1>1, <1>2, <1>4, <2>5, <2>6, OtherShape, NextCases
<1> QED BY <1>3, <1>4

LEMMA StampInvariant == Spec => []StampInv
PROOF
  BY StampInit, StampStep, PTL DEF Spec

\* Equal (lamport, device_id) on one primary key means the same row, anywhere:
\* merge.rs may drop such a row without comparing its columns.
THEOREM StampsIdentify == Spec => []StampIdentity
PROOF
<1>1. StampInv => StampIdentity
  BY DEF StampInv
<1> QED BY <1>1, StampInvariant, PTL

\* Every row in a file, a round or a late request is a version some device
\* authored as a whole.
THEOREM Authored == Spec => []RowsAreAuthored
PROOF
<1>1. StampInv => RowsAreAuthored
  BY DEF StampInv
<1> QED BY <1>1, StampInvariant, PTL

\* No device's clock is behind a version it authored.
THEOREM ClockCovers == Spec => []ClockCoversOwnWrites
PROOF
<1>1. StampInv => ClockCoversOwnWrites
  BY DEF StampInv
<1> QED BY <1>1, StampInvariant, PTL
-----------------------------------------------------------------------------
(***************************************************************************)
(* Acknowledged pushes.                                                    *)
(***************************************************************************)

CoveredInv ==
  \A i, r \in Device, n \in Slot :
    sess[i][r][n].phase = "acked" => Covers(db[r], sess[i][r][n].delta)

LEMMA StampsAreNaturals == \A row \in Row : row.lamport \in Nat /\ row.device \in Nat
PROOF
<1> TAKE row \in Row
<1>1. row.lamport \in 0..MaxLamport /\ row.device \in Device
  BY DEF Row
<1>2. row.device \in Nat
  BY <1>1, DeviceAssumption
<1>3. row.lamport \in Nat
  BY <1>1
<1> QED BY <1>2, <1>3

LEMMA MergeCovers ==
  ASSUME NEW rows \in Porch, NEW delta \in Porch
  PROVE  Covers(Merged(rows, delta), delta)
PROOF
<1> SUFFICES ASSUME NEW k \in Present(delta)
             PROVE  /\ Merged(rows, delta)[k] # NoRow
                    /\ ~Newer(delta[k], Merged(rows, delta)[k])
  BY DEF Covers
<1>1. k \in Key /\ delta[k] # NoRow /\ delta[k] \in Row
  BY DEF Present, Porch
<1>2. CASE Applies(rows, delta, k)
  <2>1. Merged(rows, delta)[k] = delta[k]
    BY <1>1, <1>2 DEF Merged
  <2> QED BY <1>1, <2>1, StampsAreNaturals DEF Newer
<1>3. CASE ~Applies(rows, delta, k)
  <2>1. Merged(rows, delta)[k] = rows[k]
    BY <1>1, <1>3 DEF Merged
  <2>2. rows[k] # NoRow /\ rows[k] \in Row /\ ~remote_wins(delta[k], rows[k])
    BY <1>1, <1>3 DEF Applies, Porch
  <2> QED BY <1>1, <2>1, <2>2, DeviceAssumption DEF remote_wins, Newer, Row
<1> QED BY <1>2, <1>3

LEMMA AdvanceKeepsCovering ==
  ASSUME TypeOK, TypeOK', OnlyAdvances \/ UNCHANGED vars, NEW r \in Device,
         NEW delta \in Porch, Covers(db[r], delta)
  PROVE  Covers(db'[r], delta)
PROOF
<1>1. CASE UNCHANGED vars
  BY <1>1 DEF vars
<1>2. CASE OnlyAdvances
  <2> SUFFICES ASSUME NEW k \in Present(delta)
               PROVE  db'[r][k] # NoRow /\ ~Newer(delta[k], db'[r][k])
    BY DEF Covers
  <2>1. k \in Key /\ delta[k] \in Row
    BY DEF Present, Porch
  <2>2. db[r][k] # NoRow /\ ~Newer(delta[k], db[r][k]) /\ db[r][k] \in Row
    BY <2>1 DEF Covers, TypeOK, Porch
  <2>3. CASE db'[r][k] = db[r][k]
    BY <2>2, <2>3
  <2>4. CASE db'[r][k] # db[r][k]
    <3>1. db'[r][k] # NoRow /\ Newer(db'[r][k], db[r][k])
      BY <1>2, <2>1, <2>2, <2>4 DEF OnlyAdvances
    <3>2. db'[r][k] \in Row
      BY <2>1, <3>1 DEF TypeOK, Porch
    <3> QED BY <2>1, <2>2, <3>1, <3>2, StampsAreNaturals DEF Newer
  <2> QED BY <2>3, <2>4
<1> QED BY <1>1, <1>2

\* A round is acknowledged only by the step that merges its delta.
LEMMA AckedOrigin ==
  ASSUME TypeOK, [Next]_vars, NEW i \in Device, NEW r \in Device, NEW n \in Slot,
         sess'[i][r][n].phase = "acked"
  PROVE  \/ sess'[i][r][n] = sess[i][r][n]
         \/ /\ sess'[i][r][n].delta \in Porch
            /\ db'[r] = Merged(db[r], sess'[i][r][n].delta)
PROOF
<1> USE EmptyTypes
<1>1. CASE sess' = sess
  BY <1>1
<1>2. ASSUME NEW j \in Device, NEW s \in Device, NEW m \in Slot, SyncStep(j, s, m) \/ Abandon(j, s, m)
      PROVE  \/ sess'[i][r][n] = sess[i][r][n]
             \/ /\ sess'[i][r][n].delta \in Porch
                /\ db'[r] = Merged(db[r], sess'[i][r][n].delta)
  <2>1. CASE EndRound(j, s, m)
    BY <2>1, EndRoundType DEF Idle
  <2>2. ASSUME NEW ph \in Phase \ {"acked"}, NEW c \in Cursor, NEW x \in Porch,
               Enter(j, s, m, ph, c, x)
        PROVE  sess'[i][r][n] = sess[i][r][n]
    BY <2>2, EnterType
  <2>3. CASE StartSync(j, s, m)
    BY <2>2, <2>3, RoundFields, LocalCursorType DEF StartSync, Phase
  <2>4. CASE AssertLinked(j, s, m)
    BY <2>1, <2>2, <2>4, RoundFields DEF AssertLinked, Phase
  <2>5. CASE ServePull(j, s, m)
    BY <2>2, <2>5, RoundFields, CollectDeltaType DEF ServePull, Phase
  <2>6. CASE ApplyPulled(j, s, m)
    BY <2>1, <2>2, <2>6 DEF ApplyPulled, Phase
  <2>7. CASE CollectPush(j, s, m)
    BY <2>2, <2>7, RoundFields, CollectDeltaType DEF CollectPush, Phase
  <2>8. CASE ApplyPush(j, s, m)
    <3> DEFINE x == sess[j][s][m].delta
    <3>1. PICK o \in apply_sync_batch(db[s], x) :
            /\ db' = [db EXCEPT ![s] = o.db]
            /\ IF o.ok THEN Enter(j, s, m, "acked", ZeroCursor, x) ELSE EndRound(j, s, m)
      BY <2>8 DEF ApplyPush
    <3>2. x \in Porch /\ db[s] \in Porch /\ db \in [Device -> Porch]
      BY RoundFields DEF TypeOK
    <3>3. CASE o.ok
      <4>1. Enter(j, s, m, "acked", ZeroCursor, x) /\ "acked" \in Phase
        BY <3>1, <3>3 DEF Phase
      <4>2. /\ sess'[j][s][m].delta = x
            /\ \A a, b \in Device, k \in Slot :
                 <<a, b, k>> # <<j, s, m>> => sess'[a][b][k] = sess[a][b][k]
        BY <3>2, <4>1, EnterType
      <4>3. db'[s] = Merged(db[s], x)
        BY <3>1, <3>2, <3>3, BatchOutcome
      <4>4. CASE i = j /\ r = s /\ n = m
        BY <3>2, <4>2, <4>3, <4>4
      <4>5. CASE ~(i = j /\ r = s /\ n = m)
        BY <4>2, <4>5
      <4> QED BY <4>4, <4>5
    <3>4. CASE ~o.ok
      BY <2>1, <3>1, <3>4
    <3> QED BY <3>3, <3>4
  <2>9. CASE RecordSuccess(j, s, m)
    BY <2>1, <2>9 DEF RecordSuccess
  <2>10. CASE Abandon(j, s, m)
    BY <2>1, <2>10 DEF Abandon
  <2> QED BY <1>2, <2>3, <2>4, <2>5, <2>6, <2>7, <2>8, <2>9, <2>10 DEF SyncStep, Proceed
<1>3. ASSUME NEW d \in Device, LocalWrite(d)
      PROVE  sess' = sess
  BY <1>3, LocalWriteShape DEF Commits
<1>4. CASE LinkStep
  BY <1>1, <1>4 DEF LinkStep, link_personal_device, unlink_device
<1>5. CASE RoundStep
  BY <1>2, <1>5, PairType DEF RoundStep
<1>6. CASE \E q \in late : HandleLate(q)
  BY <1>1, <1>6 DEF HandleLate
<1>7. CASE UNCHANGED vars
  BY <1>1, <1>7 DEF vars
<1> QED BY <1>1, <1>3, <1>4, <1>5, <1>6, <1>7, NextCases

\* Once the responder has acknowledged a push, it holds every pushed row or a
\* newer one, for as long as the initiator has not recorded the success.
THEOREM AckedPushes == Spec => []AckedPushIsCovered
PROOF
<1>1. Init => CoveredInv
  BY DEF Init, CoveredInv, Idle
<1>2. TypeOK /\ TypeOK' /\ CoveredInv /\ [Next]_vars => CoveredInv'
  <2> SUFFICES ASSUME TypeOK, TypeOK', CoveredInv, [Next]_vars,
                      NEW i \in Device, NEW r \in Device, NEW n \in Slot,
                      sess'[i][r][n].phase = "acked"
               PROVE  Covers(db'[r], sess'[i][r][n].delta)
    BY DEF CoveredInv
  <2>1. db[r] \in Porch
    BY DEF TypeOK
  <2>2. CASE sess'[i][r][n] = sess[i][r][n]
    BY <2>2, AdvanceStep, AdvanceKeepsCovering, RoundFields DEF CoveredInv
  <2>3. CASE /\ sess'[i][r][n].delta \in Porch
             /\ db'[r] = Merged(db[r], sess'[i][r][n].delta)
    BY <2>1, <2>3, MergeCovers
  <2> QED BY <2>2, <2>3, AckedOrigin
<1>3. CoveredInv => AckedPushIsCovered
  BY PairType DEF CoveredInv, AckedPushIsCovered
<1> QED BY <1>1, <1>2, <1>3, TypeCorrect, PTL DEF Spec

-----------------------------------------------------------------------------
(***************************************************************************)
(* PorchSync implements LwwReplicas.  A local write maps to Author, which  *)
(* needs StampInv: the new stamp is later than every stamp of its device,  *)
(* not only than those in its file.  All other steps map to Deliver or to  *)
(* a stutter.                                                              *)
(***************************************************************************)

LEMMA RefineInit == Init => Lww!Init
PROOF
<1> SUFFICES ASSUME Init PROVE Lww!Init
  OBVIOUS
<1>1. \A d \in Device : db[d] = open(d)
  BY DEF Init
<1>2. \A d \in Device, k \in Key : db[d][k] # NoRow => db[d][k].device = d
  BY <1>1, OpenType DEF Present
<1>3. ASSUME NEW d \in Device
      PROVE  Versions(open(d)) = {Lww!Version(k, db[d][k]) : k \in {j \in Key : db[d][j] # NoRow}}
  BY <1>1 DEF Versions, Present, Lww!Version
<1>4. written = UNION {Versions(open(d)) : d \in Device}
  BY DEF Init
<1>5. written = UNION {{Lww!Version(k, db[r][k]) : k \in {j \in Key : db[r][j] # NoRow}} : r \in Device}
  BY <1>3, <1>4
<1> QED BY <1>2, <1>5 DEF Lww!Init

\* A local write is an Author step of its device.
LEMMA RefineWrite ==
  ASSUME StampInv, NEW d \in Device, NEW V, Fresh(d, V), Commits(d, V)
  PROVE  Lww!Author(d)
PROOF
<1> DEFINE new == written' \ written
<1>1. new \subseteq V /\ written \subseteq written'
  BY DEF Commits
<1>2. \A v \in V : v \in Version /\ v.row.device = d /\ v.row.lamport > observed_max(db[d])
  BY DEF Fresh
<1>3. ASSUME NEW v \in V, NEW w \in written, w.row.device = d
      PROVE  v.row.lamport > w.row.lamport
  <2>1. w.row.lamport <= observed_max(db[d])
    BY <1>3 DEF StampInv, ClockCoversOwnWrites
  <2>2. observed_max(db[d]) \in 0..MaxLamport
    BY ObservedMaxBounds DEF StampInv, TypeOK
  <2>3. v.row.lamport \in 0..MaxLamport /\ w.row.lamport \in 0..MaxLamport
    BY <1>2, <1>3 DEF StampInv, TypeOK, Version, Row
  <2> QED BY <1>2, <2>1, <2>2, <2>3
<1>4. V \cap written = {}
  <2> SUFFICES ASSUME NEW v \in V, v \in written PROVE FALSE
    OBVIOUS
  <2>1. v.row.lamport \in 0..MaxLamport
    BY <1>2 DEF Version, Row
  <2> QED BY <1>2, <1>3, <2>1
<1>5. new = V
  BY <1>4 DEF Commits
<1>6. /\ \A v \in V : db'[d][v.key] = v.row
      /\ \A k \in Key : (\A v \in V : v.key # k) => db'[d][k] = db[d][k]
      /\ \A e \in Device \ {d} : db'[e] = db[e]
  BY DEF Commits
<1>7. \A v, w \in V : v.key = w.key => v = w
  BY DEF Fresh
<1> HIDE DEF new
<1> QED BY <1>1, <1>2, <1>3, <1>5, <1>6, <1>7 DEF Lww!Author, new

\* Every step of a round, and a late push, only delivers.
LEMMA RefineDelivery ==
  ASSUME StampInv, SyncShape
  PROVE  Lww!Deliver
PROOF
<1>1. written' = written
  BY DEF SyncShape
<1>2. ASSUME NEW e \in Device, NEW k \in Key, db'[e][k] # db[e][k]
      PROVE  /\ Lww!Version(k, db'[e][k]) \in written
             /\ db[e][k] # NoRow => Lww!Later(db'[e][k], db[e][k])
  <2>1. PICK delta \in Porch : InTransit(delta) /\ db'[e] = Merged(db[e], delta)
    BY <1>2 DEF SyncShape, Delivers
  <2>2. Versions(delta) \subseteq written
    BY <2>1 DEF InTransit, StampInv, RowsAreAuthored, Carried
  <2>3. /\ db'[e][k] = delta[k] /\ delta[k] \in Row
        /\ db[e][k] = NoRow \/ Newer(delta[k], db[e][k])
    BY <1>2, <2>1, MergedRows DEF StampInv, TypeOK
  <2>4. [key |-> k, row |-> delta[k]] \in written
    BY <2>2, <2>3, NoRowAssumption DEF Versions, Present
  <2> QED BY <2>3, <2>4 DEF Lww!Version, Lww!Later, Newer
<1> QED BY <1>1, <1>2 DEF Lww!Deliver

LEMMA RefineStep == StampInv /\ [Next]_vars => [Lww!Next]_(Lww!lwwVars)
PROOF
<1> SUFFICES ASSUME StampInv, [Next]_vars PROVE [Lww!Next]_(Lww!lwwVars)
  OBVIOUS
<1>1. ASSUME NEW d \in Device, LocalWrite(d)
      PROVE  Lww!Next
  <2>1. PICK V : Fresh(d, V) /\ Commits(d, V)
    BY <1>1, LocalWriteShape DEF StampInv
  <2> QED BY <2>1, RefineWrite DEF Lww!Next
<1>2. CASE LinkStep \/ RoundStep \/ (\E q \in late : HandleLate(q))
  BY <1>2, OtherShape, RefineDelivery DEF Lww!Next, StampInv
<1>3. CASE UNCHANGED vars
  BY <1>3 DEF vars, Lww!lwwVars
<1> QED BY <1>1, <1>2, <1>3, NextCases

\* The porches of a user's devices are last-writer-wins replicas: any number of
\* devices, rows and rounds, with links that come and go, lost answers and late
\* pushes, only ever authors later versions and delivers whole ones.
THEOREM Refinement == Spec => ImplementsLwwReplicas
PROOF
<1>1. Spec => Lww!Init /\ [][Lww!Next]_(Lww!lwwVars)
  BY RefineInit, RefineStep, StampInvariant, PTL DEF Spec
<1> QED BY <1>1 DEF ImplementsLwwReplicas, Lww!Spec

-----------------------------------------------------------------------------
(***************************************************************************)
(* Files stay consistent, and verdicts on knocks are final.                *)
(***************************************************************************)

\* What a local write respects: a row goes under a channel that is there; a
\* knock is minted pending when its pair has none pending, or is taken from
\* pending to a verdict; and one knock at a time.
Changes(d, k) == db'[d][k] # db[d][k]
MintsKnock(d, k) ==
  /\ \A j \in Knocks : Pending(db[d], j) => ~SamePair(j, k)
  /\ \A v \in written : v.key # k
Judges(d, k) == Pending(db[d], k) /\ ~Pending(db'[d], k)

Respects(d) ==
  /\ \A k \in Key : Changes(d, k) => k.tab = "channels" \/ get_channel(d, k.chan)
  /\ \A k \in Knocks : Changes(d, k) => MintsKnock(d, k) \/ Judges(d, k)
  /\ \A j, k \in Knocks : Changes(d, j) /\ Changes(d, k) => j = k

LEMMA AuthorChanges ==
  ASSUME TypeOK, NEW d \in Device, NEW k \in Key, NEW row, Author(d, k, row)
  PROVE  /\ \A j \in Key : Changes(d, j) => j = k
         /\ db'[d][k] = row
PROOF
<1>1. db' = [db EXCEPT ![d][k] = row]
  BY DEF Author
<1> QED BY <1>1 DEF TypeOK, Porch, Changes

\* A write to a table other than the knocks, under a channel that is there.
LEMMA PlainWriteRespects ==
  ASSUME TypeOK, NEW d \in Device, NEW k \in Key \ Knocks, NEW row,
         Author(d, k, row), k.tab = "channels" \/ get_channel(d, k.chan)
  PROVE  Respects(d)
PROOF
<1>1. \A j \in Key : Changes(d, j) => j = k
  BY AuthorChanges
<1> QED BY <1>1 DEF Respects, Knocks

LEMMA KnockRespects ==
  ASSUME TypeOK, NEW d \in Device, NEW c \in Channel, NEW p \in Knocker,
         NEW n \in KnockId, knock(d, c, p, n)
  PROVE  Respects(d)
PROOF
<1> DEFINE k == KnockKey(c, p, n)
<1>1. k \in Knocks /\ k \in Key /\ k.chan = c /\ k.tab = "knocks" /\ k.id = n
  BY KeyFacts DEF Peer, Knocks, KnockKey, PrimaryKey
<1>2. /\ get_channel(d, c)
      /\ \A j \in Knocks : Pending(db[d], j) => ~SamePair(j, k)
      /\ ~Minted("knocks", n)
      /\ Author(d, k, Stamped(d, next_lamport(db[d]), FALSE, "pending"))
  BY DEF knock, Mints, Write
<1>3. MintsKnock(d, k)
  BY <1>1, <1>2 DEF MintsKnock, Minted
<1> HIDE DEF k
<1>4. \A j \in Key : Changes(d, j) => j = k
  BY <1>1, <1>2, AuthorChanges
<1> QED BY <1>1, <1>2, <1>3, <1>4 DEF Respects, Knocks

\* The channel of a stored knock is stored.
LEMMA StoredUnderChannel ==
  ASSUME NEW d \in Device, ForeignKeysHold(db[d]), NEW k \in Key, db[d][k] # NoRow
  PROVE  get_channel(d, k.chan)
PROOF
  BY DEF ForeignKeysHold, Present, get_channel

LEMMA VerdictRespects ==
  ASSUME TypeOK, NEW d \in Device, ForeignKeysHold(db[d]), NEW k \in Knocks,
         NEW status \in KnockStatus \ {"pending"}, ResolveKnock(d, k, status)
  PROVE  Respects(d)
PROOF
<1> DEFINE row == Stamped(d, next_lamport(db[d]), db[d][k].tomb, status)
<1>1. k \in Key /\ row.val = status
  BY DEF Knocks, Stamped
<1>2. Pending(db[d], k) /\ Author(d, k, row)
  BY DEF ResolveKnock
<1>3. get_channel(d, k.chan)
  BY <1>1, <1>2, StoredUnderChannel DEF Pending
<1> HIDE DEF row
<1>4. (\A j \in Key : Changes(d, j) => j = k) /\ db'[d][k] = row
  BY <1>1, <1>2, AuthorChanges
<1>5. Judges(d, k)
  BY <1>1, <1>2, <1>4 DEF Judges, Pending
<1> QED BY <1>3, <1>4, <1>5 DEF Respects, Knocks

LEMMA AcceptRespects ==
  ASSUME TypeOK, NEW d \in Device, ForeignKeysHold(db[d]), NEW k \in Knocks,
         accept_knock(d, k)
  PROVE  Respects(d)
PROOF
<1> DEFINE l == next_lamport(db[d])
           a == AclKey(k.chan, k.peer)
           kv == Stamped(d, l, db[d][k].tomb, "accepted")
           av == Stamped(d, l + 1, FALSE, "member")
<1>1. k \in Key /\ a \in Key /\ a \notin Knocks /\ a.chan = k.chan /\ kv.val = "accepted"
  BY KeyFacts, KeyColumns DEF Knocks, AclKey, PrimaryKey, Stamped
<1>2. Pending(db[d], k) /\ db' = [db EXCEPT ![d] = [@ EXCEPT ![k] = kv, ![a] = av]]
  BY DEF accept_knock
<1>3. get_channel(d, k.chan)
  BY <1>1, <1>2, StoredUnderChannel DEF Pending
<1> HIDE DEF l, a, kv, av
<1>4. a # k
  BY <1>1
<1>5. (\A j \in Key : Changes(d, j) => j = k \/ j = a) /\ db'[d][k] = kv
  BY <1>1, <1>2, <1>4 DEF TypeOK, Porch, Changes
<1>6. Judges(d, k)
  BY <1>1, <1>2, <1>5 DEF Judges, Pending
<1>7. \A j \in Knocks : Changes(d, j) => j = k
  BY <1>1, <1>5 DEF Knocks
<1>8. \A j \in Key : Changes(d, j) => get_channel(d, j.chan)
  BY <1>1, <1>3, <1>5
<1> QED BY <1>6, <1>7, <1>8 DEF Respects

LEMMA LocalWriteRespects ==
  ASSUME TypeOK, NEW d \in Device, ForeignKeysHold(db[d]), LocalWrite(d)
  PROVE  Respects(d)
PROOF
<1> USE KeyFacts, PlainWriteRespects
<1>1. ASSUME NEW c \in Channel, NEW mode \in CreateMode, insert_channel(d, c, mode)
      PROVE  Respects(d)
  <2>1. ChannelKey(c) \notin Knocks /\ ChannelKey(c).tab = "channels"
    BY DEF ChannelKey, PrimaryKey, Knocks
  <2> QED BY <1>1, <2>1 DEF insert_channel, Write
<1>2. ASSUME NEW c \in Channel, NEW m \in MessageId, post_message(d, c, m)
      PROVE  Respects(d)
  <2>1. MessageKey(c, m) \notin Knocks /\ MessageKey(c, m).chan = c
    BY DEF MessageKey, PrimaryKey, Knocks
  <2> QED BY <1>2, <2>1 DEF post_message, Write
<1>3. ASSUME NEW c \in Channel, NEW a \in AssetId, upload_asset(d, c, a)
      PROVE  Respects(d)
  <2>1. AssetKey(c, a) \notin Knocks /\ AssetKey(c, a).chan = c
    BY DEF AssetKey, PrimaryKey, Knocks
  <2> QED BY <1>3, <2>1 DEF upload_asset, Write
<1>4. ASSUME NEW c \in Channel, NEW x \in Theme, set_theme(d, c, x)
      PROVE  Respects(d)
  <2>1. ThemeKey(c) \notin Knocks /\ ThemeKey(c).chan = c
    BY DEF ThemeKey, PrimaryKey, Knocks
  <2> QED BY <1>4, <2>1 DEF set_theme, Write
<1>5. ASSUME NEW c \in Channel, NEW x \in Vault, set_obsidian_config(d, c, x)
      PROVE  Respects(d)
  <2>1. ObsidianKey(c) \notin Knocks /\ ObsidianKey(c).chan = c
    BY DEF ObsidianKey, PrimaryKey, Knocks
  <2> QED BY <1>5, <2>1 DEF set_obsidian_config, Write
<1>6. ASSUME NEW c \in Channel, NEW p \in Grantee,
             grant_acl(d, c, p) \/ revoke_acl(d, c, p)
      PROVE  Respects(d)
  <2>1. AclKey(c, p) \in Key \ Knocks /\ AclKey(c, p).chan = c
    BY DEF AclKey, PrimaryKey, Knocks, Peer
  <2>2. CASE grant_acl(d, c, p)
    BY <2>1, <2>2 DEF grant_acl, Write
  <2>3. CASE revoke_acl(d, c, p)
    <3>1. get_channel(d, c)
      BY <2>1, <2>3, StoredUnderChannel DEF revoke_acl
    <3> QED BY <2>1, <2>3, <3>1 DEF revoke_acl
  <2> QED BY <1>6, <2>2, <2>3
<1>7. ASSUME NEW k \in Knocks, reject_knock(d, k) \/ withdraw_knock(d, k)
      PROVE  Respects(d)
  BY <1>7, VerdictRespects DEF reject_knock, withdraw_knock, KnockStatus
<1> QED
  BY <1>1, <1>2, <1>3, <1>4, <1>5, <1>6, <1>7, KnockRespects, AcceptRespects
     DEF LocalWrite

LEMMA ConsistentInit == Init => FilesAreConsistent
PROOF
<1> SUFFICES ASSUME Init, NEW d \in Device
             PROVE  ForeignKeysHold(db[d]) /\ OnePendingPerPair(db[d])
  BY DEF FilesAreConsistent
<1>1. db[d] = open(d)
  BY DEF Init
<1>2. CASE Legacy[d] = {}
  <2>1. \A k \in Key : db[d][k] # NoRow => k = ChannelKey(DefaultChannel)
    <3>1. db[d] = [EmptyDelta EXCEPT ![ChannelKey(DefaultChannel)] = Stamped(d, 1, FALSE, "open")]
      BY <1>1, <1>2 DEF open, ensure_default_channel
    <3>2. EmptyDelta \in [Key -> {NoRow}]
      BY DEF EmptyDelta
    <3> QED BY <3>1, <3>2
  <2>2. ChannelKey(DefaultChannel).chan = DefaultChannel /\ ChannelKey(DefaultChannel) \notin Knocks
    BY DEF ChannelKey, PrimaryKey, Knocks
  <2>3. db[d][ChannelKey(DefaultChannel)] # NoRow \/ Present(db[d]) = {}
    BY <2>1 DEF Present
  <2>4. ForeignKeysHold(db[d])
    BY <2>1, <2>2, <2>3 DEF ForeignKeysHold, Present
  <2>5. OnePendingPerPair(db[d])
    BY <2>1, <2>2 DEF OnePendingPerPair, Pending, Knocks
  <2> QED BY <2>4, <2>5
<1>3. CASE Legacy[d] # {}
  <2>1. /\ Legacy[d] \subseteq Key
        /\ \A k \in Legacy[d] : ChannelKey(k.chan) \in Legacy[d] /\ k \notin Knocks
    BY <1>3, LegacyAssumption DEF Knocks
  <2>2. \A k \in Key : db[d][k] # NoRow <=> k \in Legacy[d]
    <3>1. \A k \in Legacy[d] : LegacyValue(k) \in Value
      BY <1>3, LegacyAssumption DEF LegacyValue, Value, AclMode
    <3>2. 0 \in 0..MaxLamport
      BY LamportAssumption
    <3>3. \A k \in Legacy[d] : Stamped(d, 0, FALSE, LegacyValue(k)) \in Row
      BY <3>1, <3>2 DEF Stamped, Row
    <3>4. \A k \in Legacy[d] : Stamped(d, 0, FALSE, LegacyValue(k)) # NoRow
      BY <3>3, NoRowAssumption
    <3> QED BY <1>1, <1>3, <3>4 DEF open, migrate_v6
  <2>3. ForeignKeysHold(db[d])
    BY <2>1, <2>2 DEF ForeignKeysHold, Present
  <2>4. \A k \in Knocks : ~Pending(db[d], k)
    BY <2>1, <2>2 DEF Pending, Knocks
  <2> QED BY <2>3, <2>4 DEF OnePendingPerPair
<1> QED BY <1>2, <1>3

\* A channel's row is its own parent.
LEMMA ChannelsAreTheirOwnParent ==
  ASSUME NEW k \in Key, k.tab = "channels"
  PROVE  k = ChannelKey(k.chan)
PROOF
  BY DEF Key, ChannelKey, MessageKey, AclKey, KnockKey, ThemeKey, AssetKey, ObsidianKey,
         PrimaryKey

LEMMA LocalWriteKeepsConsistent ==
  ASSUME TypeOK, OnlyAdvances, NEW d \in Device, Respects(d),
         ForeignKeysHold(db[d]), OnePendingPerPair(db[d])
  PROVE  ForeignKeysHold(db'[d]) /\ OnePendingPerPair(db'[d])
PROOF
<1>1. \A k \in Key : db[d][k] # NoRow => db'[d][k] # NoRow
  BY DEF OnlyAdvances
<1>2. ASSUME NEW k \in Key, db'[d][k] # NoRow
      PROVE  db'[d][ChannelKey(k.chan)] # NoRow
  <2>1. k.chan \in Channel /\ ChannelKey(k.chan) \in Key
    BY KeyColumns, KeyFacts
  <2>2. CASE db'[d][k] = db[d][k]
    BY <1>1, <1>2, <2>1, <2>2 DEF ForeignKeysHold, Present
  <2>3. CASE Changes(d, k) /\ k.tab = "channels"
    BY <1>2, <2>3, ChannelsAreTheirOwnParent
  <2>4. CASE get_channel(d, k.chan)
    BY <1>1, <2>1, <2>4 DEF get_channel
  <2> QED BY <2>2, <2>3, <2>4 DEF Respects, Changes
<1>3. ASSUME NEW j \in Knocks, NEW k \in Knocks, Pending(db'[d], j), Pending(db'[d], k),
             SamePair(j, k), Changes(d, j)
      PROVE  j = k
  <2>1. CASE Changes(d, k)
    BY <1>3, <2>1 DEF Respects
  <2>2. CASE ~Changes(d, k)
    <3>1. Pending(db[d], k)
      BY <1>3, <2>2 DEF Pending, Changes
    <3>2. SamePair(k, j)
      BY <1>3 DEF SamePair
    <3> QED BY <1>3, <3>1, <3>2 DEF Respects, MintsKnock, Judges
  <2> QED BY <2>1, <2>2
<1>4. ASSUME NEW j \in Knocks, NEW k \in Knocks, Pending(db'[d], j), Pending(db'[d], k),
             SamePair(j, k)
      PROVE  j = k
  <2>1. CASE Changes(d, j)
    BY <1>3, <1>4, <2>1
  <2>2. CASE Changes(d, k)
    BY <1>3, <1>4, <2>2 DEF SamePair
  <2>3. CASE ~Changes(d, j) /\ ~Changes(d, k)
    BY <1>4, <2>3 DEF Changes, Pending, OnePendingPerPair
  <2> QED BY <2>1, <2>2, <2>3
<1>5. ForeignKeysHold(db'[d])
  BY <1>2 DEF ForeignKeysHold, Present
<1> QED BY <1>4, <1>5 DEF OnePendingPerPair

LEMMA ConsistentStep ==
  TypeOK /\ FilesAreConsistent /\ [Next]_vars => FilesAreConsistent'
PROOF
<1> SUFFICES ASSUME TypeOK, FilesAreConsistent, [Next]_vars PROVE FilesAreConsistent'
  OBVIOUS
<1>1. ASSUME NEW d \in Device, LocalWrite(d)
      PROVE  FilesAreConsistent'
  <2>1. PICK V : Fresh(d, V) /\ Commits(d, V)
    BY <1>1, LocalWriteShape
  <2>2. \A e \in Device \ {d} : db'[e] = db[e]
    BY <2>1 DEF Commits
  <2>3. OnlyAdvances
    BY <2>1, CommitAdvances
  <2>4. ForeignKeysHold(db[d]) /\ OnePendingPerPair(db[d])
    BY DEF FilesAreConsistent
  <2>5. Respects(d)
    BY <1>1, <2>4, LocalWriteRespects
  <2>6. ForeignKeysHold(db'[d]) /\ OnePendingPerPair(db'[d])
    BY <2>3, <2>4, <2>5, LocalWriteKeepsConsistent
  <2> QED BY <2>2, <2>6 DEF FilesAreConsistent
<1>2. CASE SyncShape
  BY <1>2 DEF SyncShape, Delivers, FilesAreConsistent
<1>3. CASE UNCHANGED vars
  BY <1>3 DEF vars, FilesAreConsistent
<1> QED BY <1>1, <1>2, <1>3, OtherShape, NextCases

\* No sequence of local writes, pulls, pushes and late pushes leaves a file that
\* breaks its own schema: every row has its channel, and a (channel, knocker)
\* pair has one pending knock.
THEOREM Consistent == Spec => []FilesAreConsistent
PROOF
  BY TypeCorrect, ConsistentInit, ConsistentStep, PTL DEF Spec

\* A verdict on a knock is newer than the knock, among all versions ever
\* authored: a knock is minted once, with an id no row had, and a verdict is
\* stamped at a device that holds it pending.
VerdictBeatsKnock ==
  \A v, w \in written :
    v.key = w.key /\ v.key \in Knocks /\ v.row.val = "pending" /\ v # w =>
      w.row.val # "pending" /\ w.row.lamport > v.row.lamport

KnockInv == StampInv /\ FilesAreConsistent /\ VerdictBeatsKnock

LEMMA KnockInit == Init => KnockInv
PROOF
<1> SUFFICES ASSUME Init PROVE KnockInv
  OBVIOUS
<1>1. ASSUME NEW d \in Device, NEW k \in Knocks
      PROVE  open(d)[k] = NoRow
  <2>1. k \in Key /\ k \notin Legacy[d] /\ k # ChannelKey(DefaultChannel)
    <3>1. k \in Key /\ k.tab = "knocks"
      BY DEF Knocks
    <3>2. ChannelKey(DefaultChannel).tab = "channels"
      BY DEF ChannelKey, PrimaryKey
    <3>3. \A j \in Legacy[d] : j.tab \in {"channels", "messages", "acl"}
      BY LegacyAssumption
    <3> QED BY <3>1, <3>2, <3>3
  <2>2. migrate_v6(d)[k] = NoRow
    BY <2>1 DEF migrate_v6
  <2>3. EmptyDelta \in [Key -> {NoRow}]
    BY DEF EmptyDelta
  <2>4. ensure_default_channel(d)[k] = NoRow
    BY <2>1, <2>3 DEF ensure_default_channel
  <2> QED BY <2>2, <2>4 DEF open
<1>2. \A v \in written : v.key \notin Knocks
  BY <1>1 DEF Init, Versions, Present
<1> QED BY <1>2, StampInit, ConsistentInit DEF KnockInv, VerdictBeatsKnock

\* The versions a local write adds are those of the rows it changed.
LEMMA NewVersions ==
  ASSUME TypeOK, NEW d \in Device, NEW V, Fresh(d, V), Commits(d, V), NEW v \in V
  PROVE  /\ v.key \in Key /\ db'[d][v.key] = v.row /\ Changes(d, v.key)
         /\ v = [key |-> v.key, row |-> v.row]
         /\ v.row \in Row /\ v.row.lamport > observed_max(db[d])
PROOF
<1>1. v \in Version /\ v.row.lamport > observed_max(db[d])
  BY DEF Fresh
<1>2. v.key \in Key /\ v.row \in Row /\ v = [key |-> v.key, row |-> v.row]
  BY <1>1 DEF Version
<1>3. db'[d][v.key] = v.row
  BY DEF Commits
<1>4. ASSUME db[d][v.key] = v.row
      PROVE  FALSE
  <2>1. v.key \in Present(db[d]) /\ db[d] \in Porch
    BY <1>2, <1>4, NoRowAssumption DEF Present, TypeOK
  <2>2. v.row.lamport <= observed_max(db[d]) /\ observed_max(db[d]) \in 0..MaxLamport
    BY <1>4, <2>1, ObservedMaxBounds
  <2>3. v.row.lamport \in 0..MaxLamport
    BY <1>2 DEF Row
  <2> QED BY <1>1, <2>2, <2>3
<1> QED BY <1>1, <1>2, <1>3, <1>4 DEF Changes

\* A stored row is a version.
LEMMA StoredIsWritten ==
  ASSUME StampInv, NEW d \in Device, NEW k \in Key, db[d][k] # NoRow
  PROVE  /\ [key |-> k, row |-> db[d][k]] \in written
         /\ db[d][k] \in Row
         /\ db[d][k].lamport <= observed_max(db[d])
PROOF
<1>1. db[d] \in Porch /\ k \in Present(db[d])
  BY DEF StampInv, TypeOK, Present
<1>2. Versions(db[d]) \subseteq written
  BY DEF StampInv, RowsAreAuthored, Carried
<1> QED BY <1>1, <1>2, ObservedMaxBounds DEF Versions, Porch

LEMMA VerdictsStayNewer ==
  ASSUME KnockInv, NEW d \in Device, LocalWrite(d)
  PROVE  VerdictBeatsKnock'
PROOF
<1>1. StampInv /\ TypeOK /\ ForeignKeysHold(db[d]) /\ VerdictBeatsKnock
  BY DEF KnockInv, StampInv, FilesAreConsistent
<1>2. PICK V : Fresh(d, V) /\ Commits(d, V)
  BY <1>1, LocalWriteShape
<1>3. Respects(d) /\ written' = written \cup V
  BY <1>1, <1>2, LocalWriteRespects DEF Commits
<1>4. ASSUME NEW v \in V, v.key \in Knocks
      PROVE  \/ \A w \in written : w.key # v.key
             \/ v.row.val # "pending" /\ Pending(db[d], v.key)
  <2>1. /\ v.key \in Key /\ db'[d][v.key] = v.row /\ Changes(d, v.key)
        /\ v.row \in Row
    BY <1>1, <1>2, NewVersions
  <2>2. MintsKnock(d, v.key) \/ Judges(d, v.key)
    BY <1>3, <1>4, <2>1 DEF Respects
  <2>3. v.row # NoRow
    BY <2>1, NoRowAssumption
  <2>4. CASE MintsKnock(d, v.key)
    BY <2>4 DEF MintsKnock
  <2>5. CASE Judges(d, v.key)
    BY <2>1, <2>3, <2>5 DEF Judges, Pending
  <2> QED BY <2>2, <2>4, <2>5
<1>5. \A v, w \in V : v.key = w.key => v = w
  BY <1>2 DEF Fresh
\* A verdict is stamped above the knock it judges, the only pending version.
<1>6. ASSUME NEW v \in written, NEW w \in V, v.key = w.key, v.key \in Knocks,
             v.row.val = "pending"
      PROVE  w.row.val # "pending" /\ w.row.lamport > v.row.lamport
  <2> DEFINE u == [key |-> v.key, row |-> db[d][v.key]]
  <2>1. w.row.val # "pending" /\ Pending(db[d], v.key)
    BY <1>4, <1>6
  <2>2. /\ v.key \in Key
        /\ w.row \in Row /\ w.row.lamport > observed_max(db[d])
    BY <1>1, <1>2, <1>6, NewVersions
  <2>3. /\ u \in written /\ u.key = v.key /\ u.row = db[d][v.key]
        /\ u.row \in Row /\ u.row.lamport <= observed_max(db[d])
    BY <1>1, <2>1, <2>2, StoredIsWritten DEF Pending
  <2>4. u.row.val = "pending"
    BY <2>1, <2>3 DEF Pending
  <2> HIDE DEF u
  <2>5. v = u
    BY <1>1, <1>6, <2>3, <2>4 DEF VerdictBeatsKnock
  <2>6. observed_max(db[d]) \in 0..MaxLamport
    BY <1>1, ObservedMaxBounds DEF TypeOK
  <2>7. w.row.lamport > u.row.lamport
    BY <2>2, <2>3, <2>6 DEF Row
  <2> QED BY <2>1, <2>5, <2>7
\* No knock is minted under an id that already has a version.
<1>7. ASSUME NEW v \in V, NEW w \in written, v.key = w.key, v.key \in Knocks,
             v.row.val = "pending"
      PROVE  FALSE
  BY <1>4, <1>7
<1> QED BY <1>1, <1>3, <1>5, <1>6, <1>7 DEF VerdictBeatsKnock

LEMMA KnockStep == KnockInv /\ [Next]_vars => KnockInv'
PROOF
<1> SUFFICES ASSUME KnockInv, [Next]_vars PROVE KnockInv'
  OBVIOUS
<1>1. StampInv /\ FilesAreConsistent /\ TypeOK
  BY DEF KnockInv, StampInv
<1>2. StampInv' /\ FilesAreConsistent'
  BY <1>1, StampStep, ConsistentStep
<1>3. CASE SyncShape \/ UNCHANGED vars
  BY <1>2, <1>3 DEF SyncShape, vars, KnockInv, VerdictBeatsKnock
<1> QED BY <1>1, <1>2, <1>3, VerdictsStayNewer, OtherShape, NextCases DEF KnockInv

VerdictIsFinal ==
  \A d \in Device, k \in Knocks :
    db[d][k] # NoRow /\ ~Pending(db[d], k) => ~Pending(db'[d], k)

LEMMA VerdictStep == KnockInv /\ [Next]_vars => [VerdictIsFinal]_vars
PROOF
<1> SUFFICES ASSUME KnockInv, Next, NEW d \in Device, NEW k \in Knocks,
                    db[d][k] # NoRow, ~Pending(db[d], k), Pending(db'[d], k)
             PROVE  FALSE
  BY DEF VerdictIsFinal
<1>1. StampInv /\ FilesAreConsistent /\ TypeOK /\ VerdictBeatsKnock /\ k \in Key
  BY DEF KnockInv, StampInv, Knocks
<1>2. Changes(d, k)
  BY DEF Changes, Pending
<1> DEFINE old == [key |-> k, row |-> db[d][k]]
<1>3. old \in written /\ old.key = k /\ old.row = db[d][k] /\ old.row.val # "pending"
  BY <1>1, StoredIsWritten DEF Pending
<1>4. ASSUME NEW e \in Device, LocalWrite(e)
      PROVE  FALSE
  <2>1. PICK V : Fresh(e, V) /\ Commits(e, V)
    BY <1>1, <1>4, LocalWriteShape
  <2>2. e = d
    BY <1>2, <2>1 DEF Commits, Changes
  <2>3. Respects(d)
    BY <1>1, <1>4, <2>2, LocalWriteRespects DEF FilesAreConsistent
  <2> QED BY <1>2, <1>3, <2>3 DEF Respects, MintsKnock, Judges
<1>5. CASE SyncShape
  <2>1. PICK delta \in Porch : InTransit(delta) /\ db'[d] = Merged(db[d], delta)
    BY <1>2, <1>5 DEF SyncShape, Delivers, Changes
  <2>2. Versions(delta) \subseteq written
    BY <1>1, <2>1 DEF InTransit, StampInv, RowsAreAuthored, Carried
  <2>3. /\ db'[d][k] = delta[k] /\ delta[k] \in Row
        /\ Newer(delta[k], db[d][k])
    BY <1>1, <1>2, <2>1, MergedRows DEF TypeOK, Changes
  <2> DEFINE new == [key |-> k, row |-> delta[k]]
  <2>4. new \in written /\ new.key = k /\ new.row = delta[k] /\ new.row.val = "pending"
    BY <1>1, <2>2, <2>3, NoRowAssumption DEF Versions, Present, Pending
  <2> HIDE DEF old, new
  <2>5. new # old
    BY <1>3, <2>4
  <2>6. old.row.lamport > new.row.lamport
    BY <1>1, <1>3, <2>4, <2>5 DEF VerdictBeatsKnock
  <2>7. db[d][k] \in Row
    BY <1>1 DEF TypeOK, Porch
  <2> QED BY <1>3, <2>3, <2>4, <2>6, <2>7 DEF Newer, Row
<1> QED BY <1>1, <1>4, <1>5, OtherShape, NextCases

\* A knock that a device has seen accepted, rejected or withdrawn never becomes
\* pending there again, whatever order the versions arrive in.
THEOREM VerdictsAreFinal == Spec => ResolvedKnocksStayResolved
PROOF
<1>1. Spec => []KnockInv
  BY KnockInit, KnockStep, PTL DEF Spec
<1>2. Spec => [][VerdictIsFinal]_vars
  BY <1>1, VerdictStep, PTL DEF Spec
<1> QED BY <1>2 DEF ResolvedKnocksStayResolved, VerdictIsFinal

-----------------------------------------------------------------------------
(***************************************************************************)
(* Rows cross between two devices only after both have linked each other.  *)
(* The links themselves are gone again after an unlink, and the handler's  *)
(* link check is a step of its own before the merge, so the invariant has  *)
(* to say what a round and a late request still prove about the past.      *)
(***************************************************************************)

Authors(rows) == {rows[k].device : k \in Present(rows)}

\* Links, rounds and late requests witness the consent they were given.
LinksAreConsent == \A d \in Device : \A e \in linked[d] : <<d, e>> \in consent

RoundsHaveConsent ==
  \A i, r \in Device, n \in Slot :
    /\ sess[i][r][n].phase # "idle" => <<i, r>> \in consent
    /\ sess[i][r][n].phase \notin {"idle", "pull"} => <<r, i>> \in consent

LateHasConsent == \A q \in late : MutualConsent(q.from, q.to)

\* What is in transit between two devices was authored in every closed set that
\* has one of them.
TransitIsConfined ==
  \A S \in SUBSET Device : Closed(S) =>
    /\ \A i, r \in Device, n \in Slot :
         i \in S \/ r \in S => Authors(sess[i][r][n].delta) \subseteq S
    /\ \A q \in late : q.from \in S \/ q.to \in S => Authors(q.delta) \subseteq S

FilesAreConfined ==
  \A S \in SUBSET Device : Closed(S) => \A d \in S : Authors(db[d]) \subseteq S

ConsentInv ==
  /\ LinksAreConsent
  /\ RoundsHaveConsent
  /\ LateHasConsent
  /\ TransitIsConfined
  /\ FilesAreConfined

LEMMA NoAuthors == Authors(EmptyDelta) = {}
PROOF
  BY EmptyTypes DEF Authors

LEMMA ConsentInit == Init => ConsentInv
PROOF
<1> SUFFICES ASSUME Init PROVE ConsentInv
  OBVIOUS
<1>1. FilesAreConfined
  BY OpenType DEF Init, FilesAreConfined, Authors
<1>2. TransitIsConfined
  BY NoAuthors DEF Init, TransitIsConfined, Idle
<1>3. LinksAreConsent /\ RoundsHaveConsent /\ LateHasConsent
  BY DEF Init, LinksAreConsent, RoundsHaveConsent, LateHasConsent, Idle
<1> QED BY <1>1, <1>2, <1>3 DEF ConsentInv

\* Mutual consent keeps two devices on the same side of a closed set.
LEMMA SameSide ==
  ASSUME NEW S \in SUBSET Device, Closed(S), NEW d \in Device, NEW e \in Device,
         MutualConsent(d, e)
  PROVE  d \in S <=> e \in S
PROOF
  BY DEF Closed, MutualConsent

\* Consent only grows, so a set closed after a step was closed before it.
LEMMA ClosedBefore ==
  ASSUME consent \subseteq consent', NEW S \in SUBSET Device, Closed(S)'
  PROVE  Closed(S)
PROOF
  BY Zenon DEF Closed, MutualConsent

LEMMA MergedAuthors ==
  ASSUME NEW rows \in Porch, NEW delta \in Porch
  PROVE  Authors(Merged(rows, delta)) \subseteq Authors(rows) \cup Authors(delta)
PROOF
  BY MergedRows DEF Authors, Present

LEMMA CollectedAuthors ==
  ASSUME NEW rows \in Porch, NEW cursor \in Cursor
  PROVE  Authors(collect_delta(rows, cursor)) \subseteq Authors(rows)
PROOF
  BY CollectDeltaType DEF Authors, Present

\* A batch that comes from inside every closed set the receiver is in.
LEMMA DeliveryConfined ==
  ASSUME TypeOK, ConsentInv, consent' = consent, NEW e \in Device, NEW delta \in Porch,
         \A S \in SUBSET Device : Closed(S) /\ e \in S => Authors(delta) \subseteq S,
         NEW o \in apply_sync_batch(db[e], delta),
         db' = [db EXCEPT ![e] = o.db]
  PROVE  FilesAreConfined'
PROOF
<1> SUFFICES ASSUME NEW S \in SUBSET Device, Closed(S)', NEW d \in S
             PROVE  Authors(db'[d]) \subseteq S
  BY DEF FilesAreConfined
<1>1. Closed(S)
  BY ClosedBefore
<1>2. db[d] \in Porch /\ db \in [Device -> Porch] /\ Authors(db[d]) \subseteq S
  BY <1>1 DEF TypeOK, ConsentInv, FilesAreConfined
<1>3. CASE d # e
  BY <1>2, <1>3
<1>4. CASE d = e
  <2>1. db'[d] = o.db
    BY <1>2, <1>4
  <2>2. o.db = db[d] \/ o.db = Merged(db[d], delta)
    BY <1>2, <1>4, BatchOutcome
  <2>3. Authors(delta) \subseteq S
    BY <1>1, <1>4
  <2> QED BY <1>2, <2>1, <2>2, <2>3, MergedAuthors
<1> QED BY <1>3, <1>4

\* A step of the round of i against r that puts x in transit in phase ph.
LEMMA RoundConfined ==
  ASSUME TypeOK, ConsentInv, NEW i \in Device, NEW r \in Device, NEW n \in Slot,
         NEW ph \in Phase, NEW c \in Cursor, NEW x \in Porch,
         Enter(i, r, n, ph, c, x),
         ph # "idle" => <<i, r>> \in consent,
         ph \notin {"idle", "pull"} => <<r, i>> \in consent,
         \A S \in SUBSET Device :
           Closed(S) /\ (i \in S \/ r \in S) => Authors(x) \subseteq S,
         consent' = consent, late' = late, linked' = linked
  PROVE  LinksAreConsent' /\ RoundsHaveConsent' /\ LateHasConsent' /\ TransitIsConfined'
PROOF
<1>1. /\ sess'[i][r][n].delta = x
      /\ sess'[i][r][n].phase = ph
      /\ \A j, s \in Device, m \in Slot :
           <<j, s, m>> # <<i, r, n>> => sess'[j][s][m] = sess[j][s][m]
  BY EnterType
<1>2. LinksAreConsent' /\ LateHasConsent'
  BY DEF ConsentInv, LinksAreConsent, LateHasConsent, MutualConsent
<1>3. ASSUME NEW j \in Device, NEW s \in Device, NEW m \in Slot
      PROVE  /\ sess'[j][s][m].phase # "idle" => <<j, s>> \in consent
             /\ sess'[j][s][m].phase \notin {"idle", "pull"} => <<s, j>> \in consent
             /\ \A S \in SUBSET Device :
                  Closed(S) /\ (j \in S \/ s \in S) => Authors(sess'[j][s][m].delta) \subseteq S
  <2>1. CASE j = i /\ s = r /\ m = n
    BY <1>1, <2>1
  <2>2. CASE ~(j = i /\ s = r /\ m = n)
    BY <1>1, <2>2 DEF ConsentInv, RoundsHaveConsent, TransitIsConfined
  <2> QED BY <2>1, <2>2
<1>4. RoundsHaveConsent'
  BY <1>3, Zenon DEF RoundsHaveConsent
<1>5. TransitIsConfined'
  <2> SUFFICES ASSUME NEW S \in SUBSET Device, Closed(S)'
               PROVE  /\ \A j, s \in Device, m \in Slot :
                           j \in S \/ s \in S => Authors(sess'[j][s][m].delta) \subseteq S
                      /\ \A q \in late' :
                           q.from \in S \/ q.to \in S => Authors(q.delta) \subseteq S
    BY DEF TransitIsConfined
  <2>1. Closed(S)
    BY ClosedBefore
  <2> QED BY <1>3, <2>1 DEF ConsentInv, TransitIsConfined
<1> QED BY <1>2, <1>4, <1>5
LEMMA EndConfined ==
  ASSUME TypeOK, ConsentInv, NEW i \in Device, NEW r \in Device, NEW n \in Slot, EndRound(i, r, n),
         consent' = consent, late' = late, linked' = linked
  PROVE  LinksAreConsent' /\ RoundsHaveConsent' /\ LateHasConsent' /\ TransitIsConfined'
PROOF
<1>1. Enter(i, r, n, "idle", ZeroCursor, EmptyDelta) /\ "idle" \in Phase
  BY DEF EndRound, Enter, Idle, Phase
<1> QED BY <1>1, NoAuthors, EmptyTypes, RoundConfined

LEMMA RoundStepConfined ==
  ASSUME TypeOK, ConsentInv, NEW i \in Device, NEW r \in Device, NEW n \in Slot, SyncStep(i, r, n)
  PROVE  ConsentInv'
PROOF
<1> USE EmptyTypes, RoundFields
<1> DEFINE ph == sess[i][r][n].phase
           x == sess[i][r][n].delta
<1>1. consent' = consent /\ late' = late /\ linked' = linked
  BY DEF SyncStep, Proceed, StartSync, AssertLinked, ServePull, ApplyPulled, CollectPush,
         ApplyPush, RecordSuccess
<1>2. ASSUME db' = db PROVE FilesAreConfined'
  BY <1>1, <1>2, ClosedBefore DEF ConsentInv, FilesAreConfined
<1>3. /\ ph # "idle" => <<i, r>> \in consent
      /\ ph \notin {"idle", "pull"} => <<r, i>> \in consent
  BY DEF ConsentInv, RoundsHaveConsent
<1>4. \A S \in SUBSET Device : Closed(S) /\ (i \in S \/ r \in S) => Authors(x) \subseteq S
  BY DEF ConsentInv, TransitIsConfined
<1>5. ASSUME ph \notin {"idle", "pull"}, NEW d \in {i, r}, NEW c \in Cursor,
             NEW S \in SUBSET Device, Closed(S), i \in S \/ r \in S
      PROVE  Authors(collect_delta(db[d], c)) \subseteq S
  <2>1. MutualConsent(i, r)
    BY <1>3, <1>5 DEF MutualConsent
  <2>2. d \in S
    BY <1>5, <2>1, SameSide
  <2>3. db[d] \in Porch /\ Authors(db[d]) \subseteq S
    BY <1>5, <2>2 DEF TypeOK, ConsentInv, FilesAreConfined
  <2> QED BY <2>3, CollectedAuthors
<1>6. CASE StartSync(i, r, n)
  <2>1. Enter(i, r, n, "pull", local_cursor(db[i]), EmptyDelta) /\ "pull" \in Phase
    BY <1>6 DEF StartSync, Phase
  <2>2. <<i, r>> \in consent
    BY <1>6 DEF StartSync, ConsentInv, LinksAreConsent
  <2>3. local_cursor(db[i]) \in Cursor
    BY LocalCursorType
  <2>4. LinksAreConsent' /\ RoundsHaveConsent' /\ LateHasConsent' /\ TransitIsConfined'
    BY <1>1, <2>1, <2>2, <2>3, NoAuthors, RoundConfined
  <2> QED BY <1>2, <1>6, <2>4 DEF StartSync, ConsentInv
<1>7. CASE AssertLinked(i, r, n)
  <2>1. \/ EndRound(i, r, n)
        \/ /\ ph = "pull" /\ i \in linked[r]
           /\ Enter(i, r, n, "pull_linked", sess[i][r][n].cursor, x)
        \/ ph = "push" /\ Enter(i, r, n, "push_linked", sess[i][r][n].cursor, x)
    BY <1>7 DEF AssertLinked
  <2>2. "pull_linked" \in Phase /\ "push_linked" \in Phase
    BY DEF Phase
  <2>3. LinksAreConsent' /\ RoundsHaveConsent' /\ LateHasConsent' /\ TransitIsConfined'
    <3>1. CASE EndRound(i, r, n)
      BY <1>1, <3>1, EndConfined
    <3>2. CASE /\ ph = "pull" /\ i \in linked[r]
               /\ Enter(i, r, n, "pull_linked", sess[i][r][n].cursor, x)
      <4>1. <<i, r>> \in consent /\ <<r, i>> \in consent
        BY <1>3, <3>2 DEF ConsentInv, LinksAreConsent
      <4> QED BY <1>1, <1>4, <2>2, <3>2, <4>1, RoundConfined
    <3>3. CASE ph = "push" /\ Enter(i, r, n, "push_linked", sess[i][r][n].cursor, x)
      BY <1>1, <1>3, <1>4, <2>2, <3>3, RoundConfined
    <3> QED BY <2>1, <3>1, <3>2, <3>3
  <2> QED BY <1>2, <1>7, <2>3 DEF AssertLinked, ConsentInv
<1>8. CASE ServePull(i, r, n)
  <2> DEFINE y == collect_delta(db[r], sess[i][r][n].cursor)
  <2>1. Enter(i, r, n, "pulled", sess[i][r][n].cursor, y) /\ ph = "pull_linked" /\ "pulled" \in Phase
    BY <1>8 DEF ServePull, Phase
  <2>2. y \in Porch
    BY CollectDeltaType
  <2>3. \A S \in SUBSET Device : Closed(S) /\ (i \in S \/ r \in S) => Authors(y) \subseteq S
    BY <1>5, <2>1
  <2>4. <<i, r>> \in consent /\ <<r, i>> \in consent
    BY <1>3, <2>1
  <2> HIDE DEF y
  <2>5. LinksAreConsent' /\ RoundsHaveConsent' /\ LateHasConsent' /\ TransitIsConfined'
    BY <1>1, <2>1, <2>2, <2>3, <2>4, RoundConfined
  <2> QED BY <1>2, <1>8, <2>5 DEF ServePull, ConsentInv
<1>9. CASE ApplyPulled(i, r, n)
  <2>1. PICK o \in apply_sync_batch(db[i], x) :
          /\ db' = [db EXCEPT ![i] = o.db]
          /\ IF o.ok THEN Enter(i, r, n, "applied", ZeroCursor, EmptyDelta)
                     ELSE EndRound(i, r, n)
    BY <1>9 DEF ApplyPulled
  <2>2. FilesAreConfined'
    BY <1>1, <1>4, <2>1, DeliveryConfined
  <2>3. ph = "pulled" /\ "applied" \in Phase
    BY <1>9 DEF ApplyPulled, Phase
  <2>4. LinksAreConsent' /\ RoundsHaveConsent' /\ LateHasConsent' /\ TransitIsConfined'
    <3>1. CASE EndRound(i, r, n)
      BY <1>1, <3>1, EndConfined
    <3>2. CASE Enter(i, r, n, "applied", ZeroCursor, EmptyDelta)
      BY <1>1, <1>3, <2>3, <3>2, NoAuthors, RoundConfined
    <3> QED BY <2>1, <3>1, <3>2
  <2> QED BY <2>2, <2>4 DEF ConsentInv
<1>10. CASE CollectPush(i, r, n)
  <2> DEFINE y == collect_delta(db[i], ZeroCursor)
  <2>1. Enter(i, r, n, "push", ZeroCursor, y) /\ ph = "applied" /\ "push" \in Phase
    BY <1>10 DEF CollectPush, Phase
  <2>2. y \in Porch
    BY CollectDeltaType
  <2>3. \A S \in SUBSET Device : Closed(S) /\ (i \in S \/ r \in S) => Authors(y) \subseteq S
    BY <1>5, <2>1
  <2>4. <<i, r>> \in consent /\ <<r, i>> \in consent
    BY <1>3, <2>1
  <2> HIDE DEF y
  <2>5. LinksAreConsent' /\ RoundsHaveConsent' /\ LateHasConsent' /\ TransitIsConfined'
    BY <1>1, <2>1, <2>2, <2>3, <2>4, RoundConfined
  <2> QED BY <1>2, <1>10, <2>5 DEF CollectPush, ConsentInv
<1>11. CASE ApplyPush(i, r, n)
  <2>1. PICK o \in apply_sync_batch(db[r], x) :
          /\ db' = [db EXCEPT ![r] = o.db]
          /\ IF o.ok THEN Enter(i, r, n, "acked", ZeroCursor, x) ELSE EndRound(i, r, n)
    BY <1>11 DEF ApplyPush
  <2>2. FilesAreConfined'
    BY <1>1, <1>4, <2>1, DeliveryConfined
  <2>3. ph = "push_linked" /\ "acked" \in Phase
    BY <1>11 DEF ApplyPush, Phase
  <2>4. LinksAreConsent' /\ RoundsHaveConsent' /\ LateHasConsent' /\ TransitIsConfined'
    <3>1. CASE EndRound(i, r, n)
      BY <1>1, <3>1, EndConfined
    <3>2. CASE Enter(i, r, n, "acked", ZeroCursor, x)
      BY <1>1, <1>3, <1>4, <2>3, <3>2, RoundConfined
    <3> QED BY <2>1, <3>1, <3>2
  <2> QED BY <2>2, <2>4 DEF ConsentInv
<1>12. CASE RecordSuccess(i, r, n)
  <2>1. LinksAreConsent' /\ RoundsHaveConsent' /\ LateHasConsent' /\ TransitIsConfined'
    BY <1>1, <1>12, EndConfined DEF RecordSuccess
  <2> QED BY <1>2, <1>12, <2>1 DEF RecordSuccess, ConsentInv
<1> QED
  BY <1>6, <1>7, <1>8, <1>9, <1>10, <1>11, <1>12 DEF SyncStep, Proceed
LEMMA AbandonConfined ==
  ASSUME TypeOK, ConsentInv, NEW i \in Device, NEW r \in Device, NEW n \in Slot, Abandon(i, r, n)
  PROVE  ConsentInv'
PROOF
<1> DEFINE x == sess[i][r][n].delta
           new == [from |-> i, to |-> r, delta |-> x]
<1>1. consent' = consent /\ linked' = linked /\ db' = db /\ EndRound(i, r, n)
  BY DEF Abandon
<1>2. \/ late' = late
      \/ sess[i][r][n].phase \in {"push", "push_linked"} /\ late' = late \cup {new}
  BY DEF Abandon
<1>3. /\ sess'[i][r][n] = Idle
      /\ \A j, s \in Device, m \in Slot :
           <<j, s, m>> # <<i, r, n>> => sess'[j][s][m] = sess[j][s][m]
  BY <1>1, EndRoundType
<1>4. Idle.phase = "idle" /\ Authors(Idle.delta) = {}
  BY NoAuthors DEF Idle
<1>5. ASSUME NEW j \in Device, NEW s \in Device, NEW m \in Slot
      PROVE  \/ sess'[j][s][m] = sess[j][s][m]
             \/ sess'[j][s][m].phase = "idle" /\ Authors(sess'[j][s][m].delta) = {}
  <2>1. CASE j = i /\ s = r /\ m = n
    BY <1>3, <1>4, <2>1
  <2>2. CASE ~(j = i /\ s = r /\ m = n)
    BY <1>3, <2>2
  <2> QED BY <2>1, <2>2
<1>6. RoundsHaveConsent'
  <2>1. ASSUME NEW j \in Device, NEW s \in Device, NEW m \in Slot
        PROVE  /\ sess[j][s][m].phase # "idle" => <<j, s>> \in consent
               /\ sess[j][s][m].phase \notin {"idle", "pull"} => <<s, j>> \in consent
    BY DEF ConsentInv, RoundsHaveConsent
  <2>2. ASSUME NEW j \in Device, NEW s \in Device, NEW m \in Slot
        PROVE  /\ sess'[j][s][m].phase # "idle" => <<j, s>> \in consent'
               /\ sess'[j][s][m].phase \notin {"idle", "pull"} => <<s, j>> \in consent'
    BY <1>1, <1>5, <2>1
  <2> QED BY <2>2, Zenon DEF RoundsHaveConsent
<1>7. /\ new.from = i /\ new.to = r /\ new.delta = x
      /\ sess[i][r][n].phase \in {"push", "push_linked"} => MutualConsent(i, r)
  BY DEF ConsentInv, RoundsHaveConsent, MutualConsent
<1> HIDE DEF new
<1>8. LateHasConsent'
  BY <1>1, <1>2, <1>7, Zenon DEF ConsentInv, LateHasConsent, MutualConsent
<1>9. TransitIsConfined'
  <2> SUFFICES ASSUME NEW S \in SUBSET Device, Closed(S)'
               PROVE  /\ \A j, s \in Device, m \in Slot :
                           j \in S \/ s \in S => Authors(sess'[j][s][m].delta) \subseteq S
                      /\ \A q \in late' :
                           q.from \in S \/ q.to \in S => Authors(q.delta) \subseteq S
    BY DEF TransitIsConfined
  <2>1. Closed(S)
    BY <1>1, ClosedBefore
  <2>2. /\ \A j, s \in Device, m \in Slot :
             j \in S \/ s \in S => Authors(sess[j][s][m].delta) \subseteq S
        /\ \A q \in late : q.from \in S \/ q.to \in S => Authors(q.delta) \subseteq S
    BY <2>1 DEF ConsentInv, TransitIsConfined
  <2>3. \A j, s \in Device, m \in Slot :
          j \in S \/ s \in S => Authors(sess'[j][s][m].delta) \subseteq S
    BY <1>5, <2>2
  <2>4. ASSUME NEW q \in late', q.from \in S \/ q.to \in S
        PROVE  Authors(q.delta) \subseteq S
    <3>1. CASE q \in late
      BY <2>2, <2>4, <3>1
    <3>2. CASE q = new
      BY <1>7, <2>2, <2>4, <3>2
    <3> QED BY <1>2, <2>4, <3>1, <3>2
  <2> QED BY <2>3, <2>4
<1>10. LinksAreConsent' /\ FilesAreConfined'
  BY <1>1, ClosedBefore DEF ConsentInv, LinksAreConsent, FilesAreConfined
<1> QED BY <1>6, <1>8, <1>9, <1>10 DEF ConsentInv

LEMMA LateConfined ==
  ASSUME TypeOK, ConsentInv, NEW q \in late, HandleLate(q)
  PROVE  ConsentInv'
PROOF
<1>1. late' \subseteq late /\ linked' = linked /\ sess' = sess /\ consent' = consent
  BY DEF HandleLate
<1>2. q.to \in Device /\ q.delta \in Porch
  BY DEF TypeOK, Request
<1>3. FilesAreConfined'
  <2>1. CASE db' = db
    BY <1>1, <2>1, ClosedBefore DEF ConsentInv, FilesAreConfined
  <2>2. CASE \E o \in apply_sync_batch(db[q.to], q.delta) :
               db' = [db EXCEPT ![q.to] = o.db]
    <3>1. \A S \in SUBSET Device : Closed(S) /\ q.to \in S => Authors(q.delta) \subseteq S
      BY DEF ConsentInv, TransitIsConfined
    <3> QED BY <1>1, <1>2, <2>2, <3>1, DeliveryConfined
  <2> QED BY <2>1, <2>2 DEF HandleLate
<1>4. LinksAreConsent' /\ RoundsHaveConsent' /\ LateHasConsent'
  BY <1>1 DEF ConsentInv, LinksAreConsent, RoundsHaveConsent, LateHasConsent, MutualConsent
<1>5. TransitIsConfined'
  BY <1>1, ClosedBefore DEF ConsentInv, TransitIsConfined
<1> QED BY <1>3, <1>4, <1>5 DEF ConsentInv

LEMMA LinkConfined ==
  ASSUME TypeOK, ConsentInv, LinkStep
  PROVE  ConsentInv'
PROOF
<1>1. /\ db' = db /\ sess' = sess /\ late' = late /\ consent \subseteq consent'
      /\ LinksAreConsent'
  <2>1. PICK p \in Pair : link_personal_device(p[1], p[2]) \/ unlink_device(p[1], p[2])
    BY DEF LinkStep
  <2>2. p[1] \in Device /\ p[2] \in Device /\ linked \in [Device -> SUBSET Device]
    BY PairType DEF TypeOK
  <2>3. CASE link_personal_device(p[1], p[2])
    BY <2>2, <2>3 DEF link_personal_device, ConsentInv, LinksAreConsent
  <2>4. CASE unlink_device(p[1], p[2])
    BY <2>2, <2>4 DEF unlink_device, ConsentInv, LinksAreConsent
  <2> QED BY <2>1, <2>3, <2>4
<1>2. RoundsHaveConsent' /\ LateHasConsent'
  BY <1>1 DEF ConsentInv, RoundsHaveConsent, LateHasConsent, MutualConsent
<1>3. TransitIsConfined' /\ FilesAreConfined'
  BY <1>1, ClosedBefore DEF ConsentInv, TransitIsConfined, FilesAreConfined
<1> QED BY <1>1, <1>2, <1>3 DEF ConsentInv

LEMMA WriteConfined ==
  ASSUME TypeOK, ConsentInv, NEW d \in Device, LocalWrite(d)
  PROVE  ConsentInv'
PROOF
<1>1. PICK V : Fresh(d, V) /\ Commits(d, V)
  BY LocalWriteShape
<1>2. linked' = linked /\ sess' = sess /\ late' = late /\ consent' = consent
  BY <1>1 DEF Commits
<1>3. LinksAreConsent' /\ RoundsHaveConsent' /\ LateHasConsent'
  BY <1>2 DEF ConsentInv, LinksAreConsent, RoundsHaveConsent, LateHasConsent, MutualConsent
<1>4. TransitIsConfined'
  BY <1>2, ClosedBefore DEF ConsentInv, TransitIsConfined
<1>5. FilesAreConfined'
  <2> SUFFICES ASSUME NEW S \in SUBSET Device, Closed(S)', NEW e \in S
               PROVE  Authors(db'[e]) \subseteq S
    BY DEF FilesAreConfined
  <2>1. Authors(db[e]) \subseteq S
    BY <1>2, ClosedBefore DEF ConsentInv, FilesAreConfined
  <2>2. CASE e # d
    BY <1>1, <2>1, <2>2 DEF Commits
  <2>3. CASE e = d
    <3>1. \A k \in Key : db'[d][k] = db[d][k] \/ db'[d][k].device = d
      BY <1>1 DEF Commits, Fresh
    <3> QED BY <2>1, <2>3, <3>1 DEF Authors, Present
  <2> QED BY <2>2, <2>3
<1> QED BY <1>3, <1>4, <1>5 DEF ConsentInv

LEMMA ConsentStep == TypeOK /\ ConsentInv /\ [Next]_vars => ConsentInv'
PROOF
<1> SUFFICES ASSUME TypeOK, ConsentInv, [Next]_vars PROVE ConsentInv'
  OBVIOUS
<1>1. CASE RoundStep
  BY <1>1, PairType, RoundStepConfined, AbandonConfined DEF RoundStep
<1>2. CASE UNCHANGED vars
  <2>1. /\ db' = db /\ linked' = linked /\ sess' = sess /\ late' = late
        /\ consent' = consent
    BY <1>2 DEF vars
  <2>2. LinksAreConsent' /\ RoundsHaveConsent' /\ LateHasConsent'
    BY <2>1 DEF ConsentInv, LinksAreConsent, RoundsHaveConsent, LateHasConsent, MutualConsent
  <2>3. TransitIsConfined' /\ FilesAreConfined'
    BY <2>1, ClosedBefore DEF ConsentInv, TransitIsConfined, FilesAreConfined
  <2> QED BY <2>2, <2>3 DEF ConsentInv
<1> QED BY <1>1, <1>2, WriteConfined, LinkConfined, LateConfined, NextCases

\* A device's file holds only rows authored by devices it is connected to by
\* mutual links, past or present: the handler's assert_linked and sync_now's
\* is_personal_device together confine rows, for any interleaving of unlinks,
\* broken rounds and late pushes.
THEOREM ConsentConfines == Spec => []ConsentConfinesRows
PROOF
<1>1. ConsentInv => ConsentConfinesRows
  BY DEF ConsentInv, FilesAreConfined, Authors, ConsentConfinesRows
<1> QED BY <1>1, TypeCorrect, ConsentInit, ConsentStep, PTL DEF Spec
=============================================================================
