------------------------------ MODULE PorchSync ------------------------------
(***************************************************************************)
(* Multi-device sync of porch databases (porch/sync/).  Every device owns  *)
(* one porch file, writes to it locally, links other devices, and runs     *)
(* sync_now rounds against the devices it has linked: pull the rows above  *)
(* its own watermark, apply them, push everything, record success.         *)
(*                                                                         *)
(* The porch mutex makes each SQL block atomic; the steps of a round are   *)
(* the blocks between two acquisitions of that mutex or two awaits, and    *)
(* everything else interleaves between them.  Nothing keeps a device from  *)
(* running several rounds against the same peer at once: the 60 s tick     *)
(* neither waits for the one before nor for the button.                    *)
(***************************************************************************)
EXTENDS PorchRows

CONSTANTS
  Pair,        \* <<i, r>>: i can dial r, to link it or to run a round against it
  Legacy,      \* [Device -> SUBSET Key]: rows older than schema v6; {} = fresh
  Slot,        \* names for the rounds one device has under way against one peer
  MaxLate,     \* bound on abandoned push requests still in a stream
  MaxDisruptions  \* bound on rounds cut short by a failure or a crash, on rounds
                  \* started over a running one, and on unlinks

ASSUME PairAssumption ==
  Pair \subseteq {p \in Device \X Device : p[1] # p[2]}
ASSUME LegacyAssumption ==
  /\ Legacy \in [Device -> SUBSET Key]
  /\ \A d \in Device : Legacy[d] # {} =>
       /\ ChannelKey(DefaultChannel) \in Legacy[d]
       /\ \A k \in Legacy[d] :
            /\ ChannelKey(k.chan) \in Legacy[d]
            /\ k.tab \in {"channels", "messages", "acl"}
ASSUME BoundAssumption == MaxLate \in Nat /\ MaxDisruptions \in Nat

VARIABLES
  db,        \* db[d]: the porch file of device d
  linked,    \* linked[d]: the peers in device_links of d
  mark,      \* mark[d][e]: last_sync_lamport of the link row, 0 without one
  sess,      \* sess[i][r][n]: one of the sync_now rounds of i against r
  late,      \* push requests whose sender gave up but that r may still read
  disruptions,  \* rounds cut short or overlapped and links removed so far
  written,   \* history: every version of a row that some device authored
  consent    \* history: pairs <<d, e>> such that d has ever linked e

vars == <<db, linked, mark, sess, late, disruptions, written, consent>>

Phase == {"idle",         \* no round
          "pull",         \* PullDelta sent
          "pull_linked",  \* responder passed assert_linked
          "pulled",       \* SyncDelta on its way back
          "applied",      \* pulled batch committed, nothing collected yet
          "push",         \* PushDelta sent
          "push_linked",  \* responder passed assert_linked
          "acked"}        \* batch committed at the responder

\* delta is the SyncDelta in transit; in phase "acked" it is the one that was
\* acknowledged, kept for the properties.
Round == [phase : Phase, cursor : Cursor, delta : Porch]
Idle == [phase |-> "idle", cursor |-> ZeroCursor, delta |-> EmptyDelta]

Version == [key : Key, row : Row]
Request == [from : Device, to : Device, delta : Porch]

-----------------------------------------------------------------------------
(***************************************************************************)
(* Initial state: open() of a fresh install creates the default channel at *)
(* lamport 1; an install older than schema v6 has its rows backfilled with *)
(* its own device id at lamport 0.                                         *)
(***************************************************************************)

Stamped(d, lamport, tomb, val) ==
  [lamport |-> lamport, device |-> d, tomb |-> tomb, val |-> val]

LegacyValue(k) == CASE k.tab = "channels" -> "open"
                    [] k.tab = "messages" -> "blob"
                    [] k.tab = "acl"      -> "member"

ensure_default_channel(d) ==
  [EmptyDelta EXCEPT ![ChannelKey(DefaultChannel)] = Stamped(d, 1, FALSE, "open")]

migrate_v6(d) ==
  [k \in Key |-> IF k \in Legacy[d] THEN Stamped(d, 0, FALSE, LegacyValue(k)) ELSE NoRow]

open(d) == IF Legacy[d] = {} THEN ensure_default_channel(d) ELSE migrate_v6(d)

Versions(rows) == {[key |-> k, row |-> rows[k]] : k \in Present(rows)}

Init ==
  /\ db = [d \in Device |-> open(d)]
  /\ linked = [d \in Device |-> {}]
  /\ mark = [d \in Device |-> [e \in Device |-> 0]]
  /\ sess = [i \in Device |-> [r \in Device |-> [n \in Slot |-> Idle]]]
  /\ late = {}
  /\ disruptions = 0
  /\ written = UNION {Versions(open(d)) : d \in Device}
  /\ consent = {}

-----------------------------------------------------------------------------
(***************************************************************************)
(* Local writes.  Each one holds the mutex from next_lamport to the        *)
(* INSERT/UPDATE.  The channel-existence check takes the mutex before that *)
(* on its own; channels are never deleted, so nothing changes in between.  *)
(***************************************************************************)

get_channel(d, c) == db[d][ChannelKey(c)] # NoRow

\* Ulid::new(): an id that no row ever had, the first such of ids.
Minted(tab, id) == \E v \in written : v.key.tab = tab /\ v.key.id = id
Mints(tab, ids, id) == ~Minted(tab, id) /\ \A j \in ids : j < id => Minted(tab, j)

Author(d, k, row) ==
  /\ row.lamport <= MaxLamport
  /\ db' = [db EXCEPT ![d][k] = row]
  /\ written' = written \cup {[key |-> k, row |-> row]}
  /\ UNCHANGED <<linked, mark, sess, late, disruptions, consent>>

Write(d, k, val) == Author(d, k, Stamped(d, next_lamport(db[d]), FALSE, val))

insert_channel(d, c, mode) ==
  /\ \A v \in written : v.key # ChannelKey(c)
  /\ Write(d, ChannelKey(c), mode)

post_message(d, c, m) ==
  /\ get_channel(d, c)
  /\ Mints("messages", MessageId, m)
  /\ Write(d, MessageKey(c, m), "blob")

grant_acl(d, c, p) ==
  /\ get_channel(d, c)
  /\ Write(d, AclKey(c, p), "member")

revoke_acl(d, c, p) ==
  LET k == AclKey(c, p) IN
  /\ db[d][k] # NoRow
  /\ ~db[d][k].tomb
  /\ Author(d, k, Stamped(d, next_lamport(db[d]), TRUE, db[d][k].val))

\* Mutant: no lookup of an existing pending knock.
knock_NoDedup(d, c, p, n) ==
  /\ get_channel(d, c)
  /\ Mints("knocks", KnockId, n)
  /\ Write(d, KnockKey(c, p, n), "pending")

knock(d, c, p, n) ==
  /\ get_channel(d, c)
  /\ \A k \in Knocks : Pending(db[d], k) => ~SamePair(k, KnockKey(c, p, n))
  /\ Mints("knocks", KnockId, n)
  /\ Write(d, KnockKey(c, p, n), "pending")

\* One transaction: the knock at the next lamport, the ACL row one above it.
accept_knock(d, k) ==
  LET l == next_lamport(db[d])
      a == AclKey(k.chan, k.peer)
      kv == Stamped(d, l, db[d][k].tomb, "accepted")
      av == Stamped(d, l + 1, FALSE, "member") IN
  /\ Pending(db[d], k)
  /\ l + 1 <= MaxLamport
  /\ db' = [db EXCEPT ![d] = [@ EXCEPT ![k] = kv, ![a] = av]]
  /\ written' = written \cup {[key |-> k, row |-> kv], [key |-> a, row |-> av]}
  /\ UNCHANGED <<linked, mark, sess, late, disruptions, consent>>

\* reject_knock (by the owner) and withdraw_knock (by the knocker).
ResolveKnock(d, k, status) ==
  /\ Pending(db[d], k)
  /\ Author(d, k, Stamped(d, next_lamport(db[d]), db[d][k].tomb, status))

reject_knock(d, k) == ResolveKnock(d, k, "rejected")
withdraw_knock(d, k) == ResolveKnock(d, k, "withdrawn")

set_theme(d, c, x) ==
  /\ get_channel(d, c)
  /\ Write(d, ThemeKey(c), x)

upload_asset(d, c, a) ==
  /\ get_channel(d, c)
  /\ Mints("assets", AssetId, a)
  /\ Write(d, AssetKey(c, a), "blob")

set_obsidian_config(d, c, x) ==
  /\ get_channel(d, c)
  /\ Write(d, ObsidianKey(c), x)

LocalWrite(d) ==
  \/ \E c \in Channel :
       \/ \E mode \in CreateMode : insert_channel(d, c, mode)
       \/ \E m \in MessageId : post_message(d, c, m)
       \/ \E a \in AssetId : upload_asset(d, c, a)
       \/ \E x \in Theme : set_theme(d, c, x)
       \/ \E x \in Vault : set_obsidian_config(d, c, x)
       \/ \E p \in Grantee : grant_acl(d, c, p) \/ revoke_acl(d, c, p)
       \/ \E p \in Knocker, n \in KnockId : knock(d, c, p, n)
  \/ \E k \in Knocks :
       \/ accept_knock(d, k)
       \/ reject_knock(d, k)
       \/ withdraw_knock(d, k)

-----------------------------------------------------------------------------
(***************************************************************************)
(* Links.  link_and_record asks the remote for its device id and then      *)
(* upserts the row; the remote stores nothing, so the two are one step.    *)
(***************************************************************************)

link_personal_device(d, e) ==
  /\ linked' = [linked EXCEPT ![d] = @ \cup {e}]
  /\ consent' = consent \cup {<<d, e>>}
  /\ UNCHANGED <<db, mark, sess, late, disruptions, written>>

unlink_device(d, e) ==
  /\ e \in linked[d]
  /\ disruptions < MaxDisruptions
  /\ disruptions' = disruptions + 1
  /\ linked' = [linked EXCEPT ![d] = @ \ {e}]
  /\ mark' = [mark EXCEPT ![d][e] = 0]
  /\ UNCHANGED <<db, sess, late, written, consent>>

-----------------------------------------------------------------------------
(***************************************************************************)
(* sync_now, initiator i against responder r, and the handler's side.      *)
(***************************************************************************)

Enter(i, r, n, phase, cursor, delta) ==
  sess' = [sess EXCEPT ![i][r][n] = [phase |-> phase, cursor |-> cursor, delta |-> delta]]

EndRound(i, r, n) == sess' = [sess EXCEPT ![i][r][n] = Idle]

\* is_personal_device and local_cursor, then the PullDelta request.
\* Nothing asks whether a round against r is already under way.
Overlapping(i, r) == \E n \in Slot : sess[i][r][n].phase # "idle"
StartSync(i, r, n) ==
  /\ sess[i][r][n].phase = "idle"
  /\ r \in linked[i]
  /\ Enter(i, r, n, "pull", local_cursor(db[i]), EmptyDelta)
  /\ IF Overlapping(i, r)
     THEN disruptions < MaxDisruptions /\ disruptions' = disruptions + 1
     ELSE disruptions' = disruptions
  /\ UNCHANGED <<db, linked, mark, late, written, consent>>

\* Mutant: the handler trusts whoever connects.
AssertLinked_Missing(i, r, n) ==
  LET s == sess[i][r][n] IN
  /\ s.phase \in {"pull", "push"}
  /\ Enter(i, r, n, IF s.phase = "pull" THEN "pull_linked" ELSE "push_linked",
           s.cursor, s.delta)
  /\ UNCHANGED <<db, linked, mark, late, disruptions, written, consent>>

\* assert_linked in the handler; a refusal is an error response, which ends the
\* round.
AssertLinked(i, r, n) ==
  LET s == sess[i][r][n] IN
  /\ s.phase \in {"pull", "push"}
  /\ IF i \in linked[r]
     THEN Enter(i, r, n, IF s.phase = "pull" THEN "pull_linked" ELSE "push_linked",
                s.cursor, s.delta)
     ELSE EndRound(i, r, n)
  /\ UNCHANGED <<db, linked, mark, late, disruptions, written, consent>>

ServePull(i, r, n) ==
  /\ sess[i][r][n].phase = "pull_linked"
  /\ Enter(i, r, n, "pulled", sess[i][r][n].cursor, collect_delta(db[r], sess[i][r][n].cursor))
  /\ UNCHANGED <<db, linked, mark, late, disruptions, written, consent>>

\* A failed apply returns before anything is pushed.
ApplyPulled(i, r, n) ==
  /\ sess[i][r][n].phase = "pulled"
  /\ \E o \in apply_sync_batch(db[i], sess[i][r][n].delta) :
       /\ db' = [db EXCEPT ![i] = o.db]
       /\ IF o.ok THEN Enter(i, r, n, "applied", ZeroCursor, EmptyDelta)
                  ELSE EndRound(i, r, n)
  /\ UNCHANGED <<linked, mark, late, disruptions, written, consent>>

\* The push cursor is SyncCursor::default(): since 0 in every table.
CollectPush(i, r, n) ==
  /\ sess[i][r][n].phase = "applied"
  /\ Enter(i, r, n, "push", ZeroCursor, collect_delta(db[i], ZeroCursor))
  /\ UNCHANGED <<db, linked, mark, late, disruptions, written, consent>>

ApplyPush(i, r, n) ==
  /\ sess[i][r][n].phase = "push_linked"
  /\ \E o \in apply_sync_batch(db[r], sess[i][r][n].delta) :
       /\ db' = [db EXCEPT ![r] = o.db]
       /\ IF o.ok THEN Enter(i, r, n, "acked", ZeroCursor, sess[i][r][n].delta)
                  ELSE EndRound(i, r, n)
  /\ UNCHANGED <<linked, mark, late, disruptions, written, consent>>

\* record_sync_success updates the link row if there still is one.
RecordSuccess(i, r, n) ==
  /\ sess[i][r][n].phase = "acked"
  /\ mark' = IF r \in linked[i]
             THEN [mark EXCEPT ![i][r] = Max({@, observed_max(db[i])})]
             ELSE mark
  /\ EndRound(i, r, n)
  /\ UNCHANGED <<db, linked, late, disruptions, written, consent>>

\* The stream breaks at an await, or the initiator crashes: the round is gone,
\* its effects so far stay.  A PushDelta that was already written to the stream
\* may still reach the responder.
Abandon(i, r, n) ==
  /\ sess[i][r][n].phase # "idle"
  /\ disruptions < MaxDisruptions
  /\ disruptions' = disruptions + 1
  /\ EndRound(i, r, n)
  /\ \/ late' = late
     \/ /\ sess[i][r][n].phase \in {"push", "push_linked"}
        /\ Cardinality(late) < MaxLate
        /\ late' = late \cup {[from |-> i, to |-> r, delta |-> sess[i][r][n].delta]}
  /\ UNCHANGED <<db, linked, mark, written, consent>>

\* The handler reads an abandoned PushDelta; nobody waits for the answer.
HandleLate(q) ==
  /\ late' = late \ {q}
  /\ IF q.from \in linked[q.to]
     THEN \E o \in apply_sync_batch(db[q.to], q.delta) :
            db' = [db EXCEPT ![q.to] = o.db]
     ELSE db' = db
  /\ UNCHANGED <<linked, mark, sess, disruptions, written, consent>>

\* The steps of a round once it has been started.
Proceed(i, r, n) ==
  \/ AssertLinked(i, r, n)
  \/ ServePull(i, r, n)
  \/ ApplyPulled(i, r, n)
  \/ CollectPush(i, r, n)
  \/ ApplyPush(i, r, n)
  \/ RecordSuccess(i, r, n)

SyncStep(i, r, n) == StartSync(i, r, n) \/ Proceed(i, r, n)

Next ==
  \/ \E d \in Device : LocalWrite(d)
  \/ \E p \in Pair :
       \/ link_personal_device(p[1], p[2])
       \/ unlink_device(p[1], p[2])
       \/ \E n \in Slot : SyncStep(p[1], p[2], n) \/ Abandon(p[1], p[2], n)
  \/ \E q \in late : HandleLate(q)

Spec == Init /\ [][Next]_vars

-----------------------------------------------------------------------------
(***************************************************************************)
(* Properties.                                                             *)
(***************************************************************************)

TypeOK ==
  /\ db \in [Device -> Porch]
  /\ linked \in [Device -> SUBSET Device]
  /\ mark \in [Device -> [Device -> 0..MaxLamport]]
  /\ sess \in [Device -> [Device -> [Slot -> Round]]]
  /\ late \subseteq Request
  /\ disruptions \in 0..MaxDisruptions
  /\ written \subseteq Version
  /\ consent \subseteq Device \X Device

\* Equal (lamport, device_id) on the same primary key means the same row, at any
\* device, in any delta: merge.rs drops such a row as "identity" without looking
\* at its columns.  It needs next_lamport to run under the mutex with the write,
\* and to look at every table.
StampIdentity ==
  \A v, w \in written :
    /\ v.key = w.key
    /\ v.row.lamport = w.row.lamport
    /\ v.row.device = w.row.device
    => v = w

\* Every row in a file or in transit is a version some device authored: a merge
\* or a late delivery makes nothing up and mixes no columns.
Carried(rows) == Versions(rows) \subseteq written
RowsAreAuthored ==
  /\ \A d \in Device : Carried(db[d])
  /\ \A i, r \in Device, n \in Slot : Carried(sess[i][r][n].delta)
  /\ \A q \in late : Carried(q.delta)

\* A device's clock is never behind a version it authored, wherever that version
\* went: its next write beats all of its earlier ones.
ClockCoversOwnWrites ==
  \A v \in written : v.row.lamport <= observed_max(db[v.row.device])

\* A row at a device is only ever replaced by one with a newer stamp.  A revoked
\* ACL row is therefore not resurrected by a pull, a push or a late push that
\* carries the older grant.
OnlyAdvances ==
  \A d \in Device, k \in Key :
    db'[d][k] # db[d][k] =>
      /\ db'[d][k] # NoRow
      /\ db[d][k] # NoRow => Newer(db'[d][k], db[d][k])
RowsOnlyAdvance == [][OnlyAdvances]_vars

\* A knock that a device has seen accepted, rejected or withdrawn never becomes
\* pending there again, whatever order the versions arrive in: accept_knock and
\* reject_knock refuse a knock that is not pending, so a verdict is given once
\* per device.
ResolvedKnocksStayResolved ==
  [][\A d \in Device, k \in Knocks :
       db[d][k] # NoRow /\ ~Pending(db[d], k) => ~Pending(db'[d], k)]_vars

\* No sequence of local writes and merges leaves a file that violates its own
\* schema: knock's dedup and the rollback of a batch keep one pending knock per
\* pair, and every row has its channel.
FilesAreConsistent ==
  \A d \in Device : ForeignKeysHold(db[d]) /\ OnePendingPerPair(db[d])

\* Once a push is acknowledged, the responder holds every pushed row or one that
\* beats it, whatever else it has applied or written since.
Covers(rows, delta) ==
  \A k \in Present(delta) :
    rows[k] # NoRow /\ ~Newer(delta[k], rows[k])
AckedPushIsCovered ==
  \A p \in Pair, n \in Slot : sess[p[1]][p[2]][n].phase = "acked" =>
    Covers(db[p[2]], sess[p[1]][p[2]][n].delta)

\* Rows cross between two devices only after both have linked each other: in a
\* set of devices that no mutual consent connects to the rest, every row was
\* authored inside the set.  Holds with unlinks and late pushes in between.
MutualConsent(d, e) == <<d, e>> \in consent /\ <<e, d>> \in consent
Closed(S) == \A d \in S, e \in Device \ S : ~MutualConsent(d, e)
ConsentConfinesRows ==
  \A S \in SUBSET Device : Closed(S) =>
    \A d \in S : \A k \in Present(db[d]) : db[d][k].device \in S

-----------------------------------------------------------------------------
(***************************************************************************)
(* Refinement.                                                             *)
(***************************************************************************)

Lww == INSTANCE LwwReplicas
         WITH Replica <- Device, Absent <- NoRow, file <- db, authored <- written

\* The porches of a user's devices are last-writer-wins replicas, with every
\* detail of the rounds hidden: a batch, whole, partial, stale or late, only
\* delivers versions in the place of older ones, and a device's own write is
\* stamped later than all it wrote before.
ImplementsLwwReplicas == Lww!Spec
=============================================================================
