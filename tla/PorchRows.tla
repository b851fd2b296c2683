------------------------------ MODULE PorchRows ------------------------------
(***************************************************************************)
(* The replicated rows of a porch database and the pure functions over     *)
(* them: the Lamport clock (porch/sync/clock.rs), the last-writer-wins     *)
(* comparator and merge (porch/sync/merge.rs), the batch transaction and   *)
(* the cursors (porch/sync/protocol.rs), and the SQLite constraints of the *)
(* schema (porch/db.rs).                                                   *)
(*                                                                         *)
(* A porch file is a function from primary keys to rows.  A SyncDelta has  *)
(* the same shape: the rows it carries, and NoRow where it carries none    *)
(* (each *_since reader returns at most one row per primary key).  Column  *)
(* values are abstracted to one value per row: the ACL mode of a channel,  *)
(* the role of an ACL row, the status of a knock, the colours of a theme,  *)
(* the vault of an obsidian binding.                                       *)
(***************************************************************************)
EXTENDS Integers, FiniteSetsExt

CONSTANTS
  Device,          \* device ids (ULIDs), as their rank in string order
  Channel,         \* channel ids
  CreateMode,      \* ACL modes porch_create_channel is called with
  DefaultChannel,  \* the well-known id every install creates
  Grantee,         \* peers the owner grants and revokes directly
  Knocker,         \* peers that knock
  NoPeer,          \* the peer column of a row that has none
  MessageId,       \* ULIDs that post_message mints, in minting order
  KnockId,         \* ULIDs that knock mints
  AssetId,         \* ULIDs that upload_asset mints
  Theme,           \* contents set_theme can store
  Vault,           \* bindings set_obsidian_config can store
  MaxLamport,      \* bound on the Lamport clock
  NoRow            \* no row with this primary key

ASSUME DeviceAssumption == Device \subseteq Nat
ASSUME IdAssumption == MessageId \cup KnockId \cup AssetId \subseteq Nat
ASSUME LamportAssumption == MaxLamport \in Nat \ {0}
ASSUME DefaultChannelAssumption == DefaultChannel \in Channel

-----------------------------------------------------------------------------
(***************************************************************************)
(* Schema.                                                                 *)
(***************************************************************************)

\* The CRDT-tracked tables, by their name in a SyncDelta.
SYNCED_TABLES ==
  {"channels", "messages", "acl", "knocks", "themes", "assets", "obsidian"}

AclMode == {"open", "allowlist", "owner_only"}
ASSUME CreateModeAssumption == CreateMode \subseteq AclMode
KnockStatus == {"pending", "accepted", "rejected", "withdrawn"}

Peer == Grantee \cup Knocker

\* Primary keys.  The immutable columns that other rules look at (the channel
\* of a row, the knocker of a knock) are carried in the key.
PrimaryKey(tab, chan, peer, id) ==
  [tab |-> tab, chan |-> chan, peer |-> peer, id |-> id]
ChannelKey(c) == PrimaryKey("channels", c, NoPeer, 0)
MessageKey(c, m) == PrimaryKey("messages", c, NoPeer, m)
AclKey(c, p) == PrimaryKey("acl", c, p, 0)
KnockKey(c, p, n) == PrimaryKey("knocks", c, p, n)
ThemeKey(c) == PrimaryKey("themes", c, NoPeer, 0)
AssetKey(c, a) == PrimaryKey("assets", c, NoPeer, a)
ObsidianKey(c) == PrimaryKey("obsidian", c, NoPeer, 0)

Key ==
  UNION { {ChannelKey(c) : c \in Channel},
          {MessageKey(c, m) : c \in Channel, m \in MessageId},
          {AclKey(c, p) : c \in Channel, p \in Peer},
          {KnockKey(c, p, n) : c \in Channel, p \in Peer, n \in KnockId},
          {ThemeKey(c) : c \in Channel},
          {AssetKey(c, a) : c \in Channel, a \in AssetId},
          {ObsidianKey(c) : c \in Channel} }

Knocks == {k \in Key : k.tab = "knocks"}

Value == AclMode \cup KnockStatus \cup {"member", "blob"} \cup Theme \cup Vault

\* A row with its CRDT columns sync_lamport, sync_device_id, sync_tombstone.
Row == [lamport : 0..MaxLamport, device : Device, tomb : BOOLEAN, val : Value]

ASSUME NoRowAssumption == NoRow \notin Row

Porch == [Key -> Row \cup {NoRow}]

Present(db) == {k \in Key : db[k] # NoRow}

\* FOREIGN KEY (channel_id) REFERENCES porch_channels(id), enforced because
\* open() sets PRAGMA foreign_keys = ON.
ForeignKeysHold(db) == \A k \in Present(db) : db[ChannelKey(k.chan)] # NoRow

Pending(db, k) == db[k] # NoRow /\ db[k].val = "pending"

SamePair(j, k) == j.chan = k.chan /\ j.peer = k.peer

\* The partial unique index idx_knock_pending_one_per_pair.
OnePendingPerPair(db) ==
  \A j, k \in Knocks : Pending(db, j) /\ Pending(db, k) /\ SamePair(j, k) => j = k

-----------------------------------------------------------------------------
(***************************************************************************)
(* Clock.                                                                  *)
(***************************************************************************)

\* COALESCE(MAX(sync_lamport), 0) over the rows with a key in ks.
MaxLamportOf(db, ks) == Max({0} \cup {db[k].lamport : k \in ks})

observed_max(db) == MaxLamportOf(db, Present(db))

\* Mutant: the clock reads one table instead of all of them.
next_lamport_OneTable(db) ==
  MaxLamportOf(db, {k \in Present(db) : k.tab = "channels"}) + 1

\* saturating_add: i64::MAX is beyond MaxLamport in every instance.
next_lamport(db) == observed_max(db) + 1

-----------------------------------------------------------------------------
(***************************************************************************)
(* Merge.                                                                  *)
(***************************************************************************)

\* Mutants: a tie goes to the remote; a tie goes to the local row.
remote_wins_RemoteOnTie(remote, local) == remote.lamport >= local.lamport
remote_wins_LocalOnTie(remote, local) == remote.lamport > local.lamport

remote_wins(remote, local) ==
  IF remote.lamport # local.lamport
  THEN remote.lamport > local.lamport
  ELSE remote.device > local.device

\* Mutants: overwrite without comparing; never update an existing row.
Applies_Always(db, delta, k) == delta[k] # NoRow
Applies_InsertOnly(db, delta, k) == delta[k] # NoRow /\ db[k] = NoRow

\* What every apply_remote_* function decides: insert verbatim when the key is
\* absent (tombstones included), overwrite when the remote stamp wins.
Applies(db, delta, k) ==
  delta[k] # NoRow /\ (db[k] = NoRow \/ remote_wins(delta[k], db[k]))

\* Mutant: applying a remote row moves the local clock into it.
Merged_Restamped(db, delta) ==
  [k \in Key |-> IF Applies(db, delta, k)
                 THEN [delta[k] EXCEPT !.lamport = observed_max(db)]
                 ELSE db[k]]

Merged(db, delta) ==
  [k \in Key |-> IF Applies(db, delta, k) THEN delta[k] ELSE db[k]]

\* A knock row written as pending while another pending row of its pair may be
\* in the table: the one SQLite statement whose outcome depends on the order of
\* the rows within a table, which the readers leave open (no ORDER BY).
MayTripUniqueIndex(db, delta) ==
  \E j, k \in Knocks :
    /\ j # k /\ SamePair(j, k)
    /\ Applies(db, delta, k) /\ Pending(delta, k)
    /\ Pending(db, j) \/ (Applies(db, delta, j) /\ Pending(delta, j))

\* Mutant: the foreign_keys pragma is off.
apply_sync_batch_NoForeignKeys(db, delta) ==
  {[ok |-> TRUE, db |-> Merged(db, delta)]}

\* The outcomes of one batch transaction: every row lands, or the first failing
\* statement rolls all of them back.  Channels go first, so a foreign key fails
\* exactly when the parent is neither stored nor in the batch.
apply_sync_batch(db, delta) ==
  LET new == Merged(db, delta) IN
    {o \in {[ok |-> TRUE, db |-> new], [ok |-> FALSE, db |-> db]} :
       IF o.ok THEN ForeignKeysHold(new) /\ OnePendingPerPair(new)
               ELSE ~ForeignKeysHold(new) \/ MayTripUniqueIndex(db, delta)}

\* The order the protocol is meant to follow: lamport first, then device id.
Newer(row, old) ==
  \/ row.lamport > old.lamport
  \/ row.lamport = old.lamport /\ row.device > old.device

-----------------------------------------------------------------------------
(***************************************************************************)
(* Cursors and deltas.                                                     *)
(***************************************************************************)

Cursor == [SYNCED_TABLES -> 0..MaxLamport]

ZeroCursor == [t \in SYNCED_TABLES |-> 0]

EmptyDelta == [k \in Key |-> NoRow]

\* Mutant: the cursor is the next lamport instead of the last one.
local_cursor_Next(db) ==
  [t \in SYNCED_TABLES |-> MaxLamportOf(db, {k \in Present(db) : k.tab = t}) + 1]

local_cursor(db) ==
  [t \in SYNCED_TABLES |-> MaxLamportOf(db, {k \in Present(db) : k.tab = t})]

\* The *_since readers: SELECT ... WHERE sync_lamport > ?1, one per table.
collect_delta(db, cursor) ==
  [k \in Key |->
     IF k \in Present(db) /\ db[k].lamport > cursor[k.tab] THEN db[k] ELSE NoRow]

=============================================================================
