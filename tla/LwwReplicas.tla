---------------------------- MODULE LwwReplicas -----------------------------
(***************************************************************************)
(* What multi-device sync promises, whatever its rounds, cursors and links *)
(* are: replicas of one keyed store, where each row is the last write that *)
(* reached the replica.  Writes are stamped (lamport, device); a replica's *)
(* own stamps grow, and a version only ever gives way to a newer one.      *)
(***************************************************************************)
EXTENDS Naturals

CONSTANTS
  Replica,
  Key,
  Absent    \* a key without a row

VARIABLES
  file,      \* file[r][k]: the version of key k at replica r, or Absent
  authored   \* all versions ever written: [key, row]

lwwVars == <<file, authored>>

Version(k, row) == [key |-> k, row |-> row]

Later(row, old) ==
  \/ row.lamport > old.lamport
  \/ row.lamport = old.lamport /\ row.device > old.device

\* Every replica starts with versions of its own.
Init ==
  /\ \A r \in Replica, k \in Key : file[r][k] # Absent => file[r][k].device = r
  /\ authored = UNION {{Version(k, file[r][k]) : k \in {j \in Key : file[r][j] # Absent}} : r \in Replica}

\* Replica r writes versions, one per key, stamped later than all of its
\* earlier ones; it shows them at once, and nobody else does.
Author(r) ==
  LET new == authored' \ authored IN
  /\ authored \subseteq authored'
  /\ \A v \in new : v.row.device = r
  /\ \A v, w \in new : v.key = w.key => v = w
  /\ \A v \in new, w \in authored : w.row.device = r => v.row.lamport > w.row.lamport
  /\ \A v \in new : file'[r][v.key] = v.row
  /\ \A k \in Key : (\A v \in new : v.key # k) => file'[r][k] = file[r][k]
  /\ \A q \in Replica \ {r} : file'[q] = file[q]

\* Versions reach replicas: each in full, as it was written, and only in the
\* place of an older one.
Deliver ==
  /\ authored' = authored
  /\ \A r \in Replica, k \in Key :
       file'[r][k] # file[r][k] =>
         /\ Version(k, file'[r][k]) \in authored
         /\ file[r][k] # Absent => Later(file'[r][k], file[r][k])

Next == Deliver \/ \E r \in Replica : Author(r)

Spec == Init /\ [][Next]_lwwVars
=============================================================================
