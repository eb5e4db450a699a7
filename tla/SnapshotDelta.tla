--------------------------- MODULE SnapshotDelta ---------------------------
(***************************************************************************)
(* Deltas between two tables of torrents: delta.rs on the server, the      *)
(* torrents store of the console on the other side.  A row is reduced to   *)
(* its status, which stands for the fields both sides compare, and its     *)
(* path, which stands for those only the server compares.                  *)
(***************************************************************************)
CONSTANTS
  Hashes, Statuses, Paths,
  NoRow         \* a hash that is not in the table

ASSUME NoRowAssumption == NoRow \notin [status : Statuses, path : Paths]

Rows == [status : Statuses, path : Paths]
Tables == [Hashes -> Rows \cup {NoRow}]
Empty == [h \in Hashes |-> NoRow]

AddedOnly(from, to) == {h \in Hashes : from[h] = NoRow /\ to[h] # NoRow}
Updated(from, to) ==
  {h \in Hashes : from[h] # NoRow /\ to[h] # NoRow /\ from[h] # to[h]}
Removed(from, to) == {h \in Hashes : from[h] # NoRow /\ to[h] = NoRow}

\* What travels: the hashes that are gone and the rows that are new or differ.
Diffs == [removed : SUBSET Hashes, rows : UNION {[S -> Rows] : S \in SUBSET Hashes}]
Nothing == [removed |-> {}, rows |-> [h \in {} |-> NoRow]]

Changed(from, to) == AddedOnly(from, to) \cup Updated(from, to)

DiffUpdatingGone(from, to) ==
  [removed |-> Removed(from, to),
   rows |-> [h \in Changed(from, to) \cup Removed(from, to) |-> to[h]]]

\* diff
Diff(from, to) ==
  [removed |-> Removed(from, to), rows |-> [h \in Changed(from, to) |-> to[h]]]

\* apply, and applyDelta after its base check.
Apply(table, diff) ==
  [h \in Hashes |->
     IF h \in diff.removed THEN NoRow
     ELSE IF h \in DOMAIN diff.rows THEN diff.rows[h]
     ELSE table[h]]

\* reconcile: a row whose compared fields are unchanged stays the old object.
Reconcile(old, new) ==
  [h \in Hashes |->
     IF old[h] # NoRow /\ new[h] # NoRow /\ old[h].status = new[h].status
     THEN old[h] ELSE new[h]]
=============================================================================
