---------------------------- MODULE MoveJournal ----------------------------
(***************************************************************************)
(* The move journal: the entries of crates/rtorrent/src/complete.rs        *)
(* (MoveOp, MoveState, Journal) and the operations MoveStore of mover.rs   *)
(* runs over them.  A journal is a set of entries: the code's vector is    *)
(* only ever searched by id or filtered, so its order is never observed.   *)
(*                                                                         *)
(* An entry id is {HASH}-{millis}.  The model keeps the torrent and a slot *)
(* number in place of the clock; a slot is taken again only once nothing   *)
(* refers to its previous use.                                             *)
(***************************************************************************)
EXTENDS Naturals, FiniteSets

CONSTANTS
  Torrents,     \* info-hashes
  MaxMoves,     \* bound: journal ids of one torrent in use at one time
  Paths         \* the places an entry can name as its destination

ASSUME MaxMovesAssumption == MaxMoves \in Nat \ {0}

OpIds == Torrents \X (1..MaxMoves)

MoveStates == {"Pending", "InProgress", "Done", "Failed", "Cancelled"}

MoveOps == [id : OpIds, state : MoveStates, dst : Paths]

IsResumableForgetsFailed(o) == o.state \in {"Pending", "InProgress"}

\* An entry no new move may start beside.
IsResumable(o) == o.state \in {"Pending", "InProgress", "Failed"}

Resumable(journal) == {o \in journal : IsResumable(o)}

HashesOf(ops) == {o.id[1] : o \in ops}

\* Journal::add: an unfinished entry for the hash is kept instead.
Add(journal, op) ==
  IF op.id[1] \in HashesOf(Resumable(journal)) THEN journal ELSE journal \cup {op}

Mark(journal, id, state) ==
  {IF o.id = id THEN [o EXCEPT !.state = state] ELSE o : o \in journal}

\* The collision gate rewrites the destination of an entry.
Redirect(journal, id, dst) ==
  {IF o.id = id THEN [o EXCEPT !.dst = dst] ELSE o : o \in journal}

PruneDone(journal) == {o \in journal : o.state # "Done"}

PruneUnknown(journal, live) ==
  {o \in journal : o.state \in {"InProgress", "Done"} \/ o.id[1] \in live}

\* MoveStore::retry: what is left of the journal.
Retry(journal, t) ==
  {o \in journal : ~(o.id[1] = t /\ o.state \in {"Failed", "Cancelled"})}
=============================================================================
