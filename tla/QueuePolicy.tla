----------------------------- MODULE QueuePolicy -----------------------------
(***************************************************************************)
(* The queue scheduler of queue.rs: what one tick decides to start and to  *)
(* hold, from the rows it read and from what it remembers of the ticks     *)
(* before, and where a manual reorder sends a torrent.  Rows come as a     *)
(* function on the hashes the daemon listed; memory is a record.           *)
(***************************************************************************)
EXTENDS Integers, FiniteSets

CONSTANT Torrents   \* numbered in the order the daemon lists them

ASSUME TorrentsAssumption == Torrents \subseteq Nat /\ IsFiniteSet(Torrents)

\* A cap of 0 is no cap; a slow limit of 0 exempts nobody.
Configs == [downloads : Nat, uploads : Nat, total : Nat, slow : Nat]

Configured(cfg) == cfg.downloads > 0 \/ cfg.uploads > 0 \/ cfg.total > 0

\* ran and rested are prev_active: the hashes last seen active, and inactive.
Memories ==
  [ran : SUBSET Torrents, rested : SUBSET Torrents,
   exempt : SUBSET Torrents, paused : SUBSET Torrents]
Forgotten == [ran |-> {}, rested |-> {}, exempt |-> {}, paused |-> {}]

----------------------------------------------------------------------------
(* Who is wanted. *)

IsSlow(row, cfg) == cfg.slow > 0 /\ row.rate < cfg.slow

Managed(raw, cfg) ==
  {t \in DOMAIN raw : raw[t].healthy /\ ~raw[t].forced /\ ~IsSlow(raw[t], cfg)}

\* A start time of 0 is unknown and sorts last.
StartedBefore(a, b) == a.started # 0 /\ (b.started = 0 \/ a.started < b.started)

Better(a, b) ==
  \/ a.priority > b.priority
  \/ a.priority = b.priority /\ a.pos < b.pos
  \/ a.priority = b.priority /\ a.pos = b.pos /\ StartedBefore(a, b)

\* Full ties go to downloads, then to the order of the list.
Precedes(raw, t, u) ==
  \/ Better(raw[t], raw[u])
  \/ /\ ~Better(raw[u], raw[t])
     /\ \/ ~raw[t].complete /\ raw[u].complete
        \/ raw[t].complete = raw[u].complete /\ t < u

FirstOfAndOneMore(raw, group, cap) ==
  IF cap = 0 THEN group
  ELSE {t \in group : Cardinality({u \in group : Precedes(raw, u, t)}) <= cap}

FirstOf(raw, group, cap) ==
  IF cap = 0 THEN group
  ELSE {t \in group : Cardinality({u \in group : Precedes(raw, u, t)}) < cap}

Wanted(raw, cfg) ==
  LET managed == Managed(raw, cfg)
      uploads == {t \in managed : raw[t].complete}
  IN FirstOf(raw,
             FirstOf(raw, managed \ uploads, cfg.downloads)
               \cup FirstOf(raw, uploads, cfg.uploads),
             cfg.total)

----------------------------------------------------------------------------
(* What the rows say the user did since the last tick, and the verdict. *)

ActiveIn(raw) == {t \in DOMAIN raw : raw[t].active}

JudgedForgettingPauses(raw, mem, want) ==
  [ran    |-> ActiveIn(raw),
   rested |-> DOMAIN raw \ ActiveIn(raw),
   exempt |-> ((mem.exempt \cap DOMAIN raw) \cup (ActiveIn(raw) \cap mem.rested)) \ want,
   paused |-> (DOMAIN raw \ ActiveIn(raw)) \cap mem.ran \cap want]

Judged(raw, mem, want) ==
  LET resumed == ActiveIn(raw) \cap mem.rested
      halted  == (DOMAIN raw \ ActiveIn(raw)) \cap mem.ran
  IN [ran    |-> ActiveIn(raw),
      rested |-> DOMAIN raw \ ActiveIn(raw),
      exempt |-> ((mem.exempt \cap DOMAIN raw) \cup resumed) \ want,
      paused |-> ((mem.paused \cap DOMAIN raw) \ (resumed \cap want)) \cup (halted \cap want)]

Verdict(raw, cfg, mem, skip) ==
  LET want   == Wanted(raw, cfg)
      judged == Judged(raw, mem, want)
  IN IF ~Configured(cfg) THEN [mem |-> mem, start |-> {}, stop |-> {}]
     ELSE [mem   |-> judged,
           start |-> want \ (ActiveIn(raw) \cup judged.paused \cup skip),
           stop  |-> (Managed(raw, cfg) \cap ActiveIn(raw)) \ (want \cup judged.exempt \cup skip)]

----------------------------------------------------------------------------
(* A manual reorder of one torrent: the keys it writes. *)

\* The order of the whole list breaks full ties by hash.
Above(raw, t, u) == Better(raw[t], raw[u]) \/ (~Better(raw[u], raw[t]) /\ t < u)

Neighbour(raw, t, u, dir) ==
  /\ IF dir = "up" THEN Above(raw, u, t) ELSE Above(raw, t, u)
  /\ ~\E v \in DOMAIN raw \ {t, u} :
       IF dir = "up" THEN Above(raw, u, v) /\ Above(raw, v, t)
                     ELSE Above(raw, t, v) /\ Above(raw, v, u)

Keyed(row, priority, pos) == [row EXCEPT !.priority = priority, !.pos = pos]

Reordered(raw, t, dir) ==
  LET positions == {raw[u].pos : u \in DOMAIN raw}
      lowest  == CHOOSE p \in positions : \A q \in positions : p <= q
      highest == CHOOSE p \in positions : \A q \in positions : q <= p
  IN CASE dir = "top"    -> [raw EXCEPT ![t] = Keyed(@, 3, lowest - 1)]
       [] dir = "bottom" -> [raw EXCEPT ![t] = Keyed(@, 0, highest + 1)]
       [] OTHER ->
            IF ~\E u \in DOMAIN raw \ {t} : Neighbour(raw, t, u, dir) THEN raw
            ELSE LET u == CHOOSE u \in DOMAIN raw \ {t} : Neighbour(raw, t, u, dir)
                 IN [raw EXCEPT ![t] = Keyed(@, raw[u].priority, raw[u].pos),
                                ![u] = Keyed(@, raw[t].priority, raw[t].pos)]
=============================================================================
