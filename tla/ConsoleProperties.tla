------------------------- MODULE ConsoleProperties -------------------------
(***************************************************************************)
(* What the live table promises to the one who looks at it.                *)
(***************************************************************************)
EXTENDS WebConsole

StatusOf(row) == IF row = NoRow THEN NoStatus ELSE row.status

----------------------------------------------------------------------------
(* Safety. *)

\* A console at the server's revision shows the server's table: the same
\* torrents, and, but for the rows an override was laid over, the same statuses.
\* Deltas only name what changed and 304 nothing at all: this says that whatever
\* the order in which the answers of overlapping ticks and resyncs come in, and
\* whatever connections get lost between, no delta is laid over a table it was
\* not computed from (delta.rs diff, api.rs get_delta, torrents.ts applyDelta).
SameRevisionSameTable ==
  store.rev = cache.rev =>
    \A h \in Hashes :
      /\ store.rows[h] = NoRow <=> cache.rows[h] = NoRow
      /\ h \notin store.overlaid => StatusOf(store.rows[h]) = StatusOf(cache.rows[h])

----------------------------------------------------------------------------
(* Liveness. *)

\* Once the daemon's torrents keep still, the server stays connected and the
\* operator asks for nothing, the console comes to show exactly what the daemon
\* has: through parked loops that missed their wakeup, lost answers, stale
\* resyncs, rejected deltas, restarts of the server and the rows that overrides
\* left behind (poller.rs run and FULL_EVERY, web.ts pollTick, torrents.ts
\* applyOptimistic).
CatchesUp ==
  \A table \in Tables :
    <>[](truth = table /\ connected /\ \A h \in Hashes : commands[h] = NoStatus)
      => <>[](\A h \in Hashes : StatusOf(store.rows[h]) = StatusOf(table[h]))
=============================================================================
