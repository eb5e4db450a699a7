--------------------------- MODULE SnapshotServer ---------------------------
(***************************************************************************)
(* The server's side of the live table: the polling loop (poller.rs), the  *)
(* caches it fills (state.rs) and the handlers of /api/state and           *)
(* /api/delta that read them (api.rs).                                     *)
(*                                                                         *)
(* The loop writes its caches one lock at a time and the handlers read     *)
(* them one lock at a time, on other threads.                              *)
(***************************************************************************)
EXTENDS SnapshotDelta, Naturals

CONSTANTS
  Window,       \* bound: revisions told apart (u64 in the code)
  FullEvery,    \* FULL_EVERY
  Slots,        \* bound: requests of the console under way at one time
  Recycles,     \* bound: revisions nobody holds come back; or end with Window
  Restarts      \* the server may be restarted

ASSUME ServerAssumption ==
  /\ Window \in Nat \ {0}
  /\ FullEvery \in Nat \ {0}
  /\ Recycles \in BOOLEAN
  /\ Restarts \in BOOLEAN

VARIABLES
  truth,        \* the daemon's torrents
  connected,    \* conn.phase = Connected
  poller,       \* where the loop is, with the rows it works on
  tick,         \* successful polls, modulo FullEvery
  revision,     \* AppState.revision
  cache,        \* the published snapshot; revision 0 while cold
  delta,        \* delta_cache; revision 0 while empty
  recent,       \* a request arrived within IDLE_AFTER
  requests      \* the console's requests, by slot

serverVars == <<connected, poller, tick, revision, cache, delta, recent>>

Revisions == 0..Window
NoRevision == Window + 1

\* prev_snapshot is not kept apart: it is written with the same snapshot right
\* before the cache, and only the loop reads it.
Snapshots == [rev : Revisions, rows : Tables]
Cold == [rev |-> 0, rows |-> Empty]

Deltas == [rev : Revisions, base : Revisions \cup {NoRevision}, diff : Diffs]
NoDelta == [rev |-> 0, base |-> NoRevision, diff |-> Nothing]

DeltaOf(prev, next) ==
  [rev |-> next.rev, base |-> prev.rev, diff |-> Diff(prev.rows, next.rows)]

\* A whole snapshot, as what it changes in an empty table.
Whole(snapshot) ==
  [rev |-> snapshot.rev, base |-> NoRevision, diff |-> Diff(Empty, snapshot.rows)]

\* In ensure_fresh, between the reads of the two caches, answered.
\* since = NoRevision asks for the whole state.
Stages == {"idle", "waiting", "between", "answered"}
Replies == {"none", "same", "delta", "full"}
Requests == [stage : Stages, resync : BOOLEAN, since : Revisions \cup {NoRevision},
             seen : Snapshots, reply : Replies, body : Deltas]
NoRequest == [stage |-> "idle", resync |-> FALSE, since |-> NoRevision, seen |-> Cold,
              reply |-> "none", body |-> NoDelta]

PollerPhases == {"top", "park", "parked", "poll", "store"}

ServerTypeOK ==
  /\ truth \in Tables
  /\ connected \in BOOLEAN
  /\ poller \in [phase : PollerPhases, next : Snapshots]
  /\ tick \in 0..(FullEvery - 1)
  /\ revision \in Revisions
  /\ cache \in Snapshots
  /\ delta \in Deltas
  /\ recent \in BOOLEAN
  /\ requests \in [Slots -> Requests]

AtTop == [phase |-> "top", next |-> Cold]

ServerInit ==
  /\ truth \in Tables
  /\ connected = FALSE
  /\ poller = AtTop
  /\ tick = 0 /\ revision = 0
  /\ cache = Cold /\ delta = NoDelta
  /\ recent = TRUE
  /\ requests = [r \in Slots |-> NoRequest]

\* Revisions are only compared for equality: instead of counting on, a revision
\* nobody holds is taken again.
Free(held) ==
  Revisions \ ({0, cache.rev, delta.rev, delta.base} \cup held \cup
               UNION {{requests[r].since, requests[r].seen.rev,
                       requests[r].body.rev, requests[r].body.base} : r \in Slots})

NextRevision(held) ==
  IF Recycles THEN CHOOSE n \in Free(held) : TRUE
  ELSE revision + 1

Numbered(held) == IF Recycles THEN Free(held) # {} ELSE revision < Window

----------------------------------------------------------------------------
(* The loop. *)

\* Only when no request came for IDLE_AFTER does the loop park itself.
CheckIdle ==
  /\ poller.phase = "top"
  /\ poller' = [poller EXCEPT !.phase = IF recent THEN "poll" ELSE "park"]
  /\ UNCHANGED <<truth, connected, tick, revision, cache, delta, recent, requests>>

\* From here on a notification is heard; one sent before is lost.
Park ==
  /\ poller.phase = "park"
  /\ poller' = [poller EXCEPT !.phase = "parked"]
  /\ UNCHANGED <<truth, connected, tick, revision, cache, delta, recent, requests>>

IdleElapses ==
  /\ recent /\ poller.phase = "top"
  /\ recent' = FALSE
  /\ UNCHANGED <<truth, connected, poller, tick, revision, cache, delta, requests>>

PollNeverFull(held) ==
  /\ poller.phase = "poll"
  /\ Numbered(held)
  /\ connected' = TRUE
  /\ revision' = NextRevision(held)
  /\ LET next == [rev |-> NextRevision(held), rows |-> truth]
     IN /\ delta' = IF cache = Cold \/ ~connected THEN NoDelta ELSE DeltaOf(cache, next)
        /\ poller' = [phase |-> "store", next |-> next]
  /\ UNCHANGED <<truth, tick, cache, recent, requests>>

\* poll_once up to the delta: against the previous snapshot, none when the
\* connection is new and every FullEvery ticks.
Poll(held) ==
  /\ poller.phase = "poll"
  /\ Numbered(held)
  /\ connected' = TRUE
  /\ revision' = NextRevision(held)
  /\ LET next == [rev |-> NextRevision(held), rows |-> truth]
         full == cache = Cold \/ ~connected \/ tick = 0
     IN /\ delta' = IF full THEN NoDelta ELSE DeltaOf(cache, next)
        /\ poller' = [phase |-> "store", next |-> next]
  /\ UNCHANGED <<truth, tick, cache, recent, requests>>

\* set_disconnected publishes an empty table, always whole.
PollFails(held) ==
  /\ poller.phase = "poll"
  /\ Numbered(held)
  /\ connected' = FALSE
  /\ revision' = NextRevision(held)
  /\ delta' = NoDelta
  /\ poller' = [phase |-> "store", next |-> [rev |-> NextRevision(held), rows |-> Empty]]
  /\ UNCHANGED <<truth, tick, cache, recent, requests>>

\* The cache is replaced after the delta; then the interval, or the backoff.
StoreCache ==
  /\ poller.phase = "store"
  /\ cache' = poller.next
  /\ tick' = IF connected THEN (tick + 1) % FullEvery ELSE tick
  /\ poller' = AtTop
  /\ UNCHANGED <<truth, connected, revision, delta, recent, requests>>

----------------------------------------------------------------------------
(* The handlers. *)

\* A request arrives, mark_request: only a loop that already waits hears it.
\* Its way to the server takes no step of its own; it may wait there as long.
Arrive(r, since, resync) ==
  /\ requests' = [requests EXCEPT ![r] = [NoRequest EXCEPT !.stage = "waiting",
                                            !.since = since, !.resync = resync]]
  /\ recent' = TRUE
  /\ poller' = IF poller.phase = "parked" THEN [poller EXCEPT !.phase = "poll"] ELSE poller
  /\ UNCHANGED <<truth, connected, tick, revision, cache, delta>>

Answer(r, reply, body) ==
  requests' = [requests EXCEPT ![r] =
                 [NoRequest EXCEPT !.stage = "answered", !.resync = requests[r].resync,
                                   !.reply = reply, !.body = body]]

\* ensure_fresh waits for a snapshot, at most COLD_WAIT; then the cache is read.
ReadCache(r) ==
  /\ requests[r].stage = "waiting"
  /\ IF requests[r].since = NoRevision THEN Answer(r, "full", Whole(cache))
     ELSE IF cache = Cold THEN Answer(r, "delta", Whole(Cold))
     ELSE IF requests[r].since = cache.rev THEN Answer(r, "same", NoDelta)
     ELSE requests' = [requests EXCEPT ![r].stage = "between", ![r].seen = cache]
  /\ UNCHANGED <<truth, serverVars>>

\* get_delta: the cached delta if it leads from the client's revision to the
\* snapshot read before, else 409 with that snapshot.  A delta the client's
\* ETag names is answered 304, which to the client is an answer lost.
ReadDelta(r) ==
  /\ requests[r].stage = "between"
  /\ LET seen == requests[r].seen
     IN IF delta # NoDelta /\ delta.base = requests[r].since /\ delta.rev = seen.rev
        THEN Answer(r, "delta", delta)
        ELSE Answer(r, "full", Whole(seen))
  /\ UNCHANGED <<truth, serverVars>>

\* The server's process ends and starts again: everything it held is gone, and
\* the fetches it had not answered fail.
Restart ==
  /\ Restarts
  /\ connected' = FALSE /\ poller' = AtTop
  /\ tick' = 0 /\ revision' = 0
  /\ cache' = Cold /\ delta' = NoDelta
  /\ recent' = TRUE
  /\ requests' = [r \in Slots |-> IF requests[r].stage = "answered" THEN requests[r]
                                  ELSE NoRequest]
  /\ UNCHANGED truth
=============================================================================
