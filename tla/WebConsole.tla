----------------------------- MODULE WebConsole -----------------------------
(***************************************************************************)
(* The browser's side of the live table: the poll ticks of ipc/web.ts, the *)
(* torrents store (store/torrents.ts) and the optimistic transport verbs   *)
(* (actions.ts), over the server of SnapshotServer.                        *)
(*                                                                         *)
(* Several ticks may be under way at one time: activeRefetch and a tab     *)
(* that becomes visible start one beside those whose answers are awaited.  *)
(***************************************************************************)
EXTENDS SnapshotServer

CONSTANTS
  NoStatus,     \* no override, no command
  Verbs,        \* the statuses the operator may ask for
  Changing      \* bound: the torrents that change by themselves

ASSUME ConsoleAssumption ==
  /\ NoStatus \notin Statuses
  /\ Verbs \subseteq Statuses
  /\ Changing \subseteq Hashes

VARIABLES
  pollRevision, \* the revision the next tick asks from
  store,        \* the torrents store
  optimistic,   \* its status overrides
  aged,         \* overrides older than OPTIMISTIC_TTL_MS
  commands      \* the transport commands under way

consoleVars == <<pollRevision, store, optimistic, aged, commands>>
vars == <<truth, serverVars, requests, consoleVars>>

\* overlaid, which the code does not keep: the rows an override was laid over
\* since the store last took a whole table.
Stores == [rev : Revisions, rows : Tables, overlaid : SUBSET Hashes]

TypeOK ==
  /\ ServerTypeOK
  /\ pollRevision \in Revisions \cup {NoRevision}
  /\ store \in Stores
  /\ optimistic \in [Hashes -> Statuses \cup {NoStatus}]
  /\ aged \subseteq Hashes
  /\ commands \in [Hashes -> Statuses \cup {NoStatus}]

Init ==
  /\ ServerInit
  /\ pollRevision = NoRevision
  /\ store = [rev |-> 0, rows |-> Empty, overlaid |-> {}]
  /\ optimistic = [h \in Hashes |-> NoStatus]
  /\ aged = {}
  /\ commands = [h \in Hashes |-> NoStatus]

----------------------------------------------------------------------------
(* The store. *)

\* applyOptimistic: an override goes once its row is gone, shows the status
\* already, or it aged; the others are laid over the rows.
Standing(rows, overrides) ==
  {h \in Hashes \ aged :
     overrides[h] # NoStatus /\ rows[h] # NoRow /\ rows[h].status # overrides[h]}

ShowRows(rows, overrides) ==
  [h \in Hashes |->
     IF h \in Standing(rows, overrides)
     THEN [rows[h] EXCEPT !.status = overrides[h]] ELSE rows[h]]

Replace(rev, rows, overlaid) ==
  LET kept == Reconcile(store.rows, rows)
  IN /\ store' = [rev |-> rev, rows |-> ShowRows(kept, optimistic),
                  overlaid |-> overlaid \cup Standing(kept, optimistic)]
     /\ optimistic' = [h \in Hashes |->
                         IF h \in Standing(kept, optimistic) THEN optimistic[h] ELSE NoStatus]
     /\ aged' = aged \cap Standing(kept, optimistic)
     /\ UNCHANGED commands

----------------------------------------------------------------------------
(* The ticks. *)

\* pollTick up to its fetch: the whole state first, deltas from then on.
StartTick(r) ==
  /\ requests[r].stage = "idle"
  /\ Arrive(r, pollRevision, FALSE)
  /\ UNCHANGED consoleVars

Finished(r) == requests' = [requests EXCEPT ![r] = NoRequest]

\* The whole state, asked for by a tick, by a tick's 409 or by a resync; only a
\* tick moves pollRevision.
TakeFull(r) ==
  /\ requests[r].stage = "answered" /\ requests[r].reply = "full"
  /\ LET body == requests[r].body
     IN /\ Replace(body.rev, Apply(Empty, body.diff), {})
        /\ pollRevision' = IF requests[r].resync THEN pollRevision ELSE body.rev
  /\ Finished(r)
  /\ UNCHANGED <<truth, serverVars>>

TakeDeltaUnchecked(r) ==
  /\ requests[r].stage = "answered" /\ requests[r].reply = "delta"
  /\ LET body == requests[r].body
     IN /\ Replace(body.rev, Apply(store.rows, body.diff), store.overlaid)
        /\ pollRevision' = body.rev
  /\ Finished(r)
  /\ UNCHANGED <<truth, serverVars>>

\* A delta: pollRevision moves, then applyDelta checks its base against the
\* store.  A rejected one is followed by a request for the whole state.
TakeDelta(r) ==
  /\ requests[r].stage = "answered" /\ requests[r].reply = "delta"
  /\ LET body == requests[r].body
     IN /\ pollRevision' = body.rev
        /\ IF body.base = store.rev
           THEN /\ Replace(body.rev, Apply(store.rows, body.diff), store.overlaid)
                /\ Finished(r)
                /\ UNCHANGED <<truth, serverVars>>
           ELSE /\ Arrive(r, NoRevision, TRUE)
                /\ UNCHANGED <<store, optimistic, aged, commands>>

TakeSame(r) ==
  /\ requests[r].stage = "answered" /\ requests[r].reply = "same"
  /\ Finished(r)
  /\ UNCHANGED <<truth, serverVars, consoleVars>>

\* The fetch, or the body after its headers, fails.
LoseAnswer(r) ==
  /\ requests[r].stage = "answered"
  /\ Finished(r)
  /\ UNCHANGED <<truth, serverVars, consoleVars>>

Take(r) == TakeFull(r) \/ TakeDelta(r) \/ TakeSame(r)

----------------------------------------------------------------------------
(* The transport verbs. *)

\* markOptimistic, and the command sent.
Ask(h, status) ==
  /\ commands[h] = NoStatus /\ store.rows[h] # NoRow
  /\ LET asked == [optimistic EXCEPT ![h] = status]
         standing == (Standing(store.rows, asked) \ aged) \cup
                     (IF store.rows[h].status # status THEN {h} ELSE {})
     IN /\ optimistic' = [k \in Hashes |-> IF k \in standing THEN asked[k] ELSE NoStatus]
        /\ aged' = {}
        /\ store' = [store EXCEPT
                       !.rows = [k \in Hashes |-> IF k \in standing
                                                  THEN [@[k] EXCEPT !.status = asked[k]]
                                                  ELSE @[k]],
                       !.overlaid = @ \cup standing]
  /\ commands' = [commands EXCEPT ![h] = status]
  /\ UNCHANGED <<truth, serverVars, requests, pollRevision>>

\* post_cmd: the daemon does it, and a parked loop hears of it; a loop under way
\* does not.
CommandDone(h) ==
  /\ commands[h] # NoStatus
  /\ connected
  /\ truth' = IF truth[h] = NoRow THEN truth
              ELSE [truth EXCEPT ![h].status = commands[h]]
  /\ poller' = IF poller.phase = "parked" THEN [poller EXCEPT !.phase = "poll"] ELSE poller
  /\ commands' = [commands EXCEPT ![h] = NoStatus]
  /\ UNCHANGED <<connected, tick, revision, cache, delta, recent, requests,
                 pollRevision, store, optimistic, aged>>

\* The server is not connected, or the daemon refuses: clearOptimistic.
CommandRefused(h) ==
  /\ commands[h] # NoStatus
  /\ optimistic' = [optimistic EXCEPT ![h] = NoStatus]
  /\ aged' = aged \ {h}
  /\ commands' = [commands EXCEPT ![h] = NoStatus]
  /\ UNCHANGED <<truth, serverVars, requests, pollRevision, store>>

OverrideAges(h) ==
  /\ optimistic[h] # NoStatus /\ h \notin aged
  /\ aged' = aged \cup {h}
  /\ UNCHANGED <<truth, serverVars, requests, pollRevision, store, optimistic, commands>>

----------------------------------------------------------------------------

\* Torrents start, stop, move, come and go at the daemon.
DaemonChanges ==
  /\ \E h \in Changing, row \in Rows \cup {NoRow} :
       /\ row # truth[h]
       /\ truth' = [truth EXCEPT ![h] = row]
  /\ UNCHANGED <<serverVars, requests, consoleVars>>

\* The revisions the console holds, which the server does not take again.
Held == {pollRevision, store.rev}

PollerStep ==
  /\ CheckIdle \/ Park \/ Poll(Held) \/ PollFails(Held) \/ StoreCache
  /\ UNCHANGED consoleVars

ServeStep(r) == (ReadCache(r) \/ ReadDelta(r)) /\ UNCHANGED consoleVars

Next ==
  \/ PollerStep
  \/ (IdleElapses \/ Restart) /\ UNCHANGED consoleVars
  \/ \E r \in Slots : ServeStep(r)
  \/ \E r \in Slots : StartTick(r) \/ Take(r) \/ LoseAnswer(r)
  \/ \E h \in Hashes :
       \/ \E status \in Verbs : Ask(h, status)
       \/ CommandDone(h) \/ CommandRefused(h) \/ OverrideAges(h)
  \/ DaemonChanges

Spec == Init /\ [][Next]_vars

\* The loop and the handlers run, a visible tab keeps polling, answers are not
\* lost for ever and the clock moves on.
Fairness ==
  /\ WF_vars(PollerStep)
  /\ WF_vars(\E r \in Slots : StartTick(r))
  /\ \A r \in Slots : WF_vars(ServeStep(r)) /\ SF_vars(Take(r))
  /\ \A h \in Hashes : WF_vars(OverrideAges(h))

FairSpec == Spec /\ Fairness
=============================================================================
