--------------------------- MODULE TickProperties ---------------------------
(***************************************************************************)
(* The properties of the desktop's automation.                             *)
(***************************************************************************)
EXTENDS PolicyTick

Over(cap, S) == cap > 0 /\ Cardinality(S) > cap

Halves(S) == <<{t \in S : ~rows[t].complete}, {t \in S : rows[t].complete}>>

----------------------------------------------------------------------------
(* Safety. *)

\* Inside a pause window in which nothing but time passes, nothing runs once a
\* pass succeeded: not what the queue wanted to run before it, not what it
\* starts in the pass that enters the window, not after a lost session.
WindowHalts ==
  calm = "settled" /\ Begun = {} => ActiveIn(rows) = {}

\* A completion is announced once, and what was complete when the client first
\* saw it never, whatever sessions were lost between; a pass beside another may
\* announce again what the other has announced, from the memory it puts back.
AnnouncedOnce ==
  \A t \in DOMAIN settings.rows : "overlap" \notin settings.events =>
    announced[t] <= IF settings.rows[t].complete THEN 0 ELSE 1

\* With room for all, the queue starts nothing the user stopped last.
StartsNoneOfHis ==
  \A p \in Passes, t \in DOMAIN rows \cap DOMAIN rows' :
    pass[p].stage = "start" /\ pass'[p].stage = "schedule" /\ settings.roomy
    /\ holder[t] = "user" /\ ~rows[t].active => ~rows'[t].active

\* With room for all, the queue does not start what the user paused; a new
\* session forgets who paused it, and so does a pause window that stopped it
\* too: after the pause, or before it, when he had resumed in the window what he
\* pauses in it (its end releases all it held, run_tick at SchedMemory::transition).
UserPauseStands == [][StartsNoneOfHis]_vars

----------------------------------------------------------------------------
(* Liveness, under FairSpec: events are bounded, so they end. *)

Charged ==
  {t \in Managed(rows, settings.queue) : rows[t].active /\ t \notin Recollection.queue.exempt}

\* In the end no more torrents run than the caps allow, but those the user
\* resumed, those that are forced and those too slow to count.
CapsHold ==
  <>[](/\ ~Over(settings.queue.downloads, Halves(Charged)[1])
       /\ ~Over(settings.queue.uploads, Halves(Charged)[2])
       /\ ~Over(settings.queue.total, Charged))

Misjudged ==
  {t \in Recollection.queue.paused \ Recollection.held : holder[t] \in {"queue", "botched"}}

Left ==
  {t \in Managed(rows, settings.queue) :
     ~rows[t].active /\ t \notin Recollection.held /\ holder[t] \in {"nobody", "queue", "window", "botched"}}

Full(cap, S) == cap > 0 /\ Cardinality(S \ Left) >= cap

\* In the end no torrent waits while there is room for it, unless the user
\* paused it or a seed goal stopped it, provided the queue never took for the
\* user's a hold of its own, or one by a window whose call went wrong or that
\* was entered beside another pass. A torrent that runs or that the user paused takes up room.
SlotsFill ==
  [](Misjudged = {}) =>
  <>[](LET managed == Halves(Managed(rows, settings.queue)) IN
       Configured(settings.queue) =>
         /\ Left \cap managed[1] # {} =>
              Full(settings.queue.downloads, managed[1])
              \/ Full(settings.queue.total, Managed(rows, settings.queue))
         /\ Left \cap managed[2] # {} =>
              Full(settings.queue.uploads, managed[2])
              \/ Full(settings.queue.total, Managed(rows, settings.queue)))

\* In the end, outside pause windows, the daemon has the limits of the hour,
\* though it forgets them when it restarts and refuses to be told. (Two things
\* make the memory believe in limits that are not in force, and then nothing is
\* pushed when the clock turns back to them: an answer that gets lost after the
\* deed, and the memory of a slow pass put back over that of a later one.)
LimitsFollow ==
  {"lost", "overlap"} \cap settings.events = {} => <>[](grid # "Paused" => limits = grid)

----------------------------------------------------------------------------
(* What comments say. *)

\* "A 1->0 edge on-window is always a manual pause" (queue.rs decide_queues):
\* the queue never takes a hold of its own for the user's.
OnlyUsersPause == Misjudged = {}
=============================================================================
