----------------------------- MODULE PolicyTick -----------------------------
(***************************************************************************)
(* The automation of the desktop client: one pass per poll over the rows   *)
(* the poll read (policy.rs run_tick), with the completion hook, the seed  *)
(* goals, the queue, the pause windows of the schedule and the global      *)
(* limits.  A pass takes the memory of the automation and puts it back     *)
(* when it ends (model.rs).  Each call of it awaits the daemon; in between *)
(* the user commands it, the clock moves on, and the next poll may begin a *)
(* pass beside a slow one, which finds no memory to take.  The bandwidth   *)
(* stage, which shares no state with these, is BandwidthRules; the moves   *)
(* are MoveOnComplete.                                                     *)
(***************************************************************************)
EXTENDS QueuePolicy

CONSTANT Setups   \* the settings and first rows a session may have

Kinds == {"pause", "start", "force", "reorder", "erase", "complete", "seed",
          "message", "crawl", "grid", "reconnect", "overlap", "rpc", "lost"}
Grids == {"Open", "Limited", "Paused"}

\* Where a pass awaits the daemon; stages that call nobody are passed over.
Stages == {"idle", "goals", "queue", "start", "schedule", "moves"}
Passes == {1, 2}   \* bound: those under way at a time

NoRatio == -1
NoLimits == "none"

RowType ==
  [complete : BOOLEAN, active : BOOLEAN, healthy : BOOLEAN, forced : BOOLEAN,
   priority : 0..3, pos : Int, started : Nat, ratio : Nat,
   rate : 0..1]   \* bound: whether it transfers; what is stopped does not
IsTable(table) ==
  /\ DOMAIN table \subseteq Torrents
  /\ table \in [DOMAIN table -> RowType]
  /\ \A t \in DOMAIN table : ~table[t].active => table[t].rate = 0

\* No torrent is ever off the window: the queue wants them all.
HasRoom(s) ==
  /\ \A cap \in {s.queue.downloads, s.queue.uploads, s.queue.total} :
       cap = 0 \/ Cardinality(DOMAIN s.rows) <= cap
  /\ s.queue.slow = 0
  /\ \A t \in DOMAIN s.rows : s.rows[t].healthy /\ ~s.rows[t].forced
  /\ {"force", "message"} \cap s.events = {}

ASSUME SetupsAssumption ==
  \A s \in Setups :
    /\ s.queue \in Configs
    /\ s.goal \in Nat /\ s.removes \in BOOLEAN
    /\ IsTable(s.rows)
    /\ s.roomy \in BOOLEAN /\ (s.roomy => HasRoom(s))
    /\ s.events \subseteq Kinds
    /\ s.budget \in Nat   \* bound: commands, changes in the daemon, faults, clock turns

VARIABLES
  settings,    \* the member of Setups in force
  rows,        \* the daemon's torrents
  limits,      \* the global limits the daemon applies
  grid,        \* what the schedule evaluates to now
  policy,      \* PolicyState where the model keeps it between passes
  pass,        \* the passes under way, each with the memory it took
  announced,   \* how often the completion of a torrent was announced
  holder,      \* who stopped a torrent last
  calm,        \* whether a pause window began and went on undisturbed
  events       \* what happened so far, counted

daemonVars == <<rows, limits>>
historyVars == <<announced, holder, calm>>
vars == <<settings, daemonVars, grid, policy, pass, historyVars, events>>

Policies ==
  [seen    : [Torrents -> {"absent", "partial", "complete"}],
   stopped : [Torrents -> Nat \cup {NoRatio}],
   queue   : Memories,
   window  : BOOLEAN,
   held    : SUBSET Torrents,
   applied : Grids \cup {NoLimits}]

Fresh ==
  [seen    |-> [t \in Torrents |-> "absent"],
   stopped |-> [t \in Torrents |-> NoRatio],
   queue   |-> Forgotten,
   window  |-> FALSE,
   held    |-> {},
   applied |-> NoLimits]

Idle ==
  [stage |-> "idle", own |-> Fresh, raw |-> <<>>, acted |-> {}, start |-> {}, clean |-> TRUE]

TypeOK ==
  /\ settings \in Setups
  /\ IsTable(rows)
  /\ limits \in Grids \cup {NoLimits}
  /\ grid \in Grids
  /\ \A m \in {policy} \cup {pass[p].own : p \in Passes} :
       m \in Policies /\ (~m.window => m.held = {})
  /\ \A p \in Passes :
       /\ pass[p].stage \in Stages /\ IsTable(pass[p].raw)
       /\ pass[p].acted \subseteq Torrents /\ pass[p].start \subseteq Torrents
       /\ pass[p].clean \in BOOLEAN
  /\ announced \in [Torrents -> 0..2]
  /\ holder \in [Torrents -> {"nobody", "user", "again", "unseen", "queue", "window", "botched", "goal"}]
  /\ calm \in {"disturbed", "quiet", "settled"}
  /\ events \in 0..settings.budget

Init ==
  /\ settings \in Setups
  /\ rows = settings.rows
  /\ limits = NoLimits
  /\ grid = "Open"
  /\ policy = Fresh
  /\ pass = [p \in Passes |-> Idle]
  /\ announced = [t \in Torrents |-> 0]
  /\ holder = [t \in Torrents |-> "nobody"]
  /\ calm = "disturbed"
  /\ events = 0

----------------------------------------------------------------------------
(* The daemon. *)

Live == DOMAIN rows

\* The daemon stamps a torrent when it first starts, once.
Stamp(table, t) ==
  IF table[t].started # 0 THEN table[t].started
  ELSE Cardinality({u \in DOMAIN table : table[u].started # 0}) + 1

StartedRow(table, t) ==
  [table[t] EXCEPT !.active = TRUE, !.rate = 1, !.started = Stamp(table, t)]
HeldRow(table, t) == [table[t] EXCEPT !.active = FALSE, !.rate = 0]

Started(S) == [t \in Live |-> IF t \in S /\ ~rows[t].active THEN StartedRow(rows, t) ELSE rows[t]]
Held(S) == [t \in Live |-> IF t \in S THEN HeldRow(rows, t) ELSE rows[t]]
Erased(S) == [t \in Live \ S |-> rows[t]]

Counted(kind) ==
  kind \in settings.events /\ events < settings.budget /\ events' = events + 1

Deed(S, after, who) ==
  /\ rows' = after
  /\ holder' = [t \in Torrents |-> IF t \in S THEN who ELSE holder[t]]

\* A batch is one multicall: a hash that is gone makes it fail for the caller
\* and is done for the others, a refused one does nothing, and an answer may
\* get lost after the deed.
Call(S, after, who, ok) ==
  \/ ok = (S \subseteq Live) /\ Deed(S, after, who) /\ UNCHANGED events
  \/ Counted("rpc") /\ ~ok /\ UNCHANGED <<rows, holder>>
  \/ Counted("lost") /\ ~ok /\ Deed(S, after, who)

NoCall(ok) == ok /\ UNCHANGED <<rows, holder, events>>

----------------------------------------------------------------------------
(* A pass. *)

Begun == {p \in Passes : pass[p].stage # "idle"}

\* What the automation remembers, in a pass or between two.
Recollection == IF Begun = {} THEN policy ELSE pass[CHOOSE p \in Begun : TRUE].own

Onward(p, ok, stage, own) ==
  pass' = [pass EXCEPT ![p].stage = stage, ![p].clean = @ /\ ok, ![p].own = own]

\* Completions are edges between two polls of one session.
Seen == [t \in Torrents |->
  IF t \notin Live THEN "absent" ELSE IF rows[t].complete THEN "complete" ELSE "partial"]

CompletionsOfStrangers == {t \in Live : policy.seen[t] # "complete" /\ rows[t].complete}

Completions == {t \in Live : policy.seen[t] = "partial" /\ rows[t].complete}

\* A goal that stopped a torrent stops it again only when its ratio has grown.
Reached(raw, stopped) ==
  {t \in ActiveIn(raw) :
     /\ raw[t].complete
     /\ settings.goal > 0 /\ raw[t].ratio >= settings.goal
     /\ raw[t].ratio > stopped[t]}

\* The memory is taken, which leaves a blank in its place: a pass that begins
\* beside another takes that.
Poll(p) ==
  /\ pass[p].stage = "idle" /\ (p = 2 => 1 \in Begun)
  /\ IF Begun = {} THEN UNCHANGED <<holder, calm, events>>
     ELSE /\ Counted("overlap") /\ calm' = "disturbed"
          /\ holder' = [t \in Torrents |-> CASE holder[t] \in {"user", "again"} -> "unseen"
                                             [] holder[t] = "window" -> "botched"
                                             [] OTHER -> holder[t]]
  /\ pass' = [q \in Passes |->
       IF q # p THEN [pass[q] EXCEPT !.clean = @ /\ pass[q].stage = "idle"]
       ELSE [Idle EXCEPT !.stage = IF Reached(rows, policy.stopped) = {} THEN "queue" ELSE "goals",
                         !.own = [policy EXCEPT !.seen = Seen],
                         !.raw = rows, !.clean = Begun = {}]]
  /\ policy' = Fresh
  /\ announced' = [t \in Torrents |->
       IF t \in Completions /\ announced[t] < 2 THEN announced[t] + 1 ELSE announced[t]]
  /\ UNCHANGED <<settings, daemonVars, grid>>

SeedGoals(p) ==
  /\ pass[p].stage = "goals"
  /\ LET own == pass[p].own
         reached == Reached(pass[p].raw, own.stopped)
     IN \E ok \in BOOLEAN :
       /\ Call(reached, IF settings.removes THEN Erased(reached) ELSE Held(reached), "goal", ok)
       /\ pass' = [pass EXCEPT ![p] =
            [pass[p] EXCEPT
               !.stage = "queue", !.clean = @ /\ ok, !.acted = reached,
               !.own = [own EXCEPT !.stopped = [t \in Torrents |->
                 IF ok /\ ~settings.removes /\ t \in reached THEN pass[p].raw[t].ratio
                 ELSE own.stopped[t]]]]]
  /\ UNCHANGED <<settings, limits, grid, policy, announced, calm>>

HoldQueued(p) ==
  /\ pass[p].stage = "queue"
  /\ LET verdict == Verdict(pass[p].raw, settings.queue, pass[p].own.queue, pass[p].acted) IN
     \E ok \in BOOLEAN :
       /\ IF verdict.stop = {} THEN NoCall(ok)
          ELSE Call(verdict.stop, Held(verdict.stop), "queue", ok)
       /\ pass' = [pass EXCEPT ![p] =
            [pass[p] EXCEPT
               !.stage = IF verdict.start = {} THEN "schedule" ELSE "start", !.clean = @ /\ ok,
               !.own = [pass[p].own EXCEPT !.queue = verdict.mem], !.start = verdict.start]]
  /\ UNCHANGED <<settings, limits, grid, policy, announced, calm>>

StartQueued(p) ==
  /\ pass[p].stage = "start"
  /\ \E ok \in BOOLEAN :
       /\ Call(pass[p].start, Started(pass[p].start), "nobody", ok)
       /\ Onward(p, ok, "schedule", pass[p].own)
  /\ UNCHANGED <<settings, limits, grid, policy, announced, calm>>

Calmer(clean, window) ==
  IF calm = "disturbed" THEN calm ELSE IF clean /\ window THEN "settled" ELSE "quiet"

\* What runs by the rows is not all that runs.
HoldingWithoutStarts(p) == ActiveIn(pass[p].raw)

Holding(p) == ActiveIn(pass[p].raw) \cup pass[p].start

\* Entering a pause window holds what runs and what this pass has started, and
\* tells the queue; when that fails the window is entered again next time.
EnterWindow(p) ==
  /\ pass[p].stage = "schedule" /\ grid = "Paused" /\ ~pass[p].own.window
  /\ LET own == pass[p].own IN
     \E ok \in BOOLEAN :
       /\ IF Holding(p) = {} THEN NoCall(ok)
          ELSE Call(Holding(p), Held(Holding(p)),
                    IF ok /\ Begun = {p} THEN "window" ELSE "botched", ok)
       /\ Onward(p, ok, "moves",
            IF ok THEN [own EXCEPT !.window = TRUE, !.held = @ \cup Holding(p),
                                   !.queue.paused = @ \cup Holding(p)]
            ELSE [own EXCEPT !.held = {}])
       /\ calm' = Calmer(pass[p].clean /\ ok, ok)
  /\ UNCHANGED <<settings, limits, grid, policy, announced>>

StayInWindow(p) ==
  /\ pass[p].stage = "schedule" /\ grid = "Paused" /\ pass[p].own.window
  /\ Onward(p, TRUE, "moves", pass[p].own)
  /\ calm' = Calmer(pass[p].clean, TRUE)
  /\ UNCHANGED <<settings, daemonVars, grid, policy, announced, holder, events>>

\* Leaving a window only tells the queue, which starts what it wants to run.
\* Limits are pushed when they change, and never inside a pause window.
LeaveWindowKeepingHolds(own) ==
  IF own.window THEN [own EXCEPT !.window = FALSE, !.held = {}] ELSE own

LeaveWindowFreeingAll(own) ==
  IF own.window THEN [own EXCEPT !.window = FALSE, !.held = {}, !.queue.paused = {}] ELSE own

LeaveWindowKeepingTheList(own) ==
  IF own.window THEN [own EXCEPT !.window = FALSE, !.queue.paused = @ \ own.held] ELSE own

LeaveWindow(own) ==
  IF own.window
  THEN [own EXCEPT !.window = FALSE, !.held = {}, !.queue.paused = @ \ own.held] ELSE own

ApplyLimits(p) ==
  /\ pass[p].stage = "schedule" /\ grid # "Paused"
  /\ LET left == LeaveWindow(pass[p].own) IN
     \/ left.applied = grid /\ Onward(p, TRUE, "moves", left) /\ UNCHANGED <<limits, events>>
     \/ /\ left.applied # grid
        /\ \/ limits' = grid /\ Onward(p, TRUE, "moves", [left EXCEPT !.applied = grid])
              /\ UNCHANGED events
           \/ Counted("rpc") /\ Onward(p, TRUE, "moves", left) /\ UNCHANGED limits
           \/ Counted("lost") /\ Onward(p, TRUE, "moves", left) /\ limits' = grid
  /\ UNCHANGED <<settings, rows, grid, policy, historyVars>>

\* The pass ends with the stage of the moves and puts its memory back, over
\* what another may have put there.
GiveBack(p) ==
  /\ pass[p].stage = "moves"
  /\ policy' = pass[p].own
  /\ pass' = [pass EXCEPT ![p] = Idle]
  /\ UNCHANGED <<settings, daemonVars, grid, historyVars, events>>

PassStep(p) ==
  \/ Poll(p) \/ SeedGoals(p) \/ HoldQueued(p) \/ StartQueued(p)
  \/ EnterWindow(p) \/ StayInWindow(p) \/ ApplyLimits(p) \/ GiveBack(p)

----------------------------------------------------------------------------
(* What happens meanwhile. *)

\* The last rows the queue judged, or is about to judge, show the torrent running.
SeenRunning(t) ==
  IF Begun = {} THEN t \in policy.queue.ran
  ELSE \A p \in Begun : /\ Begun = {p}
                         /\ t \in IF pass[p].stage \in {"goals", "queue"}
                                  THEN ActiveIn(pass[p].raw) ELSE pass[p].own.queue.ran

\* The user pauses or stops a torrent, perhaps one resumed in the window that
\* held it, or starts it.
UserPauses(t) ==
  /\ Counted("pause") /\ rows[t].active
  /\ Deed({t}, Held({t}), CASE ~SeenRunning(t) -> "unseen"
                            [] SeenRunning(t) /\ t \in Recollection.held -> "again"
                            [] OTHER -> "user")
UserStarts(t) == Counted("start") /\ ~rows[t].active /\ Deed({t}, Started({t}), "nobody")
UserErases(t) == Counted("erase") /\ Deed({t}, Erased({t}), "user")

UserForces(t) == Counted("force") /\ rows' = [rows EXCEPT ![t].forced = ~@]
UserReorders(t) ==
  /\ Counted("reorder")
  /\ \E dir \in {"top", "up", "down", "bottom"} : rows' = Reordered(rows, t, dir)

\* The daemon completes a download, uploads, reports a problem or crawls.
DaemonCompletes(t) ==
  /\ Counted("complete") /\ rows[t].active /\ ~rows[t].complete
  /\ rows' = [rows EXCEPT ![t].complete = TRUE]
DaemonSeeds(t) ==
  /\ Counted("seed") /\ rows[t].active /\ rows[t].complete
  /\ rows' = [rows EXCEPT ![t].ratio = @ + 1]
DaemonReports(t) ==
  /\ Counted("message")
  /\ rows' = [rows EXCEPT ![t].healthy = ~@]
DaemonCrawls(t) ==
  /\ Counted("crawl") /\ rows[t].active
  /\ rows' = [rows EXCEPT ![t].rate = 1 - @]

Meanwhile ==
  /\ \E t \in Live :
       \/ UserPauses(t) \/ UserStarts(t) \/ UserErases(t)
       \/ /\ UserForces(t) \/ UserReorders(t)
             \/ DaemonCompletes(t) \/ DaemonSeeds(t) \/ DaemonReports(t) \/ DaemonCrawls(t)
          /\ UNCHANGED holder
  /\ pass' = [p \in Passes |-> [pass[p] EXCEPT !.clean = p \notin Begun]]
  /\ calm' = "disturbed"
  /\ UNCHANGED <<settings, limits, grid, policy, announced>>

\* A window is quiet when it comes after another was left, and nothing happened
\* since the last poll before it.
ClockTurns ==
  /\ Counted("grid")
  /\ grid' \in Grids \ {grid}
  /\ calm' = IF grid' = "Paused" /\ ~Recollection.window /\ (\A p \in Passes : pass[p].clean)
             THEN "quiet" ELSE "disturbed"
  /\ UNCHANGED <<settings, daemonVars, policy, pass, announced, holder>>

\* The session is lost and found, and the memory reset, which a pass under way
\* undoes; the daemon may have been restarted, and then has forgotten its limits.
FreshButLimits == [Fresh EXCEPT !.applied = policy.applied]

Anew == Fresh

Reconnect ==
  /\ Counted("reconnect") /\ (Begun = {} \/ "overlap" \in settings.events)
  /\ policy' = Anew
  /\ limits' \in {limits, NoLimits}
  /\ IF Begun = {} THEN holder' = [t \in Torrents |-> "nobody"] /\ UNCHANGED calm
     ELSE calm' = "disturbed" /\ UNCHANGED holder
  /\ UNCHANGED <<settings, rows, grid, pass, announced>>

Next == (\E p \in Passes : PassStep(p)) \/ Meanwhile \/ ClockTurns \/ Reconnect

Spec == Init /\ [][Next]_vars
\* Polls follow on passes and calls are answered: what weak fairness of each
\* pass says, a step of a pass being always possible, by the stages every pass
\* comes through; the second runs only beside another.
Fairness ==
  /\ []<>(pass[1].stage = "idle") /\ []<>(pass[1].stage = "queue")
  /\ []<>(pass[2].stage = "idle")

FairSpec == Spec /\ Fairness
=============================================================================
