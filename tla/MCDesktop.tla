------------------------------ MODULE MCDesktop ------------------------------
(***************************************************************************)
(* Three engines of the desktop client for TLC.  They share no state, so   *)
(* each behaviour is one of one of them, with the two others asleep.       *)
(***************************************************************************)
EXTENDS TickProperties, BandwidthRules, RssFeeds, TLC

VARIABLE engine

rest == <<engine>>
desktopVars == <<engine, vars, shapeVars, rssVars>>

----------------------------------------------------------------------------
(* The sessions of the queue, the goals and the schedule: each with the    *)
(* caps, the torrents and the kinds of events that bring a case about.     *)

Row(complete, active, started) ==
  [complete |-> complete, active |-> active, healthy |-> TRUE, forced |-> FALSE,
   priority |-> 1, pos |-> 0, started |-> started, ratio |-> 0, rate |-> IF active THEN 1 ELSE 0]
Waiting == Row(FALSE, FALSE, 0)
Loading == Row(FALSE, TRUE, 1)
Seeding == Row(TRUE, TRUE, 1)

Caps(downloads, uploads, total) ==
  [downloads |-> downloads, uploads |-> uploads, total |-> total, slow |-> 0]
Setup(caps, table, kinds, n) ==
  [queue |-> caps, goal |-> 0, removes |-> FALSE, roomy |-> FALSE, rows |-> table,
   events |-> kinds, budget |-> n]

CapsSetup ==
  Setup(Caps(1, 1, 0), 1 :> Waiting @@ 2 :> Loading @@ 3 :> Waiting,
        {"complete", "erase", "start", "pause", "reorder", "force", "message"}, 3)
TotalSetup ==
  Setup(Caps(0, 0, 2), 1 :> Seeding @@ 2 :> Loading @@ 3 :> Waiting,
        {"complete", "erase", "start", "pause", "reorder"}, 2)
WindowSetup ==
  [Setup(Caps(2, 2, 0), 1 :> Loading @@ 2 :> Waiting,
         {"grid", "reconnect", "rpc", "lost", "pause", "start", "erase"}, 4)
     EXCEPT !.roomy = TRUE]
LimitsSetup == [WindowSetup EXCEPT !.events = @ \ {"lost"}]
GoalSetup ==
  [Setup(Caps(1, 1, 2), 1 :> Seeding @@ 2 :> Loading,
         {"complete", "seed", "start", "rpc", "lost"}, 3) EXCEPT !.goal = 1]
RemoveSetup == [GoalSetup EXCEPT !.removes = TRUE]
SlowSetup ==
  [Setup(Caps(1, 1, 0), 1 :> Loading @@ 2 :> Loading, {"crawl", "pause", "start"}, 3)
     EXCEPT !.queue.slow = 1]
TightSetup ==
  Setup(Caps(1, 1, 0), 1 :> Loading @@ 2 :> Waiting, {"grid", "reconnect", "complete", "start"}, 3)

OverlapSetup ==
  Setup(Caps(1, 1, 0), 1 :> Loading @@ 2 :> Waiting,
        {"overlap", "reconnect", "complete", "pause", "start", "grid"}, 3)

AllSetups ==
  {CapsSetup, TotalSetup, WindowSetup, LimitsSetup, GoalSetup, RemoveSetup, SlowSetup, TightSetup,
   OverlapSetup}
\* The claim on holds.
HoldSetups == {Setup(Caps(1, 0, 0), 1 :> Loading @@ 2 :> Loading, {"complete"}, 1)}

----------------------------------------------------------------------------
(* A rule on a tag and one on a label; a plain rule and a smart one.       *)

SomeMatches == SUBSET {1, 2}

SomeCarries == "f" :> {1, 2} @@ "g" :> {2}
SomeScope == "x" :> {"g"} @@ "y" :> {"f", "g"}
SomeMatching == "x" :> {2} @@ "y" :> {1, 2}
OneEpisode == 1 :> 1 @@ 2 :> 1

----------------------------------------------------------------------------

DesktopInit ==
  /\ engine \in {"tick", "shape", "rss"}
  /\ \/ engine = "tick" /\ settings \in Setups
     \/ engine # "tick" /\ settings = GoalSetup
  /\ Init
  /\ \/ engine = "shape" /\ matching \in [Shapeable -> Matches]
     \/ engine # "shape" /\ matching = [t \in Shapeable |-> {}]
  /\ ShapeInit
  /\ RssInit

Ticks == engine = "tick" /\ Next /\ UNCHANGED <<rest, shapeVars, rssVars>>
ShapesOn == engine = "shape" /\ ShapeStep /\ UNCHANGED <<rest, vars, rssVars>>
Shapes == engine = "shape" /\ ShapeNext /\ UNCHANGED <<rest, vars, rssVars>>
DownloadsOn == engine = "rss" /\ PassStepRss /\ UNCHANGED <<rest, vars, shapeVars>>
Falls(r) == engine = "rss" /\ IntervalPasses(r) /\ UNCHANGED <<rest, vars, shapeVars>>
Downloads == engine = "rss" /\ RssNext /\ UNCHANGED <<rest, vars, shapeVars>>

DesktopNext == Ticks \/ Shapes \/ Downloads

\* Fairness, ShapeFairness and RssFairness, of the engine that is awake.
DesktopSpec ==
  /\ DesktopInit /\ [][DesktopNext]_desktopVars
  /\ engine = "tick" => Fairness
  /\ WF_desktopVars(ShapesOn)
  /\ WF_desktopVars(DownloadsOn) /\ \A r \in Rules : WF_desktopVars(Falls(r))
=============================================================================
