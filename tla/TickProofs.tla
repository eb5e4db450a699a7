----------------------------- MODULE TickProofs -----------------------------
(***************************************************************************)
(* Proofs about the automation of the desktop client, for any torrents,    *)
(* settings, events and two passes at a time.                              *)
(*                                                                         *)
(* A completion is announced once as long as no pass runs beside another:  *)
(* a torrent whose completion was announced, or that was complete from the *)
(* start, is complete or gone for good, and no memory, taken or not, still *)
(* has it as partial; only such a memory announces.                        *)
(*                                                                         *)
(* Every state is well typed.  What needs an argument is that a reorder    *)
(* finds an outermost position: a finite set has one.                      *)
(*                                                                         *)
(* Nothing runs in a pause window that nobody disturbs.  What a pass holds *)
(* when it enters the window covers what runs, since the rows it read and  *)
(* what it started cover that while nobody else acts; and what the queue   *)
(* would start later is among what it holds or knows to be paused, since   *)
(* the stamp of a first start moves a torrent up among those the queue     *)
(* wanted anyway, which changes nothing of whom it wants.                  *)
(*                                                                         *)
(* Where the queue wants every torrent, what the user paused stays so: it  *)
(* is among what the queue remembers as paused or last saw running, or     *)
(* what the rows of the pass show running, and no window holds it, nor has *)
(* the pass set out to start it.                                           *)
(***************************************************************************)
EXTENDS TickProperties, FiniteSetTheorems, WellFoundedInduction, TLAPS

(* Rows: they keep their fields, go for good, and stay complete. *)

IsRow(r) == r = [x \in DOMAIN r |-> r[x]] /\ "complete" \in DOMAIN r /\ r.complete \in BOOLEAN

IsRows(table) == table = [t \in DOMAIN table |-> table[t]] /\ \A t \in DOMAIN table : IsRow(table[t])

Follows(before, after) ==
  /\ IsRows(after)
  /\ DOMAIN after \subseteq DOMAIN before
  /\ \A t \in DOMAIN after : before[t].complete => after[t].complete

LEMMA TableRows ==
  ASSUME NEW table, IsTable(table)
  PROVE IsRows(table)
BY DEF IsTable, RowType, IsRows, IsRow

LEMMA FollowsItself ==
  ASSUME NEW table, IsRows(table)
  PROVE Follows(table, table)
BY DEF Follows

LEMMA StartedFollows ==
  ASSUME IsRows(rows), NEW S
  PROVE Follows(rows, Started(S))
<1>1. \A t \in Live : IsRow(StartedRow(rows, t)) /\ StartedRow(rows, t).complete = rows[t].complete
  <2> SUFFICES ASSUME NEW t \in Live
               PROVE IsRow(StartedRow(rows, t)) /\ StartedRow(rows, t).complete = rows[t].complete
    OBVIOUS
  <2>1. IsRow(rows[t])
    BY DEF IsRows, Live
  <2> QED
    BY <2>1 DEF IsRow, StartedRow
<1> QED
  BY <1>1 DEF Follows, IsRows, Started, Live

LEMMA HeldFollows ==
  ASSUME IsRows(rows), NEW S
  PROVE Follows(rows, Held(S))
<1>1. \A t \in Live : IsRow(HeldRow(rows, t)) /\ HeldRow(rows, t).complete = rows[t].complete
  <2> SUFFICES ASSUME NEW t \in Live
               PROVE IsRow(HeldRow(rows, t)) /\ HeldRow(rows, t).complete = rows[t].complete
    OBVIOUS
  <2>1. IsRow(rows[t])
    BY DEF IsRows, Live
  <2> QED
    BY <2>1 DEF IsRow, HeldRow
<1> QED
  BY <1>1 DEF Follows, IsRows, Held, Live

LEMMA ErasedFollows ==
  ASSUME IsRows(rows), NEW S
  PROVE Follows(rows, Erased(S))
BY DEF Follows, IsRows, Erased, Live

\* What one torrent's row becomes, when it stays complete.
LEMMA RowFollows ==
  ASSUME IsRows(rows), NEW t \in Live, NEW row, IsRow(row),
         rows[t].complete => row.complete
  PROVE Follows(rows, [rows EXCEPT ![t] = row])
BY DEF Follows, IsRows, Live

LEMMA KeyedRow ==
  ASSUME NEW row, IsRow(row), NEW priority, NEW pos
  PROVE IsRow(Keyed(row, priority, pos)) /\ Keyed(row, priority, pos).complete = row.complete
BY DEF IsRow, Keyed

LEMMA ReorderedFollows ==
  ASSUME IsRows(rows), NEW t \in Live, NEW dir \in {"top", "up", "down", "bottom"}
  PROVE Follows(rows, Reordered(rows, t, dir))
<1> DEFINE positions == {rows[u].pos : u \in DOMAIN rows}
           lowest == CHOOSE p \in positions : \A q \in positions : p <= q
           highest == CHOOSE p \in positions : \A q \in positions : q <= p
           near == {u \in DOMAIN rows \ {t} : Neighbour(rows, t, u, dir)}
           other == CHOOSE u \in DOMAIN rows \ {t} : Neighbour(rows, t, u, dir)
<1>1. IsRow(rows[t])
  BY DEF IsRows, Live
<1>2. CASE dir = "top"
  <2>1. Reordered(rows, t, dir) = [rows EXCEPT ![t] = Keyed(rows[t], 3, lowest - 1)]
    BY <1>2 DEF Reordered
  <2> HIDE DEF positions, lowest
  <2>2. /\ IsRow(Keyed(rows[t], 3, lowest - 1))
        /\ Keyed(rows[t], 3, lowest - 1).complete = rows[t].complete
    BY <1>1, KeyedRow
  <2> QED
    BY <2>1, <2>2, RowFollows
<1>3. CASE dir = "bottom"
  <2>1. Reordered(rows, t, dir) = [rows EXCEPT ![t] = Keyed(rows[t], 0, highest + 1)]
    BY <1>3 DEF Reordered
  <2> HIDE DEF positions, highest
  <2>2. /\ IsRow(Keyed(rows[t], 0, highest + 1))
        /\ Keyed(rows[t], 0, highest + 1).complete = rows[t].complete
    BY <1>1, KeyedRow
  <2> QED
    BY <2>1, <2>2, RowFollows
<1>4. CASE dir \notin {"top", "bottom"} /\ near = {}
  <2>1. Reordered(rows, t, dir) = rows
    BY <1>4 DEF Reordered
  <2> QED
    BY <2>1, FollowsItself
<1>5. CASE dir \notin {"top", "bottom"} /\ near # {}
  <2>1. Reordered(rows, t, dir) =
          [rows EXCEPT ![t] = Keyed(@, rows[other].priority, rows[other].pos),
                       ![other] = Keyed(@, rows[t].priority, rows[t].pos)]
    BY <1>5 DEF Reordered
  <2>2. other \in DOMAIN rows \ {t}
    BY <1>5
  <2> HIDE DEF other
  <2>3. IsRow(rows[other])
    BY <2>2 DEF IsRows
  <2>4. /\ IsRow(Keyed(rows[t], rows[other].priority, rows[other].pos))
        /\ IsRow(Keyed(rows[other], rows[t].priority, rows[t].pos))
        /\ Keyed(rows[t], rows[other].priority, rows[other].pos).complete = rows[t].complete
        /\ Keyed(rows[other], rows[t].priority, rows[t].pos).complete = rows[other].complete
    BY <1>1, <2>3, KeyedRow
  <2> QED
    BY <2>1, <2>2, <2>4 DEF Follows, IsRows, Live
<1> QED
  BY <1>2, <1>3, <1>4, <1>5

LEMMA CallFollows ==
  ASSUME IsRows(rows), NEW S, NEW after, Follows(rows, after), NEW who, NEW ok,
         Call(S, after, who, ok)
  PROVE Follows(rows, rows')
BY FollowsItself DEF Call, Deed

LEMMA FieldsFollow ==
  ASSUME NEW row, IsRow(row), NEW v
  PROVE /\ IsRow([row EXCEPT !.forced = v]) /\ [row EXCEPT !.forced = v].complete = row.complete
        /\ IsRow([row EXCEPT !.healthy = v]) /\ [row EXCEPT !.healthy = v].complete = row.complete
        /\ IsRow([row EXCEPT !.ratio = v]) /\ [row EXCEPT !.ratio = v].complete = row.complete
        /\ IsRow([row EXCEPT !.rate = v]) /\ [row EXCEPT !.rate = v].complete = row.complete
BY DEF IsRow

LEMMA MeanwhileFollows ==
  ASSUME IsRows(rows), Meanwhile
  PROVE Follows(rows, rows')
<1> PICK t \in Live :
      \/ UserPauses(t) \/ UserStarts(t) \/ UserErases(t)
      \/ UserForces(t) \/ UserReorders(t)
      \/ DaemonCompletes(t) \/ DaemonSeeds(t) \/ DaemonReports(t) \/ DaemonCrawls(t)
  BY DEF Meanwhile
<1>1. IsRow(rows[t])
  BY DEF IsRows, Live
<1>2. CASE UserPauses(t)
  BY <1>2, HeldFollows DEF UserPauses, Deed
<1>3. CASE UserStarts(t)
  BY <1>3, StartedFollows DEF UserStarts, Deed
<1>4. CASE UserErases(t)
  BY <1>4, ErasedFollows DEF UserErases, Deed
<1>5. CASE UserForces(t)
  <2> DEFINE v == ~rows[t].forced
  <2>1. rows' = [rows EXCEPT ![t] = [rows[t] EXCEPT !.forced = v]]
    BY <1>5 DEF UserForces
  <2> HIDE DEF v
  <2> QED
    BY <1>1, <2>1, FieldsFollow, RowFollows
<1>6. CASE UserReorders(t)
  BY <1>6, ReorderedFollows DEF UserReorders
<1>7. CASE DaemonCompletes(t)
  <2>1. rows' = [rows EXCEPT ![t] = [@ EXCEPT !.complete = TRUE]]
    BY <1>7 DEF DaemonCompletes
  <2> QED
    BY <1>1, <2>1, RowFollows DEF IsRow
<1>8. CASE DaemonSeeds(t)
  <2> DEFINE v == rows[t].ratio + 1
  <2>1. rows' = [rows EXCEPT ![t] = [rows[t] EXCEPT !.ratio = v]]
    BY <1>8 DEF DaemonSeeds
  <2> HIDE DEF v
  <2> QED
    BY <1>1, <2>1, FieldsFollow, RowFollows
<1>9. CASE DaemonReports(t)
  <2> DEFINE v == ~rows[t].healthy
  <2>1. rows' = [rows EXCEPT ![t] = [rows[t] EXCEPT !.healthy = v]]
    BY <1>9 DEF DaemonReports
  <2> HIDE DEF v
  <2> QED
    BY <1>1, <2>1, FieldsFollow, RowFollows
<1>10. CASE DaemonCrawls(t)
  <2> DEFINE v == 1 - rows[t].rate
  <2>1. rows' = [rows EXCEPT ![t] = [rows[t] EXCEPT !.rate = v]]
    BY <1>10 DEF DaemonCrawls
  <2> HIDE DEF v
  <2> QED
    BY <1>1, <2>1, FieldsFollow, RowFollows
<1> QED
  BY <1>2, <1>3, <1>4, <1>5, <1>6, <1>7, <1>8, <1>9, <1>10

(* Memories: what they have seen is what a poll saw, or nothing. *)

IsMemory(m) == m = [x \in DOMAIN m |-> m[x]] /\ "seen" \in DOMAIN m

IsPass(r) ==
  r = [x \in DOMAIN r |-> r[x]] /\ {"own", "stage"} \subseteq DOMAIN r /\ IsMemory(r.own)

Shaped ==
  /\ pass = [p \in Passes |-> pass[p]] /\ \A p \in Passes : IsPass(pass[p])
  /\ IsMemory(policy)
  /\ IsRows(rows)

Unseen == [t \in Torrents |-> "absent"]

LEMMA FreshIsMemory == IsMemory(Fresh) /\ Fresh.seen = Unseen
BY DEF Fresh, IsMemory, Unseen

LEMMA IdleIsPass == IsPass(Idle) /\ Idle.own.seen = Unseen /\ Idle.stage = "idle"
BY FreshIsMemory DEF Idle, IsPass

\* What changes of a pass under way, when it stays at what it has seen.
SameSeen(r, s) == IsPass(s) /\ s.own.seen = r.own.seen

Kept(p) ==
  /\ pass' = [q \in Passes |-> pass'[q]]
  /\ SameSeen(pass[p], pass'[p])
  /\ \A q \in Passes \ {p} : pass'[q] = pass[q]

LEMMA OnwardKeeps ==
  ASSUME Shaped, NEW p \in Passes, NEW ok, NEW stage, NEW own, IsMemory(own),
         own.seen = pass[p].own.seen, Onward(p, ok, stage, own)
  PROVE Kept(p)
BY DEF Shaped, Onward, Kept, SameSeen, IsPass

LEMMA PassWith ==
  ASSUME NEW r, IsPass(r), NEW stage, NEW clean, NEW own, IsMemory(own), own.seen = r.own.seen,
         NEW more
  PROVE /\ SameSeen(r, [r EXCEPT !.stage = stage, !.clean = clean, !.acted = more, !.own = own])
        /\ SameSeen(r, [r EXCEPT !.stage = stage, !.clean = clean, !.own = own, !.start = more])
BY DEF IsPass, SameSeen

LEMMA GoalsKeep ==
  ASSUME Shaped, NEW p \in Passes, SeedGoals(p)
  PROVE Kept(p)
<1> DEFINE r == pass[p]
           reached == Reached(r.raw, r.own.stopped)
<1>1. PICK ok \in BOOLEAN :
        pass' = [pass EXCEPT ![p] =
          [r EXCEPT !.stage = "queue", !.clean = @ /\ ok, !.acted = reached,
                    !.own = [r.own EXCEPT !.stopped = [t \in Torrents |->
                      IF ok /\ ~settings.removes /\ t \in reached THEN r.raw[t].ratio
                      ELSE r.own.stopped[t]]]]]
  BY DEF SeedGoals
<1> DEFINE stops == [t \in Torrents |->
             IF ok /\ ~settings.removes /\ t \in reached THEN r.raw[t].ratio
             ELSE r.own.stopped[t]]
           own == [r.own EXCEPT !.stopped = stops]
           clean == r.clean /\ ok
<1>2. IsPass(r) /\ IsMemory(r.own)
  BY DEF Shaped, IsPass
<1>3. pass' = [pass EXCEPT ![p] = [r EXCEPT !.stage = "queue", !.clean = clean,
                                            !.acted = reached, !.own = own]]
  BY <1>1
<1> HIDE DEF stops, reached, clean
<1>4. IsMemory(own) /\ own.seen = r.own.seen
  BY <1>2 DEF IsMemory
<1> HIDE DEF own
<1>5. SameSeen(r, [r EXCEPT !.stage = "queue", !.clean = clean, !.acted = reached, !.own = own])
  BY <1>2, <1>4, PassWith
<1> QED
  BY <1>3, <1>5 DEF Shaped, Kept

LEMMA HoldKeeps ==
  ASSUME Shaped, NEW p \in Passes, HoldQueued(p)
  PROVE Kept(p)
<1> DEFINE r == pass[p]
           verdict == Verdict(r.raw, settings.queue, r.own.queue, r.acted)
           stage == IF verdict.start = {} THEN "schedule" ELSE "start"
           own == [r.own EXCEPT !.queue = verdict.mem]
           start == verdict.start
<1>1. PICK ok \in BOOLEAN :
        pass' = [pass EXCEPT ![p] =
          [r EXCEPT !.stage = stage, !.clean = @ /\ ok,
                    !.own = [r.own EXCEPT !.queue = verdict.mem], !.start = start]]
  BY DEF HoldQueued
<1> DEFINE clean == r.clean /\ ok
<1> HIDE DEF verdict, stage, start
<1>2. IsPass(r) /\ IsMemory(r.own)
  BY DEF Shaped, IsPass
<1>3. pass' = [pass EXCEPT ![p] = [r EXCEPT !.stage = stage, !.clean = clean,
                                            !.own = own, !.start = start]]
  BY <1>1
<1>4. IsMemory(own) /\ own.seen = r.own.seen
  BY <1>2 DEF IsMemory
<1> HIDE DEF own, clean
<1>5. SameSeen(r, [r EXCEPT !.stage = stage, !.clean = clean, !.own = own, !.start = start])
  BY <1>2, <1>4, PassWith
<1> QED
  BY <1>3, <1>5 DEF Shaped, Kept

LEMMA StartKeeps ==
  ASSUME Shaped, NEW p \in Passes, StartQueued(p)
  PROVE Kept(p)
BY OnwardKeeps DEF Shaped, StartQueued, IsPass

LEMMA EnterKeeps ==
  ASSUME Shaped, NEW p \in Passes, EnterWindow(p)
  PROVE Kept(p)
<1> DEFINE own == pass[p].own
           entered == [own EXCEPT !.window = TRUE, !.held = @ \cup Holding(p),
                                  !.queue.paused = @ \cup Holding(p)]
           missed == [own EXCEPT !.held = {}]
<1>1. IsMemory(own)
  BY DEF Shaped, IsPass
<1>2. IsMemory(entered) /\ entered.seen = own.seen
  BY <1>1 DEF IsMemory
<1>3. IsMemory(missed) /\ missed.seen = own.seen
  BY <1>1 DEF IsMemory
<1>4. PICK ok \in BOOLEAN : Onward(p, ok, "moves", IF ok THEN entered ELSE missed)
  BY DEF EnterWindow
<1> QED
  BY <1>2, <1>3, <1>4, OnwardKeeps

LEMMA StayKeeps ==
  ASSUME Shaped, NEW p \in Passes, StayInWindow(p)
  PROVE Kept(p)
BY OnwardKeeps DEF Shaped, StayInWindow, IsPass

LEMMA ApplyKeeps ==
  ASSUME Shaped, NEW p \in Passes, ApplyLimits(p)
  PROVE Kept(p)
<1> DEFINE own == pass[p].own
           left == LeaveWindow(own)
<1>1. IsMemory(own)
  BY DEF Shaped, IsPass
<1>2. IsMemory(left) /\ left.seen = own.seen
  BY <1>1 DEF IsMemory, LeaveWindow
<1> HIDE DEF left
<1>3. IsMemory([left EXCEPT !.applied = grid]) /\ [left EXCEPT !.applied = grid].seen = left.seen
  BY <1>2 DEF IsMemory
<1>4. Onward(p, TRUE, "moves", left) \/ Onward(p, TRUE, "moves", [left EXCEPT !.applied = grid])
  BY DEF ApplyLimits, left
<1> QED
  BY <1>2, <1>3, <1>4, OnwardKeeps

(* The invariant. *)

Alone == "overlap" \notin settings.events

Told(t) == settings.rows[t].complete \/ announced[t] = 1

\* A torrent that was announced, or was complete from the start.
NotPartial(t) ==
  /\ policy.seen[t] # "partial"
  /\ \A p \in Passes : pass[p].own.seen[t] # "partial"
  /\ t \in Live => rows[t].complete

Counts(t) ==
  /\ announced[t] <= IF settings.rows[t].complete THEN 0 ELSE 1
  /\ Told(t) => NotPartial(t)

Bound ==
  /\ settings \in Setups
  /\ Shaped
  /\ announced \in [Torrents -> Nat]

OneByOne ==
  /\ pass[2].stage = "idle" /\ pass[2].own.seen = Unseen
  /\ \A t \in DOMAIN settings.rows : Counts(t)

AnnounceInv == Bound /\ (Alone => OneByOne)

LEMMA SettingsRows ==
  ASSUME settings \in Setups
  PROVE IsTable(settings.rows) /\ DOMAIN settings.rows \subseteq Torrents
BY SetupsAssumption DEF IsTable

LEMMA AnnounceInit == Init => AnnounceInv
<1> SUFFICES ASSUME Init PROVE AnnounceInv
  OBVIOUS
<1> USE DEF Init
<1>1. IsTable(settings.rows) /\ DOMAIN settings.rows \subseteq Torrents
  BY SettingsRows
<1>2. Shaped
  BY <1>1, TableRows, FreshIsMemory, IdleIsPass DEF Shaped
<1>3. Bound
  BY <1>2 DEF Bound
<1>4. \A p \in Passes : pass[p].stage = "idle" /\ pass[p].own.seen = Unseen
  BY IdleIsPass
<1>5. policy.seen = Unseen
  BY FreshIsMemory
<1>6. ASSUME NEW t \in DOMAIN settings.rows PROVE Counts(t)
  <2>1. t \in Torrents /\ announced[t] = 0
    BY <1>1
  <2>2. Unseen[t] # "partial"
    BY <2>1 DEF Unseen
  <2>3. Told(t) => (t \in Live => rows[t].complete)
    BY <2>1 DEF Told
  <2> QED
    BY <1>4, <1>5, <2>1, <2>2, <2>3 DEF Counts, NotPartial
<1> QED
  BY <1>3, <1>4, <1>6 DEF AnnounceInv, OneByOne, Passes

\* A step that announces nothing and spreads no memory but one there was.
Silent ==
  /\ settings' = settings /\ announced' = announced
  /\ Shaped' /\ Follows(rows, rows')
  /\ \A t \in Torrents :
       \/ policy'.seen[t] = "partial"
       \/ \E p \in Passes : pass'[p].own.seen[t] = "partial"
       => \/ policy.seen[t] = "partial"
          \/ \E p \in Passes : pass[p].own.seen[t] = "partial"

SecondIdle == pass[2].stage = "idle" /\ pass[2].own.seen = Unseen

LEMMA SilentPreserves ==
  ASSUME AnnounceInv, Silent, Alone /\ SecondIdle => SecondIdle'
  PROVE AnnounceInv'
<1>1. Bound'
  BY DEF AnnounceInv, Bound, Silent
<1>2. ASSUME Alone' PROVE OneByOne'
  <2>1. Alone /\ OneByOne
    BY <1>2 DEF AnnounceInv, Alone, Silent
  <2>2. SecondIdle'
    BY <2>1 DEF OneByOne, SecondIdle
  <2>3. ASSUME NEW t \in DOMAIN settings.rows PROVE Counts(t)'
    <3>1. t \in Torrents
      BY SettingsRows DEF AnnounceInv, Bound
    <3>2. Counts(t)
      BY <2>1 DEF OneByOne
    <3>3. (settings.rows[t] = settings'.rows[t] /\ announced'[t] = announced[t])
      BY DEF Silent
    <3>4. Told(t)' <=> Told(t)
      BY <3>3 DEF Told
    <3>5. ASSUME Told(t) PROVE NotPartial(t)'
      <4>1. NotPartial(t)
        BY <3>2, <3>5 DEF Counts
      <4> QED
        BY <3>1, <4>1 DEF NotPartial, Silent, Follows, Live
    <3> QED
      BY <3>2, <3>3, <3>4, <3>5 DEF Counts
  <2>4. DOMAIN settings'.rows = DOMAIN settings.rows
    BY DEF Silent
  <2> QED
    BY <2>2, <2>3, <2>4 DEF OneByOne, SecondIdle
<1> QED
  BY <1>1, <1>2 DEF AnnounceInv

LEMMA KeptPreserves ==
  ASSUME AnnounceInv, NEW p \in Passes, pass[p].stage # "idle", Kept(p), Follows(rows, rows'),
         UNCHANGED <<settings, policy, announced>>
  PROVE AnnounceInv'
<1>1. Shaped
  BY DEF AnnounceInv, Bound
<1>2. \A q \in Passes : IsPass(pass'[q]) /\ pass'[q].own.seen = pass[q].own.seen
  BY <1>1 DEF Shaped, Kept, SameSeen
<1>3. Silent
  BY <1>1, <1>2 DEF Silent, Shaped, Kept, Follows
<1>4. SecondIdle => SecondIdle'
  BY DEF SecondIdle, Kept, Passes
<1> QED
  BY <1>3, <1>4, SilentPreserves

LEMMA PollPreserves ==
  ASSUME AnnounceInv, NEW p \in Passes, Poll(p)
  PROVE AnnounceInv'
<1> DEFINE begun == [Idle EXCEPT !.stage = IF Reached(rows, policy.stopped) = {} THEN "queue"
                                           ELSE "goals",
                                 !.own = [policy EXCEPT !.seen = Seen],
                                 !.raw = rows, !.clean = Begun = {}]
<1>1. Shaped
  BY DEF AnnounceInv, Bound
<1>2. pass' = [q \in Passes |->
        IF q # p THEN [pass[q] EXCEPT !.clean = @ /\ pass[q].stage = "idle"] ELSE begun]
  BY DEF Poll
<1>3. IsMemory([policy EXCEPT !.seen = Seen]) /\ [policy EXCEPT !.seen = Seen].seen = Seen
  BY <1>1 DEF Shaped, IsMemory
<1>4. IsPass(begun) /\ begun.own.seen = Seen
  BY <1>3, IdleIsPass DEF IsPass
<1> HIDE DEF begun
<1>5. \A q \in Passes \ {p} :
        IsPass(pass'[q]) /\ pass'[q].own = pass[q].own /\ pass'[q].stage = pass[q].stage
  BY <1>1, <1>2 DEF Shaped, IsPass
<1>6. pass'[p] = begun
  BY <1>2
<1>7. policy' = Fresh /\ UNCHANGED <<settings, rows>>
  BY DEF Poll, daemonVars
<1>8. Shaped'
  BY <1>1, <1>2, <1>4, <1>5, <1>6, <1>7, FreshIsMemory DEF Shaped
<1>9. announced' = [t \in Torrents |->
        IF t \in Completions /\ announced[t] < 2 THEN announced[t] + 1 ELSE announced[t]]
  BY DEF Poll
<1>10. Bound'
  BY <1>7, <1>8, <1>9 DEF AnnounceInv, Bound
<1>11. ASSUME Alone' PROVE OneByOne'
  <2>1. Alone /\ OneByOne
    BY <1>7, <1>11 DEF AnnounceInv, Alone
  <2>2. Begun = {}
    BY <2>1 DEF Poll, Counted, Alone
  <2>3. p = 1
    BY <2>2 DEF Poll, Passes
  <2>4. pass'[2].stage = "idle" /\ pass'[2].own.seen = Unseen
    BY <1>5, <2>1, <2>3 DEF OneByOne, Passes
  <2>5. pass'[1].own.seen = Seen
    BY <1>4, <1>6, <2>3
  <2>6. policy'.seen = Unseen
    BY <1>7, FreshIsMemory
  <2>7. ASSUME NEW t \in DOMAIN settings.rows PROVE Counts(t)'
    <3>1. t \in Torrents
      BY SettingsRows DEF AnnounceInv, Bound
    <3>2. Counts(t) /\ announced[t] \in Nat
      BY <2>1, <3>1 DEF OneByOne, AnnounceInv, Bound
    <3>3. Unseen[t] # "partial"
      BY <3>1 DEF Unseen
    <3>4. CASE t \in Completions
      <4>1. policy.seen[t] = "partial" /\ rows[t].complete /\ t \in Live
        BY <3>4 DEF Completions
      <4>2. ~Told(t)
        BY <3>2, <4>1 DEF Counts, NotPartial
      <4>3. ~settings.rows[t].complete /\ announced[t] = 0
        BY <3>2, <4>2 DEF Counts, Told
      <4>4. announced'[t] = 1
        BY <1>9, <3>1, <3>4, <4>3
      <4>5. Seen[t] = "complete"
        BY <3>1, <4>1 DEF Seen
      <4>6. NotPartial(t)'
        BY <1>7, <2>4, <2>5, <2>6, <3>3, <4>1, <4>5 DEF NotPartial, Passes
      <4> QED
        BY <1>7, <4>3, <4>4, <4>6 DEF Counts
    <3>5. CASE t \notin Completions
      <4>1. announced'[t] = announced[t]
        BY <1>9, <3>1, <3>5
      <4>2. Told(t)' <=> Told(t)
        BY <1>7, <4>1 DEF Told
      <4>3. ASSUME Told(t) PROVE NotPartial(t)'
        <5>1. t \in Live => rows[t].complete
          BY <3>2, <4>3 DEF Counts, NotPartial
        <5>2. Seen[t] # "partial"
          BY <3>1, <5>1 DEF Seen
        <5> QED
          BY <1>7, <2>4, <2>5, <2>6, <3>3, <5>1, <5>2 DEF NotPartial, Passes, Live
      <4> QED
        BY <1>7, <3>2, <4>1, <4>2, <4>3 DEF Counts
    <3> QED
      BY <3>4, <3>5
  <2> QED
    BY <1>7, <2>4, <2>7 DEF OneByOne
<1> QED
  BY <1>10, <1>11 DEF AnnounceInv

LEMMA GiveBackPreserves ==
  ASSUME AnnounceInv, NEW p \in Passes, GiveBack(p)
  PROVE AnnounceInv'
<1>1. Shaped
  BY DEF AnnounceInv, Bound
<1>2. /\ policy' = pass[p].own /\ pass' = [pass EXCEPT ![p] = Idle]
      /\ UNCHANGED <<settings, rows, announced>>
  BY DEF GiveBack, daemonVars, historyVars
<1>3. pass'[p] = Idle /\ \A q \in Passes \ {p} : pass'[q] = pass[q]
  BY <1>1, <1>2 DEF Shaped
<1>4. Shaped'
  BY <1>1, <1>2, <1>3, IdleIsPass DEF Shaped, IsPass
<1>5. \A t \in Torrents : Idle.own.seen[t] # "partial"
  BY IdleIsPass DEF Unseen
<1>6. Silent
  BY <1>1, <1>2, <1>3, <1>4, <1>5, FollowsItself DEF Silent, Shaped
<1>7. SecondIdle => SecondIdle'
  BY <1>3, IdleIsPass DEF SecondIdle, Passes
<1> QED
  BY <1>6, <1>7, SilentPreserves

LEMMA MeanwhilePreserves ==
  ASSUME AnnounceInv, Meanwhile
  PROVE AnnounceInv'
<1>1. Shaped
  BY DEF AnnounceInv, Bound
<1>2. /\ pass' = [p \in Passes |-> [pass[p] EXCEPT !.clean = p \notin Begun]]
      /\ UNCHANGED <<settings, policy, announced>>
  BY DEF Meanwhile
<1>3. \A q \in Passes :
        IsPass(pass'[q]) /\ pass'[q].own = pass[q].own /\ pass'[q].stage = pass[q].stage
  BY <1>1, <1>2 DEF Shaped, IsPass
<1>4. Follows(rows, rows')
  BY <1>1, MeanwhileFollows DEF Shaped
<1>5. Silent
  BY <1>1, <1>2, <1>3, <1>4 DEF Silent, Shaped, Follows
<1>6. SecondIdle => SecondIdle'
  BY <1>3 DEF SecondIdle, Passes
<1> QED
  BY <1>5, <1>6, SilentPreserves

LEMMA ReconnectPreserves ==
  ASSUME AnnounceInv, Reconnect
  PROVE AnnounceInv'
<1>1. Shaped
  BY DEF AnnounceInv, Bound
<1>2. policy' = Fresh /\ UNCHANGED <<settings, rows, pass, announced>>
  BY DEF Reconnect, Anew
<1>3. IsMemory(policy') /\ \A t \in Torrents : policy'.seen[t] # "partial"
  BY <1>2, FreshIsMemory DEF Unseen
<1>4. Silent
  BY <1>1, <1>2, <1>3, FollowsItself DEF Silent, Shaped
<1>5. SecondIdle => SecondIdle'
  BY <1>2 DEF SecondIdle
<1> QED
  BY <1>4, <1>5, SilentPreserves

LEMMA StandingPreserves ==
  ASSUME AnnounceInv, UNCHANGED <<settings, rows, policy, pass, announced>>
  PROVE AnnounceInv'
<1>1. Shaped
  BY DEF AnnounceInv, Bound
<1>2. Silent
  BY <1>1, FollowsItself DEF Silent, Shaped
<1>3. SecondIdle => SecondIdle'
  BY DEF SecondIdle
<1> QED
  BY <1>2, <1>3, SilentPreserves

LEMMA PassStepPreserves ==
  ASSUME AnnounceInv, NEW p \in Passes, PassStep(p)
  PROVE AnnounceInv'
<1>1. Shaped /\ IsRows(rows)
  BY DEF AnnounceInv, Bound, Shaped
<1>2. CASE Poll(p)
  BY <1>2, PollPreserves
<1>3. CASE SeedGoals(p)
  <2>1. Follows(rows, rows')
    <3> DEFINE reached == Reached(pass[p].raw, pass[p].own.stopped)
               after == IF settings.removes THEN Erased(reached) ELSE Held(reached)
    <3>1. PICK ok \in BOOLEAN : Call(reached, after, "goal", ok)
      BY <1>3 DEF SeedGoals
    <3>2. Follows(rows, after)
      BY <1>1, ErasedFollows, HeldFollows
    <3> QED
      BY <1>1, <3>1, <3>2, CallFollows
  <2>2. Kept(p)
    BY <1>1, <1>3, GoalsKeep
  <2> QED
    BY <1>3, <2>1, <2>2, KeptPreserves DEF SeedGoals
<1>4. CASE HoldQueued(p)
  <2>1. Follows(rows, rows')
    <3> DEFINE stop == Verdict(pass[p].raw, settings.queue, pass[p].own.queue, pass[p].acted).stop
    <3>1. PICK ok \in BOOLEAN : NoCall(ok) \/ Call(stop, Held(stop), "queue", ok)
      BY <1>4 DEF HoldQueued
    <3>2. Follows(rows, Held(stop))
      BY <1>1, HeldFollows
    <3> QED
      BY <1>1, <3>1, <3>2, CallFollows, FollowsItself DEF NoCall
  <2>2. Kept(p)
    BY <1>1, <1>4, HoldKeeps
  <2> QED
    BY <1>4, <2>1, <2>2, KeptPreserves DEF HoldQueued
<1>5. CASE StartQueued(p)
  <2>1. Follows(rows, rows')
    BY <1>1, <1>5, StartedFollows, CallFollows DEF StartQueued
  <2>2. Kept(p)
    BY <1>1, <1>5, StartKeeps
  <2> QED
    BY <1>5, <2>1, <2>2, KeptPreserves DEF StartQueued
<1>6. CASE EnterWindow(p)
  <2>1. Follows(rows, rows')
    <3>1. PICK ok \in BOOLEAN, who \in {"window", "botched"} :
            NoCall(ok) \/ Call(Holding(p), Held(Holding(p)), who, ok)
      BY <1>6 DEF EnterWindow
    <3>2. Follows(rows, Held(Holding(p)))
      BY <1>1, HeldFollows
    <3> QED
      BY <1>1, <3>1, <3>2, CallFollows, FollowsItself DEF NoCall
  <2>2. Kept(p)
    BY <1>1, <1>6, EnterKeeps
  <2> QED
    BY <1>6, <2>1, <2>2, KeptPreserves DEF EnterWindow
<1>7. CASE StayInWindow(p)
  <2>1. Kept(p) /\ Follows(rows, rows')
    BY <1>1, <1>7, StayKeeps, FollowsItself DEF StayInWindow, daemonVars
  <2> QED
    BY <1>7, <2>1, KeptPreserves DEF StayInWindow
<1>8. CASE ApplyLimits(p)
  <2>1. Kept(p) /\ Follows(rows, rows')
    BY <1>1, <1>8, ApplyKeeps, FollowsItself DEF ApplyLimits
  <2> QED
    BY <1>8, <2>1, KeptPreserves DEF ApplyLimits, historyVars
<1>9. CASE GiveBack(p)
  BY <1>9, GiveBackPreserves
<1> QED
  BY <1>2, <1>3, <1>4, <1>5, <1>6, <1>7, <1>8, <1>9 DEF PassStep

\* Without overlapping passes a completion is announced once, and never that of
\* a torrent the client has first seen complete (run_tick, seen_complete).
THEOREM Announcements == Spec => []AnnouncedOnce
<1>1. Init => AnnounceInv
  BY AnnounceInit
<1>2. AnnounceInv /\ [Next]_vars => AnnounceInv'
  <2> SUFFICES ASSUME AnnounceInv, [Next]_vars PROVE AnnounceInv'
    OBVIOUS
  <2>1. CASE \E p \in Passes : PassStep(p)
    BY <2>1, PassStepPreserves
  <2>2. CASE Meanwhile
    BY <2>2, MeanwhilePreserves
  <2>3. CASE ClockTurns
    BY <2>3, StandingPreserves DEF ClockTurns, daemonVars
  <2>4. CASE Reconnect
    BY <2>4, ReconnectPreserves
  <2>5. CASE UNCHANGED vars
    BY <2>5, StandingPreserves DEF vars, daemonVars, historyVars
  <2> QED
    BY <2>1, <2>2, <2>3, <2>4, <2>5 DEF Next
<1>3. AnnounceInv => AnnouncedOnce
  BY DEF AnnounceInv, AnnouncedOnce, Alone, OneByOne, Counts
<1> QED
  BY <1>1, <1>2, <1>3, PTL DEF Spec

----------------------------------------------------------------------------
(* Finite sets have least members. *)

Before(R, S, x) == {y \in S : <<y, x>> \in R}

LEMMA FirstOfFinite ==
  ASSUME NEW S, IsFiniteSet(S), S # {}, NEW R,
         \A x \in S : <<x, x>> \notin R,
         \A x, y, z \in S : <<x, y>> \in R /\ <<y, z>> \in R => <<x, z>> \in R
  PROVE  \E r \in S : \A q \in S : <<q, r>> \notin R
<1> DEFINE downs == {Before(R, S, x) : x \in S}
           inside == StrictSubsetOrdering(S)
<1>1. downs \subseteq FiniteSubsetsOf(S) /\ downs # {}
  <2>1. \A x \in S : Before(R, S, x) \in SUBSET S
    BY DEF Before
  <2>2. \A x \in S : IsFiniteSet(Before(R, S, x))
    BY <2>1, FS_Subset
  <2> QED
    BY <2>1, <2>2 DEF FiniteSubsetsOf
<1>2. IsWellFoundedOn(inside, FiniteSubsetsOf(S))
  BY FS_StrictSubsetOrderingWellFounded
<1> HIDE DEF inside
<1>3. PICK r \in S : \A q \in S : <<Before(R, S, q), Before(R, S, r)>> \notin inside
  <2> HIDE DEF downs
  <2>1. \E low \in downs : \A d \in downs : <<d, low>> \notin inside
    BY <1>1, <1>2, WFMin
  <2> QED
    BY <2>1 DEF downs
<1>4. ASSUME NEW q \in S, <<q, r>> \in R
      PROVE  <<Before(R, S, q), Before(R, S, r)>> \in inside
  <2>1. Before(R, S, q) \subseteq Before(R, S, r)
    BY <1>4 DEF Before
  <2>2. q \in Before(R, S, r) /\ q \notin Before(R, S, q)
    BY <1>4 DEF Before
  <2> QED
    BY <2>1, <2>2 DEF inside, StrictSubsetOrdering, Before
<1> QED
  BY <1>3, <1>4

LEMMA Extremes ==
  ASSUME NEW S, \A x \in S : x \in Int, IsFiniteSet(S), S # {}
  PROVE  /\ (CHOOSE p \in S : \A q \in S : p <= q) \in S
         /\ (CHOOSE p \in S : \A q \in S : q <= p) \in S
<1> DEFINE up == {pair \in S \X S : pair[1] < pair[2]}
           down == {pair \in S \X S : pair[2] < pair[1]}
<1>1. \A x, y \in S : (<<x, y>> \in up <=> x < y) /\ (<<x, y>> \in down <=> y < x)
  OBVIOUS
<1> HIDE DEF up, down
<1>2. \E r \in S : \A q \in S : <<q, r>> \notin up
  <2>1. \A x \in S : <<x, x>> \notin up
    BY <1>1
  <2>2. \A x, y, z \in S : <<x, y>> \in up /\ <<y, z>> \in up => <<x, z>> \in up
    BY <1>1
  <2> QED
    BY <2>1, <2>2, FirstOfFinite
<1>3. \E r \in S : \A q \in S : <<q, r>> \notin down
  <2>1. \A x \in S : <<x, x>> \notin down
    BY <1>1
  <2>2. \A x, y, z \in S : <<x, y>> \in down /\ <<y, z>> \in down => <<x, z>> \in down
    BY <1>1
  <2> QED
    BY <2>1, <2>2, FirstOfFinite
<1>4. \E p \in S : \A q \in S : p <= q
  <2>1. PICK r \in S : \A q \in S : <<q, r>> \notin up
    BY <1>2
  <2>2. \A q \in S : q \in Int /\ r \in Int /\ ~(q < r)
    BY <1>1, <2>1
  <2> QED
    BY <2>2
<1>5. \E p \in S : \A q \in S : q <= p
  <2>1. PICK r \in S : \A q \in S : <<q, r>> \notin down
    BY <1>3
  <2>2. \A q \in S : q \in Int /\ r \in Int /\ ~(r < q)
    BY <1>1, <2>1
  <2> QED
    BY <2>2
<1> QED
  BY <1>4, <1>5

----------------------------------------------------------------------------
(* Types of the tables. *)

RowOK(row) == row \in RowType /\ (~row.active => row.rate = 0)

LEMMA TableOfRows ==
  ASSUME NEW table, table = [t \in DOMAIN table |-> table[t]], DOMAIN table \subseteq Torrents
  PROVE  IsTable(table) <=> \A t \in DOMAIN table : RowOK(table[t])
BY DEF IsTable, RowOK

LEMMA TableIsRows ==
  ASSUME NEW table, IsTable(table)
  PROVE  /\ table = [t \in DOMAIN table |-> table[t]] /\ DOMAIN table \subseteq Torrents
         /\ \A t \in DOMAIN table : RowOK(table[t])
BY DEF IsTable, RowOK

LEMMA TableFinite ==
  ASSUME NEW table, IsTable(table)
  PROVE  IsFiniteSet(DOMAIN table)
BY TorrentsAssumption, FS_Subset DEF IsTable

LEMMA StampType ==
  ASSUME NEW table, IsTable(table), NEW t \in DOMAIN table
  PROVE  Stamp(table, t) \in Nat /\ Stamp(table, t) # 0
<1> DEFINE S == {u \in DOMAIN table : table[u].started # 0}
<1>1. IsFiniteSet(S)
  BY TableFinite, FS_Subset
<1>2. Cardinality(S) \in Nat
  BY <1>1, FS_CardinalityType
<1> HIDE DEF S
<1>3. table[t].started \in Nat
  BY DEF IsTable, RowType
<1> QED
  BY <1>2, <1>3 DEF Stamp, S

LEMMA SetRow ==
  ASSUME NEW row, RowOK(row), NEW a \in BOOLEAN, NEW r \in 0..1, ~a => r = 0, NEW s \in Nat
  PROVE  /\ RowOK([row EXCEPT !.active = a, !.rate = r, !.started = s])
         /\ RowOK([row EXCEPT !.active = a, !.rate = r])
BY DEF RowOK, RowType

LEMMA StartedTable ==
  ASSUME IsTable(rows), NEW S
  PROVE  IsTable(Started(S))
<1>1. \A t \in Live : RowOK(rows[t])
  BY TableIsRows DEF Live
<1>2. \A t \in Live : RowOK(StartedRow(rows, t))
  <2> SUFFICES ASSUME NEW t \in Live
               PROVE  RowOK(StartedRow(rows, t))
    OBVIOUS
  <2>1. Stamp(rows, t) \in Nat
    BY StampType DEF Live
  <2>2. RowOK(rows[t])
    BY <1>1
  <2> DEFINE a == TRUE
             r == 1
  <2>3. a \in BOOLEAN /\ (~a => r = 0) /\ r \in 0..1
    OBVIOUS
  <2>4. StartedRow(rows, t) = [rows[t] EXCEPT !.active = a, !.rate = r, !.started = Stamp(rows, t)]
    BY DEF StartedRow
  <2> HIDE DEF a, r
  <2>5. RowOK([rows[t] EXCEPT !.active = a, !.rate = r, !.started = Stamp(rows, t)])
    BY <2>1, <2>2, <2>3, SetRow
  <2> QED
    BY <2>4, <2>5
<1>3. DOMAIN Started(S) = Live /\ Live \subseteq Torrents
  BY TableIsRows DEF Started, Live
<1>4. \A t \in Live : RowOK(Started(S)[t])
  BY <1>1, <1>2 DEF Started
<1>5. Started(S) = [t \in DOMAIN Started(S) |-> Started(S)[t]]
  BY DEF Started
<1> QED
  BY <1>3, <1>4, <1>5, TableOfRows

LEMMA HeldTable ==
  ASSUME IsTable(rows), NEW S
  PROVE  IsTable(Held(S))
<1>1. \A t \in Live : RowOK(rows[t])
  BY TableIsRows DEF Live
<1>2. \A t \in Live : RowOK(HeldRow(rows, t))
  <2> SUFFICES ASSUME NEW t \in Live
               PROVE  RowOK(HeldRow(rows, t))
    OBVIOUS
  <2> DEFINE a == FALSE
             r == 0
             s == rows[t].started
  <2>3. a \in BOOLEAN /\ (~a => r = 0) /\ r \in 0..1 /\ s \in Nat
    BY <1>1 DEF RowOK, RowType
  <2>4. HeldRow(rows, t) = [rows[t] EXCEPT !.active = a, !.rate = r]
    BY DEF HeldRow
  <2> HIDE DEF a, r, s
  <2>5. RowOK([rows[t] EXCEPT !.active = a, !.rate = r])
    BY <1>1, <2>3, SetRow
  <2> QED
    BY <2>4, <2>5
<1>3. DOMAIN Held(S) = Live /\ Live \subseteq Torrents
  BY TableIsRows DEF Held, Live
<1>4. \A t \in Live : RowOK(Held(S)[t])
  BY <1>1, <1>2 DEF Held
<1>5. Held(S) = [t \in DOMAIN Held(S) |-> Held(S)[t]]
  BY DEF Held
<1> QED
  BY <1>3, <1>4, <1>5, TableOfRows

LEMMA ErasedTable ==
  ASSUME IsTable(rows), NEW S
  PROVE  IsTable(Erased(S))
<1>1. \A t \in Live : RowOK(rows[t])
  BY TableIsRows DEF Live
<1>3. DOMAIN Erased(S) = Live \ S /\ Live \subseteq Torrents
  BY TableIsRows DEF Erased, Live
<1>4. \A t \in Live \ S : RowOK(Erased(S)[t])
  BY <1>1 DEF Erased
<1>5. Erased(S) = [t \in DOMAIN Erased(S) |-> Erased(S)[t]]
  BY DEF Erased
<1> QED
  BY <1>3, <1>4, <1>5, TableOfRows

LEMMA RowTable ==
  ASSUME IsTable(rows), NEW t \in Live, NEW row, RowOK(row)
  PROVE  IsTable([rows EXCEPT ![t] = row])
BY TableIsRows, TableOfRows DEF Live

LEMMA KeyedOK ==
  ASSUME NEW row, RowOK(row), NEW priority \in 0..3, NEW pos \in Int
  PROVE  RowOK(Keyed(row, priority, pos))
BY DEF RowOK, RowType, Keyed

LEMMA ReorderedTable ==
  ASSUME IsTable(rows), NEW t \in Live, NEW dir \in {"top", "up", "down", "bottom"}
  PROVE  IsTable(Reordered(rows, t, dir))
<1> DEFINE positions == {rows[u].pos : u \in DOMAIN rows}
           lowest == CHOOSE p \in positions : \A q \in positions : p <= q
           highest == CHOOSE p \in positions : \A q \in positions : q <= p
           near == {u \in DOMAIN rows \ {t} : Neighbour(rows, t, u, dir)}
           other == CHOOSE u \in DOMAIN rows \ {t} : Neighbour(rows, t, u, dir)
<1>1. \A u \in DOMAIN rows : RowOK(rows[u])
  BY TableIsRows
<1>2. \A u \in DOMAIN rows : rows[u].priority \in 0..3 /\ rows[u].pos \in Int
  BY <1>1 DEF RowOK, RowType
<1>3. lowest \in Int /\ highest \in Int
  <2>1. IsFiniteSet(positions)
    <3> DEFINE f == [u \in DOMAIN rows |-> rows[u].pos]
    <3>1. f \in Surjection(DOMAIN rows, positions)
      BY DEF Surjection
    <3> HIDE DEF f, positions
    <3> QED
      BY <3>1, TableFinite, FS_Surjection
  <2>2. positions # {} /\ \A x \in positions : x \in Int
    BY <1>2 DEF Live
  <2> HIDE DEF positions
  <2>3. lowest \in positions /\ highest \in positions
    BY <2>1, <2>2, Extremes
  <2> QED
    BY <2>2, <2>3
<1>4. CASE dir = "top"
  <2>1. Reordered(rows, t, dir) = [rows EXCEPT ![t] = Keyed(rows[t], 3, lowest - 1)]
    BY <1>4 DEF Reordered
  <2> HIDE DEF lowest
  <2>2. RowOK(Keyed(rows[t], 3, lowest - 1))
    BY <1>1, <1>3, KeyedOK DEF Live
  <2> QED
    BY <2>1, <2>2, RowTable
<1>5. CASE dir = "bottom"
  <2>1. Reordered(rows, t, dir) = [rows EXCEPT ![t] = Keyed(rows[t], 0, highest + 1)]
    BY <1>5 DEF Reordered
  <2> HIDE DEF highest
  <2>2. RowOK(Keyed(rows[t], 0, highest + 1))
    BY <1>1, <1>3, KeyedOK DEF Live
  <2> QED
    BY <2>1, <2>2, RowTable
<1>6. CASE dir \notin {"top", "bottom"} /\ near = {}
  <2>1. Reordered(rows, t, dir) = rows
    BY <1>6 DEF Reordered
  <2> QED
    BY <2>1
<1>7. CASE dir \notin {"top", "bottom"} /\ near # {}
  <2>1. Reordered(rows, t, dir) =
          [rows EXCEPT ![t] = Keyed(@, rows[other].priority, rows[other].pos),
                       ![other] = Keyed(@, rows[t].priority, rows[t].pos)]
    BY <1>7 DEF Reordered
  <2>2. other \in DOMAIN rows \ {t}
    BY <1>7
  <2> HIDE DEF other, positions, lowest, highest, near
  <2>3. /\ RowOK(Keyed(rows[t], rows[other].priority, rows[other].pos))
        /\ RowOK(Keyed(rows[other], rows[t].priority, rows[t].pos))
    BY <1>1, <1>2, <2>2, KeyedOK DEF Live
  <2> DEFINE after == Reordered(rows, t, dir)
  <2>4. after = [u \in DOMAIN after |-> after[u]] /\ DOMAIN after = DOMAIN rows
    BY <2>1, TableIsRows
  <2>5. \A u \in DOMAIN rows : RowOK(after[u])
    BY <1>1, <2>1, <2>2, <2>3, TableIsRows DEF Live
  <2> HIDE DEF after
  <2>6. DOMAIN after \subseteq Torrents
    BY <2>4, TableIsRows
  <2> QED
    BY <2>4, <2>5, <2>6, TableOfRows DEF after
<1> QED
  BY <1>4, <1>5, <1>6, <1>7

LEMMA CallTable ==
  ASSUME IsTable(rows), NEW S, NEW after, IsTable(after), NEW who, NEW ok,
         Call(S, after, who, ok)
  PROVE  IsTable(rows')
BY DEF Call, Deed

LEMMA MeanwhileTable ==
  ASSUME IsTable(rows), Meanwhile
  PROVE  IsTable(rows')
<1> PICK t \in Live :
      \/ UserPauses(t) \/ UserStarts(t) \/ UserErases(t)
      \/ UserForces(t) \/ UserReorders(t)
      \/ DaemonCompletes(t) \/ DaemonSeeds(t) \/ DaemonReports(t) \/ DaemonCrawls(t)
  BY DEF Meanwhile
<1>1. RowOK(rows[t])
  BY TableIsRows DEF Live
<1>2. CASE UserPauses(t)
  BY <1>2, HeldTable DEF UserPauses, Deed
<1>3. CASE UserStarts(t)
  BY <1>3, StartedTable DEF UserStarts, Deed
<1>4. CASE UserErases(t)
  BY <1>4, ErasedTable DEF UserErases, Deed
<1>5. CASE UserForces(t)
  <2> DEFINE v == ~rows[t].forced
  <2>1. rows' = [rows EXCEPT ![t] = [rows[t] EXCEPT !.forced = v]]
    BY <1>5 DEF UserForces
  <2>2. v \in BOOLEAN
    OBVIOUS
  <2> HIDE DEF v
  <2>3. RowOK([rows[t] EXCEPT !.forced = v])
    BY <1>1, <2>2 DEF RowOK, RowType
  <2> QED
    BY <2>1, <2>3, RowTable
<1>6. CASE UserReorders(t)
  BY <1>6, ReorderedTable DEF UserReorders
<1>7. CASE DaemonCompletes(t)
  <2>1. rows' = [rows EXCEPT ![t] = [rows[t] EXCEPT !.complete = TRUE]]
    BY <1>7 DEF DaemonCompletes
  <2>2. RowOK([rows[t] EXCEPT !.complete = TRUE])
    BY <1>1 DEF RowOK, RowType
  <2> QED
    BY <2>1, <2>2, RowTable
<1>8. CASE DaemonSeeds(t)
  <2> DEFINE v == rows[t].ratio + 1
  <2>1. rows' = [rows EXCEPT ![t] = [rows[t] EXCEPT !.ratio = v]]
    BY <1>8 DEF DaemonSeeds
  <2>2. v \in Nat
    BY <1>1 DEF RowOK, RowType
  <2> HIDE DEF v
  <2>3. RowOK([rows[t] EXCEPT !.ratio = v])
    BY <1>1, <2>2 DEF RowOK, RowType
  <2> QED
    BY <2>1, <2>3, RowTable
<1>9. CASE DaemonReports(t)
  <2> DEFINE v == ~rows[t].healthy
  <2>1. rows' = [rows EXCEPT ![t] = [rows[t] EXCEPT !.healthy = v]]
    BY <1>9 DEF DaemonReports
  <2>2. v \in BOOLEAN
    OBVIOUS
  <2> HIDE DEF v
  <2>3. RowOK([rows[t] EXCEPT !.healthy = v])
    BY <1>1, <2>2 DEF RowOK, RowType
  <2> QED
    BY <2>1, <2>3, RowTable
<1>10. CASE DaemonCrawls(t)
  <2> DEFINE v == 1 - rows[t].rate
  <2>1. rows' = [rows EXCEPT ![t] = [rows[t] EXCEPT !.rate = v]] /\ rows[t].active
    BY <1>10 DEF DaemonCrawls
  <2>2. v \in 0..1
    BY <1>1 DEF RowOK, RowType
  <2> HIDE DEF v
  <2>3. RowOK([rows[t] EXCEPT !.rate = v])
    BY <1>1, <2>1, <2>2 DEF RowOK, RowType
  <2> QED
    BY <2>1, <2>3, RowTable
<1> QED
  BY <1>2, <1>3, <1>4, <1>5, <1>6, <1>7, <1>8, <1>9, <1>10

----------------------------------------------------------------------------
(* Types of the memories and of the passes. *)

MemoryOK(m) == m \in Policies /\ (~m.window => m.held = {})

Memos == {m \in Policies : MemoryOK(m)}

Tables == {table \in UNION {[D -> RowType] : D \in SUBSET Torrents} : IsTable(table)}

PassType ==
  [stage : Stages, own : Memos, raw : Tables, acted : SUBSET Torrents, start : SUBSET Torrents,
   clean : BOOLEAN]

PassOK(r) == r \in PassType

PassesOK == pass = [p \in Passes |-> pass[p]] /\ \A p \in Passes : PassOK(pass[p])

Holders == {"nobody", "user", "again", "unseen", "queue", "window", "botched", "goal"}

HistoryOK ==
  /\ announced \in [Torrents -> 0..2]
  /\ holder \in [Torrents -> Holders]
  /\ calm \in {"disturbed", "quiet", "settled"}

TickInv ==
  /\ settings \in Setups /\ IsTable(rows)
  /\ limits \in Grids \cup {NoLimits} /\ grid \in Grids
  /\ MemoryOK(policy) /\ PassesOK
  /\ HistoryOK
  /\ events \in 0..settings.budget

LEMMA FreshOK == MemoryOK(Fresh)
BY DEF MemoryOK, Policies, Fresh, Memories, Forgotten

LEMMA EmptyTable == IsTable(<<>>)
BY DEF IsTable

LEMMA TablesAre ==
  ASSUME NEW table
  PROVE  IsTable(table) <=> table \in Tables
<1>1. ASSUME IsTable(table) PROVE table \in Tables
  <2>1. DOMAIN table \in SUBSET Torrents /\ table \in [DOMAIN table -> RowType]
    BY <1>1 DEF IsTable
  <2> QED
    BY <1>1, <2>1 DEF Tables
<1> QED
  BY <1>1 DEF Tables

LEMMA MemosAre ==
  ASSUME NEW m
  PROVE  MemoryOK(m) <=> m \in Memos
BY DEF Memos, MemoryOK

LEMMA PassFields ==
  ASSUME NEW r, PassOK(r)
  PROVE  /\ r.stage \in Stages /\ MemoryOK(r.own) /\ IsTable(r.raw)
         /\ r.acted \subseteq Torrents /\ r.start \subseteq Torrents /\ r.clean \in BOOLEAN
<1>1. r.own \in Memos /\ r.raw \in Tables
  BY DEF PassOK, PassType
<1> QED
  BY <1>1, TablesAre, MemosAre DEF PassOK, PassType

LEMMA IdleOK == PassOK(Idle) /\ Idle.stage = "idle"
<1>1. Fresh \in Memos /\ <<>> \in Tables
  BY FreshOK, EmptyTable, TablesAre, MemosAre
<1> QED
  BY <1>1 DEF PassOK, PassType, Idle, Stages

LEMMA JudgedOK ==
  ASSUME NEW raw, IsTable(raw), NEW mem \in Memories, NEW want
  PROVE  Judged(raw, mem, want) \in Memories
<1>1. DOMAIN raw \subseteq Torrents /\ ActiveIn(raw) \subseteq DOMAIN raw
  BY DEF IsTable, ActiveIn
<1> QED
  BY <1>1 DEF Judged, Memories

LEMMA FirstOfIn ==
  ASSUME NEW raw, NEW group, NEW cap
  PROVE  FirstOf(raw, group, cap) \subseteq group
BY DEF FirstOf

LEMMA WantedIn ==
  ASSUME NEW raw, NEW cfg
  PROVE  Wanted(raw, cfg) \subseteq Managed(raw, cfg) /\ Managed(raw, cfg) \subseteq DOMAIN raw
<1> DEFINE managed == Managed(raw, cfg)
           uploads == {t \in managed : raw[t].complete}
           both == FirstOf(raw, managed \ uploads, cfg.downloads)
                     \cup FirstOf(raw, uploads, cfg.uploads)
<1>1. Wanted(raw, cfg) = FirstOf(raw, both, cfg.total)
  BY DEF Wanted
<1>2. both \subseteq managed
  BY FirstOfIn
<1> HIDE DEF both
<1>3. Wanted(raw, cfg) \subseteq both
  BY <1>1, FirstOfIn
<1> QED
  BY <1>2, <1>3 DEF Managed

LEMMA VerdictOK ==
  ASSUME NEW raw, IsTable(raw), NEW cfg, NEW mem \in Memories, NEW skip
  PROVE  /\ Verdict(raw, cfg, mem, skip).mem \in Memories
         /\ Verdict(raw, cfg, mem, skip).start \subseteq Torrents
         /\ Verdict(raw, cfg, mem, skip).stop \subseteq DOMAIN raw
<1>1. Judged(raw, mem, Wanted(raw, cfg)) \in Memories
  BY JudgedOK
<1>2. DOMAIN raw \subseteq Torrents /\ Wanted(raw, cfg) \subseteq DOMAIN raw
  BY WantedIn DEF IsTable
<1>3. ActiveIn(raw) \subseteq DOMAIN raw
  BY DEF ActiveIn
<1> QED
  BY <1>1, <1>2, <1>3 DEF Verdict

\* What a step leaves of a pass.
LEMMA PassMade ==
  ASSUME NEW r, PassOK(r), NEW stage \in Stages, NEW clean \in BOOLEAN, NEW own, MemoryOK(own),
         NEW more, more \subseteq Torrents
  PROVE  /\ PassOK([r EXCEPT !.stage = stage, !.clean = clean, !.acted = more, !.own = own])
         /\ PassOK([r EXCEPT !.stage = stage, !.clean = clean, !.own = own, !.start = more])
         /\ PassOK([r EXCEPT !.stage = stage, !.clean = clean, !.own = own])
         /\ PassOK([r EXCEPT !.clean = clean])
<1>1. own \in Memos
  BY MemosAre
<1> QED
  BY <1>1 DEF PassOK, PassType

LEMMA OnePass ==
  ASSUME PassesOK, NEW p \in Passes, NEW r, PassOK(r), pass' = [pass EXCEPT ![p] = r]
  PROVE  PassesOK'
BY DEF PassesOK

LEMMA OnwardOK ==
  ASSUME PassesOK, NEW p \in Passes, NEW ok \in BOOLEAN, NEW stage \in Stages, NEW own, MemoryOK(own),
         Onward(p, ok, stage, own)
  PROVE  PassesOK'
<1> DEFINE clean == pass[p].clean /\ ok
           r == [pass[p] EXCEPT !.stage = stage, !.clean = clean, !.own = own]
<1>1. pass' = [pass EXCEPT ![p] = r]
  BY DEF Onward, PassesOK, PassOK, PassType
<1>2. clean \in BOOLEAN
  BY PassFields DEF PassesOK
<1> HIDE DEF clean
<1>3. PassOK(r)
  BY <1>2, PassMade DEF PassesOK
<1> HIDE DEF r
<1> QED
  BY <1>1, <1>3, OnePass

LEMMA EnteredOK ==
  ASSUME NEW own, MemoryOK(own), NEW S, S \subseteq Torrents
  PROVE  /\ MemoryOK([own EXCEPT !.window = TRUE, !.held = @ \cup S, !.queue.paused = @ \cup S])
         /\ ~own.window => MemoryOK([own EXCEPT !.held = {}])
<1> DEFINE w == TRUE
           held == own.held \cup S
           queue == [own.queue EXCEPT !.paused = @ \cup S]
           after == [own EXCEPT !.window = TRUE, !.held = @ \cup S, !.queue.paused = @ \cup S]
<1>1. after = [own EXCEPT !.window = w, !.held = held, !.queue = queue]
  BY DEF MemoryOK, Policies
<1>2. queue \in Memories /\ held \subseteq Torrents /\ w \in BOOLEAN /\ w
  BY DEF MemoryOK, Policies, Memories
<1> HIDE DEF w, held, queue
<1>3. MemoryOK([own EXCEPT !.window = w, !.held = held, !.queue = queue])
  BY <1>2 DEF MemoryOK, Policies
<1>4. ~own.window => MemoryOK([own EXCEPT !.held = {}])
  BY DEF MemoryOK, Policies
<1> QED
  BY <1>1, <1>3, <1>4

LEMMA LeftOK ==
  ASSUME NEW own, MemoryOK(own)
  PROVE  MemoryOK(LeaveWindow(own)) /\ ~LeaveWindow(own).window
<1>1. CASE ~own.window
  BY <1>1 DEF LeaveWindow
<1>2. CASE own.window
  <2> DEFINE w == FALSE
             held == {}
             queue == [own.queue EXCEPT !.paused = @ \ own.held]
  <2>1. LeaveWindow(own) = [own EXCEPT !.window = w, !.held = held, !.queue = queue]
    BY <1>2 DEF LeaveWindow, MemoryOK, Policies
  <2>2. queue \in Memories /\ held \subseteq Torrents /\ w \in BOOLEAN /\ ~w /\ held = {}
    BY DEF MemoryOK, Policies, Memories
  <2> HIDE DEF w, held, queue
  <2>3. /\ MemoryOK([own EXCEPT !.window = w, !.held = held, !.queue = queue])
        /\ [own EXCEPT !.window = w, !.held = held, !.queue = queue].window = w
    BY <2>2 DEF MemoryOK, Policies
  <2> QED
    BY <2>1, <2>2, <2>3
<1> QED
  BY <1>1, <1>2

LEMMA AppliedOK ==
  ASSUME NEW own, MemoryOK(own), NEW g \in Grids
  PROVE  MemoryOK([own EXCEPT !.applied = g])
BY DEF MemoryOK, Policies

LEMMA PolledOK ==
  ASSUME NEW own, MemoryOK(own), NEW seen \in [Torrents -> {"absent", "partial", "complete"}]
  PROVE  MemoryOK([own EXCEPT !.seen = seen])
BY DEF MemoryOK, Policies

LEMMA StoppedOK ==
  ASSUME NEW own, MemoryOK(own), NEW stopped \in [Torrents -> Nat \cup {NoRatio}]
  PROVE  MemoryOK([own EXCEPT !.stopped = stopped])
BY DEF MemoryOK, Policies

LEMMA QueuedOK ==
  ASSUME NEW own, MemoryOK(own), NEW queue \in Memories
  PROVE  MemoryOK([own EXCEPT !.queue = queue])
BY DEF MemoryOK, Policies

LEMMA CountedOK ==
  ASSUME TickInv, NEW kind, Counted(kind)
  PROVE  events' \in 0..settings.budget
BY SetupsAssumption DEF TickInv, Counted

LEMMA CallOK ==
  ASSUME TickInv, NEW S, NEW after, IsTable(after), NEW who \in Holders, NEW ok,
         Call(S, after, who, ok) \/ NoCall(ok)
  PROVE  IsTable(rows') /\ holder' \in [Torrents -> Holders] /\ events' \in 0..settings.budget
<1>1. /\ IsTable(rows) /\ holder \in [Torrents -> Holders] /\ events \in 0..settings.budget
  BY DEF TickInv, HistoryOK
<1>2. CASE NoCall(ok)
  BY <1>1, <1>2 DEF NoCall
<1>3. CASE Call(S, after, who, ok)
  <2>1. CASE Deed(S, after, who) /\ events' = events
    BY <1>1, <2>1 DEF Deed
  <2>2. CASE Counted("rpc") /\ rows' = rows /\ holder' = holder
    BY <1>1, <2>2, CountedOK
  <2>3. CASE Counted("lost") /\ Deed(S, after, who)
    BY <1>1, <2>3, CountedOK DEF Deed
  <2> QED
    BY <1>3, <2>1, <2>2, <2>3 DEF Call
<1> QED
  BY <1>2, <1>3

LEMMA CalmerOK ==
  ASSUME HistoryOK, NEW clean, NEW window
  PROVE  Calmer(clean, window) \in {"disturbed", "quiet", "settled"}
BY DEF HistoryOK, Calmer

LEMMA SeenOK == Seen \in [Torrents -> {"absent", "partial", "complete"}]
BY DEF Seen

LEMMA HoldingIn ==
  ASSUME PassesOK, NEW p \in Passes
  PROVE  Holding(p) \subseteq Torrents
<1>1. IsTable(pass[p].raw) /\ pass[p].start \subseteq Torrents
  BY PassFields DEF PassesOK
<1> QED
  BY <1>1 DEF Holding, ActiveIn, IsTable

LEMMA TickInit == Init => TickInv
<1> SUFFICES ASSUME Init PROVE TickInv
  OBVIOUS
<1> USE DEF Init
<1>1. IsTable(rows) /\ 0 \in 0..settings.budget
  BY SetupsAssumption
<1>2. MemoryOK(policy) /\ PassesOK
  BY FreshOK, IdleOK DEF PassesOK
<1>3. HistoryOK
  BY DEF HistoryOK, Holders
<1> QED
  BY <1>1, <1>2, <1>3 DEF TickInv, Grids

LEMMA PollTypes ==
  ASSUME TickInv, NEW p \in Passes, Poll(p)
  PROVE  TickInv'
<1>1. PassesOK /\ IsTable(rows) /\ MemoryOK(policy) /\ HistoryOK
  BY DEF TickInv
<1> DEFINE stage == IF Reached(rows, policy.stopped) = {} THEN "queue" ELSE "goals"
           own == [policy EXCEPT !.seen = Seen]
           clean == Begun = {}
           begun == [Idle EXCEPT !.stage = stage, !.own = own, !.raw = rows, !.clean = clean]
<1>2. pass' = [q \in Passes |->
        IF q # p THEN [pass[q] EXCEPT !.clean = @ /\ pass[q].stage = "idle"] ELSE begun]
  BY DEF Poll
<1>3. stage \in Stages /\ own \in Memos /\ rows \in Tables /\ clean \in BOOLEAN
  <2>1. MemoryOK(own)
    BY <1>1, SeenOK, PolledOK
  <2>2. own \in Memos /\ rows \in Tables
    BY <1>1, <2>1, TablesAre, MemosAre
  <2>3. stage \in Stages
    BY DEF Stages
  <2>4. clean \in BOOLEAN
    OBVIOUS
  <2> QED
    BY <2>2, <2>3, <2>4
<1> HIDE DEF stage, own, clean
<1>4. PassOK(begun)
  BY <1>3, IdleOK DEF PassOK, PassType
<1> HIDE DEF begun
<1>5. ASSUME NEW q \in Passes \ {p} PROVE PassOK(pass'[q])
  <2> DEFINE still == pass[q].clean /\ pass[q].stage = "idle"
  <2>1. PassOK(pass[q]) /\ pass'[q] = [pass[q] EXCEPT !.clean = still]
    BY <1>1, <1>2 DEF PassesOK, PassOK, PassType
  <2>2. still \in BOOLEAN
    OBVIOUS
  <2> HIDE DEF still
  <2> QED
    BY <2>1, <2>2 DEF PassOK, PassType
<1>6. PassesOK'
  BY <1>2, <1>4, <1>5 DEF PassesOK
<1>7. holder' \in [Torrents -> Holders] /\ calm' \in {"disturbed", "quiet", "settled"}
  <2>1. CASE Begun = {}
    BY <1>1, <2>1 DEF Poll, HistoryOK
  <2>2. CASE Begun # {}
    <3>1. /\ calm' = "disturbed"
          /\ holder' = [t \in Torrents |-> CASE holder[t] \in {"user", "again"} -> "unseen"
                                             [] holder[t] = "window" -> "botched"
                                             [] OTHER -> holder[t]]
      BY <2>2 DEF Poll
    <3>2. \A t \in Torrents : holder[t] \in Holders
      BY <1>1 DEF HistoryOK
    <3> QED
      BY <3>1, <3>2 DEF Holders
  <2> QED
    BY <2>1, <2>2
<1>8. events' \in 0..settings.budget
  BY CountedOK DEF Poll, TickInv
<1>9. announced' \in [Torrents -> 0..2]
  <2>1. announced' = [t \in Torrents |->
          IF t \in Completions /\ announced[t] < 2 THEN announced[t] + 1 ELSE announced[t]]
    BY DEF Poll
  <2>2. \A t \in Torrents : announced[t] \in 0..2
    BY <1>1 DEF HistoryOK
  <2>3. \A t \in Torrents : announced'[t] \in 0..2
    BY <2>1, <2>2
  <2> QED
    BY <2>1, <2>3
<1>10. policy' = Fresh /\ UNCHANGED <<settings, rows, limits, grid>>
  BY DEF Poll, daemonVars
<1> QED
  BY <1>6, <1>7, <1>8, <1>9, <1>10, FreshOK DEF TickInv, HistoryOK

LEMMA GoalsTypes ==
  ASSUME TickInv, NEW p \in Passes, SeedGoals(p)
  PROVE  TickInv'
<1> DEFINE r == pass[p]
           reached == Reached(r.raw, r.own.stopped)
           after == IF settings.removes THEN Erased(reached) ELSE Held(reached)
<1>1. PassesOK /\ IsTable(rows) /\ HistoryOK /\ PassOK(r)
  BY DEF TickInv, PassesOK
<1>2. IsTable(r.raw) /\ MemoryOK(r.own) /\ r.clean \in BOOLEAN
  BY <1>1, PassFields
<1>3. reached \subseteq DOMAIN r.raw
  BY DEF Reached, ActiveIn
<1>4. PICK ok \in BOOLEAN :
        /\ Call(reached, after, "goal", ok)
        /\ pass' = [pass EXCEPT ![p] =
             [r EXCEPT !.stage = "queue", !.clean = @ /\ ok, !.acted = reached,
                       !.own = [r.own EXCEPT !.stopped = [t \in Torrents |->
                         IF ok /\ ~settings.removes /\ t \in reached THEN r.raw[t].ratio
                         ELSE r.own.stopped[t]]]]]
  BY DEF SeedGoals
<1>5. IsTable(after)
  BY <1>1, ErasedTable, HeldTable
<1> DEFINE stops == [t \in Torrents |->
             IF ok /\ ~settings.removes /\ t \in reached THEN r.raw[t].ratio
             ELSE r.own.stopped[t]]
           own == [r.own EXCEPT !.stopped = stops]
           clean == r.clean /\ ok
<1>6. pass' = [pass EXCEPT ![p] = [r EXCEPT !.stage = "queue", !.clean = clean,
                                            !.acted = reached, !.own = own]]
  BY <1>4
<1>7. stops \in [Torrents -> Nat \cup {NoRatio}]
  <2>1. \A t \in reached : r.raw[t].ratio \in Nat
    BY <1>2, <1>3 DEF IsTable, RowType
  <2>2. \A t \in Torrents : r.own.stopped[t] \in Nat \cup {NoRatio}
    BY <1>2 DEF MemoryOK, Policies
  <2> QED
    BY <2>1, <2>2
<1>8. reached \subseteq Torrents
  BY <1>2, <1>3 DEF IsTable
<1>9. clean \in BOOLEAN /\ "queue" \in Stages
  BY <1>2 DEF Stages
<1> HIDE DEF stops, reached, clean, after
<1>10. MemoryOK(own)
  BY <1>2, <1>7, StoppedOK
<1> HIDE DEF own
<1>11. PassOK([r EXCEPT !.stage = "queue", !.clean = clean, !.acted = reached, !.own = own])
  BY <1>1, <1>8, <1>9, <1>10, PassMade
<1>12. PassesOK'
  BY <1>1, <1>6, <1>11, OnePass
<1>13. IsTable(rows') /\ holder' \in [Torrents -> Holders] /\ events' \in 0..settings.budget
  <2>1. "goal" \in Holders
    BY DEF Holders
  <2> QED
    BY <1>4, <1>5, <2>1, CallOK
<1> QED
  BY <1>12, <1>13 DEF SeedGoals, TickInv, HistoryOK

LEMMA HoldTypes ==
  ASSUME TickInv, NEW p \in Passes, HoldQueued(p)
  PROVE  TickInv'
<1> DEFINE r == pass[p]
           verdict == Verdict(r.raw, settings.queue, r.own.queue, r.acted)
           mem == verdict.mem
           start == verdict.start
           stop == verdict.stop
           stage == IF start = {} THEN "schedule" ELSE "start"
           own == [r.own EXCEPT !.queue = mem]
<1>1. PassesOK /\ IsTable(rows) /\ HistoryOK /\ PassOK(r)
  BY DEF TickInv, PassesOK
<1>2. IsTable(r.raw) /\ MemoryOK(r.own) /\ r.clean \in BOOLEAN /\ r.own.queue \in Memories
  BY <1>1, PassFields DEF MemoryOK, Policies
<1>3. PICK ok \in BOOLEAN :
        /\ NoCall(ok) \/ Call(stop, Held(stop), "queue", ok)
        /\ pass' = [pass EXCEPT ![p] =
             [r EXCEPT !.stage = stage, !.clean = @ /\ ok,
                       !.own = [r.own EXCEPT !.queue = mem], !.start = start]]
  BY DEF HoldQueued
<1>4. mem \in Memories /\ start \subseteq Torrents
  BY <1>2, VerdictOK
<1> DEFINE clean == r.clean /\ ok
<1>5. pass' = [pass EXCEPT ![p] = [r EXCEPT !.stage = stage, !.clean = clean,
                                            !.own = own, !.start = start]]
  BY <1>3
<1>6. clean \in BOOLEAN /\ stage \in Stages
  BY <1>2 DEF Stages
<1> HIDE DEF verdict, mem, start, stop, stage, clean
<1>7. MemoryOK(own)
  BY <1>2, <1>4, QueuedOK
<1> HIDE DEF own
<1>8. PassOK([r EXCEPT !.stage = stage, !.clean = clean, !.own = own, !.start = start])
  BY <1>1, <1>4, <1>6, <1>7, PassMade
<1>9. PassesOK'
  BY <1>1, <1>5, <1>8, OnePass
<1>10. IsTable(rows') /\ holder' \in [Torrents -> Holders] /\ events' \in 0..settings.budget
  <2>1. "queue" \in Holders
    BY DEF Holders
  <2>2. IsTable(Held(stop))
    BY <1>1, HeldTable
  <2> QED
    BY <1>3, <2>1, <2>2, CallOK
<1> QED
  BY <1>9, <1>10 DEF HoldQueued, TickInv, HistoryOK

LEMMA StartTypes ==
  ASSUME TickInv, NEW p \in Passes, StartQueued(p)
  PROVE  TickInv'
<1>1. PassesOK /\ IsTable(rows) /\ MemoryOK(pass[p].own)
  BY PassFields DEF TickInv, PassesOK
<1>2. PICK ok \in BOOLEAN :
        /\ Call(pass[p].start, Started(pass[p].start), "nobody", ok)
        /\ Onward(p, ok, "schedule", pass[p].own)
  BY DEF StartQueued
<1>3. "schedule" \in Stages /\ "nobody" \in Holders
  BY DEF Stages, Holders
<1>4. PassesOK'
  BY <1>1, <1>2, <1>3, OnwardOK
<1>5. IsTable(rows') /\ holder' \in [Torrents -> Holders] /\ events' \in 0..settings.budget
  BY <1>1, <1>2, <1>3, StartedTable, CallOK
<1> QED
  BY <1>4, <1>5 DEF StartQueued, TickInv, HistoryOK

LEMMA EnterTypes ==
  ASSUME TickInv, NEW p \in Passes, EnterWindow(p)
  PROVE  TickInv'
<1> DEFINE own == pass[p].own
           entered == [own EXCEPT !.window = TRUE, !.held = @ \cup Holding(p),
                                  !.queue.paused = @ \cup Holding(p)]
           missed == [own EXCEPT !.held = {}]
<1>1. PassesOK /\ IsTable(rows) /\ MemoryOK(own) /\ HistoryOK /\ ~own.window
  BY PassFields DEF TickInv, PassesOK, EnterWindow
<1>2. PICK ok \in BOOLEAN :
        /\ NoCall(ok)
           \/ Call(Holding(p), Held(Holding(p)), IF ok /\ Begun = {p} THEN "window" ELSE "botched", ok)
        /\ Onward(p, ok, "moves", IF ok THEN entered ELSE missed)
        /\ calm' = Calmer(pass[p].clean /\ ok, ok)
  BY DEF EnterWindow
<1>3. MemoryOK(entered) /\ MemoryOK(missed)
  BY <1>1, HoldingIn, EnteredOK
<1>4. "moves" \in Stages
  BY DEF Stages
<1>5. PassesOK'
  <2> HIDE DEF entered, missed
  <2>1. CASE ok
    BY <1>1, <1>2, <1>3, <1>4, <2>1, OnwardOK
  <2>2. CASE ~ok
    BY <1>1, <1>2, <1>3, <1>4, <2>2, OnwardOK
  <2> QED
    BY <2>1, <2>2
<1>6. IsTable(rows') /\ holder' \in [Torrents -> Holders] /\ events' \in 0..settings.budget
  <2> DEFINE who == IF ok /\ Begun = {p} THEN "window" ELSE "botched"
  <2>1. who \in Holders
    BY DEF Holders
  <2>2. NoCall(ok) \/ Call(Holding(p), Held(Holding(p)), who, ok)
    BY <1>2
  <2>3. IsTable(Held(Holding(p)))
    BY <1>1, HeldTable
  <2> HIDE DEF who
  <2> QED
    BY <2>1, <2>2, <2>3, CallOK
<1>7. calm' \in {"disturbed", "quiet", "settled"}
  BY <1>1, <1>2, CalmerOK
<1> QED
  BY <1>5, <1>6, <1>7 DEF EnterWindow, TickInv, HistoryOK

LEMMA StayTypes ==
  ASSUME TickInv, NEW p \in Passes, StayInWindow(p)
  PROVE  TickInv'
<1>1. PassesOK /\ MemoryOK(pass[p].own) /\ HistoryOK
  BY PassFields DEF TickInv, PassesOK
<1>2. "moves" \in Stages
  BY DEF Stages
<1>3. PassesOK'
  BY <1>1, <1>2, OnwardOK DEF StayInWindow
<1>4. calm' \in {"disturbed", "quiet", "settled"}
  BY <1>1, CalmerOK DEF StayInWindow
<1> QED
  BY <1>3, <1>4 DEF StayInWindow, TickInv, HistoryOK, daemonVars

LEMMA ApplyTypes ==
  ASSUME TickInv, NEW p \in Passes, ApplyLimits(p)
  PROVE  TickInv'
<1> DEFINE left == LeaveWindow(pass[p].own)
<1>1. PassesOK /\ MemoryOK(pass[p].own) /\ grid \in Grids
  BY PassFields DEF TickInv, PassesOK
<1>2. MemoryOK(left) /\ MemoryOK([left EXCEPT !.applied = grid])
  BY <1>1, LeftOK, AppliedOK
<1>3. Onward(p, TRUE, "moves", left) \/ Onward(p, TRUE, "moves", [left EXCEPT !.applied = grid])
  BY DEF ApplyLimits
<1>4. events' \in 0..settings.budget /\ limits' \in Grids \cup {NoLimits}
  BY <1>1, CountedOK DEF ApplyLimits, TickInv
<1> HIDE DEF left
<1>5. "moves" \in Stages
  BY DEF Stages
<1>6. PassesOK'
  BY <1>1, <1>2, <1>3, <1>5, OnwardOK
<1> QED
  BY <1>4, <1>6 DEF ApplyLimits, TickInv, HistoryOK, historyVars

LEMMA GiveBackTypes ==
  ASSUME TickInv, NEW p \in Passes, GiveBack(p)
  PROVE  TickInv'
<1>1. PassesOK /\ MemoryOK(pass[p].own)
  BY PassFields DEF TickInv, PassesOK
<1>2. PassesOK' /\ MemoryOK(policy')
  BY <1>1, IdleOK, OnePass DEF GiveBack
<1> QED
  BY <1>2 DEF GiveBack, TickInv, HistoryOK, daemonVars, historyVars

LEMMA MeanwhileTypes ==
  ASSUME TickInv, Meanwhile
  PROVE  TickInv'
<1>1. PassesOK /\ IsTable(rows) /\ HistoryOK /\ IsTable(rows')
  BY MeanwhileTable DEF TickInv
<1>2. ASSUME NEW p \in Passes PROVE PassOK(pass'[p])
  <2> DEFINE clean == p \notin Begun
  <2>1. PassOK(pass[p]) /\ pass'[p] = [pass[p] EXCEPT !.clean = clean]
    BY <1>1 DEF PassesOK, Meanwhile
  <2>2. clean \in BOOLEAN
    OBVIOUS
  <2> HIDE DEF clean
  <2> QED
    BY <2>1, <2>2 DEF PassOK, PassType
<1>3. PassesOK'
  BY <1>2 DEF PassesOK, Meanwhile
<1> PICK t \in Live :
      \/ UserPauses(t) \/ UserStarts(t) \/ UserErases(t)
      \/ /\ UserForces(t) \/ UserReorders(t)
            \/ DaemonCompletes(t) \/ DaemonSeeds(t) \/ DaemonReports(t) \/ DaemonCrawls(t)
         /\ UNCHANGED holder
  BY DEF Meanwhile
<1>4. \E kind \in Kinds : Counted(kind)
  BY DEF UserPauses, UserStarts, UserErases, UserForces, UserReorders, DaemonCompletes,
         DaemonSeeds, DaemonReports, DaemonCrawls, Kinds
<1>5. events' \in 0..settings.budget
  BY <1>4, CountedOK
<1>6. holder' \in [Torrents -> Holders]
  <2>1. holder \in [Torrents -> Holders]
    BY <1>1 DEF HistoryOK
  <2>2. CASE UserPauses(t)
    BY <2>1, <2>2 DEF UserPauses, Deed, Holders
  <2>3. CASE UserStarts(t)
    BY <2>1, <2>3 DEF UserStarts, Deed, Holders
  <2>4. CASE UserErases(t)
    BY <2>1, <2>4 DEF UserErases, Deed, Holders
  <2> QED
    BY <2>1, <2>2, <2>3, <2>4
<1> QED
  BY <1>1, <1>3, <1>5, <1>6 DEF Meanwhile, TickInv, HistoryOK

LEMMA ClockTypes ==
  ASSUME TickInv, ClockTurns
  PROVE  TickInv'
<1>1. events' \in 0..settings.budget
  BY CountedOK DEF ClockTurns
<1> QED
  BY <1>1 DEF ClockTurns, TickInv, HistoryOK, PassesOK, daemonVars

LEMMA ReconnectTypes ==
  ASSUME TickInv, Reconnect
  PROVE  TickInv'
<1>1. events' \in 0..settings.budget
  BY CountedOK DEF Reconnect
<1>2. holder' \in [Torrents -> Holders] /\ calm' \in {"disturbed", "quiet", "settled"}
  BY DEF Reconnect, TickInv, HistoryOK, Holders
<1> QED
  BY <1>1, <1>2, FreshOK DEF Reconnect, Anew, TickInv, HistoryOK, PassesOK

LEMMA TickStep == TickInv /\ [Next]_vars => TickInv'
<1> SUFFICES ASSUME TickInv, [Next]_vars PROVE TickInv'
  OBVIOUS
<1>1. ASSUME NEW p \in Passes, PassStep(p) PROVE TickInv'
  BY <1>1, PollTypes, GoalsTypes, HoldTypes, StartTypes, EnterTypes, StayTypes, ApplyTypes,
     GiveBackTypes DEF PassStep
<1>2. CASE UNCHANGED vars
  BY <1>2 DEF vars, daemonVars, historyVars, TickInv, PassesOK, HistoryOK
<1> QED
  BY <1>1, <1>2, MeanwhileTypes, ClockTypes, ReconnectTypes DEF Next

\* Every reachable state of the automation is well typed, for any torrents,
\* settings and events: no step of two passes, of the user or of the daemon
\* puts what is none into a memory, a verdict or the rows, or more events than
\* there may be; no memory holds torrents for a window it is not in, and what
\* is stopped does not transfer (run_tick, decide_queues, plan_reorder).
THEOREM TickTypes == Spec => []TypeOK
<1>1. TickInv => TypeOK
  <2> SUFFICES ASSUME TickInv PROVE TypeOK
    OBVIOUS
  <2>1. \A p \in Passes : PassOK(pass[p])
    BY DEF TickInv, PassesOK
  <2>2. \A p \in Passes :
          /\ pass[p].stage \in Stages /\ MemoryOK(pass[p].own) /\ IsTable(pass[p].raw)
          /\ pass[p].acted \subseteq Torrents /\ pass[p].start \subseteq Torrents
          /\ pass[p].clean \in BOOLEAN
    BY <2>1, PassFields
  <2>3. \A m \in {policy} \cup {pass[p].own : p \in Passes} :
          m \in Policies /\ (~m.window => m.held = {})
    BY <2>2 DEF TickInv, MemoryOK
  <2> QED
    BY <2>2, <2>3 DEF TickInv, TypeOK, HistoryOK, Holders
<1> QED
  BY <1>1, TickInit, TickStep, PTL DEF Spec

----------------------------------------------------------------------------
(* The order the queue ranks by, and what a start leaves of it. *)

LEMMA Keys ==
  ASSUME NEW raw, IsTable(raw), NEW t \in DOMAIN raw
  PROVE  /\ t \in Nat
         /\ raw[t].priority \in Nat /\ raw[t].pos \in Int /\ raw[t].started \in Nat
         /\ raw[t].complete \in BOOLEAN
BY TorrentsAssumption DEF IsTable, RowType

LEMMA Order ==
  ASSUME NEW raw, IsTable(raw), NEW t \in DOMAIN raw, NEW u \in DOMAIN raw, NEW v \in DOMAIN raw
  PROVE  /\ ~Precedes(raw, t, t)
         /\ Precedes(raw, t, u) /\ Precedes(raw, u, v) => Precedes(raw, t, v)
         /\ t = u \/ Precedes(raw, t, u) \/ Precedes(raw, u, t)
<1> DEFINE a == raw[t]
           b == raw[u]
           c == raw[v]
<1>1. /\ t \in Nat /\ u \in Nat /\ v \in Nat
      /\ a.priority \in Nat /\ a.pos \in Int /\ a.started \in Nat /\ a.complete \in BOOLEAN
      /\ b.priority \in Nat /\ b.pos \in Int /\ b.started \in Nat /\ b.complete \in BOOLEAN
      /\ c.priority \in Nat /\ c.pos \in Int /\ c.started \in Nat /\ c.complete \in BOOLEAN
  BY Keys
<1> HIDE DEF a, b, c
<1>2. ~Better(a, a)
  BY <1>1 DEF Better, StartedBefore
<1>3. /\ Better(a, b) => ~Better(b, a)
      /\ Better(b, c) => ~Better(c, b)
      /\ Better(a, c) => ~Better(c, a)
  BY <1>1 DEF Better, StartedBefore
<1>4. /\ Better(a, b) /\ ~Better(c, b) => Better(a, c)
      /\ ~Better(b, a) /\ Better(b, c) => Better(a, c)
      /\ ~Better(b, a) /\ ~Better(c, b) => ~Better(c, a)
  BY <1>1 DEF Better, StartedBefore
<1>5. ~Precedes(raw, t, t)
  BY <1>1, <1>2 DEF Precedes, a
<1>6. t = u \/ Precedes(raw, t, u) \/ Precedes(raw, u, t)
  BY <1>1, <1>3 DEF Precedes, a, b
<1>7. Precedes(raw, t, u) /\ Precedes(raw, u, v) => Precedes(raw, t, v)
  BY <1>1, <1>3, <1>4 DEF Precedes, a, b, c
<1> QED
  BY <1>5, <1>6, <1>7

Ahead(raw, group, t) == {u \in group : Precedes(raw, u, t)}

LEMMA TopIs ==
  ASSUME NEW raw, IsTable(raw), NEW group, group \subseteq DOMAIN raw, NEW cap \in Nat, cap # 0
  PROVE  /\ IsFiniteSet(group)
         /\ \A t : t \in FirstOf(raw, group, cap)
                   <=> t \in group /\ Cardinality(Ahead(raw, group, t)) < cap
         /\ \A t \in group : IsFiniteSet(Ahead(raw, group, t))
                             /\ Cardinality(Ahead(raw, group, t)) \in Nat
<1>1. IsFiniteSet(group)
  BY TableFinite, FS_Subset
<1>2. ASSUME NEW t PROVE IsFiniteSet(Ahead(raw, group, t)) /\ Cardinality(Ahead(raw, group, t)) \in Nat
  <2>1. Ahead(raw, group, t) \subseteq group
    BY DEF Ahead
  <2> QED
    BY <1>1, <2>1, FS_Subset, FS_CardinalityType
<1> QED
  BY <1>1, <1>2 DEF FirstOf, Ahead

\* Those behind one that is left out are left out.
LEMMA TopIsClosed ==
  ASSUME NEW raw, IsTable(raw), NEW group, group \subseteq DOMAIN raw, NEW cap \in Nat, cap # 0,
         NEW t \in FirstOf(raw, group, cap), NEW u \in group, Precedes(raw, u, t)
  PROVE  u \in FirstOf(raw, group, cap)
<1>1. t \in group /\ Cardinality(Ahead(raw, group, t)) < cap
  BY TopIs
<1>2. Ahead(raw, group, u) \subseteq Ahead(raw, group, t)
  BY <1>1, Order DEF Ahead
<1>3. Cardinality(Ahead(raw, group, u)) <= Cardinality(Ahead(raw, group, t))
  BY <1>1, <1>2, TopIs, FS_Subset
<1>4. Cardinality(Ahead(raw, group, u)) \in Nat /\ Cardinality(Ahead(raw, group, t)) \in Nat
  BY <1>1, TopIs
<1>5. Cardinality(Ahead(raw, group, u)) < cap
  BY <1>1, <1>3, <1>4
<1> QED
  BY <1>5, TopIs

LEMMA TopIsSmall ==
  ASSUME NEW raw, IsTable(raw), NEW group, group \subseteq DOMAIN raw, NEW cap \in Nat, cap # 0
  PROVE  /\ IsFiniteSet(FirstOf(raw, group, cap))
         /\ Cardinality(FirstOf(raw, group, cap)) <= cap
<1> DEFINE D == FirstOf(raw, group, cap)
<1>1. D \subseteq group /\ IsFiniteSet(group)
  BY TopIs, FirstOfIn
<1>2. IsFiniteSet(D)
  BY <1>1, FS_Subset
<1>3. CASE D = {}
  <2>1. Cardinality(D) = 0
    BY <1>3, FS_EmptySet
  <2> QED
    BY <1>2, <2>1
<1>4. CASE D # {}
  <2> DEFINE R == {pair \in D \X D : Precedes(raw, pair[2], pair[1])}
  <2>1. \A x, y \in D : <<x, y>> \in R <=> Precedes(raw, y, x)
    OBVIOUS
  <2>2. \A x \in D : x \in DOMAIN raw
    BY <1>1
  <2> HIDE DEF R, D
  <2>3. PICK last \in D : \A q \in D : <<q, last>> \notin R
    <3>1. \A x \in D : <<x, x>> \notin R
      BY <2>1, <2>2, Order
    <3>2. \A x, y, z \in D : <<x, y>> \in R /\ <<y, z>> \in R => <<x, z>> \in R
      BY <2>1, <2>2, Order
    <3> QED
      BY <1>2, <1>4, <3>1, <3>2, FirstOfFinite
  <2>4. last \in group /\ Cardinality(Ahead(raw, group, last)) < cap
    BY <2>3, TopIs DEF D
  <2>5. D \ {last} \subseteq Ahead(raw, group, last)
    <3>1. \A q \in D \ {last} : Precedes(raw, q, last)
      BY <2>1, <2>2, <2>3, Order
    <3> QED
      BY <1>1, <3>1 DEF Ahead
  <2>6. IsFiniteSet(Ahead(raw, group, last)) /\ Cardinality(Ahead(raw, group, last)) \in Nat
    BY <2>4, TopIs
  <2>7. IsFiniteSet(D \ {last}) /\ Cardinality(D \ {last}) <= Cardinality(Ahead(raw, group, last))
    BY <2>5, <2>6, FS_Subset
  <2>8. Cardinality(D \ {last}) = Cardinality(D) - 1
    BY <1>2, <2>3, FS_RemoveElement
  <2>9. Cardinality(D) \in Nat
    BY <1>2, FS_CardinalityType
  <2>10. Cardinality(D) <= cap
    BY <2>4, <2>6, <2>7, <2>8, <2>9
  <2> QED
    BY <1>2, <2>10 DEF D
<1> QED
  BY <1>3, <1>4

\* Those of S may have moved up; nothing else has changed places.
MovesUp(raw, after, S, group) ==
  /\ \A t \in group \ S, u \in group : Precedes(raw, u, t) => Precedes(after, u, t)
  /\ \A t \in group, u \in group \ S : Precedes(after, u, t) => Precedes(raw, u, t)

LEMMA TopStays ==
  ASSUME NEW raw, IsTable(raw), NEW after, IsTable(after), NEW group,
         group \subseteq DOMAIN raw, group \subseteq DOMAIN after,
         NEW S, MovesUp(raw, after, S, group), NEW cap \in Nat,
         S \cap group \subseteq FirstOf(raw, group, cap)
  PROVE  FirstOf(after, group, cap) = FirstOf(raw, group, cap)
<1>1. CASE cap = 0
  BY <1>1 DEF FirstOf
<1>2. CASE cap # 0
  <2> DEFINE D == FirstOf(raw, group, cap)
             E == FirstOf(after, group, cap)
  <2>1. D \subseteq group /\ E \subseteq group
    BY FirstOfIn
  <2>2. ASSUME NEW t \in group, t \notin D PROVE t \notin E
    <3>1. Ahead(raw, group, t) \subseteq Ahead(after, group, t)
      BY <2>2 DEF Ahead, MovesUp
    <3>2. /\ IsFiniteSet(Ahead(after, group, t))
          /\ Cardinality(Ahead(after, group, t)) \in Nat
          /\ Cardinality(Ahead(raw, group, t)) \in Nat
      BY <1>2, TopIs
    <3>3. Cardinality(Ahead(raw, group, t)) <= Cardinality(Ahead(after, group, t))
      BY <3>1, <3>2, FS_Subset
    <3>4. ~(Cardinality(Ahead(raw, group, t)) < cap)
      BY <1>2, <2>2, TopIs
    <3>5. ~(Cardinality(Ahead(after, group, t)) < cap)
      BY <3>2, <3>3, <3>4
    <3> QED
      BY <1>2, <3>5, TopIs
  <2>3. ASSUME NEW t \in D PROVE t \in E
    <3>1. t \in group
      BY <2>1
    <3>2. Ahead(after, group, t) \subseteq D \ {t}
      <4> SUFFICES ASSUME NEW u \in group, Precedes(after, u, t)
                   PROVE  u \in D /\ u # t
        BY DEF Ahead
      <4>1. u # t
        BY <3>1, Order
      <4>2. ASSUME u \notin D PROVE FALSE
        <5>1. u \in group \ S
          BY <4>2
        <5>2. Precedes(raw, u, t)
          BY <3>1, <5>1 DEF MovesUp
        <5> QED
          BY <1>2, <4>2, <5>2, TopIsClosed
      <4> QED
        BY <4>1, <4>2
    <3>3. IsFiniteSet(D) /\ Cardinality(D) <= cap
      BY <1>2, TopIsSmall
    <3> HIDE DEF D
    <3>4. Cardinality(D) \in Nat /\ Cardinality(D \ {t}) = Cardinality(D) - 1 /\ IsFiniteSet(D \ {t})
      BY <2>3, <3>3, FS_CardinalityType, FS_RemoveElement
    <3>5. Cardinality(Ahead(after, group, t)) <= Cardinality(D \ {t})
      BY <3>2, <3>4, FS_Subset
    <3>6. Cardinality(Ahead(after, group, t)) \in Nat
      BY <1>2, <3>1, TopIs
    <3>7. Cardinality(Ahead(after, group, t)) < cap
      BY <3>3, <3>4, <3>5, <3>6
    <3> QED
      BY <1>2, <3>1, <3>7, TopIs
  <2> QED
    BY <2>1, <2>2, <2>3
<1> QED
  BY <1>1, <1>2

SameRank(a, b) ==
  /\ a.complete = b.complete /\ a.healthy = b.healthy /\ a.forced = b.forced
  /\ a.priority = b.priority /\ a.pos = b.pos

\* The daemon has stamped some of S since the rows were read.
Stamped(raw, after, S) ==
  \A t \in DOMAIN after :
    /\ SameRank(raw[t], after[t])
    /\ after[t].started = raw[t].started \/ (raw[t].started = 0 /\ t \in S)

LEMMA StampsMoveUp ==
  ASSUME NEW raw, IsTable(raw), NEW after, IsTable(after), DOMAIN after \subseteq DOMAIN raw,
         NEW S, Stamped(raw, after, S)
  PROVE  MovesUp(raw, after, S, DOMAIN after)
<1> SUFFICES ASSUME NEW t \in DOMAIN after, NEW u \in DOMAIN after
             PROVE  /\ t \notin S /\ Precedes(raw, u, t) => Precedes(after, u, t)
                    /\ u \notin S /\ Precedes(after, u, t) => Precedes(raw, u, t)
  BY DEF MovesUp
<1> DEFINE a == raw[t]
           b == raw[u]
           c == after[t]
           d == after[u]
<1>1. /\ a.priority \in Nat /\ a.pos \in Int /\ a.started \in Nat
      /\ b.priority \in Nat /\ b.pos \in Int /\ b.started \in Nat
      /\ c.started \in Nat /\ d.started \in Nat
  BY Keys
<1>2. /\ a.complete = c.complete /\ a.priority = c.priority /\ a.pos = c.pos
      /\ b.complete = d.complete /\ b.priority = d.priority /\ b.pos = d.pos
  BY DEF Stamped, SameRank
<1>3. /\ c.started = a.started \/ (a.started = 0 /\ t \in S)
      /\ d.started = b.started \/ (b.started = 0 /\ u \in S)
  BY DEF Stamped
<1> HIDE DEF a, b, c, d
<1>4. ASSUME t \notin S PROVE (Better(b, a) => Better(d, c)) /\ (Better(c, d) => Better(a, b))
  BY <1>1, <1>2, <1>3, <1>4 DEF Better, StartedBefore
<1>5. ASSUME u \notin S PROVE (Better(d, c) => Better(b, a)) /\ (Better(a, b) => Better(c, d))
  BY <1>1, <1>2, <1>3, <1>5 DEF Better, StartedBefore
<1> QED
  BY <1>2, <1>4, <1>5 DEF Precedes, a, b, c, d

\* What the queue wants does not change by what it has started.
LEMMA WantedStays ==
  ASSUME NEW raw, IsTable(raw), NEW after, IsTable(after), DOMAIN after = DOMAIN raw,
         NEW cfg \in Configs, cfg.slow = 0,
         NEW S, Stamped(raw, after, S), S \subseteq Wanted(raw, cfg)
  PROVE  Wanted(after, cfg) = Wanted(raw, cfg)
<1> DEFINE managed == Managed(raw, cfg)
           uploads == {t \in managed : raw[t].complete}
           downloads == managed \ uploads
           D == FirstOf(raw, downloads, cfg.downloads)
           U == FirstOf(raw, uploads, cfg.uploads)
           both == D \cup U
<1>1. Wanted(raw, cfg) = FirstOf(raw, both, cfg.total)
  BY DEF Wanted
<1>2. Managed(after, cfg) = managed
  BY DEF Managed, Stamped, SameRank, IsSlow
<1>3. {t \in managed : after[t].complete} = uploads
  BY DEF Managed, Stamped, SameRank
<1>4. Wanted(after, cfg) =
        FirstOf(after, FirstOf(after, downloads, cfg.downloads)
                         \cup FirstOf(after, uploads, cfg.uploads), cfg.total)
  BY <1>2, <1>3 DEF Wanted
<1>5. managed \subseteq DOMAIN raw
  BY DEF Managed
<1>6. uploads \subseteq managed /\ downloads \subseteq managed /\ downloads \cap uploads = {}
  OBVIOUS
<1>7. cfg.downloads \in Nat /\ cfg.uploads \in Nat /\ cfg.total \in Nat
  BY DEF Configs
<1>8. D \subseteq downloads /\ U \subseteq uploads /\ Wanted(raw, cfg) \subseteq both
  <2>1. D \subseteq downloads /\ U \subseteq uploads
    BY FirstOfIn
  <2> HIDE DEF both
  <2>2. Wanted(raw, cfg) \subseteq both
    BY <1>1, FirstOfIn
  <2> QED
    BY <2>1, <2>2
<1> HIDE DEF managed, uploads, downloads
<1>9. \A group \in SUBSET DOMAIN raw : MovesUp(raw, after, S, group)
  BY StampsMoveUp DEF MovesUp
<1>10. FirstOf(after, downloads, cfg.downloads) = D
  <2>1. S \cap downloads \subseteq D
    BY <1>6, <1>8
  <2> QED
    BY <1>5, <1>6, <1>7, <1>9, <2>1, TopStays
<1>11. FirstOf(after, uploads, cfg.uploads) = U
  <2>1. S \cap uploads \subseteq U
    BY <1>6, <1>8
  <2> QED
    BY <1>5, <1>6, <1>7, <1>9, <2>1, TopStays
<1>12. both \subseteq DOMAIN raw
  BY <1>5, <1>6, <1>8
<1>13. Wanted(after, cfg) = FirstOf(after, both, cfg.total)
  BY <1>4, <1>10, <1>11
<1> HIDE DEF both, D, U
<1>14. S \cap both \subseteq FirstOf(raw, both, cfg.total)
  BY <1>1
<1>15. MovesUp(raw, after, S, both)
  BY <1>9, <1>12
<1>16. FirstOf(after, both, cfg.total) = FirstOf(raw, both, cfg.total)
  BY <1>7, <1>12, <1>14, <1>15, TopStays
<1> QED
  BY <1>1, <1>13, <1>16

\* When nothing runs and the slow are left alone, nothing is wanted.
LEMMA SlowAreLeft ==
  ASSUME NEW raw, IsTable(raw), ActiveIn(raw) = {}, NEW cfg \in Configs, cfg.slow # 0
  PROVE  Wanted(raw, cfg) = {}
<1>1. \A t \in DOMAIN raw : raw[t].rate = 0
  BY DEF IsTable, ActiveIn
<1>2. cfg.slow > 0
  BY DEF Configs
<1>3. Managed(raw, cfg) = {}
  BY <1>1, <1>2 DEF Managed, IsSlow
<1> QED
  BY <1>3, WantedIn

----------------------------------------------------------------------------
(* A pause window. *)

Undisturbed(p) == pass[p].clean \/ calm # "disturbed"

Overseen(p) ==
  LET r == pass[p]
      wanted == Wanted(r.raw, settings.queue)
  IN /\ DOMAIN rows \subseteq DOMAIN r.raw
     /\ DOMAIN r.raw \ DOMAIN rows \subseteq ActiveIn(r.raw)
     /\ Stamped(r.raw, rows, r.start)
     /\ ActiveIn(rows) \subseteq ActiveIn(r.raw) \cup r.start
     /\ r.start \subseteq wanted
     /\ r.acted \subseteq ActiveIn(r.raw)
     /\ r.stage \in {"goals", "queue"} => r.start = {}
     /\ r.stage \in {"start", "schedule"} /\ Configured(settings.queue) =>
          wanted \subseteq ActiveIn(r.raw) \cup r.own.queue.paused \cup r.start

CalmIsPaused == calm # "disturbed" => grid = "Paused"

PassesOversee ==
  \A p \in Begun : Undisturbed(p) => Begun = {p} /\ (pass[p].stage # "moves" => Overseen(p))

NothingWakes(m) ==
  /\ ActiveIn(rows) = {}
  /\ Configured(settings.queue) => Wanted(rows, settings.queue) \subseteq m.queue.paused

WindowSleeps ==
  calm # "disturbed" /\ Recollection.window =>
    /\ NothingWakes(Recollection)
    /\ \A p \in Begun : pass[p].stage # "moves" =>
         pass[p].raw = rows /\ pass[p].start = {} /\ pass[p].stage \in {"queue", "schedule"}

SettledSleeps ==
  calm = "settled" /\ (\A p \in Begun : pass[p].stage = "moves") => ActiveIn(rows) = {}

WindowInv == CalmIsPaused /\ PassesOversee /\ WindowSleeps /\ SettledSleeps

LEMMA RecollectionIs ==
  /\ Begun = {} => Recollection = policy
  /\ \A p \in Passes : Begun = {p} => Recollection = pass[p].own
BY DEF Recollection

LEMMA StampedItself ==
  ASSUME NEW table, NEW S
  PROVE  Stamped(table, table, S)
BY DEF Stamped, SameRank

LEMMA StampedOn ==
  ASSUME NEW raw, NEW before, NEW after, DOMAIN after \subseteq DOMAIN before,
         NEW S, Stamped(raw, before, S), NEW T, S \subseteq T,
         \A t \in DOMAIN after :
           /\ SameRank(before[t], after[t])
           /\ after[t].started = before[t].started \/ (before[t].started = 0 /\ t \in T)
  PROVE  Stamped(raw, after, T)
BY DEF Stamped, SameRank

LEMMA HeldRows ==
  ASSUME IsTable(rows), NEW S
  PROVE  /\ DOMAIN Held(S) = Live
         /\ ActiveIn(Held(S)) = ActiveIn(rows) \ S
         /\ \A t \in Live : SameRank(rows[t], Held(S)[t]) /\ Held(S)[t].started = rows[t].started
<1>1. \A t \in Live : rows[t] \in RowType
  BY DEF IsTable, Live
<1>2. ASSUME NEW t \in Live
      PROVE  /\ SameRank(rows[t], HeldRow(rows, t)) /\ HeldRow(rows, t).started = rows[t].started
             /\ ~HeldRow(rows, t).active
  BY <1>1 DEF HeldRow, SameRank, RowType
<1> QED
  BY <1>2 DEF Held, ActiveIn, SameRank, Live

LEMMA ErasedRows ==
  ASSUME IsTable(rows), NEW S
  PROVE  /\ DOMAIN Erased(S) = Live \ S
         /\ ActiveIn(Erased(S)) = ActiveIn(rows) \ S
         /\ \A t \in Live \ S :
              SameRank(rows[t], Erased(S)[t]) /\ Erased(S)[t].started = rows[t].started
BY DEF Erased, ActiveIn, SameRank, Live

LEMMA StartedRows ==
  ASSUME IsTable(rows), NEW S
  PROVE  /\ DOMAIN Started(S) = Live
         /\ ActiveIn(Started(S)) \subseteq ActiveIn(rows) \cup S
         /\ \A t \in Live :
              /\ SameRank(rows[t], Started(S)[t])
              /\ Started(S)[t].started = rows[t].started \/ (rows[t].started = 0 /\ t \in S)
<1>1. \A t \in Live : rows[t] \in RowType
  BY DEF IsTable, Live
<1>2. ASSUME NEW t \in Live
      PROVE  /\ SameRank(rows[t], StartedRow(rows, t))
             /\ StartedRow(rows, t).started = Stamp(rows, t)
  <2> HIDE DEF Stamp
  <2> QED
    BY <1>1 DEF StartedRow, SameRank, RowType
<1>3. \A t \in Live : rows[t].started # 0 => Stamp(rows, t) = rows[t].started
  BY DEF Stamp
<1> QED
  BY <1>2, <1>3 DEF Started, ActiveIn, SameRank, Live

\* A call that holds or erases, or does nothing.
LEMMA QuietingCall ==
  ASSUME IsTable(rows), NEW S, NEW after, after \in {Held(S), Erased(S)}, NEW who, NEW ok,
         Call(S, after, who, ok)
  PROVE  /\ DOMAIN rows' \subseteq DOMAIN rows
         /\ DOMAIN rows \ DOMAIN rows' \subseteq S
         /\ ActiveIn(rows') \subseteq ActiveIn(rows)
         /\ \A t \in DOMAIN rows' :
              SameRank(rows[t], rows'[t]) /\ rows'[t].started = rows[t].started
<1>1. rows' = rows \/ rows' = Held(S) \/ rows' = Erased(S)
  BY DEF Call, Deed
<1>2. CASE rows' = rows
  BY <1>2 DEF SameRank
<1>3. CASE rows' = Held(S)
  <2>1. /\ DOMAIN Held(S) = DOMAIN rows /\ ActiveIn(Held(S)) \subseteq ActiveIn(rows)
        /\ \A t \in DOMAIN rows : SameRank(rows[t], Held(S)[t]) /\ Held(S)[t].started = rows[t].started
    BY HeldRows DEF Live
  <2> QED
    BY <1>3, <2>1
<1>4. CASE rows' = Erased(S)
  <2>1. /\ DOMAIN Erased(S) = DOMAIN rows \ S /\ ActiveIn(Erased(S)) \subseteq ActiveIn(rows)
        /\ \A t \in DOMAIN rows \ S :
             SameRank(rows[t], Erased(S)[t]) /\ Erased(S)[t].started = rows[t].started
    BY ErasedRows DEF Live
  <2> QED
    BY <1>4, <2>1
<1> QED
  BY <1>1, <1>2, <1>3, <1>4

\* What a step of a pass leaves to be shown.
LEMMA OwnStep ==
  ASSUME TickInv, WindowInv, NEW p \in Passes, pass[p].stage # "idle",
         NEW r, pass' = [pass EXCEPT ![p] = r], r.stage # "idle", r.clean => pass[p].clean,
         calm = "disturbed" => calm' = "disturbed", UNCHANGED grid,
         Begun = {p} /\ Undisturbed(p) /\ Overseen(p) /\ r.stage # "moves" => Overseen(p)',
         r.stage # "moves" => pass[p].stage # "moves",
         Begun = {p} /\ calm # "disturbed" /\ calm' # "disturbed" /\ r.own.window =>
           /\ NothingWakes(r.own)'
           /\ r.stage # "moves" =>
                r.raw = rows' /\ r.start = {} /\ r.stage \in {"queue", "schedule"},
         Begun = {p} /\ calm # "disturbed" /\ calm' = "settled" /\ r.stage = "moves"
           => ActiveIn(rows') = {}
  PROVE  WindowInv'
<1>1. /\ pass'[p] = r /\ p \in Begun
      /\ \A q \in Passes \ {p} : pass'[q] = pass[q]
  BY DEF TickInv, PassesOK, Begun
<1>2. Begun' = Begun
  BY <1>1 DEF Begun
<1>3. CalmIsPaused'
  BY DEF WindowInv, CalmIsPaused
<1>4. Undisturbed(p)' => Undisturbed(p)
  BY <1>1 DEF Undisturbed
<1>5. PassesOversee'
  <2> SUFFICES ASSUME NEW q \in Begun, Undisturbed(q)'
               PROVE  Begun = {q} /\ (pass'[q].stage # "moves" => Overseen(q)')
    BY <1>2 DEF PassesOversee
  <2>1. Undisturbed(q)
    BY <1>1, <1>4 DEF Undisturbed, Begun
  <2>2. Begun = {q} /\ (pass[q].stage # "moves" => Overseen(q))
    BY <2>1 DEF WindowInv, PassesOversee
  <2>3. q = p
    BY <1>1, <2>2
  <2> QED
    BY <1>1, <2>1, <2>2, <2>3
<1>6. ASSUME calm' # "disturbed" PROVE Begun = {p} /\ calm # "disturbed"
  <2>1. calm # "disturbed"
    BY <1>6
  <2>2. Undisturbed(p)
    BY <2>1 DEF Undisturbed
  <2> QED
    BY <1>1, <2>1, <2>2 DEF WindowInv, PassesOversee
<1>7. ASSUME calm' # "disturbed" PROVE Recollection' = r.own
  <2>1. Begun' = {p}
    BY <1>2, <1>6, <1>7
  <2>2. (Begun = {p} => Recollection = pass[p].own)'
    BY DEF Recollection
  <2> QED
    BY <1>1, <2>1, <2>2
<1>8. WindowSleeps'
  <2> SUFFICES ASSUME calm' # "disturbed", Recollection'.window
               PROVE  /\ NothingWakes(Recollection)'
                      /\ \A q \in Begun' : pass'[q].stage # "moves" =>
                           /\ pass'[q].raw = rows' /\ pass'[q].start = {}
                           /\ pass'[q].stage \in {"queue", "schedule"}
    BY DEF WindowSleeps
  <2>1. Begun = {p} /\ calm # "disturbed" /\ Recollection' = r.own
    BY <1>6, <1>7
  <2>2. NothingWakes(r.own)'
    BY <2>1
  <2>3. r.stage # "moves" => r.raw = rows' /\ r.start = {} /\ r.stage \in {"queue", "schedule"}
    BY <2>1
  <2>4. NothingWakes(Recollection)'
    BY <2>1, <2>2 DEF NothingWakes
  <2> QED
    BY <1>1, <1>2, <2>1, <2>3, <2>4
<1>9. SettledSleeps'
  BY <1>1, <1>2, <1>6 DEF SettledSleeps
<1> QED
  BY <1>3, <1>5, <1>8, <1>9 DEF WindowInv

LEMMA PassIs ==
  ASSUME TickInv, NEW p \in Passes
  PROVE  /\ IsTable(rows) /\ IsTable(pass[p].raw) /\ MemoryOK(pass[p].own) /\ PassOK(pass[p])
         /\ pass[p].own.queue \in Memories
         /\ settings.queue \in Configs
<1>1. PassOK(pass[p])
  BY DEF TickInv, PassesOK
<1> QED
  BY <1>1, PassFields, SetupsAssumption DEF TickInv, MemoryOK, Policies

LEMMA GoalsSleep ==
  ASSUME TickInv, WindowInv, NEW p \in Passes, SeedGoals(p)
  PROVE  WindowInv'
<1> DEFINE reached == Reached(pass[p].raw, pass[p].own.stopped)
           after == IF settings.removes THEN Erased(reached) ELSE Held(reached)
           stops(ok) == [t \in Torrents |->
             IF ok /\ ~settings.removes /\ t \in reached THEN pass[p].raw[t].ratio
             ELSE pass[p].own.stopped[t]]
<1>1. PICK ok \in BOOLEAN :
        /\ Call(reached, after, "goal", ok)
        /\ pass' = [pass EXCEPT ![p] =
             [pass[p] EXCEPT !.stage = "queue", !.clean = @ /\ ok, !.acted = reached,
                             !.own = [pass[p].own EXCEPT !.stopped = stops(ok)]]]
  BY DEF SeedGoals
<1>2. PICK r : r = [pass[p] EXCEPT !.stage = "queue", !.clean = @ /\ ok, !.acted = reached,
                                   !.own = [pass[p].own EXCEPT !.stopped = stops(ok)]]
  OBVIOUS
<1>3. PassOK(pass[p]) /\ IsTable(rows) /\ pass[p].stage = "goals"
  BY PassIs DEF SeedGoals
<1> HIDE DEF stops
<1>4. /\ r.stage = "queue" /\ r.raw = pass[p].raw /\ r.acted = reached /\ r.start = pass[p].start
      /\ r.clean => pass[p].clean
  BY <1>2, <1>3 DEF PassOK, PassType
<1>5. r.own.window = pass[p].own.window
  <2>1. r.own = [pass[p].own EXCEPT !.stopped = stops(ok)]
    BY <1>2, <1>3 DEF PassOK, PassType
  <2> QED
    BY <2>1, PassIs DEF MemoryOK, Policies
<1>6. pass' = [pass EXCEPT ![p] = r] /\ UNCHANGED <<settings, grid, calm>>
  BY <1>1, <1>2 DEF SeedGoals
<1>7. pass'[p] = r
  BY <1>6 DEF TickInv, PassesOK
<1>8. reached \subseteq ActiveIn(pass[p].raw)
  BY DEF Reached
<1>9. /\ DOMAIN rows' \subseteq DOMAIN rows
      /\ DOMAIN rows \ DOMAIN rows' \subseteq reached
      /\ ActiveIn(rows') \subseteq ActiveIn(rows)
      /\ \A t \in DOMAIN rows' : SameRank(rows[t], rows'[t]) /\ rows'[t].started = rows[t].started
  <2>1. after \in {Held(reached), Erased(reached)}
    OBVIOUS
  <2> HIDE DEF after, reached
  <2> QED
    BY <1>1, <1>3, <2>1, QuietingCall
<1>10. ASSUME Overseen(p) PROVE Overseen(p)'
  <2> DEFINE raw == pass[p].raw
             start == pass[p].start
  <2>1. /\ DOMAIN rows \subseteq DOMAIN raw /\ DOMAIN raw \ DOMAIN rows \subseteq ActiveIn(raw)
        /\ Stamped(raw, rows, start) /\ start = {}
        /\ ActiveIn(rows) \subseteq ActiveIn(raw) \cup start
    BY <1>3, <1>10 DEF Overseen
  <2>2. Stamped(raw, rows', start)
    BY <1>9, <2>1, StampedOn
  <2>3. pass'[p].raw = raw /\ pass'[p].start = start /\ pass'[p].acted = reached
        /\ pass'[p].stage = "queue"
    BY <1>4, <1>7
  <2> HIDE DEF raw, start, reached
  <2>4. /\ DOMAIN rows' \subseteq DOMAIN raw /\ DOMAIN raw \ DOMAIN rows' \subseteq ActiveIn(raw)
        /\ ActiveIn(rows') \subseteq ActiveIn(raw) \cup start
    BY <1>8, <1>9, <2>1 DEF raw
  <2>5. reached \subseteq ActiveIn(raw)
    BY <1>8 DEF raw
  <2> QED
    BY <2>1, <2>2, <2>3, <2>4, <2>5 DEF Overseen
<1>11. ASSUME Begun = {p}, calm # "disturbed" PROVE ~r.own.window
  <2>1. Recollection = pass[p].own
    BY <1>11, RecollectionIs
  <2> QED
    BY <1>3, <1>5, <1>11, <2>1 DEF WindowInv, WindowSleeps
<1> QED
  BY <1>3, <1>4, <1>6, <1>10, <1>11, OwnStep

LEMMA HoldSleeps ==
  ASSUME TickInv, WindowInv, NEW p \in Passes, HoldQueued(p)
  PROVE  WindowInv'
<1> DEFINE raw == pass[p].raw
           cfg == settings.queue
           mem == pass[p].own.queue
           wanted == Wanted(raw, cfg)
           verdict == Verdict(raw, cfg, mem, pass[p].acted)
           stage == IF verdict.start = {} THEN "schedule" ELSE "start"
<1>1. PICK ok \in BOOLEAN :
        /\ IF verdict.stop = {} THEN NoCall(ok) ELSE Call(verdict.stop, Held(verdict.stop), "queue", ok)
        /\ pass' = [pass EXCEPT ![p] =
             [pass[p] EXCEPT !.stage = stage, !.clean = @ /\ ok,
                             !.own = [pass[p].own EXCEPT !.queue = verdict.mem],
                             !.start = verdict.start]]
  BY DEF HoldQueued
<1>2. PICK r : r = [pass[p] EXCEPT !.stage = stage, !.clean = @ /\ ok,
                                   !.own = [pass[p].own EXCEPT !.queue = verdict.mem],
                                   !.start = verdict.start]
  OBVIOUS
<1>3. /\ PassOK(pass[p]) /\ IsTable(rows) /\ IsTable(raw) /\ mem \in Memories /\ cfg \in Configs
      /\ pass[p].stage = "queue"
  BY PassIs DEF HoldQueued
<1>4. wanted \subseteq DOMAIN raw /\ ActiveIn(raw) \subseteq DOMAIN raw
  BY WantedIn DEF ActiveIn
\* The verdict, if the queue is configured and if not.
<1>5. /\ verdict.start \subseteq wanted
      /\ verdict.stop \subseteq ActiveIn(raw)
      /\ Configured(cfg) =>
           wanted \subseteq ActiveIn(raw) \cup pass[p].acted \cup verdict.mem.paused \cup verdict.start
      /\ Configured(cfg) =>
           verdict.start \cap verdict.mem.paused = {}
      /\ ~Configured(cfg) => verdict.start = {}
      /\ Configured(cfg) /\ ActiveIn(raw) = {} => mem.paused \cap DOMAIN raw \subseteq verdict.mem.paused
  BY DEF Verdict, Judged
<1>6. UNCHANGED <<settings, grid, calm>>
  BY DEF HoldQueued
<1> HIDE DEF verdict, wanted
<1>7. /\ r.stage \in {"start", "schedule"} /\ (verdict.start = {} => r.stage = "schedule")
      /\ r.raw = raw /\ r.acted = pass[p].acted
      /\ r.start = verdict.start /\ (r.clean => pass[p].clean)
      /\ r.own = [pass[p].own EXCEPT !.queue = verdict.mem]
  BY <1>2, <1>3 DEF PassOK, PassType
<1>8. r.own.window = pass[p].own.window /\ r.own.queue = verdict.mem
  BY <1>7, PassIs DEF MemoryOK, Policies
<1>9. pass' = [pass EXCEPT ![p] = r]
  BY <1>1, <1>2
<1>10. pass'[p] = r
  BY <1>9 DEF TickInv, PassesOK
<1>11. /\ DOMAIN rows' = DOMAIN rows
       /\ ActiveIn(rows') \subseteq ActiveIn(rows)
       /\ \A t \in DOMAIN rows' : SameRank(rows[t], rows'[t]) /\ rows'[t].started = rows[t].started
       /\ verdict.stop = {} => rows' = rows
  <2>1. CASE verdict.stop = {}
    BY <1>1, <2>1 DEF NoCall, SameRank
  <2>2. CASE verdict.stop # {}
    <3>1. rows' = rows \/ rows' = Held(verdict.stop)
      BY <1>1, <2>2 DEF Call, Deed
    <3>2. Call(verdict.stop, Held(verdict.stop), "queue", ok)
      BY <1>1, <2>2
    <3>3. DOMAIN rows' = DOMAIN rows
      BY <1>3, <3>1, HeldRows DEF Live
    <3> QED
      BY <1>3, <2>2, <3>2, <3>3, QuietingCall
  <2> QED
    BY <2>1, <2>2
<1>12. ASSUME Overseen(p) PROVE Overseen(p)'
  <2>1. /\ DOMAIN rows \subseteq DOMAIN raw /\ DOMAIN raw \ DOMAIN rows \subseteq ActiveIn(raw)
        /\ Stamped(raw, rows, {})
        /\ ActiveIn(rows) \subseteq ActiveIn(raw)
        /\ pass[p].acted \subseteq ActiveIn(raw)
    BY <1>3, <1>12 DEF Overseen
  <2>2. Stamped(raw, rows', verdict.start)
    <3>1. {} \subseteq verdict.start
      OBVIOUS
    <3> HIDE DEF raw
    <3> QED
      BY <1>11, <2>1, <3>1, StampedOn
  <2>3. /\ pass'[p].raw = raw /\ pass'[p].start = verdict.start /\ pass'[p].acted = pass[p].acted
        /\ pass'[p].stage \in {"start", "schedule"} /\ pass'[p].own.queue.paused = verdict.mem.paused
    BY <1>7, <1>8, <1>10
  <2>4. settings' = settings
    BY <1>6
  <2>5. /\ verdict.start \subseteq Wanted(raw, cfg)
        /\ Configured(cfg) => Wanted(raw, cfg) \subseteq
             ActiveIn(raw) \cup verdict.mem.paused \cup verdict.start
    BY <1>5, <2>1 DEF wanted
  <2> HIDE DEF raw
  <2> QED
    BY <1>11, <2>1, <2>2, <2>3, <2>4, <2>5 DEF Overseen
<1>13. ASSUME Begun = {p}, calm # "disturbed", r.own.window
       PROVE  /\ NothingWakes(r.own)'
              /\ r.raw = rows' /\ r.start = {} /\ r.stage \in {"queue", "schedule"}
  <2>1. Recollection = pass[p].own
    BY <1>13, RecollectionIs
  <2>2. NothingWakes(pass[p].own) /\ raw = rows
    BY <1>3, <1>8, <1>13, <2>1 DEF WindowInv, WindowSleeps
  <2>3. ActiveIn(raw) = {} /\ (Configured(cfg) => wanted \subseteq mem.paused)
    BY <2>2 DEF NothingWakes, wanted
  <2>4. rows' = rows
    BY <1>5, <1>11, <2>3
  <2>5. Configured(cfg) => wanted \subseteq verdict.mem.paused
    BY <1>4, <1>5, <2>3
  <2>6. verdict.start = {}
    BY <1>5, <2>5
  <2>7. NothingWakes(r.own)'
    BY <1>6, <1>8, <2>2, <2>3, <2>4, <2>5 DEF NothingWakes, wanted
  <2> QED
    BY <1>7, <2>2, <2>4, <2>6, <2>7
<1>14. /\ pass[p].stage # "idle" /\ r.stage # "idle" /\ (r.clean => pass[p].clean)
       /\ pass[p].stage # "moves" /\ r.stage # "moves"
  BY <1>3, <1>7
<1> HIDE DEF raw
<1> QED
  BY <1>6, <1>9, <1>12, <1>13, <1>14, OwnStep

LEMMA StartSleeps ==
  ASSUME TickInv, WindowInv, NEW p \in Passes, StartQueued(p)
  PROVE  WindowInv'
<1>1. PICK ok \in BOOLEAN :
        /\ Call(pass[p].start, Started(pass[p].start), "nobody", ok)
        /\ Onward(p, ok, "schedule", pass[p].own)
  BY DEF StartQueued
<1>2. PassOK(pass[p]) /\ IsTable(rows) /\ pass[p].stage = "start"
  BY PassIs DEF StartQueued
<1>3. PICK r : r = [pass[p] EXCEPT !.stage = "schedule", !.clean = @ /\ ok]
  OBVIOUS
<1>4. pass' = [pass EXCEPT ![p] = r]
  BY <1>1, <1>2, <1>3 DEF Onward, TickInv, PassesOK, PassOK, PassType
<1>5. /\ r.stage = "schedule" /\ r.raw = pass[p].raw /\ r.acted = pass[p].acted
      /\ r.start = pass[p].start /\ r.own = pass[p].own /\ (r.clean => pass[p].clean)
  BY <1>2, <1>3 DEF PassOK, PassType
<1>6. pass'[p] = r /\ UNCHANGED <<settings, grid, calm>>
  BY <1>4 DEF TickInv, PassesOK, StartQueued
<1>7. /\ DOMAIN rows' = DOMAIN rows
      /\ ActiveIn(rows') \subseteq ActiveIn(rows) \cup pass[p].start
      /\ \A t \in DOMAIN rows' :
           /\ SameRank(rows[t], rows'[t])
           /\ rows'[t].started = rows[t].started \/ (rows[t].started = 0 /\ t \in pass[p].start)
  <2>1. rows' = rows \/ rows' = Started(pass[p].start)
    BY <1>1 DEF Call, Deed
  <2>2. CASE rows' = rows
    BY <2>2 DEF SameRank
  <2>3. CASE rows' = Started(pass[p].start)
    BY <1>2, <2>3, StartedRows DEF Live
  <2> QED
    BY <2>1, <2>2, <2>3
<1>8. ASSUME Overseen(p) PROVE Overseen(p)'
  <2>1. Stamped(pass[p].raw, rows, pass[p].start)
    BY <1>8 DEF Overseen
  <2>2. Stamped(pass[p].raw, rows', pass[p].start)
    BY <1>7, <2>1, StampedOn
  <2>3. /\ pass'[p].raw = pass[p].raw /\ pass'[p].start = pass[p].start
        /\ pass'[p].acted = pass[p].acted /\ pass'[p].stage = "schedule"
        /\ pass'[p].own = pass[p].own /\ settings' = settings
    BY <1>5, <1>6
  <2> QED
    BY <1>2, <1>7, <1>8, <2>2, <2>3 DEF Overseen
<1>9. ASSUME Begun = {p}, calm # "disturbed" PROVE ~r.own.window
  <2>1. Recollection = pass[p].own
    BY <1>9, RecollectionIs
  <2> QED
    BY <1>2, <1>5, <1>9, <2>1 DEF WindowInv, WindowSleeps
<1> QED
  BY <1>2, <1>4, <1>5, <1>6, <1>8, <1>9, OwnStep

\* What the queue would start, were everything it and the window hold stopped.
LEMMA HeldAreWanted ==
  ASSUME NEW raw, IsTable(raw), NEW after, IsTable(after), DOMAIN after = DOMAIN raw,
         NEW cfg \in Configs, NEW S, Stamped(raw, after, S), S \subseteq Wanted(raw, cfg),
         ActiveIn(after) = {}
  PROVE  Wanted(after, cfg) \subseteq Wanted(raw, cfg)
<1>1. CASE cfg.slow = 0
  BY <1>1, WantedStays
<1>2. CASE cfg.slow # 0
  BY <1>2, SlowAreLeft
<1> QED
  BY <1>1, <1>2

LEMMA EnterSleeps ==
  ASSUME TickInv, TickInv', WindowInv, NEW p \in Passes, EnterWindow(p)
  PROVE  WindowInv'
<1> DEFINE holding == Holding(p)
           entered == [pass[p].own EXCEPT !.window = TRUE, !.held = @ \cup holding,
                                          !.queue.paused = @ \cup holding]
           missed == [pass[p].own EXCEPT !.held = {}]
<1>1. PICK ok \in BOOLEAN :
        /\ IF holding = {} THEN NoCall(ok)
           ELSE Call(holding, Held(holding), IF ok /\ Begun = {p} THEN "window" ELSE "botched", ok)
        /\ Onward(p, ok, "moves", IF ok THEN entered ELSE missed)
        /\ calm' = Calmer(pass[p].clean /\ ok, ok)
  BY DEF EnterWindow
<1>2. /\ PassOK(pass[p]) /\ IsTable(rows) /\ pass[p].stage = "schedule" /\ MemoryOK(pass[p].own)
      /\ ~pass[p].own.window /\ IsTable(pass[p].raw) /\ settings.queue \in Configs
  BY PassIs DEF EnterWindow
<1>3. PICK own : own = IF ok THEN entered ELSE missed
  OBVIOUS
<1>4. PICK r : r = [pass[p] EXCEPT !.stage = "moves", !.clean = @ /\ ok, !.own = own]
  OBVIOUS
<1>5. pass' = [pass EXCEPT ![p] = r]
  BY <1>1, <1>2, <1>3, <1>4 DEF Onward, TickInv, PassesOK, PassOK, PassType
<1>6. r.stage = "moves" /\ r.own = own /\ (r.clean => pass[p].clean)
  BY <1>2, <1>4 DEF PassOK, PassType
<1>7. /\ ok => own.queue.paused = pass[p].own.queue.paused \cup holding
      /\ ~ok => ~own.window
  BY <1>2, <1>3 DEF MemoryOK, Policies, Memories
<1> HIDE DEF entered, missed
<1>8. UNCHANGED <<settings, grid>> /\ (calm = "disturbed" => calm' = "disturbed")
      /\ (calm' = "settled" => ok)
  BY <1>1 DEF EnterWindow, Calmer, TickInv, HistoryOK
<1>9. ASSUME Begun = {p}, calm # "disturbed", ok
      PROVE  ActiveIn(rows') = {} /\ NothingWakes(own)'
  <2>1. Overseen(p)
    BY <1>2, <1>9 DEF WindowInv, PassesOversee, Undisturbed
  <2> DEFINE raw == pass[p].raw
             start == pass[p].start
  <2>2. /\ DOMAIN rows \subseteq DOMAIN raw /\ DOMAIN raw \ DOMAIN rows \subseteq ActiveIn(raw)
        /\ Stamped(raw, rows, start) /\ ActiveIn(rows) \subseteq holding
        /\ start \subseteq Wanted(raw, settings.queue)
        /\ Configured(settings.queue) =>
             Wanted(raw, settings.queue) \subseteq holding \cup pass[p].own.queue.paused
        /\ ActiveIn(raw) \subseteq holding
    BY <1>2, <2>1 DEF Overseen, Holding
  <2> HIDE DEF holding, raw, start
  <2>3. holding \subseteq Live /\ ActiveIn(rows') = {} /\ DOMAIN rows' = DOMAIN rows
        /\ \A t \in DOMAIN rows : SameRank(rows[t], rows'[t]) /\ rows'[t].started = rows[t].started
    <3>1. CASE holding = {}
      BY <1>1, <2>2, <3>1 DEF NoCall, SameRank
    <3>2. CASE holding # {}
      <4>1. holding \subseteq Live /\ rows' = Held(holding)
        BY <1>1, <1>9, <3>2 DEF Call, Deed
      <4>2. /\ DOMAIN Held(holding) = DOMAIN rows
            /\ ActiveIn(Held(holding)) = ActiveIn(rows) \ holding
            /\ \A t \in DOMAIN rows :
                 SameRank(rows[t], Held(holding)[t]) /\ Held(holding)[t].started = rows[t].started
        BY <1>2, HeldRows DEF Live
      <4> QED
        BY <2>2, <4>1, <4>2
    <3> QED
      BY <3>1, <3>2
  <2>4. DOMAIN rows' = DOMAIN raw
    BY <2>2, <2>3 DEF Live
  <2>5. Stamped(raw, rows', start)
    BY <2>2, <2>3, StampedOn
  <2>6. IsTable(rows') /\ IsTable(raw)
    BY <1>2 DEF TickInv, raw
  <2>7. Wanted(rows', settings.queue) \subseteq Wanted(raw, settings.queue)
    BY <1>2, <2>2, <2>3, <2>4, <2>5, <2>6, HeldAreWanted
  <2>8. Configured(settings.queue) =>
          Wanted(rows', settings.queue) \subseteq own.queue.paused
    BY <1>7, <1>9, <2>2, <2>7
  <2> QED
    BY <1>8, <2>3, <2>8 DEF NothingWakes
<1> HIDE DEF holding
<1>10. ASSUME Begun = {p}, calm # "disturbed", calm' # "disturbed", r.own.window
       PROVE  NothingWakes(r.own)'
  <2>1. ok
    BY <1>6, <1>7, <1>10
  <2> QED
    BY <1>6, <1>9, <1>10, <2>1
<1>11. Begun = {p} /\ calm # "disturbed" /\ calm' = "settled" => ActiveIn(rows') = {}
  BY <1>8, <1>9
<1> QED
  BY <1>2, <1>5, <1>6, <1>8, <1>10, <1>11, OwnStep

LEMMA StaySleeps ==
  ASSUME TickInv, WindowInv, NEW p \in Passes, StayInWindow(p)
  PROVE  WindowInv'
<1>1. /\ PassOK(pass[p]) /\ pass[p].stage = "schedule" /\ pass[p].own.window
      /\ UNCHANGED <<settings, rows, grid>> /\ calm' = Calmer(pass[p].clean, TRUE)
      /\ Onward(p, TRUE, "moves", pass[p].own)
  BY PassIs DEF StayInWindow, daemonVars
<1>2. PICK r : r = [pass[p] EXCEPT !.stage = "moves", !.clean = @ /\ TRUE, !.own = pass[p].own]
  OBVIOUS
<1>3. /\ r.stage = "moves" /\ r.own = pass[p].own /\ (r.clean => pass[p].clean)
      /\ pass' = [pass EXCEPT ![p] = r]
  BY <1>1, <1>2 DEF Onward, TickInv, PassesOK, PassOK, PassType
<1>4. calm = "disturbed" => calm' = "disturbed"
  BY <1>1 DEF Calmer
<1>5. ASSUME Begun = {p}, calm # "disturbed" PROVE NothingWakes(pass[p].own)
  <2>1. Recollection = pass[p].own
    BY <1>5, RecollectionIs
  <2> QED
    BY <1>1, <1>5, <2>1 DEF WindowInv, WindowSleeps
<1>6. ASSUME Begun = {p}, calm # "disturbed" PROVE ActiveIn(rows') = {} /\ NothingWakes(r.own)'
  BY <1>1, <1>3, <1>5, <1>6 DEF NothingWakes
<1> QED
  BY <1>1, <1>3, <1>4, <1>6, OwnStep

LEMMA ApplySleeps ==
  ASSUME TickInv, WindowInv, NEW p \in Passes, ApplyLimits(p)
  PROVE  WindowInv'
<1>1. PassOK(pass[p]) /\ pass[p].stage = "schedule" /\ calm = "disturbed" /\ calm' = calm /\ grid' = grid
  BY PassIs DEF ApplyLimits, historyVars, WindowInv, CalmIsPaused
<1>2. PICK own : Onward(p, TRUE, "moves", own)
  BY DEF ApplyLimits
<1>3. PICK r : r = [pass[p] EXCEPT !.stage = "moves", !.clean = @ /\ TRUE, !.own = own]
  OBVIOUS
<1>4. /\ r.stage = "moves" /\ (r.clean => pass[p].clean) /\ pass' = [pass EXCEPT ![p] = r]
  BY <1>1, <1>2, <1>3 DEF Onward, TickInv, PassesOK, PassOK, PassType
<1> QED
  BY <1>1, <1>4, OwnStep

LEMMA PollSleeps ==
  ASSUME TickInv, WindowInv, NEW p \in Passes, Poll(p)
  PROVE  WindowInv'
<1> DEFINE stage == IF Reached(rows, policy.stopped) = {} THEN "queue" ELSE "goals"
           own == [policy EXCEPT !.seen = Seen]
           begun == [Idle EXCEPT !.stage = stage, !.own = own, !.raw = rows, !.clean = Begun = {}]
<1>1. pass' = [q \in Passes |->
        IF q # p THEN [pass[q] EXCEPT !.clean = @ /\ pass[q].stage = "idle"] ELSE begun]
  BY DEF Poll
<1>2. UNCHANGED <<settings, rows, grid>> /\ pass[p].stage = "idle"
  BY DEF Poll, daemonVars
<1>3. MemoryOK(policy) /\ \A q \in Passes : PassOK(pass[q])
  BY DEF TickInv, PassesOK
<1>4. /\ begun.raw = rows /\ begun.start = {} /\ begun.acted = {} /\ begun.own = own
      /\ begun.stage = stage /\ (begun.clean => Begun = {})
  BY DEF Idle
<1>5. own.window = policy.window /\ own.queue = policy.queue
  BY <1>3 DEF MemoryOK, Policies
<1>6. stage \in {"queue", "goals"} /\ (ActiveIn(rows) = {} => stage = "queue")
  BY DEF Reached
<1> HIDE DEF stage, own, begun
<1>7. pass'[p] = begun
  BY <1>1
<1>8. \A q \in Passes \ {p} :
        /\ pass'[q].stage = pass[q].stage
        /\ pass'[q].clean => pass[q].stage = "idle"
  BY <1>1, <1>3 DEF PassOK, PassType
<1>9. Begun' = Begun \cup {p}
  BY <1>4, <1>6, <1>7, <1>8 DEF Begun
<1>10. CASE Begun = {}
  <2>1. calm' = calm /\ Begun' = {p}
    BY <1>9, <1>10 DEF Poll
  <2>2. Overseen(p)'
    <3>1. Stamped(rows, rows, {})
      BY StampedItself
    <3> QED
      BY <1>2, <1>4, <1>6, <1>7, <3>1 DEF Overseen
  <2>3. PassesOversee'
    BY <2>1, <2>2 DEF PassesOversee
  <2>4. Recollection' = own
    <3>1. (Begun = {p} => Recollection = pass[p].own)'
      BY DEF Recollection
    <3> QED
      BY <1>4, <1>7, <2>1, <3>1
  <2>5. WindowSleeps'
    <3> SUFFICES ASSUME calm # "disturbed", policy.window
                 PROVE  /\ NothingWakes(Recollection)'
                        /\ begun.raw = rows' /\ begun.start = {} /\ begun.stage \in {"queue", "schedule"}
      BY <1>5, <1>7, <2>1, <2>4 DEF WindowSleeps
    <3>1. NothingWakes(policy)
      BY <1>10, RecollectionIs DEF WindowInv, WindowSleeps
    <3>2. NothingWakes(Recollection)'
      BY <1>2, <1>5, <2>4, <3>1 DEF NothingWakes
    <3> QED
      BY <1>2, <1>4, <1>6, <3>1, <3>2 DEF NothingWakes
  <2>6. SettledSleeps'
    BY <1>4, <1>6, <1>7, <2>1 DEF SettledSleeps
  <2> QED
    BY <1>2, <2>1, <2>3, <2>5, <2>6 DEF WindowInv, CalmIsPaused
<1>11. CASE Begun # {}
  <2>1. calm' = "disturbed"
    BY <1>11 DEF Poll
  <2>2. \A q \in Begun' : ~pass'[q].clean
    <3>1. ~begun.clean
      BY <1>4, <1>11
    <3> QED
      BY <1>7, <1>8, <3>1 DEF Begun
  <2> QED
    BY <2>1, <2>2
       DEF WindowInv, CalmIsPaused, PassesOversee, Undisturbed, WindowSleeps, SettledSleeps
<1> QED
  BY <1>10, <1>11

LEMMA GiveBackSleeps ==
  ASSUME TickInv, WindowInv, NEW p \in Passes, GiveBack(p)
  PROVE  WindowInv'
<1>1. /\ pass[p].stage = "moves" /\ policy' = pass[p].own /\ pass' = [pass EXCEPT ![p] = Idle]
      /\ UNCHANGED <<settings, rows, grid, calm>>
  BY DEF GiveBack, daemonVars, historyVars
<1>2. /\ pass'[p].stage = "idle" /\ p \in Begun
      /\ \A q \in Passes \ {p} : pass'[q] = pass[q]
  BY <1>1, IdleOK DEF TickInv, PassesOK, Begun
<1>3. Begun' = Begun \ {p}
  BY <1>2 DEF Begun
<1>4. ASSUME NEW q \in Begun' PROVE ~Undisturbed(q)'
  <2>1. q \in Begun /\ q # p
    BY <1>3, <1>4
  <2>2. Undisturbed(q)' <=> Undisturbed(q)
    BY <1>1, <1>2, <2>1 DEF Undisturbed, Begun
  <2> QED
    BY <1>2, <2>1, <2>2 DEF WindowInv, PassesOversee
<1>5. ASSUME calm # "disturbed" PROVE Begun = {p} /\ Begun' = {}
  BY <1>2, <1>3, <1>5 DEF WindowInv, PassesOversee, Undisturbed
<1>6. ASSUME calm # "disturbed" PROVE Recollection' = Recollection
  <2>1. Recollection = pass[p].own
    BY <1>5, <1>6, RecollectionIs
  <2>2. (Begun = {} => Recollection = policy)'
    BY DEF Recollection
  <2> QED
    BY <1>1, <1>5, <1>6, <2>1, <2>2
<1>7. WindowSleeps'
  <2> SUFFICES ASSUME calm # "disturbed", Recollection.window
               PROVE  NothingWakes(Recollection)' /\ Begun' = {}
    BY <1>1, <1>6 DEF WindowSleeps
  <2>1. NothingWakes(Recollection)
    BY DEF WindowInv, WindowSleeps
  <2> QED
    BY <1>1, <1>5, <1>6, <2>1 DEF NothingWakes
<1>8. SettledSleeps'
  BY <1>1, <1>5 DEF WindowInv, SettledSleeps
<1> QED
  BY <1>1, <1>4, <1>7, <1>8 DEF WindowInv, CalmIsPaused, PassesOversee

LEMMA MeanwhileSleeps ==
  ASSUME TickInv, WindowInv, Meanwhile
  PROVE  WindowInv'
<1>1. calm' = "disturbed" /\ pass' = [p \in Passes |-> [pass[p] EXCEPT !.clean = p \notin Begun]]
  BY DEF Meanwhile
<1>2. \A p \in Passes : PassOK(pass[p])
  BY DEF TickInv, PassesOK
<1>3. \A p \in Passes : pass'[p].stage = pass[p].stage /\ (pass'[p].clean => p \notin Begun)
  BY <1>1, <1>2 DEF PassOK, PassType
<1>4. Begun' = Begun
  BY <1>3 DEF Begun
<1>5. \A p \in Begun' : ~pass'[p].clean
  BY <1>3, <1>4 DEF Begun
<1> QED
  BY <1>1, <1>5
     DEF WindowInv, CalmIsPaused, PassesOversee, Undisturbed, WindowSleeps, SettledSleeps

LEMMA ClockSleeps ==
  ASSUME TickInv, WindowInv, ClockTurns
  PROVE  WindowInv'
<1>1. /\ UNCHANGED <<settings, rows, policy, pass>>
      /\ calm' = IF grid' = "Paused" /\ ~Recollection.window /\ (\A p \in Passes : pass[p].clean)
                 THEN "quiet" ELSE "disturbed"
  BY DEF ClockTurns, daemonVars
<1>2. Begun' = Begun /\ Recollection' = Recollection
  BY <1>1 DEF Begun, Recollection
<1>3. ASSUME NEW p \in Begun, Undisturbed(p)' PROVE Undisturbed(p)
  BY <1>1, <1>3 DEF Undisturbed, Begun
<1>4. \A p \in Passes : Overseen(p) => Overseen(p)'
  BY <1>1 DEF Overseen
<1>5. PassesOversee'
  BY <1>1, <1>2, <1>3, <1>4 DEF WindowInv, PassesOversee, Begun
<1> QED
  BY <1>1, <1>2, <1>5 DEF WindowInv, CalmIsPaused, WindowSleeps, SettledSleeps

LEMMA ReconnectSleeps ==
  ASSUME TickInv, WindowInv, Reconnect
  PROVE  WindowInv'
<1>1. UNCHANGED <<settings, rows, grid, pass>> /\ policy' = Fresh
  BY DEF Reconnect, Anew
<1>2. Begun' = Begun
  BY <1>1 DEF Begun
<1>3. CASE Begun = {}
  <2>1. calm' = calm
    BY <1>3 DEF Reconnect
  <2>2. ~Recollection'.window
    <3>1. (Begun = {} => Recollection = policy)'
      BY DEF Recollection
    <3> QED
      BY <1>1, <1>2, <1>3, <3>1 DEF Fresh
  <2> QED
    BY <1>1, <1>2, <1>3, <2>1, <2>2
       DEF WindowInv, CalmIsPaused, PassesOversee, WindowSleeps, SettledSleeps
<1>4. CASE Begun # {}
  <2>1. calm' = "disturbed"
    BY <1>4 DEF Reconnect
  <2>2. \A p \in Begun : Undisturbed(p)' => Undisturbed(p)
    BY <1>1, <2>1 DEF Undisturbed
  <2>3. \A p \in Passes : Overseen(p) => Overseen(p)'
    BY <1>1 DEF Overseen
  <2>4. PassesOversee'
    BY <1>1, <1>2, <2>2, <2>3 DEF WindowInv, PassesOversee, Begun
  <2> QED
    BY <2>1, <2>4 DEF WindowInv, CalmIsPaused, WindowSleeps, SettledSleeps
<1> QED
  BY <1>3, <1>4

LEMMA StandingSleeps ==
  ASSUME WindowInv, UNCHANGED vars
  PROVE  WindowInv'
<1>1. UNCHANGED <<settings, rows, grid, policy, pass, calm>>
  BY DEF vars, daemonVars, historyVars
<1>2. Begun' = Begun /\ Recollection' = Recollection
  BY <1>1 DEF Begun, Recollection
<1>3. \A p \in Passes : (Overseen(p) => Overseen(p)') /\ (Undisturbed(p)' => Undisturbed(p))
  BY <1>1 DEF Overseen, Undisturbed
<1>4. NothingWakes(Recollection) => NothingWakes(Recollection)'
  BY <1>1, <1>2 DEF NothingWakes
<1>5. PassesOversee'
  BY <1>1, <1>2, <1>3 DEF WindowInv, PassesOversee, Begun
<1> QED
  BY <1>1, <1>2, <1>4, <1>5 DEF WindowInv, CalmIsPaused, WindowSleeps, SettledSleeps

\* Inside a pause window in which nothing but time passes, nothing runs once a
\* pass succeeded, for any torrents, caps, goals and failing calls: neither what
\* a pass starts before it enters the window, nor what the queue would start in
\* a later one, nor anything after a lost session (apply_schedule, run_tick).
THEOREM WindowsHold == Spec => []WindowHalts
<1>1. Init => WindowInv
  <2> SUFFICES ASSUME Init PROVE WindowInv
    OBVIOUS
  <2>1. calm = "disturbed" /\ Begun = {}
    BY IdleOK DEF Init, Begun
  <2> QED
    BY <2>1 DEF WindowInv, CalmIsPaused, PassesOversee, WindowSleeps, SettledSleeps
<1>2. TickInv /\ WindowInv /\ [Next]_vars => WindowInv'
  <2> SUFFICES ASSUME TickInv, WindowInv, [Next]_vars PROVE WindowInv'
    OBVIOUS
  <2>1. TickInv'
    BY TickStep
  <2>2. ASSUME NEW p \in Passes, PassStep(p) PROVE WindowInv'
    BY <2>1, <2>2, PollSleeps, GoalsSleep, HoldSleeps, StartSleeps, EnterSleeps, StaySleeps,
       ApplySleeps, GiveBackSleeps DEF PassStep
  <2> QED
    BY <2>2, MeanwhileSleeps, ClockSleeps, ReconnectSleeps, StandingSleeps DEF Next
<1>3. WindowInv => WindowHalts
  BY DEF WindowInv, SettledSleeps, WindowHalts
<1> QED
  BY <1>1, <1>2, <1>3, TickInit, TickStep, PTL DEF Spec

----------------------------------------------------------------------------
(* What the user paused, where there is room for all. *)

Fits(table) ==
  /\ DOMAIN table \subseteq DOMAIN settings.rows
  /\ \A t \in DOMAIN table : table[t].healthy /\ ~table[t].forced

EverythingFits == settings.roomy => Fits(rows) /\ \A p \in Passes : Fits(pass[p].raw)

PassesCover == \A p \in Begun : DOMAIN rows \subseteq DOMAIN pass[p].raw

FreshStart(r) ==
  /\ r.start \cap r.own.queue.ran = {}
  /\ r.start # {} => Configured(settings.queue)
  /\ r.stage \in {"goals", "queue"} => r.start = {}

StartsAreFresh == \A p \in Passes : FreshStart(pass[p])

UserPaused == {t \in Live : holder[t] = "user" /\ ~rows[t].active}

Recalled(m) == (m.queue.paused \cup m.queue.ran) \ m.held

\* What the queue knows to be paused once it has judged the rows of the pass.
WillRecall(r) ==
  (r.own.queue.paused \cup r.own.queue.ran
     \cup (IF r.stage \in {"goals", "queue"} THEN ActiveIn(r.raw) ELSE {}))
    \ (r.own.held \cup r.start)

PausesRecalled ==
  settings.roomy /\ Configured(settings.queue) =>
    /\ Begun = {} => UserPaused \subseteq Recalled(policy)
    /\ \A p \in Begun : UserPaused # {} => Begun = {p} /\ UserPaused \subseteq WillRecall(pass[p])

PauseInv == EverythingFits /\ PassesCover /\ StartsAreFresh /\ PausesRecalled

\* Where there is room for all, all are wanted.
LEMMA FirstOfAll ==
  ASSUME NEW raw, IsTable(raw), NEW group, group \subseteq DOMAIN raw, NEW cap \in Nat,
         cap = 0 \/ Cardinality(DOMAIN raw) <= cap
  PROVE  FirstOf(raw, group, cap) = group
<1>1. CASE cap = 0
  BY <1>1 DEF FirstOf
<1>2. CASE cap # 0
  <2>1. IsFiniteSet(DOMAIN raw)
    BY TableFinite
  <2>2. ASSUME NEW t \in group PROVE Cardinality({u \in group : Precedes(raw, u, t)}) < cap
    <3> DEFINE ahead == {u \in group : Precedes(raw, u, t)}
    <3>1. ~Precedes(raw, t, t)
      BY Order
    <3>2. ahead \subseteq DOMAIN raw /\ t \notin ahead /\ t \in DOMAIN raw
      BY <3>1
    <3> HIDE DEF ahead
    <3>3. ahead # DOMAIN raw
      BY <3>2
    <3>4. /\ Cardinality(ahead) \in Nat /\ Cardinality(DOMAIN raw) \in Nat
          /\ Cardinality(ahead) < Cardinality(DOMAIN raw)
      BY <2>1, <3>2, <3>3, FS_Subset, FS_CardinalityType
    <3>5. Cardinality(ahead) < cap
      BY <1>2, <3>4
    <3> QED
      BY <3>5 DEF ahead
  <2> QED
    BY <1>2, <2>2 DEF FirstOf
<1> QED
  BY <1>1, <1>2

LEMMA AllWanted ==
  ASSUME TickInv, settings.roomy, NEW raw, IsTable(raw), Fits(raw)
  PROVE  Wanted(raw, settings.queue) = DOMAIN raw
<1> DEFINE cfg == settings.queue
           managed == Managed(raw, cfg)
           uploads == {t \in managed : raw[t].complete}
           both == FirstOf(raw, managed \ uploads, cfg.downloads)
                     \cup FirstOf(raw, uploads, cfg.uploads)
<1>1. /\ HasRoom(settings) /\ cfg \in Configs /\ IsTable(settings.rows)
  BY SetupsAssumption DEF TickInv
<1>2. managed = DOMAIN raw
  BY <1>1 DEF Managed, Fits, IsSlow, HasRoom
<1>3. Cardinality(DOMAIN raw) <= Cardinality(DOMAIN settings.rows)
      /\ Cardinality(DOMAIN raw) \in Nat /\ Cardinality(DOMAIN settings.rows) \in Nat
  BY <1>1, TableFinite, FS_Subset, FS_CardinalityType DEF Fits
<1>4. ASSUME NEW cap \in {cfg.downloads, cfg.uploads, cfg.total}
      PROVE  cap \in Nat /\ (cap = 0 \/ Cardinality(DOMAIN raw) <= cap)
  <2>1. cap = 0 \/ Cardinality(DOMAIN settings.rows) <= cap
    BY <1>1 DEF HasRoom
  <2>2. cap \in Nat
    BY <1>1 DEF Configs
  <2> QED
    BY <1>3, <2>1, <2>2
<1>5. uploads \subseteq DOMAIN raw /\ managed \ uploads \subseteq DOMAIN raw
  BY <1>2
<1>6. Wanted(raw, cfg) = FirstOf(raw, both, cfg.total)
  BY DEF Wanted
<1> HIDE DEF cfg, managed
<1>7. FirstOf(raw, managed \ uploads, cfg.downloads) = managed \ uploads
      /\ FirstOf(raw, uploads, cfg.uploads) = uploads
  BY <1>4, <1>5, FirstOfAll
<1>8. both = DOMAIN raw
  BY <1>2, <1>5, <1>7
<1> HIDE DEF both
<1>9. FirstOf(raw, both, cfg.total) = both
  BY <1>4, <1>8, FirstOfAll
<1> QED
  BY <1>6, <1>8, <1>9 DEF cfg

SameHealth(before, after) ==
  /\ DOMAIN after \subseteq DOMAIN before
  /\ \A t \in DOMAIN after :
       after[t].healthy = before[t].healthy /\ after[t].forced = before[t].forced

LEMMA StillFits ==
  ASSUME NEW after, SameHealth(rows, after), Fits(rows)
  PROVE  Fits(after)
BY DEF SameHealth, Fits

\* A call of the pass pauses nothing for the user.
LEMMA CallPauses ==
  ASSUME TickInv, NEW S, NEW after, after \in {Held(S), Erased(S), Started(S)},
         NEW who \in Holders, who # "user", NEW ok,
         Call(S, after, who, ok) \/ NoCall(ok)
  PROVE  /\ SameHealth(rows, rows') /\ UserPaused' \subseteq UserPaused
         /\ Call(S, after, who, ok) /\ ok => S \cap UserPaused' = {}
<1>1. IsTable(rows) /\ holder \in [Torrents -> Holders]
  BY DEF TickInv, HistoryOK
<1>2. ASSUME UNCHANGED <<rows, holder>>
      PROVE  SameHealth(rows, rows') /\ UserPaused' \subseteq UserPaused
  BY <1>2 DEF SameHealth, UserPaused, Live
<1>3. ASSUME Deed(S, after, who)
      PROVE  /\ SameHealth(rows, rows') /\ UserPaused' \subseteq UserPaused
             /\ S \cap UserPaused' = {}
  <2>1. SameHealth(rows, after)
    <3>1. SameHealth(rows, Held(S))
      BY <1>1, HeldRows DEF SameHealth, SameRank, Live
    <3>2. SameHealth(rows, Erased(S))
      BY DEF SameHealth, Erased, Live
    <3>3. SameHealth(rows, Started(S))
      BY <1>1, StartedRows DEF SameHealth, SameRank, Live
    <3> QED
      BY <3>1, <3>2, <3>3
  <2>2. \A t \in DOMAIN after \ S : t \in Live /\ after[t] = rows[t]
    BY DEF Held, Erased, Started, Live
  <2>3. \A t \in DOMAIN after : t \in Torrents
    BY <1>1, <2>1 DEF SameHealth, IsTable
  <2>4. rows' = after /\ \A t \in Torrents : holder'[t] = IF t \in S THEN who ELSE holder[t]
    BY <1>3 DEF Deed
  <2>5. \A t \in UserPaused' : t \notin S /\ t \in UserPaused
    BY <2>2, <2>3, <2>4 DEF UserPaused, Live
  <2> QED
    BY <2>1, <2>4, <2>5
<1>4. Call(S, after, who, ok) /\ ok => Deed(S, after, who)
  BY DEF Call
<1> QED
  BY <1>2, <1>3, <1>4 DEF Call, NoCall

\* What a step of a pass leaves to be shown.
LEMMA OwnPauses ==
  ASSUME TickInv, PauseInv, NEW p \in Passes, pass[p].stage # "idle",
         NEW r, pass' = [pass EXCEPT ![p] = r], r.stage # "idle", r.raw = pass[p].raw,
         UNCHANGED settings, SameHealth(rows, rows'), UserPaused' \subseteq UserPaused,
         FreshStart(r),
         settings.roomy /\ Configured(settings.queue)
           => WillRecall(pass[p]) \cap UserPaused' \subseteq WillRecall(r)
  PROVE  PauseInv'
<1>1. /\ pass'[p] = r /\ p \in Begun
      /\ \A q \in Passes \ {p} : pass'[q] = pass[q]
  BY DEF TickInv, PassesOK, Begun
<1>2. Begun' = Begun
  BY <1>1 DEF Begun
<1>3. EverythingFits'
  BY <1>1, StillFits DEF PauseInv, EverythingFits, Fits, SameHealth
<1>4. PassesCover'
  BY <1>1, <1>2 DEF PauseInv, PassesCover, SameHealth, Begun
<1>5. StartsAreFresh'
  BY <1>1 DEF PauseInv, StartsAreFresh, FreshStart
<1>6. PausesRecalled'
  <2> SUFFICES ASSUME settings.roomy, Configured(settings.queue), NEW q \in Begun, UserPaused' # {}
               PROVE  Begun = {q} /\ UserPaused' \subseteq WillRecall(pass[q])'
    BY <1>1, <1>2 DEF PausesRecalled
  <2>1. Begun = {q} /\ UserPaused \subseteq WillRecall(pass[q])
    BY DEF PauseInv, PausesRecalled
  <2>2. q = p
    BY <1>1, <2>1
  <2>3. WillRecall(pass[q])' = WillRecall(r)
    BY <1>1, <2>2 DEF WillRecall
  <2> QED
    BY <2>1, <2>2, <2>3
<1> QED
  BY <1>3, <1>4, <1>5, <1>6 DEF PauseInv

LEMMA GoalsPause ==
  ASSUME TickInv, PauseInv, NEW p \in Passes, SeedGoals(p)
  PROVE  PauseInv'
<1> DEFINE reached == Reached(pass[p].raw, pass[p].own.stopped)
           after == IF settings.removes THEN Erased(reached) ELSE Held(reached)
           stops(ok) == [t \in Torrents |->
             IF ok /\ ~settings.removes /\ t \in reached THEN pass[p].raw[t].ratio
             ELSE pass[p].own.stopped[t]]
<1>1. PICK ok \in BOOLEAN :
        /\ Call(reached, after, "goal", ok)
        /\ pass' = [pass EXCEPT ![p] =
             [pass[p] EXCEPT !.stage = "queue", !.clean = @ /\ ok, !.acted = reached,
                             !.own = [pass[p].own EXCEPT !.stopped = stops(ok)]]]
  BY DEF SeedGoals
<1>2. PICK r : r = [pass[p] EXCEPT !.stage = "queue", !.clean = @ /\ ok, !.acted = reached,
                                   !.own = [pass[p].own EXCEPT !.stopped = stops(ok)]]
  OBVIOUS
<1>3. PassOK(pass[p]) /\ pass[p].stage = "goals" /\ UNCHANGED settings
  BY PassIs DEF SeedGoals
<1> HIDE DEF stops
<1>4. /\ r.stage = "queue" /\ r.raw = pass[p].raw /\ r.start = pass[p].start
      /\ r.own = [pass[p].own EXCEPT !.stopped = stops(ok)]
  BY <1>2, <1>3 DEF PassOK, PassType
<1>5. r.own.queue = pass[p].own.queue /\ r.own.held = pass[p].own.held
  BY <1>4, PassIs DEF MemoryOK, Policies
<1>6. pass' = [pass EXCEPT ![p] = r]
  BY <1>1, <1>2
<1>7. SameHealth(rows, rows') /\ UserPaused' \subseteq UserPaused
  <2>1. after \in {Held(reached), Erased(reached), Started(reached)} /\ "goal" \in Holders
    BY DEF Holders
  <2> HIDE DEF after, reached
  <2> QED
    BY <1>1, <2>1, CallPauses
<1>8. FreshStart(pass[p])
  BY DEF PauseInv, StartsAreFresh
<1>9. FreshStart(r)
  BY <1>3, <1>4, <1>5, <1>8 DEF FreshStart
<1>10. WillRecall(pass[p]) = WillRecall(r)
  BY <1>3, <1>4, <1>5 DEF WillRecall
<1> QED
  BY <1>3, <1>4, <1>6, <1>7, <1>9, <1>10, OwnPauses

LEMMA HoldPauses ==
  ASSUME TickInv, PauseInv, NEW p \in Passes, HoldQueued(p)
  PROVE  PauseInv'
<1> DEFINE raw == pass[p].raw
           cfg == settings.queue
           mem == pass[p].own.queue
           wanted == Wanted(raw, cfg)
           verdict == Verdict(raw, cfg, mem, pass[p].acted)
           stage == IF verdict.start = {} THEN "schedule" ELSE "start"
<1>1. PICK ok \in BOOLEAN :
        /\ IF verdict.stop = {} THEN NoCall(ok) ELSE Call(verdict.stop, Held(verdict.stop), "queue", ok)
        /\ pass' = [pass EXCEPT ![p] =
             [pass[p] EXCEPT !.stage = stage, !.clean = @ /\ ok,
                             !.own = [pass[p].own EXCEPT !.queue = verdict.mem],
                             !.start = verdict.start]]
  BY DEF HoldQueued
<1>2. PICK r : r = [pass[p] EXCEPT !.stage = stage, !.clean = @ /\ ok,
                                   !.own = [pass[p].own EXCEPT !.queue = verdict.mem],
                                   !.start = verdict.start]
  OBVIOUS
<1>3. /\ PassOK(pass[p]) /\ IsTable(raw) /\ UNCHANGED settings
      /\ pass[p].stage = "queue" /\ p \in Begun
  BY PassIs DEF HoldQueued, Begun
\* Whoever ran in the rows, or rested and was known, is known after.
<1>4. /\ verdict.start \cap ActiveIn(raw) = {}
      /\ Configured(cfg) => verdict.mem.ran = ActiveIn(raw)
      /\ Configured(cfg) => verdict.start \cap verdict.mem.paused = {}
      /\ ~Configured(cfg) => verdict.start = {}
      /\ Configured(cfg) =>
           (mem.paused \cup mem.ran) \cap wanted \subseteq verdict.mem.paused \cup verdict.mem.ran
  BY WantedIn DEF Verdict, Judged
<1> HIDE DEF verdict, wanted
<1>5. /\ r.stage \in {"start", "schedule"} /\ r.raw = raw /\ r.start = verdict.start
      /\ r.own = [pass[p].own EXCEPT !.queue = verdict.mem]
  BY <1>2, <1>3 DEF PassOK, PassType
<1>6. r.own.held = pass[p].own.held /\ r.own.queue = verdict.mem
  BY <1>5, PassIs DEF MemoryOK, Policies
<1>7. pass' = [pass EXCEPT ![p] = r]
  BY <1>1, <1>2
<1>8. SameHealth(rows, rows') /\ UserPaused' \subseteq UserPaused
  <2>1. "queue" \in Holders /\ "queue" # "user"
    BY DEF Holders
  <2>2. Call(verdict.stop, Held(verdict.stop), "queue", ok) \/ NoCall(ok)
    BY <1>1
  <2> QED
    BY <2>1, <2>2, CallPauses
<1>9. FreshStart(r)
  BY <1>4, <1>5, <1>6 DEF FreshStart
<1>10. ASSUME settings.roomy, Configured(cfg), NEW t \in WillRecall(pass[p]), t \in UserPaused'
       PROVE  t \in WillRecall(r)
  <2>1. t \in DOMAIN raw
    BY <1>3, <1>8, <1>10 DEF PauseInv, PassesCover, UserPaused, Live
  <2>2. wanted = DOMAIN raw
    BY <1>3, <1>10, AllWanted DEF PauseInv, EverythingFits, wanted
  <2>3. t \in mem.paused \cup mem.ran \cup ActiveIn(raw) /\ t \notin pass[p].own.held
    BY <1>3, <1>10 DEF WillRecall
  <2>4. t \in verdict.mem.paused \cup verdict.mem.ran
    BY <1>4, <1>10, <2>1, <2>2, <2>3
  <2>5. t \notin verdict.start
    BY <1>4, <1>10, <2>4
  <2> QED
    BY <1>5, <1>6, <2>3, <2>4, <2>5 DEF WillRecall
<1> HIDE DEF raw
<1> QED
  BY <1>3, <1>5, <1>7, <1>8, <1>9, <1>10, OwnPauses DEF raw

LEMMA StartPauses ==
  ASSUME TickInv, PauseInv, NEW p \in Passes, StartQueued(p)
  PROVE  PauseInv'
<1>1. PICK ok \in BOOLEAN :
        /\ Call(pass[p].start, Started(pass[p].start), "nobody", ok)
        /\ Onward(p, ok, "schedule", pass[p].own)
  BY DEF StartQueued
<1>2. PassOK(pass[p]) /\ pass[p].stage = "start" /\ UNCHANGED settings
  BY PassIs DEF StartQueued
<1>3. PICK r : r = [pass[p] EXCEPT !.stage = "schedule", !.clean = @ /\ ok]
  OBVIOUS
<1>4. pass' = [pass EXCEPT ![p] = r]
  BY <1>1, <1>2, <1>3 DEF Onward, TickInv, PassesOK, PassOK, PassType
<1>5. /\ r.stage = "schedule" /\ r.raw = pass[p].raw
      /\ r.start = pass[p].start /\ r.own = pass[p].own
  BY <1>2, <1>3 DEF PassOK, PassType
<1>6. SameHealth(rows, rows') /\ UserPaused' \subseteq UserPaused
  <2>1. "nobody" \in Holders /\ "nobody" # "user"
    BY DEF Holders
  <2> QED
    BY <1>1, <2>1, CallPauses
<1>7. FreshStart(pass[p])
  BY DEF PauseInv, StartsAreFresh
<1>8. FreshStart(r)
  BY <1>5, <1>7 DEF FreshStart
<1>9. WillRecall(pass[p]) = WillRecall(r)
  BY <1>2, <1>5 DEF WillRecall
<1> QED
  BY <1>2, <1>4, <1>5, <1>6, <1>8, <1>9, OwnPauses

LEMMA EnterPauses ==
  ASSUME TickInv, PauseInv, NEW p \in Passes, EnterWindow(p)
  PROVE  PauseInv'
<1> DEFINE holding == Holding(p)
           who(ok) == IF ok /\ Begun = {p} THEN "window" ELSE "botched"
           entered == [pass[p].own EXCEPT !.window = TRUE, !.held = @ \cup holding,
                                          !.queue.paused = @ \cup holding]
           missed == [pass[p].own EXCEPT !.held = {}]
<1>1. PICK ok \in BOOLEAN :
        /\ IF holding = {} THEN NoCall(ok) ELSE Call(holding, Held(holding), who(ok), ok)
        /\ Onward(p, ok, "moves", IF ok THEN entered ELSE missed)
  BY DEF EnterWindow
<1>2. /\ PassOK(pass[p]) /\ pass[p].stage = "schedule" /\ MemoryOK(pass[p].own)
      /\ UNCHANGED settings
  BY PassIs DEF EnterWindow
<1>3. PICK own : own = IF ok THEN entered ELSE missed
  OBVIOUS
<1>4. PICK r : r = [pass[p] EXCEPT !.stage = "moves", !.clean = @ /\ ok, !.own = own]
  OBVIOUS
<1>5. pass' = [pass EXCEPT ![p] = r]
  <2>1. Onward(p, ok, "moves", own)
    BY <1>1, <1>3
  <2> QED
    BY <1>2, <1>4, <2>1 DEF Onward, TickInv, PassesOK, PassOK, PassType
<1>6. r.stage = "moves" /\ r.own = own /\ r.raw = pass[p].raw /\ r.start = pass[p].start
  BY <1>2, <1>4 DEF PassOK, PassType
<1>7. /\ own.queue.ran = pass[p].own.queue.ran /\ pass[p].own.queue.paused \subseteq own.queue.paused
      /\ ok => own.held = pass[p].own.held \cup holding
      /\ ~ok => own.held = {}
  BY <1>2, <1>3 DEF MemoryOK, Policies, Memories
<1> HIDE DEF entered, missed, holding, who
<1>8. /\ SameHealth(rows, rows') /\ UserPaused' \subseteq UserPaused
      /\ ok => holding \cap UserPaused' = {}
  <2>1. who(ok) \in Holders /\ who(ok) # "user"
    BY DEF Holders, who
  <2>2. Call(holding, Held(holding), who(ok), ok) \/ (NoCall(ok) /\ holding = {})
    BY <1>1
  <2> QED
    BY <2>1, <2>2, CallPauses
<1>9. FreshStart(pass[p])
  BY DEF PauseInv, StartsAreFresh
<1>10. FreshStart(r)
  BY <1>6, <1>7, <1>9 DEF FreshStart
<1>11. WillRecall(pass[p]) \cap UserPaused' \subseteq WillRecall(r)
  BY <1>2, <1>6, <1>7, <1>8 DEF WillRecall
<1> QED
  BY <1>2, <1>5, <1>6, <1>8, <1>10, <1>11, OwnPauses

\* A step that only moves on to the moves, with a memory that recalls as much.
LEMMA OnwardPauses ==
  ASSUME TickInv, PauseInv, NEW p \in Passes, pass[p].stage = "schedule", NEW own,
         Onward(p, TRUE, "moves", own), UNCHANGED <<settings, rows, holder>>,
         own.queue.ran = pass[p].own.queue.ran, own.held \subseteq pass[p].own.held,
         pass[p].own.queue.paused \ pass[p].own.held \subseteq own.queue.paused
  PROVE  PauseInv'
<1>1. PassOK(pass[p])
  BY PassIs
<1>2. PICK r : r = [pass[p] EXCEPT !.stage = "moves", !.clean = @ /\ TRUE, !.own = own]
  OBVIOUS
<1>3. /\ r.stage = "moves" /\ r.own = own /\ r.raw = pass[p].raw /\ r.start = pass[p].start
      /\ pass' = [pass EXCEPT ![p] = r]
  BY <1>1, <1>2 DEF Onward, TickInv, PassesOK, PassOK, PassType
<1>4. SameHealth(rows, rows') /\ UserPaused' = UserPaused
  BY DEF SameHealth, UserPaused, Live
<1>5. FreshStart(pass[p])
  BY DEF PauseInv, StartsAreFresh
<1>6. FreshStart(r)
  BY <1>3, <1>5 DEF FreshStart
<1>7. WillRecall(pass[p]) \subseteq WillRecall(r)
  BY <1>3 DEF WillRecall
<1> QED
  BY <1>3, <1>4, <1>6, <1>7, OwnPauses

LEMMA LeftRecalls ==
  ASSUME NEW own, MemoryOK(own), NEW g
  PROVE  \A left \in {LeaveWindow(own), [LeaveWindow(own) EXCEPT !.applied = g]} :
           /\ left.queue.ran = own.queue.ran /\ left.held \subseteq own.held
           /\ own.queue.paused \ own.held \subseteq left.queue.paused
<1> DEFINE left == LeaveWindow(own)
<1>1. /\ left.queue.ran = own.queue.ran /\ left.held \subseteq own.held
      /\ own.queue.paused \ own.held \subseteq left.queue.paused
      /\ left \in Policies
  BY LeftOK DEF LeaveWindow, MemoryOK, Policies, Memories
<1> HIDE DEF left
<1>2. [left EXCEPT !.applied = g].queue = left.queue /\ [left EXCEPT !.applied = g].held = left.held
  BY <1>1 DEF Policies
<1> QED
  BY <1>1, <1>2 DEF left

LEMMA SchedulePauses ==
  ASSUME TickInv, PauseInv, NEW p \in Passes, StayInWindow(p) \/ ApplyLimits(p)
  PROVE  PauseInv'
<1>1. /\ pass[p].stage = "schedule" /\ UNCHANGED <<settings, rows, holder>> /\ MemoryOK(pass[p].own)
  BY PassIs DEF StayInWindow, ApplyLimits, daemonVars, historyVars
<1>2. CASE StayInWindow(p)
  <2>1. Onward(p, TRUE, "moves", pass[p].own)
    BY <1>2 DEF StayInWindow
  <2> QED
    BY <1>1, <2>1, OnwardPauses
<1>3. CASE ApplyLimits(p)
  <2>1. PICK own \in {LeaveWindow(pass[p].own), [LeaveWindow(pass[p].own) EXCEPT !.applied = grid]} :
          Onward(p, TRUE, "moves", own)
    BY <1>3 DEF ApplyLimits
  <2> QED
    BY <1>1, <2>1, LeftRecalls, OnwardPauses
<1> QED
  BY <1>2, <1>3

LEMMA PollPauses ==
  ASSUME TickInv, PauseInv, NEW p \in Passes, Poll(p)
  PROVE  PauseInv'
<1> DEFINE stage == IF Reached(rows, policy.stopped) = {} THEN "queue" ELSE "goals"
           own == [policy EXCEPT !.seen = Seen]
           begun == [Idle EXCEPT !.stage = stage, !.own = own, !.raw = rows, !.clean = Begun = {}]
<1>1. pass' = [q \in Passes |->
        IF q # p THEN [pass[q] EXCEPT !.clean = @ /\ pass[q].stage = "idle"] ELSE begun]
  BY DEF Poll
<1>2. UNCHANGED <<settings, rows>> /\ holder \in [Torrents -> Holders]
  BY DEF Poll, daemonVars, TickInv, HistoryOK
<1>3. MemoryOK(policy) /\ \A q \in Passes : PassOK(pass[q])
  BY DEF TickInv, PassesOK
<1>4. begun.raw = rows /\ begun.start = {} /\ begun.own = own /\ begun.stage = stage
  BY DEF Idle
<1>5. own.queue = policy.queue /\ own.held = policy.held
  BY <1>3 DEF MemoryOK, Policies
<1>6. stage \in {"queue", "goals"}
  OBVIOUS
<1> HIDE DEF stage, own, begun
<1>7. pass'[p] = begun
  BY <1>1
<1>8. \A q \in Passes \ {p} :
        /\ pass'[q].stage = pass[q].stage /\ pass'[q].raw = pass[q].raw
        /\ pass'[q].start = pass[q].start /\ pass'[q].own = pass[q].own
  BY <1>1, <1>3 DEF PassOK, PassType
<1>9. Begun' = Begun \cup {p}
  BY <1>4, <1>6, <1>7, <1>8 DEF Begun
<1>10. EverythingFits' /\ PassesCover'
  <2>1. \A q \in Passes : pass'[q].raw = rows \/ pass'[q].raw = pass[q].raw
    BY <1>4, <1>7, <1>8
  <2>2. \A q \in Begun' : q \in Begun \/ pass'[q].raw = rows
    BY <1>4, <1>7, <1>9
  <2> QED
    BY <1>2, <1>8, <2>1, <2>2 DEF PauseInv, EverythingFits, PassesCover, Fits, Begun
<1>11. StartsAreFresh'
  BY <1>2, <1>4, <1>7, <1>8 DEF PauseInv, StartsAreFresh, FreshStart
<1>12. PausesRecalled'
  <2>1. CASE Begun = {}
    <3>1. UserPaused' = UserPaused /\ Begun' = {p}
      BY <1>2, <1>9, <2>1 DEF Poll, UserPaused, Live
    <3>2. Recalled(policy) \subseteq WillRecall(pass[p])'
      BY <1>4, <1>5, <1>6, <1>7 DEF Recalled, WillRecall
    <3> QED
      BY <1>2, <2>1, <3>1, <3>2 DEF PauseInv, PausesRecalled
  <2>2. CASE Begun # {}
    <3>1. \A t \in Torrents : holder'[t] # "user"
      BY <2>2 DEF Poll
    <3>2. UserPaused' = {}
      BY <1>2, <3>1 DEF UserPaused, Live, TickInv, IsTable
    <3> QED
      BY <1>9, <3>2 DEF PausesRecalled
  <2> QED
    BY <2>1, <2>2
<1> QED
  BY <1>10, <1>11, <1>12 DEF PauseInv

LEMMA GiveBackPauses ==
  ASSUME TickInv, PauseInv, NEW p \in Passes, GiveBack(p)
  PROVE  PauseInv'
<1>1. /\ pass[p].stage = "moves" /\ policy' = pass[p].own /\ pass' = [pass EXCEPT ![p] = Idle]
      /\ UNCHANGED <<settings, rows, holder>>
  BY DEF GiveBack, daemonVars, historyVars
<1>2. /\ pass'[p] = Idle /\ p \in Begun
      /\ \A q \in Passes \ {p} : pass'[q] = pass[q]
  BY <1>1 DEF TickInv, PassesOK, Begun
<1>3. Begun' = Begun \ {p}
  BY <1>2 DEF Begun, Idle
<1>4. EverythingFits'
  <2>1. Fits(Idle.raw)
    BY DEF Fits, Idle
  <2> QED
    BY <1>1, <1>2, <2>1 DEF PauseInv, EverythingFits, Fits
<1>5. PassesCover'
  BY <1>1, <1>2, <1>3 DEF PauseInv, PassesCover, Begun
<1>6. StartsAreFresh'
  <2>1. Idle.start = {}
    BY DEF Idle
  <2> QED
    BY <1>1, <1>2, <2>1 DEF PauseInv, StartsAreFresh, FreshStart
<1>7. PausesRecalled'
  <2> SUFFICES ASSUME settings.roomy, Configured(settings.queue), UserPaused # {}
               PROVE  Begun' = {} /\ UserPaused \subseteq Recalled(policy')
    BY <1>1 DEF PausesRecalled, Recalled, UserPaused, Live
  <2>1. Begun = {p} /\ UserPaused \subseteq WillRecall(pass[p])
    BY <1>2 DEF PauseInv, PausesRecalled
  <2> QED
    BY <1>1, <1>3, <2>1 DEF WillRecall, Recalled
<1> QED
  BY <1>4, <1>5, <1>6, <1>7 DEF PauseInv

Alike(before, after) ==
  /\ DOMAIN after = DOMAIN before
  /\ \A t \in DOMAIN after :
       /\ after[t].healthy = before[t].healthy /\ after[t].forced = before[t].forced
       /\ after[t].active = before[t].active

LEMMA ReorderedAlike ==
  ASSUME IsTable(rows), NEW t \in Live, NEW dir \in {"top", "up", "down", "bottom"}
  PROVE  Alike(rows, Reordered(rows, t, dir))
<1> DEFINE positions == {rows[u].pos : u \in DOMAIN rows}
           lowest == CHOOSE p \in positions : \A q \in positions : p <= q
           highest == CHOOSE p \in positions : \A q \in positions : q <= p
           near == {u \in DOMAIN rows \ {t} : Neighbour(rows, t, u, dir)}
           other == CHOOSE u \in DOMAIN rows \ {t} : Neighbour(rows, t, u, dir)
<1>1. ASSUME NEW u \in DOMAIN rows, NEW priority, NEW pos
      PROVE  LET keyed == Keyed(rows[u], priority, pos) IN
             /\ keyed.healthy = rows[u].healthy /\ keyed.forced = rows[u].forced
             /\ keyed.active = rows[u].active
  <2>1. rows[u] \in RowType
    BY DEF IsTable
  <2> QED
    BY <2>1 DEF RowType, Keyed
<1>2. CASE dir = "top"
  <2>1. Reordered(rows, t, dir) = [rows EXCEPT ![t] = Keyed(rows[t], 3, lowest - 1)]
    BY <1>2 DEF Reordered
  <2> HIDE DEF lowest
  <2> QED
    BY <1>1, <2>1 DEF Alike, Live
<1>3. CASE dir = "bottom"
  <2>1. Reordered(rows, t, dir) = [rows EXCEPT ![t] = Keyed(rows[t], 0, highest + 1)]
    BY <1>3 DEF Reordered
  <2> HIDE DEF highest
  <2> QED
    BY <1>1, <2>1 DEF Alike, Live
<1>4. CASE dir \notin {"top", "bottom"} /\ near = {}
  <2>1. Reordered(rows, t, dir) = rows
    BY <1>4 DEF Reordered
  <2> QED
    BY <2>1 DEF Alike
<1>5. CASE dir \notin {"top", "bottom"} /\ near # {}
  <2>1. Reordered(rows, t, dir) =
          [rows EXCEPT ![t] = Keyed(@, rows[other].priority, rows[other].pos),
                       ![other] = Keyed(@, rows[t].priority, rows[t].pos)]
    BY <1>5 DEF Reordered
  <2>2. other \in DOMAIN rows \ {t}
    BY <1>5
  <2> HIDE DEF other, positions, lowest, highest, near
  <2> QED
    BY <1>1, <2>1, <2>2 DEF Alike, Live
<1> QED
  BY <1>2, <1>3, <1>4, <1>5

\* What the user and the daemon do, where nothing is forced or in trouble.
LEMMA MeanwhileActs ==
  ASSUME TickInv, Meanwhile, {"force", "message"} \cap settings.events = {}
  PROVE  /\ SameHealth(rows, rows')
         /\ \A t \in UserPaused' \ UserPaused : SeenRunning(t) /\ t \notin Recollection.held
<1> PICK t \in Live :
      \/ UserPauses(t) \/ UserStarts(t) \/ UserErases(t)
      \/ /\ UserForces(t) \/ UserReorders(t)
            \/ DaemonCompletes(t) \/ DaemonSeeds(t) \/ DaemonReports(t) \/ DaemonCrawls(t)
         /\ UNCHANGED holder
  BY DEF Meanwhile
<1>1. /\ IsTable(rows) /\ holder \in [Torrents -> Holders] /\ rows[t] \in RowType
      /\ Live \subseteq Torrents
  BY DEF TickInv, HistoryOK, IsTable, Live
<1>2. ASSUME Alike(rows, rows'), holder' = holder
      PROVE  SameHealth(rows, rows') /\ UserPaused' \subseteq UserPaused
  BY <1>2 DEF Alike, SameHealth, UserPaused, Live
<1>3. ASSUME NEW row, rows' = [rows EXCEPT ![t] = row], row.healthy = rows[t].healthy,
             row.forced = rows[t].forced, row.active = rows[t].active
      PROVE  Alike(rows, rows')
  BY <1>3 DEF Alike, Live
<1>4. CASE UserPauses(t)
  <2>1. rows' = Held({t}) /\ \A u \in Torrents \ {t} : holder'[u] = holder[u]
    BY <1>4 DEF UserPauses, Deed
  <2>2. holder'[t] = "user" => SeenRunning(t) /\ t \notin Recollection.held
    BY <1>1, <1>4 DEF UserPauses, Deed
  <2>3. SameHealth(rows, rows')
    BY <1>1, <2>1, HeldRows DEF SameHealth, SameRank, Live
  <2>4. \A u \in Live \ {t} : rows'[u] = rows[u]
    BY <2>1 DEF Held
  <2>5. \A u \in UserPaused' : u = t \/ u \in UserPaused
    BY <1>1, <2>1, <2>3, <2>4 DEF SameHealth, UserPaused, Live
  <2>6. t \in UserPaused' => holder'[t] = "user"
    BY DEF UserPaused
  <2> HIDE DEF SeenRunning, Recollection
  <2> QED
    BY <2>2, <2>3, <2>5, <2>6
<1>5. CASE UserStarts(t)
  <2>1. rows' = Started({t}) /\ holder'[t] = "nobody"
        /\ \A u \in Torrents \ {t} : holder'[u] = holder[u]
    BY <1>1, <1>5 DEF UserStarts, Deed
  <2>2. SameHealth(rows, rows')
    BY <1>1, <2>1, StartedRows DEF SameHealth, SameRank, Live
  <2>3. \A u \in Live \ {t} : rows'[u] = rows[u]
    BY <2>1 DEF Started
  <2> QED
    BY <1>1, <2>1, <2>2, <2>3 DEF SameHealth, UserPaused, Live
<1>6. CASE UserErases(t)
  <2>1. rows' = Erased({t}) /\ \A u \in Torrents \ {t} : holder'[u] = holder[u]
    BY <1>6 DEF UserErases, Deed
  <2>2. DOMAIN rows' = Live \ {t} /\ \A u \in Live \ {t} : rows'[u] = rows[u]
    BY <2>1 DEF Erased
  <2> QED
    BY <1>1, <2>1, <2>2 DEF SameHealth, UserPaused, Live
<1>7. CASE UserReorders(t) /\ UNCHANGED holder
  <2>1. PICK dir \in {"top", "up", "down", "bottom"} : rows' = Reordered(rows, t, dir)
    BY <1>7 DEF UserReorders
  <2>2. Alike(rows, rows')
    BY <1>1, <2>1, ReorderedAlike
  <2> QED
    BY <1>2, <1>7, <2>2
<1>8. CASE DaemonCompletes(t) /\ UNCHANGED holder
  <2>1. rows' = [rows EXCEPT ![t] = [rows[t] EXCEPT !.complete = TRUE]]
    BY <1>8 DEF DaemonCompletes
  <2> QED
    BY <1>1, <1>2, <1>3, <1>8, <2>1 DEF RowType
<1>9. CASE DaemonSeeds(t) /\ UNCHANGED holder
  <2> DEFINE v == rows[t].ratio + 1
  <2>1. rows' = [rows EXCEPT ![t] = [rows[t] EXCEPT !.ratio = v]]
    BY <1>9 DEF DaemonSeeds
  <2> HIDE DEF v
  <2> QED
    BY <1>1, <1>2, <1>3, <1>9, <2>1 DEF RowType
<1>10. CASE DaemonCrawls(t) /\ UNCHANGED holder
  <2> DEFINE v == 1 - rows[t].rate
  <2>1. rows' = [rows EXCEPT ![t] = [rows[t] EXCEPT !.rate = v]]
    BY <1>10 DEF DaemonCrawls
  <2> HIDE DEF v
  <2> QED
    BY <1>1, <1>2, <1>3, <1>10, <2>1 DEF RowType
<1>11. ~UserForces(t) /\ ~DaemonReports(t)
  BY DEF UserForces, DaemonReports, Counted
<1> QED
  BY <1>4, <1>5, <1>6, <1>7, <1>8, <1>9, <1>10, <1>11

LEMMA MeanwhilePauses ==
  ASSUME TickInv, PauseInv, Meanwhile
  PROVE  PauseInv'
<1>1. /\ UNCHANGED <<settings, policy>>
      /\ pass' = [p \in Passes |-> [pass[p] EXCEPT !.clean = p \notin Begun]]
  BY DEF Meanwhile
<1>2. \A p \in Passes : PassOK(pass[p])
  BY DEF TickInv, PassesOK
<1>3. \A p \in Passes :
        /\ pass'[p].stage = pass[p].stage /\ pass'[p].raw = pass[p].raw
        /\ pass'[p].start = pass[p].start /\ pass'[p].own = pass[p].own
  BY <1>1, <1>2 DEF PassOK, PassType
<1>4. Begun' = Begun
  BY <1>3 DEF Begun
<1>5. DOMAIN rows' \subseteq DOMAIN rows
  BY MeanwhileFollows, TableRows DEF TickInv, Follows
<1>6. PassesCover'
  BY <1>3, <1>4, <1>5 DEF PauseInv, PassesCover, Begun
<1>7. StartsAreFresh'
  BY <1>1, <1>3 DEF PauseInv, StartsAreFresh, FreshStart
<1>8. ASSUME settings.roomy
      PROVE  /\ SameHealth(rows, rows')
             /\ \A t \in UserPaused' \ UserPaused : SeenRunning(t) /\ t \notin Recollection.held
  <2>1. {"force", "message"} \cap settings.events = {}
    BY <1>8, SetupsAssumption DEF TickInv, HasRoom
  <2> QED
    BY <2>1, MeanwhileActs
<1>9. EverythingFits'
  BY <1>1, <1>3, <1>8, StillFits DEF PauseInv, EverythingFits, Fits
<1>10. PausesRecalled'
  <2> SUFFICES ASSUME settings.roomy, Configured(settings.queue), NEW t \in UserPaused'
               PROVE  /\ Begun = {} => t \in Recalled(policy)
                      /\ \A p \in Begun : Begun = {p} /\ t \in WillRecall(pass[p])
    BY <1>1, <1>3, <1>4 DEF PausesRecalled, WillRecall, Recalled, Begun
  <2>1. CASE t \in UserPaused
    BY <2>1 DEF PauseInv, PausesRecalled
  <2>2. CASE t \notin UserPaused
    <3>1. SeenRunning(t) /\ t \notin Recollection.held
      BY <1>8, <2>2
    <3>2. CASE Begun = {}
      BY <3>1, <3>2, RecollectionIs DEF SeenRunning, Recalled
    <3>3. ASSUME NEW p \in Begun PROVE Begun = {p} /\ t \in WillRecall(pass[p])
      <4>1. /\ Begun = {p}
            /\ t \in IF pass[p].stage \in {"goals", "queue"}
                     THEN ActiveIn(pass[p].raw) ELSE pass[p].own.queue.ran
        BY <3>1 DEF SeenRunning
      <4>2. t \notin pass[p].own.held
        BY <3>1, <4>1, RecollectionIs DEF Begun
      <4>3. FreshStart(pass[p])
        BY DEF PauseInv, StartsAreFresh, Begun
      <4> QED
        BY <4>1, <4>2, <4>3 DEF WillRecall, FreshStart
    <3> QED
      BY <3>2, <3>3
  <2> QED
    BY <2>1, <2>2
<1> QED
  BY <1>6, <1>7, <1>9, <1>10 DEF PauseInv

LEMMA StandingPauses ==
  ASSUME PauseInv, UNCHANGED <<settings, rows, pass, holder>>,
         Begun = {} => policy' = policy \/ UserPaused = {}
  PROVE  PauseInv'
<1>1. Begun' = Begun /\ UserPaused' = UserPaused
  BY DEF Begun, UserPaused, Live
<1>2. EverythingFits' /\ PassesCover' /\ StartsAreFresh'
  BY <1>1 DEF PauseInv, EverythingFits, Fits, PassesCover, StartsAreFresh, FreshStart, Begun
<1>3. PausesRecalled'
  BY <1>1 DEF PauseInv, PausesRecalled, WillRecall, Recalled
<1> QED
  BY <1>2, <1>3 DEF PauseInv

LEMMA ReconnectPauses ==
  ASSUME TickInv, PauseInv, Reconnect
  PROVE  PauseInv'
<1>1. UNCHANGED <<settings, rows, pass>>
  BY DEF Reconnect
<1>2. CASE Begun # {}
  <2>1. holder' = holder
    BY <1>2 DEF Reconnect
  <2> QED
    BY <1>1, <1>2, <2>1, StandingPauses
<1>3. CASE Begun = {}
  <2>1. Begun' = {} /\ UserPaused' = {}
    <3>1. \A t \in Live : holder'[t] = "nobody"
      BY <1>3 DEF Reconnect, TickInv, IsTable, Live
    <3> QED
      BY <1>1, <1>3, <3>1 DEF Begun, UserPaused, Live
  <2>2. EverythingFits' /\ PassesCover' /\ StartsAreFresh'
    BY <1>1, <2>1
       DEF PauseInv, EverythingFits, Fits, PassesCover, StartsAreFresh, FreshStart
  <2> QED
    BY <2>1, <2>2 DEF PauseInv, PausesRecalled
<1> QED
  BY <1>2, <1>3

LEMMA PauseInit == Init => PauseInv
<1> SUFFICES ASSUME Init PROVE PauseInv
  OBVIOUS
<1>1. \A p \in Passes : pass[p].stage = "idle" /\ pass[p].raw = <<>> /\ pass[p].start = {}
  BY DEF Init, Idle
<1>2. Begun = {}
  BY <1>1 DEF Begun
<1>3. EverythingFits
  <2>1. settings.roomy => Fits(rows)
    BY SetupsAssumption DEF Init, Fits, HasRoom
  <2> QED
    BY <1>1, <2>1 DEF EverythingFits, Fits
<1>4. UserPaused = {}
  <2>1. \A t \in Live : t \in Torrents
    BY SetupsAssumption DEF Init, Live, IsTable
  <2> QED
    BY <2>1 DEF Init, UserPaused
<1> QED
  BY <1>1, <1>2, <1>3, <1>4 DEF PauseInv, PassesCover, StartsAreFresh, FreshStart, PausesRecalled

LEMMA PauseStep == TickInv /\ PauseInv /\ [Next]_vars => PauseInv'
<1> SUFFICES ASSUME TickInv, PauseInv, [Next]_vars PROVE PauseInv'
  OBVIOUS
<1>1. ASSUME NEW p \in Passes, PassStep(p) PROVE PauseInv'
  BY <1>1, PollPauses, GoalsPause, HoldPauses, StartPauses, EnterPauses, SchedulePauses,
     GiveBackPauses DEF PassStep
<1>2. ASSUME ClockTurns \/ UNCHANGED vars PROVE PauseInv'
  <2>1. UNCHANGED <<settings, rows, pass, holder, policy>>
    BY <1>2 DEF ClockTurns, vars, daemonVars, historyVars
  <2> QED
    BY <2>1, StandingPauses
<1> QED
  BY <1>1, <1>2, MeanwhilePauses, ReconnectPauses DEF Next

LEMMA PassStartsNone ==
  ASSUME TickInv, PauseInv, NEW p \in Passes, PassStep(p), settings.roomy,
         NEW t \in UserPaused, t \in DOMAIN rows'
  PROVE  ~rows'[t].active
<1>1. IsTable(rows) /\ p \in Passes
  BY DEF TickInv
<1>2. ASSUME NEW S, NEW after, after \in {Held(S), Erased(S)}, NEW who, NEW ok,
             Call(S, after, who, ok) \/ NoCall(ok)
      PROVE  ~rows'[t].active
  <2>1. ActiveIn(rows') \subseteq ActiveIn(rows)
    BY <1>1, <1>2, QuietingCall DEF NoCall
  <2> QED
    BY <2>1 DEF ActiveIn, UserPaused
<1>3. CASE rows' = rows
  BY <1>3 DEF UserPaused
<1>4. CASE SeedGoals(p)
  <2> DEFINE reached == Reached(pass[p].raw, pass[p].own.stopped)
  <2>1. PICK ok : Call(reached, IF settings.removes THEN Erased(reached) ELSE Held(reached), "goal", ok)
    BY <1>4 DEF SeedGoals
  <2> HIDE DEF reached
  <2> QED
    BY <1>2, <2>1
<1>5. CASE HoldQueued(p)
  <2> DEFINE stop == Verdict(pass[p].raw, settings.queue, pass[p].own.queue, pass[p].acted).stop
  <2>1. PICK ok : NoCall(ok) \/ Call(stop, Held(stop), "queue", ok)
    BY <1>5 DEF HoldQueued
  <2> HIDE DEF stop
  <2> QED
    BY <1>2, <2>1
<1>6. CASE StartQueued(p)
  <2>1. PICK ok : Call(pass[p].start, Started(pass[p].start), "nobody", ok)
    BY <1>6 DEF StartQueued
  <2>2. t \notin pass[p].start
    <3>1. p \in Begun
      BY <1>6 DEF StartQueued, Begun
    <3>2. Configured(settings.queue) => t \in WillRecall(pass[p])
      BY <3>1 DEF PauseInv, PausesRecalled
    <3>3. ~Configured(settings.queue) => pass[p].start = {}
      BY DEF PauseInv, StartsAreFresh, FreshStart
    <3> QED
      BY <3>2, <3>3 DEF WillRecall
  <2>3. rows' = rows \/ rows' = Started(pass[p].start)
    BY <2>1 DEF Call, Deed
  <2> QED
    BY <2>2, <2>3 DEF Started, UserPaused
<1>7. CASE EnterWindow(p)
  <2>1. PICK ok, who : NoCall(ok) \/ Call(Holding(p), Held(Holding(p)), who, ok)
    BY <1>7 DEF EnterWindow
  <2> HIDE DEF Holding
  <2> QED
    BY <1>2, <2>1
<1>8. Poll(p) \/ StayInWindow(p) \/ ApplyLimits(p) \/ GiveBack(p) => rows' = rows
  BY DEF Poll, StayInWindow, ApplyLimits, GiveBack, daemonVars
<1> QED
  BY <1>3, <1>4, <1>5, <1>6, <1>7, <1>8 DEF PassStep

\* The queue never starts what the user paused, where it wants every torrent,
\* for any torrents, caps, goals, windows, failing calls and two passes at a
\* time: a pause seen at a poll is remembered until the torrent is started by
\* hand, and one between the poll and the starts of its pass is not among them
\* (decide_queues, QueueMemory, set_scheduler_held).
THEOREM PausesStand == Spec => UserPauseStands
<1>1. ASSUME TickInv, PauseInv, [Next]_vars PROVE [StartsNoneOfHis]_vars
  <2> SUFFICES ASSUME NEW p \in Passes, NEW t \in DOMAIN rows \cap DOMAIN rows',
                      pass[p].stage = "start", pass'[p].stage = "schedule", settings.roomy,
                      holder[t] = "user", ~rows[t].active
               PROVE  ~rows'[t].active
    BY DEF StartsNoneOfHis
  <2>1. t \in UserPaused
    BY DEF UserPaused, Live
  <2>2. ASSUME NEW q \in Passes, PassStep(q) PROVE ~rows'[t].active
    BY <1>1, <2>1, <2>2, PassStartsNone
  <2>3. ~Meanwhile
    <3>1. PassOK(pass[p])
      BY <1>1, PassIs
    <3> QED
      BY <3>1 DEF Meanwhile, PassOK, PassType
  <2>4. CASE ClockTurns \/ Reconnect \/ UNCHANGED vars
    BY <2>4 DEF ClockTurns, Reconnect, vars, daemonVars
  <2> QED
    BY <1>1, <2>2, <2>3, <2>4 DEF Next
<1> QED
  BY <1>1, TickInit, TickStep, PauseInit, PauseStep, PTL DEF Spec, UserPauseStands
=============================================================================
