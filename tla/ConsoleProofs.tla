--------------------------- MODULE ConsoleProofs ---------------------------
(***************************************************************************)
(* Deltas lead where they say, and a console at the revision of the server *)
(* shows its table, for any number of torrents and overlapping requests.   *)
(***************************************************************************)
EXTENDS ConsoleProperties, TLAPS

(* Operators on tables. *)

\* Applying the difference of two tables to the first gives the second
\* (delta.rs diff and apply, torrents.ts applyDelta).
THEOREM DiffLeads ==
  ASSUME NEW from \in Tables, NEW to \in Tables
  PROVE  Apply(from, Diff(from, to)) = to
<1> DEFINE D == Diff(from, to)
           C == Changed(from, to)
<1>1. D.removed = Removed(from, to) /\ D.rows = [h \in C |-> to[h]]
  BY DEF Diff
<1>2. ASSUME NEW h \in Hashes PROVE Apply(from, D)[h] = to[h]
  <2>1. CASE h \in Removed(from, to)
    BY <1>1, <2>1 DEF Apply, Removed
  <2>2. CASE h \in C
    <3>1. h \notin Removed(from, to)
      BY <2>2 DEF Changed, AddedOnly, Updated, Removed
    <3> QED BY <1>1, <2>2, <3>1 DEF Apply
  <2>3. CASE h \notin C /\ h \notin Removed(from, to)
    <3>1. from[h] = to[h]
      BY <2>3 DEF Changed, AddedOnly, Updated, Removed
    <3> QED BY <1>1, <2>3, <3>1 DEF Apply
  <2> QED BY <2>1, <2>2, <2>3
<1>3. Apply(from, D) = [h \in Hashes |-> Apply(from, D)[h]] /\ to = [h \in Hashes |-> to[h]]
  BY DEF Apply, Tables
<1> QED BY <1>2, <1>3

LEMMA DiffType ==
  ASSUME NEW from \in Tables, NEW to \in Tables
  PROVE  Diff(from, to) \in Diffs
<1> DEFINE C == Changed(from, to)
<1>1. C \in SUBSET Hashes /\ Removed(from, to) \in SUBSET Hashes
  BY DEF Changed, AddedOnly, Updated, Removed
<1>2. \A h \in C : to[h] \in Rows
  BY DEF Changed, AddedOnly, Updated, Tables
<1>3. [h \in C |-> to[h]] \in [C -> Rows]
  BY <1>2
<1>4. [h \in C |-> to[h]] \in UNION {[S -> Rows] : S \in SUBSET Hashes}
  BY <1>1, <1>3
<1> QED BY <1>1, <1>4 DEF Diff, Diffs

LEMMA NothingType == Nothing \in Diffs
<1>1. [h \in {} |-> NoRow] \in [{} -> Rows]
  OBVIOUS
<1>2. [h \in {} |-> NoRow] \in UNION {[S -> Rows] : S \in SUBSET Hashes}
  BY <1>1
<1> QED BY <1>2 DEF Nothing, Diffs

LEMMA ApplyType ==
  ASSUME NEW table \in Tables, NEW diff \in Diffs
  PROVE  Apply(table, diff) \in Tables
<1>1. PICK S \in SUBSET Hashes : diff.rows \in [S -> Rows]
  BY DEF Diffs
<1>2. \A h \in DOMAIN diff.rows : diff.rows[h] \in Rows
  BY <1>1
<1> QED BY <1>2 DEF Apply, Tables

LEMMA EmptyType == Empty \in Tables
BY DEF Empty, Tables

LEMMA ReconcileType ==
  ASSUME NEW old \in Tables, NEW new \in Tables
  PROVE  Reconcile(old, new) \in Tables
BY DEF Reconcile, Tables

LEMMA ShowRowsType ==
  ASSUME NEW rows \in Tables, NEW overrides \in [Hashes -> Statuses \cup {NoStatus}]
  PROVE  /\ ShowRows(rows, overrides) \in Tables
         /\ Standing(rows, overrides) \in SUBSET Hashes
<1>1. \A h \in Standing(rows, overrides) :
        /\ h \in Hashes
        /\ rows[h] \in Rows
        /\ overrides[h] \in Statuses
  BY DEF Standing, Tables
<1>2. \A h \in Standing(rows, overrides) :
        [rows[h] EXCEPT !.status = overrides[h]] \in Rows
  BY <1>1 DEF Rows
<1>3. Standing(rows, overrides) \in SUBSET Hashes
  BY DEF Standing
<1> QED BY <1>2, <1>3 DEF ShowRows, Tables

----------------------------------------------------------------------------
(* The parts of the state. *)

LEMMA RevisionFacts ==
  /\ 0 \in Revisions
  /\ NoRevision \in Revisions \cup {NoRevision}
  /\ Revisions \subseteq Nat
BY ServerAssumption DEF Revisions, NoRevision

LEMMA NextRevisionType ==
  ASSUME ServerTypeOK, NEW held, Numbered(held)
  PROVE  NextRevision(held) \in Revisions
<1>1. CASE Recycles
  <2>1. Free(held) # {} /\ Free(held) \subseteq Revisions
    BY <1>1 DEF Numbered, Free
  <2>2. (CHOOSE n \in Free(held) : TRUE) \in Free(held)
    BY <2>1
  <2> QED BY <1>1, <2>1, <2>2 DEF NextRevision
<1>2. CASE ~Recycles
  <2>1. revision \in 0..Window /\ revision < Window
    BY <1>2 DEF Numbered, ServerTypeOK, Revisions
  <2> QED BY <1>2, <2>1, ServerAssumption DEF NextRevision, Revisions
<1> QED BY <1>1, <1>2, ServerAssumption

LEMMA ColdType == Cold \in Snapshots
BY EmptyType, RevisionFacts DEF Cold, Snapshots

LEMMA StartType == AtTop \in [phase : PollerPhases, next : Snapshots]
BY ColdType DEF AtTop, PollerPhases

LEMMA NoDeltaType == NoDelta \in Deltas
BY NothingType, RevisionFacts DEF NoDelta, Deltas

LEMMA DeltaOfType ==
  ASSUME NEW prev \in Snapshots, NEW next \in Snapshots
  PROVE  DeltaOf(prev, next) \in Deltas
<1>1. Diff(prev.rows, next.rows) \in Diffs
  BY DiffType DEF Snapshots
<1> QED BY <1>1 DEF DeltaOf, Deltas, Snapshots

LEMMA WholeType ==
  ASSUME NEW snapshot \in Snapshots
  PROVE  Whole(snapshot) \in Deltas
<1>1. Diff(Empty, snapshot.rows) \in Diffs
  BY DiffType, EmptyType DEF Snapshots
<1> QED BY <1>1 DEF Whole, Deltas, Snapshots

LEMMA NoRequestType == NoRequest \in Requests
BY ColdType, NoDeltaType DEF NoRequest, Requests, Stages, Replies

\* A slot takes a request of the right type, and the others keep theirs.
LEMMA SlotType ==
  ASSUME NEW table \in [Slots -> Requests], NEW r \in Slots, NEW request \in Requests
  PROVE  [table EXCEPT ![r] = request] \in [Slots -> Requests]
OBVIOUS

----------------------------------------------------------------------------
(* The server. *)

LEMMA PollerType ==
  ASSUME ServerTypeOK, NEW held,
         CheckIdle \/ Park \/ Poll(held) \/ PollFails(held) \/ StoreCache
  PROVE  ServerTypeOK'
<1> USE DEF ServerTypeOK
<1>1. CASE CheckIdle
  BY <1>1 DEF CheckIdle, PollerPhases
<1>2. CASE Park
  BY <1>2 DEF Park, PollerPhases
<1>3. CASE Poll(held)
  <2> DEFINE next == [rev |-> NextRevision(held), rows |-> truth]
  <2>1. NextRevision(held) \in Revisions
    BY <1>3, NextRevisionType DEF Poll
  <2>2. next \in Snapshots
    BY <2>1 DEF Snapshots
  <2>3. DeltaOf(cache, next) \in Deltas
    BY <2>2, DeltaOfType
  <2>4. delta' \in Deltas
    BY <1>3, <2>3, NoDeltaType DEF Poll
  <2>5. poller' \in [phase : PollerPhases, next : Snapshots]
    BY <1>3, <2>2 DEF Poll, PollerPhases
  <2> QED BY <1>3, <2>1, <2>4, <2>5 DEF Poll
<1>4. CASE PollFails(held)
  <2>1. NextRevision(held) \in Revisions
    BY <1>4, NextRevisionType DEF PollFails
  <2>2. [rev |-> NextRevision(held), rows |-> Empty] \in Snapshots
    BY <2>1, EmptyType DEF Snapshots
  <2>3. poller' \in [phase : PollerPhases, next : Snapshots]
    BY <1>4, <2>2 DEF PollFails, PollerPhases
  <2> QED BY <1>4, <2>1, <2>3, NoDeltaType DEF PollFails
<1>5. CASE StoreCache
  <2>1. poller' \in [phase : PollerPhases, next : Snapshots]
    BY <1>5, ColdType DEF StoreCache, AtTop, PollerPhases
  <2>2. tick' \in 0..(FullEvery - 1)
    BY <1>5, ServerAssumption DEF StoreCache
  <2> QED BY <1>5, <2>1, <2>2 DEF StoreCache
<1> QED BY <1>1, <1>2, <1>3, <1>4, <1>5

LEMMA ArriveType ==
  ASSUME ServerTypeOK, NEW r \in Slots, NEW since \in Revisions \cup {NoRevision},
         NEW resync \in BOOLEAN, Arrive(r, since, resync)
  PROVE  ServerTypeOK'
<1> DEFINE sent == [NoRequest EXCEPT !.stage = "waiting", !.since = since, !.resync = resync]
<1>1. sent \in Requests
  BY NoRequestType DEF Requests, Stages
<1>2. requests' \in [Slots -> Requests]
  BY <1>1 DEF Arrive, ServerTypeOK
<1>3. poller' \in [phase : PollerPhases, next : Snapshots]
  BY DEF Arrive, ServerTypeOK, PollerPhases
<1> QED BY <1>2, <1>3 DEF Arrive, ServerTypeOK

LEMMA AnswerType ==
  ASSUME ServerTypeOK, NEW r \in Slots, NEW reply \in Replies, NEW body \in Deltas,
         Answer(r, reply, body)
  PROVE  requests' \in [Slots -> Requests]
<1> DEFINE answered == [NoRequest EXCEPT !.stage = "answered", !.resync = requests[r].resync,
                                         !.reply = reply, !.body = body]
<1>1. requests[r].resync \in BOOLEAN
  BY DEF ServerTypeOK, Requests
<1>2. answered \in Requests
  BY <1>1, NoRequestType DEF Requests, Stages
<1> QED BY <1>2 DEF Answer, ServerTypeOK

LEMMA ServeType ==
  ASSUME ServerTypeOK, NEW r \in Slots, ReadCache(r) \/ ReadDelta(r)
  PROVE  ServerTypeOK'
<1>1. requests[r] \in Requests /\ cache \in Snapshots /\ delta \in Deltas
  BY DEF ServerTypeOK
<1>2. requests[r].seen \in Snapshots
  BY <1>1 DEF Requests
<1>3. Whole(cache) \in Deltas /\ Whole(Cold) \in Deltas /\ Whole(requests[r].seen) \in Deltas
  BY <1>1, <1>2, WholeType, ColdType
<1>4. {"full", "delta", "same"} \subseteq Replies
  BY DEF Replies
<1>5. requests' \in [Slots -> Requests]
  <2>1. CASE ReadCache(r) /\ requests[r].since = NoRevision
    BY <2>1, <1>3, <1>4, AnswerType DEF ReadCache
  <2>2. CASE ReadCache(r) /\ requests[r].since # NoRevision /\ cache = Cold
    BY <2>2, <1>3, <1>4, AnswerType DEF ReadCache
  <2>3. CASE ReadCache(r) /\ requests[r].since # NoRevision /\ cache # Cold
                          /\ requests[r].since = cache.rev
    BY <2>3, <1>4, NoDeltaType, AnswerType DEF ReadCache
  <2>4. CASE ReadCache(r) /\ requests[r].since # NoRevision /\ cache # Cold
                          /\ requests[r].since # cache.rev
    <3>1. [requests[r] EXCEPT !.stage = "between", !.seen = cache] \in Requests
      BY <1>1 DEF Requests, Stages
    <3>2. requests' = [requests EXCEPT ![r] =
                         [requests[r] EXCEPT !.stage = "between", !.seen = cache]]
      BY <2>4 DEF ReadCache, ServerTypeOK, Requests
    <3> QED BY <3>1, <3>2 DEF ServerTypeOK
  <2>5. CASE ReadDelta(r)
    BY <2>5, <1>1, <1>3, <1>4, AnswerType DEF ReadDelta
  <2> QED BY <2>1, <2>2, <2>3, <2>4, <2>5
<1> QED BY <1>5 DEF ReadCache, ReadDelta, serverVars, ServerTypeOK

----------------------------------------------------------------------------
(* The console. *)

LEMMA ReplaceType ==
  ASSUME TypeOK, NEW rev \in Revisions, NEW rows \in Tables,
         NEW overlaid \in SUBSET Hashes, Replace(rev, rows, overlaid)
  PROVE  /\ store' \in Stores
         /\ optimistic' \in [Hashes -> Statuses \cup {NoStatus}]
         /\ aged' \in SUBSET Hashes
         /\ commands' \in [Hashes -> Statuses \cup {NoStatus}]
<1> DEFINE kept == Reconcile(store.rows, rows)
<1>1. store.rows \in Tables
  BY DEF TypeOK, Stores
<1>2. kept \in Tables
  BY <1>1, ReconcileType
<1>3. ShowRows(kept, optimistic) \in Tables /\ Standing(kept, optimistic) \in SUBSET Hashes
  BY <1>2, ShowRowsType DEF TypeOK
<1>4. store' \in Stores
  BY <1>3 DEF Replace, Stores
<1> QED BY <1>3, <1>4 DEF Replace, TypeOK

LEMMA BodyType ==
  ASSUME TypeOK, NEW r \in Slots
  PROVE  /\ requests[r].body.rev \in Revisions
         /\ Apply(Empty, requests[r].body.diff) \in Tables
         /\ Apply(store.rows, requests[r].body.diff) \in Tables
<1>1. requests[r].body \in Deltas
  BY DEF TypeOK, ServerTypeOK, Requests
<1>2. requests[r].body.rev \in Revisions /\ requests[r].body.diff \in Diffs
  BY <1>1 DEF Deltas
<1> QED BY <1>2, EmptyType, ApplyType DEF TypeOK, Stores

LEMMA FinishedType ==
  ASSUME TypeOK, NEW r \in Slots, Finished(r), UNCHANGED <<truth, serverVars>>
  PROVE  ServerTypeOK'
<1>1. requests' \in [Slots -> Requests]
  BY NoRequestType DEF Finished, TypeOK, ServerTypeOK
<1> QED BY <1>1 DEF TypeOK, ServerTypeOK, serverVars

LEMMA TakeType ==
  ASSUME TypeOK, NEW r \in Slots, Take(r)
  PROVE  TypeOK'
<1> DEFINE body == requests[r].body
<1>1. CASE TakeFull(r)
  <2>1. Replace(body.rev, Apply(Empty, body.diff), {})
    BY <1>1 DEF TakeFull
  <2>2. pollRevision' \in Revisions \cup {NoRevision}
    BY <1>1, BodyType DEF TakeFull, TypeOK
  <2>3. ServerTypeOK'
    BY <1>1, FinishedType DEF TakeFull
  <2>4. /\ store' \in Stores /\ optimistic' \in [Hashes -> Statuses \cup {NoStatus}]
        /\ aged' \in SUBSET Hashes /\ commands' \in [Hashes -> Statuses \cup {NoStatus}]
    BY <2>1, BodyType, ReplaceType
  <2> QED BY <2>2, <2>3, <2>4 DEF TypeOK
<1>2. CASE TakeDelta(r) /\ body.base = store.rev
  <2>1. Replace(body.rev, Apply(store.rows, body.diff), store.overlaid)
    BY <1>2 DEF TakeDelta
  <2>2. pollRevision' \in Revisions \cup {NoRevision}
    BY <1>2, BodyType DEF TakeDelta
  <2>3. ServerTypeOK'
    BY <1>2, FinishedType DEF TakeDelta
  <2>4. store.overlaid \in SUBSET Hashes
    BY DEF TypeOK, Stores
  <2>5. /\ store' \in Stores /\ optimistic' \in [Hashes -> Statuses \cup {NoStatus}]
        /\ aged' \in SUBSET Hashes /\ commands' \in [Hashes -> Statuses \cup {NoStatus}]
    BY <2>1, <2>4, BodyType, ReplaceType
  <2> QED BY <2>2, <2>3, <2>5 DEF TypeOK
<1>3. CASE TakeDelta(r) /\ body.base # store.rev
  <2>1. Arrive(r, NoRevision, TRUE) /\ UNCHANGED <<store, optimistic, aged, commands>>
    BY <1>3 DEF TakeDelta
  <2>2. pollRevision' \in Revisions \cup {NoRevision}
    BY <1>3, BodyType DEF TakeDelta
  <2>3. ServerTypeOK'
    BY <2>1, ArriveType DEF TypeOK
  <2> QED BY <2>1, <2>2, <2>3 DEF TypeOK
<1>4. CASE TakeSame(r)
  <2>1. ServerTypeOK'
    BY <1>4, FinishedType DEF TakeSame
  <2> QED BY <1>4, <2>1 DEF TakeSame, TypeOK, consoleVars
<1> QED BY <1>1, <1>2, <1>3, <1>4 DEF Take

LEMMA AskType ==
  ASSUME TypeOK, NEW h \in Hashes, NEW status \in Verbs, Ask(h, status)
  PROVE  TypeOK'
<1> DEFINE asked == [optimistic EXCEPT ![h] = status]
           standing == (Standing(store.rows, asked) \ aged) \cup
                       (IF store.rows[h].status # status THEN {h} ELSE {})
<1>1. status \in Statuses
  BY ConsoleAssumption
<1>2. asked \in [Hashes -> Statuses \cup {NoStatus}] /\ asked[h] = status
  BY <1>1 DEF TypeOK
<1>3. store.rows \in Tables /\ store.overlaid \in SUBSET Hashes /\ store.rev \in Revisions
  BY DEF TypeOK, Stores
<1>4. standing \in SUBSET Hashes
  BY DEF Standing
<1>5. \A k \in standing : store.rows[k] \in Rows /\ asked[k] \in Statuses
  <2> SUFFICES ASSUME NEW k \in standing PROVE store.rows[k] \in Rows /\ asked[k] \in Statuses
    OBVIOUS
  <2>1. CASE k = h
    BY <2>1, <1>1, <1>2, <1>3 DEF Ask, Tables
  <2>2. CASE k \in Standing(store.rows, asked)
    BY <2>2, <1>2, <1>3 DEF Standing, Tables
  <2> QED BY <2>1, <2>2
<1>6. optimistic' \in [Hashes -> Statuses \cup {NoStatus}]
  BY <1>2, <1>4 DEF Ask
<1>7. \A k \in standing : [store.rows[k] EXCEPT !.status = asked[k]] \in Rows
  BY <1>5 DEF Rows
<1> DEFINE shown == [k \in Hashes |-> IF k \in standing
                                      THEN [store.rows[k] EXCEPT !.status = asked[k]]
                                      ELSE store.rows[k]]
<1>8. shown \in Tables
  BY <1>3, <1>7 DEF Tables
<1>9. store' = [store EXCEPT !.rows = shown, !.overlaid = store.overlaid \cup standing]
  BY DEF Ask, TypeOK, Stores
<1>10. store' \in Stores
  BY <1>3, <1>4, <1>8, <1>9 DEF TypeOK, Stores
<1>11. commands' \in [Hashes -> Statuses \cup {NoStatus}] /\ aged' \in SUBSET Hashes
  BY <1>1 DEF Ask, TypeOK
<1>12. ServerTypeOK' /\ pollRevision' \in Revisions \cup {NoRevision}
  BY DEF Ask, TypeOK, ServerTypeOK, serverVars
<1> QED BY <1>6, <1>10, <1>11, <1>12 DEF TypeOK

LEMMA CommandType ==
  ASSUME TypeOK, NEW h \in Hashes, CommandDone(h) \/ CommandRefused(h) \/ OverrideAges(h)
  PROVE  TypeOK'
<1>1. CASE CommandDone(h)
  <2>1. commands[h] \in Statuses
    BY <1>1 DEF CommandDone, TypeOK
  <2>2. truth[h] # NoRow => [truth[h] EXCEPT !.status = commands[h]] \in Rows
    BY <2>1 DEF TypeOK, ServerTypeOK, Tables, Rows
  <2>3. truth[h] # NoRow =>
          [truth EXCEPT ![h].status = commands[h]]
            = [truth EXCEPT ![h] = [truth[h] EXCEPT !.status = commands[h]]]
    BY DEF TypeOK, ServerTypeOK, Tables
  <2>4. truth' \in Tables
    BY <1>1, <2>2, <2>3 DEF CommandDone, TypeOK, ServerTypeOK, Tables
  <2>5. poller' \in [phase : PollerPhases, next : Snapshots]
    BY <1>1 DEF CommandDone, TypeOK, ServerTypeOK, PollerPhases
  <2>6. ServerTypeOK'
    BY <1>1, <2>4, <2>5 DEF CommandDone, TypeOK, ServerTypeOK
  <2> QED BY <1>1, <2>6 DEF CommandDone, TypeOK
<1>2. CASE CommandRefused(h)
  BY <1>2 DEF CommandRefused, TypeOK, ServerTypeOK, serverVars
<1>3. CASE OverrideAges(h)
  BY <1>3 DEF OverrideAges, TypeOK, ServerTypeOK, serverVars
<1> QED BY <1>1, <1>2, <1>3

----------------------------------------------------------------------------

LEMMA TypeInit == Init => TypeOK
<1> SUFFICES ASSUME Init PROVE TypeOK
  OBVIOUS
<1>1. 0 \in 0..(FullEvery - 1)
  BY ServerAssumption
<1>2. requests \in [Slots -> Requests]
  BY NoRequestType DEF Init, ServerInit
<1>3. ServerTypeOK
  BY <1>1, <1>2, StartType, ColdType, NoDeltaType, RevisionFacts
     DEF Init, ServerInit, ServerTypeOK
<1>4. store \in Stores
  BY EmptyType, RevisionFacts DEF Init, Stores
<1> QED BY <1>3, <1>4 DEF Init, TypeOK

LEMMA TypeStep == TypeOK /\ [Next]_vars => TypeOK'
<1> SUFFICES ASSUME TypeOK, [Next]_vars PROVE TypeOK'
  OBVIOUS
<1>1. CASE PollerStep
  <2>1. ServerTypeOK'
    BY <1>1, PollerType DEF PollerStep, TypeOK
  <2> QED BY <1>1, <2>1 DEF PollerStep, TypeOK, consoleVars
<1>2. CASE IdleElapses /\ UNCHANGED consoleVars
  BY <1>2 DEF IdleElapses, TypeOK, ServerTypeOK, consoleVars
<1>3. CASE Restart /\ UNCHANGED consoleVars
  <2>1. \A r \in Slots : (IF requests[r].stage = "answered" THEN requests[r]
                          ELSE NoRequest) \in Requests
    BY NoRequestType DEF TypeOK, ServerTypeOK
  <2>2. requests' \in [Slots -> Requests]
    BY <1>3, <2>1 DEF Restart
  <2>3. 0 \in 0..(FullEvery - 1)
    BY ServerAssumption
  <2>4. ServerTypeOK'
    BY <1>3, <2>2, <2>3, StartType, ColdType, NoDeltaType, RevisionFacts
       DEF Restart, TypeOK, ServerTypeOK
  <2> QED BY <1>3, <2>4 DEF TypeOK, consoleVars
<1>4. ASSUME NEW r \in Slots, ServeStep(r) PROVE TypeOK'
  <2>1. ServerTypeOK'
    BY <1>4, ServeType DEF ServeStep, TypeOK
  <2> QED BY <1>4, <2>1 DEF ServeStep, TypeOK, consoleVars
<1>5. ASSUME NEW r \in Slots, StartTick(r) PROVE TypeOK'
  <2>1. ServerTypeOK'
    BY <1>5, ArriveType DEF StartTick, TypeOK
  <2> QED BY <1>5, <2>1 DEF StartTick, TypeOK, consoleVars
<1>6. ASSUME NEW r \in Slots, LoseAnswer(r) PROVE TypeOK'
  <2>1. ServerTypeOK'
    BY <1>6, FinishedType DEF LoseAnswer
  <2> QED BY <1>6, <2>1 DEF LoseAnswer, TypeOK, consoleVars
<1>7. CASE DaemonChanges
  BY <1>7, ConsoleAssumption
     DEF DaemonChanges, TypeOK, ServerTypeOK, Tables, serverVars, consoleVars
<1>8. CASE UNCHANGED vars
  BY <1>8 DEF vars, serverVars, consoleVars, TypeOK, ServerTypeOK
<1> QED BY <1>1, <1>2, <1>3, <1>4, <1>5, <1>6, <1>7, <1>8, TakeType, AskType, CommandType
        DEF Next

\* Every reachable state is well typed: rows and overrides stay rows and
\* statuses, and a revision never leaves its range.
THEOREM TypeCorrect == Spec => []TypeOK
BY TypeInit, TypeStep, PTL DEF Spec

----------------------------------------------------------------------------
(* The inductive invariant behind SameRevisionSameTable: some history names *)
(* one table for each revision in use, and whatever anybody holds, a        *)
(* snapshot, a delta or the store, is true to it.                           *)

\* What a delta, or a whole snapshot, leads to from where it starts.
Carries(history, body) ==
  Apply(IF body.base = NoRevision THEN Empty ELSE history[body.base], body.diff)
    = history[body.rev]

Agrees(rows, table, overlaid) ==
  \A h \in Hashes :
    /\ rows[h] = NoRow <=> table[h] = NoRow
    /\ h \notin overlaid => StatusOf(rows[h]) = StatusOf(table[h])

ServerTrue(history) ==
  /\ history[0] = Empty
  /\ history[cache.rev] = cache.rows
  /\ Carries(history, delta)
  /\ poller.phase = "store" => history[poller.next.rev] = poller.next.rows

RequestTrue(history, q) ==
  /\ history[q.seen.rev] = q.seen.rows
  /\ Carries(history, q.body)

StoreTrue(history) == Agrees(store.rows, history[store.rev], store.overlaid)

\* A whole answer starts from nothing.
FullIsWhole == \A r \in Slots : requests[r].reply = "full" => requests[r].body.base = NoRevision

\* While revisions count on, nobody holds one that is still to come.
Past(n) == n = NoRevision \/ n <= revision

RequestPast(q) == Past(q.seen.rev) /\ Past(q.body.rev) /\ Past(q.body.base)

NobodyAhead ==
  ~Recycles => /\ Past(cache.rev) /\ Past(delta.rev) /\ Past(delta.base) /\ Past(store.rev)
               /\ \A r \in Slots : RequestPast(requests[r])
               /\ poller.phase = "store" => Past(poller.next.rev)

Truthful(history) ==
  /\ ServerTrue(history)
  /\ \A r \in Slots : RequestTrue(history, requests[r])
  /\ StoreTrue(history)

ConsoleInv ==
  /\ TypeOK
  /\ FullIsWhole
  /\ NobodyAhead
  /\ \E history \in [Revisions -> Tables] : Truthful(history)

----------------------------------------------------------------------------
(* Lemmas about what is carried. *)

LEMMA NoDeltaCarries ==
  ASSUME NEW history \in [Revisions -> Tables], history[0] = Empty
  PROVE  Carries(history, NoDelta) /\ history[Cold.rev] = Cold.rows
<1>1. Apply(Empty, Nothing) = Empty
  BY DEF Apply, Empty, Nothing
<1> QED BY <1>1 DEF Carries, NoDelta, Cold

LEMMA WholeCarries ==
  ASSUME NEW history \in [Revisions -> Tables], NEW snapshot \in Snapshots,
         history[snapshot.rev] = snapshot.rows
  PROVE  Carries(history, Whole(snapshot)) /\ Whole(snapshot).base = NoRevision
<1>1. Apply(Empty, Diff(Empty, snapshot.rows)) = snapshot.rows
  BY DiffLeads, EmptyType DEF Snapshots
<1> QED BY <1>1 DEF Carries, Whole

LEMMA DeltaOfCarries ==
  ASSUME NEW history \in [Revisions -> Tables], NEW prev \in Snapshots, NEW next \in Snapshots,
         history[prev.rev] = prev.rows, history[next.rev] = next.rows
  PROVE  Carries(history, DeltaOf(prev, next))
<1>1. Apply(prev.rows, Diff(prev.rows, next.rows)) = next.rows
  BY DiffLeads DEF Snapshots
<1>2. prev.rev # NoRevision
  BY ServerAssumption DEF Snapshots, Revisions, NoRevision
<1> QED BY <1>1, <1>2 DEF Carries, DeltaOf

LEMMA ApplyAgrees ==
  ASSUME NEW rows \in Tables, NEW table \in Tables, NEW overlaid, NEW diff \in Diffs,
         Agrees(rows, table, overlaid)
  PROVE  Agrees(Apply(rows, diff), Apply(table, diff), overlaid)
BY DEF Agrees, Apply, StatusOf

LEMMA RowIsNoNoRow == NoRow \notin Rows
BY NoRowAssumption DEF Rows

LEMMA ReplaceAgrees ==
  ASSUME TypeOK, NEW rev \in Revisions, NEW rows \in Tables, NEW table \in Tables,
         NEW overlaid \in SUBSET Hashes, Agrees(rows, table, overlaid),
         Replace(rev, rows, overlaid)
  PROVE  Agrees(store'.rows, table, store'.overlaid) /\ store'.rev = rev
<1> DEFINE kept == Reconcile(store.rows, rows)
           over == Standing(kept, optimistic)
<1>1. kept \in Tables
  BY ReconcileType DEF TypeOK, Stores
<1>2. \A h \in Hashes : (kept[h] = NoRow <=> rows[h] = NoRow)
                        /\ StatusOf(kept[h]) = StatusOf(rows[h])
  BY DEF Reconcile, StatusOf
<1>3. /\ store'.rows = ShowRows(kept, optimistic) /\ store'.rev = rev
      /\ store'.overlaid = overlaid \cup over
  BY DEF Replace
<1>4. ASSUME NEW h \in Hashes, h \in over
      PROVE  ShowRows(kept, optimistic)[h] # NoRow /\ kept[h] # NoRow
  <2>1. kept[h] \in Rows /\ optimistic[h] \in Statuses
    BY <1>1, <1>4 DEF Standing, Tables, TypeOK
  <2>2. [kept[h] EXCEPT !.status = optimistic[h]] \in Rows
    BY <2>1 DEF Rows
  <2> QED BY <1>4, <2>1, <2>2, RowIsNoNoRow DEF ShowRows
<1>5. ASSUME NEW h \in Hashes, h \notin over
      PROVE  ShowRows(kept, optimistic)[h] = kept[h]
  BY <1>5 DEF ShowRows
<1>6. ASSUME NEW h \in Hashes
      PROVE  /\ store'.rows[h] = NoRow <=> table[h] = NoRow
             /\ h \notin store'.overlaid => StatusOf(store'.rows[h]) = StatusOf(table[h])
  <2>1. CASE h \in over
    BY <2>1, <1>2, <1>3, <1>4 DEF Agrees
  <2>2. CASE h \notin over
    BY <2>2, <1>2, <1>3, <1>5 DEF Agrees
  <2> QED BY <2>1, <2>2
<1> QED BY <1>3, <1>6 DEF Agrees

----------------------------------------------------------------------------
(* The steps that publish. *)

\* The revision a poll takes is held by nobody.
LEMMA NextRevisionIsNew ==
  ASSUME TypeOK, NobodyAhead, Numbered(Held)
  PROVE  LET n == NextRevision(Held)
         IN /\ n \in Revisions /\ n # 0 /\ n # NoRevision
            /\ n # cache.rev /\ n # delta.rev /\ n # delta.base /\ n # store.rev
            /\ \A r \in Slots : /\ n # requests[r].seen.rev
                               /\ n # requests[r].body.rev /\ n # requests[r].body.base
<1> DEFINE n == NextRevision(Held)
<1>1. n \in Revisions
  BY NextRevisionType DEF TypeOK
<1>2. n # NoRevision
  BY <1>1, ServerAssumption DEF Revisions, NoRevision
<1>3. CASE Recycles
  <2>1. Free(Held) # {}
    BY <1>3 DEF Numbered
  <2>2. n \in Free(Held)
    BY <1>3, <2>1 DEF NextRevision
  <2> QED BY <1>1, <1>2, <2>2 DEF Free, Held
<1>4. CASE ~Recycles
  <2>1. n = revision + 1 /\ revision \in Nat
    BY <1>4, RevisionFacts DEF NextRevision, TypeOK, ServerTypeOK
  <2>2. \A k : Past(k) => k # n
    BY <1>2, <2>1 DEF Past
  <2> QED BY <1>1, <1>2, <1>4, <2>1, <2>2 DEF NobodyAhead, RequestPast
<1> QED BY <1>3, <1>4

\* A history goes on with the table published under a revision nobody held.
LEMMA HistoryGoesOn ==
  ASSUME TypeOK, NobodyAhead, Numbered(Held), NEW table \in Tables,
         NEW history \in [Revisions -> Tables], Truthful(history)
  PROVE  LET longer == [history EXCEPT ![NextRevision(Held)] = table]
         IN /\ longer \in [Revisions -> Tables]
            /\ longer[NextRevision(Held)] = table
            /\ longer[0] = Empty
            /\ longer[cache.rev] = cache.rows
            /\ Carries(longer, delta)
            /\ \A r \in Slots : RequestTrue(longer, requests[r])
            /\ StoreTrue(longer)
<1> DEFINE n == NextRevision(Held)
           longer == [history EXCEPT ![n] = table]
<1> HIDE DEF n
<1>1. /\ n \in Revisions /\ n # 0 /\ n # NoRevision
      /\ n # cache.rev /\ n # delta.rev /\ n # delta.base /\ n # store.rev
      /\ \A r \in Slots : /\ n # requests[r].seen.rev
                         /\ n # requests[r].body.rev /\ n # requests[r].body.base
  BY NextRevisionIsNew DEF n
<1>2. longer \in [Revisions -> Tables] /\ longer[n] = table
  BY <1>1
<1>3. \A k \in Revisions : k # n => longer[k] = history[k]
  OBVIOUS
<1>4. /\ cache.rev \in Revisions /\ store.rev \in Revisions
      /\ delta \in Deltas
      /\ \A r \in Slots : requests[r].seen.rev \in Revisions /\ requests[r].body \in Deltas
  BY DEF TypeOK, ServerTypeOK, Snapshots, Stores, Requests
<1>5. ASSUME NEW body \in Deltas, Carries(history, body), n # body.rev, n # body.base
      PROVE  Carries(longer, body)
  <2>1. body.rev \in Revisions /\ body.base \in Revisions \cup {NoRevision}
    BY <1>5 DEF Deltas
  <2>2. longer[body.rev] = history[body.rev]
    BY <1>3, <1>5, <2>1
  <2>3. body.base # NoRevision => longer[body.base] = history[body.base]
    BY <1>3, <1>5, <2>1
  <2> QED BY <1>5, <2>2, <2>3 DEF Carries
<1>6. longer[0] = Empty /\ longer[cache.rev] = cache.rows
  BY <1>1, <1>3, <1>4, RevisionFacts DEF Truthful, ServerTrue
<1>7. Carries(longer, delta)
  BY <1>1, <1>4, <1>5 DEF Truthful, ServerTrue
<1>8. ASSUME NEW r \in Slots PROVE RequestTrue(longer, requests[r])
  <2>1. longer[requests[r].seen.rev] = requests[r].seen.rows
    BY <1>1, <1>3, <1>4 DEF Truthful, RequestTrue
  <2>2. Carries(longer, requests[r].body)
    BY <1>1, <1>4, <1>5 DEF Truthful, RequestTrue
  <2> QED BY <2>1, <2>2 DEF RequestTrue
<1>9. StoreTrue(longer)
  BY <1>1, <1>3, <1>4 DEF Truthful, StoreTrue
<1> QED BY <1>2, <1>6, <1>7, <1>8, <1>9 DEF n

LEMMA PollerTrue ==
  ASSUME ConsoleInv, TypeOK', PollerStep
  PROVE  ConsoleInv'
<1> USE DEF ConsoleInv
<1>1. PICK history \in [Revisions -> Tables] : Truthful(history)
  OBVIOUS
<1>2. UNCHANGED <<store, requests>>
  BY DEF PollerStep, consoleVars, CheckIdle, Park, Poll, PollFails, StoreCache
<1>3. FullIsWhole'
  BY <1>2 DEF FullIsWhole
<1>4. CASE CheckIdle \/ Park
  <2>1. UNCHANGED <<cache, delta, revision>> /\ poller'.phase # "store"
    BY <1>4 DEF CheckIdle, Park, TypeOK, ServerTypeOK
  <2>2. Truthful(history)'
    BY <1>1, <1>2, <2>1 DEF Truthful, ServerTrue, RequestTrue, Carries, StoreTrue
  <2>3. NobodyAhead'
    BY <1>2, <2>1 DEF NobodyAhead, RequestPast, Past
  <2> QED BY <1>3, <2>2, <2>3
<1>5. ASSUME NEW table \in Tables, Numbered(Held),
             revision' = NextRevision(Held), cache' = cache,
             poller' = [phase |-> "store",
                        next |-> [rev |-> NextRevision(Held), rows |-> table]],
             delta' \in {NoDelta, DeltaOf(cache, [rev |-> NextRevision(Held), rows |-> table])}
      PROVE  ConsoleInv'
  <2>1. PICK n \in Revisions : n = NextRevision(Held) /\ n # NoRevision
    BY <1>5, NextRevisionIsNew
  <2> DEFINE next == [rev |-> n, rows |-> table]
  <2>2. PICK longer \in [Revisions -> Tables] :
          /\ longer[n] = table
          /\ longer[0] = Empty /\ longer[cache.rev] = cache.rows
          /\ \A r \in Slots : RequestTrue(longer, requests[r])
          /\ StoreTrue(longer)
    BY <1>1, <1>5, <2>1, HistoryGoesOn
  <2>3. next \in Snapshots /\ cache \in Snapshots
    BY <2>1 DEF Snapshots, TypeOK, ServerTypeOK
  <2>4. /\ delta' \in {NoDelta, DeltaOf(cache, next)} /\ cache' = cache
        /\ poller'.next = next /\ revision' = n
    BY <1>5, <2>1
  <2>5. Carries(longer, delta')
    <3>1. CASE delta' = NoDelta
      BY <2>2, <3>1, NoDeltaCarries
    <3>2. CASE delta' = DeltaOf(cache, next)
      BY <2>2, <2>3, <3>2, DeltaOfCarries
    <3> QED BY <2>4, <3>1, <3>2
  <2>6. ServerTrue(longer)'
    BY <2>2, <2>4, <2>5 DEF ServerTrue, Carries
  <2>7. (\A r \in Slots : RequestTrue(longer, requests[r]))' /\ StoreTrue(longer)'
    BY <1>2, <2>2 DEF RequestTrue, Carries, StoreTrue
  <2>8. NobodyAhead'
    <3>1. SUFFICES ASSUME ~Recycles PROVE NobodyAhead'
      BY DEF NobodyAhead
    <3>2. n = revision + 1 /\ revision \in Nat
      BY <2>1, <3>1, RevisionFacts DEF NextRevision, TypeOK, ServerTypeOK
    <3>3. \A k \in Revisions \cup {NoRevision} : Past(k) => (k = NoRevision \/ k <= n)
      BY <3>2, ServerAssumption DEF Past, Revisions, NoRevision
    <3>4. /\ cache.rev \in Revisions /\ store.rev \in Revisions
          /\ \A r \in Slots : /\ requests[r].seen.rev \in Revisions
                             /\ requests[r].body.rev \in Revisions
                             /\ requests[r].body.base \in Revisions \cup {NoRevision}
      BY DEF TypeOK, ServerTypeOK, Snapshots, Stores, Requests, Deltas
    <3> DEFINE Upto(k) == k = NoRevision \/ k <= n
    <3>5. /\ Upto(cache.rev) /\ Upto(store.rev)
          /\ \A r \in Slots : /\ Upto(requests[r].seen.rev)
                             /\ Upto(requests[r].body.rev) /\ Upto(requests[r].body.base)
      BY <3>1, <3>3, <3>4 DEF NobodyAhead, RequestPast
    <3>6. Upto(delta'.rev) /\ Upto(delta'.base)
      <4>1. CASE delta' = NoDelta
        BY <4>1, <3>2 DEF NoDelta
      <4>2. CASE delta' = DeltaOf(cache, next)
        BY <4>2, <3>2, <3>5 DEF DeltaOf
      <4> QED BY <2>4, <4>1, <4>2
    <3>7. Upto(n)
      BY <3>2
    <3>8. \A k : Past(k)' <=> Upto(k)
      BY <2>4 DEF Past
    <3> HIDE DEF Upto
    <3> QED BY <1>2, <2>4, <3>5, <3>6, <3>7, <3>8 DEF NobodyAhead, RequestPast
  <2> QED BY <1>3, <2>2, <2>6, <2>7, <2>8 DEF Truthful
<1>6. CASE Poll(Held)
  <2>1. truth \in Tables
    BY DEF TypeOK, ServerTypeOK
  <2>2. delta' \in {NoDelta, DeltaOf(cache, [rev |-> NextRevision(Held), rows |-> truth])}
    BY <1>6 DEF Poll
  <2> QED BY <1>5, <1>6, <2>1, <2>2 DEF Poll
<1>7. CASE PollFails(Held)
  BY <1>5, <1>7, EmptyType DEF PollFails
<1>8. CASE StoreCache
  <2>1. /\ poller.phase = "store" /\ cache' = poller.next /\ poller'.phase = "top"
        /\ UNCHANGED <<delta, revision>>
    BY <1>8 DEF StoreCache, AtTop
  <2>2. Truthful(history)'
    BY <1>1, <1>2, <2>1 DEF Truthful, ServerTrue, RequestTrue, Carries, StoreTrue
  <2>3. NobodyAhead'
    BY <1>2, <2>1 DEF NobodyAhead, RequestPast, Past
  <2> QED BY <1>3, <2>2, <2>3
<1> QED BY <1>4, <1>6, <1>7, <1>8 DEF PollerStep

----------------------------------------------------------------------------
(* The steps of a request. *)

\* A slot takes a request true to the history, and nothing else the invariant
\* looks at changes.
LEMMA SlotTrue ==
  ASSUME ConsoleInv, TypeOK', NEW r \in Slots, NEW q,
         requests' = [requests EXCEPT ![r] = q],
         UNCHANGED <<cache, delta, revision, store>>,
         poller'.phase # "store" \/ poller' = poller,
         \A history \in [Revisions -> Tables] : Truthful(history) => RequestTrue(history, q),
         q.reply = "full" => q.body.base = NoRevision,
         ~Recycles => RequestPast(q)
  PROVE  ConsoleInv'
<1> USE DEF ConsoleInv
<1>1. PICK history \in [Revisions -> Tables] : Truthful(history)
  OBVIOUS
<1>2. \A k \in Slots : requests'[k] = IF k = r THEN q ELSE requests[k]
  BY DEF TypeOK, ServerTypeOK
<1>3. (\A k \in Slots : RequestTrue(history, requests[k]))'
  BY <1>1, <1>2 DEF Truthful, RequestTrue, Carries
<1>4. ServerTrue(history)' /\ StoreTrue(history)'
  BY <1>1 DEF Truthful, ServerTrue, StoreTrue, Carries
<1>5. FullIsWhole'
  BY <1>2 DEF FullIsWhole
<1>6. NobodyAhead'
  BY <1>2 DEF NobodyAhead, RequestPast, Past
<1> QED BY <1>3, <1>4, <1>5, <1>6 DEF Truthful

\* A request that carries nothing is always true.
LEMMA BlankRequest ==
  ASSUME ConsoleInv, NEW q, q.seen = Cold, q.body = NoDelta
  PROVE  /\ \A history \in [Revisions -> Tables] : Truthful(history) => RequestTrue(history, q)
         /\ q.body.base = NoRevision
         /\ RequestPast(q)
<1>1. 0 <= revision
  BY RevisionFacts DEF ConsoleInv, TypeOK, ServerTypeOK
<1> QED BY <1>1, NoDeltaCarries
        DEF RequestTrue, RequestPast, Past, Truthful, ServerTrue, NoDelta, Cold

LEMMA ArriveTrue ==
  ASSUME ConsoleInv, TypeOK', NEW r \in Slots, NEW since, NEW resync,
         Arrive(r, since, resync), UNCHANGED store
  PROVE  ConsoleInv'
<1> DEFINE sent == [NoRequest EXCEPT !.stage = "waiting", !.since = since, !.resync = resync]
<1>1. sent.seen = Cold /\ sent.body = NoDelta /\ sent.reply = "none"
  BY DEF NoRequest
<1>2. requests' = [requests EXCEPT ![r] = sent] /\ UNCHANGED <<cache, delta, revision>>
  BY DEF Arrive
<1>3. poller'.phase # "store" \/ poller' = poller
  BY DEF Arrive, ConsoleInv, TypeOK, ServerTypeOK
<1> HIDE DEF sent
<1> QED BY <1>1, <1>2, <1>3, BlankRequest, SlotTrue

LEMMA FinishedTrue ==
  ASSUME ConsoleInv, TypeOK', NEW r \in Slots, Finished(r), UNCHANGED <<truth, serverVars, store>>
  PROVE  ConsoleInv'
<1>1. NoRequest.seen = Cold /\ NoRequest.body = NoDelta /\ NoRequest.reply = "none"
  BY DEF NoRequest
<1>2. requests' = [requests EXCEPT ![r] = NoRequest]
  BY DEF Finished
<1> QED BY <1>1, <1>2, BlankRequest, SlotTrue DEF serverVars

LEMMA AnswerTrue ==
  ASSUME ConsoleInv, TypeOK', NEW r \in Slots, NEW reply, NEW body, Answer(r, reply, body),
         UNCHANGED <<truth, serverVars, store>>,
         \A history \in [Revisions -> Tables] : Truthful(history) => Carries(history, body),
         reply = "full" => body.base = NoRevision,
         ~Recycles => Past(body.rev) /\ Past(body.base)
  PROVE  ConsoleInv'
<1> DEFINE q == [NoRequest EXCEPT !.stage = "answered", !.resync = requests[r].resync,
                                  !.reply = reply, !.body = body]
<1>1. q.seen = Cold /\ q.body = body /\ q.reply = reply
  BY DEF NoRequest
<1>2. requests' = [requests EXCEPT ![r] = q]
  BY DEF Answer
<1>3. ~Recycles => RequestPast(q)
  <2>1. Past(Cold.rev)
    BY RevisionFacts DEF Past, Cold, ConsoleInv, TypeOK, ServerTypeOK
  <2> QED BY <1>1, <2>1 DEF RequestPast
<1>4. \A history \in [Revisions -> Tables] : Truthful(history) => RequestTrue(history, q)
  BY <1>1, NoDeltaCarries DEF RequestTrue, Truthful, ServerTrue
<1> HIDE DEF q
<1> QED BY <1>1, <1>2, <1>3, <1>4, SlotTrue DEF serverVars

LEMMA ServeTrue ==
  ASSUME ConsoleInv, TypeOK', NEW r \in Slots, ServeStep(r)
  PROVE  ConsoleInv'
<1> DEFINE seen == requests[r].seen
<1>1. UNCHANGED <<truth, serverVars, store>>
  BY DEF ServeStep, consoleVars, ReadCache, ReadDelta
<1>2. /\ cache \in Snapshots /\ seen \in Snapshots /\ Cold \in Snapshots
      /\ requests[r] \in Requests
  BY ColdType DEF ConsoleInv, TypeOK, ServerTypeOK, Requests
<1>3. ASSUME NEW history \in [Revisions -> Tables], Truthful(history)
      PROVE  /\ Carries(history, Whole(cache)) /\ Carries(history, Whole(Cold))
             /\ Carries(history, Whole(seen)) /\ Carries(history, delta)
             /\ Carries(history, NoDelta)
             /\ history[cache.rev] = cache.rows
  BY <1>2, <1>3, WholeCarries, NoDeltaCarries DEF Truthful, ServerTrue, RequestTrue
<1>4. /\ Whole(cache).base = NoRevision /\ Whole(Cold).base = NoRevision
      /\ Whole(seen).base = NoRevision /\ NoDelta.base = NoRevision
      /\ Whole(cache).rev = cache.rev /\ Whole(Cold).rev = 0 /\ Whole(seen).rev = seen.rev
      /\ NoDelta.rev = 0
  BY DEF Whole, NoDelta, Cold
<1>5. ~Recycles => /\ Past(cache.rev) /\ Past(seen.rev) /\ Past(0) /\ Past(NoRevision)
                   /\ Past(delta.rev) /\ Past(delta.base)
  BY RevisionFacts DEF ConsoleInv, NobodyAhead, RequestPast, Past, TypeOK, ServerTypeOK
<1>6. CASE ReadCache(r) /\ requests[r].since = NoRevision
  <2>1. Answer(r, "full", Whole(cache))
    BY <1>6 DEF ReadCache
  <2> QED BY <1>1, <1>3, <1>4, <1>5, <2>1, AnswerTrue
<1>7. CASE ReadCache(r) /\ requests[r].since # NoRevision /\ cache = Cold
  <2>1. Answer(r, "delta", Whole(Cold))
    BY <1>7 DEF ReadCache
  <2> QED BY <1>1, <1>3, <1>4, <1>5, <2>1, AnswerTrue
<1>8. CASE ReadCache(r) /\ requests[r].since # NoRevision /\ cache # Cold
                        /\ requests[r].since = cache.rev
  <2>1. Answer(r, "same", NoDelta)
    BY <1>8 DEF ReadCache
  <2> QED BY <1>1, <1>3, <1>4, <1>5, <2>1, AnswerTrue
<1>9. CASE ReadCache(r) /\ requests[r].since # NoRevision /\ cache # Cold
                        /\ requests[r].since # cache.rev
  <2> DEFINE q == [requests[r] EXCEPT !.stage = "between", !.seen = cache]
  <2>1. requests' = [requests EXCEPT ![r] = q]
    BY <1>9 DEF ReadCache, ConsoleInv, TypeOK, ServerTypeOK, Requests
  <2>2. q.seen = cache /\ q.body = requests[r].body /\ q.reply = requests[r].reply
    BY <1>2 DEF Requests
  <2>3. \A history \in [Revisions -> Tables] : Truthful(history) => RequestTrue(history, q)
    BY <1>3, <2>2 DEF RequestTrue, Truthful
  <2>4. /\ q.reply = "full" => q.body.base = NoRevision
        /\ ~Recycles => RequestPast(q)
    BY <1>5, <2>2 DEF ConsoleInv, FullIsWhole, NobodyAhead, RequestPast
  <2> HIDE DEF q
  <2> QED BY <1>1, <2>1, <2>3, <2>4, SlotTrue DEF serverVars
<1>10. CASE ReadDelta(r)
  <2>1. Answer(r, "delta", delta) \/ Answer(r, "full", Whole(seen))
    BY <1>10 DEF ReadDelta
  <2> QED BY <1>1, <1>3, <1>4, <1>5, <2>1, AnswerTrue
<1> QED BY <1>6, <1>7, <1>8, <1>9, <1>10 DEF ServeStep

----------------------------------------------------------------------------
(* The steps of the console. *)

\* An answer is taken into a store that is true to the history.
LEMMA TakenTrue ==
  ASSUME ConsoleInv, TypeOK', NEW r \in Slots, Finished(r), UNCHANGED <<truth, serverVars>>,
         \A history \in [Revisions -> Tables] :
           Truthful(history) => Agrees(store'.rows, history[store'.rev], store'.overlaid),
         ~Recycles => Past(store'.rev)
  PROVE  ConsoleInv'
<1> USE DEF ConsoleInv
<1>1. PICK history \in [Revisions -> Tables] : Truthful(history)
  OBVIOUS
<1>2. \A k \in Slots : requests'[k] = IF k = r THEN NoRequest ELSE requests[k]
  BY DEF Finished, TypeOK, ServerTypeOK
<1>3. NoRequest.seen = Cold /\ NoRequest.body = NoDelta /\ NoRequest.reply = "none"
  BY DEF NoRequest
<1>4. RequestTrue(history, NoRequest) /\ RequestPast(NoRequest)
  BY <1>1, <1>3, BlankRequest
<1>5. (\A k \in Slots : RequestTrue(history, requests[k]))'
  BY <1>1, <1>2, <1>4 DEF Truthful, RequestTrue, Carries
<1>6. ServerTrue(history)' /\ StoreTrue(history)'
  BY <1>1 DEF Truthful, ServerTrue, StoreTrue, Carries, serverVars
<1>7. FullIsWhole'
  BY <1>2, <1>3 DEF FullIsWhole
<1>8. NobodyAhead'
  BY <1>2, <1>4 DEF NobodyAhead, RequestPast, Past, serverVars
<1> QED BY <1>5, <1>6, <1>7, <1>8 DEF Truthful

LEMMA TakeTrue ==
  ASSUME ConsoleInv, TypeOK', NEW r \in Slots, Take(r)
  PROVE  ConsoleInv'
<1> DEFINE body == requests[r].body
<1>1. /\ TypeOK /\ body \in Deltas /\ body.diff \in Diffs
      /\ body.rev \in Revisions /\ store.rev \in Revisions
      /\ store.rows \in Tables /\ store.overlaid \in SUBSET Hashes
  BY DEF ConsoleInv, TypeOK, ServerTypeOK, Requests, Deltas, Stores
<1>2. ~Recycles => Past(body.rev)
  BY DEF ConsoleInv, NobodyAhead, RequestPast
<1>3. CASE TakeFull(r)
  <2> DEFINE rows == Apply(Empty, body.diff)
  <2>1. Replace(body.rev, rows, {}) /\ Finished(r) /\ UNCHANGED <<truth, serverVars>>
    BY <1>3 DEF TakeFull
  <2>2. body.base = NoRevision
    BY <1>3 DEF TakeFull, ConsoleInv, FullIsWhole
  <2>3. rows \in Tables
    BY <1>1, BodyType
  <2>4. store'.rev = body.rev
    BY <2>1 DEF Replace
  <2>5. ASSUME NEW history \in [Revisions -> Tables], Truthful(history)
        PROVE  Agrees(store'.rows, history[store'.rev], store'.overlaid)
    <3>1. rows = history[body.rev]
      BY <2>2, <2>5 DEF Truthful, RequestTrue, Carries
    <3>2. Agrees(rows, rows, {})
      BY DEF Agrees
    <3> HIDE DEF rows
    <3>3. Agrees(store'.rows, rows, store'.overlaid)
      BY <1>1, <2>1, <2>3, <3>2, ReplaceAgrees
    <3> QED BY <2>4, <3>1, <3>3
  <2> QED BY <1>2, <2>1, <2>4, <2>5, TakenTrue
<1>4. CASE TakeDelta(r) /\ body.base = store.rev
  <2> DEFINE rows == Apply(store.rows, body.diff)
  <2>1. /\ Replace(body.rev, rows, store.overlaid)
        /\ Finished(r) /\ UNCHANGED <<truth, serverVars>>
    BY <1>4 DEF TakeDelta
  <2>2. body.base # NoRevision
    BY <1>1, <1>4, ServerAssumption DEF Revisions, NoRevision
  <2>3. rows \in Tables
    BY <1>1, BodyType
  <2>4. store'.rev = body.rev
    BY <2>1 DEF Replace
  <2>5. ASSUME NEW history \in [Revisions -> Tables], Truthful(history)
        PROVE  Agrees(store'.rows, history[store'.rev], store'.overlaid)
    <3>1. Apply(history[store.rev], body.diff) = history[body.rev]
      BY <1>4, <2>2, <2>5 DEF Truthful, RequestTrue, Carries
    <3>2. history[store.rev] \in Tables /\ history[body.rev] \in Tables
      BY <1>1
    <3>3. Agrees(rows, history[body.rev], store.overlaid)
      BY <1>1, <2>5, <3>1, <3>2, ApplyAgrees DEF Truthful, StoreTrue
    <3> HIDE DEF rows
    <3>4. Agrees(store'.rows, history[body.rev], store'.overlaid)
      BY <1>1, <2>1, <2>3, <3>2, <3>3, ReplaceAgrees
    <3> QED BY <2>4, <3>4
  <2> QED BY <1>2, <2>1, <2>4, <2>5, TakenTrue
<1>5. CASE TakeDelta(r) /\ body.base # store.rev
  <2>1. Arrive(r, NoRevision, TRUE) /\ UNCHANGED store
    BY <1>5 DEF TakeDelta
  <2> QED BY <2>1, ArriveTrue
<1>6. CASE TakeSame(r)
  BY <1>6, FinishedTrue DEF TakeSame, consoleVars
<1> QED BY <1>3, <1>4, <1>5, <1>6 DEF Take

\* Steps that only touch what the invariant does not look at.
LEMMA ElsewhereTrue ==
  ASSUME ConsoleInv, TypeOK', UNCHANGED <<cache, delta, revision, requests, store>>,
         poller'.phase # "store" \/ poller' = poller
  PROVE  ConsoleInv'
<1> USE DEF ConsoleInv
<1>1. PICK history \in [Revisions -> Tables] : Truthful(history)
  OBVIOUS
<1>2. Truthful(history)'
  BY <1>1 DEF Truthful, ServerTrue, RequestTrue, StoreTrue, Carries
<1>3. FullIsWhole' /\ NobodyAhead'
  BY DEF FullIsWhole, NobodyAhead, RequestPast, Past
<1> QED BY <1>2, <1>3

\* An override lays a status over a row that is there.
LEMMA AskTrue ==
  ASSUME ConsoleInv, TypeOK', NEW h \in Hashes, NEW status \in Verbs, Ask(h, status)
  PROVE  ConsoleInv'
<1> DEFINE asked == [optimistic EXCEPT ![h] = status]
           standing == (Standing(store.rows, asked) \ aged) \cup
                       (IF store.rows[h].status # status THEN {h} ELSE {})
<1>1. store \in Stores /\ store' \in Stores
  BY DEF ConsoleInv, TypeOK
<1>2. /\ store'.rev = store.rev /\ store'.overlaid = store.overlaid \cup standing
      /\ \A k \in Hashes : k \notin standing => store'.rows[k] = store.rows[k]
      /\ \A k \in Hashes : k \in standing =>
           store'.rows[k] = [store.rows[k] EXCEPT !.status = asked[k]]
  BY <1>1 DEF Ask, Stores
<1>3. ASSUME NEW k \in Hashes, k \in standing
      PROVE  store.rows[k] # NoRow /\ store'.rows[k] # NoRow
  <2>1. store.rows[k] \in Rows
    BY <1>1, <1>3 DEF Ask, Standing, Stores, Tables
  <2>2. asked[k] \in Statuses
    <3>1. status \in Statuses
      BY ConsoleAssumption
    <3>2. optimistic \in [Hashes -> Statuses \cup {NoStatus}]
      BY DEF ConsoleInv, TypeOK
    <3> QED BY <1>3, <3>1, <3>2 DEF Standing
  <2>3. store'.rows[k] \in Rows
    BY <1>2, <1>3, <2>1, <2>2 DEF Rows
  <2> QED BY <2>1, <2>3, RowIsNoNoRow
<1> HIDE DEF standing
<1>4. PICK history \in [Revisions -> Tables] : Truthful(history)
  BY DEF ConsoleInv
<1>5. Agrees(store.rows, history[store.rev], store.overlaid)
  BY <1>4 DEF Truthful, StoreTrue
<1>6. StoreTrue(history)'
  <2>1. Agrees(store'.rows, history[store.rev], store'.overlaid)
    <3> SUFFICES ASSUME NEW k \in Hashes
                 PROVE  /\ store'.rows[k] = NoRow <=> history[store.rev][k] = NoRow
                        /\ k \notin store'.overlaid =>
                             StatusOf(store'.rows[k]) = StatusOf(history[store.rev][k])
      BY DEF Agrees
    <3>1. CASE k \in standing
      BY <1>2, <1>3, <1>5, <3>1 DEF Agrees
    <3>2. CASE k \notin standing
      BY <1>2, <1>5, <3>2 DEF Agrees
    <3> QED BY <3>1, <3>2
  <2> QED BY <1>2, <2>1 DEF StoreTrue
<1>7. UNCHANGED <<cache, delta, revision, poller, requests>>
  BY DEF Ask, serverVars
<1>8. ServerTrue(history)' /\ (\A r \in Slots : RequestTrue(history, requests[r]))'
  BY <1>4, <1>7 DEF Truthful, ServerTrue, RequestTrue, Carries
<1>9. FullIsWhole' /\ NobodyAhead'
  BY <1>2, <1>7 DEF ConsoleInv, FullIsWhole, NobodyAhead, RequestPast, Past
<1> QED BY <1>6, <1>8, <1>9 DEF ConsoleInv, Truthful

----------------------------------------------------------------------------

LEMMA ConsoleInvInit == Init => ConsoleInv
<1> SUFFICES ASSUME Init PROVE ConsoleInv
  OBVIOUS
<1> DEFINE history == [n \in Revisions |-> Empty]
<1>1. history \in [Revisions -> Tables] /\ history[0] = Empty
  BY EmptyType, RevisionFacts
<1>2. Carries(history, NoDelta) /\ history[Cold.rev] = Cold.rows
  BY <1>1, NoDeltaCarries
<1>3. \A r \in Slots : requests[r].seen = Cold /\ requests[r].body = NoDelta
                       /\ requests[r].reply = "none"
  BY DEF Init, ServerInit, NoRequest
<1>4. /\ cache = Cold /\ delta = NoDelta /\ revision = 0 /\ poller.phase = "top"
      /\ store.rev = 0 /\ store.rows = Empty
  BY DEF Init, ServerInit, AtTop
<1>5. StoreTrue(history)
  BY <1>1, <1>4 DEF StoreTrue, Agrees
<1> HIDE DEF history
<1>6. Truthful(history)
  BY <1>1, <1>2, <1>3, <1>4, <1>5 DEF Truthful, ServerTrue, RequestTrue
<1>7. FullIsWhole /\ NobodyAhead
  BY <1>3, <1>4 DEF FullIsWhole, NobodyAhead, RequestPast, Past, Cold, NoDelta
<1> QED BY <1>1, <1>6, <1>7, TypeInit DEF ConsoleInv

LEMMA ConsoleInvStep ==
  ASSUME ~Restarts, ConsoleInv, [Next]_vars
  PROVE  ConsoleInv'
<1>1. TypeOK'
  BY TypeStep DEF ConsoleInv
<1>2. CASE PollerStep
  BY <1>1, <1>2, PollerTrue
<1>3. CASE (IdleElapses \/ Restart) /\ UNCHANGED consoleVars
  BY <1>1, <1>3, ElsewhereTrue DEF IdleElapses, Restart, consoleVars
<1>4. ASSUME NEW r \in Slots, ServeStep(r) PROVE ConsoleInv'
  BY <1>1, <1>4, ServeTrue
<1>5. ASSUME NEW r \in Slots, StartTick(r) PROVE ConsoleInv'
  BY <1>1, <1>5, ArriveTrue DEF StartTick, consoleVars
<1>6. ASSUME NEW r \in Slots, Take(r) PROVE ConsoleInv'
  BY <1>1, <1>6, TakeTrue
<1>7. ASSUME NEW r \in Slots, LoseAnswer(r) PROVE ConsoleInv'
  BY <1>1, <1>7, FinishedTrue DEF LoseAnswer, consoleVars
<1>8. ASSUME NEW h \in Hashes, NEW status \in Verbs, Ask(h, status) PROVE ConsoleInv'
  BY <1>1, <1>8, AskTrue
<1>9. ASSUME NEW h \in Hashes, CommandDone(h) PROVE ConsoleInv'
  <2>1. poller'.phase # "store" \/ poller' = poller
    BY <1>9 DEF CommandDone, ConsoleInv, TypeOK, ServerTypeOK
  <2> QED BY <1>1, <1>9, <2>1, ElsewhereTrue DEF CommandDone
<1>10. ASSUME NEW h \in Hashes, CommandRefused(h) \/ OverrideAges(h) PROVE ConsoleInv'
  BY <1>1, <1>10, ElsewhereTrue DEF CommandRefused, OverrideAges, serverVars
<1>11. CASE DaemonChanges
  BY <1>1, <1>11, ElsewhereTrue DEF DaemonChanges, serverVars, consoleVars
<1>12. CASE UNCHANGED vars
  BY <1>1, <1>12, ElsewhereTrue DEF vars, serverVars, consoleVars
<1> QED BY <1>2, <1>3, <1>4, <1>5, <1>6, <1>7, <1>8, <1>9, <1>10, <1>11, <1>12 DEF Next

LEMMA ConsoleInvImplies ==
  ASSUME ConsoleInv
  PROVE  SameRevisionSameTable
<1>1. PICK history \in [Revisions -> Tables] : Truthful(history)
  BY DEF ConsoleInv
<1>2. history[cache.rev] = cache.rows /\ Agrees(store.rows, history[store.rev], store.overlaid)
  BY <1>1 DEF Truthful, ServerTrue, StoreTrue
<1> QED BY <1>2 DEF SameRevisionSameTable, Agrees

\* While the server is not restarted, a console at its revision shows its table,
\* whatever the number of requests under way and the order of their answers.
THEOREM SameRevision ==
  ASSUME ~Restarts
  PROVE  Spec => []SameRevisionSameTable
<1>1. Init => ConsoleInv
  BY ConsoleInvInit
<1>2. ConsoleInv /\ [Next]_vars => ConsoleInv'
  BY ConsoleInvStep
<1>3. ConsoleInv => SameRevisionSameTable
  BY ConsoleInvImplies
<1> QED BY <1>1, <1>2, <1>3, PTL DEF Spec
=============================================================================
