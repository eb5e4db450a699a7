----------------------------- MODULE MoveProofs -----------------------------
(***************************************************************************)
(* Proofs of the safety of MoveOnComplete for every set of torrents, every *)
(* configuration, every command set and every set of faults.               *)
(*                                                                         *)
(* The invariant is built in three layers: the types together with the     *)
(* directions of the jobs (Typed), the control of ticks, handles and tasks *)
(* (ControlInv), and the journal in memory and on disk (JournalInv).       *)
(***************************************************************************)
EXTENDS MoveProperties, TLAPS

----------------------------------------------------------------------------
(* What the journal operations do to a set of entries. *)

WellKept(entries) ==
  /\ entries \subseteq MoveOps
  /\ IdsUnique(entries)
  /\ OneUnfinished(entries)

LEMMA MarkEntries ==
  ASSUME NEW J \in SUBSET MoveOps, NEW id, NEW s \in MoveStates
  PROVE  /\ Mark(J, id, s) \subseteq MoveOps
         /\ \A q \in Mark(J, id, s) : \E o \in J :
              /\ q.id = o.id
              /\ q.state = IF o.id = id THEN s ELSE o.state
              /\ q = IF o.id = id THEN [o EXCEPT !.state = s] ELSE o
BY DEF Mark, MoveOps

LEMMA MarkStates ==
  ASSUME NEW J \in SUBSET MoveOps, NEW id, NEW s \in MoveStates
  PROVE  \A q \in Mark(J, id, s) : \E o \in J :
           q.id = o.id /\ q.state = IF o.id = id THEN s ELSE o.state
BY MarkEntries

LEMMA MarkKeeps ==
  ASSUME NEW J, WellKept(J), NEW id, NEW s \in MoveStates,
         \A o \in J : o.id = id /\ s \in {"Pending", "InProgress", "Failed"}
                      => o.state \in {"Pending", "InProgress", "Failed"}
  PROVE  WellKept(Mark(J, id, s))
<1>1. J \in SUBSET MoveOps
  BY DEF WellKept
<1>2. Mark(J, id, s) \subseteq MoveOps
  BY <1>1, MarkEntries
<1>3. IdsUnique(Mark(J, id, s))
  <2>1. SUFFICES ASSUME NEW q \in Mark(J, id, s), NEW r \in Mark(J, id, s), q.id = r.id
                 PROVE  q = r
    BY DEF IdsUnique
  <2>2. PICK o \in J :
          /\ q.id = o.id
          /\ q.state = IF o.id = id THEN s ELSE o.state
          /\ q = IF o.id = id THEN [o EXCEPT !.state = s] ELSE o
    BY <1>1, MarkEntries
  <2>3. PICK n \in J :
          /\ r.id = n.id
          /\ r.state = IF n.id = id THEN s ELSE n.state
          /\ r = IF n.id = id THEN [n EXCEPT !.state = s] ELSE n
    BY <1>1, MarkEntries
  <2> QED
    BY <2>1, <2>2, <2>3 DEF WellKept, IdsUnique
<1>4. OneUnfinished(Mark(J, id, s))
  <2>1. SUFFICES ASSUME NEW q \in Unfinished(Mark(J, id, s)),
                        NEW r \in Unfinished(Mark(J, id, s)),
                        q.id[1] = r.id[1]
                 PROVE  q = r
    BY DEF OneUnfinished
  <2>2. PICK o \in J :
          /\ q.id = o.id
          /\ q.state = IF o.id = id THEN s ELSE o.state
          /\ q = IF o.id = id THEN [o EXCEPT !.state = s] ELSE o
    BY <1>1, MarkEntries DEF Unfinished
  <2>3. PICK p \in J :
          /\ r.id = p.id
          /\ r.state = IF p.id = id THEN s ELSE p.state
          /\ r = IF p.id = id THEN [p EXCEPT !.state = s] ELSE p
    BY <1>1, MarkEntries DEF Unfinished
  <2>4. o \in Unfinished(J) /\ p \in Unfinished(J)
    BY <2>2, <2>3 DEF Unfinished
  <2>5. o = p
    BY <2>1, <2>2, <2>3, <2>4 DEF WellKept, OneUnfinished
  <2> QED
    BY <2>2, <2>3, <2>5
<1> QED
  BY <1>2, <1>3, <1>4 DEF WellKept

LEMMA RedirectEntries ==
  ASSUME NEW J \in SUBSET MoveOps, NEW id, NEW p \in Paths
  PROVE  /\ Redirect(J, id, p) \subseteq MoveOps
         /\ \A q \in Redirect(J, id, p) : \E o \in J :
              /\ q.id = o.id
              /\ q.state = o.state
              /\ q = IF o.id = id THEN [o EXCEPT !.dst = p] ELSE o
BY DEF Redirect, MoveOps

LEMMA RedirectKeeps ==
  ASSUME NEW J, WellKept(J), NEW id, NEW p \in Paths
  PROVE  WellKept(Redirect(J, id, p))
<1>1. J \in SUBSET MoveOps
  BY DEF WellKept
<1>2. Redirect(J, id, p) \subseteq MoveOps
  BY <1>1, RedirectEntries
<1>3. IdsUnique(Redirect(J, id, p))
  <2>1. SUFFICES ASSUME NEW q \in Redirect(J, id, p), NEW r \in Redirect(J, id, p), q.id = r.id
                 PROVE  q = r
    BY DEF IdsUnique
  <2>2. PICK o \in J :
          /\ q.id = o.id
          /\ q.state = o.state
          /\ q = IF o.id = id THEN [o EXCEPT !.dst = p] ELSE o
    BY <1>1, RedirectEntries
  <2>3. PICK n \in J :
          /\ r.id = n.id
          /\ r.state = n.state
          /\ r = IF n.id = id THEN [n EXCEPT !.dst = p] ELSE n
    BY <1>1, RedirectEntries
  <2> QED
    BY <2>1, <2>2, <2>3 DEF WellKept, IdsUnique
<1>4. OneUnfinished(Redirect(J, id, p))
  <2>1. SUFFICES ASSUME NEW q \in Unfinished(Redirect(J, id, p)),
                        NEW r \in Unfinished(Redirect(J, id, p)),
                        q.id[1] = r.id[1]
                 PROVE  q = r
    BY DEF OneUnfinished
  <2>2. PICK o \in J : /\ q.id = o.id /\ q.state = o.state
                       /\ q = IF o.id = id THEN [o EXCEPT !.dst = p] ELSE o
    BY <1>1, RedirectEntries DEF Unfinished
  <2>3. PICK n \in J : /\ r.id = n.id /\ r.state = n.state
                       /\ r = IF n.id = id THEN [n EXCEPT !.dst = p] ELSE n
    BY <1>1, RedirectEntries DEF Unfinished
  <2>4. o \in Unfinished(J) /\ n \in Unfinished(J)
    BY <2>2, <2>3 DEF Unfinished
  <2>5. o = n
    BY <2>1, <2>2, <2>3, <2>4 DEF WellKept, OneUnfinished
  <2> QED
    BY <2>2, <2>3, <2>5
<1> QED
  BY <1>2, <1>3, <1>4 DEF WellKept

LEMMA AddKeeps ==
  ASSUME NEW J, WellKept(J), NEW op \in MoveOps,
         \A o \in J : o.id # op.id
  PROVE  /\ WellKept(Add(J, op))
         /\ \A q \in Add(J, op) : q \in J \/ q = op
<1>1. \A q \in Add(J, op) : q \in J \/ q = op
  BY DEF Add
<1>2. CASE op.id[1] \in HashesOf(Resumable(J))
  BY <1>1, <1>2 DEF Add
<1>3. CASE op.id[1] \notin HashesOf(Resumable(J))
  <2>1. \A o \in Unfinished(J) : o.id[1] # op.id[1]
    BY <1>3 DEF HashesOf, Resumable, IsResumable, Unfinished
  <2>2. OneUnfinished(Add(J, op))
    BY <1>1, <2>1 DEF OneUnfinished, Unfinished, WellKept
  <2>3. IdsUnique(Add(J, op))
    BY <1>1 DEF IdsUnique, WellKept
  <2> QED
    BY <1>1, <2>2, <2>3 DEF WellKept
<1> QED
  BY <1>2, <1>3

LEMMA FewerKeeps ==
  ASSUME NEW J, WellKept(J), NEW K \in SUBSET J
  PROVE  WellKept(K)
BY DEF WellKept, IdsUnique, OneUnfinished, Unfinished

----------------------------------------------------------------------------
(* Types, and the directions of the jobs. *)

Typed == TypeOK /\ JobsDirected

LEMMA MovesAreJobs ==
  /\ Moves \subseteq Jobs
  /\ Requests \subseteq Jobs
  /\ Moves \cap Requests = {}
  /\ \A j \in Jobs : j[1] \in Torrents
BY MaxMovesAssumption DEF Jobs, Moves, Requests, OpIds

LEMMA PlacesArePaths ==
  ASSUME NEW d \in Dirs, NEW t \in Torrents
  PROVE  Place(d, t) \in Paths
BY ConfigAssumption DEF Place

LEMMA DaemonTyped ==
  ASSUME daemon \in Rows, NEW t \in Torrents
  PROVE  /\ Started(t) \in Rows
         /\ Stopped(t) \in Rows
         /\ Erased(t) \in Rows
         /\ \A d \in Dirs : /\ Pointed(t, d) \in Rows
                           /\ [Pointed(t, d) EXCEPT !.finalDir[t] = NoDir] \in Rows
         /\ \A ts : Settled(ts) \in Rows
<1>1. Started(t) \in Rows /\ Stopped(t) \in Rows /\ Erased(t) \in Rows
  BY DEF Rows, Started, Stopped, Erased
<1>2. ASSUME NEW d \in Dirs
      PROVE  Pointed(t, d) \in Rows
  BY DEF Rows, Pointed
<1>3. ASSUME NEW d \in Dirs
      PROVE  [Pointed(t, d) EXCEPT !.finalDir[t] = NoDir] \in Rows
  BY <1>2 DEF Rows
<1>4. ASSUME NEW ts
      PROVE  Settled(ts) \in Rows
  BY DEF Rows, Settled
<1> QED
  BY <1>1, <1>2, <1>3, <1>4

LEMMA JournalTyped ==
  ASSUME NEW J \in SUBSET MoveOps, journalFile \subseteq MoveOps, Journal(J)
  PROVE  journal' \subseteq MoveOps /\ journalFile' \subseteq MoveOps
BY DEF Journal

LEMMA FieldsOfGoto ==
  ASSUME job \in [Jobs -> JobRecords], NEW j \in Jobs, NEW pc \in Pcs, Goto(j, pc)
  PROVE  job' \in [Jobs -> JobRecords] /\ job'[j].pc = pc
BY DEF Goto, JobRecords

LEMMA FieldsOfEnd ==
  ASSUME job \in [Jobs -> JobRecords], NEW j \in Jobs, End(j)
  PROVE  /\ job' \in [Jobs -> JobRecords]
         /\ job'[j] = Idle
         /\ \A k \in Jobs : k # j => job'[k] = job[k]
BY DEF End, JobRecords, Idle, Pcs

LEMMA GotoDirected ==
  ASSUME Typed, NEW j \in Jobs, Working(j), NEW pc \in Pcs, pc # "idle",
         pc \in CopyPcs => job[j].from # NoDir,
         Goto(j, pc)
  PROVE  job' \in [Jobs -> JobRecords] /\ JobsDirected'
<1>1. job \in [Jobs -> JobRecords]
  BY DEF Typed, TypeOK
<1>2. job' \in [Jobs -> JobRecords] /\ job'[j].pc = pc
  BY <1>1, FieldsOfGoto
<1>3. ASSUME NEW k \in Jobs
      PROVE  /\ job'[k].from = job[k].from
             /\ job'[k].to = job[k].to
             /\ k # j => job'[k] = job[k]
  BY <1>1 DEF Goto, JobRecords
<1>4. ASSUME NEW k \in Jobs, k # j
      PROVE  job'[k] = job[k]
  BY <1>3, <1>4
<1>5. ASSUME NEW k \in Jobs
      PROVE  /\ job'[k].pc # "idle" => job'[k].to \in Dirs
             /\ job'[k].from = NoDir =>
                  job'[k].pc \notin CopyPcs /\ (k \in Moves => job'[k].pc = "idle")
  <2>1. CASE k = j
    BY <1>2, <1>3, <2>1 DEF Typed, JobsDirected, Working
  <2>2. CASE k # j
    BY <1>4, <2>2 DEF Typed, JobsDirected, Working
  <2> QED
    BY <2>1, <2>2
<1> QED
  BY <1>2, <1>5 DEF JobsDirected, Working

LEMMA EndDirected ==
  ASSUME Typed, NEW j \in Jobs, End(j)
  PROVE  job' \in [Jobs -> JobRecords] /\ JobsDirected'
BY FieldsOfEnd DEF Typed, TypeOK, JobsDirected, Working, Idle, CopyPcs

LEMMA SameJobsDirected ==
  ASSUME Typed, UNCHANGED job
  PROVE  job' \in [Jobs -> JobRecords] /\ JobsDirected'
BY DEF Typed, TypeOK, JobsDirected, Working

LEMMA FinishTyped ==
  ASSUME Typed, NEW i \in Moves, Working(i), NEW s \in MoveStates, Finish(i, s)
  PROVE  /\ job' \in [Jobs -> JobRecords] /\ JobsDirected'
         /\ journal' \subseteq MoveOps /\ journalFile' \subseteq MoveOps
<1>1. Mark(journal, i, s) \in SUBSET MoveOps
  BY MarkEntries DEF Typed, TypeOK
<1>2. journal' \subseteq MoveOps /\ journalFile' \subseteq MoveOps
  BY <1>1, JournalTyped DEF Typed, TypeOK, Finish
<1>3. job' \in [Jobs -> JobRecords] /\ JobsDirected'
  BY GotoDirected, MovesAreJobs DEF Finish, Pcs, CopyPcs
<1> QED
  BY <1>2, <1>3

LEMMA InitTyped == Init => Typed
<1> SUFFICES ASSUME Init PROVE Typed
  OBVIOUS
<1> USE DEF Init
<1>1. daemon \in Rows /\ raw \in Rows
  BY ConfigAssumption DEF Rows, NoRows
<1>2. disk \in [Paths -> Contents]
  <2>1. ASSUME NEW p \in Paths
        PROVE  (IF p \in Squatted THEN DataOf(Foreign)
                ELSE IF \E t \in Torrents : p = Place(StartDir[t], t)
                THEN PartOf(CHOOSE t \in Torrents : p = Place(StartDir[t], t))
                ELSE NoData) \in Contents
    <3>1. CASE p \in Squatted
      BY <3>1 DEF Contents, DataOf
    <3>2. CASE p \notin Squatted /\ \E t \in Torrents : p = Place(StartDir[t], t)
      <4> DEFINE owner == CHOOSE t \in Torrents : p = Place(StartDir[t], t)
      <4>1. owner \in Torrents
        BY <3>2
      <4> QED
        BY <3>2, <4>1 DEF Contents, PartOf
    <3>3. CASE p \notin Squatted /\ ~\E t \in Torrents : p = Place(StartDir[t], t)
      BY <3>3 DEF Contents, NoData
    <3> QED
      BY <3>1, <3>2, <3>3
  <2> QED
    BY <2>1
<1>3. job \in [Jobs -> JobRecords]
  BY DEF JobRecords, Idle, Pcs
<1>4. /\ journal \subseteq MoveOps /\ journalFile \subseteq MoveOps
      /\ handles \subseteq OpIds /\ cancelled \subseteq OpIds
      /\ phase \in Phases /\ todo \subseteq MoveOps /\ recovered \in BOOLEAN
      /\ crashes \in 0..MaxCrashes /\ trashed \subseteq Torrents
  <2>1. MaxCrashes \in Nat
    BY ConfigAssumption
  <2>2. crashes \in 0..MaxCrashes
    BY <2>1
  <2> QED
    BY <2>2 DEF Phases
<1>5. JobsDirected
  BY DEF JobsDirected, Working, Idle, CopyPcs
<1> QED
  BY <1>1, <1>2, <1>3, <1>4, <1>5 DEF Typed, TypeOK

LEMMA NextIdIsFree ==
  ASSUME NEW t \in Torrents, FreeSlots(t) # {}
  PROVE  /\ NextId(t) \in Moves /\ NextId(t)[1] = t
         /\ job[NextId(t)] = Idle /\ NextId(t) \notin handles
         /\ \A o \in journal \cup journalFile : o.id # NextId(t)
<1>1. PICK n \in FreeSlots(t) : NextId(t) = <<t, n>>
  BY DEF NextId
<1>2. /\ n \in 1..MaxMoves
      /\ job[<<t, n>>] = Idle /\ <<t, n>> \notin handles
      /\ \A o \in journal \cup journalFile : o.id # <<t, n>>
  BY DEF FreeSlots
<1> QED
  BY <1>1, <1>2 DEF Moves, OpIds

LEMMA TickTyped == ASSUME Typed, Tick PROVE Typed'
<1>1. TypeOK /\ JobsDirected
  BY DEF Typed
<1>2. CASE Fetch
  BY <1>1, <1>2, SameJobsDirected DEF Fetch, TypeOK, Typed, storeVars, envVars, Phases
<1>3. CASE ResumeMoves
  <2>1. journal' \subseteq MoveOps /\ journalFile' \subseteq MoveOps /\ todo' \subseteq MoveOps
    <3>1. PruneUnknown(journal, raw.live) \subseteq MoveOps
      BY <1>1 DEF PruneUnknown, TypeOK
    <3> QED
      BY <1>1, <1>3, <3>1, JournalTyped DEF ResumeMoves, TypeOK
  <2> QED
    BY <1>1, <1>3, <2>1, SameJobsDirected DEF ResumeMoves, TypeOK, Typed, envVars, Phases
<1>4. CASE \E o \in todo : RecoverLanded(o) \/ RecoverOrphan(o) \/ RecoverAbsent(o)
  <2>1. PICK o \in todo : RecoverLanded(o) \/ RecoverOrphan(o) \/ RecoverAbsent(o)
    BY <1>4
  <2>2. o \in MoveOps /\ o.id[1] \in Torrents /\ o.dst[1] \in Dirs
    BY <1>1, ConfigAssumption DEF TypeOK, MoveOps, OpIds
  <2>3. \A s \in MoveStates : Mark(journal, o.id, s) \in SUBSET MoveOps
    BY <1>1, MarkEntries DEF TypeOK
  <2>4. /\ journal' \subseteq MoveOps /\ journalFile' \subseteq MoveOps
        /\ todo' \subseteq MoveOps
    BY <1>1, <2>1, <2>3, JournalTyped
       DEF TypeOK, MoveStates, RecoverLanded, RecoverOrphan, RecoverAbsent
  <2>5. daemon' \in Rows
    <3> DEFINE pointed == Pointed(o.id[1], o.dst[1])
               cleared == [pointed EXCEPT !.finalDir[o.id[1]] = NoDir]
    <3>1. daemon \in Rows /\ pointed \in Rows /\ cleared \in Rows
      BY <1>1, <2>2, DaemonTyped DEF TypeOK
    <3>2. CASE RecoverLanded(o)
      <4>1. daemon' \in {daemon, pointed, cleared}
        BY <3>2 DEF RecoverLanded, Accepted, Refused
      <4> QED
        BY <3>1, <4>1
    <3>3. CASE RecoverOrphan(o) \/ RecoverAbsent(o)
      <4>1. daemon' = daemon
        BY <3>3 DEF RecoverOrphan, RecoverAbsent
      <4> QED
        BY <3>1, <4>1
    <3> QED
      BY <2>1, <3>2, <3>3
  <2>6. UNCHANGED <<disk, handles, cancelled, job, phase, raw, recovered, crashes, trashed>>
    BY <2>1 DEF RecoverLanded, RecoverOrphan, RecoverAbsent, envVars
  <2> QED
    BY <1>1, <2>4, <2>5, <2>6, SameJobsDirected DEF TypeOK, Typed
<1>5. CASE PruneJournal
  <2>1. PruneDone(PruneUnknown(journal, raw.live)) \in SUBSET MoveOps
    BY <1>1 DEF PruneDone, PruneUnknown, TypeOK
  <2>2. journal' \subseteq MoveOps /\ journalFile' \subseteq MoveOps
    BY <1>1, <1>5, <2>1, JournalTyped DEF PruneJournal, TypeOK
  <2> QED
    BY <1>1, <1>5, <2>2, SameJobsDirected DEF PruneJournal, TypeOK, Typed, envVars, Phases
<1>6. CASE SettleHomed
  <2>1. \A ts : Settled(ts) \in Rows
    BY <1>1 DEF TypeOK, Rows, Settled
  <2> QED
    BY <1>1, <1>6, <2>1, SameJobsDirected
       DEF SettleHomed, TypeOK, Typed, storeVars, envVars, Phases
<1>7. CASE PlanMoves
  <2> DEFINE planned == {u \in DecideMoves(raw, BusyHashes) : FreeSlots(u) # {}}
             ids == {NextId(t) : t \in planned}
  <2>1. /\ handles' = handles \cup ids
        /\ job' = [j \in Jobs |->
                     IF j \in ids
                     THEN [pc |-> "begin", from |-> raw.dir[j[1]],
                           to |-> Destination(j[1], raw.finalDir[j[1]]),
                           was |-> j[1] \in raw.active]
                     ELSE job[j]]
    BY <1>7 DEF PlanMoves
  <2>2. \A i \in ids : i \in Moves /\ i[1] \in planned
    <3>1. DecideMoves(raw, BusyHashes) \in SUBSET Torrents
      BY <1>1 DEF DecideMoves, TypeOK, Rows
    <3> QED
      BY <3>1, NextIdIsFree
  <2>3. ASSUME NEW t \in planned
        PROVE  /\ t \in Torrents /\ raw.dir[t] \in Dirs
               /\ Destination(t, raw.finalDir[t]) \in Dirs
    BY <1>1, ConfigAssumption DEF TypeOK, Rows, DecideMoves, HasPlan, Destination
  <2>4. ASSUME NEW j \in ids
        PROVE  /\ job'[j] \in JobRecords /\ job'[j].from \in Dirs
               /\ job'[j].to \in Dirs /\ job'[j].pc = "begin"
    BY <2>1, <2>2, <2>3, MovesAreJobs DEF JobRecords, Pcs
  <2>5. \A j \in Jobs \ ids : job'[j] = job[j]
    BY <2>1
  <2>6. job' \in [Jobs -> JobRecords]
    BY <1>1, <2>1, <2>4, <2>5 DEF TypeOK
  <2>7. JobsDirected'
    BY <1>1, <2>4, <2>5, ConfigAssumption DEF JobsDirected, Working, CopyPcs
  <2>8. handles' \subseteq OpIds
    BY <1>1, <2>1, <2>2 DEF TypeOK, Moves
  <2> QED
    BY <1>1, <1>7, <2>6, <2>7, <2>8 DEF PlanMoves, TypeOK, Typed, envVars, Phases
<1>8. CASE RunQueue
  <2>1. daemon' \in Rows
    BY <1>1, <1>8 DEF RunQueue, TypeOK, Rows
  <2>2. NoRows \in Rows
    BY ConfigAssumption DEF NoRows, Rows
  <2> QED
    BY <1>1, <1>8, <2>1, <2>2, SameJobsDirected
       DEF RunQueue, TypeOK, Typed, storeVars, envVars, Phases
<1> QED
  BY <1>2, <1>3, <1>4, <1>5, <1>6, <1>7, <1>8 DEF Tick

\* The goals below: a step that leaves everything but the daemon, the disk
\* and one job alone.
LEMMA GotoTyped ==
  ASSUME Typed, NEW j \in Jobs, Working(j), NEW pc \in Pcs, pc # "idle",
         pc \in CopyPcs => job[j].from # NoDir,
         Goto(j, pc),
         daemon' \in Rows, disk' \in [Paths -> Contents],
         UNCHANGED <<storeVars, pollVars, envVars>>
  PROVE  Typed'
BY GotoDirected DEF Typed, TypeOK, storeVars, pollVars, envVars

LEMMA EndTyped ==
  ASSUME Typed, NEW j \in Jobs, End(j),
         daemon' \in Rows, disk' \in [Paths -> Contents],
         UNCHANGED <<storeVars, pollVars, envVars>>
  PROVE  Typed'
BY EndDirected DEF Typed, TypeOK, storeVars, pollVars, envVars

LEMMA JobPlaces ==
  ASSUME Typed, NEW j \in Jobs, job[j].pc \in CopyPcs
  PROVE  /\ Working(j) /\ job[j].from # NoDir
         /\ Source(j) \in Paths /\ Target(j) \in Paths
<1>1. Working(j) /\ job[j].from # NoDir
  BY DEF Typed, JobsDirected, Working, CopyPcs
<1>2. job[j].from \in Dirs /\ job[j].to \in Dirs
  BY <1>1 DEF Typed, TypeOK, JobsDirected, JobRecords
<1> QED
  BY <1>1, <1>2, PlacesArePaths, MovesAreJobs DEF Source, Target

LEMMA CopyStepTyped ==
  ASSUME Typed, NEW j \in Jobs, CopyStep(j)
  PROVE  Typed'
<1>1. /\ job[j].pc \in CopyPcs
      /\ daemon' = daemon
      /\ UNCHANGED <<storeVars, pollVars, envVars>>
  BY DEF CopyStep, CopyPcs, CheckPaths, Rename, OpenCopy, PlaceFails, VerifyCopy,
         CancelCopy, CopyFails, EraseSource, EraseFails
<1>2. /\ Working(j) /\ job[j].from # NoDir
      /\ Source(j) \in Paths /\ Target(j) \in Paths
  BY <1>1, JobPlaces
<1>3. \E pc \in Pcs \ {"idle"} : Goto(j, pc)
  BY DEF CopyStep, Pcs, CopyPcs, CheckPaths, Rename, OpenCopy, PlaceFails, VerifyCopy,
         CancelCopy, CopyFails, EraseSource, EraseFails
<1>4. disk \in [Paths -> Contents] /\ daemon \in Rows
  BY DEF Typed, TypeOK
<1>5. NoData \in Contents /\ \A c \in Contents : /\ PartOf(c.of) \in Contents
                                              /\ [c EXCEPT !.whole = FALSE] \in Contents
  BY DEF Contents, NoData, PartOf
<1>6. disk' \in [Paths -> Contents]
  <2>1. CASE CheckPaths(j) \/ PlaceFails(j)
    BY <1>4, <2>1 DEF CheckPaths, PlaceFails
  <2>2. CASE Rename(j) \/ VerifyCopy(j) \/ EraseSource(j)
    BY <1>2, <1>4, <1>5, <2>2 DEF Rename, VerifyCopy, EraseSource
  <2>3. CASE OpenCopy(j)
    BY <1>2, <1>4, <1>5, <2>3 DEF OpenCopy
  <2>4. CASE CancelCopy(j) \/ CopyFails(j)
    BY <1>2, <1>4, <1>5, <2>4 DEF CancelCopy, CopyFails
  <2>5. CASE EraseFails(j)
    BY <1>2, <1>4, <1>5, <2>5 DEF EraseFails
  <2> QED
    BY <2>1, <2>2, <2>3, <2>4, <2>5 DEF CopyStep
<1> QED
  BY <1>1, <1>2, <1>3, <1>4, <1>6, GotoTyped

LEMMA MoveStepTyped ==
  ASSUME Typed, NEW i \in Moves, MoveStep(i)
  PROVE  Typed'
<1>1. TypeOK /\ JobsDirected /\ i \in Jobs /\ i[1] \in Torrents
  BY MovesAreJobs DEF Typed
<1>2. Working(i) /\ job[i].to \in Dirs /\ job[i].from # NoDir
  <2>1. Working(i)
    BY DEF MoveStep, CopyStep, Working, Begin, Gate, ReadActive, StopTorrent,
           MarkInProgress, CheckPaths, Rename, OpenCopy, PlaceFails, VerifyCopy,
           CancelCopy, CopyFails, EraseSource, EraseFails, RestartInPlace, EndInPlace,
           PointDaemon, ClearIntent, RestartHome, EndDone, Unregister
  <2> QED
    BY <1>1, <2>1 DEF JobsDirected
<1>3. /\ disk \in [Paths -> Contents] /\ daemon \in Rows
      /\ journal \in SUBSET MoveOps /\ journalFile \subseteq MoveOps
  BY <1>1 DEF TypeOK
<1>4. /\ Started(i[1]) \in Rows /\ Stopped(i[1]) \in Rows
      /\ \A d \in Dirs : Pointed(i[1], d) \in Rows
      /\ \A ts : Settled(ts) \in Rows
  BY <1>1, <1>3, DaemonTyped
<1>5. ASSUME NEW s \in MoveStates, Finish(i, s), daemon' \in Rows,
             UNCHANGED <<disk, handles, cancelled, pollVars, envVars>>
      PROVE  Typed'
  <2>1. /\ job' \in [Jobs -> JobRecords] /\ JobsDirected'
        /\ journal' \subseteq MoveOps /\ journalFile' \subseteq MoveOps
    BY <1>2, <1>5, FinishTyped
  <2> QED
    BY <1>1, <1>5, <2>1 DEF Typed, TypeOK, pollVars, envVars
<1>6. CASE Begin(i)
  <2>1. CASE i[1] \in HashesOf(Resumable(journal))
    <3>1. job' \in [Jobs -> JobRecords] /\ JobsDirected'
      BY <1>1, <1>6, <2>1, EndDirected DEF Begin
    <3> QED
      BY <1>1, <1>6, <2>1, <3>1 DEF Begin, Typed, TypeOK, pollVars, envVars
  <2>2. CASE i[1] \notin HashesOf(Resumable(journal))
    <3> DEFINE op == [id |-> i, state |-> "Pending", dst |-> Place(job[i].to, i[1])]
    <3>1. op \in MoveOps
      BY <1>1, <1>2, PlacesArePaths DEF MoveOps, Moves, MoveStates
    <3>2. Add(journal, op) \in SUBSET MoveOps
      BY <1>3, <3>1 DEF Add
    <3>3. Journal(Add(journal, op)) /\ Goto(i, "gate")
      BY <1>6, <2>2 DEF Begin
    <3>4. journal' \subseteq MoveOps /\ journalFile' \subseteq MoveOps
      BY <1>3, <3>2, <3>3, JournalTyped
    <3>5. job' \in [Jobs -> JobRecords] /\ JobsDirected'
      BY <1>1, <1>2, <3>3, GotoDirected DEF Pcs, CopyPcs
    <3> QED
      BY <1>1, <1>6, <2>2, <3>4, <3>5 DEF Begin, Typed, TypeOK, pollVars, envVars
  <2> QED
    BY <2>1, <2>2
<1>7. CASE Gate(i)
  <2>1. CASE Finish(i, "Failed")
    BY <1>3, <1>5, <1>7, <2>1 DEF Gate, MoveStates
  <2>2. CASE ~Finish(i, "Failed")
    <3>1. PICK n \in FreeSuffixes(i) :
            Journal(Redirect(journal, i, <<job[i].to, NameOf[i[1]], n>>))
      BY <1>7, <2>2 DEF Gate
    <3>2. <<job[i].to, NameOf[i[1]], n>> \in Paths
      BY <1>1, <1>2, ConfigAssumption DEF FreeSuffixes
    <3>3. Redirect(journal, i, <<job[i].to, NameOf[i[1]], n>>) \in SUBSET MoveOps
      BY <1>3, <3>2, RedirectEntries
    <3>4. journal' \subseteq MoveOps /\ journalFile' \subseteq MoveOps
      BY <1>3, <3>1, <3>3, JournalTyped
    <3>5. job' \in [Jobs -> JobRecords] /\ JobsDirected'
      BY <1>1, <1>2, <1>7, <2>2, GotoDirected DEF Gate, Pcs, CopyPcs
    <3> QED
      BY <1>1, <1>7, <3>4, <3>5 DEF Gate, Typed, TypeOK, pollVars, envVars
  <2> QED
    BY <2>1, <2>2
<1>8. CASE ReadActive(i)
  <2>1. PICK active \in BOOLEAN :
          job' = [job EXCEPT ![i].was = active,
                             ![i].pc = IF active THEN "stop" ELSE "mark"]
    BY <1>8 DEF ReadActive
  <2>2. active \in BOOLEAN
    OBVIOUS
  <2>3. job' \in [Jobs -> JobRecords]
    <3>1. /\ job[i] \in JobRecords /\ job \in [Jobs -> JobRecords]
          /\ "stop" \in Pcs /\ "mark" \in Pcs
      BY <1>1 DEF TypeOK, Pcs
    <3>2. ASSUME NEW pc \in Pcs
          PROVE  [job[i] EXCEPT !.was = active, !.pc = pc] \in JobRecords
      BY <3>1, <2>2 DEF JobRecords
    <3>3. job' = [job EXCEPT ![i] = [job[i] EXCEPT !.was = active,
                                                   !.pc = IF active THEN "stop" ELSE "mark"]]
      BY <2>1, <3>1
    <3> QED
      BY <3>1, <3>2, <3>3
  <2>4. ASSUME NEW k \in Jobs
        PROVE  /\ job'[k].from = job[k].from /\ job'[k].to = job[k].to
               /\ k # i => job'[k].pc = job[k].pc
               /\ k = i => job'[k].pc \in {"stop", "mark"}
    BY <1>1, <2>1, <2>2 DEF TypeOK, JobRecords
  <2>5. JobsDirected'
    BY <1>1, <1>2, <2>4 DEF JobsDirected, Working, CopyPcs
  <2> QED
    BY <1>1, <1>8, <2>3, <2>5 DEF ReadActive, Typed, TypeOK, storeVars, pollVars, envVars
<1>9. CASE StopTorrent(i)
  <2>1. daemon' \in Rows
    BY <1>3, <1>4, <1>9 DEF StopTorrent, Accepted, Refused
  <2>2. CASE Finish(i, "Failed")
    BY <1>5, <1>9, <2>1, <2>2 DEF StopTorrent, MoveStates
  <2>3. CASE ~Finish(i, "Failed")
    BY <1>1, <1>2, <1>3, <1>9, <2>1, <2>3, GotoTyped
       DEF StopTorrent, Pcs, CopyPcs, storeVars
  <2> QED
    BY <2>2, <2>3
<1>10. CASE MarkInProgress(i)
  <2>1. Mark(journal, i, "InProgress") \in SUBSET MoveOps
    BY <1>3, MarkEntries DEF MoveStates
  <2>2. journal' \subseteq MoveOps /\ journalFile' \subseteq MoveOps
    BY <1>3, <1>10, <2>1, JournalTyped DEF MarkInProgress
  <2>3. job' \in [Jobs -> JobRecords] /\ JobsDirected'
    BY <1>1, <1>2, <1>10, GotoDirected DEF MarkInProgress, Pcs, CopyPcs
  <2> QED
    BY <1>1, <1>10, <2>2, <2>3 DEF MarkInProgress, Typed, TypeOK, pollVars, envVars
<1>11. CASE CopyStep(i)
  BY <1>1, <1>11, CopyStepTyped
<1>12. CASE RestartInPlace(i)
  <2>1. daemon' \in Rows
    BY <1>3, <1>4, <1>12 DEF RestartInPlace, BestEffort
  <2> QED
    BY <1>1, <1>2, <1>3, <1>12, <2>1, GotoTyped DEF RestartInPlace, Pcs, CopyPcs
<1>13. CASE EndInPlace(i)
  BY <1>3, <1>5, <1>13 DEF EndInPlace, MoveStates
<1>14. CASE PointDaemon(i)
  <2>1. daemon' \in Rows
    BY <1>2, <1>3, <1>4, <1>14 DEF PointDaemon, Accepted, Refused
  <2>2. CASE Finish(i, "Failed")
    BY <1>5, <1>14, <2>1, <2>2 DEF PointDaemon, MoveStates
  <2>3. CASE ~Finish(i, "Failed")
    BY <1>1, <1>2, <1>3, <1>14, <2>1, <2>3, GotoTyped
       DEF PointDaemon, Pcs, CopyPcs, storeVars
  <2> QED
    BY <2>2, <2>3
<1>15. CASE ClearIntent(i)
  <2>1. daemon' \in Rows
    BY <1>3, <1>4, <1>15 DEF ClearIntent, BestEffort
  <2> QED
    BY <1>1, <1>2, <1>3, <1>15, <2>1, GotoTyped DEF ClearIntent, Pcs, CopyPcs
<1>16. CASE RestartHome(i)
  <2>1. daemon' \in Rows
    BY <1>3, <1>4, <1>16 DEF RestartHome, BestEffort
  <2> QED
    BY <1>1, <1>2, <1>3, <1>16, <2>1, GotoTyped DEF RestartHome, Pcs, CopyPcs
<1>17. CASE EndDone(i)
  BY <1>3, <1>5, <1>17 DEF EndDone, MoveStates
<1>18. CASE Unregister(i)
  <2>1. job' \in [Jobs -> JobRecords] /\ JobsDirected'
    BY <1>1, <1>18, EndDirected DEF Unregister
  <2> QED
    BY <1>1, <1>18, <2>1 DEF Unregister, Typed, TypeOK, pollVars, envVars
<1> QED
  BY <1>6, <1>7, <1>8, <1>9, <1>10, <1>11, <1>12, <1>13, <1>14, <1>15, <1>16, <1>17,
     <1>18 DEF MoveStep

LEMMA RequestStepTyped ==
  ASSUME Typed, NEW r \in Requests, RequestStep(r)
  PROVE  Typed'
<1>1. TypeOK /\ JobsDirected /\ r \in Jobs /\ r[1] \in Torrents
  BY MovesAreJobs DEF Typed
<1>2. Working(r) /\ job[r].to \in Dirs
  <2>1. Working(r)
    BY DEF RequestStep, CopyStep, Working, StopForLocation, RestartAfterRequest,
           PointForLocation, ClearForLocation, RestartForLocation, EraseForTrash,
           TrashData, CheckPaths, Rename, OpenCopy, PlaceFails, VerifyCopy, CancelCopy, CopyFails, EraseSource, EraseFails
  <2> QED
    BY <1>1, <2>1 DEF JobsDirected
<1>3. disk \in [Paths -> Contents] /\ daemon \in Rows
  BY <1>1 DEF TypeOK
<1>4. /\ Started(r[1]) \in Rows /\ Stopped(r[1]) \in Rows
      /\ Erased(r[1]) \in Rows
      /\ \A d \in Dirs : Pointed(r[1], d) \in Rows
      /\ \A ts : Settled(ts) \in Rows
  BY <1>1, <1>3, DaemonTyped
<1>5. CASE CopyStep(r)
  BY <1>1, <1>5, CopyStepTyped
<1>6. CASE TrashData(r)
  <2>1. disk' \in [Paths -> Contents]
    <3>1. NoData \in Contents
      BY DEF Contents, NoData
    <3>2. disk' = [disk EXCEPT ![Target(r)] = NoData] \/ disk' = disk
      BY <1>6 DEF TrashData
    <3> QED
      BY <1>3, <3>1, <3>2
  <2>2. trashed' \subseteq Torrents
    BY <1>1, <1>6 DEF TrashData, TypeOK
  <2>3. job' \in [Jobs -> JobRecords] /\ JobsDirected'
    BY <1>1, <1>6, EndDirected DEF TrashData
  <2> QED
    BY <1>1, <1>6, <2>1, <2>2, <2>3 DEF TrashData, Typed, TypeOK, storeVars, pollVars
<1>7. CASE ~CopyStep(r) /\ ~TrashData(r)
  <2>1. daemon' \in Rows
    BY <1>2, <1>3, <1>4, <1>7
       DEF RequestStep, StopForLocation, RestartAfterRequest, PointForLocation,
           ClearForLocation, RestartForLocation, EraseForTrash, BestEffort, Accepted, Refused
  <2>2. UNCHANGED <<disk, storeVars, pollVars, envVars>>
    BY <1>7 DEF RequestStep, StopForLocation, RestartAfterRequest, PointForLocation,
                ClearForLocation, RestartForLocation, EraseForTrash
  <2>3. \/ End(r)
        \/ \E pc \in Pcs \ {"idle"} :
             Goto(r, pc) /\ (pc \in CopyPcs => job[r].from # NoDir)
    BY <1>7 DEF RequestStep, StopForLocation, RestartAfterRequest, PointForLocation,
                ClearForLocation, RestartForLocation, EraseForTrash, Pcs, CopyPcs
  <2> QED
    BY <1>1, <1>2, <1>3, <2>1, <2>2, <2>3, GotoTyped, EndTyped
<1> QED
  BY <1>5, <1>6, <1>7

LEMMA AskTyped ==
  ASSUME Typed, NEW t \in Torrents, NEW d \in Dirs, AskLocation(t, d)
  PROVE  Typed'
<1>1. TypeOK /\ JobsDirected /\ <<t, 0>> \in Jobs /\ <<t, 0>> \notin Moves
  BY MaxMovesAssumption DEF Typed, Jobs, Requests, Moves, OpIds
<1>2. PICK from \in {daemon.dir[t], NoDir} :
        job' = [job EXCEPT ![<<t, 0>>] =
                 [pc |-> IF t \in daemon.active THEN "stop"
                         ELSE IF from # NoDir THEN "check" ELSE "pointer",
                  from |-> from, to |-> d, was |-> t \in daemon.active]]
  BY DEF AskLocation
<1>3. from \in Dirs \cup {NoDir}
  BY <1>1, <1>2 DEF TypeOK, Rows
<1>4. [pc |-> IF t \in daemon.active THEN "stop"
              ELSE IF from # NoDir THEN "check" ELSE "pointer",
       from |-> from, to |-> d, was |-> t \in daemon.active] \in JobRecords
  BY <1>3 DEF JobRecords, Pcs, CopyPcs
<1>5. job' \in [Jobs -> JobRecords]
  BY <1>1, <1>2, <1>4 DEF TypeOK
<1>6. /\ job'[<<t, 0>>].to \in Dirs
      /\ job'[<<t, 0>>].from = NoDir => job'[<<t, 0>>].pc \in {"stop", "pointer"}
      /\ \A k \in Jobs : k # <<t, 0>> => job'[k] = job[k]
  BY <1>1, <1>2 DEF TypeOK
<1>7. JobsDirected'
  BY <1>1, <1>6 DEF JobsDirected, Working, CopyPcs
<1> QED
  BY <1>1, <1>5, <1>7 DEF AskLocation, Typed, TypeOK, storeVars, pollVars, envVars

LEMMA AskTrashTyped ==
  ASSUME Typed, NEW t \in Torrents, AskTrash(t)
  PROVE  Typed'
<1>1. TypeOK /\ JobsDirected /\ <<t, 0>> \in Jobs /\ <<t, 0>> \notin Moves
  BY MaxMovesAssumption DEF Typed, Jobs, Requests, Moves, OpIds
<1>2. [pc |-> "remove", from |-> NoDir, to |-> daemon.dir[t], was |-> FALSE] \in JobRecords
  BY <1>1 DEF TypeOK, Rows, JobRecords, Pcs
<1>3. job' \in [Jobs -> JobRecords]
  BY <1>1, <1>2 DEF AskTrash, TypeOK
<1>4. /\ job'[<<t, 0>>].to \in Dirs /\ job'[<<t, 0>>].pc = "remove"
      /\ \A k \in Jobs : k # <<t, 0>> => job'[k] = job[k]
  BY <1>1 DEF AskTrash, TypeOK, Rows
<1>5. JobsDirected'
  BY <1>1, <1>4 DEF JobsDirected, Working, CopyPcs
<1> QED
  BY <1>1, <1>3, <1>5 DEF AskTrash, Typed, TypeOK, storeVars, pollVars, envVars

LEMMA OperatorTyped ==
  ASSUME Typed, NEW t \in Torrents,
         \/ StartCommand(t) \/ StopCommand(t) \/ RetryMove(t) \/ RemoveTorrent(t)
         \/ CompleteDownload(t)
  PROVE  Typed'
<1>1. TypeOK
  BY DEF Typed
<1>2. job' \in [Jobs -> JobRecords] /\ JobsDirected'
  BY SameJobsDirected
     DEF StartCommand, StopCommand, RetryMove, RemoveTorrent, CompleteDownload
<1>3. daemon' \in Rows
  <2>1. daemon \in Rows /\ Started(t) \in Rows /\ Stopped(t) \in Rows
    BY <1>1, DaemonTyped DEF TypeOK
  <2>2. Erased(t) \in Rows
    BY <2>1, DaemonTyped
  <2>3. [daemon EXCEPT !.complete = @ \cup {t}] \in Rows
    BY <2>1 DEF Rows
  <2> QED
    BY <2>1, <2>2, <2>3
       DEF StartCommand, StopCommand, RetryMove, RemoveTorrent, CompleteDownload
<1>4. disk' \in [Paths -> Contents]
  <2>1. disk \in [Paths -> Contents] /\ NoData \in Contents /\ DataOf(t) \in Contents
    BY <1>1 DEF TypeOK, Contents, NoData, DataOf
  <2> QED
    BY <2>1 DEF StartCommand, StopCommand, RetryMove, RemoveTorrent, CompleteDownload
<1>5. journal' \subseteq MoveOps /\ journalFile' \subseteq MoveOps
  <2>1. Retry(journal, t) \in SUBSET MoveOps
    BY <1>1 DEF TypeOK, Retry
  <2>2. Journal(Retry(journal, t)) => journal' \subseteq MoveOps /\ journalFile' \subseteq MoveOps
    BY <1>1, <2>1, JournalTyped DEF TypeOK
  <2> QED
    BY <1>1, <2>2
       DEF TypeOK, StartCommand, StopCommand, RetryMove, RemoveTorrent, CompleteDownload,
           storeVars
<1>6. trashed' \subseteq Torrents
  BY <1>1 DEF TypeOK, StartCommand, StopCommand, RetryMove, RemoveTorrent,
              CompleteDownload, envVars
<1>7. UNCHANGED <<handles, cancelled, pollVars, crashes>>
  BY DEF StartCommand, StopCommand, RetryMove, RemoveTorrent, CompleteDownload,
         storeVars, envVars
<1> QED
  BY <1>1, <1>2, <1>3, <1>4, <1>5, <1>6, <1>7 DEF Typed, TypeOK, pollVars

LEMMA RestartTyped == ASSUME Typed, Restart PROVE Typed'
<1>1. TypeOK /\ MaxCrashes \in Nat
  BY ConfigAssumption DEF Typed
<1>2. job' \in [Jobs -> JobRecords]
  BY DEF Restart, JobRecords, Idle, Pcs
<1>3. JobsDirected'
  BY DEF Restart, JobsDirected, Working, Idle, CopyPcs
<1>4. NoRows \in Rows
  BY ConfigAssumption DEF NoRows, Rows
<1>5. crashes' \in 0..MaxCrashes
  BY <1>1 DEF Restart, TypeOK
<1> QED
  BY <1>1, <1>2, <1>3, <1>4, <1>5 DEF Restart, Typed, TypeOK, Phases

LEMMA TypedStep == Typed /\ [Next]_vars => Typed'
<1> SUFFICES ASSUME Typed, [Next]_vars PROVE Typed'
  OBVIOUS
<1>1. CASE Tick
  BY <1>1, TickTyped
<1>2. CASE \E i \in Moves : MoveStep(i)
  BY <1>2, MoveStepTyped
<1>3. ASSUME NEW i \in Moves, CancelMove(i)
      PROVE  Typed'
  BY <1>3, SameJobsDirected DEF CancelMove, Typed, TypeOK, Moves, pollVars, envVars
<1>4. CASE \E r \in Requests : RequestStep(r)
  BY <1>4, RequestStepTyped
<1>5. CASE Operator
  BY <1>5, AskTyped, AskTrashTyped, OperatorTyped DEF Operator
<1>6. CASE \E t \in Torrents : CompleteDownload(t)
  BY <1>6, OperatorTyped
<1>7. CASE Restart
  BY <1>7, RestartTyped
<1>8. CASE UNCHANGED vars
  BY <1>8, SameJobsDirected DEF vars, storeVars, pollVars, envVars, Typed, TypeOK
<1> QED
  BY <1>1, <1>2, <1>3, <1>4, <1>5, <1>6, <1>7, <1>8 DEF Next

\* Every variable keeps its type, whatever the torrents, directories, commands
\* and faults: in particular no task ever works towards the empty directory
\* string (plan_move gives no plan without a destination).
THEOREM TypeCorrect == Spec => []TypeOK
<1>1. Init => Typed
  BY InitTyped
<1>2. Typed /\ [Next]_vars => Typed'
  BY TypedStep
<1>3. Typed => TypeOK
  BY DEF Typed
<1> QED
  BY <1>1, <1>2, <1>3, PTL DEF Spec

----------------------------------------------------------------------------
(* The control: ticks, handles and tasks. *)

ControlInv ==
  HandlesAreTasks /\ TickOrder /\ RecoveryPrecedesMoves /\ OneTaskPerTorrent

SameTasks == \A i \in Moves : job'[i].pc # "idle" <=> job[i].pc # "idle"

LEMMA SameTasksControlled ==
  ASSUME Typed, ControlInv, SameTasks, UNCHANGED <<handles, phase, recovered>>,
         todo' \subseteq todo
  PROVE  ControlInv'
<1>1. HandlesAreTasks' /\ RecoveryPrecedesMoves' /\ TickOrder'
  BY DEF ControlInv, SameTasks, HandlesAreTasks, Working, RecoveryPrecedesMoves, TickOrder
<1>2. OneTaskPerTorrent'
  BY DEF ControlInv, SameTasks, OneTaskPerTorrent, Working
<1> QED
  BY <1>1, <1>2 DEF ControlInv

LEMMA GotoSameTasks ==
  ASSUME Typed, NEW j \in Jobs, Working(j), NEW pc \in Pcs, pc # "idle", Goto(j, pc)
  PROVE  SameTasks
<1>1. job \in [Jobs -> JobRecords] /\ Moves \subseteq Jobs
  BY MovesAreJobs DEF Typed, TypeOK
<1>2. job'[j].pc = pc
  BY <1>1, FieldsOfGoto
<1>3. \A k \in Jobs : k # j => job'[k] = job[k]
  BY <1>1 DEF Goto
<1> QED
  BY <1>1, <1>2, <1>3 DEF SameTasks, Working

\* A task that ends gives its handle up with its last step.
LEMMA EndedControlled ==
  ASSUME Typed, ControlInv, NEW i \in Moves, End(i), handles' = handles \ {i},
         UNCHANGED <<phase, recovered, todo>>
  PROVE  ControlInv'
<1>1. /\ job'[i].pc = "idle"
      /\ \A k \in Moves : k # i => job'[k] = job[k]
  BY FieldsOfEnd, MovesAreJobs DEF Typed, TypeOK, Idle
<1>2. HandlesAreTasks' /\ RecoveryPrecedesMoves' /\ TickOrder'
  BY <1>1 DEF ControlInv, HandlesAreTasks, Working, RecoveryPrecedesMoves, TickOrder
<1>3. OneTaskPerTorrent'
  BY <1>1 DEF ControlInv, OneTaskPerTorrent, Working
<1> QED
  BY <1>2, <1>3 DEF ControlInv

\* What a step of a task does to the tasks: it goes on, or it ends.
LEMMA MoveStepEffect ==
  ASSUME Typed, NEW i \in Moves, MoveStep(i)
  PROVE  /\ Working(i)
         /\ UNCHANGED pollVars
         /\ \/ SameTasks /\ UNCHANGED handles
            \/ End(i) /\ handles' = handles \ {i}
<1>1. /\ Working(i) /\ UNCHANGED pollVars
  BY DEF MoveStep, CopyStep, Working, Begin, Gate, ReadActive, StopTorrent,
         MarkInProgress, CheckPaths, Rename, OpenCopy, PlaceFails, VerifyCopy,
         CancelCopy, CopyFails, EraseSource, EraseFails, RestartInPlace, EndInPlace,
         PointDaemon, ClearIntent, RestartHome, EndDone, Unregister
<1>2. i \in Jobs
  BY MovesAreJobs
<1>3. CASE ReadActive(i)
  <2>1. PICK active \in BOOLEAN :
          job' = [job EXCEPT ![i].was = active,
                             ![i].pc = IF active THEN "stop" ELSE "mark"]
    BY <1>3 DEF ReadActive
  <2>2. job \in [Jobs -> JobRecords]
    BY DEF Typed, TypeOK
  <2>3. /\ job'[i].pc \in {"stop", "mark"}
        /\ \A k \in Jobs : k # i => job'[k] = job[k]
    BY <1>2, <2>1, <2>2 DEF JobRecords
  <2>4. SameTasks
    BY <1>1, <2>3, MovesAreJobs DEF SameTasks, Working
  <2> QED
    BY <1>1, <1>3, <2>4 DEF ReadActive, storeVars
<1>4. CASE (Begin(i) /\ End(i)) \/ Unregister(i)
  <2>1. CASE Unregister(i)
    BY <1>1, <2>1 DEF Unregister
  <2>2. CASE Begin(i) /\ End(i)
    <3>1. CASE Goto(i, "gate")
      <4>1. job \in [Jobs -> JobRecords] /\ "gate" \in Pcs
        BY DEF Typed, TypeOK, Pcs
      <4>2. job'[i].pc = "gate"
        BY <1>2, <3>1, <4>1, FieldsOfGoto
      <4>3. job'[i].pc = "idle"
        BY <1>2, <2>2, <4>1, FieldsOfEnd DEF Idle
      <4> QED
        BY <4>2, <4>3
    <3>2. CASE ~Goto(i, "gate")
      BY <1>1, <2>2, <3>2 DEF Begin
    <3> QED
      BY <3>1, <3>2
  <2> QED
    BY <1>4, <2>1, <2>2
<1>5. CASE ~ReadActive(i) /\ ~Unregister(i) /\ ~(Begin(i) /\ End(i))
  <2>1. (\E pc \in Pcs \ {"idle"} : Goto(i, pc)) /\ UNCHANGED handles
    BY <1>5 DEF MoveStep, CopyStep, Begin, Gate, StopTorrent,
         MarkInProgress, CheckPaths, Rename, OpenCopy, PlaceFails, VerifyCopy,
         CancelCopy, CopyFails, EraseSource, EraseFails, RestartInPlace, EndInPlace,
         PointDaemon, ClearIntent, RestartHome, EndDone, Finish, Pcs, CopyPcs, storeVars
  <2> QED
    BY <1>1, <1>2, <2>1, GotoSameTasks
<1> QED
  BY <1>3, <1>4, <1>5

\* Requests are no tasks.
LEMMA RequestLeavesTasks ==
  ASSUME Typed,
         \/ \E r \in Requests : RequestStep(r)
         \/ \E t \in Torrents : AskTrash(t) \/ \E d \in Dirs : AskLocation(t, d)
  PROVE  \A k \in Moves : job'[k] = job[k]
<1>1. job \in [Jobs -> JobRecords]
  BY DEF Typed, TypeOK
<1>2. CASE \E r \in Requests : RequestStep(r)
  <2>1. PICK r \in Requests : RequestStep(r)
    BY <1>2
  <2>2. End(r) \/ \E pc \in Pcs : Goto(r, pc)
    BY <2>1 DEF RequestStep, CopyStep, StopForLocation, RestartAfterRequest,
         PointForLocation, ClearForLocation, RestartForLocation, EraseForTrash,
         TrashData, CheckPaths, Rename, OpenCopy, PlaceFails, VerifyCopy, CancelCopy, CopyFails, EraseSource, EraseFails,
         Pcs, CopyPcs
  <2>3. \A k \in Jobs : k # r => job'[k] = job[k]
    BY <1>1, <2>2 DEF Goto, End
  <2> QED
    BY <2>3, MovesAreJobs
<1>3. CASE \E t \in Torrents : AskTrash(t) \/ \E d \in Dirs : AskLocation(t, d)
  <2>1. PICK t \in Torrents : AskTrash(t) \/ \E d \in Dirs : AskLocation(t, d)
    BY <1>3
  <2>2. <<t, 0>> \in Requests
    BY DEF Requests
  <2>3. \A k \in Jobs : k # <<t, 0>> => job'[k] = job[k]
    BY <1>1, <2>1 DEF AskLocation, AskTrash
  <2> QED
    BY <2>2, <2>3, MovesAreJobs
<1> QED
  BY <1>2, <1>3

LEMMA RequestSameTasks ==
  ASSUME Typed,
         \/ \E r \in Requests : RequestStep(r)
         \/ \E t \in Torrents : AskTrash(t) \/ \E d \in Dirs : AskLocation(t, d)
  PROVE  SameTasks /\ UNCHANGED <<storeVars, pollVars>>
<1>1. UNCHANGED <<storeVars, pollVars>>
  BY DEF RequestStep, CopyStep, StopForLocation, RestartAfterRequest, AskLocation, AskTrash,
         PointForLocation, ClearForLocation, RestartForLocation, EraseForTrash,
         TrashData, CheckPaths, Rename, OpenCopy, PlaceFails, VerifyCopy, CancelCopy, CopyFails, EraseSource, EraseFails
<1> QED
  BY <1>1, RequestLeavesTasks DEF SameTasks

\* What planning does to the tasks: each new one has a free id of a torrent
\* that no registered task works on.
LEMMA PlanEffect ==
  ASSUME Typed, PlanMoves
  PROVE  \E new \in SUBSET Moves :
           /\ handles' = handles \cup new
           /\ \A i \in new : /\ job[i] = Idle /\ job'[i].pc = "begin"
                             /\ \A k \in handles \cup new : k[1] = i[1] => k = i
                             /\ \A o \in journal : o.id # i
           /\ \A i \in Moves \ new : job'[i] = job[i]
<1> DEFINE planned == {u \in DecideMoves(raw, BusyHashes) : FreeSlots(u) # {}}
           ids == {NextId(t) : t \in planned}
<1>1. /\ handles' = handles \cup ids
      /\ job' = [j \in Jobs |->
                   IF j \in ids
                   THEN [pc |-> "begin", from |-> raw.dir[j[1]],
                         to |-> Destination(j[1], raw.finalDir[j[1]]),
                         was |-> j[1] \in raw.active]
                   ELSE job[j]]
  BY DEF PlanMoves
<1>2. \A t \in planned : t \in Torrents /\ t \notin BusyHashes /\ FreeSlots(t) # {}
  BY DEF DecideMoves, Typed, TypeOK, Rows
<1>3. ASSUME NEW i \in ids
      PROVE  /\ i \in Moves /\ i[1] \in planned /\ i = NextId(i[1])
             /\ job[i] = Idle
             /\ \A o \in journal : o.id # i
  BY <1>2, NextIdIsFree
<1>4. ASSUME NEW i \in ids, NEW k \in handles \cup ids, k[1] = i[1]
      PROVE  k = i
  <2>1. CASE k \in ids
    BY <1>3, <1>4, <2>1
  <2>2. CASE k \in handles
    <3>1. k[1] \in BusyHashes
      BY <2>2 DEF BusyHashes
    <3>2. i[1] \notin BusyHashes
      BY <1>2, <1>3
    <3> QED
      BY <1>4, <3>1, <3>2
  <2> QED
    BY <2>1, <2>2
<1>5. ids \subseteq Moves
  BY <1>3
<1>6. \A i \in ids : job'[i].pc = "begin"
  BY <1>1, <1>5, MovesAreJobs
<1>7. \A i \in Moves \ ids : job'[i] = job[i]
  BY <1>1, MovesAreJobs
<1>8. handles' = handles \cup ids
  BY <1>1
<1> HIDE DEF ids
<1> QED
  BY <1>3, <1>4, <1>5, <1>6, <1>7, <1>8

LEMMA PlanControlled ==
  ASSUME Typed, ControlInv, PlanMoves
  PROVE  ControlInv'
<1>1. PICK new \in SUBSET Moves :
        /\ handles' = handles \cup new
        /\ \A i \in new : /\ job[i] = Idle /\ job'[i].pc = "begin"
                          /\ \A k \in handles \cup new : k[1] = i[1] => k = i
        /\ \A i \in Moves \ new : job'[i] = job[i]
  BY PlanEffect
<1>2. HandlesAreTasks'
  BY <1>1 DEF ControlInv, HandlesAreTasks, Working
<1>3. phase = "plan" /\ phase' = "queue" /\ UNCHANGED <<recovered, todo>>
  BY DEF PlanMoves
<1>4. TickOrder' /\ RecoveryPrecedesMoves'
  BY <1>3 DEF ControlInv, TickOrder, RecoveryPrecedesMoves
<1>5. ASSUME NEW i \in handles', NEW k \in handles', i[1] = k[1]
      PROVE  i = k
  BY <1>1, <1>5 DEF ControlInv, OneTaskPerTorrent, HandlesAreTasks
<1>6. OneTaskPerTorrent'
  BY <1>2, <1>5 DEF HandlesAreTasks, OneTaskPerTorrent
<1> QED
  BY <1>2, <1>4, <1>6 DEF ControlInv

LEMMA TickControlled ==
  ASSUME Typed, ControlInv, Tick
  PROVE  ControlInv'
<1>1. CASE Fetch
  <2>1. SameTasks /\ UNCHANGED <<handles, recovered, todo>> /\ phase' = "fetched"
    BY <1>1 DEF Fetch, SameTasks, storeVars
  <2> QED
    BY <2>1 DEF ControlInv, SameTasks, HandlesAreTasks, Working, TickOrder,
                RecoveryPrecedesMoves, OneTaskPerTorrent
<1>2. CASE ResumeMoves
  <2>1. \A i \in Moves : job[i].pc = "idle"
    BY <1>2 DEF ControlInv, RecoveryPrecedesMoves, Working, ResumeMoves
  <2>2. UNCHANGED <<job, handles>> /\ phase' = "recover"
    BY <1>2 DEF ResumeMoves
  <2> QED
    BY <2>1, <2>2 DEF ControlInv, HandlesAreTasks, Working, TickOrder,
                      RecoveryPrecedesMoves, OneTaskPerTorrent
<1>3. CASE \E o \in todo : RecoverLanded(o) \/ RecoverOrphan(o) \/ RecoverAbsent(o)
  <2>1. UNCHANGED <<job, handles, phase, recovered>> /\ todo' \subseteq todo
    BY <1>3 DEF RecoverLanded, RecoverOrphan, RecoverAbsent
  <2> QED
    BY <2>1, SameTasksControlled DEF SameTasks
<1>4. CASE PruneJournal \/ SettleHomed \/ RunQueue
  <2>1. /\ UNCHANGED <<job, handles, recovered, todo>>
        /\ phase' \in {"settle", "plan", "queue", "rest"}
        /\ phase' # "rest" => recovered /\ todo = {}
    BY <1>4 DEF PruneJournal, SettleHomed, RunQueue, storeVars, ControlInv, TickOrder
  <2> QED
    BY <2>1 DEF ControlInv, HandlesAreTasks, Working, TickOrder, RecoveryPrecedesMoves,
                OneTaskPerTorrent
<1>5. CASE PlanMoves
  BY <1>5, PlanControlled
<1> QED
  BY <1>1, <1>2, <1>3, <1>4, <1>5 DEF Tick

LEMMA ControlStep == Typed /\ ControlInv /\ [Next]_vars => ControlInv'
<1> SUFFICES ASSUME Typed, ControlInv, [Next]_vars PROVE ControlInv'
  OBVIOUS
<1>1. CASE Tick
  BY <1>1, TickControlled
<1>2. CASE \E i \in Moves : MoveStep(i)
  BY <1>2, MoveStepEffect, SameTasksControlled, EndedControlled DEF pollVars
<1>3. CASE \/ \E r \in Requests : RequestStep(r)
           \/ \E t \in Torrents : AskTrash(t) \/ \E d \in Dirs : AskLocation(t, d)
  BY <1>3, RequestSameTasks, SameTasksControlled DEF storeVars, pollVars
<1>4. CASE \/ \E i \in Moves : CancelMove(i)
           \/ \E t \in Torrents : \/ StartCommand(t) \/ StopCommand(t) \/ RetryMove(t)
                                \/ RemoveTorrent(t) \/ CompleteDownload(t)
           \/ UNCHANGED vars
  <2>1. UNCHANGED <<job, handles, phase, recovered, todo>>
    BY <1>4 DEF CancelMove, StartCommand, StopCommand, RetryMove, RemoveTorrent,
                CompleteDownload, vars, storeVars, pollVars
  <2> QED
    BY <2>1, SameTasksControlled DEF SameTasks
<1>5. CASE Restart
  <2>1. /\ handles' = {} /\ phase' = "rest"
        /\ \A i \in Moves : job'[i].pc = "idle"
    BY <1>5, MovesAreJobs DEF Restart, Idle
  <2> QED
    BY <2>1 DEF ControlInv, HandlesAreTasks, Working, TickOrder, RecoveryPrecedesMoves,
                OneTaskPerTorrent
<1> QED
  BY <1>1, <1>2, <1>3, <1>4, <1>5 DEF Next, Operator

LEMMA InitControlled == Init => ControlInv
BY MovesAreJobs DEF Init, ControlInv, HandlesAreTasks, Working, TickOrder, RecoveryPrecedesMoves,
       OneTaskPerTorrent, Idle

\* Recovery is over before the first task starts.
THEOREM RecoveryComesFirst == Spec => []RecoveryPrecedesMoves
<1>1. Init => Typed /\ ControlInv
  BY InitTyped, InitControlled
<1>2. Typed /\ ControlInv /\ [Next]_vars => (Typed /\ ControlInv)'
  BY TypedStep, ControlStep
<1>3. Typed /\ ControlInv => RecoveryPrecedesMoves
  BY DEF ControlInv
<1> QED
  BY <1>1, <1>2, <1>3, PTL DEF Spec

\* A torrent never has two move tasks, registered or running.
THEOREM TasksExclude == Spec => []OneTaskPerTorrent
<1>1. Init => Typed /\ ControlInv
  BY InitTyped, InitControlled
<1>2. Typed /\ ControlInv /\ [Next]_vars => (Typed /\ ControlInv)'
  BY TypedStep, ControlStep
<1>3. Typed /\ ControlInv => OneTaskPerTorrent
  BY DEF ControlInv
<1> QED
  BY <1>1, <1>2, <1>3, PTL DEF Spec

----------------------------------------------------------------------------
(* The journal, in memory and in the file. *)

LEMMA WellKeptJournals ==
  ASSUME Typed, JournalInv
  PROVE  WellKept(journal) /\ WellKept(journalFile)
BY DEF Typed, TypeOK, JournalInv, WellKept

LEMMA JournalSaved ==
  ASSUME Typed, JournalInv, NEW J, WellKept(J), Journal(J)
  PROVE  \A entries \in {journal', journalFile'} : IdsUnique(entries) /\ OneUnfinished(entries)
<1>1. WellKept(journal) /\ WellKept(journalFile)
  BY WellKeptJournals
<1>2. \A entries \in {journal', journalFile'} : entries = J \/ entries = journalFile \/ entries = {}
  BY DEF Journal
<1>3. IdsUnique({}) /\ OneUnfinished({})
  BY DEF IdsUnique, OneUnfinished, Unfinished
<1> QED
  BY <1>1, <1>2, <1>3 DEF WellKept

\* A task stays where it is, is over, or goes on past its beginning.
TasksGoOn ==
  \A k \in Moves :
    \/ job'[k].pc = job[k].pc
    \/ job'[k].pc \in {"idle", "unregister"}
    \/ job[k].pc \notin {"begin", "idle", "unregister"} /\ job'[k].pc # "begin"

LEMMA EntriesStayOwned ==
  ASSUME JournalInv, TasksGoOn,
         \A q \in journal' : \E o \in journal :
           /\ q.id = o.id
           /\ \/ q.state = o.state
              \/ q.state \in {"Pending", "InProgress"}
              \/ job'[q.id].pc \in {"idle", "unregister"}
  PROVE  TasksOwnEntries'
<1>1. SUFFICES ASSUME NEW i \in Moves, NEW q \in journal', q.id = i
               PROVE  /\ job'[i].pc # "begin"
                      /\ job'[i].pc \notin {"idle", "unregister"}
                           => q.state \in {"Pending", "InProgress"}
  BY DEF TasksOwnEntries
<1>2. PICK o \in journal :
        /\ q.id = o.id
        /\ \/ q.state = o.state
           \/ q.state \in {"Pending", "InProgress"}
           \/ job'[q.id].pc \in {"idle", "unregister"}
  OBVIOUS
<1>3. /\ job[i].pc # "begin"
      /\ job[i].pc \notin {"idle", "unregister"} => o.state \in {"Pending", "InProgress"}
  BY <1>1, <1>2 DEF JournalInv, TasksOwnEntries
<1>4. \/ job'[i].pc = job[i].pc
      \/ job'[i].pc \in {"idle", "unregister"}
      \/ job[i].pc \notin {"begin", "idle", "unregister"} /\ job'[i].pc # "begin"
  BY DEF TasksGoOn
<1> QED
  BY <1>1, <1>2, <1>3, <1>4

\* The steps that only drop entries.
LEMMA FewerEntries ==
  ASSUME Typed, JournalInv, TasksGoOn, NEW J \in SUBSET journal,
         Journal(J) \/ UNCHANGED <<journal, journalFile>>,
         todo' \subseteq todo
  PROVE  JournalInv'
<1>1. \A entries \in {journal', journalFile'} : IdsUnique(entries) /\ OneUnfinished(entries)
  <2>1. CASE Journal(J)
    BY <2>1, JournalSaved, WellKeptJournals, FewerKeeps
  <2>2. CASE UNCHANGED <<journal, journalFile>>
    BY <2>2 DEF JournalInv
  <2> QED
    BY <2>1, <2>2
<1>2. journal' \subseteq journal
  BY DEF Journal
<1>3. TasksOwnEntries'
  BY <1>2, EntriesStayOwned
<1>4. TodoUnfinished'
  BY <1>2 DEF JournalInv, TodoUnfinished, IdsUnique
<1> QED
  BY <1>1, <1>3, <1>4 DEF JournalInv

LEMMA MoveStepJournal ==
  ASSUME Typed, ControlInv, JournalInv, NEW i \in Moves, MoveStep(i)
  PROVE  JournalInv'
<1>1. /\ i \in Jobs /\ job \in [Jobs -> JobRecords]
      /\ Moves \subseteq Jobs
      /\ WellKept(journal) /\ journal \in SUBSET MoveOps
  BY MovesAreJobs, WellKeptJournals DEF Typed, TypeOK
<1>2. todo = {} /\ todo' = {}
  <2>1. Working(i) /\ UNCHANGED todo
    BY MoveStepEffect DEF pollVars
  <2> QED
    BY <2>1 DEF ControlInv, RecoveryPrecedesMoves
<1>3. TodoUnfinished'
  BY <1>2 DEF TodoUnfinished, IdsUnique
<1>4. CASE Begin(i)
  <2>1. \A o \in journal : o.id # i
    BY <1>4 DEF Begin, JournalInv, TasksOwnEntries
  <2>2. CASE i[1] \in HashesOf(Resumable(journal))
    <3>1. End(i) /\ UNCHANGED <<journal, journalFile>>
      BY <1>4, <2>2 DEF Begin
    <3>2. TasksGoOn
      BY <1>1, <3>1, FieldsOfEnd DEF TasksGoOn, Idle
    <3> QED
      BY <1>2, <3>1, <3>2, FewerEntries
  <2>3. CASE i[1] \notin HashesOf(Resumable(journal))
    <3> DEFINE op == [id |-> i, state |-> "Pending", dst |-> Place(job[i].to, i[1])]
    <3>1. Journal(Add(journal, op)) /\ Goto(i, "gate")
      BY <1>4, <2>3 DEF Begin
    <3>2. op \in MoveOps /\ op.id = i /\ op.state = "Pending"
      <4>1. job[i].to \in Dirs /\ i[1] \in Torrents
        BY <1>1, <1>4, MovesAreJobs DEF Begin, Typed, JobsDirected, Working
      <4> QED
        BY <4>1, PlacesArePaths DEF MoveOps, Moves, MoveStates
    <3> HIDE DEF op
    <3>3. /\ WellKept(Add(journal, op))
          /\ \A q \in Add(journal, op) : q \in journal \/ q = op
      BY <1>1, <2>1, <3>2, AddKeeps
    <3>4. \A entries \in {journal', journalFile'} : IdsUnique(entries) /\ OneUnfinished(entries)
      BY <3>1, <3>3, JournalSaved
    <3>5. job'[i].pc = "gate" /\ \A k \in Moves : k # i => job'[k] = job[k]
      BY <1>1, <3>1 DEF Goto, JobRecords
    <3>6. \A q \in journal' : q \in journal \/ q = op
      BY <3>1, <3>3 DEF Journal
    <3>7. TasksOwnEntries'
      BY <2>1, <3>2, <3>5, <3>6 DEF JournalInv, TasksOwnEntries
    <3> QED
      BY <1>3, <3>4, <3>7 DEF JournalInv
  <2> QED
    BY <2>2, <2>3
<1>5. ASSUME NEW s \in {"Failed", "Done", "Cancelled"}, Finish(i, s),
             job[i].pc \notin {"begin", "idle", "unregister"}
      PROVE  JournalInv'
  <2>1. s \in MoveStates /\ s \notin {"Pending", "InProgress"}
    BY DEF MoveStates
  <2>2. \A o \in journal : o.id = i => o.state \in {"Pending", "InProgress"}
    BY <1>5 DEF JournalInv, TasksOwnEntries
  <2>3. WellKept(Mark(journal, i, s))
    BY <1>1, <2>1, <2>2, MarkKeeps
  <2>4. Journal(Mark(journal, i, s)) /\ Goto(i, "unregister")
    BY <1>5 DEF Finish
  <2>5. \A entries \in {journal', journalFile'} : IdsUnique(entries) /\ OneUnfinished(entries)
    BY <2>3, <2>4, JournalSaved
  <2>6. job'[i].pc = "unregister" /\ \A k \in Moves : k # i => job'[k] = job[k]
    BY <1>1, <2>4 DEF Goto, JobRecords
  <2>7. \A q \in journal' : \E o \in journal : q.id = o.id /\ (q.state = o.state \/ q.id = i)
    <3>1. journal' = Mark(journal, i, s)
      BY <2>4 DEF Journal
    <3>2. \A q \in Mark(journal, i, s) : \E o \in journal :
            q.id = o.id /\ q.state = IF o.id = i THEN s ELSE o.state
      <4>1. journal \in SUBSET MoveOps
        BY <1>1
      <4> QED
        BY <2>1, <4>1, MarkEntries
    <3>3. ASSUME NEW q \in journal'
          PROVE  \E o \in journal : q.id = o.id /\ (q.state = o.state \/ q.id = i)
      <4>1. PICK o \in journal : q.id = o.id /\ q.state = IF o.id = i THEN s ELSE o.state
        BY <3>1, <3>2
      <4>2. q.id = o.id /\ (q.state = o.state \/ q.id = i)
        BY <4>1
      <4> QED
        BY <4>2
    <3> QED
      BY <3>3
  <2>8. TasksOwnEntries'
    BY <2>6, <2>7, EntriesStayOwned DEF TasksGoOn
  <2> QED
    BY <1>3, <2>5, <2>8 DEF JournalInv
<1>6. CASE Gate(i) /\ ~Finish(i, "Failed")
  <2>1. PICK n \in FreeSuffixes(i) :
          Journal(Redirect(journal, i, <<job[i].to, NameOf[i[1]], n>>))
    BY <1>6 DEF Gate
  <2>2. <<job[i].to, NameOf[i[1]], n>> \in Paths
    <3>1. job[i].to \in Dirs /\ i[1] \in Torrents
      BY <1>1, <1>6, MovesAreJobs DEF Gate, Typed, JobsDirected, Working
    <3> QED
      BY <3>1, ConfigAssumption DEF FreeSuffixes
  <2>3. WellKept(Redirect(journal, i, <<job[i].to, NameOf[i[1]], n>>))
    BY <1>1, <2>2, RedirectKeeps
  <2>4. \A entries \in {journal', journalFile'} : IdsUnique(entries) /\ OneUnfinished(entries)
    BY <2>1, <2>3, JournalSaved
  <2>5. \A q \in journal' : \E o \in journal : q.id = o.id /\ q.state = o.state
    <3>1. journal' = Redirect(journal, i, <<job[i].to, NameOf[i[1]], n>>)
      BY <2>1 DEF Journal
    <3> QED
      BY <1>1, <2>2, <3>1, RedirectEntries
  <2>6. TasksGoOn
    BY <1>1, <1>6 DEF Gate, Goto, JobRecords, TasksGoOn
  <2>7. TasksOwnEntries'
    BY <2>5, <2>6, EntriesStayOwned
  <2> QED
    BY <1>3, <2>4, <2>7 DEF JournalInv
<1>7. CASE MarkInProgress(i)
  <2>1. \A o \in journal : o.id = i => o.state \in {"Pending", "InProgress"}
    BY <1>7 DEF MarkInProgress, JournalInv, TasksOwnEntries
  <2>2. WellKept(Mark(journal, i, "InProgress"))
    BY <1>1, <2>1, MarkKeeps DEF MoveStates
  <2>3. \A entries \in {journal', journalFile'} : IdsUnique(entries) /\ OneUnfinished(entries)
    BY <1>7, <2>2, JournalSaved DEF MarkInProgress
  <2>4. \A q \in journal' : \E o \in journal :
          q.id = o.id /\ (q.state = o.state \/ q.state = "InProgress")
    <3>1. journal' = Mark(journal, i, "InProgress")
      BY <1>7 DEF MarkInProgress, Journal
    <3>2. \A q \in Mark(journal, i, "InProgress") : \E o \in journal :
            q.id = o.id /\ q.state = IF o.id = i THEN "InProgress" ELSE o.state
      BY <1>1, MarkEntries DEF MoveStates
    <3> QED
      BY <3>1, <3>2
  <2>5. TasksGoOn
    BY <1>1, <1>7 DEF MarkInProgress, Goto, JobRecords, TasksGoOn
  <2>6. TasksOwnEntries'
    BY <2>4, <2>5, EntriesStayOwned
  <2> QED
    BY <1>3, <2>3, <2>6 DEF JournalInv
<1>8. CASE \/ ReadActive(i) \/ CopyStep(i) \/ RestartInPlace(i) \/ ClearIntent(i)
           \/ RestartHome(i) \/ Unregister(i)
           \/ (StopTorrent(i) \/ PointDaemon(i)) /\ ~Finish(i, "Failed")
  <2>1. UNCHANGED <<journal, journalFile>>
    BY <1>8 DEF ReadActive, RestartInPlace, ClearIntent, RestartHome, Unregister,
         StopTorrent, PointDaemon, CopyStep, CheckPaths, Rename, OpenCopy, PlaceFails,
         VerifyCopy, CancelCopy, CopyFails, EraseSource, EraseFails, storeVars
  <2>2. TasksGoOn
    <3>1. CASE ReadActive(i)
      BY <1>1, <3>1 DEF ReadActive, TasksGoOn, JobRecords
    <3>2. CASE Unregister(i)
      BY <1>1, <3>2, FieldsOfEnd DEF Unregister, TasksGoOn, Idle
    <3>3. CASE ~ReadActive(i) /\ ~Unregister(i)
      <4>1. /\ job[i].pc \notin {"begin", "idle", "unregister"}
            /\ \E pc \in Pcs \ {"begin"} : Goto(i, pc)
        BY <1>8, <3>3
           DEF RestartInPlace, ClearIntent, RestartHome,
               StopTorrent, PointDaemon, CopyStep, CheckPaths, Rename, OpenCopy, PlaceFails,
               VerifyCopy, CancelCopy, CopyFails, EraseSource, EraseFails, Pcs, CopyPcs
      <4> QED
        BY <1>1, <4>1 DEF Goto, JobRecords, TasksGoOn
    <3> QED
      BY <3>1, <3>2, <3>3
  <2> QED
    BY <1>2, <2>1, <2>2, FewerEntries
<1>9. CASE \/ Finish(i, "Failed") /\ (Gate(i) \/ StopTorrent(i) \/ PointDaemon(i))
           \/ EndInPlace(i) \/ EndDone(i)
  BY <1>5, <1>9 DEF Gate, StopTorrent, PointDaemon, EndInPlace, EndDone
<1> QED
  BY <1>4, <1>6, <1>7, <1>8, <1>9 DEF MoveStep

LEMMA RecoveryJournal ==
  ASSUME Typed, ControlInv, JournalInv, NEW o \in todo,
         RecoverLanded(o) \/ RecoverOrphan(o) \/ RecoverAbsent(o)
  PROVE  JournalInv'
<1>1. WellKept(journal) /\ journal \in SUBSET MoveOps
  BY WellKeptJournals DEF Typed, TypeOK
<1>2. /\ \A i \in Moves : job'[i].pc = "idle"
      /\ todo' = todo \ {o}
  BY DEF RecoverLanded, RecoverOrphan, RecoverAbsent, ControlInv, RecoveryPrecedesMoves,
         Working
<1>3. \A q \in journal : q.id = o.id => q.state = "InProgress"
  BY DEF JournalInv, TodoUnfinished
<1>4. TasksOwnEntries' /\ IdsUnique(todo')
  BY <1>2 DEF TasksOwnEntries, JournalInv, TodoUnfinished, IdsUnique
<1>5. CASE UNCHANGED <<journal, journalFile>>
  BY <1>2, <1>4, <1>5 DEF JournalInv, TodoUnfinished
<1>6. ASSUME NEW s \in {"Done", "Failed", "Pending"}, Journal(Mark(journal, o.id, s))
      PROVE  JournalInv'
  <2>1. s \in MoveStates
    BY DEF MoveStates
  <2>2. WellKept(Mark(journal, o.id, s))
    BY <1>1, <1>3, <2>1, MarkKeeps
  <2>3. \A entries \in {journal', journalFile'} : IdsUnique(entries) /\ OneUnfinished(entries)
    BY <1>6, <2>2, JournalSaved
  <2>4. \A q \in Mark(journal, o.id, s) : \E p \in journal :
          q.id = p.id /\ q.state = IF p.id = o.id THEN s ELSE p.state
    BY <1>1, <2>1, MarkStates
  <2>5. journal' = Mark(journal, o.id, s)
    BY <1>6 DEF Journal
  <2>6. ASSUME NEW p \in todo', NEW q \in journal', q.id = p.id
        PROVE  q.state = "InProgress"
    <3>1. p \in todo /\ p.id # o.id
      BY <1>2 DEF JournalInv, TodoUnfinished, IdsUnique
    <3>2. PICK r \in journal : q.id = r.id /\ q.state = IF r.id = o.id THEN s ELSE r.state
      BY <2>4, <2>5
    <3> QED
      BY <2>6, <3>1, <3>2 DEF JournalInv, TodoUnfinished
  <2> QED
    BY <1>4, <2>3, <2>6 DEF JournalInv, TodoUnfinished
<1> QED
  BY <1>5, <1>6 DEF RecoverLanded, RecoverOrphan, RecoverAbsent

LEMMA JournalStep == Typed /\ ControlInv /\ JournalInv /\ [Next]_vars => JournalInv'
<1> SUFFICES ASSUME Typed, ControlInv, JournalInv, [Next]_vars PROVE JournalInv'
  OBVIOUS
<1>1. CASE \/ Fetch \/ SettleHomed \/ RunQueue
           \/ \E i \in Moves : CancelMove(i)
           \/ \E t \in Torrents : \/ StartCommand(t) \/ StopCommand(t) \/ RemoveTorrent(t)
                                \/ CompleteDownload(t)
           \/ UNCHANGED vars
  <2>1. UNCHANGED <<journal, journalFile, job, todo>>
    BY <1>1 DEF Fetch, SettleHomed, RunQueue, CancelMove, StartCommand, StopCommand,
                RemoveTorrent, CompleteDownload, vars, storeVars, pollVars
  <2> QED
    BY <2>1, FewerEntries DEF TasksGoOn
<1>2. CASE ResumeMoves
  <2>1. CASE Resumable(journal) = {}
    BY <1>2, <2>1, FewerEntries DEF ResumeMoves, TasksGoOn
  <2>2. CASE Resumable(journal) # {}
    <3> DEFINE J == PruneUnknown(journal, raw.live)
    <3>1. J \in SUBSET journal /\ Journal(J) /\ UNCHANGED job
      BY <1>2, <2>2 DEF ResumeMoves, PruneUnknown
    <3> HIDE DEF J
    <3>2. \A entries \in {journal', journalFile'} : IdsUnique(entries) /\ OneUnfinished(entries)
      BY <3>1, JournalSaved, WellKeptJournals, FewerKeeps
    <3>3. journal' \subseteq journal
      BY <3>1 DEF Journal
    <3>4. TasksOwnEntries'
      BY <3>1, <3>3, EntriesStayOwned DEF TasksGoOn
    <3>5. todo' = {o \in journal : o.state = "InProgress"}
      BY <1>2, <2>2 DEF ResumeMoves
    <3>6. TodoUnfinished'
      BY <3>3, <3>5 DEF JournalInv, TodoUnfinished, IdsUnique
    <3> QED
      BY <3>2, <3>4, <3>6 DEF JournalInv
  <2> QED
    BY <2>1, <2>2
<1>3. CASE \E o \in todo : RecoverLanded(o) \/ RecoverOrphan(o) \/ RecoverAbsent(o)
  BY <1>3, RecoveryJournal
<1>4. CASE PruneJournal
  <2> DEFINE kept == PruneDone(PruneUnknown(journal, raw.live))
  <2>1. kept \in SUBSET journal
    BY DEF PruneDone, PruneUnknown
  <2>2. Journal(kept) \/ UNCHANGED <<journal, journalFile>>
    BY <1>4 DEF PruneJournal
  <2>3. TasksGoOn /\ UNCHANGED todo
    BY <1>4 DEF PruneJournal, TasksGoOn
  <2> HIDE DEF kept
  <2> QED
    BY <2>1, <2>2, <2>3, FewerEntries
<1>5. CASE PlanMoves
  <2>1. PICK new \in SUBSET Moves :
          /\ \A i \in new : /\ job'[i].pc = "begin"
                            /\ \A o \in journal : o.id # i
          /\ \A i \in Moves \ new : job'[i] = job[i]
    BY <1>5, PlanEffect
  <2>2. UNCHANGED <<journal, journalFile, todo>>
    BY <1>5 DEF PlanMoves
  <2>3. TasksOwnEntries'
    BY <2>1, <2>2 DEF JournalInv, TasksOwnEntries
  <2> QED
    BY <2>2, <2>3 DEF JournalInv, TodoUnfinished
<1>6. CASE \E i \in Moves : MoveStep(i)
  BY <1>6, MoveStepJournal
<1>7. CASE \/ \E r \in Requests : RequestStep(r)
           \/ \E t \in Torrents : AskTrash(t) \/ \E d \in Dirs : AskLocation(t, d)
  <2>1. UNCHANGED <<journal, journalFile, todo>>
    BY <1>7, RequestSameTasks DEF storeVars, pollVars
  <2>2. \A k \in Moves : job'[k] = job[k]
    BY <1>7, RequestLeavesTasks
  <2> QED
    BY <2>1, <2>2, FewerEntries DEF TasksGoOn
<1>8. CASE \E t \in Torrents : RetryMove(t)
  <2>1. PICK t \in Torrents : RetryMove(t)
    BY <1>8
  <2>2. Retry(journal, t) \in SUBSET journal
    BY DEF Retry
  <2> QED
    BY <2>1, <2>2, FewerEntries DEF RetryMove, TasksGoOn, pollVars
<1>9. CASE Restart
  <2>1. /\ journal' = journalFile'
        /\ journalFile' = journalFile \/ journalFile' = {}
        /\ todo' = {}
        /\ \A i \in Moves : job'[i].pc = "idle"
    BY <1>9, MovesAreJobs DEF Restart, Idle
  <2>2. \A entries \in {journal', journalFile'} : IdsUnique(entries) /\ OneUnfinished(entries)
    BY <2>1 DEF JournalInv, IdsUnique, OneUnfinished, Unfinished
  <2> QED
    BY <2>1, <2>2 DEF JournalInv, TasksOwnEntries, TodoUnfinished, IdsUnique
<1> QED
  BY <1>1, <1>2, <1>3, <1>4, <1>5, <1>6, <1>7, <1>8, <1>9 DEF Next, Tick, Operator

\* The whole inductive invariant: the types, the control and the journal.
THEOREM MoveInvariant == Spec => []MoveInv
<1>1. Init => Typed /\ ControlInv /\ JournalInv
  <2>1. Init => JournalInv
    BY DEF Init, JournalInv, IdsUnique, OneUnfinished, Unfinished, TasksOwnEntries,
           TodoUnfinished
  <2> QED
    BY <2>1, InitTyped, InitControlled
<1>2. Typed /\ ControlInv /\ JournalInv /\ [Next]_vars => (Typed /\ ControlInv /\ JournalInv)'
  BY TypedStep, ControlStep, JournalStep
<1>3. Typed /\ ControlInv /\ JournalInv => MoveInv
  BY DEF Typed, ControlInv, MoveInv
<1> QED
  BY <1>1, <1>2, <1>3, PTL DEF Spec

\* A torrent never has two unfinished journal entries, in memory or in the
\* file a restart loads.
THEOREM EntriesExclude == Spec => []OneUnfinishedEntry
<1>1. MoveInv => OneUnfinishedEntry
  BY DEF MoveInv, JournalInv, OneUnfinished, Unfinished, OneUnfinishedEntry
<1> QED
  BY <1>1, MoveInvariant, PTL
=============================================================================
