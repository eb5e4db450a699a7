---------------------------- MODULE CustodyProofs ----------------------------
(***************************************************************************)
(* Proofs of what move-on-complete promises about the torrent it moves:    *)
(* that it stands still meanwhile and runs again, that the journal knows   *)
(* of the move, and that the data is neither lost nor lost sight of.  Each *)
(* theorem names what it asks of the configuration, the commands and the   *)
(* faults; it holds for any number of torrents, directories, ids and       *)
(* kills.  All rest on the invariant of MoveProofs.                        *)
(***************************************************************************)
EXTENDS MoveProofs

----------------------------------------------------------------------------
(* What the calls do to the rows of the daemon, field by field. *)

LEMMA StartFields ==
  ASSUME daemon \in Rows, NEW t \in Torrents
  PROVE  /\ Started(t).live = daemon.live /\ Started(t).complete = daemon.complete
         /\ Started(t).dir = daemon.dir /\ Started(t).finalDir = daemon.finalDir
         /\ Started(t).active = IF t \in daemon.live THEN daemon.active \cup {t}
                                ELSE daemon.active
BY DEF Rows, Started

LEMMA StopFields ==
  ASSUME daemon \in Rows, NEW t \in Torrents
  PROVE  /\ Stopped(t).live = daemon.live /\ Stopped(t).complete = daemon.complete
         /\ Stopped(t).dir = daemon.dir /\ Stopped(t).finalDir = daemon.finalDir
         /\ Stopped(t).active = daemon.active \ {t}
BY DEF Rows, Stopped

LEMMA EraseFields ==
  ASSUME daemon \in Rows, NEW t \in Torrents
  PROVE  /\ Erased(t).live = daemon.live \ {t} /\ Erased(t).complete = daemon.complete
         /\ Erased(t).dir = daemon.dir /\ Erased(t).finalDir = daemon.finalDir
         /\ Erased(t).active = daemon.active \ {t}
BY DEF Rows, Erased

LEMMA PointFields ==
  ASSUME daemon \in Rows, NEW t \in Torrents, NEW d \in Dirs
  PROVE  /\ Pointed(t, d).live = daemon.live /\ Pointed(t, d).complete = daemon.complete
         /\ Pointed(t, d).active = daemon.active /\ Pointed(t, d).finalDir = daemon.finalDir
         /\ Pointed(t, d).dir = IF t \in daemon.live THEN [daemon.dir EXCEPT ![t] = d]
                                ELSE daemon.dir
BY DEF Rows, Pointed

LEMMA SettleFields ==
  ASSUME daemon \in Rows, NEW ts
  PROVE  /\ Settled(ts).live = daemon.live /\ Settled(ts).complete = daemon.complete
         /\ Settled(ts).active = daemon.active /\ Settled(ts).dir = daemon.dir
         /\ \A u \in Torrents :
              Settled(ts).finalDir[u] = IF u \in ts THEN NoDir ELSE daemon.finalDir[u]
BY DEF Rows, Settled

----------------------------------------------------------------------------
(* What a step of a task does to the jobs and to the daemon. *)

LEMMA GotoFields ==
  ASSUME job \in [Jobs -> JobRecords], NEW j \in Jobs, NEW pc, Goto(j, pc)
  PROVE  /\ job'[j].pc = pc /\ job'[j].from = job[j].from /\ job'[j].to = job[j].to
         /\ job'[j].was = job[j].was
         /\ \A k \in Jobs : k # j => job'[k] = job[k]
BY DEF Goto, JobRecords

LEMMA ReadFields ==
  ASSUME job \in [Jobs -> JobRecords], NEW i \in Moves, ReadActive(i)
  PROVE  /\ job'[i].from = job[i].from /\ job'[i].to = job[i].to
         /\ \/ job'[i].was /\ job'[i].pc = "stop" /\ i[1] \in daemon.active
            \/ /\ ~job'[i].was /\ job'[i].pc = "mark"
               /\ i[1] \notin daemon.active \/ Fault("rpc")
         /\ \A k \in Jobs : k # i => job'[k] = job[k]
<1>1. PICK active \in BOOLEAN :
        /\ IF active THEN i[1] \in daemon.active
           ELSE i[1] \notin daemon.active \/ Fault("rpc")
        /\ job' = [job EXCEPT ![i].was = active,
                              ![i].pc = IF active THEN "stop" ELSE "mark"]
  BY DEF ReadActive
<1>2. i \in Jobs
  BY MovesAreJobs
<1>3. CASE active = TRUE
  <2>1. job' = [job EXCEPT ![i].was = TRUE, ![i].pc = "stop"] /\ i[1] \in daemon.active
    BY <1>1, <1>3
  <2> QED
    BY <1>2, <2>1 DEF JobRecords
<1>4. CASE active = FALSE
  <2>1. /\ job' = [job EXCEPT ![i].was = FALSE, ![i].pc = "mark"]
        /\ i[1] \notin daemon.active \/ Fault("rpc")
    BY <1>1, <1>4
  <2> QED
    BY <1>2, <2>1 DEF JobRecords
<1> QED
  BY <1>1, <1>3, <1>4

\* A step of a task is a transition of its own job.
LEMMA MoveStepJobs ==
  ASSUME Typed, NEW i \in Moves, MoveStep(i)
  PROVE  /\ \A k \in Jobs : k # i => job'[k] = job[k]
         /\ \/ job'[i] = Idle
            \/ /\ job'[i].from = job[i].from /\ job'[i].to = job[i].to
               /\ job'[i].pc # "idle" /\ job[i].pc # "idle"
               /\ ReadActive(i) \/ job'[i].was = job[i].was
         /\ UNCHANGED <<pollVars, envVars>>
<1>1. job \in [Jobs -> JobRecords] /\ i \in Jobs
  BY MovesAreJobs DEF Typed, TypeOK
<1>2. UNCHANGED <<pollVars, envVars>> /\ job[i].pc # "idle"
  BY DEF MoveStep, CopyStep, Begin, Gate, ReadActive, StopTorrent,
         MarkInProgress, CheckPaths, Rename, OpenCopy, PlaceFails, VerifyCopy,
         CancelCopy, CopyFails, EraseSource, EraseFails, RestartInPlace, EndInPlace,
         PointDaemon, ClearIntent, RestartHome, EndDone, Unregister
<1>3. CASE ReadActive(i)
  BY <1>1, <1>2, <1>3, ReadFields
<1>4. CASE ~ReadActive(i)
  <2>1. End(i) \/ \E pc \in Pcs \ {"idle"} : Goto(i, pc)
    BY <1>4 DEF MoveStep, CopyStep, Begin, Gate, StopTorrent,
         MarkInProgress, CheckPaths, Rename, OpenCopy, PlaceFails, VerifyCopy,
         CancelCopy, CopyFails, EraseSource, EraseFails, RestartInPlace, EndInPlace,
         PointDaemon, ClearIntent, RestartHome, EndDone, Unregister, Finish, Pcs, CopyPcs
  <2> QED
    BY <1>1, <1>2, <2>1, GotoFields, FieldsOfEnd
<1> QED
  BY <1>3, <1>4

\* A step of a task touches the row of its torrent only: it may start or stop
\* it, point it to the destination and clear its intent.
LEMMA MoveStepDaemon ==
  ASSUME Typed, NEW i \in Moves, MoveStep(i)
  PROVE  /\ daemon'.live = daemon.live /\ daemon'.complete = daemon.complete
         /\ \A u \in Torrents : u # i[1] =>
              /\ u \in daemon'.active <=> u \in daemon.active
              /\ daemon'.dir[u] = daemon.dir[u] /\ daemon'.finalDir[u] = daemon.finalDir[u]
         /\ daemon'.dir[i[1]] \in {daemon.dir[i[1]], job[i].to}
         /\ daemon'.finalDir[i[1]] \in {daemon.finalDir[i[1]], NoDir}
<1> DEFINE t == i[1]
<1>1. daemon \in Rows /\ t \in Torrents /\ i \in Jobs
  BY MovesAreJobs DEF Typed, TypeOK
<1>2. \/ daemon' \in {daemon, Started(t), Stopped(t)}
      \/ daemon' = Pointed(t, job[i].to) /\ job[i].to \in Dirs
      \/ \E ts \in SUBSET {t} : daemon' = Settled(ts)
  <2>1. CASE PointDaemon(i)
    <3>1. job[i].to \in Dirs
      BY <1>1, <2>1 DEF PointDaemon, Typed, JobsDirected, Working
    <3> QED
      BY <2>1, <3>1 DEF PointDaemon, Accepted, Refused
  <2>2. CASE ClearIntent(i)
    BY <2>2 DEF ClearIntent, BestEffort
  <2>3. CASE RestartInPlace(i) \/ RestartHome(i) \/ StopTorrent(i)
    BY <2>3 DEF RestartInPlace, RestartHome, StopTorrent, BestEffort, Accepted, Refused
  <2>4. CASE \/ Begin(i) \/ Gate(i) \/ ReadActive(i) \/ MarkInProgress(i) \/ CopyStep(i)
             \/ EndInPlace(i) \/ EndDone(i) \/ Unregister(i)
    <3>1. daemon' = daemon
      BY <2>4 DEF CopyStep, Begin, Gate, ReadActive, MarkInProgress, CheckPaths, Rename,
         OpenCopy, PlaceFails, VerifyCopy, CancelCopy, CopyFails, EraseSource, EraseFails,
         EndInPlace, EndDone, Unregister
    <3> QED
      BY <3>1
  <2> QED
    BY <2>1, <2>2, <2>3, <2>4 DEF MoveStep
<1>3. CASE daemon' \in {daemon, Started(t), Stopped(t)}
  <2>1. CASE daemon' = daemon
    BY <2>1
  <2>2. CASE daemon' = Started(t)
    BY <1>1, <2>2, StartFields
  <2>3. CASE daemon' = Stopped(t)
    BY <1>1, <2>3, StopFields
  <2> QED
    BY <1>3, <2>1, <2>2, <2>3
<1>4. CASE daemon' = Pointed(t, job[i].to) /\ job[i].to \in Dirs
  <2>1. daemon.dir \in [Torrents -> Dirs]
    BY <1>1 DEF Rows
  <2> QED
    BY <1>1, <1>4, <2>1, PointFields
<1>5. CASE \E ts \in SUBSET {t} : daemon' = Settled(ts)
  <2>1. PICK ts \in SUBSET {t} : daemon' = Settled(ts)
    BY <1>5
  <2> QED
    BY <1>1, <2>1, SettleFields
<1> QED
  BY <1>2, <1>3, <1>4, <1>5

\* A tick starts and holds torrents in its queue stage only, points torrents
\* where an interrupted entry says, and clears intents.
LEMMA TickRows ==
  ASSUME Typed, Tick
  PROVE  /\ daemon'.live = daemon.live /\ daemon'.complete = daemon.complete
         /\ RunQueue \/ daemon'.active = daemon.active
         /\ \A u \in Torrents :
              /\ daemon'.finalDir[u] \in {daemon.finalDir[u], NoDir}
              /\ \/ daemon'.dir[u] = daemon.dir[u]
                 \/ \E o \in todo : /\ RecoverLanded(o) /\ o.id[1] = u
                                    /\ daemon'.dir[u] = o.dst[1]
<1>1. daemon \in Rows
  BY DEF Typed, TypeOK
<1>2. CASE Fetch \/ ResumeMoves \/ PruneJournal \/ PlanMoves
           \/ \E o \in todo : RecoverOrphan(o) \/ RecoverAbsent(o)
  <2>1. daemon' = daemon
    BY <1>2 DEF Fetch, ResumeMoves, PruneJournal, PlanMoves, RecoverOrphan, RecoverAbsent
  <2> QED
    BY <2>1
<1>3. CASE \E o \in todo : RecoverLanded(o)
  <2>1. PICK o \in todo : RecoverLanded(o)
    BY <1>3
  <2> DEFINE t == o.id[1]
             pointed == Pointed(t, o.dst[1])
             cleared == [pointed EXCEPT !.finalDir[t] = NoDir]
  <2>2. t \in Torrents /\ o.dst[1] \in Dirs
    BY ConfigAssumption DEF Typed, TypeOK, MoveOps, OpIds
  <2>3. daemon' = daemon \/ daemon' = pointed \/ daemon' = cleared
    BY <2>1 DEF RecoverLanded, Accepted, Refused
  <2>4. daemon.dir \in [Torrents -> Dirs] /\ daemon.finalDir \in [Torrents -> Dirs \cup {NoDir}]
    BY <1>1 DEF Rows
  <2>5. CASE daemon' = daemon
    BY <2>5
  <2>6. CASE daemon' = pointed
    BY <1>1, <2>1, <2>2, <2>4, <2>6, PointFields
  <2>7. CASE daemon' = cleared
    <3>1. pointed \in Rows
      BY <1>1, <2>2, DaemonTyped
    <3>2. /\ pointed.live = daemon.live /\ pointed.complete = daemon.complete
          /\ pointed.active = daemon.active /\ pointed.finalDir = daemon.finalDir
          /\ pointed.dir = IF t \in daemon.live THEN [daemon.dir EXCEPT ![t] = o.dst[1]]
                           ELSE daemon.dir
      BY <1>1, <2>2, PointFields
    <3> HIDE DEF pointed
    <3>3. /\ daemon'.live = daemon.live /\ daemon'.complete = daemon.complete
          /\ daemon'.active = daemon.active /\ daemon'.dir = pointed.dir
          /\ daemon'.finalDir = [daemon.finalDir EXCEPT ![t] = NoDir]
      BY <2>7, <3>1, <3>2 DEF Rows
    <3> QED
      BY <2>1, <2>2, <2>4, <3>2, <3>3
  <2> QED
    BY <2>3, <2>5, <2>6, <2>7
<1>4. CASE SettleHomed
  <2>1. PICK ts : daemon' = Settled(ts)
    BY <1>4 DEF SettleHomed
  <2> QED
    BY <1>1, <2>1, SettleFields
<1>5. CASE RunQueue
  <2>1. PICK running : daemon' = [daemon EXCEPT !.active = running]
    BY <1>5 DEF RunQueue
  <2> QED
    BY <1>1, <1>5, <2>1 DEF Rows
<1> QED
  BY <1>2, <1>3, <1>4, <1>5 DEF Tick

\* The queue stage leaves alone whatever a task works on.
LEMMA QueueSparesTasks ==
  ASSUME Typed, ControlInv, RunQueue, NEW i \in Moves, Working(i)
  PROVE  i[1] \in daemon'.active <=> i[1] \in daemon.active
<1>1. i[1] \in BusyHashes
  BY DEF BusyHashes, ControlInv, HandlesAreTasks
<1>2. PICK hold, start :
        /\ i[1] \notin hold /\ i[1] \notin start
        /\ daemon' = [daemon EXCEPT !.active = (@ \ hold) \cup (start \cap daemon.live)]
  <2> DEFINE free == IF "queue" \in Commands THEN raw.live \ BusyHashes ELSE {}
  <2>1. i[1] \notin free
    BY <1>1
  <2>2. \E hold \in SUBSET (free \cap raw.active), start \in SUBSET (free \ raw.active) :
          daemon' = [daemon EXCEPT !.active = (@ \ hold) \cup (start \cap daemon.live)]
    BY DEF RunQueue
  <2> HIDE DEF free
  <2> QED
    BY <2>1, <2>2
<1>3. daemon'.active = (daemon.active \ hold) \cup (start \cap daemon.live)
  BY <1>2 DEF Typed, TypeOK, Rows
<1> QED
  BY <1>2, <1>3

\* The commands that are one call, and the arrival of the last piece.
LEMMA CommandRows ==
  ASSUME Typed, NEW t \in Torrents,
         \/ StartCommand(t) \/ StopCommand(t) \/ RetryMove(t) \/ RemoveTorrent(t)
         \/ CompleteDownload(t)
  PROVE  /\ daemon'.dir = daemon.dir /\ daemon'.finalDir = daemon.finalDir
         /\ \/ /\ StartCommand(t) /\ daemon'.active = daemon.active \cup {t}
               /\ daemon'.live = daemon.live /\ daemon'.complete = daemon.complete
            \/ /\ StopCommand(t) /\ daemon'.active = daemon.active \ {t}
               /\ daemon'.live = daemon.live /\ daemon'.complete = daemon.complete
            \/ RetryMove(t) /\ daemon' = daemon
            \/ /\ RemoveTorrent(t) /\ daemon'.active = daemon.active \ {t}
               /\ daemon'.live = daemon.live \ {t} /\ daemon'.complete = daemon.complete
            \/ /\ CompleteDownload(t) /\ daemon'.active = daemon.active
               /\ daemon'.live = daemon.live
               /\ daemon'.complete = daemon.complete \cup {t}
<1>1. daemon \in Rows
  BY DEF Typed, TypeOK
<1>2. CASE StartCommand(t)
  <2>1. daemon' = Started(t)
    BY <1>2 DEF StartCommand
  <2>2. t \in daemon.live
    BY <1>2 DEF StartCommand
  <2> QED
    BY <1>1, <1>2, <2>1, <2>2, StartFields
<1>3. CASE StopCommand(t)
  <2>1. daemon' = Stopped(t)
    BY <1>3 DEF StopCommand
  <2> QED
    BY <1>1, <1>3, <2>1, StopFields
<1>4. CASE RetryMove(t)
  <2>1. daemon' = daemon
    BY <1>4 DEF RetryMove
  <2> QED
    BY <1>4, <2>1
<1>5. CASE RemoveTorrent(t)
  <2>1. daemon' = Erased(t)
    BY <1>5 DEF RemoveTorrent
  <2> QED
    BY <1>1, <1>5, <2>1, EraseFields
<1>6. CASE CompleteDownload(t)
  <2>1. daemon' = [daemon EXCEPT !.complete = @ \cup {t}]
    BY <1>6 DEF CompleteDownload
  <2>2. /\ daemon'.dir = daemon.dir /\ daemon'.finalDir = daemon.finalDir
        /\ daemon'.active = daemon.active /\ daemon'.live = daemon.live
        /\ daemon'.complete = daemon.complete \cup {t}
    BY <1>1, <2>1 DEF Rows
  <2> QED
    BY <1>6, <2>2
<1> QED
  BY <1>2, <1>3, <1>4, <1>5, <1>6

\* Without relocations a request erases the torrent or throws its data away.
LEMMA TrashRows ==
  ASSUME Typed, RequestsOnlyTrash, NEW r \in Requests, RequestStep(r)
  PROVE  /\ EraseForTrash(r) \/ TrashData(r)
         /\ daemon'.dir = daemon.dir /\ daemon'.finalDir = daemon.finalDir
         /\ daemon'.complete = daemon.complete
         /\ \/ daemon'.live = daemon.live /\ daemon'.active = daemon.active
            \/ /\ daemon'.live = daemon.live \ {r[1]}
               /\ daemon'.active = daemon.active \ {r[1]}
<1>1. EraseForTrash(r) \/ TrashData(r)
  BY DEF RequestsOnlyTrash, RequestStep, CopyStep, StopForLocation, RestartAfterRequest,
         PointForLocation, ClearForLocation, RestartForLocation,
         CheckPaths, Rename, OpenCopy, PlaceFails, VerifyCopy,
         CancelCopy, CopyFails, EraseSource, EraseFails
<1>2. daemon' = daemon \/ daemon' = Erased(r[1])
  BY <1>1 DEF EraseForTrash, TrashData, Accepted, Refused
<1>3. CASE daemon' = daemon
  BY <1>1, <1>3
<1>4. CASE daemon' = Erased(r[1])
  <2>1. daemon \in Rows /\ r[1] \in Torrents
    BY MovesAreJobs DEF Typed, TypeOK
  <2> QED
    BY <1>1, <1>4, <2>1, EraseFields
<1> QED
  BY <1>2, <1>3, <1>4

\* Whatever else happens, a request goes on only by a step of its own.
LEMMA RequestsAlone ==
  ASSUME Typed, [Next]_vars
  PROVE  \/ \A r \in Requests : job'[r] = job[r]
         \/ \A r \in Requests : job'[r] = Idle
         \/ \E r \in Requests : RequestStep(r)
         \/ \E t \in Torrents : AskTrash(t) \/ \E d \in Dirs : AskLocation(t, d)
<1>1. job \in [Jobs -> JobRecords] /\ Requests \subseteq Jobs /\ Moves \cap Requests = {}
  BY MovesAreJobs DEF Typed, TypeOK
<1>2. CASE \/ Fetch \/ ResumeMoves \/ PruneJournal \/ SettleHomed \/ RunQueue
           \/ \E o \in todo : RecoverLanded(o) \/ RecoverOrphan(o) \/ RecoverAbsent(o)
           \/ \E i \in Moves : CancelMove(i)
           \/ \E t \in Torrents : \/ StartCommand(t) \/ StopCommand(t) \/ RetryMove(t)
                                \/ RemoveTorrent(t) \/ CompleteDownload(t)
           \/ UNCHANGED vars
  BY <1>2 DEF Fetch, ResumeMoves, PruneJournal, SettleHomed, RunQueue, RecoverLanded,
       RecoverOrphan, RecoverAbsent, CancelMove, StartCommand, StopCommand, RetryMove,
       RemoveTorrent, CompleteDownload, vars
<1>3. CASE PlanMoves
  <2> DEFINE ids == {NextId(t) : t \in {u \in DecideMoves(raw, BusyHashes) : FreeSlots(u) # {}}}
  <2>1. ids \subseteq Moves
    <3>1. DecideMoves(raw, BusyHashes) \in SUBSET Torrents
      BY DEF DecideMoves, Typed, TypeOK, Rows
    <3> QED
      BY <3>1, NextIdIsFree
  <2>2. \A j \in Jobs \ ids : job'[j] = job[j]
    BY <1>3 DEF PlanMoves
  <2> HIDE DEF ids
  <2> QED
    BY <1>1, <2>1, <2>2
<1>4. CASE \E i \in Moves : MoveStep(i)
  BY <1>1, <1>4, MoveStepJobs
<1>5. CASE Restart
  BY <1>1, <1>5 DEF Restart
<1> QED
  BY <1>2, <1>3, <1>4, <1>5 DEF Next, Tick, Operator

LEMMA RequestsTrashStep ==
  ASSUME Typed, Without(Relocations), RequestsOnlyTrash, [Next]_vars
  PROVE  RequestsOnlyTrash'
<1>1. job \in [Jobs -> JobRecords] /\ Requests \subseteq Jobs
  BY MovesAreJobs DEF Typed, TypeOK
<1>2. CASE \/ \A r \in Requests : job'[r] = job[r]
           \/ \A r \in Requests : job'[r] = Idle
  BY <1>2 DEF RequestsOnlyTrash, Idle
<1>3. CASE \E r \in Requests : RequestStep(r)
  <2>1. PICK r \in Requests : RequestStep(r)
    BY <1>3
  <2>2. End(r) \/ Goto(r, "trash")
    BY <2>1, TrashRows DEF EraseForTrash, TrashData
  <2>3. /\ job'[r].pc \in {"idle", "trash"}
        /\ \A k \in Jobs : k # r => job'[k] = job[k]
    BY <1>1, <2>2, GotoFields, FieldsOfEnd DEF Idle
  <2> QED
    BY <1>1, <2>3 DEF RequestsOnlyTrash
<1>4. CASE \E t \in Torrents : AskTrash(t) \/ \E d \in Dirs : AskLocation(t, d)
  <2>1. \A t \in Torrents, d \in Dirs : ~AskLocation(t, d)
    BY DEF Without, Relocations, AskLocation
  <2>2. PICK t \in Torrents : AskTrash(t)
    BY <1>4, <2>1
  <2>3. /\ job'[<<t, 0>>].pc = "remove"
        /\ \A k \in Jobs : k # <<t, 0>> => job'[k] = job[k]
    BY <1>1, <2>2 DEF AskTrash, Requests
  <2> QED
    BY <1>1, <2>3 DEF RequestsOnlyTrash
<1> QED
  BY <1>2, <1>3, <1>4, RequestsAlone

LEMMA RequestsTrashInit == Init => RequestsOnlyTrash
BY MovesAreJobs DEF Init, RequestsOnlyTrash, Idle

----------------------------------------------------------------------------
(* The torrent stands still while its files move. *)

LEMMA KeptStoppedStep ==
  ASSUME Typed, ControlInv, RequestsOnlyTrash, TasksKeepStopped, [Next]_vars,
         Without(Relocations \cup {"start"}), "rpc" \notin Faults
  PROVE  TasksKeepStopped'
<1> DEFINE held == {"mark"} \cup CopyPcs
<1>1. /\ job \in [Jobs -> JobRecords] /\ daemon \in Rows
      /\ Moves \subseteq Jobs /\ \A i \in Moves : i[1] \in Torrents
  BY MovesAreJobs DEF Typed, TypeOK
<1>2. CASE \E i \in Moves : MoveStep(i)
  <2>1. PICK i \in Moves : MoveStep(i)
    BY <1>2
  <2>2. ASSUME NEW k \in Moves, k # i, job'[k].pc \in held
        PROVE  k[1] \notin daemon'.active
    <3>1. job'[k] = job[k] /\ k[1] \notin daemon.active /\ Working(i) /\ Working(k)
      BY <1>1, <2>1, <2>2, MoveStepJobs, MoveStepEffect DEF TasksKeepStopped, Working, CopyPcs
    <3>2. k[1] # i[1]
      BY <2>2, <3>1 DEF ControlInv, OneTaskPerTorrent
    <3> QED
      BY <1>1, <2>1, <3>1, <3>2, MoveStepDaemon
  <2>3. ASSUME job'[i].pc \in held
        PROVE  i[1] \notin daemon'.active
    <3>1. CASE StopTorrent(i)
      <4>1. job'[i].pc # "unregister"
        BY <2>3 DEF CopyPcs
      <4>2. ~Goto(i, "unregister")
        BY <1>1, <4>1, GotoFields
      <4>3. daemon' = Stopped(i[1])
        BY <3>1, <4>2 DEF StopTorrent, Finish, Accepted
      <4> QED
        BY <1>1, <4>3, StopFields
    <3>2. CASE ReadActive(i)
      <4>1. i[1] \notin daemon.active /\ daemon' = daemon
        <5>1. job'[i].pc # "stop" /\ daemon' = daemon
          BY <2>3, <3>2 DEF CopyPcs, ReadActive
        <5> QED
          BY <1>1, <3>2, <5>1, ReadFields DEF Fault
      <4> QED
        BY <4>1
    <3>3. CASE MarkInProgress(i) \/ CopyStep(i)
      <4>1. job[i].pc \in held /\ daemon' = daemon
        BY <3>3 DEF MarkInProgress, CopyStep, CopyPcs, CheckPaths, Rename, OpenCopy,
             PlaceFails, VerifyCopy, CancelCopy, CopyFails, EraseSource, EraseFails
      <4> QED
        BY <4>1 DEF TasksKeepStopped
    <3>4. CASE \/ Begin(i) \/ Gate(i) \/ RestartInPlace(i) \/ EndInPlace(i) \/ PointDaemon(i)
               \/ ClearIntent(i) \/ RestartHome(i) \/ EndDone(i) \/ Unregister(i)
      <4>1. \/ End(i)
            \/ \E pc \in Pcs \ held : Goto(i, pc)
        <5>1. Gate(i) => \E pc \in {"unregister", "stop", "read"} : Goto(i, pc)
          BY DEF Gate, Finish
        <5> QED
          BY <3>4, <5>1 DEF Begin, RestartInPlace, EndInPlace, PointDaemon,
               ClearIntent, RestartHome, EndDone, Unregister, Finish, Pcs, CopyPcs
      <4>2. job'[i].pc \notin held
        BY <1>1, <4>1, GotoFields, FieldsOfEnd DEF Idle, CopyPcs
      <4> QED
        BY <2>3, <4>2
    <3> QED
      BY <2>1, <3>1, <3>2, <3>3, <3>4 DEF MoveStep
  <2> QED
    BY <2>2, <2>3 DEF TasksKeepStopped
<1>3. CASE Tick
  <2>1. ASSUME NEW k \in Moves, job'[k].pc \in held
        PROVE  k[1] \notin daemon'.active
    <3>1. job'[k] = job[k]
      <4>1. CASE PlanMoves
        <5>1. PICK new \in SUBSET Moves :
                /\ \A i \in new : job'[i].pc = "begin"
                /\ \A i \in Moves \ new : job'[i] = job[i]
          BY <4>1, PlanEffect
        <5> QED
          BY <2>1, <5>1 DEF CopyPcs
      <4>2. CASE ~PlanMoves
        <5>1. UNCHANGED job
          BY <1>3, <4>2 DEF Tick, Fetch, ResumeMoves, PruneJournal, SettleHomed, RunQueue,
               RecoverLanded, RecoverOrphan, RecoverAbsent
        <5> QED
          BY <5>1
      <4> QED
        BY <4>1, <4>2
    <3>2. k[1] \notin daemon.active /\ Working(k)
      BY <2>1, <3>1 DEF TasksKeepStopped, Working, CopyPcs
    <3>3. CASE RunQueue
      BY <3>2, <3>3, QueueSparesTasks
    <3>4. CASE ~RunQueue
      BY <1>3, <3>2, <3>4, TickRows
    <3> QED
      BY <3>3, <3>4
  <2> QED
    BY <2>1 DEF TasksKeepStopped
<1>4. CASE \E r \in Requests : RequestStep(r)
  <2>1. daemon'.active \subseteq daemon.active
    BY <1>4, TrashRows
  <2>2. \A k \in Moves : job'[k] = job[k]
    BY <1>4, RequestLeavesTasks
  <2> QED
    BY <2>1, <2>2 DEF TasksKeepStopped
<1>5. CASE \E t \in Torrents : \/ StartCommand(t) \/ StopCommand(t) \/ RetryMove(t)
                             \/ RemoveTorrent(t) \/ CompleteDownload(t)
  <2>1. \A t \in Torrents : ~StartCommand(t)
    BY DEF Without, StartCommand
  <2>2. daemon'.active \subseteq daemon.active
    BY <1>5, <2>1, CommandRows
  <2>3. UNCHANGED job
    BY <1>5 DEF StartCommand, StopCommand, RetryMove, RemoveTorrent, CompleteDownload
  <2> QED
    BY <2>2, <2>3 DEF TasksKeepStopped
<1>6. CASE \/ \E t \in Torrents : AskTrash(t) \/ \E d \in Dirs : AskLocation(t, d)
           \/ \E i \in Moves : CancelMove(i)
           \/ UNCHANGED vars
  <2>1. \A k \in Moves : job'[k] = job[k]
    BY <1>6, RequestLeavesTasks DEF CancelMove, vars
  <2>2. UNCHANGED daemon
    BY <1>6 DEF AskTrash, AskLocation, CancelMove, vars
  <2> QED
    BY <2>1, <2>2 DEF TasksKeepStopped
<1>7. CASE Restart
  BY <1>1, <1>7 DEF Restart, TasksKeepStopped, Idle, CopyPcs
<1> QED
  BY <1>2, <1>3, <1>4, <1>5, <1>6, <1>7 DEF Next, Operator

\* The files of a torrent are not touched while the daemon runs it, if nobody
\* starts or relocates torrents by hand and the daemon answers: the queue, the
\* kills and the failures of the disk do not start it (StopTorrent waits for
\* the stop, ReadActive asks again, and the queue skips BusyHashes).
THEOREM FilesStayStopped ==
  ASSUME Without(Relocations \cup {"start"}), "rpc" \notin Faults
  PROVE  Spec => []StoppedWhileMoving
<1> DEFINE Inv == Typed /\ ControlInv /\ RequestsOnlyTrash /\ TasksKeepStopped
<1>1. Init => Inv
  BY InitTyped, InitControlled, RequestsTrashInit, MovesAreJobs
     DEF Init, TasksKeepStopped, Idle, CopyPcs
<1>2. Inv /\ [Next]_vars => Inv'
  <2>1. Without(Relocations)
    BY DEF Without
  <2> QED
    BY <2>1, TypedStep, ControlStep, RequestsTrashStep, KeptStoppedStep
<1>3. Inv => StoppedWhileMoving
  BY DEF TasksKeepStopped, StoppedWhileMoving, OnDisk
<1> QED
  BY <1>1, <1>2, <1>3, PTL DEF Spec

----------------------------------------------------------------------------
(* A torrent that ran before its move runs again. *)

NothingAsked == \A r \in Requests : job[r].pc = "idle"

LEMMA NothingAskedStep ==
  ASSUME Typed, Without(Relocations), "trash" \notin Commands, NothingAsked, [Next]_vars
  PROVE  NothingAsked' /\ \A r \in Requests : ~RequestStep(r)
<1>1. \A r \in Requests : ~RequestStep(r)
  BY DEF NothingAsked, RequestStep, CopyStep, StopForLocation, RestartAfterRequest,
         PointForLocation, ClearForLocation, RestartForLocation, EraseForTrash, TrashData,
         CheckPaths, Rename, OpenCopy, PlaceFails, VerifyCopy,
         CancelCopy, CopyFails, EraseSource, EraseFails
<1>2. \A t \in Torrents : ~AskTrash(t) /\ \A d \in Dirs : ~AskLocation(t, d)
  BY DEF Without, Relocations, AskLocation, AskTrash
<1> QED
  BY <1>1, <1>2, RequestsAlone DEF NothingAsked, Idle

\* The tasks a tick plans, as planned from the rows it fetched.
LEMMA PlanJobs ==
  ASSUME Typed, PlanMoves
  PROVE  \E new \in SUBSET Moves :
           /\ \A i \in new : /\ job'[i] = [pc |-> "begin", from |-> raw.dir[i[1]],
                                           to |-> Destination(i[1], raw.finalDir[i[1]]),
                                           was |-> i[1] \in raw.active]
                             /\ i[1] \in raw.live \cap raw.complete
                             /\ i[1] \notin BusyHashes /\ HasPlan(raw, i[1])
           /\ \A j \in Jobs \ new : job'[j] = job[j]
<1> DEFINE planned == {u \in DecideMoves(raw, BusyHashes) : FreeSlots(u) # {}}
           ids == {NextId(t) : t \in planned}
<1>1. job' = [j \in Jobs |->
                IF j \in ids
                THEN [pc |-> "begin", from |-> raw.dir[j[1]],
                      to |-> Destination(j[1], raw.finalDir[j[1]]),
                      was |-> j[1] \in raw.active]
                ELSE job[j]]
  BY DEF PlanMoves
<1>2. \A t \in planned : /\ t \in Torrents /\ t \in raw.live \cap raw.complete
                         /\ t \notin BusyHashes /\ HasPlan(raw, t) /\ FreeSlots(t) # {}
  BY DEF DecideMoves, Typed, TypeOK, Rows
<1>3. \A i \in ids : i \in Moves /\ i[1] \in planned
  BY <1>2, NextIdIsFree
<1> HIDE DEF ids, planned
<1>4. ids \in SUBSET Moves
  BY <1>3
<1>5. \A j \in Jobs \ ids : job'[j] = job[j]
  BY <1>1
<1>6. \A i \in ids : job'[i] = [pc |-> "begin", from |-> raw.dir[i[1]],
                                to |-> Destination(i[1], raw.finalDir[i[1]]),
                                was |-> i[1] \in raw.active]
  BY <1>1, <1>3, MovesAreJobs
<1> QED
  BY <1>2, <1>3, <1>4, <1>5, <1>6

\* Every tick but one that plans leaves the jobs alone, and what it fetched
\* until it ends.
LEMMA TickJobs ==
  ASSUME Tick, ~PlanMoves
  PROVE  /\ UNCHANGED job
         /\ \/ UNCHANGED raw
            \/ Fetch /\ raw' = daemon
            \/ RunQueue /\ raw' = NoRows
BY DEF Tick, Fetch, ResumeMoves, PruneJournal, SettleHomed, RunQueue,
       RecoverLanded, RecoverOrphan, RecoverAbsent

\* Its steps hand the debt of a task on to the daemon, which takes every call.
LEMMA TaskOwes ==
  ASSUME Typed, RunningIsOwed, "rpc" \notin Faults, NEW i \in Moves, MoveStep(i)
  PROVE  /\ i[1] \in daemon.active \/ Owes(i) => i[1] \in daemon'.active \/ Owes(i)'
         /\ job'[i].pc = "stop" => job'[i].was
         /\ job'[i].was /\ Working(i)' /\ ~Owes(i)' => i[1] \in daemon'.active
<1> DEFINE t == i[1]
           owing == {"mark", "failed", "cancelled", "pointer", "clear", "restart"} \cup CopyPcs
<1>1. /\ job \in [Jobs -> JobRecords] /\ daemon \in Rows /\ i \in Jobs /\ t \in Torrents
      /\ t \in daemon.live /\ ~Fault("rpc")
  BY MovesAreJobs DEF Typed, TypeOK, RunningIsOwed, Fault
<1>2. /\ job[i].pc = "stop" => job[i].was
      /\ job[i].was /\ Working(i) /\ ~Owes(i) => t \in daemon.active
  BY DEF RunningIsOwed
<1>3. CASE Begin(i) \/ Gate(i) \/ EndInPlace(i) \/ EndDone(i) \/ Unregister(i)
  <2>1. daemon' = daemon /\ job[i].pc \notin owing /\ Working(i)
    BY <1>3 DEF Begin, Gate, EndInPlace, EndDone, Unregister, Working, CopyPcs
  <2>2. \/ End(i)
        \/ \E pc \in {"gate", "stop", "read", "unregister"} :
             Goto(i, pc) /\ (pc = "stop" => job[i].was)
    BY <1>3 DEF Begin, Gate, EndInPlace, EndDone, Unregister, Finish
  <2>3. \/ job'[i] = Idle
        \/ /\ job'[i].was = job[i].was /\ job'[i].pc \in {"gate", "stop", "read", "unregister"}
           /\ job'[i].pc = "stop" => job[i].was
    BY <1>1, <2>2, FieldsOfEnd, GotoFields
  <2>4. Idle.pc = "idle"
    BY DEF Idle
  <2> QED
    BY <1>2, <2>1, <2>3, <2>4 DEF Owes, Working, CopyPcs
<1>4. CASE ReadActive(i)
  <2>1. job[i].pc = "read" /\ daemon' = daemon
    BY <1>4 DEF ReadActive
  <2>2. \/ job'[i].was /\ job'[i].pc = "stop" /\ t \in daemon.active
        \/ ~job'[i].was /\ job'[i].pc = "mark"
    BY <1>1, <1>4, ReadFields
  <2> QED
    BY <2>1, <2>2 DEF Owes, CopyPcs
<1>5. CASE StopTorrent(i)
  <2>1. daemon' = Stopped(t) /\ Goto(i, "mark") /\ job[i].was
    BY <1>1, <1>2, <1>5 DEF StopTorrent, Accepted, Refused
  <2>2. job'[i].was = job[i].was /\ job'[i].pc = "mark"
    BY <1>1, <2>1, GotoFields
  <2> QED
    BY <2>1, <2>2 DEF Owes
<1>6. CASE MarkInProgress(i) \/ CopyStep(i) \/ PointDaemon(i) \/ ClearIntent(i)
  <2>1. daemon'.active = daemon.active
    <3>1. CASE PointDaemon(i)
      <4>1. job[i].to \in Dirs
        BY <1>1, <3>1 DEF PointDaemon, Typed, JobsDirected, Working
      <4>2. daemon' = Pointed(t, job[i].to)
        BY <1>1, <3>1 DEF PointDaemon, Accepted, Refused
      <4> QED
        BY <1>1, <4>1, <4>2, PointFields
    <3>2. CASE ClearIntent(i)
      BY <1>1, <3>2, SettleFields DEF ClearIntent, BestEffort
    <3>3. CASE MarkInProgress(i) \/ CopyStep(i)
      BY <3>3 DEF MarkInProgress, CopyStep, CheckPaths, Rename, OpenCopy,
           PlaceFails, VerifyCopy, CancelCopy, CopyFails, EraseSource, EraseFails
    <3> QED
      BY <1>6, <3>1, <3>2, <3>3
  <2>2. job[i].pc \in owing /\ \E pc \in owing : Goto(i, pc)
    <3>1. PointDaemon(i) => job[i].pc = "pointer" /\ Goto(i, "clear")
      BY <1>1 DEF PointDaemon, Refused
    <3> QED
      BY <1>6, <3>1 DEF MarkInProgress, ClearIntent, CopyStep, CheckPaths, Rename, OpenCopy,
           PlaceFails, VerifyCopy, CancelCopy, CopyFails, EraseSource, EraseFails, CopyPcs
  <2>3. job'[i].was = job[i].was /\ job'[i].pc \in owing
    BY <1>1, <2>2, GotoFields
  <2> QED
    BY <1>2, <2>1, <2>2, <2>3 DEF Owes, Working, CopyPcs
<1>7. CASE RestartInPlace(i) \/ RestartHome(i)
  <2>1. job[i].pc \in owing
    BY <1>7 DEF RestartInPlace, RestartHome
  <2>2. \E pc \in {"endFailed", "endCancelled", "endDone"} : Goto(i, pc)
    BY <1>7 DEF RestartInPlace, RestartHome
  <2>3. job'[i].was = job[i].was /\ job'[i].pc \in {"endFailed", "endCancelled", "endDone"}
    BY <1>1, <2>2, GotoFields
  <2>4. IF job[i].was THEN daemon' = Started(t) ELSE daemon' = daemon
    BY <1>1, <1>7 DEF RestartInPlace, RestartHome, BestEffort
  <2>5. IF job[i].was THEN t \in daemon'.active ELSE daemon' = daemon
    BY <1>1, <2>4, StartFields
  <2> QED
    BY <1>2, <2>1, <2>3, <2>5 DEF Owes
<1> QED
  BY <1>3, <1>4, <1>5, <1>6, <1>7 DEF MoveStep

LEMMA RunningOwedStep ==
  ASSUME Typed, ControlInv, NothingAsked, RunningIsOwed, [Next]_vars,
         Without(Relocations \cup Removals \cup {"stop"}), "rpc" \notin Faults
  PROVE  RunningIsOwed'
<1>1. /\ job \in [Jobs -> JobRecords] /\ daemon \in Rows /\ raw \in Rows
      /\ Moves \subseteq Jobs /\ \A i \in Moves : i[1] \in Torrents
  BY MovesAreJobs DEF Typed, TypeOK
<1>2. \A i \in Moves : Owes(i) => Working(i)
  BY DEF Owes, Working, CopyPcs
<1>3. /\ daemon.live = Torrents
      /\ \A u \in raw.active : u \in daemon.active \/ \E i \in Moves : i[1] = u /\ Owes(i)
      /\ \A i \in Moves :
           /\ job[i].pc = "stop" => job[i].was
           /\ job[i].was /\ Working(i) /\ ~Owes(i) => i[1] \in daemon.active
  BY DEF RunningIsOwed
<1>4. CASE \E i \in Moves : MoveStep(i)
  <2>1. PICK i \in Moves : MoveStep(i)
    BY <1>4
  <2>2. /\ Working(i) /\ raw' = raw
        /\ \A k \in Jobs : k # i => job'[k] = job[k]
    BY <2>1, MoveStepJobs, MoveStepEffect DEF pollVars
  <2>3. /\ daemon'.live = daemon.live
        /\ \A u \in Torrents : u # i[1] => (u \in daemon'.active <=> u \in daemon.active)
    BY <2>1, MoveStepDaemon
  <2>4. \A k \in Moves : k # i /\ Working(k) => k[1] # i[1]
    BY <2>2 DEF ControlInv, OneTaskPerTorrent
  <2>5. \A k \in Moves : k # i => (Owes(k)' <=> Owes(k)) /\ (Working(k)' <=> Working(k))
    BY <1>1, <2>2 DEF Owes, Working
  <2>6. ASSUME NEW u \in raw'.active
        PROVE  u \in daemon'.active \/ \E k \in Moves : k[1] = u /\ Owes(k)'
    <3>1. u \in Torrents
      BY <1>1, <2>2 DEF Rows
    <3>2. CASE u = i[1]
      <4>1. u \in daemon.active \/ Owes(i)
        BY <1>2, <1>3, <2>2, <2>4, <3>2
      <4> QED
        BY <2>1, <3>2, <4>1, TaskOwes
    <3>3. CASE u # i[1]
      BY <1>3, <2>2, <2>3, <2>5, <3>1, <3>3
    <3> QED
      BY <3>2, <3>3
  <2>7. ASSUME NEW k \in Moves
        PROVE  /\ job'[k].pc = "stop" => job'[k].was
               /\ job'[k].was /\ Working(k)' /\ ~Owes(k)' => k[1] \in daemon'.active
    <3>1. CASE k = i
      BY <2>1, <3>1, TaskOwes
    <3>2. CASE k # i
      BY <1>1, <1>3, <2>2, <2>3, <2>4, <2>5, <3>2
    <3> QED
      BY <3>1, <3>2
  <2> QED
    BY <1>3, <2>3, <2>6, <2>7 DEF RunningIsOwed
<1>5. ASSUME \A i \in Moves : job'[i] = job[i],
             raw' = raw \/ raw' = daemon \/ raw' = NoRows,
             daemon'.live = daemon.live, daemon.active \subseteq daemon'.active
      PROVE  RunningIsOwed'
  <2>1. \A i \in Moves : (Owes(i)' <=> Owes(i)) /\ (Working(i)' <=> Working(i))
    BY <1>5 DEF Owes, Working
  <2>2. NoRows.active = {}
    BY DEF NoRows
  <2> QED
    BY <1>3, <1>5, <2>1, <2>2 DEF RunningIsOwed
<1>6. CASE Tick
  <2>1. CASE PlanMoves
    <3>1. PICK new \in SUBSET Moves :
            /\ \A i \in new : /\ job'[i] = [pc |-> "begin", from |-> raw.dir[i[1]],
                                            to |-> Destination(i[1], raw.finalDir[i[1]]),
                                            was |-> i[1] \in raw.active]
                              /\ i[1] \notin BusyHashes
            /\ \A j \in Jobs \ new : job'[j] = job[j]
      BY <2>1, PlanJobs
    <3>2. raw' = raw /\ daemon' = daemon
      BY <2>1 DEF PlanMoves
    <3>3. \A i \in Moves : Working(i) => i[1] \in BusyHashes
      BY DEF BusyHashes, ControlInv, HandlesAreTasks
    <3>4. ASSUME NEW i \in new
          PROVE  /\ job'[i].pc = "begin" /\ (job'[i].was <=> i[1] \in raw.active)
                 /\ ~Working(i)
      <4>1. ~Working(i)
        BY <3>1, <3>3
      <4>2. DEFINE ran == i[1] \in raw.active
      <4>3. /\ job'[i].pc = "begin"
            /\ job'[i].was = ran
        <5>1. job'[i] = [pc |-> "begin", from |-> raw.dir[i[1]],
                         to |-> Destination(i[1], raw.finalDir[i[1]]), was |-> ran]
          BY <3>1, Zenon
        <5> HIDE DEF ran
        <5> QED
          BY <5>1
      <4> QED
        BY <4>1, <4>3
    <3>5. \A k \in Moves \ new : job'[k] = job[k]
      BY <1>1, <3>1
    <3>6. \A k \in Moves \ new : (Owes(k)' <=> Owes(k)) /\ (Working(k)' <=> Working(k))
      BY <3>5 DEF Owes, Working
    <3>7. \A i \in new : ~Owes(i) /\ ~Owes(i)'
      BY <1>2, <3>4 DEF Owes, CopyPcs
    <3>8. ASSUME NEW k \in Moves
          PROVE  /\ job'[k].pc = "stop" => job'[k].was
                 /\ job'[k].was /\ Working(k)' /\ ~Owes(k)' => k[1] \in daemon'.active
      <4>1. CASE k \in new
        <5>1. k[1] \in raw.active => k[1] \in daemon.active
          BY <1>2, <1>3, <3>1, <3>3, <4>1
        <5> QED
          BY <3>2, <3>4, <4>1, <5>1
      <4>2. CASE k \notin new
        BY <1>3, <3>2, <3>5, <3>6, <4>2
      <4> QED
        BY <4>1, <4>2
    <3>9. \A u \in raw'.active : u \in daemon'.active \/ \E k \in Moves : k[1] = u /\ Owes(k)'
      BY <1>3, <3>2, <3>6, <3>7
    <3> QED
      BY <1>3, <3>2, <3>8, <3>9 DEF RunningIsOwed
  <2>2. CASE RunQueue
    <3>1. UNCHANGED job /\ raw' = NoRows /\ NoRows.active = {}
      BY <2>2 DEF RunQueue, NoRows
    <3>2. daemon'.live = daemon.live
      BY <1>6, TickRows
    <3>3. \A i \in Moves : Working(i) => (i[1] \in daemon'.active <=> i[1] \in daemon.active)
      BY <2>2, QueueSparesTasks
    <3> QED
      BY <1>3, <3>1, <3>2, <3>3 DEF RunningIsOwed, Owes, Working
  <2>3. CASE ~PlanMoves /\ ~RunQueue
    <3>1. UNCHANGED job /\ (raw' = raw \/ raw' = daemon)
      BY <1>6, <2>3, TickJobs
    <3>2. daemon'.live = daemon.live /\ daemon'.active = daemon.active
      BY <1>6, <2>3, TickRows
    <3> QED
      BY <1>5, <3>1, <3>2
  <2> QED
    BY <2>1, <2>2, <2>3
<1>7. /\ \A t \in Torrents : /\ ~AskTrash(t) /\ ~StopCommand(t) /\ ~RemoveTorrent(t)
                             /\ \A d \in Dirs : ~AskLocation(t, d)
      /\ \A r \in Requests : ~RequestStep(r)
  <2>1. Without(Relocations) /\ "trash" \notin Commands
    BY DEF Without, Removals
  <2>2. \A r \in Requests : ~RequestStep(r)
    BY <2>1, NothingAskedStep
  <2> QED
    BY <2>2 DEF Without, Relocations, Removals, AskTrash, AskLocation, StopCommand,
         RemoveTorrent
<1>8. CASE \E t \in Torrents : StartCommand(t) \/ RetryMove(t) \/ CompleteDownload(t)
  <2>1. PICK t \in Torrents : StartCommand(t) \/ RetryMove(t) \/ CompleteDownload(t)
    BY <1>8
  <2>2. UNCHANGED job /\ raw' = raw
    BY <2>1 DEF StartCommand, RetryMove, CompleteDownload, pollVars
  <2>3. daemon'.live = daemon.live /\ daemon.active \subseteq daemon'.active
    BY <1>7, <2>1, CommandRows
  <2> QED
    BY <1>5, <2>2, <2>3
<1>9. CASE (\E i \in Moves : CancelMove(i)) \/ UNCHANGED vars
  BY <1>5, <1>9 DEF CancelMove, pollVars, vars
<1>10. CASE Restart
  <2>1. /\ \A i \in Moves : job'[i] = Idle
        /\ raw' = NoRows /\ NoRows.active = {} /\ daemon' = daemon
    BY <1>1, <1>10 DEF Restart, NoRows
  <2> QED
    BY <1>3, <2>1 DEF RunningIsOwed, Owes, Working, Idle
<1> QED
  BY <1>4, <1>6, <1>7, <1>8, <1>9, <1>10 DEF Next, Operator

\* A torrent that ran before its move runs again when its task ends, if every
\* call reaches the daemon and nobody stops, removes or relocates torrents by
\* hand: the flag read before the stop outlives failure and cancel, and no
\* tick acts on rows in which the stop of a task still shows.
THEOREM MovedRunAgain ==
  ASSUME Without(Relocations \cup Removals \cup {"stop"}), "rpc" \notin Faults
  PROVE  Spec => []RunsAgainAfterMove
<1> DEFINE Inv == Typed /\ ControlInv /\ NothingAsked /\ RunningIsOwed
<1>1. Init => Inv
  <2>1. Init => NothingAsked
    BY MovesAreJobs DEF Init, NothingAsked, Idle
  <2>2. Init => RunningIsOwed
    BY MovesAreJobs DEF Init, RunningIsOwed, Owes, Working, NoRows, Idle
  <2> QED
    BY <2>1, <2>2, InitTyped, InitControlled
<1>2. Inv /\ [Next]_vars => Inv'
  <2>1. Without(Relocations) /\ "trash" \notin Commands
    BY DEF Without, Removals
  <2> QED
    BY <2>1, TypedStep, ControlStep, NothingAskedStep, RunningOwedStep
<1>3. Inv => RunsAgainAfterMove
  BY DEF RunningIsOwed, RunsAgainAfterMove, Owes, Working, CopyPcs
<1> QED
  BY <1>1, <1>2, <1>3, PTL DEF Spec

----------------------------------------------------------------------------
(* The journal file knows of every move that may have changed the disk. *)

\* A request never revives a torrent, and downloads nothing.
LEMMA RequestLives ==
  ASSUME Typed, NEW r \in Requests, RequestStep(r)
  PROVE  daemon'.live \subseteq daemon.live /\ daemon'.complete = daemon.complete
<1> DEFINE t == r[1]
<1>1. daemon \in Rows /\ t \in Torrents /\ r \in Jobs
  BY MovesAreJobs DEF Typed, TypeOK
<1>2. \/ daemon' \in {daemon, Started(t), Stopped(t), Erased(t)}
      \/ daemon' = Pointed(t, job[r].to) /\ job[r].to \in Dirs
      \/ \E ts \in SUBSET {t} : daemon' = Settled(ts)
  <2>1. CASE PointForLocation(r)
    <3>1. job[r].to \in Dirs
      BY <1>1, <2>1 DEF PointForLocation, Typed, JobsDirected, Working
    <3> QED
      BY <2>1, <3>1 DEF PointForLocation, Accepted, Refused
  <2>2. CASE ClearForLocation(r)
    BY <2>2 DEF ClearForLocation, BestEffort
  <2>3. CASE \/ StopForLocation(r) \/ RestartAfterRequest(r) \/ RestartForLocation(r)
             \/ EraseForTrash(r)
    BY <2>3 DEF StopForLocation, RestartAfterRequest, RestartForLocation, EraseForTrash,
         BestEffort, Accepted, Refused
  <2>4. CASE CopyStep(r) \/ TrashData(r)
    <3>1. daemon' = daemon
      BY <2>4 DEF CopyStep, TrashData, CheckPaths, Rename, OpenCopy, PlaceFails,
           VerifyCopy, CancelCopy, CopyFails, EraseSource, EraseFails
    <3> QED
      BY <3>1
  <2> QED
    BY <2>1, <2>2, <2>3, <2>4 DEF RequestStep
<1>3. /\ Started(t).live = daemon.live /\ Stopped(t).live = daemon.live
      /\ Erased(t).live \subseteq daemon.live
      /\ Started(t).complete = daemon.complete /\ Stopped(t).complete = daemon.complete
      /\ Erased(t).complete = daemon.complete
  BY <1>1, StartFields, StopFields, EraseFields
<1>4. CASE daemon' \in {daemon, Started(t), Stopped(t), Erased(t)}
  BY <1>3, <1>4
<1>5. CASE daemon' = Pointed(t, job[r].to) /\ job[r].to \in Dirs
  BY <1>1, <1>5, PointFields
<1>6. CASE \E ts \in SUBSET {t} : daemon' = Settled(ts)
  BY <1>1, <1>6, SettleFields
<1> QED
  BY <1>2, <1>4, <1>5, <1>6

\* Nothing revives a torrent or makes it incomplete.
LEMMA LivesShrink ==
  ASSUME Typed, [Next]_vars
  PROVE  daemon'.live \subseteq daemon.live /\ daemon.complete \subseteq daemon'.complete
<1>1. CASE Tick
  BY <1>1, TickRows
<1>2. CASE \E i \in Moves : MoveStep(i)
  BY <1>2, MoveStepDaemon
<1>3. CASE \E r \in Requests : RequestStep(r)
  BY <1>3, RequestLives
<1>4. CASE \E t \in Torrents : \/ StartCommand(t) \/ StopCommand(t) \/ RetryMove(t)
                             \/ RemoveTorrent(t) \/ CompleteDownload(t)
  BY <1>4, CommandRows
<1>5. CASE \/ \E t \in Torrents : AskTrash(t) \/ \E d \in Dirs : AskLocation(t, d)
           \/ \E i \in Moves : CancelMove(i)
           \/ UNCHANGED vars \/ Restart
  BY <1>5 DEF AskTrash, AskLocation, CancelMove, vars, Restart
<1> QED
  BY <1>1, <1>2, <1>3, <1>4, <1>5 DEF Next, Operator

Early == {"gate", "read", "stop", "mark"}

Backed(i) ==
  i[1] \in daemon.live /\ job[i].pc \notin {"idle", "begin", "unregister"} =>
    \E o \in journal :
      o.id = i /\ o.dst = Target(i) /\ (job[i].pc \notin Early => o.state = "InProgress")

LEMMA BackedIs ==
  EntriesBack <=> /\ journalFile = journal
                  /\ phase # "rest" => daemon.live \subseteq raw.live
                  /\ \A i \in Moves : Backed(i)
BY DEF EntriesBack, Backed, Early

\* The entry of a task that does not move stays if it is kept while it is
\* unfinished and its torrent lives.
LEMMA EntryStays ==
  ASSUME JournalInv, NEW k \in Moves, Backed(k),
         job'[k] = job[k], daemon'.live \subseteq daemon.live,
         \A o \in journal :
           /\ o.id = k /\ o.state \in {"Pending", "InProgress"} /\ k[1] \in daemon.live
           => o \in journal'
  PROVE  Backed(k)'
<1> SUFFICES ASSUME k[1] \in daemon'.live, job'[k].pc \notin {"idle", "begin", "unregister"}
             PROVE  \E o \in journal' :
                      /\ o.id = k /\ o.dst = Target(k)'
                      /\ job'[k].pc \notin Early => o.state = "InProgress"
  BY DEF Backed
<1>1. PICK o \in journal : /\ o.id = k /\ o.dst = Target(k)
                           /\ job[k].pc \notin Early => o.state = "InProgress"
  BY DEF Backed
<1>2. o.state \in {"Pending", "InProgress"}
  BY <1>1 DEF JournalInv, TasksOwnEntries
<1>3. Target(k)' = Target(k)
  BY DEF Target, Place
<1> QED
  BY <1>1, <1>2, <1>3

LEMMA OthersKept ==
  ASSUME NEW J, NEW o \in J, NEW id, o.id # id
  PROVE  /\ \A s : o \in Mark(J, id, s)
         /\ \A p : o \in Redirect(J, id, p)
BY DEF Mark, Redirect

\* Without a failing save the file is the journal.
LEMMA FileIsJournal ==
  ASSUME Typed, [Next]_vars, journalFile = journal, "save" \notin Faults
  PROVE  journalFile' = journal'
<1>1. \A entries : Journal(entries) => journalFile' = journal'
  BY DEF Journal, Fault
<1>2. CASE Tick
  BY <1>1, <1>2 DEF Tick, Fetch, ResumeMoves, PruneJournal, SettleHomed, PlanMoves, RunQueue,
       RecoverLanded, RecoverOrphan, RecoverAbsent, storeVars
<1>3. CASE \E i \in Moves : MoveStep(i)
  BY <1>1, <1>3 DEF MoveStep, CopyStep, Begin, Gate, ReadActive, StopTorrent,
         MarkInProgress, CheckPaths, Rename, OpenCopy, PlaceFails, VerifyCopy,
         CancelCopy, CopyFails, EraseSource, EraseFails, RestartInPlace, EndInPlace,
         PointDaemon, ClearIntent, RestartHome, EndDone, Unregister, Finish, storeVars
<1>4. CASE \/ \E r \in Requests : RequestStep(r)
           \/ \E t \in Torrents : AskTrash(t) \/ \E d \in Dirs : AskLocation(t, d)
  BY <1>4, RequestSameTasks DEF storeVars
<1>5. CASE \/ \E t \in Torrents : \/ StartCommand(t) \/ StopCommand(t) \/ RetryMove(t)
                                \/ RemoveTorrent(t) \/ CompleteDownload(t)
           \/ \E i \in Moves : CancelMove(i)
           \/ UNCHANGED vars \/ Restart
  BY <1>1, <1>5 DEF StartCommand, StopCommand, RetryMove, RemoveTorrent, CompleteDownload,
       CancelMove, vars, Restart, storeVars
<1> QED
  BY <1>2, <1>3, <1>4, <1>5 DEF Next, Operator

\* A task keeps its own entry and leaves the others alone.
LEMMA TaskBacked ==
  ASSUME Typed, ControlInv, JournalInv, EntriesBack, NEW i \in Moves, MoveStep(i),
         "save" \notin Faults, ~AutoRename
  PROVE  \A k \in Moves : Backed(k)'
<1>1. /\ job \in [Jobs -> JobRecords] /\ i \in Jobs /\ Moves \subseteq Jobs
      /\ journal \in SUBSET MoveOps
      /\ \A k \in Moves : Backed(k)
  BY BackedIs, MovesAreJobs DEF Typed, TypeOK
<1>2. /\ \A k \in Jobs : k # i => job'[k] = job[k]
      /\ daemon'.live = daemon.live
  BY MoveStepJobs, MoveStepDaemon
<1>3. \/ UNCHANGED journal
      \/ \E o \in MoveOps : journal' = journal \cup {o}
      \/ \E s \in MoveStates : journal' = Mark(journal, i, s)
      \/ \E p : journal' = Redirect(journal, i, p)
  <2>1. CASE Begin(i)
    <3> DEFINE op == [id |-> i, state |-> "Pending", dst |-> Place(job[i].to, i[1])]
    <3>1. op \in MoveOps
      <4>1. job[i].to \in Dirs /\ i[1] \in Torrents
        BY <1>1, <2>1, MovesAreJobs DEF Begin, Typed, JobsDirected, Working
      <4> QED
        BY <4>1, PlacesArePaths DEF MoveOps, Moves, MoveStates
    <3>2. journal' \in {journal, Add(journal, op)}
      BY <2>1 DEF Begin, Journal
    <3> HIDE DEF op
    <3> QED
      BY <3>1, <3>2 DEF Add
  <2>2. CASE Gate(i) \/ StopTorrent(i) \/ MarkInProgress(i) \/ EndInPlace(i) \/ PointDaemon(i)
             \/ EndDone(i)
    BY <2>2 DEF Gate, StopTorrent, MarkInProgress, EndInPlace, PointDaemon, EndDone, Finish,
         Journal, MoveStates
  <2>3. CASE ReadActive(i) \/ CopyStep(i) \/ RestartInPlace(i) \/ ClearIntent(i)
             \/ RestartHome(i) \/ Unregister(i)
    BY <2>3 DEF ReadActive, RestartInPlace, ClearIntent, RestartHome, Unregister, CopyStep,
         CheckPaths, Rename, OpenCopy, PlaceFails, VerifyCopy,
         CancelCopy, CopyFails, EraseSource, EraseFails, storeVars
  <2> QED
    BY <2>1, <2>2, <2>3 DEF MoveStep
<1>4. ASSUME NEW k \in Moves, k # i
      PROVE  Backed(k)'
  <2>1. \A o \in journal : o.id = k => o \in journal'
    BY <1>3, <1>4, OthersKept
  <2> QED
    BY <1>1, <1>2, <1>4, <2>1, EntryStays
<1>5. ASSUME i[1] \in daemon'.live, job'[i].pc \notin {"idle", "begin", "unregister"}
      PROVE  \E o \in journal' :
               /\ o.id = i /\ o.dst = Target(i)'
               /\ job'[i].pc \notin Early => o.state = "InProgress"
  <2>1. job'[i] # Idle
    BY <1>5 DEF Idle
  <2>2. job'[i].to = job[i].to
    BY <2>1, MoveStepJobs
  <2>3. Target(i)' = Target(i)
    BY <2>2 DEF Target, Place
  <2>4. ~Finish(i, "Failed") /\ ~Finish(i, "Cancelled") /\ ~Finish(i, "Done") /\ ~End(i)
    <3>1. ~Goto(i, "unregister")
      BY <1>1, <1>5, GotoFields
    <3> QED
      BY <1>1, <2>1, <3>1, FieldsOfEnd DEF Finish
  <2>5. CASE Begin(i)
    <3> DEFINE op == [id |-> i, state |-> "Pending", dst |-> Place(job[i].to, i[1])]
    <3>1. i[1] \notin HashesOf(Resumable(journal)) /\ journal' = Add(journal, op)
          /\ Goto(i, "gate")
      BY <2>4, <2>5 DEF Begin, Journal
    <3>2. op \in journal'
      <4>1. op.id[1] = i[1]
        OBVIOUS
      <4> HIDE DEF op
      <4> QED
        BY <3>1, <4>1 DEF Add
    <3>3. op.id = i /\ op.dst = Target(i) /\ job'[i].pc = "gate"
      BY <1>1, <3>1, GotoFields DEF Target
    <3> QED
      BY <2>3, <3>2, <3>3 DEF Early
  <2>6. CASE ~Begin(i)
    <3>1. job[i].pc \notin {"idle", "begin", "unregister"} /\ i[1] \in daemon.live
      <4>1. job[i].pc \notin {"idle", "begin", "unregister"}
        BY <2>4, <2>6 DEF MoveStep, CopyStep, Begin, Gate, ReadActive, StopTorrent,
         MarkInProgress, CheckPaths, Rename, OpenCopy, PlaceFails, VerifyCopy,
         CancelCopy, CopyFails, EraseSource, EraseFails, RestartInPlace, EndInPlace,
         PointDaemon, ClearIntent, RestartHome, EndDone, Unregister
      <4> QED
        BY <1>2, <1>5, <4>1
    <3>2. PICK o \in journal :
            /\ o.id = i /\ o.dst = Target(i)
            /\ job[i].pc \notin Early => o.state = "InProgress"
      BY <1>1, <3>1 DEF Backed
    <3>3. CASE Gate(i)
      <4>1. PICK n \in FreeSuffixes(i) :
              journal' = Redirect(journal, i, <<job[i].to, NameOf[i[1]], n>>)
        BY <2>4, <3>3 DEF Gate, Journal
      <4>2. n = 0
        BY DEF FreeSuffixes
      <4>3. <<job[i].to, NameOf[i[1]], n>> = Target(i)
        BY <4>2 DEF Target, Place
      <4>4. [o EXCEPT !.dst = Target(i)] \in journal'
        BY <3>2, <4>1, <4>3 DEF Redirect
      <4>5. [o EXCEPT !.dst = Target(i)].id = i /\ [o EXCEPT !.dst = Target(i)].dst = Target(i)
        BY <1>1, <3>2 DEF MoveOps
      <4>6. job'[i].pc \in Early
        <5>1. Goto(i, "stop") \/ Goto(i, "read")
          BY <2>4, <3>3 DEF Gate
        <5> QED
          BY <1>1, <5>1, GotoFields DEF Early
      <4> QED
        BY <2>3, <4>4, <4>5, <4>6
    <3>4. CASE MarkInProgress(i)
      <4>1. journal' = Mark(journal, i, "InProgress")
        BY <3>4 DEF MarkInProgress, Journal
      <4>2. [o EXCEPT !.state = "InProgress"] \in journal'
        BY <3>2, <4>1 DEF Mark
      <4>3. /\ [o EXCEPT !.state = "InProgress"].id = i
            /\ [o EXCEPT !.state = "InProgress"].dst = Target(i)
            /\ [o EXCEPT !.state = "InProgress"].state = "InProgress"
        BY <1>1, <3>2 DEF MoveOps
      <4> QED
        BY <2>3, <4>2, <4>3
    <3>5. CASE ReadActive(i) \/ StopTorrent(i)
      <4>1. UNCHANGED journal
        BY <2>4, <3>5 DEF ReadActive, StopTorrent, storeVars
      <4>2. job'[i].pc \in Early
        <5>1. ReadActive(i) => job'[i].pc \in {"stop", "mark"}
          BY <1>1, ReadFields
        <5>2. StopTorrent(i) => Goto(i, "mark")
          BY <2>4 DEF StopTorrent
        <5> QED
          BY <1>1, <3>5, <5>1, <5>2, GotoFields DEF Early
      <4> QED
        BY <2>3, <3>2, <4>1, <4>2
    <3>6. CASE CopyStep(i) \/ RestartInPlace(i) \/ PointDaemon(i) \/ ClearIntent(i)
               \/ RestartHome(i)
      <4>1. UNCHANGED journal
        BY <2>4, <3>6 DEF PointDaemon, RestartInPlace, ClearIntent, RestartHome, CopyStep,
         CheckPaths, Rename, OpenCopy, PlaceFails, VerifyCopy,
         CancelCopy, CopyFails, EraseSource, EraseFails, storeVars
      <4>2. job[i].pc \notin Early
        BY <3>6 DEF PointDaemon, RestartInPlace, ClearIntent, RestartHome, CopyStep,
         CheckPaths, Rename, OpenCopy, PlaceFails, VerifyCopy,
         CancelCopy, CopyFails, EraseSource, EraseFails, Early
      <4> QED
        BY <2>3, <3>2, <4>1, <4>2
    <3>7. ~EndInPlace(i) /\ ~EndDone(i) /\ ~Unregister(i)
      BY <2>4 DEF EndInPlace, EndDone, Unregister
    <3> QED
      BY <2>6, <3>3, <3>4, <3>5, <3>6, <3>7 DEF MoveStep
  <2> QED
    BY <2>5, <2>6
<1>6. Backed(i)'
  BY <1>5 DEF Backed
<1> QED
  BY <1>4, <1>6

\* A tick drops or settles no entry of a running task.
LEMMA TickBacked ==
  ASSUME Typed, ControlInv, JournalInv, EntriesBack, Tick
  PROVE  \A k \in Moves : Backed(k)'
<1>1. /\ \A k \in Moves : Backed(k)
      /\ phase # "rest" => daemon.live \subseteq raw.live
      /\ daemon'.live = daemon.live
      /\ Moves \subseteq Jobs
  BY BackedIs, TickRows, MovesAreJobs
<1>2. CASE ResumeMoves \/ \E o \in todo : RecoverLanded(o) \/ RecoverOrphan(o) \/ RecoverAbsent(o)
  <2>1. ~recovered \/ todo # {}
    BY <1>2 DEF ResumeMoves
  <2>2. \A k \in Moves : job[k].pc = "idle"
    BY <2>1 DEF ControlInv, RecoveryPrecedesMoves, Working
  <2>3. UNCHANGED job
    BY <1>2 DEF ResumeMoves, RecoverLanded, RecoverOrphan, RecoverAbsent
  <2> QED
    BY <2>2, <2>3 DEF Backed
<1>3. CASE PruneJournal
  <2>1. UNCHANGED job /\ phase # "rest"
    BY <1>3 DEF PruneJournal
  <2>2. ASSUME NEW o \in journal, o.state \in {"Pending", "InProgress"}, o.id[1] \in daemon.live
        PROVE  o \in journal'
    <3>1. journal' \in {journal, PruneDone(PruneUnknown(journal, raw.live))}
      BY <1>3 DEF PruneJournal, Journal
    <3>2. o \in PruneDone(PruneUnknown(journal, raw.live))
      BY <1>1, <2>1, <2>2 DEF PruneDone, PruneUnknown
    <3> QED
      BY <3>1, <3>2
  <2> QED
    BY <1>1, <2>1, <2>2, EntryStays
<1>4. CASE PlanMoves
  <2>1. PICK new \in SUBSET Moves :
          /\ \A i \in new : job'[i].pc = "begin"
          /\ \A i \in Moves \ new : job'[i] = job[i]
    BY <1>4, PlanEffect
  <2>2. UNCHANGED journal
    BY <1>4 DEF PlanMoves
  <2>3. ASSUME NEW k \in Moves
        PROVE  Backed(k)'
    <3>1. CASE k \in new
      BY <2>1, <3>1 DEF Backed
    <3>2. CASE k \notin new
      BY <1>1, <2>1, <2>2, <3>2, EntryStays
    <3> QED
      BY <3>1, <3>2
  <2> QED
    BY <2>3
<1>5. CASE Fetch \/ SettleHomed \/ RunQueue
  <2>1. UNCHANGED <<job, journal>>
    BY <1>5 DEF Fetch, SettleHomed, RunQueue, storeVars
  <2> QED
    BY <1>1, <2>1, EntryStays
<1> QED
  BY <1>2, <1>3, <1>4, <1>5 DEF Tick

LEMMA EntriesBackStep ==
  ASSUME Typed, ControlInv, JournalInv, EntriesBack, [Next]_vars,
         "save" \notin Faults, ~AutoRename
  PROVE  EntriesBack'
<1>1. /\ journalFile = journal
      /\ phase # "rest" => daemon.live \subseteq raw.live
      /\ \A k \in Moves : Backed(k)
      /\ job \in [Jobs -> JobRecords] /\ Moves \subseteq Jobs
  BY BackedIs, MovesAreJobs DEF Typed, TypeOK
<1>2. daemon'.live \subseteq daemon.live /\ journalFile' = journal'
  BY <1>1, LivesShrink, FileIsJournal
<1>3. phase' # "rest" => daemon'.live \subseteq raw'.live
  <2>1. CASE Tick
    <3>1. \/ UNCHANGED raw /\ phase # "rest"
          \/ raw' = daemon
          \/ phase' = "rest"
      BY <2>1 DEF Tick, Fetch, ResumeMoves, PruneJournal, SettleHomed, PlanMoves, RunQueue,
           RecoverLanded, RecoverOrphan, RecoverAbsent
    <3> QED
      BY <1>1, <1>2, <3>1
  <2>2. CASE Restart
    BY <2>2 DEF Restart
  <2>3. CASE ~Tick /\ ~Restart
    <3>1. UNCHANGED <<raw, phase>>
      <4>1. CASE \E i \in Moves : MoveStep(i)
        BY <4>1, MoveStepEffect DEF pollVars
      <4>2. CASE \/ \E r \in Requests : RequestStep(r)
                 \/ \E t \in Torrents : AskTrash(t) \/ \E d \in Dirs : AskLocation(t, d)
        BY <4>2, RequestSameTasks DEF pollVars
      <4>3. CASE \/ \E t \in Torrents : \/ StartCommand(t) \/ StopCommand(t) \/ RetryMove(t)
                                      \/ RemoveTorrent(t) \/ CompleteDownload(t)
                 \/ \E i \in Moves : CancelMove(i)
                 \/ UNCHANGED vars
        BY <4>3 DEF StartCommand, StopCommand, RetryMove, RemoveTorrent, CompleteDownload,
             CancelMove, vars, pollVars
      <4> QED
        BY <2>3, <4>1, <4>2, <4>3 DEF Next, Operator
    <3> QED
      BY <1>1, <1>2, <3>1
  <2> QED
    BY <2>1, <2>2, <2>3
<1>4. \A k \in Moves : Backed(k)'
  <2>1. CASE Tick
    BY <2>1, TickBacked
  <2>2. CASE \E i \in Moves : MoveStep(i)
    BY <2>2, TaskBacked
  <2>3. CASE \/ \E r \in Requests : RequestStep(r)
             \/ \E t \in Torrents : AskTrash(t) \/ \E d \in Dirs : AskLocation(t, d)
    <3>1. \A k \in Moves : job'[k] = job[k]
      BY <2>3, RequestLeavesTasks
    <3>2. UNCHANGED journal
      BY <2>3, RequestSameTasks DEF storeVars
    <3> QED
      BY <1>1, <1>2, <3>1, <3>2, EntryStays
  <2>4. CASE \E t \in Torrents : RetryMove(t)
    <3>1. PICK t \in Torrents : UNCHANGED job /\ journal' = Retry(journal, t)
      BY <2>4 DEF RetryMove, Journal
    <3>2. \A o \in journal : o.state \in {"Pending", "InProgress"} => o \in journal'
      BY <3>1 DEF Retry
    <3> QED
      BY <1>1, <1>2, <3>1, <3>2, EntryStays
  <2>5. CASE \/ \E t \in Torrents : \/ StartCommand(t) \/ StopCommand(t)
                                  \/ RemoveTorrent(t) \/ CompleteDownload(t)
             \/ \E i \in Moves : CancelMove(i)
             \/ UNCHANGED vars
    <3>1. UNCHANGED <<job, journal>>
      BY <2>5 DEF StartCommand, StopCommand, RemoveTorrent, CompleteDownload, CancelMove,
           vars, storeVars
    <3> QED
      BY <1>1, <1>2, <3>1, EntryStays
  <2>6. CASE Restart
    <3>1. \A k \in Moves : job'[k].pc = "idle"
      BY <1>1, <2>6 DEF Restart, Idle
    <3> QED
      BY <3>1 DEF Backed
  <2> QED
    BY <2>1, <2>2, <2>3, <2>4, <2>5, <2>6 DEF Next, Operator
<1>5. (journalFile = journal)' /\ (phase # "rest" => daemon.live \subseteq raw.live)'
  BY <1>2, <1>3
<1> QED
  BY <1>4, <1>5 DEF EntriesBack, Backed, Early

LEMMA InitJournaled == Init => JournalInv /\ EntriesBack
BY MovesAreJobs DEF Init, JournalInv, IdsUnique, OneUnfinished, Unfinished, TasksOwnEntries,
       TodoUnfinished, EntriesBack, Idle

\* Whatever is asked, killed or torn, the file has the entry of every task
\* that may have touched the disk or the pointer, in progress and with the
\* destination of the task: with saves that succeed and no renaming (with it,
\* the entry names the free path and the task moves to the taken one).
THEOREM MovesAreBacked ==
  ASSUME "save" \notin Faults, ~AutoRename
  PROVE  Spec => []JournalBacksMove
<1> DEFINE Inv == Typed /\ ControlInv /\ JournalInv /\ EntriesBack
<1>1. Init => Inv
  BY InitTyped, InitControlled, InitJournaled
<1>2. Inv /\ [Next]_vars => Inv'
  BY TypedStep, ControlStep, JournalStep, EntriesBackStep
<1>3. Inv => JournalBacksMove
  BY DEF EntriesBack, JournalBacksMove, CopyPcs
<1> QED
  BY <1>1, <1>2, <1>3, PTL DEF Spec

----------------------------------------------------------------------------
(* Where rows, tasks and entries come from. *)

LEMMA RowsOrigin ==
  ASSUME Typed, [Next]_vars
  PROVE  raw' = raw \/ raw' = daemon \/ raw' = NoRows
<1>1. CASE Tick
  BY <1>1 DEF Tick, Fetch, ResumeMoves, PruneJournal, SettleHomed, PlanMoves, RunQueue,
       RecoverLanded, RecoverOrphan, RecoverAbsent
<1>2. CASE \E i \in Moves : MoveStep(i)
  BY <1>2, MoveStepEffect DEF pollVars
<1>3. CASE \/ \E r \in Requests : RequestStep(r)
           \/ \E t \in Torrents : AskTrash(t) \/ \E d \in Dirs : AskLocation(t, d)
  BY <1>3, RequestSameTasks DEF pollVars
<1>4. CASE \/ \E t \in Torrents : \/ StartCommand(t) \/ StopCommand(t) \/ RetryMove(t)
                                \/ RemoveTorrent(t) \/ CompleteDownload(t)
           \/ \E i \in Moves : CancelMove(i)
           \/ UNCHANGED vars \/ Restart
  BY <1>4 DEF StartCommand, StopCommand, RetryMove, RemoveTorrent, CompleteDownload,
       CancelMove, vars, Restart, pollVars
<1> QED
  BY <1>1, <1>2, <1>3, <1>4 DEF Next, Operator

\* A task is planned from the rows and keeps its directories.
LEMMA TasksOrigin ==
  ASSUME Typed, [Next]_vars, NEW i \in Moves, Working(i)'
  PROVE  \/ /\ Working(i)
            /\ job'[i].from = job[i].from /\ job'[i].to = job[i].to
         \/ /\ PlanMoves /\ i[1] \in raw.live \cap raw.complete /\ HasPlan(raw, i[1])
            /\ job'[i] = [pc |-> "begin", from |-> raw.dir[i[1]],
                          to |-> Destination(i[1], raw.finalDir[i[1]]),
                          was |-> i[1] \in raw.active]
<1>1. job \in [Jobs -> JobRecords] /\ Moves \subseteq Jobs
  BY MovesAreJobs DEF Typed, TypeOK
<1>2. CASE job'[i] = job[i]
  BY <1>2 DEF Working
<1>3. CASE PlanMoves
  <2>1. PICK new \in SUBSET Moves :
          /\ \A k \in new : /\ job'[k] = [pc |-> "begin", from |-> raw.dir[k[1]],
                                           to |-> Destination(k[1], raw.finalDir[k[1]]),
                                           was |-> k[1] \in raw.active]
                            /\ k[1] \in raw.live \cap raw.complete /\ HasPlan(raw, k[1])
          /\ \A j \in Jobs \ new : job'[j] = job[j]
    BY <1>3, PlanJobs
  <2>2. CASE i \in new
    BY <1>3, <2>1, <2>2
  <2>3. CASE i \notin new
    BY <1>1, <1>2, <2>1, <2>3
  <2> QED
    BY <2>2, <2>3
<1>4. CASE \E k \in Moves : MoveStep(k)
  <2>1. PICK k \in Moves : MoveStep(k)
    BY <1>4
  <2>2. CASE i = k
    <3>1. job'[i] # Idle
      BY DEF Working, Idle
    <3> QED
      BY <2>1, <2>2, <3>1, MoveStepJobs, MoveStepEffect
  <2>3. CASE i # k
    BY <1>1, <1>2, <2>1, <2>3, MoveStepJobs
  <2> QED
    BY <2>2, <2>3
<1>5. CASE \/ \E r \in Requests : RequestStep(r)
           \/ \E t \in Torrents : AskTrash(t) \/ \E d \in Dirs : AskLocation(t, d)
  BY <1>2, <1>5, RequestLeavesTasks
<1>6. CASE \/ \E t \in Torrents : \/ StartCommand(t) \/ StopCommand(t) \/ RetryMove(t)
                                \/ RemoveTorrent(t) \/ CompleteDownload(t)
           \/ \E k \in Moves : CancelMove(k)
           \/ UNCHANGED vars
  BY <1>2, <1>6 DEF StartCommand, StopCommand, RetryMove, RemoveTorrent, CompleteDownload,
       CancelMove, vars
<1>7. CASE Tick /\ ~PlanMoves
  BY <1>2, <1>7, TickJobs
<1>8. CASE Restart
  BY <1>1, <1>8 DEF Restart, Working, Idle
<1> QED
  BY <1>3, <1>4, <1>5, <1>6, <1>7, <1>8 DEF Next, Operator

\* What a begun task writes into an entry.
AimedByTask(q) ==
  /\ q.id \in Moves /\ Working(q.id)
  /\ q.dst[1] = job[q.id].to /\ q.dst[2] = NameOf[q.id[1]]
  /\ ~AutoRename => q.dst[3] = 0

LEMMA MarkOrigin ==
  ASSUME NEW J \in SUBSET MoveOps, NEW id, NEW s \in MoveStates, NEW q \in Mark(J, id, s)
  PROVE  \E o \in J : q.id = o.id /\ q.dst = o.dst
BY DEF Mark, MoveOps

\* An entry is begun by a task, aimed by its gate, and kept.
LEMMA EntriesOrigin ==
  ASSUME Typed, [Next]_vars, NEW q \in journal' \cup journalFile' \cup todo'
  PROVE  \/ \E o \in journal \cup journalFile \cup todo : q.id = o.id /\ q.dst = o.dst
         \/ AimedByTask(q)
<1> DEFINE old == journal \cup journalFile \cup todo
<1>1. journal \in SUBSET MoveOps /\ job \in [Jobs -> JobRecords] /\ Moves \subseteq Jobs
  BY MovesAreJobs DEF Typed, TypeOK
<1>2. CASE q \in old
  BY <1>2
<1>3. \A J : Journal(J) => journal' \cup journalFile' \subseteq J \cup journalFile
  BY DEF Journal
<1>4. ASSUME NEW id, NEW s \in MoveStates, Journal(Mark(journal, id, s)), todo' \subseteq todo
      PROVE  \E o \in old : q.id = o.id /\ q.dst = o.dst
  <2>1. q \in old \/ q \in Mark(journal, id, s)
    BY <1>3, <1>4
  <2> QED
    BY <1>1, <2>1, MarkOrigin
<1>5. CASE Tick
  <2>1. CASE \/ Fetch \/ ResumeMoves \/ PruneJournal \/ SettleHomed \/ PlanMoves \/ RunQueue
    <3>1. \A live : PruneUnknown(journal, live) \subseteq journal
                    /\ PruneDone(PruneUnknown(journal, live)) \subseteq journal
      BY DEF PruneUnknown, PruneDone
    <3>2. \/ UNCHANGED <<journal, journalFile>>
          \/ Journal(PruneUnknown(journal, raw.live))
          \/ Journal(PruneDone(PruneUnknown(journal, raw.live)))
      BY <2>1 DEF Fetch, ResumeMoves, PruneJournal, SettleHomed, PlanMoves, RunQueue, storeVars
    <3>3. todo' = todo \/ todo' \subseteq journal
      BY <2>1 DEF Fetch, ResumeMoves, PruneJournal, SettleHomed, PlanMoves, RunQueue
    <3> QED
      BY <1>2, <1>3, <3>1, <3>2, <3>3
  <2>2. CASE \E o \in todo : RecoverLanded(o) \/ RecoverOrphan(o) \/ RecoverAbsent(o)
    <3>1. PICK o \in todo : RecoverLanded(o) \/ RecoverOrphan(o) \/ RecoverAbsent(o)
      BY <2>2
    <3>2. /\ todo' \subseteq todo
          /\ \/ UNCHANGED <<journal, journalFile>>
             \/ \E s \in MoveStates : Journal(Mark(journal, o.id, s))
      BY <3>1 DEF RecoverLanded, RecoverOrphan, RecoverAbsent, MoveStates
    <3> QED
      BY <1>2, <1>4, <3>2
  <2> QED
    BY <1>5, <2>1, <2>2 DEF Tick
<1>6. CASE \E i \in Moves : MoveStep(i)
  <2>1. PICK i \in Moves : MoveStep(i)
    BY <1>6
  <2>2. Working(i) /\ todo' = todo /\ i[1] \in Torrents
    BY <2>1, MoveStepEffect, MovesAreJobs DEF pollVars
  <2>3. CASE UNCHANGED <<journal, journalFile>>
    BY <1>2, <2>2, <2>3
  <2>4. CASE \E s \in MoveStates : Journal(Mark(journal, i, s))
    BY <1>4, <2>2, <2>4
  <2>5. CASE Begin(i) /\ ~UNCHANGED <<journal, journalFile>>
    <3> DEFINE op == [id |-> i, state |-> "Pending", dst |-> Place(job[i].to, i[1])]
    <3>1. Journal(Add(journal, op))
      BY <2>5 DEF Begin
    <3>2. q \in old \/ q = op
      BY <1>3, <2>2, <3>1 DEF Add
    <3>3. AimedByTask(op)
      BY <2>2 DEF AimedByTask, Place
    <3> QED
      BY <1>2, <3>2, <3>3
  <2>6. CASE Gate(i) /\ ~Finish(i, "Failed")
    <3>1. PICK n \in FreeSuffixes(i) :
            Journal(Redirect(journal, i, <<job[i].to, NameOf[i[1]], n>>))
      BY <2>6 DEF Gate
    <3> DEFINE p == <<job[i].to, NameOf[i[1]], n>>
    <3>2. ~AutoRename => n = 0
      BY DEF FreeSuffixes
    <3>3. q \in old \/ q \in Redirect(journal, i, p)
      BY <1>3, <2>2, <3>1
    <3>4. p[1] = job[i].to /\ p[2] = NameOf[i[1]] /\ (~AutoRename => p[3] = 0)
      BY <3>2
    <3>5. CASE q \in Redirect(journal, i, p)
      <4> HIDE DEF p
      <4>1. PICK o \in journal : q = IF o.id = i THEN [o EXCEPT !.dst = p] ELSE o
        BY <3>5 DEF Redirect
      <4>2. CASE o.id = i
        <5>1. q.id = i /\ q.dst = p
          BY <1>1, <4>1, <4>2 DEF MoveOps
        <5> QED
          BY <2>2, <3>4, <5>1 DEF AimedByTask
      <4>3. CASE o.id # i
        BY <4>1, <4>3
      <4> QED
        BY <4>2, <4>3
    <3> QED
      BY <1>2, <3>3, <3>5
  <2> QED
    <3>1. CASE Begin(i) \/ Gate(i)
      BY <2>3, <2>4, <2>5, <2>6, <3>1 DEF Begin, Gate, Finish, MoveStates
    <3>2. CASE StopTorrent(i) \/ MarkInProgress(i) \/ EndInPlace(i) \/ PointDaemon(i) \/ EndDone(i)
      BY <2>3, <2>4, <3>2 DEF StopTorrent, MarkInProgress, EndInPlace, PointDaemon, EndDone,
           Finish, MoveStates
    <3>3. CASE ReadActive(i) \/ CopyStep(i) \/ RestartInPlace(i) \/ ClearIntent(i)
               \/ RestartHome(i) \/ Unregister(i)
      BY <2>3, <3>3 DEF ReadActive, RestartInPlace, ClearIntent, RestartHome, Unregister, CopyStep,
           CheckPaths, Rename, OpenCopy, PlaceFails, VerifyCopy,
           CancelCopy, CopyFails, EraseSource, EraseFails, storeVars
    <3> QED
      BY <2>1, <3>1, <3>2, <3>3 DEF MoveStep
<1>7. CASE \/ \E r \in Requests : RequestStep(r)
           \/ \E t \in Torrents : AskTrash(t) \/ \E d \in Dirs : AskLocation(t, d)
  BY <1>2, <1>7, RequestSameTasks DEF storeVars, pollVars
<1>8. CASE \E t \in Torrents : RetryMove(t)
  <2>1. PICK t \in Torrents : Journal(Retry(journal, t)) /\ todo' = todo
    BY <1>8 DEF RetryMove, pollVars
  <2> QED
    BY <1>2, <1>3, <2>1 DEF Retry
<1>9. CASE \/ \E t \in Torrents : \/ StartCommand(t) \/ StopCommand(t)
                                \/ RemoveTorrent(t) \/ CompleteDownload(t)
           \/ \E i \in Moves : CancelMove(i)
           \/ UNCHANGED vars
  BY <1>2, <1>9 DEF StartCommand, StopCommand, RemoveTorrent, CompleteDownload, CancelMove,
       vars, storeVars, pollVars
<1>10. CASE Restart
  BY <1>2, <1>10 DEF Restart
<1> QED
  BY <1>5, <1>6, <1>7, <1>8, <1>9, <1>10 DEF Next, Operator

LEMMA OnlyCompletedStep ==
  ASSUME Typed, OnlyCompletedMove, [Next]_vars
  PROVE  OnlyCompletedMove'
<1>1. daemon.complete \subseteq daemon'.complete
  BY LivesShrink
<1>2. raw'.complete \subseteq daemon.complete
  <2>1. NoRows.complete = {}
    BY DEF NoRows
  <2> QED
    BY <2>1, RowsOrigin DEF OnlyCompletedMove
<1>3. \A i \in Moves : Working(i)' => i[1] \in daemon.complete
  BY TasksOrigin DEF OnlyCompletedMove
<1>4. \A q \in journal' \cup journalFile' \cup todo' : q.id[1] \in daemon.complete
  BY EntriesOrigin DEF OnlyCompletedMove, AimedByTask
<1> QED
  BY <1>1, <1>2, <1>3, <1>4 DEF OnlyCompletedMove

LEMMA OnlyCompletedInit == Init => OnlyCompletedMove
BY MovesAreJobs DEF Init, OnlyCompletedMove, Working, NoRows, Idle

----------------------------------------------------------------------------
(* What a step does to the disk, when every torrent has a name of its own. *)

Sets(t, d, data) ==
  \A u \in Torrents, e \in Dirs :
    disk'[Place(e, u)] = IF u = t /\ e = d THEN data ELSE disk[Place(e, u)]

Renames(t, d, e) ==
  \A u \in Torrents, f \in Dirs :
    disk'[Place(f, u)] = IF u = t /\ f = d THEN NoData
                         ELSE IF u = t /\ f = e THEN disk[Place(d, t)]
                         ELSE disk[Place(f, u)]

\* A job at work on the disk between two directories.
Handles(j) ==
  /\ job[j].from \in Dirs /\ job[j].to \in Dirs
  /\ \/ Rename(j) /\ disk[Source(j)] # NoData /\ Renames(j[1], job[j].from, job[j].to)
     \/ OpenCopy(j) /\ Sets(j[1], job[j].to, PartOf(disk[Source(j)].of))
     \/ VerifyCopy(j) /\ Sets(j[1], job[j].to, disk[Source(j)])
     \/ (CancelCopy(j) \/ CopyFails(j)) /\ Sets(j[1], job[j].to, NoData)
     \/ EraseSource(j) /\ Sets(j[1], job[j].from, NoData)
     \/ EraseFails(j) /\ \E part \in Contents :
          ~part.whole /\ part.of = disk[Source(j)].of /\ Sets(j[1], job[j].from, part)

LEMMA PlacesDiffer ==
  ASSUME DistinctNames, NEW t \in Torrents, NEW u \in Torrents, NEW d \in Dirs, NEW e \in Dirs
  PROVE  /\ Place(d, t) = Place(e, u) <=> t = u /\ d = e
         /\ Place(d, t) \in Paths
BY PlacesArePaths DEF DistinctNames, Place

LEMMA PutData ==
  ASSUME Typed, DistinctNames, NEW t \in Torrents, NEW d \in Dirs, NEW data,
         disk' = [disk EXCEPT ![Place(d, t)] = data]
  PROVE  Sets(t, d, data)
<1> SUFFICES ASSUME NEW u \in Torrents, NEW e \in Dirs
             PROVE  disk'[Place(e, u)] = IF u = t /\ e = d THEN data ELSE disk[Place(e, u)]
  BY DEF Sets
<1>1. disk \in [Paths -> Contents]
  BY DEF Typed, TypeOK
<1>2. Place(e, u) \in Paths /\ (Place(d, t) = Place(e, u) <=> t = u /\ d = e)
  BY PlacesDiffer
<1> QED
  BY <1>1, <1>2

LEMMA CopyStepDisk ==
  ASSUME Typed, DistinctNames, NEW j \in Jobs, CopyStep(j),
         job[j].pc = "place" => job[j].from # job[j].to
  PROVE  /\ UNCHANGED disk \/ Handles(j)
         /\ UNCHANGED <<daemon, storeVars, pollVars, envVars>>
<1> DEFINE t == j[1]
           d == job[j].from
           e == job[j].to
<1>1. UNCHANGED <<daemon, storeVars, pollVars, envVars>> /\ job[j].pc \in CopyPcs
  BY DEF CopyStep, CheckPaths, Rename, OpenCopy, PlaceFails, VerifyCopy, CancelCopy,
       CopyFails, EraseSource, EraseFails, CopyPcs
<1>2. /\ t \in Torrents /\ d \in Dirs /\ e \in Dirs
      /\ Source(j) = Place(d, t) /\ Target(j) = Place(e, t)
      /\ disk \in [Paths -> Contents]
  BY <1>1, MovesAreJobs, JobPlaces DEF Typed, TypeOK, JobsDirected, JobRecords, Source, Target
<1>3. CASE CheckPaths(j) \/ PlaceFails(j)
  BY <1>1, <1>3 DEF CheckPaths, PlaceFails
<1>4. CASE Rename(j)
  <2>1. /\ disk[Place(d, t)] # NoData /\ d # e
        /\ disk' = [disk EXCEPT ![Place(e, t)] = disk[Place(d, t)], ![Place(d, t)] = NoData]
    BY <1>2, <1>4 DEF Rename
  <2>2. ASSUME NEW u \in Torrents, NEW f \in Dirs
        PROVE  disk'[Place(f, u)] = IF u = t /\ f = d THEN NoData
                                    ELSE IF u = t /\ f = e THEN disk[Place(d, t)]
                                    ELSE disk[Place(f, u)]
    <3>1. /\ Place(f, u) \in Paths
          /\ Place(d, t) = Place(f, u) <=> t = u /\ d = f
          /\ Place(e, t) = Place(f, u) <=> t = u /\ e = f
      BY <1>2, PlacesDiffer
    <3> QED
      BY <1>2, <2>1, <3>1
  <2> QED
    BY <1>1, <1>2, <1>4, <2>1, <2>2 DEF Handles, Renames
<1>5. CASE OpenCopy(j)
  BY <1>1, <1>2, <1>5, PutData DEF Handles, OpenCopy
<1>6. CASE VerifyCopy(j)
  BY <1>1, <1>2, <1>6, PutData DEF Handles, VerifyCopy
<1>7. CASE CancelCopy(j) \/ CopyFails(j)
  BY <1>1, <1>2, <1>7, PutData DEF Handles, CancelCopy, CopyFails
<1>8. CASE EraseSource(j)
  BY <1>1, <1>2, <1>8, PutData DEF Handles, EraseSource
<1>9. CASE EraseFails(j) /\ ~UNCHANGED disk
  <2> DEFINE part == [disk[Place(d, t)] EXCEPT !.whole = FALSE]
  <2>1. disk' = [disk EXCEPT ![Place(d, t)].whole = FALSE]
    BY <1>2, <1>9 DEF EraseFails
  <2>2. disk' = [disk EXCEPT ![Place(d, t)] = part]
    BY <2>1
  <2>3. part \in Contents /\ ~part.whole /\ part.of = disk[Place(d, t)].of
    BY <1>2, PlacesArePaths DEF Contents
  <2> HIDE DEF part
  <2>4. Sets(t, d, part)
    BY <1>2, <2>2, PutData
  <2> QED
    BY <1>1, <1>2, <1>9, <2>3, <2>4 DEF Handles
<1> QED
  BY <1>1, <1>3, <1>4, <1>5, <1>6, <1>7, <1>8, <1>9 DEF CopyStep

LEMMA DiskEffect ==
  ASSUME Typed, DistinctNames, [Next]_vars,
         \A j \in Jobs : job[j].pc = "place" => job[j].from # job[j].to
  PROVE  \/ UNCHANGED <<disk, trashed>> /\ daemon'.complete = daemon.complete
         \/ \E j \in Jobs : /\ Handles(j) /\ (j \in Moves => MoveStep(j))
                            /\ (j \in Requests => RequestStep(j))
                            /\ trashed' = trashed /\ daemon'.complete = daemon.complete
         \/ \E r \in Requests : /\ TrashData(r) /\ trashed' = trashed \cup {r[1]}
                                /\ UNCHANGED disk \/ Sets(r[1], job[r].to, NoData)
                                /\ job[r].to \in Dirs /\ daemon'.complete = daemon.complete
         \/ \E t \in Torrents : /\ CompleteDownload(t)
                                /\ Sets(t, daemon.dir[t], DataOf(t)) /\ daemon.dir[t] \in Dirs
                                /\ trashed' = trashed
                                /\ daemon'.complete = daemon.complete \cup {t}
<1>1. Moves \subseteq Jobs /\ Requests \subseteq Jobs /\ Moves \cap Requests = {}
      /\ \A j \in Jobs : j[1] \in Torrents
  BY MovesAreJobs
<1>2. CASE Tick
  <2>1. UNCHANGED <<disk, trashed>>
    BY <1>2 DEF Tick, Fetch, ResumeMoves, PruneJournal, SettleHomed, PlanMoves, RunQueue,
       RecoverLanded, RecoverOrphan, RecoverAbsent, envVars
  <2> QED
    BY <1>2, <2>1, TickRows
<1>3. CASE \E i \in Moves : MoveStep(i)
  <2>1. PICK i \in Moves : MoveStep(i)
    BY <1>3
  <2>2. trashed' = trashed /\ daemon'.complete = daemon.complete
    BY <2>1, MoveStepJobs, MoveStepDaemon DEF envVars
  <2>3. CASE CopyStep(i)
    BY <1>1, <2>1, <2>2, <2>3, CopyStepDisk
  <2>4. CASE ~CopyStep(i)
    <3>1. UNCHANGED disk
      BY <2>1, <2>4 DEF MoveStep, Begin, Gate, ReadActive, StopTorrent,
         MarkInProgress, RestartInPlace, EndInPlace,
         PointDaemon, ClearIntent, RestartHome, EndDone, Unregister, Finish
    <3> QED
      BY <2>2, <3>1
  <2> QED
    BY <2>3, <2>4
<1>4. CASE \E r \in Requests : RequestStep(r)
  <2>1. PICK r \in Requests : RequestStep(r)
    BY <1>4
  <2>2. daemon'.complete = daemon.complete
    BY <2>1, RequestLives
  <2>3. CASE CopyStep(r)
    BY <1>1, <2>1, <2>2, <2>3, CopyStepDisk DEF envVars
  <2>4. CASE TrashData(r)
    <3>1. job[r].to \in Dirs
      BY <1>1, <2>4 DEF TrashData, Typed, JobsDirected, Working
    <3>2. UNCHANGED disk \/ Sets(r[1], job[r].to, NoData)
      BY <1>1, <2>4, <3>1, PutData DEF TrashData, Target
    <3> QED
      BY <2>2, <2>4, <3>1, <3>2 DEF TrashData
  <2>5. CASE ~CopyStep(r) /\ ~TrashData(r)
    <3>1. UNCHANGED <<disk, trashed>>
      BY <2>1, <2>5 DEF RequestStep, StopForLocation, RestartAfterRequest,
         PointForLocation, ClearForLocation, RestartForLocation, EraseForTrash, envVars
    <3> QED
      BY <2>2, <3>1
  <2> QED
    BY <2>3, <2>4, <2>5
<1>5. CASE \E t \in Torrents : CompleteDownload(t)
  <2>1. PICK t \in Torrents : CompleteDownload(t)
    BY <1>5
  <2>2. daemon.dir[t] \in Dirs
    BY DEF Typed, TypeOK, Rows
  <2>3. Sets(t, daemon.dir[t], DataOf(t)) /\ trashed' = trashed
    BY <2>1, <2>2, PutData DEF CompleteDownload, envVars
  <2>4. daemon'.complete = daemon.complete \cup {t}
    <3>1. daemon' = [daemon EXCEPT !.complete = daemon.complete \cup {t}]
      BY <2>1 DEF CompleteDownload
    <3> QED
      BY <3>1 DEF Typed, TypeOK, Rows
  <2> QED
    BY <2>1, <2>2, <2>3, <2>4
<1>6. CASE \/ \E t \in Torrents : \/ StartCommand(t) \/ StopCommand(t) \/ RetryMove(t)
                                \/ RemoveTorrent(t)
  <2>1. PICK t \in Torrents : \/ StartCommand(t) \/ StopCommand(t) \/ RetryMove(t)
                              \/ RemoveTorrent(t)
    BY <1>6
  <2>2. UNCHANGED <<disk, trashed>>
    BY <2>1 DEF StartCommand, StopCommand, RetryMove, RemoveTorrent, envVars
  <2>3. daemon'.complete = daemon.complete
    <3>1. daemon' \in {daemon, Started(t), Stopped(t), Erased(t)}
      BY <2>1 DEF StartCommand, StopCommand, RetryMove, RemoveTorrent
    <3>2. /\ Started(t).complete = daemon.complete /\ Stopped(t).complete = daemon.complete
          /\ Erased(t).complete = daemon.complete
      BY StartFields, StopFields, EraseFields DEF Typed, TypeOK
    <3> QED
      BY <3>1, <3>2
  <2> QED
    BY <2>2, <2>3
<1>7. CASE \/ \E t \in Torrents : AskTrash(t) \/ \E d \in Dirs : AskLocation(t, d)
           \/ \E i \in Moves : CancelMove(i)
           \/ UNCHANGED vars \/ Restart
  BY <1>7 DEF AskTrash, AskLocation, CancelMove, vars, Restart, envVars
<1> QED
  BY <1>2, <1>3, <1>4, <1>5, <1>6, <1>7 DEF Next, Operator

----------------------------------------------------------------------------
(* The custody of the data. *)

LEMMA DataKinds ==
  ASSUME NEW t \in Torrents
  PROVE  /\ DataOf(t) # NoData /\ \A part : ~part.whole => part # DataOf(t)
         /\ \A of : ~PartOf(of).whole /\ PartOf(of) # DataOf(t)
BY DEF DataOf, NoData, PartOf

\* Whole(t, d) in the next state, of the directory that d is in this one.
WholeAfter(t, d) == disk'[Place(d, t)] = DataOf(t)

\* What the whole copies of a torrent become when a job renames, verifies or
\* cuts, and that it leaves one of them alone.
Carried(t, a, b) ==
  /\ a # b /\ ~WholeAfter(t, a) /\ (WholeAfter(t, b) <=> Whole(t, a))
  /\ \A e \in Dirs \ {a, b} : WholeAfter(t, e) <=> Whole(t, e)
Copied(t, a, b) ==
  /\ WholeAfter(t, b) <=> Whole(t, a)
  /\ \A e \in Dirs \ {b} : WholeAfter(t, e) <=> Whole(t, e)
Cut(t, d) ==
  /\ ~WholeAfter(t, d)
  /\ \A e \in Dirs \ {d} : WholeAfter(t, e) <=> Whole(t, e)
Spared(t, d) == t \in daemon.complete \ trashed => \E e \in Dirs \ {d} : Whole(t, e)

LEMMA HandlesWhole ==
  ASSUME Typed, DistinctNames, NEW j \in Jobs, Spares(j), Handles(j)
  PROVE  /\ \A u \in Torrents, e \in Dirs : u # j[1] => (WholeAfter(u, e) <=> Whole(u, e))
         /\ \/ Carried(j[1], job[j].from, job[j].to) /\ Spared(j[1], job[j].to)
            \/ Copied(j[1], job[j].from, job[j].to) /\ Spared(j[1], job[j].to)
            \/ \E d \in {job[j].from, job[j].to} : Cut(j[1], d) /\ Spared(j[1], d)
<1> DEFINE t == j[1]
           a == job[j].from
           b == job[j].to
<1>1. /\ t \in Torrents /\ a \in Dirs /\ b \in Dirs
      /\ Source(j) = Place(a, t) /\ Target(j) = Place(b, t)
  BY MovesAreJobs DEF Handles, Source, Target
<1>2. ASSUME NEW d \in Dirs, NEW data, Sets(t, d, data)
      PROVE  /\ \A u \in Torrents, e \in Dirs : u # t => (WholeAfter(u, e) <=> Whole(u, e))
             /\ \A e \in Dirs \ {d} : WholeAfter(t, e) <=> Whole(t, e)
             /\ WholeAfter(t, d) <=> data = DataOf(t)
  BY <1>1, <1>2 DEF Sets, Whole, WholeAfter, Place, DataOf
<1>3. CASE Rename(j) /\ disk[Source(j)] # NoData /\ Renames(t, a, b)
  <2>1. a # b /\ Spared(t, b)
    BY <1>3 DEF Rename, Spares, Spared
  <2>2. /\ \A u \in Torrents, e \in Dirs : u # t => (WholeAfter(u, e) <=> Whole(u, e))
        /\ \A e \in Dirs \ {a, b} : WholeAfter(t, e) <=> Whole(t, e)
        /\ disk'[Place(a, t)] = NoData /\ disk'[Place(b, t)] = disk[Place(a, t)]
    BY <1>1, <1>3, <2>1 DEF Renames, Whole, WholeAfter, Place, DataOf
  <2>3. ~WholeAfter(t, a) /\ (WholeAfter(t, b) <=> Whole(t, a))
    BY <1>1, <2>2, DataKinds DEF Whole, WholeAfter, Place, DataOf
  <2> QED
    BY <2>1, <2>2, <2>3 DEF Carried
<1>4. CASE OpenCopy(j) /\ Sets(t, b, PartOf(disk[Source(j)].of))
  <2>1. Spared(t, b)
    BY <1>4 DEF OpenCopy, Spares, Spared
  <2> QED
    BY <1>1, <1>2, <1>4, <2>1, DataKinds DEF Cut
<1>5. CASE VerifyCopy(j) /\ Sets(t, b, disk[Source(j)])
  <2>1. Spared(t, b)
    BY <1>5 DEF VerifyCopy, Spares, Spared
  <2>2. WholeAfter(t, b) <=> Whole(t, a)
    BY <1>1, <1>2, <1>5 DEF Whole, WholeAfter
  <2> QED
    BY <1>1, <1>2, <1>5, <2>1, <2>2 DEF Copied
<1>6. CASE (CancelCopy(j) \/ CopyFails(j)) /\ Sets(t, b, NoData)
  <2>1. Spared(t, b)
    BY <1>6 DEF CancelCopy, CopyFails, Spares, Spared
  <2> QED
    BY <1>1, <1>2, <1>6, <2>1, DataKinds DEF Cut
<1>7. CASE EraseSource(j) /\ Sets(t, a, NoData)
  <2>1. Spared(t, a)
    BY <1>7 DEF EraseSource, Spares, Spared
  <2> QED
    BY <1>1, <1>2, <1>7, <2>1, DataKinds DEF Cut
<1>8. CASE EraseFails(j) /\ \E part \in Contents : ~part.whole /\ Sets(t, a, part)
  <2>1. Spared(t, a)
    BY <1>8 DEF EraseFails, Spares, Spared
  <2> QED
    BY <1>1, <1>2, <1>8, <2>1, DataKinds DEF Cut
<1> QED
  BY <1>3, <1>4, <1>5, <1>6, <1>7, <1>8 DEF Handles

LEMMA SparesPlace ==
  ASSUME CustodyInv
  PROVE  \A j \in Jobs : Spares(j) /\ (job[j].pc = "place" => job[j].from # job[j].to)
BY DEF CustodyInv, Spares

\* Every step keeps a whole copy of what is complete and not thrown away.
LEMMA WholeStep ==
  ASSUME Typed, DistinctNames, CustodyInv, [Next]_vars
  PROVE  WholeOnceComplete'
<1>1. \A t \in Torrents :
        /\ t \notin daemon.complete => \A d \in Dirs : ~Whole(t, d)
        /\ t \in daemon.complete \ trashed => \E d \in Dirs : Whole(t, d)
  BY DEF CustodyInv, WholeOnceComplete
<1>2. CASE UNCHANGED <<disk, trashed>> /\ daemon'.complete = daemon.complete
  BY <1>1, <1>2 DEF WholeOnceComplete, Whole, WholeAfter
<1>3. CASE \E j \in Jobs : Handles(j) /\ trashed' = trashed /\ daemon'.complete = daemon.complete
  <2>1. PICK j \in Jobs : Handles(j) /\ trashed' = trashed /\ daemon'.complete = daemon.complete
    BY <1>3
  <2> DEFINE t == j[1]
             a == job[j].from
             b == job[j].to
  <2>2. /\ \A u \in Torrents, e \in Dirs : u # t => (WholeAfter(u, e) <=> Whole(u, e))
        /\ \/ Carried(t, a, b) /\ Spared(t, b)
           \/ Copied(t, a, b) /\ Spared(t, b)
           \/ \E d \in {a, b} : Cut(t, d) /\ Spared(t, d)
    BY <2>1, SparesPlace, HandlesWhole
  <2>3. t \in Torrents /\ a \in Dirs /\ b \in Dirs
    BY <2>1, MovesAreJobs DEF Handles
  <2> HIDE DEF t, a, b
  <2>4. ASSUME t \notin daemon.complete
        PROVE  \A d \in Dirs : ~WholeAfter(t, d)
    BY <1>1, <2>2, <2>3, <2>4 DEF Carried, Copied, Cut
  <2>5. ASSUME t \in daemon.complete \ trashed
        PROVE  \E d \in Dirs : WholeAfter(t, d)
    BY <2>2, <2>3, <2>5 DEF Carried, Copied, Cut, Spared
  <2>6. ASSUME NEW u \in Torrents
        PROVE  /\ u \notin daemon'.complete => \A d \in Dirs : ~WholeAfter(u, d)
               /\ u \in daemon'.complete \ trashed' => \E d \in Dirs : WholeAfter(u, d)
    BY <1>1, <2>1, <2>2, <2>4, <2>5
  <2> QED
    BY <2>6 DEF WholeOnceComplete, Whole, WholeAfter
<1>4. CASE \E r \in Requests : /\ trashed' = trashed \cup {r[1]} /\ job[r].to \in Dirs
                               /\ UNCHANGED disk \/ Sets(r[1], job[r].to, NoData)
                               /\ daemon'.complete = daemon.complete
  <2>1. PICK r \in Requests : /\ trashed' = trashed \cup {r[1]} /\ job[r].to \in Dirs
                              /\ UNCHANGED disk \/ Sets(r[1], job[r].to, NoData)
                              /\ daemon'.complete = daemon.complete
    BY <1>4
  <2>2. \A u \in Torrents, e \in Dirs : u # r[1] => (WholeAfter(u, e) <=> Whole(u, e))
    BY <2>1 DEF Sets, Whole, WholeAfter, Place, DataOf
  <2>3. \A u \in Torrents, e \in Dirs : WholeAfter(u, e) => Whole(u, e)
    BY <2>1, DataKinds DEF Sets, Whole, WholeAfter, Place, DataOf
  <2> QED
    BY <1>1, <2>1, <2>2, <2>3 DEF WholeOnceComplete, Whole, WholeAfter
<1>5. CASE \E t \in Torrents : /\ Sets(t, daemon.dir[t], DataOf(t)) /\ daemon.dir[t] \in Dirs
                               /\ trashed' = trashed
                               /\ daemon'.complete = daemon.complete \cup {t}
  <2>1. PICK t \in Torrents : /\ Sets(t, daemon.dir[t], DataOf(t)) /\ daemon.dir[t] \in Dirs
                              /\ trashed' = trashed
                              /\ daemon'.complete = daemon.complete \cup {t}
    BY <1>5
  <2>2. /\ \A u \in Torrents, e \in Dirs : u # t => (WholeAfter(u, e) <=> Whole(u, e))
        /\ WholeAfter(t, daemon.dir[t])
  <3>1. \A u \in Torrents, e \in Dirs : u # t => (WholeAfter(u, e) <=> Whole(u, e))
      BY <2>1 DEF Sets, Whole, WholeAfter, Place, DataOf
    <3>2. disk'[Place(daemon.dir[t], t)] = DataOf(t)
      BY <2>1 DEF Sets
    <3> QED
      BY <3>1, <3>2 DEF WholeAfter
  <2> QED
    BY <1>1, <2>1, <2>2 DEF WholeOnceComplete, Whole, WholeAfter
<1> QED
  BY <1>2, <1>3, <1>4, <1>5, SparesPlace, DiskEffect

LEMMA CopiesOf ==
  ASSUME NEW t \in Torrents
  PROVE  /\ Copies[t] \subseteq Dirs /\ Copies'[t] \subseteq Dirs
         /\ \A d \in Dirs : /\ d \in Copies[t] <=> Whole(t, d)
                            /\ d \in Copies'[t] <=> WholeAfter(t, d)
BY DEF Copies, Whole, WholeAfter

LEMMA CopiesBecome ==
  ASSUME NEW t \in Torrents, NEW left \in SUBSET Dirs,
         \A u \in Torrents, e \in Dirs : u # t => (WholeAfter(u, e) <=> Whole(u, e)),
         \A e \in Dirs : WholeAfter(t, e) <=> e \in left
  PROVE  Copies' = [Copies EXCEPT ![t] = left]
BY DEF Copies, Whole, WholeAfter

\* A directory is cut from the copies of a torrent only if it is not the last.
LEMMA CutKeepsCustody ==
  ASSUME CustodyInv, NEW t \in Torrents, NEW d \in Dirs, Cut(t, d), Spared(t, d),
         trashed' = trashed,
         \A u \in Torrents, e \in Dirs : u # t => (WholeAfter(u, e) <=> Whole(u, e))
  PROVE  [Custody!Next]_<<Copies, trashed>>
<1>1. Copies[t] \ {d} \in SUBSET Dirs
  BY CopiesOf
<1>2. \A e \in Dirs : WholeAfter(t, e) <=> e \in Copies[t] \ {d}
  BY CopiesOf DEF Cut
<1>3. Copies' = [Copies EXCEPT ![t] = Copies[t] \ {d}]
  BY <1>1, <1>2, CopiesBecome
<1>4. CASE d \notin Copies[t]
  <2>1. Copies' = Copies
    BY <1>3, <1>4 DEF Copies
  <2> QED
    BY <2>1
<1>5. CASE d \in Copies[t] /\ t \in trashed
  <2>1. Custody!Lose(t)
    BY <1>3, <1>5 DEF Custody!Lose
  <2> QED
    BY <2>1 DEF Custody!Next
<1>6. CASE d \in Copies[t] /\ t \notin trashed
  <2>1. t \in daemon.complete
    BY <1>6, CopiesOf DEF CustodyInv, WholeOnceComplete
  <2>2. \E e \in Dirs \ {d} : e \in Copies[t]
    BY <1>6, <2>1, CopiesOf DEF Spared
  <2>3. Custody!Drop(t, d)
    BY <1>3, <1>6, <2>2 DEF Custody!Drop
  <2> QED
    BY <2>3 DEF Custody!Next
<1> QED
  BY <1>4, <1>5, <1>6

LEMMA CustodyStep ==
  ASSUME Typed, DistinctNames, CustodyInv, [Next]_vars
  PROVE  [Custody!Next]_<<Copies, trashed>>
<1>1. CASE UNCHANGED <<disk, trashed>>
  <2>1. Copies' = Copies
    BY <1>1 DEF Copies
  <2> QED
    BY <1>1, <2>1
<1>2. CASE \E j \in Jobs : Handles(j) /\ trashed' = trashed
  <2>1. PICK j \in Jobs : Handles(j) /\ trashed' = trashed
    BY <1>2
  <2> DEFINE t == j[1]
             a == job[j].from
             b == job[j].to
  <2>2. /\ \A u \in Torrents, e \in Dirs : u # t => (WholeAfter(u, e) <=> Whole(u, e))
        /\ \/ Carried(t, a, b) /\ Spared(t, b)
           \/ Copied(t, a, b) /\ Spared(t, b)
           \/ \E d \in {a, b} : Cut(t, d) /\ Spared(t, d)
    BY <2>1, SparesPlace, HandlesWhole
  <2>3. t \in Torrents /\ a \in Dirs /\ b \in Dirs
    BY <2>1, MovesAreJobs DEF Handles
  <2> HIDE DEF t, a, b
  <2>4. CASE \E d \in {a, b} : Cut(t, d) /\ Spared(t, d)
    BY <2>1, <2>2, <2>3, <2>4, CutKeepsCustody
  <2>5. CASE Carried(t, a, b) /\ Spared(t, b)
    <3>1. CASE Whole(t, a)
      <4> DEFINE left == (Copies[t] \ {a}) \cup {b}
      <4>1. left \in SUBSET Dirs /\ \A e \in Dirs : WholeAfter(t, e) <=> e \in left
        BY <2>3, <2>5, <3>1, CopiesOf DEF Carried
      <4>2. Copies' = [Copies EXCEPT ![t] = left]
        <5> HIDE DEF left
        <5> QED
          BY <2>2, <2>3, <4>1, CopiesBecome
      <4>3. a \in Copies[t]
        BY <2>3, <3>1, CopiesOf
      <4>4. Custody!Relocate(t, a, b)
        BY <2>1, <4>2, <4>3 DEF Custody!Relocate
      <4> QED
        BY <2>3, <4>4 DEF Custody!Next
    <3>2. CASE ~Whole(t, a)
      <4>1. Cut(t, b)
        BY <2>3, <2>5, <3>2 DEF Carried, Cut
      <4> QED
        BY <2>1, <2>2, <2>3, <2>5, <4>1, CutKeepsCustody
    <3> QED
      BY <3>1, <3>2
  <2>6. CASE Copied(t, a, b) /\ Spared(t, b)
    <3>1. CASE Whole(t, a)
      <4> DEFINE left == Copies[t] \cup {b}
      <4>1. left \in SUBSET Dirs /\ \A e \in Dirs : WholeAfter(t, e) <=> e \in left
        BY <2>3, <2>6, <3>1, CopiesOf DEF Copied
      <4>2. Copies' = [Copies EXCEPT ![t] = left]
        <5> HIDE DEF left
        <5> QED
          BY <2>2, <2>3, <4>1, CopiesBecome
      <4>3. Copies[t] # {}
        BY <2>3, <3>1, CopiesOf
      <4>4. Custody!Copy(t, b)
        BY <2>1, <4>2, <4>3 DEF Custody!Copy
      <4> QED
        BY <2>3, <4>4 DEF Custody!Next
    <3>2. CASE ~Whole(t, a)
      <4>1. Cut(t, b)
        BY <2>3, <2>6, <3>2 DEF Copied, Cut
      <4> QED
        BY <2>1, <2>2, <2>3, <2>6, <4>1, CutKeepsCustody
    <3> QED
      BY <3>1, <3>2
  <2> QED
    BY <2>2, <2>4, <2>5, <2>6
<1>3. CASE \E r \in Requests : /\ trashed' = trashed \cup {r[1]} /\ job[r].to \in Dirs
                               /\ UNCHANGED disk \/ Sets(r[1], job[r].to, NoData)
  <2>1. PICK r \in Requests : /\ trashed' = trashed \cup {r[1]} /\ job[r].to \in Dirs
                              /\ UNCHANGED disk \/ Sets(r[1], job[r].to, NoData)
    BY <1>3
  <2>2. r[1] \in Torrents
    BY MovesAreJobs
  <2>3. /\ \A u \in Torrents, e \in Dirs : u # r[1] => (WholeAfter(u, e) <=> Whole(u, e))
        /\ \A u \in Torrents, e \in Dirs : WholeAfter(u, e) => Whole(u, e)
    BY <2>1, DataKinds DEF Sets, Whole, WholeAfter, Place, DataOf
  <2>4. Copies'[r[1]] \in SUBSET Copies[r[1]]
    BY <2>2, <2>3, CopiesOf
  <2>5. Copies' = [Copies EXCEPT ![r[1]] = Copies'[r[1]]]
    <3> DEFINE left == Copies'[r[1]]
    <3>1. left \in SUBSET Dirs /\ \A e \in Dirs : WholeAfter(r[1], e) <=> e \in left
      BY <2>2, CopiesOf
    <3> HIDE DEF left
    <3>2. Copies' = [Copies EXCEPT ![r[1]] = left]
      BY <2>2, <2>3, <3>1, CopiesBecome
    <3> QED
      BY <3>2 DEF left
  <2>6. Custody!Release(r[1])
    BY <2>1, <2>4, <2>5 DEF Custody!Release
  <2> QED
    BY <2>2, <2>6 DEF Custody!Next
<1>4. CASE \E t \in Torrents : /\ CompleteDownload(t) /\ daemon.dir[t] \in Dirs
                               /\ Sets(t, daemon.dir[t], DataOf(t)) /\ trashed' = trashed
  <2>1. PICK t \in Torrents : /\ CompleteDownload(t) /\ daemon.dir[t] \in Dirs
                              /\ Sets(t, daemon.dir[t], DataOf(t)) /\ trashed' = trashed
    BY <1>4
  <2> DEFINE d == daemon.dir[t]
  <2>2. Copies[t] = {}
    <3>1. t \notin daemon.complete
      BY <2>1 DEF CompleteDownload
    <3> QED
      BY <3>1, CopiesOf DEF CustodyInv, WholeOnceComplete
  <2>3. \A u \in Torrents, e \in Dirs : u # t => (WholeAfter(u, e) <=> Whole(u, e))
    BY <2>1 DEF Sets, Whole, WholeAfter, Place, DataOf
  <2>4. \A e \in Dirs : WholeAfter(t, e) <=> e \in {d}
    <3>1. \A e \in Dirs : disk'[Place(e, t)] = IF e = d THEN DataOf(t) ELSE disk[Place(e, t)]
      BY <2>1 DEF Sets
    <3>2. \A e \in Dirs : ~Whole(t, e)
      BY <2>2, CopiesOf
    <3> QED
      BY <3>1, <3>2 DEF Whole, WholeAfter
  <2>5. Copies' = [Copies EXCEPT ![t] = {d}]
    <3>1. {d} \in SUBSET Dirs
      BY <2>1
    <3> HIDE DEF d
    <3> QED
      BY <2>3, <2>4, <3>1, CopiesBecome
  <2>6. Custody!Complete(t, d)
    BY <2>1, <2>2, <2>5 DEF Custody!Complete
  <2> QED
    BY <2>1, <2>6 DEF Custody!Next
<1> QED
  BY <1>1, <1>2, <1>3, <1>4, SparesPlace, DiskEffect

----------------------------------------------------------------------------
(* How the jobs go on, and the last copy spared. *)

\* A job goes on by its own step; others only begin or end it.
LEMMA JobsGo ==
  ASSUME Typed, [Next]_vars, NEW j \in Jobs
  PROVE  \/ job'[j] = job[j] \/ job'[j] = Idle
         \/ j \in Moves /\ (MoveStep(j) \/ job'[j].pc = "begin")
         \/ /\ j \in Requests
            /\ RequestStep(j) \/ job'[j].pc \in {"stop", "check", "pointer", "remove"}
<1>1. /\ job \in [Jobs -> JobRecords] /\ Moves \subseteq Jobs /\ Requests \subseteq Jobs
      /\ Moves \cap Requests = {} /\ Jobs = Moves \cup Requests
  BY MovesAreJobs DEF Typed, TypeOK, Jobs
<1>2. CASE Tick
  <2>1. CASE PlanMoves
    <3> DEFINE planned(i) == [pc |-> "begin", from |-> raw.dir[i[1]],
                              to |-> Destination(i[1], raw.finalDir[i[1]]),
                              was |-> i[1] \in raw.active]
    <3>1. PICK new \in SUBSET Moves :
            /\ \A i \in new : job'[i] = planned(i)
            /\ \A k \in Jobs \ new : job'[k] = job[k]
      BY <2>1, PlanJobs
    <3>2. CASE j \in new
      <4>1. planned(j).pc = "begin"
        OBVIOUS
      <4> HIDE DEF planned
      <4> QED
        BY <3>1, <3>2, <4>1
    <3>3. CASE j \notin new
      BY <3>1, <3>3
    <3> QED
      BY <3>2, <3>3
  <2>2. CASE ~PlanMoves
    BY <1>2, <2>2, TickJobs
  <2> QED
    BY <2>1, <2>2
<1>3. CASE \E i \in Moves : MoveStep(i)
  BY <1>1, <1>3, MoveStepJobs
<1>4. CASE \E r \in Requests : RequestStep(r)
  <2>1. PICK r \in Requests : RequestStep(r)
    BY <1>4
  <2>2. End(r) \/ \E pc : Goto(r, pc)
    BY <2>1 DEF RequestStep, CopyStep, StopForLocation, RestartAfterRequest,
         PointForLocation, ClearForLocation, RestartForLocation, EraseForTrash, TrashData,
         CheckPaths, Rename, OpenCopy, PlaceFails, VerifyCopy,
         CancelCopy, CopyFails, EraseSource, EraseFails
  <2>3. \A k \in Jobs : k # r => job'[k] = job[k]
    BY <1>1, <2>2, GotoFields, FieldsOfEnd
  <2> QED
    BY <1>1, <2>1, <2>3
<1>5. CASE \E t \in Torrents : AskTrash(t) \/ \E d \in Dirs : AskLocation(t, d)
  <2>1. PICK t \in Torrents : AskTrash(t) \/ \E d \in Dirs : AskLocation(t, d)
    BY <1>5
  <2>2. <<t, 0>> \in Requests
    BY DEF Requests
  <2>3. CASE AskTrash(t)
    <3>1. job'[<<t, 0>>].pc = "remove" /\ \A k \in Jobs : k # <<t, 0>> => job'[k] = job[k]
      BY <1>1, <2>2, <2>3 DEF AskTrash
    <3> QED
      BY <2>2, <3>1
  <2>4. CASE \E d \in Dirs : AskLocation(t, d)
    <3> DEFINE asked(d, from) ==
                 [pc |-> IF t \in daemon.active THEN "stop"
                         ELSE IF from # NoDir THEN "check" ELSE "pointer",
                  from |-> from, to |-> d, was |-> t \in daemon.active]
    <3>1. PICK d, from : job' = [job EXCEPT ![<<t, 0>>] = asked(d, from)]
      BY <2>4 DEF AskLocation
    <3>2. asked(d, from).pc \in {"stop", "check", "pointer"}
      OBVIOUS
    <3>3. /\ job'[<<t, 0>>].pc \in {"stop", "check", "pointer"}
          /\ \A k \in Jobs : k # <<t, 0>> => job'[k] = job[k]
      <4> HIDE DEF asked
      <4> QED
        BY <1>1, <2>2, <3>1, <3>2
    <3> QED
      BY <2>2, <3>3
  <2> QED
    BY <2>1, <2>3, <2>4
<1>6. CASE \/ \E t \in Torrents : \/ StartCommand(t) \/ StopCommand(t) \/ RetryMove(t)
                                \/ RemoveTorrent(t) \/ CompleteDownload(t)
           \/ \E i \in Moves : CancelMove(i)
           \/ UNCHANGED vars
  BY <1>6 DEF StartCommand, StopCommand, RetryMove, RemoveTorrent, CompleteDownload,
       CancelMove, vars
<1>7. CASE Restart
  BY <1>7 DEF Restart
<1> QED
  BY <1>2, <1>3, <1>4, <1>5, <1>6, <1>7 DEF Next, Operator

\* Nobody else touches the data a task is busy with, but to throw it away.
LEMMA PlacesStay ==
  ASSUME Typed, ControlInv, DistinctNames, RequestsOnlyTrash, OnlyCompletedMove, CustodyInv,
         [Next]_vars, NEW i \in Moves, Working(i), ~MoveStep(i)
  PROVE  \/ i[1] \in trashed'
         \/ \A d \in Dirs : disk'[Place(d, i[1])] = disk[Place(d, i[1])]
<1>1. i[1] \in Torrents
  BY MovesAreJobs
<1>2. CASE UNCHANGED disk
  BY <1>2 DEF Place
<1>3. ASSUME NEW j \in Jobs, Handles(j), j \in Moves => MoveStep(j)
      PROVE  \A d \in Dirs : disk'[Place(d, i[1])] = disk[Place(d, i[1])]
  <2>1. j \in Moves
    <3>1. job[j].pc \in CopyPcs
      BY <1>3 DEF Handles, Rename, OpenCopy, VerifyCopy, CancelCopy, CopyFails, EraseSource,
           EraseFails, CopyPcs
    <3> QED
      BY <3>1 DEF RequestsOnlyTrash, CopyPcs, Jobs
  <2>2. j # i /\ Working(j)
    BY <1>3, <2>1, MoveStepEffect
  <2>3. j[1] # i[1]
    BY <2>1, <2>2 DEF ControlInv, OneTaskPerTorrent
  <2> QED
    BY <1>1, <1>3, <2>3 DEF Handles, Sets, Renames
<1>4. CASE \E r \in Requests : /\ trashed' = trashed \cup {r[1]}
                               /\ UNCHANGED disk \/ Sets(r[1], job[r].to, NoData)
  BY <1>1, <1>2, <1>4 DEF Sets
<1>5. CASE \E t \in Torrents : CompleteDownload(t) /\ Sets(t, daemon.dir[t], DataOf(t))
  <2>1. PICK t \in Torrents : CompleteDownload(t) /\ Sets(t, daemon.dir[t], DataOf(t))
    BY <1>5
  <2>2. t # i[1]
    BY <2>1 DEF CompleteDownload, OnlyCompletedMove
  <2> QED
    BY <1>1, <2>1, <2>2 DEF Sets
<1> QED
  BY <1>2, <1>3, <1>4, <1>5, SparesPlace, DiskEffect

\* A task enters the copy only by its own checks.
LEMMA TaskSpares ==
  ASSUME Typed, DistinctNames, OnlyCompletedMove, CustodyInv, [Next]_vars,
         NEW i \in Moves, MoveStep(i)
  PROVE  Spares(i)'
<1> DEFINE t == i[1]
           a == job[i].from
           b == job[i].to
<1>1. job \in [Jobs -> JobRecords] /\ i \in Jobs /\ t \in Torrents /\ t \in daemon.complete
  <2>1. Working(i)
    BY MoveStepEffect
  <2> QED
    BY <2>1, MovesAreJobs DEF Typed, TypeOK, OnlyCompletedMove
<1>2. trashed' = trashed /\ daemon'.complete = daemon.complete
  BY MoveStepJobs, MoveStepDaemon DEF envVars
<1>3. CASE job'[i].pc \notin {"place", "copy", "erase"}
  BY <1>3 DEF Spares
<1>4. CASE job'[i].pc \in {"place", "copy", "erase"}
  <2>1. CopyStep(i)
    <3>1. \/ CopyStep(i) \/ ReadActive(i) \/ End(i)
          \/ \E pc \in Pcs \ {"place", "copy", "erase"} : Goto(i, pc)
      BY DEF MoveStep, Begin, Gate, StopTorrent,
         MarkInProgress, RestartInPlace, EndInPlace,
         PointDaemon, ClearIntent, RestartHome, EndDone, Unregister, Finish, Pcs, CopyPcs
    <3> QED
      BY <1>1, <1>4, <3>1, GotoFields, FieldsOfEnd, ReadFields DEF Idle
  <2>2. /\ job'[i].from = a /\ job'[i].to = b /\ a \in Dirs /\ b \in Dirs
        /\ Source(i) = Place(a, t) /\ Target(i) = Place(b, t)
        /\ Source(i)' = Source(i)
    <3>1. job[i].pc \in CopyPcs
      BY <2>1 DEF CopyStep, CheckPaths, Rename, OpenCopy, PlaceFails, VerifyCopy,
         CancelCopy, CopyFails, EraseSource, EraseFails, CopyPcs
    <3>2. a \in Dirs /\ b \in Dirs
      BY <1>1, <3>1, JobPlaces DEF Typed, TypeOK, JobsDirected, JobRecords
    <3>3. job'[i].from = a /\ job'[i].to = b
      BY <1>4, MoveStepJobs DEF Idle
    <3> QED
      BY <3>2, <3>3 DEF Source, Target, Place
  <2>3. t \notin trashed => \E d \in Dirs : Whole(t, d)
    BY <1>1 DEF CustodyInv, WholeOnceComplete
  <2>4. Spares(i)
    BY <1>1, SparesPlace
  <2>5. /\ job'[i].pc # job[i].pc
        /\ job'[i].pc = "place" => CheckPaths(i) /\ Source(i) # Target(i) /\ disk[Target(i)] = NoData
        /\ job'[i].pc = "copy" => OpenCopy(i)
        /\ job'[i].pc = "erase" => VerifyCopy(i)
    <3>1. ASSUME NEW pc, Goto(i, pc)
          PROVE  job'[i].pc = pc
      BY <1>1, <3>1, GotoFields
    <3> QED
      BY <1>4, <2>1, <3>1 DEF CopyStep, CheckPaths, Rename, OpenCopy, PlaceFails, VerifyCopy,
         CancelCopy, CopyFails, EraseSource, EraseFails
  <2>6. CASE job'[i].pc = "place"
    <3>1. a # b /\ UNCHANGED disk
      BY <2>2, <2>5, <2>6 DEF CheckPaths
    <3>2. ~Whole(t, b)
      BY <1>1, <2>2, <2>5, <2>6, DataKinds DEF Whole
    <3>3. t \notin trashed => \E d \in Dirs \ {b} : WholeAfter(t, d)
      BY <2>3, <3>1, <3>2 DEF Whole, WholeAfter
    <3> QED
      BY <1>2, <2>2, <2>6, <3>1, <3>3 DEF Spares, Whole, WholeAfter
  <2>7. CASE job'[i].pc = "copy"
    <3>1. a # b /\ (t \notin trashed => \E d \in Dirs \ {b} : Whole(t, d))
      BY <1>1, <2>4, <2>5, <2>7 DEF OpenCopy, Spares
    <3>2. Sets(t, b, PartOf(disk[Source(i)].of))
      BY <1>1, <2>2, <2>5, <2>7, PutData DEF OpenCopy
    <3>3. t \notin trashed => \E d \in Dirs \ {b} : WholeAfter(t, d)
      BY <1>1, <3>1, <3>2 DEF Sets, Whole, WholeAfter
    <3> QED
      BY <1>2, <2>2, <2>7, <3>1, <3>3 DEF Spares, Whole, WholeAfter
  <2>8. CASE job'[i].pc = "erase"
    <3>1. (t \notin trashed => \E d \in Dirs \ {b} : Whole(t, d)) /\ job[i].pc = "copy"
      BY <1>1, <2>4, <2>5, <2>8 DEF VerifyCopy, Spares
    <3>2. Sets(t, b, disk[Source(i)])
      BY <1>1, <2>2, <2>5, <2>8, PutData DEF VerifyCopy
    <3>3. a # b
      BY <2>4, <3>1 DEF Spares
    <3>4. t \notin trashed => \E d \in Dirs \ {a} : WholeAfter(t, d)
      BY <1>1, <2>2, <3>1, <3>2, <3>3 DEF Sets, Whole, WholeAfter
    <3> QED
      BY <1>2, <2>2, <2>8, <3>3, <3>4 DEF Spares, Whole, WholeAfter
  <2> QED
    BY <1>4, <2>6, <2>7, <2>8
<1> QED
  BY <1>3, <1>4

LEMMA SparesStep ==
  ASSUME Typed, ControlInv, DistinctNames, Without(Relocations), RequestsOnlyTrash,
         OnlyCompletedMove, CustodyInv, [Next]_vars
  PROVE  CustodyInv'
<1>1. \A r \in Requests : Spares(r)'
  BY RequestsTrashStep DEF RequestsOnlyTrash, Spares
<1>2. ASSUME NEW i \in Moves, ~MoveStep(i)
      PROVE  Spares(i)'
  <2>1. i \in Jobs /\ i \notin Requests /\ i[1] \in Torrents
    BY MovesAreJobs
  <2>2. CASE job'[i].pc \notin {"place", "copy", "erase"}
    BY <2>2 DEF Spares
  <2>3. CASE job'[i].pc \in {"place", "copy", "erase"}
    <3>1. job'[i] = job[i]
      BY <1>2, <2>1, <2>3, JobsGo DEF Idle
    <3>2. Working(i) /\ Spares(i)
      BY <2>1, <2>3, <3>1, SparesPlace DEF Working
    <3>3. i[1] \in trashed' \/ \A d \in Dirs : disk'[Place(d, i[1])] = disk[Place(d, i[1])]
      BY <1>2, <3>2, PlacesStay
    <3>4. CASE i[1] \in trashed'
      BY <3>1, <3>2, <3>4 DEF Spares
    <3>5. CASE \A d \in Dirs : disk'[Place(d, i[1])] = disk[Place(d, i[1])]
      <4>1. i[1] \in daemon.complete /\ (i[1] \notin trashed' => i[1] \notin trashed)
        <5>1. trashed \subseteq trashed'
          BY SparesPlace, DiskEffect
        <5> QED
          BY <3>2, <5>1 DEF OnlyCompletedMove
      <4>2. \A d \in Dirs : Whole(i[1], d)' <=> Whole(i[1], d)
        BY <3>5 DEF Whole, Place, DataOf
      <4>3. job[i].from \in Dirs
        BY <2>1, <2>3, <3>1 DEF Typed, TypeOK, JobsDirected, JobRecords, CopyPcs
      <4>4. Source(i)' = Source(i) /\ disk'[Source(i)] = disk[Source(i)]
        BY <3>1, <3>5, <4>3 DEF Source, Place
      <4> QED
        BY <3>1, <3>2, <4>1, <4>2, <4>4 DEF Spares
    <3> QED
      BY <3>3, <3>4, <3>5
  <2> QED
    BY <2>2, <2>3
<1> QED
  BY <1>1, <1>2, TaskSpares, WholeStep DEF CustodyInv, Jobs

LEMMA CustodyInit == DistinctNames /\ Init => WholeOnceComplete /\ CustodyInv
<1> SUFFICES ASSUME DistinctNames, Init PROVE WholeOnceComplete /\ CustodyInv
  OBVIOUS
<1>1. ASSUME NEW t \in Torrents, NEW d \in Dirs
      PROVE  ~Whole(t, d)
  <2>1. Place(d, t) \in Paths
    BY PlacesArePaths
  <2>2. \E of : disk[Place(d, t)] \in {DataOf(Foreign), PartOf(of), NoData}
    BY <2>1 DEF Init
  <2>3. DataOf(Foreign) # DataOf(t)
    BY ConfigAssumption DEF DataOf
  <2> QED
    BY <2>2, <2>3, DataKinds DEF Whole
<1>2. WholeOnceComplete
  BY <1>1 DEF Init, WholeOnceComplete
<1>3. \A j \in Jobs : Spares(j)
  BY DEF Init, Spares, Idle
<1> QED
  BY <1>2, <1>3 DEF CustodyInv

\* Where data lies in one directory only, what is about to be renamed is the
\* whole copy, and nothing else overwrites or erases.
LEMMA RenamedSpares ==
  ASSUME Typed, RenamedOnly, WholeOnceComplete
  PROVE  CustodyInv
<1> SUFFICES ASSUME NEW j \in Jobs PROVE Spares(j)
  BY DEF CustodyInv
<1>1. /\ job[j].pc \notin {"copy", "erase"}
      /\ job[j].pc = "place" => job[j].from # job[j].to
  BY DEF RenamedOnly
<1>2. ASSUME job[j].pc = "place", disk[Source(j)] # NoData, j[1] \in daemon.complete \ trashed
      PROVE  \E d \in Dirs \ {job[j].to} : Whole(j[1], d)
  <2>1. j[1] \in Torrents /\ job[j].from \in Dirs
    BY <1>2, MovesAreJobs, JobPlaces DEF CopyPcs, Typed, TypeOK, JobRecords
  <2>2. PICK d \in Dirs : Whole(j[1], d)
    BY <1>2, <2>1 DEF WholeOnceComplete
  <2>3. disk[Place(d, j[1])] # NoData
    BY <2>1, <2>2, DataKinds DEF Whole
  <2>4. d = job[j].from
    BY <1>2, <2>1, <2>3 DEF RenamedOnly, Source
  <2> QED
    BY <1>1, <1>2, <2>2, <2>4
<1> QED
  BY <1>1, <1>2 DEF Spares

LEMMA RenamedInit ==
  ASSUME DistinctNames, Unsquatted, Init
  PROVE  RenamedOnly
<1>1. ASSUME NEW t \in Torrents, NEW d \in Dirs
      PROVE  disk[Place(d, t)] = IF d = StartDir[t] THEN PartOf(t) ELSE NoData
  <2>1. Place(d, t) \in Paths /\ Place(d, t) \notin Squatted
    BY PlacesArePaths DEF Unsquatted
  <2>2. \A u \in Torrents : Place(d, t) = Place(StartDir[u], u) <=> u = t /\ d = StartDir[t]
    BY PlacesDiffer, ConfigAssumption
  <2>3. CASE d = StartDir[t]
    <3>1. \E u \in Torrents : Place(d, t) = Place(StartDir[u], u)
      BY <2>2, <2>3
    <3>2. (CHOOSE u \in Torrents : Place(d, t) = Place(StartDir[u], u)) = t
      BY <2>2, <3>1
    <3> QED
      BY <2>1, <2>3, <3>1, <3>2 DEF Init
  <2>4. CASE d # StartDir[t]
    BY <2>1, <2>2, <2>4 DEF Init
  <2> QED
    BY <2>3, <2>4
<1>2. \A t \in Torrents : \A d, e \in Dirs :
        disk[Place(d, t)] # NoData /\ disk[Place(e, t)] # NoData => d = e
  BY <1>1
<1>3. \A t \in Torrents, d \in Dirs : disk[Place(d, t)].of \in {t, Nobody}
  <2>1. \A t \in Torrents : PartOf(t).of = t /\ NoData.of = Nobody
    BY DEF PartOf, NoData
  <2> QED
    BY <1>1, <2>1
<1>4. \A j \in Jobs : job[j].pc = "idle"
  BY DEF Init, Idle
<1> QED
  BY <1>2, <1>3, <1>4 DEF RenamedOnly

\* On one volume, where a rename fails only when the file system is at fault.
NeverCopies == SameVolume /\ "rename" \notin Faults

LEMMA RenamedHandles ==
  ASSUME Typed, RenamedOnly, NeverCopies, NEW j \in Jobs, Handles(j)
  PROVE  Rename(j) /\ ~OpenCopy(j)
<1>1. job[j].pc \notin {"copy", "erase"} /\ (job[j].pc = "place" => job[j].from # job[j].to)
  BY DEF RenamedOnly
<1>2. ~OpenCopy(j)
  <2>1. j[1] \in Torrents
    BY MovesAreJobs
  <2> QED
    BY <1>1, <2>1 DEF OpenCopy, Handles, RenamedOnly, Source, Target, NeverCopies, Fault
<1> QED
  BY <1>1, <1>2 DEF Handles, VerifyCopy, CancelCopy, CopyFails, EraseSource, EraseFails

LEMMA RenamedStep ==
  ASSUME Typed, DistinctNames, NeverCopies, RenamedOnly, [Next]_vars
  PROVE  RenamedOnly'
<1>1. \A j \in Jobs : job[j].pc = "place" => job[j].from # job[j].to
  BY DEF RenamedOnly
<1>2. ASSUME NEW j \in Jobs
      PROVE  /\ job'[j].pc \notin {"copy", "erase", "cancelled", "endCancelled"}
             /\ job'[j].pc = "place" => job'[j].from # job'[j].to
  <2>1. job \in [Jobs -> JobRecords] /\ j[1] \in Torrents
    BY MovesAreJobs DEF Typed, TypeOK
  <2>2. /\ job[j].pc \notin {"copy", "erase", "cancelled", "endCancelled"}
        /\ job[j].pc = "place" => job[j].from # job[j].to
    BY DEF RenamedOnly
  <2>3. ASSUME NEW pc \in Pcs \ {"place", "copy", "erase", "cancelled", "endCancelled"},
               Goto(j, pc)
        PROVE  job'[j].pc = pc
    BY <2>1, <2>3, GotoFields
  <2>4. CASE CheckPaths(j)
    <3>1. PICK pc \in {"pointer", "failed", "place"} :
            Goto(j, pc) /\ (pc = "place" => Source(j) # Target(j))
      BY <2>4 DEF CheckPaths
    <3>2. job'[j].pc = pc /\ job'[j].from = job[j].from /\ job'[j].to = job[j].to
      BY <2>1, <3>1, GotoFields
    <3>3. Source(j) # Target(j) => job[j].from # job[j].to
      BY DEF Source, Target
    <3> QED
      BY <3>1, <3>2, <3>3
  <2>5. ~OpenCopy(j)
    <3>1. OpenCopy(j) => job[j].from \in Dirs /\ job[j].to \in Dirs /\ job[j].pc = "place"
      BY JobPlaces DEF OpenCopy, CopyPcs, Typed, TypeOK, JobsDirected, JobRecords
    <3> QED
      BY <2>1, <2>2, <3>1 DEF OpenCopy, RenamedOnly, Source, Target, NeverCopies, Fault
  <2>6. CASE CopyStep(j) /\ ~CheckPaths(j)
    <3>1. Goto(j, "pointer") \/ Goto(j, "failed")
      BY <2>2, <2>5, <2>6 DEF CopyStep, Rename, PlaceFails, VerifyCopy, CancelCopy, CopyFails,
           EraseSource, EraseFails
    <3> QED
      BY <2>3, <3>1 DEF Pcs
  <2>7. CASE j \in Moves /\ MoveStep(j) /\ ~CopyStep(j)
    <3>1. \/ ReadActive(j) \/ End(j)
          \/ \E pc \in Pcs \ {"place", "copy", "erase", "cancelled", "endCancelled"} : Goto(j, pc)
      BY <2>2, <2>7 DEF MoveStep, Begin, Gate, StopTorrent,
         MarkInProgress, RestartInPlace, EndInPlace,
         PointDaemon, ClearIntent, RestartHome, EndDone, Unregister, Finish, Pcs, CopyPcs
    <3> QED
      BY <2>1, <2>3, <2>7, <3>1, FieldsOfEnd, ReadFields DEF Idle
  <2>8. CASE j \in Requests /\ RequestStep(j) /\ ~CopyStep(j)
    <3>1. \/ End(j)
          \/ \E pc \in Pcs \ {"place", "copy", "erase", "cancelled", "endCancelled"} : Goto(j, pc)
      BY <2>8 DEF RequestStep, StopForLocation, RestartAfterRequest,
         PointForLocation, ClearForLocation, RestartForLocation, EraseForTrash, TrashData,
         Pcs, CopyPcs
    <3> QED
      BY <2>1, <2>3, <3>1, FieldsOfEnd DEF Idle
  <2>9. CASE \/ job'[j] = job[j] \/ job'[j] = Idle
             \/ job'[j].pc \in {"begin", "stop", "check", "pointer", "remove"}
    BY <2>2, <2>9 DEF Idle
  <2> QED
    BY <2>4, <2>6, <2>7, <2>8, <2>9, JobsGo
<1>3. ASSUME NEW t \in Torrents
      PROVE  /\ \A d, e \in Dirs :
                  disk'[Place(d, t)] # NoData /\ disk'[Place(e, t)] # NoData => d = e
             /\ \A d \in Dirs : disk'[Place(d, t)].of \in {t, Nobody}
  <2>1. /\ \A d, e \in Dirs : disk[Place(d, t)] # NoData /\ disk[Place(e, t)] # NoData => d = e
        /\ \A d \in Dirs : disk[Place(d, t)].of \in {t, Nobody}
        /\ NoData.of = Nobody
    BY DEF RenamedOnly, NoData
  <2>2. CASE UNCHANGED disk
    BY <2>1, <2>2 DEF Place
  <2>3. CASE \E j \in Jobs : Handles(j)
    <3>1. PICK j \in Jobs : Handles(j)
      BY <2>3
    <3>2. /\ disk[Source(j)] # NoData /\ Renames(j[1], job[j].from, job[j].to)
          /\ job[j].from \in Dirs /\ job[j].to \in Dirs
      BY <3>1, RenamedHandles DEF Handles, Rename, OpenCopy, VerifyCopy, CancelCopy, CopyFails,
           EraseSource, EraseFails, RenamedOnly
    <3>3. CASE t = j[1]
      <4>1. \A f \in Dirs : disk'[Place(f, t)] = IF f = job[j].from THEN NoData
                              ELSE IF f = job[j].to THEN disk[Place(job[j].from, t)]
                              ELSE disk[Place(f, t)]
        BY <3>2, <3>3 DEF Renames
      <4>2. \A f \in Dirs : disk[Place(f, t)] # NoData => f = job[j].from
        BY <2>1, <3>2, <3>3 DEF Source
      <4> QED
        BY <2>1, <3>2, <4>1, <4>2
    <3>4. CASE t # j[1]
      BY <2>1, <3>2, <3>4 DEF Renames
    <3> QED
      BY <3>3, <3>4
  <2>4. CASE \E r \in Requests : Sets(r[1], job[r].to, NoData)
    BY <2>1, <2>4 DEF Sets
  <2>5. CASE \E u \in Torrents : CompleteDownload(u) /\ Sets(u, daemon.dir[u], DataOf(u))
                                 /\ daemon.dir[u] \in Dirs
    <3>1. PICK u \in Torrents : CompleteDownload(u) /\ Sets(u, daemon.dir[u], DataOf(u))
                                /\ daemon.dir[u] \in Dirs
      BY <2>5
    <3>2. disk[Place(daemon.dir[u], u)] # NoData /\ DataOf(u).of = u
      <4>1. disk[Place(daemon.dir[u], u)] = PartOf(u)
        BY <3>1 DEF CompleteDownload
      <4> QED
        BY <4>1, ConfigAssumption DEF PartOf, NoData, DataOf
    <3> QED
      BY <2>1, <3>1, <3>2 DEF Sets
  <2> QED
    BY <1>1, <2>2, <2>3, <2>4, <2>5, DiskEffect
<1> QED
  BY <1>2, <1>3 DEF RenamedOnly

\* Either nobody relocates by hand, and each torrent has one mover; or all of
\* it is renames over places that are nobody else's.
KeptApart == DistinctNames /\ (Without(Relocations) \/ (NeverCopies /\ Unsquatted))

LEMMA CustodyInvariant ==
  ASSUME KeptApart
  PROVE  Spec => [](Typed /\ CustodyInv)
<1>1. CASE Without(Relocations)
  <2> DEFINE Inv == Typed /\ ControlInv /\ RequestsOnlyTrash /\ OnlyCompletedMove /\ CustodyInv
  <2>1. Init => Inv
    BY InitTyped, InitControlled, RequestsTrashInit, OnlyCompletedInit, CustodyInit DEF KeptApart
  <2>2. Inv /\ [Next]_vars => Inv'
    BY <1>1, TypedStep, ControlStep, RequestsTrashStep, OnlyCompletedStep, SparesStep DEF KeptApart
  <2>3. Inv => Typed /\ CustodyInv
    OBVIOUS
  <2> QED
    BY <2>1, <2>2, <2>3, PTL DEF Spec
<1>2. CASE NeverCopies /\ Unsquatted
  <2> DEFINE Inv == Typed /\ RenamedOnly /\ WholeOnceComplete
  <2>1. Init => Inv
    BY <1>2, InitTyped, RenamedInit, CustodyInit DEF KeptApart
  <2>2. Inv /\ [Next]_vars => Inv'
    <3> SUFFICES ASSUME Inv, [Next]_vars PROVE Inv'
      OBVIOUS
    <3>1. Typed'
      BY TypedStep
    <3>2. RenamedOnly'
      BY <1>2, RenamedStep DEF KeptApart
    <3>3. WholeOnceComplete'
      BY RenamedSpares, WholeStep DEF KeptApart
    <3> QED
      BY <3>1, <3>2, <3>3
  <2>3. Inv => Typed /\ CustodyInv
    BY RenamedSpares
  <2> QED
    BY <2>1, <2>2, <2>3, PTL DEF Spec
<1> QED
  BY <1>1, <1>2 DEF KeptApart

\* The data of a completed torrent lies whole at some path, whatever copy,
\* cancel, failure or kill happened, unless the operator threw it away; for
\* torrents that share no name, and either without relocations by hand, with
\* any faults, or on one volume, with any commands.
THEOREM DataIsKept ==
  ASSUME KeptApart
  PROVE  Spec => []DataSurvives
<1>1. Typed /\ CustodyInv => DataSurvives
  <2> SUFFICES ASSUME Typed, CustodyInv, NEW t \in daemon.complete \ trashed
               PROVE  \E p \in Paths : disk[p] = DataOf(t)
    BY DEF DataSurvives
  <2>1. t \in Torrents
    BY DEF Typed, TypeOK, Rows
  <2>2. PICK d \in Dirs : Whole(t, d)
    BY <2>1 DEF CustodyInv, WholeOnceComplete
  <2> QED
    BY <2>1, <2>2, PlacesArePaths DEF Whole
<1> QED
  BY <1>1, CustodyInvariant, PTL

\* Relocation implements the custody of the data: every step of the daemon,
\* the tasks and the operator is a step of DataCustody or leaves the whole
\* copies alone.
THEOREM CustodyIsKept ==
  ASSUME KeptApart
  PROVE  Spec => KeepsCustody
<1>1. Init => Custody!Init
  <2> SUFFICES ASSUME Init PROVE Custody!Init
    OBVIOUS
  <2>1. CustodyInv /\ daemon.complete = {} /\ trashed = {}
    BY CustodyInit DEF KeptApart, Init
  <2>2. Copies = [t \in Torrents |-> {}]
    BY <2>1 DEF CustodyInv, WholeOnceComplete, Copies, Whole
  <2> QED
    BY <2>1, <2>2 DEF Custody!Init
<1>2. Typed /\ CustodyInv /\ [Next]_vars => [Custody!Next]_<<Copies, trashed>>
  BY CustodyStep DEF KeptApart
<1> QED
  BY <1>1, <1>2, CustodyInvariant, PTL DEF Spec, KeepsCustody, Custody!Spec

----------------------------------------------------------------------------
(* Automation takes a torrent from where it was loaded to one destination. *)

\* Only tasks and recovery point torrents elsewhere, if nobody relocates them.
LEMMA DirsOrigin ==
  ASSUME Typed, Without(Relocations), RequestsOnlyTrash, [Next]_vars, NEW u \in Torrents
  PROVE  /\ daemon'.finalDir[u] \in {daemon.finalDir[u], NoDir}
         /\ \/ daemon'.dir[u] = daemon.dir[u]
            \/ \E i \in Moves : /\ MoveStep(i) /\ Working(i) /\ i[1] = u
                                /\ daemon'.dir[u] = job[i].to
            \/ \E o \in todo : /\ RecoverLanded(o) /\ o.id[1] = u
                               /\ daemon'.dir[u] = o.dst[1]
<1>1. CASE Tick
  BY <1>1, TickRows
<1>2. CASE \E i \in Moves : MoveStep(i)
  <2>1. PICK i \in Moves : MoveStep(i)
    BY <1>2
  <2>2. Working(i)
    BY <2>1, MoveStepEffect
  <2>3. CASE u = i[1]
    BY <2>1, <2>2, <2>3, MoveStepDaemon
  <2>4. CASE u # i[1]
    BY <2>1, <2>4, MoveStepDaemon
  <2> QED
    BY <2>3, <2>4
<1>3. CASE \E r \in Requests : RequestStep(r)
  BY <1>3, TrashRows
<1>4. CASE \E t \in Torrents : \/ StartCommand(t) \/ StopCommand(t) \/ RetryMove(t)
                             \/ RemoveTorrent(t) \/ CompleteDownload(t)
  BY <1>4, CommandRows
<1>5. CASE \/ \E t \in Torrents : AskTrash(t) \/ \E d \in Dirs : AskLocation(t, d)
           \/ \E i \in Moves : CancelMove(i)
           \/ UNCHANGED vars \/ Restart
  BY <1>5 DEF AskTrash, AskLocation, CancelMove, vars, Restart
<1> QED
  BY <1>1, <1>2, <1>3, <1>4, <1>5 DEF Next, Operator

LEMMA HomingStep ==
  ASSUME Typed, Without(Relocations), RequestsOnlyTrash, OnlyCompletedMove, Homing, [Next]_vars
  PROVE  Homing'
<1>1. ASSUME NEW t \in Torrents
      PROVE  /\ daemon'.finalDir[t] \in {Recorded[t], NoDir}
             /\ daemon'.dir[t] \in {StartDir[t], HomeDir(t)}
             /\ t \notin daemon'.complete => daemon'.dir[t] = StartDir[t]
             /\ raw'.finalDir[t] \in {Recorded[t], NoDir}
             /\ raw'.dir[t] \in {StartDir[t], HomeDir(t)}
  <2>1. /\ daemon.finalDir[t] \in {Recorded[t], NoDir} /\ raw.finalDir[t] \in {Recorded[t], NoDir}
        /\ daemon.dir[t] \in {StartDir[t], HomeDir(t)} /\ raw.dir[t] \in {StartDir[t], HomeDir(t)}
        /\ t \notin daemon.complete => daemon.dir[t] = StartDir[t]
    BY DEF Homing
  <2>2. daemon.complete \subseteq daemon'.complete
    BY LivesShrink
  <2>3. /\ daemon'.finalDir[t] \in {daemon.finalDir[t], NoDir}
        /\ \/ daemon'.dir[t] = daemon.dir[t]
           \/ t \in daemon.complete /\ daemon'.dir[t] = HomeDir(t)
    BY DirsOrigin DEF Homing, OnlyCompletedMove
  <2>4. NoRows.finalDir = Recorded /\ NoRows.dir = StartDir
    BY DEF NoRows
  <2> QED
    BY <2>1, <2>2, <2>3, <2>4, RowsOrigin
<1>2. ASSUME NEW i \in Moves, Working(i)'
      PROVE  /\ job'[i].from = StartDir[i[1]] /\ job'[i].to = HomeDir(i[1])
             /\ job'[i].from # job'[i].to
  <2> DEFINE t == i[1]
             dest == Destination(t, raw.finalDir[t])
  <2>1. CASE Working(i) /\ job'[i].from = job[i].from /\ job'[i].to = job[i].to
    BY <2>1 DEF Homing
  <2>2. CASE /\ HasPlan(raw, t)
             /\ job'[i] = [pc |-> "begin", from |-> raw.dir[t], to |-> dest,
                           was |-> t \in raw.active]
    <3>1. t \in Torrents
      BY MovesAreJobs
    <3>2. dest # NoDir /\ dest # raw.dir[t]
      BY <2>2 DEF HasPlan
    <3>3. dest = HomeDir(t)
      BY <3>1, <3>2 DEF Homing, HomeDir, Destination
    <3>4. raw.dir[t] = StartDir[t]
      BY <3>1, <3>2, <3>3 DEF Homing
    <3>5. job'[i].from = raw.dir[t] /\ job'[i].to = dest
      <4> DEFINE ran == t \in raw.active
      <4>1. job'[i] = [pc |-> "begin", from |-> raw.dir[t], to |-> dest, was |-> ran]
        BY <2>2, Zenon
      <4> HIDE DEF ran, dest
      <4> QED
        BY <4>1
    <3> QED
      BY <3>2, <3>3, <3>4, <3>5
  <2> QED
    BY <1>2, <2>1, <2>2, TasksOrigin
<1>3. ASSUME NEW q \in journal' \cup journalFile' \cup todo'
      PROVE  /\ q.dst[1] = HomeDir(q.id[1]) /\ q.dst[2] = NameOf[q.id[1]]
             /\ ~AutoRename => q.dst[3] = 0
  BY EntriesOrigin DEF Homing, AimedByTask
<1> QED
  BY <1>1, <1>2, <1>3 DEF Homing, HomeDir, Destination

LEMMA HomingInit == Init => Homing
BY ConfigAssumption, MovesAreJobs DEF Init, Homing, Working, NoRows, Idle

----------------------------------------------------------------------------
(* The source is the last to go. *)

LEMMA TaskDisk ==
  ASSUME Typed, DistinctNames, CustodyInv, NEW i \in Moves, MoveStep(i)
  PROVE  UNCHANGED disk \/ (CopyStep(i) /\ Handles(i))
<1>1. i \in Jobs /\ (job[i].pc = "place" => job[i].from # job[i].to)
  BY MovesAreJobs, SparesPlace
<1>2. CASE CopyStep(i)
  BY <1>1, <1>2, CopyStepDisk
<1>3. CASE ~CopyStep(i)
  BY <1>3 DEF MoveStep, Begin, Gate, ReadActive, StopTorrent,
         MarkInProgress, RestartInPlace, EndInPlace,
         PointDaemon, ClearIntent, RestartHome, EndDone, Unregister, Finish
<1> QED
  BY <1>2, <1>3

HomeFirst(t) ==
  /\ HomeDir(t) \in Dirs
  /\ \/ disk[Place(HomeDir(t), t)] = NoData
     \/ \E i \in Moves : i[1] = t /\ job[i].pc = "copy"
  => Whole(t, StartDir[t])

TargetKnown(i) ==
  i[1] \notin trashed =>
    /\ job[i].pc \in {"place", "cancelled"} => disk[Target(i)] = NoData
    /\ job[i].pc = "erase" => disk[Target(i)] # NoData

LEMMA SourceLastIs ==
  SourceLast <=> /\ \A t \in daemon.complete \ trashed : HomeFirst(t)
                 /\ \A i \in Moves : TargetKnown(i)
BY DEF SourceLast, HomeFirst, TargetKnown

\* The copy of a task: opened on nothing, verified before the source goes,
\* removed when it fails.
LEMMA TaskSourceLast ==
  ASSUME Typed, ControlInv, DistinctNames, OnlyCompletedMove, CustodyInv, Homing, SourceLast,
         "cleanup" \notin Faults, NEW i \in Moves, MoveStep(i), i[1] \notin trashed
  PROVE  HomeFirst(i[1])' /\ TargetKnown(i)'
<1> DEFINE t == i[1]
           a == StartDir[t]
           b == HomeDir(t)
<1>1. /\ job \in [Jobs -> JobRecords] /\ i \in Jobs /\ t \in Torrents /\ Working(i)
      /\ t \in daemon.complete /\ job[i].from = a /\ job[i].to = b /\ a # b
      /\ a \in Dirs /\ b \in Dirs /\ Source(i) = Place(a, t) /\ Target(i) = Place(b, t)
  <2>1. i \in Jobs /\ t \in Torrents /\ Working(i)
    BY MovesAreJobs, MoveStepEffect
  <2>2. job[i].from = a /\ job[i].to = b /\ a # b
    BY <2>1 DEF Homing
  <2>3. a \in Dirs /\ b \in Dirs
    BY <2>1, <2>2, ConfigAssumption DEF Typed, JobsDirected
  <2> QED
    BY <2>1, <2>2, <2>3 DEF Typed, TypeOK, OnlyCompletedMove, Source, Target
<1>2. HomeFirst(t) /\ TargetKnown(i)
  BY <1>1, SourceLastIs
<1>3. \A k \in Moves : k # i /\ k[1] = t => job'[k].pc = "idle"
  <2>1. \A k \in Moves : k # i /\ k[1] = t => ~Working(k)
    BY <1>1 DEF ControlInv, OneTaskPerTorrent
  <2> QED
    BY <1>1, <2>1, MoveStepJobs, MovesAreJobs DEF Working
<1>4. job'[i] = Idle \/ job'[i].to = b
  BY <1>1, MoveStepJobs
<1>5. Target(i)' = IF job'[i] = Idle THEN Target(i)' ELSE Place(b, t)
  BY <1>4 DEF Target, Place
<1>6. ASSUME NEW pc, Goto(i, pc)
      PROVE  job'[i].pc = pc
  BY <1>1, <1>6, GotoFields
<1>7. CASE ~CopyStep(i)
  <2>1. UNCHANGED disk
    BY <1>7, TaskDisk DEF CopyStep
  <2>2. job'[i].pc \notin {"place", "copy", "cancelled", "erase"}
    <3>1. \/ ReadActive(i) \/ End(i)
          \/ \E pc \in Pcs \ {"place", "copy", "cancelled", "erase"} : Goto(i, pc)
      BY <1>7 DEF MoveStep, Begin, Gate, StopTorrent,
         MarkInProgress, RestartInPlace, EndInPlace,
         PointDaemon, ClearIntent, RestartHome, EndDone, Unregister, Finish, Pcs, CopyPcs
    <3> QED
      BY <1>1, <1>6, <3>1, FieldsOfEnd, ReadFields DEF Idle
  <2>3. disk'[Place(b, t)] = NoData => disk'[Place(a, t)] = DataOf(t)
    BY <1>1, <1>2, <2>1 DEF HomeFirst, Whole
  <2> QED
    BY <1>3, <2>2, <2>3 DEF HomeFirst, TargetKnown, Whole, HomeDir, Destination, Place, NoData, DataOf
<1>8. CASE CopyStep(i)
  <2> DEFINE source == disk'[Place(a, t)]
             target == disk'[Place(b, t)]
  <2>1. SUFFICES /\ target = NoData \/ job'[i].pc = "copy" => source = DataOf(t)
                 /\ job'[i].pc \in {"place", "cancelled"} => target = NoData
                 /\ job'[i].pc = "erase" => target # NoData
    <3> SUFFICES ASSUME /\ target = NoData \/ job'[i].pc = "copy" => source = DataOf(t)
                        /\ job'[i].pc \in {"place", "cancelled"} => target = NoData
                        /\ job'[i].pc = "erase" => target # NoData
                 PROVE  HomeFirst(i[1])' /\ TargetKnown(i)'
      OBVIOUS
    <3>1. HomeFirst(t)'
      BY <1>3 DEF HomeFirst, Whole, HomeDir, Destination, Place, NoData, DataOf
    <3>2. TargetKnown(i)'
      BY <1>5 DEF TargetKnown, Idle, NoData
    <3> QED
      BY <3>1, <3>2
  <2>2. \A f \in {a, b} : Place(f, t) \in Paths
    BY <1>1, PlacesArePaths
  <2>3. CASE CheckPaths(i)
    <3>1. \/ Goto(i, "pointer") \/ Goto(i, "failed")
          \/ Goto(i, "place") /\ disk[Target(i)] = NoData
      BY <2>3 DEF CheckPaths
    <3>2. UNCHANGED disk
      BY <2>3 DEF CheckPaths
    <3> QED
      BY <1>1, <1>2, <1>6, <3>1, <3>2 DEF HomeFirst, Whole
  <2>4. CASE PlaceFails(i)
    BY <1>1, <1>2, <1>6, <2>4 DEF PlaceFails, HomeFirst, Whole
  <2>5. CASE Rename(i) \/ OpenCopy(i)
    <3>1. disk[Place(b, t)] = NoData /\ disk[Place(a, t)] = DataOf(t)
      BY <1>1, <1>2, <2>5 DEF Rename, OpenCopy, TargetKnown, HomeFirst, Whole
    <3>2. CASE Rename(i)
      <4>1. disk' = [disk EXCEPT ![Place(b, t)] = disk[Place(a, t)], ![Place(a, t)] = NoData]
            /\ job'[i].pc = "pointer"
        BY <1>1, <1>6, <3>2 DEF Rename
      <4>2. target = DataOf(t)
        BY <1>1, <2>2, <3>1, <4>1, PlacesDiffer DEF Typed, TypeOK
      <4> QED
        BY <1>1, <4>1, <4>2, DataKinds
    <3>3. CASE OpenCopy(i)
      <4>1. Sets(t, b, PartOf(disk[Source(i)].of)) /\ job'[i].pc = "copy"
        BY <1>1, <1>6, <3>3, PutData DEF OpenCopy
      <4>2. source = disk[Place(a, t)]
        BY <1>1, <4>1 DEF Sets
      <4> QED
        BY <3>1, <4>1, <4>2
    <3> QED
      BY <2>5, <3>2, <3>3
  <2>6. CASE VerifyCopy(i) \/ CancelCopy(i) \/ CopyFails(i)
    <3>1. disk[Place(a, t)] = DataOf(t)
      BY <1>1, <1>2, <2>6 DEF VerifyCopy, CancelCopy, CopyFails, HomeFirst, Whole
    <3>2. CASE VerifyCopy(i)
      <4>1. Sets(t, b, disk[Place(a, t)]) /\ job'[i].pc = "erase"
        BY <1>1, <1>6, <3>2, PutData DEF VerifyCopy
      <4>2. target = DataOf(t)
        BY <1>1, <3>1, <4>1 DEF Sets
      <4> QED
        BY <1>1, <4>1, <4>2, DataKinds
    <3>3. CASE CancelCopy(i) \/ CopyFails(i)
      <4>1. Sets(t, b, NoData) /\ job'[i].pc \in {"cancelled", "failed"}
        BY <1>1, <1>6, <3>3, PutData DEF CancelCopy, CopyFails, Fault
      <4>2. target = NoData /\ source = disk[Place(a, t)]
        BY <1>1, <4>1 DEF Sets
      <4> QED
        BY <3>1, <4>1, <4>2
    <3> QED
      BY <2>6, <3>2, <3>3
  <2>7. CASE EraseSource(i) \/ EraseFails(i)
    <3>1. disk[Place(b, t)] # NoData
      BY <1>1, <1>2, <2>7 DEF EraseSource, EraseFails, TargetKnown
    <3>2. target = disk[Place(b, t)]
      BY <1>1, <2>7, TaskDisk DEF Handles, Sets, EraseSource, EraseFails, Rename, OpenCopy,
           VerifyCopy, CancelCopy, CopyFails
    <3>3. job'[i].pc \in {"pointer", "failed"}
      BY <1>6, <2>7 DEF EraseSource, EraseFails
    <3> QED
      BY <3>1, <3>2, <3>3
  <2> QED
    BY <1>8, <2>3, <2>4, <2>5, <2>6, <2>7 DEF CopyStep
<1> QED
  BY <1>7, <1>8

LEMMA SourceLastStep ==
  ASSUME Typed, ControlInv, DistinctNames, Without(Relocations), RequestsOnlyTrash,
         OnlyCompletedMove, CustodyInv, Homing, SourceLast, "cleanup" \notin Faults, [Next]_vars
  PROVE  SourceLast'
<1>1. /\ \A t \in daemon.complete \ trashed : HomeFirst(t)
      /\ \A i \in Moves : TargetKnown(i) /\ i \in Jobs /\ i[1] \in Torrents /\ i \notin Requests
      /\ daemon.complete \subseteq Torrents /\ trashed \subseteq trashed'
  BY SourceLastIs, MovesAreJobs, SparesPlace, DiskEffect DEF Typed, TypeOK, Rows
<1>2. \A i \in Moves : Working(i) => /\ i[1] \in daemon.complete /\ job[i].to = HomeDir(i[1])
                                     /\ job[i].from = StartDir[i[1]]
  BY DEF OnlyCompletedMove, Homing
<1>3. CASE \E i \in Moves : MoveStep(i)
  <2>1. PICK i \in Moves : MoveStep(i)
    BY <1>3
  <2>2. /\ trashed' = trashed /\ daemon'.complete = daemon.complete
        /\ \A k \in Moves : k # i => job'[k] = job[k]
        /\ Working(i)
    BY <1>1, <2>1, MoveStepJobs, MoveStepDaemon, MoveStepEffect DEF envVars
  <2>3. \A u \in Torrents \ {i[1]}, d \in Dirs : disk'[Place(d, u)] = disk[Place(d, u)]
    <3>1. CASE UNCHANGED disk
      BY <3>1
    <3>2. CASE Handles(i)
      <4>1. \/ \E d \in Dirs, data \in {disk[Source(i)], NoData, PartOf(disk[Source(i)].of)} :
                 Sets(i[1], d, data)
            \/ \E d \in Dirs, data \in Contents : Sets(i[1], d, data)
            \/ \E d \in Dirs, e \in Dirs : Renames(i[1], d, e)
        BY <3>2 DEF Handles
      <4> QED
        BY <4>1 DEF Sets, Renames
    <3> QED
      BY <2>1, <3>1, <3>2, TaskDisk
  <2>4. ASSUME NEW t \in daemon'.complete \ trashed'
        PROVE  HomeFirst(t)'
    <3>1. CASE t = i[1]
      <4>1. HomeFirst(i[1])'
        BY <2>1, <2>2, <2>4, <3>1, TaskSourceLast
      <4> QED
        BY <3>1, <4>1
    <3>2. CASE t # i[1]
      <4>1. HomeFirst(t) /\ t \in Torrents /\ StartDir[t] \in Dirs
        BY <1>1, <2>2, <2>4, ConfigAssumption
      <4>2. \A k \in Moves : k[1] = t => job'[k] = job[k]
        BY <2>2, <3>2
      <4>3. \A d \in Dirs : disk'[Place(d, t)] = disk[Place(d, t)]
        BY <2>3, <3>2, <4>1
      <4> QED
        BY <4>1, <4>2, <4>3
           DEF HomeFirst, Whole, HomeDir, Destination, Place, NoData, DataOf
    <3> QED
      BY <3>1, <3>2
  <2>5. ASSUME NEW k \in Moves
        PROVE  TargetKnown(k)'
    <3>1. CASE k = i
      <4>1. i[1] \notin trashed => TargetKnown(i)'
        BY <2>1, TaskSourceLast
      <4> QED
        BY <2>2, <3>1, <4>1 DEF TargetKnown
    <3>2. CASE k # i
      <4>1. job'[k] = job[k] /\ TargetKnown(k) /\ k[1] \in Torrents
        BY <1>1, <2>2, <3>2
      <4>2. CASE Working(k)
        <5>1. k[1] # i[1] /\ job[k].to \in Dirs
          BY <1>1, <2>2, <3>2, <4>2 DEF ControlInv, OneTaskPerTorrent, Typed, JobsDirected
        <5>2. disk'[Target(k)] = disk[Target(k)] /\ Target(k)' = Target(k)
          BY <2>3, <4>1, <5>1 DEF Target, Place
        <5> QED
          BY <2>2, <4>1, <5>2 DEF TargetKnown, NoData
      <4>3. CASE ~Working(k)
        BY <4>1, <4>3 DEF Working, TargetKnown
      <4> QED
        BY <4>2, <4>3
    <3> QED
      BY <3>1, <3>2
  <2> QED
    BY <2>4, <2>5 DEF SourceLast, HomeFirst, TargetKnown
<1>4. CASE ~\E i \in Moves : MoveStep(i)
  <2>1. \A k \in Moves : job'[k] = job[k] \/ job'[k].pc \in {"idle", "begin"}
    BY <1>1, <1>4, JobsGo DEF Idle
  <2>2. ASSUME NEW t \in daemon.complete \ trashed', daemon'.complete = daemon.complete,
               \A d \in Dirs : disk'[Place(d, t)] = disk[Place(d, t)]
        PROVE  HomeFirst(t)'
    <3>1. HomeFirst(t) /\ StartDir[t] \in Dirs
      BY <1>1, <2>2, ConfigAssumption
    <3>2. \A k \in Moves : job'[k].pc = "copy" => job[k].pc = "copy"
      BY <2>1
    <3> QED
      BY <2>2, <3>1, <3>2 DEF HomeFirst, Whole, HomeDir, Destination, Place, NoData, DataOf
  <2>3. ASSUME NEW k \in Moves,
               Working(k) => \A d \in Dirs : disk'[Place(d, k[1])] = disk[Place(d, k[1])]
        PROVE  TargetKnown(k)'
    <3>1. CASE job'[k].pc \in {"idle", "begin"}
      BY <3>1 DEF TargetKnown
    <3>2. CASE job'[k] = job[k] /\ job[k].pc # "idle"
      <4>1. job[k].to \in Dirs /\ TargetKnown(k) /\ Working(k)
        BY <1>1, <3>2 DEF Typed, JobsDirected, Working
      <4>2. disk'[Target(k)] = disk[Target(k)] /\ Target(k)' = Target(k)
        BY <2>3, <3>2, <4>1 DEF Target, Place
      <4> QED
        BY <1>1, <3>2, <4>1, <4>2 DEF TargetKnown, NoData
    <3> QED
      BY <2>1, <3>1, <3>2
  <2>4. CASE UNCHANGED <<disk, trashed>> /\ daemon'.complete = daemon.complete
    <3>1. \A u \in Torrents, d \in Dirs : disk'[Place(d, u)] = disk[Place(d, u)]
      BY <2>4 DEF Place
    <3> QED
      BY <1>1, <2>2, <2>3, <2>4, <3>1 DEF SourceLast, HomeFirst, TargetKnown
  <2>5. CASE \E r \in Requests : /\ trashed' = trashed \cup {r[1]}
                                 /\ UNCHANGED disk \/ Sets(r[1], job[r].to, NoData)
                                 /\ daemon'.complete = daemon.complete
    <3>1. PICK r \in Requests : /\ trashed' = trashed \cup {r[1]}
                                /\ UNCHANGED disk \/ Sets(r[1], job[r].to, NoData)
                                /\ daemon'.complete = daemon.complete
      BY <2>5
    <3>2. \A u \in Torrents, d \in Dirs :
            u \notin trashed' => disk'[Place(d, u)] = disk[Place(d, u)]
      BY <3>1 DEF Sets, Place
    <3>3. \A t \in daemon.complete \ trashed' : HomeFirst(t)'
      BY <1>1, <2>2, <3>1, <3>2
    <3>4. ASSUME NEW k \in Moves
          PROVE  TargetKnown(k)'
      <4>1. CASE k[1] \in trashed'
        BY <4>1 DEF TargetKnown
      <4>2. CASE k[1] \notin trashed'
        BY <1>1, <2>3, <3>2, <4>2
      <4> QED
        BY <4>1, <4>2
    <3> QED
      BY <3>1, <3>3, <3>4 DEF SourceLast, HomeFirst, TargetKnown
  <2>6. CASE \E t \in Torrents : /\ CompleteDownload(t) /\ trashed' = trashed
                                 /\ Sets(t, daemon.dir[t], DataOf(t)) /\ daemon.dir[t] \in Dirs
                                 /\ daemon'.complete = daemon.complete \cup {t}
    <3>1. PICK t \in Torrents : /\ CompleteDownload(t) /\ trashed' = trashed
                                /\ Sets(t, daemon.dir[t], DataOf(t)) /\ daemon.dir[t] \in Dirs
                                /\ daemon'.complete = daemon.complete \cup {t}
      BY <2>6
    <3>2. t \notin daemon.complete /\ daemon.dir[t] = StartDir[t] /\ UNCHANGED job
      BY <3>1 DEF CompleteDownload, Homing
    <3>3. \A u \in Torrents \ {t}, d \in Dirs : disk'[Place(d, u)] = disk[Place(d, u)]
      BY <3>1 DEF Sets
    <3>4. disk'[Place(StartDir[t], t)] = DataOf(t)
      BY <3>1, <3>2 DEF Sets
    <3>5. ASSUME NEW u \in daemon'.complete \ trashed'
          PROVE  HomeFirst(u)'
      <4>1. CASE u = t
        BY <3>4, <4>1 DEF HomeFirst, Whole, Place, DataOf
      <4>2. CASE u # t
        <5>1. HomeFirst(u) /\ StartDir[u] \in Dirs /\ u \in Torrents
          BY <1>1, <3>1, <3>5, <4>2, ConfigAssumption
        <5> QED
          BY <3>2, <3>3, <4>2, <5>1 DEF HomeFirst, Whole, HomeDir, Destination, Place, NoData, DataOf
      <4> QED
        BY <4>1, <4>2
    <3>6. ASSUME NEW k \in Moves
          PROVE  TargetKnown(k)'
      <4>1. Working(k) => k[1] # t
        BY <1>2, <3>2
      <4> QED
        BY <1>1, <2>3, <3>3, <4>1
    <3> QED
      BY <3>5, <3>6 DEF SourceLast, HomeFirst, TargetKnown
  <2>7. ~\E j \in Jobs : Handles(j) /\ (j \in Moves => MoveStep(j))
    <3>1. ASSUME NEW j \in Requests, Handles(j) PROVE FALSE
      BY <3>1 DEF Handles, Rename, OpenCopy, VerifyCopy, CancelCopy, CopyFails, EraseSource,
           EraseFails, RequestsOnlyTrash
    <3> QED
      BY <1>4, <3>1 DEF Jobs
  <2> QED
    BY <2>4, <2>5, <2>6, <2>7, SparesPlace, DiskEffect
<1> QED
  BY <1>3, <1>4

LEMMA SourceLastInit == Init => SourceLast
BY MovesAreJobs DEF Init, SourceLast, Idle

\* A cancelled move leaves the source whole and nothing at the destination, if
\* the torrents share no name, nobody relocates them by hand and the partial
\* copy can be removed: resuming in place is safe after any failures before.
THEOREM CancelIsHarmless ==
  ASSUME DistinctNames, Without(Relocations), "cleanup" \notin Faults
  PROVE  Spec => []CancelLeavesSource
<1> DEFINE Inv == /\ Typed /\ ControlInv /\ RequestsOnlyTrash /\ OnlyCompletedMove
                  /\ CustodyInv /\ Homing /\ SourceLast
<1>1. Init => Inv
  BY InitTyped, InitControlled, RequestsTrashInit, OnlyCompletedInit, CustodyInit, HomingInit,
     SourceLastInit
<1>2. Inv /\ [Next]_vars => Inv'
  BY TypedStep, ControlStep, RequestsTrashStep, OnlyCompletedStep, SparesStep, HomingStep,
     SourceLastStep
<1>3. Inv => CancelLeavesSource
  <2> SUFFICES ASSUME Inv, NEW i \in Moves, job[i].pc = "cancelled", i[1] \notin trashed
               PROVE  disk[Source(i)] = DataOf(i[1]) /\ disk[Target(i)] = NoData
    BY DEF CancelLeavesSource
  <2>1. /\ Working(i) /\ i[1] \in daemon.complete /\ job[i].to \in Dirs
        /\ job[i].from = StartDir[i[1]] /\ job[i].to = HomeDir(i[1])
    BY MovesAreJobs DEF Working, OnlyCompletedMove, Homing, Typed, JobsDirected
  <2>2. disk[Target(i)] = NoData
    BY DEF SourceLast
  <2>3. Whole(i[1], StartDir[i[1]])
    BY <2>1, <2>2 DEF SourceLast, Target
  <2> QED
    BY <2>1, <2>2, <2>3 DEF Whole, Source
<1> QED
  BY <1>1, <1>2, <1>3, PTL DEF Spec


----------------------------------------------------------------------------
(* The daemon's directory finds the data, or an entry is owed. *)

\* The journal has an unfinished entry of the torrent.
Lists(entries, t) == \E o \in Unfinished(entries) : o.id[1] = t

LEMMA ListsIs ==
  ASSUME NEW J, NEW t
  PROVE  t \in HashesOf(Resumable(J)) <=> Lists(J, t)
BY DEF HashesOf, Resumable, IsResumable, Lists, Unfinished

LEMMA MarkLists ==
  ASSUME NEW J \in SUBSET MoveOps, NEW id, NEW s, NEW t, Lists(J, t),
         s \in {"Pending", "InProgress", "Failed"} \/ id[1] # t
  PROVE  Lists(Mark(J, id, s), t)
<1>1. PICK o \in J : o.state \in {"Pending", "InProgress", "Failed"} /\ o.id[1] = t
  BY DEF Lists, Unfinished
<1>2. CASE o.id = id
  <2> DEFINE q == [o EXCEPT !.state = s]
  <2>1. q \in Mark(J, id, s)
    BY <1>2 DEF Mark
  <2>2. q.state = s /\ q.id = o.id
    BY DEF MoveOps
  <2> HIDE DEF q
  <2> QED
    BY <1>1, <1>2, <2>1, <2>2 DEF Lists, Unfinished
<1>3. CASE o.id # id
  BY <1>1, <1>3, OthersKept DEF Lists, Unfinished
<1> QED
  BY <1>2, <1>3

LEMMA RedirectLists ==
  ASSUME NEW J \in SUBSET MoveOps, NEW id, NEW p, NEW t, Lists(J, t)
  PROVE  Lists(Redirect(J, id, p), t)
<1>1. PICK o \in J : o.state \in {"Pending", "InProgress", "Failed"} /\ o.id[1] = t
  BY DEF Lists, Unfinished
<1>2. CASE o.id = id
  <2> DEFINE q == [o EXCEPT !.dst = p]
  <2>1. q \in Redirect(J, id, p)
    BY <1>2 DEF Redirect
  <2>2. q.state = o.state /\ q.id = o.id
    BY DEF MoveOps
  <2> HIDE DEF q
  <2> QED
    BY <1>1, <2>1, <2>2 DEF Lists, Unfinished
<1>3. CASE o.id # id
  BY <1>1, <1>3, OthersKept DEF Lists, Unfinished
<1> QED
  BY <1>2, <1>3

\* A task takes its torrent off the list by finishing the move.
LEMMA TaskLists ==
  ASSUME Typed, RenamedOnly, NEW i \in Moves, MoveStep(i), NEW t, Lists(journal, t)
  PROVE  Lists(journal', t) \/ (EndDone(i) /\ i[1] = t)
<1>1. journal \in SUBSET MoveOps /\ job[i].pc # "endCancelled"
  BY MovesAreJobs DEF Typed, TypeOK, RenamedOnly
<1>2. \/ journal \subseteq journal'
      \/ \E p : journal' = Redirect(journal, i, p)
      \/ \E s \in {"InProgress", "Failed"} : journal' = Mark(journal, i, s)
      \/ EndDone(i) /\ journal' = Mark(journal, i, "Done")
  <2>1. CASE Begin(i)
    <3> DEFINE op == [id |-> i, state |-> "Pending", dst |-> Place(job[i].to, i[1])]
    <3>1. journal' \in {journal, Add(journal, op)}
      BY <2>1 DEF Begin, Journal
    <3> HIDE DEF op
    <3> QED
      BY <3>1 DEF Add
  <2>2. CASE Gate(i) \/ StopTorrent(i) \/ MarkInProgress(i) \/ EndInPlace(i) \/ PointDaemon(i)
             \/ EndDone(i)
    BY <1>1, <2>2 DEF Gate, StopTorrent, MarkInProgress, EndInPlace, PointDaemon, EndDone,
         Finish, Journal
  <2>3. CASE ReadActive(i) \/ CopyStep(i) \/ RestartInPlace(i) \/ ClearIntent(i)
             \/ RestartHome(i) \/ Unregister(i)
    BY <2>3 DEF ReadActive, RestartInPlace, ClearIntent, RestartHome, Unregister, CopyStep,
         CheckPaths, Rename, OpenCopy, PlaceFails, VerifyCopy,
         CancelCopy, CopyFails, EraseSource, EraseFails, storeVars
  <2> QED
    BY <2>1, <2>2, <2>3 DEF MoveStep
<1>3. CASE journal \subseteq journal'
  BY <1>3 DEF Lists, Unfinished
<1>4. CASE EndDone(i) /\ journal' = Mark(journal, i, "Done")
  BY <1>1, <1>4, MarkLists
<1> QED
  BY <1>1, <1>2, <1>3, <1>4, MarkLists, RedirectLists

\* The tick takes a living torrent off by settling a move that landed.
LEMMA TickLists ==
  ASSUME Typed, EntriesBack, Tick, NEW t \in daemon.live, Lists(journal, t)
  PROVE  Lists(journal', t) \/ \E o \in todo : RecoverLanded(o) /\ o.id[1] = t
<1>1. /\ journal \in SUBSET MoveOps
      /\ phase # "rest" => t \in raw.live
  BY DEF Typed, TypeOK, EntriesBack
<1>2. PICK o \in journal : o.state \in {"Pending", "InProgress", "Failed"} /\ o.id[1] = t
  BY DEF Lists, Unfinished
<1>3. CASE ResumeMoves \/ PruneJournal
  <2>1. phase # "rest"
    BY <1>3 DEF ResumeMoves, PruneJournal
  <2>2. /\ o \in PruneUnknown(journal, raw.live)
        /\ o \in PruneDone(PruneUnknown(journal, raw.live))
    BY <1>1, <1>2, <2>1 DEF PruneUnknown, PruneDone
  <2>3. o \in journal'
    BY <1>3, <2>2 DEF ResumeMoves, PruneJournal, Journal
  <2> QED
    BY <1>2, <2>3 DEF Lists, Unfinished
<1>4. CASE \E q \in todo : RecoverOrphan(q) \/ RecoverAbsent(q)
  <2>1. \E q \in todo, s \in {"Pending", "Failed"} : journal' = Mark(journal, q.id, s)
    BY <1>4 DEF RecoverOrphan, RecoverAbsent, Journal
  <2> QED
    BY <1>1, <2>1, MarkLists
<1>5. CASE \E q \in todo : RecoverLanded(q)
  <2>1. PICK q \in todo : RecoverLanded(q)
    BY <1>5
  <2>2. journal' \in {journal, Mark(journal, q.id, "Done")}
    BY <2>1 DEF RecoverLanded, Journal
  <2>3. CASE q.id[1] = t
    BY <2>1, <2>3
  <2>4. CASE q.id[1] # t
    BY <1>1, <2>2, <2>4, MarkLists
  <2> QED
    BY <2>3, <2>4
<1>6. CASE Fetch \/ SettleHomed \/ PlanMoves \/ RunQueue
  BY <1>6 DEF Fetch, SettleHomed, PlanMoves, RunQueue, storeVars
<1> QED
  BY <1>3, <1>4, <1>5, <1>6 DEF Tick

\* An unfinished entry of a living torrent stays, whoever steps, until the move
\* is done.
LEMMA EntriesLinger ==
  ASSUME Typed, EntriesBack, RenamedOnly, [Next]_vars, "retry" \notin Commands,
         "save" \notin Faults, "torn" \notin Faults, NEW t \in daemon.live, Lists(journal, t)
  PROVE  \/ Lists(journal', t)
         \/ \E i \in Moves : MoveStep(i) /\ EndDone(i) /\ i[1] = t
         \/ \E o \in todo : RecoverLanded(o) /\ o.id[1] = t
<1>1. CASE Tick
  BY <1>1, TickLists
<1>2. CASE \E i \in Moves : MoveStep(i)
  BY <1>2, TaskLists
<1>3. CASE \/ \E r \in Requests : RequestStep(r)
           \/ \E u \in Torrents : AskTrash(u) \/ \E d \in Dirs : AskLocation(u, d)
  BY <1>3, RequestSameTasks DEF storeVars
<1>4. CASE \/ \E u \in Torrents : \/ StartCommand(u) \/ StopCommand(u) \/ RetryMove(u)
                                \/ RemoveTorrent(u) \/ CompleteDownload(u)
           \/ \E i \in Moves : CancelMove(i)
           \/ UNCHANGED vars
  BY <1>4 DEF StartCommand, StopCommand, RetryMove, RemoveTorrent, CompleteDownload, CancelMove,
       vars, storeVars
<1>5. CASE Restart
  BY <1>5 DEF Restart, Fault, EntriesBack
<1> QED
  BY <1>1, <1>2, <1>3, <1>4, <1>5 DEF Next, Operator

\* An entry is settled as done behind a pointer that was moved.
LEMMA LandedPoints ==
  ASSUME Typed, NEW o \in todo, RecoverLanded(o)
  PROVE  UNCHANGED journal \/ daemon'.dir[o.id[1]] = o.dst[1]
<1> DEFINE t == o.id[1]
           pointed == Pointed(t, o.dst[1])
<1>1. t \in Torrents /\ o.dst[1] \in Dirs /\ daemon \in Rows
  BY ConfigAssumption DEF Typed, TypeOK, MoveOps, OpIds
<1>2. \/ UNCHANGED journal
      \/ t \in daemon.live /\ daemon' = [pointed EXCEPT !.finalDir[t] = NoDir]
  BY DEF RecoverLanded, Accepted
<1>3. /\ pointed \in Rows
      /\ t \in daemon.live => pointed.dir = [daemon.dir EXCEPT ![t] = o.dst[1]]
  <2>1. pointed \in Rows
    BY <1>1, DaemonTyped
  <2>2. t \in daemon.live => pointed.dir = [daemon.dir EXCEPT ![t] = o.dst[1]]
    BY <1>1, PointFields
  <2> QED
    BY <2>1, <2>2
<1> HIDE DEF t, pointed
<1>4. CASE daemon' = [pointed EXCEPT !.finalDir[t] = NoDir] /\ t \in daemon.live
  BY <1>1, <1>3, <1>4 DEF Rows, t
<1> QED
  BY <1>2, <1>4


\* With renames only, the data of a torrent changes hands in one step.
LEMMA RenamedDisk ==
  ASSUME Typed, DistinctNames, NeverCopies, RenamedOnly, [Next]_vars,
         \A r \in Requests : ~RequestStep(r)
  PROVE  /\ trashed' = trashed
         /\ \/ UNCHANGED disk /\ daemon'.complete = daemon.complete
            \/ \E i \in Moves : /\ MoveStep(i) /\ Rename(i) /\ disk[Source(i)] # NoData
                                /\ job[i].from \in Dirs /\ job[i].to \in Dirs
                                /\ Renames(i[1], job[i].from, job[i].to)
                                /\ daemon'.complete = daemon.complete
            \/ \E t \in Torrents : /\ CompleteDownload(t) /\ daemon.dir[t] \in Dirs
                                   /\ Sets(t, daemon.dir[t], DataOf(t))
                                   /\ daemon'.complete = daemon.complete \cup {t}
<1>1. \A j \in Jobs : job[j].pc = "place" => job[j].from # job[j].to
  BY DEF RenamedOnly
<1>2. ASSUME NEW j \in Jobs, Handles(j), j \in Requests => RequestStep(j), j \in Moves => MoveStep(j)
      PROVE  /\ j \in Moves /\ MoveStep(j) /\ Rename(j) /\ disk[Source(j)] # NoData
             /\ job[j].from \in Dirs /\ job[j].to \in Dirs
             /\ Renames(j[1], job[j].from, job[j].to)
  <2>1. Rename(j) /\ ~OpenCopy(j) /\ job[j].pc = "place"
    BY <1>2, RenamedHandles DEF Rename
  <2>2. j \notin Requests
    BY <1>2
  <2>3. ~VerifyCopy(j) /\ ~CancelCopy(j) /\ ~CopyFails(j) /\ ~EraseSource(j) /\ ~EraseFails(j)
    BY <2>1 DEF VerifyCopy, CancelCopy, CopyFails, EraseSource, EraseFails
  <2>4. disk[Source(j)] # NoData /\ Renames(j[1], job[j].from, job[j].to)
    BY <1>2, <2>1, <2>3 DEF Handles
  <2> QED
    BY <1>2, <2>1, <2>2, <2>4 DEF Handles, Jobs
<1>3. \A r \in Requests : ~TrashData(r)
  BY DEF RequestStep
<1> QED
  BY <1>1, <1>2, <1>3, DiskEffect

\* Where any data of a complete torrent lies, all of it does.
LEMMA OnlyPlace ==
  ASSUME RenamedOnly, WholeOnceComplete, NEW t \in daemon.complete \ trashed, t \in Torrents,
         NEW d \in Dirs, disk[Place(d, t)] # NoData
  PROVE  Whole(t, d)
<1>1. PICK e \in Dirs : Whole(t, e)
  BY DEF WholeOnceComplete
<1>2. disk[Place(e, t)] # NoData
  BY <1>1, DataKinds DEF Whole
<1> QED
  BY <1>1, <1>2 DEF RenamedOnly

\* What a task has done when it arrives at the pointer or goes on from there.
LEMMA TaskArrives ==
  ASSUME Typed, RenamedOnly, NEW i \in Moves, MoveStep(i),
         job'[i].pc \in {"pointer", "clear", "restart", "endDone"}
  PROVE  \/ UNCHANGED disk /\ PointDaemon(i) /\ Accepted(i[1], Pointed(i[1], job[i].to))
         \/ UNCHANGED disk /\ job[i].pc \in {"clear", "restart"}
         \/ UNCHANGED disk /\ CheckPaths(i) /\ (Source(i) = Target(i) \/ disk[Source(i)] = NoData)
         \/ Rename(i)
<1>1. job \in [Jobs -> JobRecords] /\ i \in Jobs
      /\ job[i].pc \notin {"copy", "erase", "cancelled", "endCancelled"}
  BY MovesAreJobs DEF Typed, TypeOK, RenamedOnly
<1>2. ~End(i) /\ \A pc : Goto(i, pc) => pc \in {"pointer", "clear", "restart", "endDone"}
  BY <1>1, FieldsOfEnd, GotoFields DEF Idle
<1>3. CASE CopyStep(i)
  BY <1>1, <1>2, <1>3 DEF CopyStep, CheckPaths, OpenCopy, PlaceFails, VerifyCopy, CancelCopy,
       CopyFails, EraseSource, EraseFails
<1>4. CASE PointDaemon(i)
  BY <1>2, <1>4 DEF PointDaemon, Finish
<1>5. CASE ClearIntent(i) \/ RestartHome(i)
  BY <1>5 DEF ClearIntent, RestartHome
<1>6. ~Begin(i) /\ ~Gate(i) /\ ~StopTorrent(i) /\ ~MarkInProgress(i)
  BY <1>2 DEF Begin, Gate, StopTorrent, MarkInProgress, Finish
<1>7. ~RestartInPlace(i) /\ ~EndInPlace(i) /\ ~EndDone(i) /\ ~Unregister(i)
  BY <1>2 DEF RestartInPlace, EndInPlace, EndDone, Unregister, Finish
<1>8. ~ReadActive(i)
  BY <1>1, ReadFields
<1> QED
  BY <1>3, <1>4, <1>5, <1>6, <1>7, <1>8 DEF MoveStep


PointerHyp ==
  /\ Typed /\ ControlInv /\ DistinctNames /\ NeverCopies /\ NothingAsked /\ OnlyCompletedMove
  /\ CustodyInv /\ RenamedOnly /\ Homing /\ PointerInv
  /\ [Next]_vars /\ Without(Relocations) /\ "trash" \notin Commands

\* Its torrent's data lies still while a task waits.
LEMMA WaitingData ==
  ASSUME PointerHyp, NEW i \in Moves, Working(i), ~MoveStep(i)
  PROVE  \A d \in Dirs : disk'[Place(d, i[1])] = disk[Place(d, i[1])]
<1>1. RequestsOnlyTrash
  BY DEF PointerHyp, NothingAsked, RequestsOnlyTrash
<1>2. \A r \in Requests : ~RequestStep(r)
  BY NothingAskedStep DEF PointerHyp
<1>3. i[1] \notin trashed'
  BY <1>2, RenamedDisk DEF PointerHyp, PointerInv
<1> QED
  BY <1>1, <1>3, PlacesStay DEF PointerHyp

\* The data lies where the torrent was loaded or where it goes, whole where its
\* task says that it arrived, with the pointer from the clearing on.
LEMMA PointerTasks ==
  ASSUME PointerHyp, NEW i \in Moves,
         job'[i].pc \in {"pointer", "clear", "restart", "endDone"}
  PROVE  /\ WholeAfter(i[1], job'[i].to)
         /\ job'[i].pc # "pointer" => daemon'.dir[i[1]] = job'[i].to
<1> DEFINE t == i[1]
           a == job[i].from
           b == job[i].to
<1>1. /\ job \in [Jobs -> JobRecords] /\ i \in Jobs /\ t \in Torrents /\ daemon \in Rows
      /\ RequestsOnlyTrash /\ trashed = {}
  BY MovesAreJobs DEF PointerHyp, Typed, TypeOK, NothingAsked, RequestsOnlyTrash, PointerInv
<1>2. CASE MoveStep(i)
  <2>1. /\ job'[i].to = b /\ Working(i)
        /\ \/ job'[i] # Idle
    BY <1>2, MoveStepJobs, MoveStepEffect DEF Idle, PointerHyp
  <2>2. /\ a = StartDir[t] /\ b = HomeDir(t) /\ a # b /\ t \in daemon.complete
        /\ a \in Dirs /\ b \in Dirs
    BY <1>1, <2>1, ConfigAssumption DEF PointerHyp, Homing, OnlyCompletedMove, Typed, JobsDirected
  <2>3. Source(i) = Place(a, t) /\ Target(i) = Place(b, t) /\ Place(a, t) # Place(b, t)
    BY <1>1, <2>2, PlacesDiffer DEF Source, Target, PointerHyp
  <2>4. job[i].pc \in {"pointer", "clear", "restart"} => Whole(t, b)
    BY DEF PointerHyp, PointerInv
  <2>5. CASE UNCHANGED disk /\ PointDaemon(i) /\ Accepted(t, Pointed(t, b))
    <3>1. daemon'.dir = [daemon.dir EXCEPT ![t] = b] /\ daemon.dir \in [Torrents -> Dirs]
      BY <1>1, <2>2, <2>5, PointFields DEF Accepted, Rows
    <3>2. Whole(t, b)
      BY <2>4, <2>5 DEF PointDaemon
    <3> QED
      BY <1>1, <2>1, <2>5, <3>1, <3>2 DEF WholeAfter, Whole
  <2>6. CASE UNCHANGED disk /\ job[i].pc \in {"clear", "restart"}
    <3>1. daemon.dir[t] = b /\ Whole(t, b)
      BY <2>4, <2>6 DEF PointerHyp, PointerInv
    <3>2. daemon'.dir[t] = b
      BY <1>2, <3>1, MoveStepDaemon DEF PointerHyp
    <3> QED
      BY <2>1, <2>6, <3>1, <3>2 DEF WholeAfter, Whole
  <2>7. CASE UNCHANGED disk /\ CheckPaths(i) /\ disk[Source(i)] = NoData
    <3>1. PICK d \in Dirs : Whole(t, d)
      BY <1>1, <2>2 DEF PointerHyp, CustodyInv, WholeOnceComplete
    <3>2. disk[Place(d, t)] # NoData
      BY <1>1, <3>1, DataKinds DEF Whole
    <3>3. d = b
      BY <1>1, <2>2, <2>3, <2>7, <3>2 DEF PointerHyp, PointerInv
    <3>4. job'[i].pc = "pointer"
      BY <1>1, <2>7, GotoFields DEF CheckPaths
    <3> QED
      BY <2>1, <2>7, <3>1, <3>3, <3>4 DEF WholeAfter, Whole
  <2>8. CASE Rename(i)
    <3>1. disk[Place(a, t)] # NoData
      BY <2>3, <2>8 DEF Rename
    <3>2. Whole(t, a)
      BY <1>1, <2>2, <3>1, OnlyPlace DEF PointerHyp, CustodyInv
    <3>3. disk'[Place(b, t)] = disk[Place(a, t)]
      <4>1. Place(a, t) \in Paths /\ Place(b, t) \in Paths /\ disk \in [Paths -> Contents]
        BY <1>1, <2>2, PlacesArePaths DEF PointerHyp, Typed, TypeOK
      <4> QED
        BY <2>3, <2>8, <4>1 DEF Rename
    <3>4. job'[i].pc = "pointer"
      BY <1>1, <2>8, GotoFields DEF Rename
    <3> QED
      BY <2>1, <3>2, <3>3, <3>4 DEF WholeAfter, Whole
  <2> QED
    BY <1>2, <2>3, <2>5, <2>6, <2>7, <2>8, TaskArrives DEF PointerHyp
<1>3. CASE ~MoveStep(i)
  <2>1. job'[i] = job[i] /\ Working(i)
    BY <1>1, <1>3, JobsGo, MovesAreJobs DEF PointerHyp, Idle, Working
  <2>2. WholeAfter(t, b)
    <3>1. Whole(t, b) /\ b \in Dirs
      BY <1>1, <2>1 DEF PointerHyp, PointerInv, Typed, JobsDirected
    <3> QED
      BY <1>3, <2>1, <3>1, WaitingData DEF WholeAfter, Whole
  <2>3. daemon'.dir[t] = daemon.dir[t]
    <3>1. todo = {} /\ \A k \in Moves : Working(k) /\ k[1] = t => k = i
      BY <2>1 DEF PointerHyp, ControlInv, RecoveryPrecedesMoves, OneTaskPerTorrent
    <3>2. \/ daemon'.dir[t] = daemon.dir[t]
          \/ \E k \in Moves : MoveStep(k) /\ Working(k) /\ k[1] = t
          \/ \E o \in todo : RecoverLanded(o)
      BY <1>1, DirsOrigin DEF PointerHyp
    <3> QED
      BY <1>3, <3>1, <3>2
  <2> QED
    BY <2>1, <2>2, <2>3 DEF PointerHyp, PointerInv
<1> QED
  BY <1>2, <1>3

LEMMA PointerPlaces ==
  ASSUME PointerHyp, NEW t \in Torrents, NEW d \in Dirs, disk'[Place(d, t)] # NoData
  PROVE  d \in {StartDir[t], HomeDir(t)}
<1>1. \A r \in Requests : ~RequestStep(r)
  BY NothingAskedStep DEF PointerHyp
<1>2. disk[Place(d, t)] # NoData => d \in {StartDir[t], HomeDir(t)}
  BY DEF PointerHyp, PointerInv
<1>3. CASE UNCHANGED disk
  BY <1>2, <1>3 DEF Place
<1>4. CASE \E i \in Moves : /\ MoveStep(i) /\ job[i].to \in Dirs
                            /\ Renames(i[1], job[i].from, job[i].to)
  <2>1. PICK i \in Moves : /\ MoveStep(i) /\ job[i].to \in Dirs
                           /\ Renames(i[1], job[i].from, job[i].to)
    BY <1>4
  <2>2. job[i].to = HomeDir(i[1])
    BY <2>1, MoveStepEffect DEF PointerHyp, Homing
  <2> QED
    BY <1>2, <2>1, <2>2 DEF Renames
<1>5. CASE \E u \in Torrents : Sets(u, daemon.dir[u], DataOf(u))
  <2>1. PICK u \in Torrents : Sets(u, daemon.dir[u], DataOf(u))
    BY <1>5
  <2>2. daemon.dir[u] \in {StartDir[u], HomeDir(u)}
    BY DEF PointerHyp, Homing
  <2> QED
    BY <1>2, <2>1, <2>2 DEF Sets
<1> QED
  BY <1>1, <1>3, <1>4, <1>5, RenamedDisk DEF PointerHyp


\* A pointer that moves finds the data where it goes.
LEMMA PointerFollows ==
  ASSUME PointerHyp, ~AutoRename, NEW t \in Torrents, t \in daemon.complete,
         \A d \in Dirs : disk'[Place(d, t)] = disk[Place(d, t)],
         \/ daemon'.dir[t] # daemon.dir[t]
         \/ \E o \in todo : RecoverLanded(o) /\ o.id[1] = t /\ ~UNCHANGED journal
         \/ \E i \in Moves : MoveStep(i) /\ EndDone(i) /\ i[1] = t
  PROVE  WholeAfter(t, daemon'.dir[t])
<1>1. RequestsOnlyTrash /\ trashed = {}
  BY DEF PointerHyp, NothingAsked, RequestsOnlyTrash, PointerInv
<1>2. ASSUME NEW o \in todo, RecoverLanded(o), o.id[1] = t, daemon'.dir[t] = o.dst[1]
      PROVE  WholeAfter(t, daemon'.dir[t])
  <2>1. o.dst \in Paths
    BY DEF PointerHyp, Typed, TypeOK, MoveOps
  <2>2. o.dst = Place(o.dst[1], t) /\ o.dst[1] \in Dirs
    <3>1. o.dst[2] = NameOf[t] /\ o.dst[3] = 0
      BY <1>2 DEF PointerHyp, Homing
    <3> QED
      BY <2>1, <3>1, ConfigAssumption DEF Place
  <2>3. disk[o.dst] # NoData
    BY <1>2 DEF RecoverLanded
  <2>4. Whole(t, o.dst[1])
    BY <1>1, <2>2, <2>3, OnlyPlace DEF PointerHyp, CustodyInv
  <2> QED
    BY <1>2, <2>2, <2>4 DEF WholeAfter, Whole
<1>3. CASE \E o \in todo : RecoverLanded(o) /\ o.id[1] = t /\ ~UNCHANGED journal
  BY <1>2, <1>3, LandedPoints DEF PointerHyp
<1>4. CASE \E i \in Moves : MoveStep(i) /\ EndDone(i) /\ i[1] = t
  <2>1. PICK i \in Moves : MoveStep(i) /\ EndDone(i) /\ i[1] = t
    BY <1>4
  <2>2. /\ Whole(t, job[i].to) /\ daemon.dir[t] = job[i].to /\ UNCHANGED daemon
        /\ job[i].to \in Dirs
    BY <2>1, MovesAreJobs DEF EndDone, PointerHyp, PointerInv, Typed, JobsDirected, Working
  <2> QED
    BY <2>2 DEF WholeAfter, Whole
<1>5. CASE /\ daemon'.dir[t] # daemon.dir[t]
           /\ \E i \in Moves : MoveStep(i) /\ Working(i) /\ i[1] = t
                               /\ daemon'.dir[t] = job[i].to
  <2>1. PICK i \in Moves : /\ MoveStep(i) /\ Working(i) /\ i[1] = t
                           /\ daemon'.dir[t] = job[i].to
    BY <1>5
  <2>2. PointDaemon(i)
    <3>1. daemon \in Rows /\ daemon' # daemon
      BY <1>5 DEF PointerHyp, Typed, TypeOK
    <3>2. \A u \in Torrents : daemon' # Started(u) /\ daemon' # Stopped(u)
      BY <1>5, <3>1, StartFields, StopFields
    <3>3. \A ts : daemon' # Settled(ts)
      BY <1>5, <3>1, SettleFields
    <3>4. ~Begin(i) /\ ~Gate(i) /\ ~ReadActive(i) /\ ~MarkInProgress(i) /\ ~CopyStep(i)
          /\ ~EndInPlace(i) /\ ~EndDone(i) /\ ~Unregister(i)
      BY <3>1 DEF Begin, Gate, ReadActive, MarkInProgress, CopyStep, EndInPlace, EndDone,
           Unregister, CheckPaths, Rename, OpenCopy, PlaceFails, VerifyCopy,
           CancelCopy, CopyFails, EraseSource, EraseFails
    <3>5. ~StopTorrent(i) /\ ~RestartInPlace(i) /\ ~ClearIntent(i) /\ ~RestartHome(i)
      BY <2>1, <3>1, <3>2, <3>3 DEF StopTorrent, RestartInPlace, ClearIntent, RestartHome,
           BestEffort, Accepted, Refused
    <3> QED
      BY <2>1, <3>4, <3>5 DEF MoveStep
  <2>3. Whole(t, job[i].to) /\ job[i].to \in Dirs
    BY <2>1, <2>2, MovesAreJobs DEF PointDaemon, PointerHyp, PointerInv, Typed, JobsDirected
  <2> QED
    BY <2>1, <2>3 DEF WholeAfter, Whole
<1> QED
  BY <1>1, <1>2, <1>3, <1>4, <1>5, DirsOrigin DEF PointerHyp

LEMMA PointerFinds ==
  ASSUME PointerHyp, EntriesBack, ~AutoRename, "retry" \notin Commands,
         "save" \notin Faults, "torn" \notin Faults,
         NEW t \in daemon'.live \cap daemon'.complete
  PROVE  WholeAfter(t, daemon'.dir[t]) \/ Lists(journal', t)
<1>1. /\ t \in daemon.live /\ t \in Torrents /\ daemon.dir[t] \in Dirs
      /\ \A r \in Requests : ~RequestStep(r)
  BY LivesShrink, NothingAskedStep DEF PointerHyp, Typed, TypeOK, Rows
<1>2. CASE t \notin daemon.complete
  <2>1. PICK u \in Torrents : /\ CompleteDownload(u) /\ Sets(u, daemon.dir[u], DataOf(u))
                              /\ daemon'.complete = daemon.complete \cup {u}
    BY <1>1, <1>2, RenamedDisk DEF PointerHyp
  <2>2. u = t /\ daemon'.dir = daemon.dir
    BY <1>2, <2>1, CommandRows DEF PointerHyp
  <2> QED
    BY <1>1, <2>1, <2>2 DEF Sets, WholeAfter
<1>3. CASE /\ t \in daemon.complete
           /\ \E i \in Moves : MoveStep(i) /\ Rename(i) /\ i[1] = t
  <2>1. PICK i \in Moves : Rename(i) /\ i[1] = t
    BY <1>3
  <2>2. PICK o \in journal : o.id = i /\ o.state = "InProgress"
    BY <1>1, <2>1 DEF EntriesBack, Rename
  <2>3. UNCHANGED journal
    BY <2>1 DEF Rename, storeVars
  <2> QED
    BY <2>1, <2>2, <2>3 DEF Lists, Unfinished
<1>4. CASE /\ t \in daemon.complete
           /\ ~\E i \in Moves : MoveStep(i) /\ Rename(i) /\ i[1] = t
  <2>1. \A d \in Dirs : disk'[Place(d, t)] = disk[Place(d, t)]
    <3>1. CASE UNCHANGED disk
      BY <3>1 DEF Place
    <3>2. CASE \E i \in Moves : i[1] # t /\ Renames(i[1], job[i].from, job[i].to)
      BY <1>1, <3>2 DEF Renames
    <3>3. CASE \E u \in Torrents : u # t /\ Sets(u, daemon.dir[u], DataOf(u))
      BY <1>1, <3>3 DEF Sets
    <3>4. \A u \in Torrents : CompleteDownload(u) => u # t
      BY <1>4 DEF CompleteDownload
    <3> QED
      BY <1>1, <1>4, <3>1, <3>2, <3>3, <3>4, RenamedDisk DEF PointerHyp
  <2>2. Whole(t, daemon.dir[t]) \/ Lists(journal, t)
    BY <1>1, <1>4, ListsIs DEF PointerHyp, PointerInv, PointerFindsData, Whole, EntriesBack
  <2>3. CASE daemon'.dir[t] # daemon.dir[t]
    BY <1>1, <1>4, <2>1, <2>3, PointerFollows
  <2>4. CASE Whole(t, daemon.dir[t]) /\ daemon'.dir[t] = daemon.dir[t]
    BY <1>1, <2>1, <2>4 DEF Whole, WholeAfter
  <2>5. CASE Lists(journal, t) /\ ~Lists(journal', t)
    <3>1. ~UNCHANGED journal
      BY <2>5
    <3> QED
      BY <1>1, <1>4, <2>1, <2>5, <3>1, EntriesLinger, PointerFollows DEF PointerHyp
  <2> QED
    BY <2>2, <2>3, <2>4, <2>5
<1> QED
  BY <1>2, <1>3, <1>4

LEMMA PointerStep ==
  ASSUME PointerHyp, EntriesBack, EntriesBack', ~AutoRename, "retry" \notin Commands,
         "save" \notin Faults, "torn" \notin Faults
  PROVE  PointerInv'
<1>1. trashed' = {}
  BY NothingAskedStep, RenamedDisk DEF PointerHyp, PointerInv
<1>2. \A t \in Torrents, d \in Dirs :
        disk'[Place(d, t)] # NoData => d \in {StartDir[t], HomeDir(t)}
  BY PointerPlaces
<1>3. PointerFindsData'
  <2>1. \A t \in daemon'.live \cap daemon'.complete :
          disk'[Place(daemon'.dir[t], t)] = DataOf(t) \/ t \in HashesOf(Resumable(journal'))
    BY PointerFinds, ListsIs DEF WholeAfter
  <2>2. journalFile' = journal'
    BY DEF EntriesBack
  <2> QED
    BY <2>1, <2>2 DEF PointerFindsData, Place, DataOf, HashesOf, Resumable, IsResumable
<1>4. \A i \in Moves :
        /\ job'[i].pc \in {"pointer", "clear", "restart", "endDone"} => Whole(i[1], job[i].to)'
        /\ job'[i].pc \in {"clear", "restart", "endDone"} => daemon'.dir[i[1]] = job'[i].to
  BY PointerTasks DEF WholeAfter, Whole, Place, DataOf
<1> QED
  BY <1>1, <1>2, <1>3, <1>4 DEF PointerInv, NoData, Place, HomeDir, Destination

LEMMA PointerInit ==
  ASSUME DistinctNames, Unsquatted, Init
  PROVE  PointerInv
<1>1. ASSUME NEW t \in Torrents, NEW d \in Dirs, disk[Place(d, t)] # NoData
      PROVE  d = StartDir[t]
  <2>1. Place(d, t) \in Paths /\ Place(d, t) \notin Squatted
    BY PlacesArePaths DEF Unsquatted
  <2>2. \A u \in Torrents : Place(d, t) = Place(StartDir[u], u) => d = StartDir[t]
    BY PlacesDiffer, ConfigAssumption
  <2> QED
    BY <1>1, <2>1, <2>2 DEF Init
<1>2. \A i \in Moves : job[i].pc = "idle"
  BY MovesAreJobs DEF Init, Idle
<1>3. trashed = {} /\ daemon.complete = {}
  BY DEF Init
<1> QED
  BY <1>1, <1>2, <1>3 DEF PointerInv, PointerFindsData

\* The directory the daemon has for a living, complete torrent holds all of its
\* data, or the file names a move of it that is not finished: whatever is
\* killed and whatever call fails, on one volume, without suffixes, when renames
\* and saves succeed and nobody relocates, throws away or retries.
THEOREM PointerIsFollowed ==
  ASSUME DistinctNames, Unsquatted, NeverCopies, ~AutoRename,
         Without(Relocations \cup {"retry", "trash"}), "save" \notin Faults, "torn" \notin Faults
  PROVE  Spec => []PointerFindsData
<1> DEFINE Inv == /\ Typed /\ ControlInv /\ JournalInv /\ NothingAsked /\ OnlyCompletedMove
                  /\ CustodyInv /\ RenamedOnly /\ Homing /\ EntriesBack /\ PointerInv
<1>1. Without(Relocations) /\ "trash" \notin Commands /\ "retry" \notin Commands
  BY DEF Without
<1>2. NothingAsked => RequestsOnlyTrash
  BY DEF NothingAsked, RequestsOnlyTrash
<1>3. Init => Inv
  <2>1. Init => NothingAsked
    BY MovesAreJobs DEF Init, NothingAsked, Idle
  <2> QED
    BY <2>1, InitTyped, InitControlled, InitJournaled, OnlyCompletedInit, CustodyInit,
       RenamedInit, HomingInit, PointerInit
<1>4. Inv /\ [Next]_vars => Inv'
  <2> SUFFICES ASSUME Inv, [Next]_vars PROVE Inv'
    OBVIOUS
  <2>1. Typed' /\ ControlInv' /\ JournalInv'
    BY TypedStep, ControlStep, JournalStep
  <2>2. NothingAsked' /\ OnlyCompletedMove'
    BY <1>1, NothingAskedStep, OnlyCompletedStep
  <2>3. CustodyInv'
    BY <1>1, <1>2, SparesStep
  <2>4. RenamedOnly'
    BY RenamedStep
  <2>5. Homing' /\ EntriesBack'
    BY <1>1, <1>2, HomingStep, EntriesBackStep
  <2>6. PointerInv'
    BY <1>1, <2>5, PointerStep DEF PointerHyp
  <2> QED
    BY <2>1, <2>2, <2>3, <2>4, <2>5, <2>6
<1>5. Inv => PointerFindsData
  BY DEF PointerInv
<1> QED
  BY <1>3, <1>4, <1>5, PTL DEF Spec
=============================================================================
