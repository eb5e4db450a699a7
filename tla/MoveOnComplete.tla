--------------------------- MODULE MoveOnComplete ---------------------------
(***************************************************************************)
(* Move-on-complete as the web server runs it: the poller's move stage     *)
(* (server/src/moves.rs, called from poller.rs), the detached move tasks   *)
(* (mover.rs execute_move over fs.rs), the journal and its recovery after  *)
(* a restart, and the operator's commands (server/src/cmd.rs), against the *)
(* daemon and the disk they all share.                                     *)
(*                                                                         *)
(* Every await of the code is a boundary between two actions; what runs    *)
(* under one lock, or with no await in between, is one action.             *)
(***************************************************************************)
EXTENDS MoveJournal

CONSTANTS
  Dirs, NoDir,  \* directories, and the empty directory string
  Names,        \* names of torrent data
  NameOf,       \* the name of each torrent
  MaxSuffix,    \* bound: how many " (n)" names the collision gate tries
  StartDir,     \* where each torrent was loaded
  Recorded,     \* the final_dir recorded for it when it was added, or NoDir
  RuleDir,      \* the destination of the first move rule it matches, or NoDir
  Configured,   \* an incomplete dir or a move rule is configured
  AutoRename,   \* collision_policy = "auto-rename"
  SameVolume,   \* the directories share a volume: rename works
  Unselected,   \* torrents with files the user deselected (remaining > 0)
  Squatted,     \* paths taken by somebody else's data
  Foreign,      \* the owner of that data
  Nobody,       \* the owner of an empty path
  Commands,     \* the commands the operator (and the queue) may issue
  Faults,       \* the failures that may happen
  MaxCrashes    \* bound: kills of the server process

AllCommands ==
  {"start", "stop", "cancel", "retry", "set_location", "repoint", "remove",
   "trash", "queue"}

\* A daemon call, a file operation, a rename that two paths of one volume would
\* allow, the removal of a partial target, a save of the journal, a kill in the
\* middle of a save.
AllFaults == {"rpc", "fs", "rename", "cleanup", "save", "torn"}

ASSUME ConfigAssumption ==
  /\ NoDir \notin Dirs
  /\ MaxSuffix \in Nat
  /\ MaxCrashes \in Nat
  /\ Foreign \notin Torrents /\ Nobody \notin Torrents \cup {Foreign}
  /\ Paths = Dirs \X Names \X (0..MaxSuffix)
  /\ NameOf \in [Torrents -> Names]
  /\ StartDir \in [Torrents -> Dirs]
  /\ Recorded \in [Torrents -> Dirs \cup {NoDir}]
  /\ RuleDir \in [Torrents -> Dirs \cup {NoDir}]
  /\ Configured \in BOOLEAN
  /\ AutoRename \in BOOLEAN
  /\ SameVolume \in BOOLEAN
  /\ Unselected \subseteq Torrents
  /\ Squatted \subseteq Paths
  /\ \A t \in Torrents : <<StartDir[t], NameOf[t], 0>> \notin Squatted
  /\ \A t, u \in Torrents :
       StartDir[t] = StartDir[u] /\ NameOf[t] = NameOf[u] => t = u
  /\ Commands \subseteq AllCommands
  /\ Faults \subseteq AllFaults

VARIABLES
  daemon,       \* what rtorrent knows of the torrents
  disk,         \* what lies at each path
  journal,      \* MoveStore.journal
  journalFile,  \* move-journal.json
  handles,      \* MoveStore.active: the ids of the registered tasks
  cancelled,    \* the ids whose cancel flag is set
  job,          \* move tasks, set_location and delete-data requests
  phase,        \* where the poller is in its tick
  raw,          \* the rows this tick fetched
  todo,         \* interrupted entries resume_moves has still to settle
  recovered,    \* moves_resumed
  crashes,      \* kills so far
  trashed       \* torrents whose data the operator threw away

storeVars == <<journal, journalFile, handles, cancelled>>
pollVars == <<phase, raw, todo, recovered>>
envVars == <<crashes, trashed>>
vars == <<daemon, disk, storeVars, job, pollVars, envVars>>

----------------------------------------------------------------------------
(* Data. *)

NoData == [of |-> Nobody, whole |-> FALSE]
DataOf(t) == [of |-> t, whole |-> TRUE]
PartOf(t) == [of |-> t, whole |-> FALSE]
Contents == [of : Torrents \cup {Foreign, Nobody}, whole : BOOLEAN]

Place(d, t) == <<d, NameOf[t], 0>>

\* Move tasks carry a journal id, the operator's request for a torrent slot 0.
Moves == OpIds
Requests == Torrents \X {0}
Jobs == Moves \cup Requests

CopyPcs == {"check", "place", "copy", "erase"}
Pcs == {"idle", "begin", "gate", "read", "stop", "mark"} \cup CopyPcs \cup
       {"failed", "cancelled", "endFailed", "endCancelled", "pointer", "clear",
        "restart", "endDone", "unregister", "remove", "trash"}

\* from is the directory part of src_base_path, to the destination directory,
\* was the flag that says the torrent is to be started again.
JobRecords == [pc : Pcs, from : Dirs \cup {NoDir}, to : Dirs \cup {NoDir},
               was : BOOLEAN]
Idle == [pc |-> "idle", from |-> NoDir, to |-> NoDir, was |-> FALSE]

Rows == [live : SUBSET Torrents, active : SUBSET Torrents,
         complete : SUBSET Torrents, dir : [Torrents -> Dirs],
         finalDir : [Torrents -> Dirs \cup {NoDir}]]
NoRows == [live |-> {}, active |-> {}, complete |-> {}, dir |-> StartDir,
           finalDir |-> Recorded]

Phases == {"rest", "fetched", "recover", "settle", "plan", "queue"}

TypeOK ==
  /\ daemon \in Rows
  /\ disk \in [Paths -> Contents]
  /\ journal \subseteq MoveOps
  /\ journalFile \subseteq MoveOps
  /\ handles \subseteq OpIds
  /\ cancelled \subseteq OpIds
  /\ job \in [Jobs -> JobRecords]
  /\ phase \in Phases
  /\ raw \in Rows
  /\ todo \subseteq MoveOps
  /\ recovered \in BOOLEAN
  /\ crashes \in 0..MaxCrashes
  /\ trashed \subseteq Torrents

Init ==
  /\ daemon = [live |-> Torrents, active |-> Torrents, complete |-> {},
               dir |-> StartDir, finalDir |-> Recorded]
  /\ disk = [p \in Paths |->
               IF p \in Squatted THEN DataOf(Foreign)
               ELSE IF \E t \in Torrents : p = Place(StartDir[t], t)
               THEN PartOf(CHOOSE t \in Torrents : p = Place(StartDir[t], t))
               ELSE NoData]
  /\ journal = {} /\ journalFile = {}
  /\ handles = {} /\ cancelled = {}
  /\ job = [j \in Jobs |-> Idle]
  /\ phase = "rest" /\ raw = NoRows /\ todo = {} /\ recovered = FALSE
  /\ crashes = 0 /\ trashed = {}

----------------------------------------------------------------------------
(* What the actors do to the daemon, the journal and the disk. *)

Fault(f) == f \in Faults

Started(t) ==
  IF t \in daemon.live THEN [daemon EXCEPT !.active = @ \cup {t}] ELSE daemon
Stopped(t) == [daemon EXCEPT !.active = @ \ {t}]
Erased(t) == [daemon EXCEPT !.live = @ \ {t}, !.active = @ \ {t}]
Pointed(t, d) ==
  IF t \in daemon.live THEN [daemon EXCEPT !.dir[t] = d] ELSE daemon
Settled(ts) ==
  [daemon EXCEPT !.finalDir = [t \in Torrents |-> IF t \in ts THEN NoDir ELSE @[t]]]

\* A call whose result the code throws away.
BestEffort(after) == daemon' = after \/ (Fault("rpc") /\ UNCHANGED daemon)

\* A call the code goes on after, and one that returned an error: the torrent
\* is gone, or the transport failed before or after the daemon acted.
Accepted(t, after) == t \in daemon.live /\ daemon' = after
Refused(t, after) ==
  \/ t \notin daemon.live /\ UNCHANGED daemon
  \/ Fault("rpc") /\ daemon' \in {daemon, after}

\* Every change of the journal is followed by a save, in place, whose error is
\* ignored: one that failed left the file as it was, or garbled, read as empty.
Journal(entries) ==
  /\ journal' = entries
  /\ journalFile' \in {entries} \cup (IF Fault("save") THEN {journalFile, {}} ELSE {})

Goto(j, pc) == job' = [job EXCEPT ![j].pc = pc]
End(j) == job' = [job EXCEPT ![j] = Idle]

\* finish: the entry turns terminal and is saved; the handles go in a second
\* critical section.
Finish(i, state) ==
  /\ Journal(Mark(journal, i, state))
  /\ Goto(i, "unregister")

BusyHashesIgnoringHandles == HashesOf(Resumable(journal))

BusyHashes == {i[1] : i \in handles} \cup HashesOf(Resumable(journal))

----------------------------------------------------------------------------
(* Planning. *)

\* completion_destination: the matching rule, else the recorded final_dir.
Destination(t, recorded) == IF RuleDir[t] # NoDir THEN RuleDir[t] ELSE recorded

HasPlanWithoutDestination(rows, t) ==
  Destination(t, rows.finalDir[t]) # rows.dir[t]

\* plan_move(...).is_some()
HasPlan(rows, t) ==
  LET dest == Destination(t, rows.finalDir[t])
  IN dest # NoDir /\ dest # rows.dir[t]

DecideMovesStoppedOnly(rows, busy) ==
  {t \in rows.live \cap rows.complete :
     t \notin busy \cup rows.active /\ HasPlan(rows, t)}

DecideMoves(rows, busy) ==
  {t \in rows.live \cap rows.complete : t \notin busy /\ HasPlan(rows, t)}

HomedHashes(rows) ==
  {t \in rows.live \cap rows.complete :
     rows.finalDir[t] # NoDir /\ ~HasPlan(rows, t)}

\* The slots no task, handle or journal entry of the torrent refers to.
FreeSlots(t) ==
  {n \in 1..MaxMoves :
     /\ job[<<t, n>>] = Idle
     /\ <<t, n>> \notin handles
     /\ \A o \in journal \cup journalFile : o.id # <<t, n>>}
NextId(t) == <<t, CHOOSE n \in FreeSlots(t) : TRUE>>

----------------------------------------------------------------------------
(* The poller's tick: poll_once around its move stage. *)

\* list_snapshot: from here on the tick works with these rows, while the
\* tasks, the operator and the downloads go on.
Fetch ==
  /\ phase = "rest"
  /\ raw' = daemon
  /\ phase' = "fetched"
  /\ UNCHANGED <<daemon, disk, storeVars, job, todo, recovered, envVars>>

\* resume_once: the first time in the life of the process, entries whose
\* torrent is gone are dropped and the interrupted ones are listed.
ResumeMoves ==
  /\ phase = "fetched" /\ ~recovered
  /\ recovered' = TRUE
  /\ phase' = "recover"
  /\ IF Resumable(journal) = {}
     THEN UNCHANGED <<journal, journalFile, todo>>
     ELSE /\ todo' = {o \in journal : o.state = "InProgress"}
          /\ Journal(PruneUnknown(journal, raw.live))
  /\ UNCHANGED <<daemon, disk, handles, cancelled, job, raw, envVars>>

RecoverLandedIgnoringErrors(o) ==
  /\ phase = "recover" /\ o \in todo
  /\ disk[o.dst] # NoData /\ o.id[1] \in raw.live
  /\ BestEffort([Pointed(o.id[1], o.dst[1]) EXCEPT !.finalDir[o.id[1]] = NoDir])
  /\ Journal(Mark(journal, o.id, "Done"))
  /\ todo' = todo \ {o}
  /\ UNCHANGED <<disk, handles, cancelled, job, phase, raw, recovered, envVars>>

\* The target of an interrupted move is there: point the daemon at it and
\* clear the intent; if either call fails the entry stays InProgress.
RecoverLanded(o) ==
  /\ phase = "recover" /\ o \in todo
  /\ disk[o.dst] # NoData /\ o.id[1] \in raw.live
  /\ LET t == o.id[1]
         pointed == Pointed(t, o.dst[1])
     IN \/ /\ Accepted(t, [pointed EXCEPT !.finalDir[t] = NoDir])
           /\ Journal(Mark(journal, o.id, "Done"))
        \/ /\ Refused(t, pointed) \/ Refused(t, [pointed EXCEPT !.finalDir[t] = NoDir])
           /\ UNCHANGED <<journal, journalFile>>
  /\ todo' = todo \ {o}
  /\ UNCHANGED <<disk, handles, cancelled, job, phase, raw, recovered, envVars>>

\* The target is there and the torrent is gone.
RecoverOrphan(o) ==
  /\ phase = "recover" /\ o \in todo
  /\ disk[o.dst] # NoData /\ o.id[1] \notin raw.live
  /\ Journal(Mark(journal, o.id, "Failed"))
  /\ todo' = todo \ {o}
  /\ UNCHANGED <<daemon, disk, handles, cancelled, job, phase, raw, recovered, envVars>>

\* Nothing landed: back to Pending.
RecoverAbsent(o) ==
  /\ phase = "recover" /\ o \in todo
  /\ disk[o.dst] = NoData
  /\ Journal(Mark(journal, o.id, "Pending"))
  /\ todo' = todo \ {o}
  /\ UNCHANGED <<daemon, disk, handles, cancelled, job, phase, raw, recovered, envVars>>

PruneJournalBeforeRecovery ==
  /\ phase \in {"fetched", "recover"}
  /\ phase' = "settle"
  /\ Journal(PruneDone(PruneUnknown(journal, raw.live)))
  /\ UNCHANGED <<daemon, disk, handles, cancelled, job, raw, todo, recovered, envVars>>

\* run_due_moves, first section: the journal loses the entries of removed
\* torrents and the finished ones.
PruneJournal ==
  /\ recovered /\ todo = {}
  /\ phase \in {"fetched", "recover"}
  /\ phase' = "settle"
  /\ LET kept == PruneDone(PruneUnknown(journal, raw.live))
     IN IF kept = journal THEN UNCHANGED <<journal, journalFile>> ELSE Journal(kept)
  /\ UNCHANGED <<daemon, disk, handles, cancelled, job, raw, todo, recovered, envVars>>

\* A torrent the rows show at its destination loses its recorded intent; a
\* call that fails loses nothing else.
SettleHomed ==
  /\ phase = "settle"
  /\ phase' = IF Configured THEN "plan" ELSE "queue"
  /\ \E ts \in SUBSET HomedHashes(raw) :
       /\ ts = HomedHashes(raw) \/ Fault("rpc")
       /\ daemon' = Settled(ts \cap daemon.live)
  /\ UNCHANGED <<disk, storeVars, job, raw, todo, recovered, envVars>>

\* decide_moves over the rows; each intent's handles are registered before
\* its task is spawned.
PlanMoves ==
  /\ phase = "plan"
  /\ phase' = "queue"
  /\ LET ids == {NextId(t) : t \in {u \in DecideMoves(raw, BusyHashes) : FreeSlots(u) # {}}}
     IN /\ handles' = handles \cup ids
        /\ job' = [j \in Jobs |->
                     IF j \in ids
                     THEN [pc |-> "begin", from |-> raw.dir[j[1]],
                           to |-> Destination(j[1], raw.finalDir[j[1]]),
                           was |-> j[1] \in raw.active]
                     ELSE job[j]]
  /\ UNCHANGED <<daemon, disk, journal, journalFile, cancelled, raw, todo,
                 recovered, envVars>>

RunQueueWithoutSkip ==
  /\ phase = "queue"
  /\ phase' = "rest" /\ raw' = NoRows
  /\ \E start \in SUBSET (raw.live \ raw.active) :
       daemon' = [daemon EXCEPT !.active = @ \cup (start \cap daemon.live)]
  /\ UNCHANGED <<disk, storeVars, job, todo, recovered, envVars>>

\* The queue stage that ends the tick may hold and start any torrents that no
\* move is busy with; which ones is the business of QueuePolicy.
RunQueue ==
  /\ phase = "queue"
  /\ phase' = "rest" /\ raw' = NoRows
  /\ LET free == IF "queue" \in Commands THEN raw.live \ BusyHashes ELSE {}
     IN \E hold \in SUBSET (free \cap raw.active), start \in SUBSET (free \ raw.active) :
          daemon' = [daemon EXCEPT
                       !.active = (@ \ hold) \cup (start \cap daemon.live)]
  /\ UNCHANGED <<disk, storeVars, job, todo, recovered, envVars>>

----------------------------------------------------------------------------
(* A move task: spawn_move and execute_move. *)

\* Under the journal lock: Busy if the torrent has an unfinished entry (the
\* handles go), else the move is recorded Pending.
Begin(i) ==
  /\ job[i].pc = "begin"
  /\ IF i[1] \in HashesOf(Resumable(journal))
     THEN /\ handles' = handles \ {i}
          /\ End(i)
          /\ UNCHANGED <<journal, journalFile>>
     ELSE /\ Journal(Add(journal, [id |-> i, state |-> "Pending",
                                   dst |-> Place(job[i].to, i[1])]))
          /\ Goto(i, "gate")
          /\ UNCHANGED handles
  /\ UNCHANGED <<daemon, disk, cancelled, pollVars, envVars>>

\* preflight: the shortage is measured on the bytes left to download.
Blocked(i) == i[1] \in Unselected

\* resolve_collision: the suffixes of the free names under the destination.
FreeSuffixes(i) ==
  {n \in 0..MaxSuffix :
     /\ disk[<<job[i].to, NameOf[i[1]], n>>] = NoData
     /\ n = 0 \/ AutoRename}

\* Free space and the name: either may end the move before anything stops.
Gate(i) ==
  /\ job[i].pc = "gate"
  /\ \/ /\ Blocked(i) \/ FreeSuffixes(i) = {}
        /\ Finish(i, "Failed")
     \/ /\ \E n \in FreeSuffixes(i) :
             /\ \A m \in FreeSuffixes(i) : n <= m
             /\ Journal(Redirect(journal, i, <<job[i].to, NameOf[i[1]], n>>))
        /\ Goto(i, IF job[i].was THEN "stop" ELSE "read")
  /\ UNCHANGED <<daemon, disk, handles, cancelled, pollVars, envVars>>

\* The rows said stopped: read the torrent again; an error reads as stopped.
ReadActive(i) ==
  /\ job[i].pc = "read"
  /\ \E active \in BOOLEAN :
       /\ IF active THEN i[1] \in daemon.active
          ELSE i[1] \notin daemon.active \/ Fault("rpc")
       /\ job' = [job EXCEPT ![i].was = active,
                             ![i].pc = IF active THEN "stop" ELSE "mark"]
  /\ UNCHANGED <<daemon, disk, storeVars, pollVars, envVars>>

StopTorrent(i) ==
  /\ job[i].pc = "stop"
  /\ \/ /\ Accepted(i[1], Stopped(i[1]))
        /\ Goto(i, "mark")
        /\ UNCHANGED <<journal, journalFile>>
     \/ /\ Refused(i[1], Stopped(i[1]))
        /\ Finish(i, "Failed")
  /\ UNCHANGED <<disk, handles, cancelled, pollVars, envVars>>

MarkInProgressUnsaved(i) ==
  /\ job[i].pc = "mark"
  /\ journal' = Mark(journal, i, "InProgress")
  /\ Goto(i, "check")
  /\ UNCHANGED <<daemon, disk, journalFile, handles, cancelled, pollVars, envVars>>

MarkInProgress(i) ==
  /\ job[i].pc = "mark"
  /\ Journal(Mark(journal, i, "InProgress"))
  /\ Goto(i, "check")
  /\ UNCHANGED <<daemon, disk, handles, cancelled, pollVars, envVars>>

----------------------------------------------------------------------------
(* move_with_progress, for a move task or a set_location request. *)

Source(j) == Place(job[j].from, j[1])
Target(j) == Place(job[j].to, j[1])

\* The outcomes that need no copy: already there, nothing to move, name taken.
CheckPaths(j) ==
  /\ job[j].pc = "check"
  /\ Goto(j, IF Source(j) = Target(j) \/ disk[Source(j)] = NoData THEN "pointer"
             ELSE IF disk[Target(j)] # NoData THEN "failed" ELSE "place")
  /\ UNCHANGED <<daemon, disk, storeVars, pollVars, envVars>>

RenameReplacing(j) ==
  /\ job[j].pc = "place" /\ SameVolume
  /\ disk' = [disk EXCEPT ![Target(j)] = disk[Source(j)], ![Source(j)] = NoData]
  /\ Goto(j, "pointer")
  /\ UNCHANGED <<daemon, storeVars, pollVars, envVars>>

\* rename(2): atomic, and it replaces whatever a file target is by now.
Rename(j) ==
  /\ job[j].pc = "place" /\ SameVolume
  /\ disk[Source(j)] # NoData
  /\ disk' = [disk EXCEPT ![Target(j)] = disk[Source(j)], ![Source(j)] = NoData]
  /\ Goto(j, "pointer")
  /\ UNCHANGED <<daemon, storeVars, pollVars, envVars>>

\* rename(2) refused (two volumes, a directory that is not empty by now, or any
\* other error): the copy creates its target, truncating what is there.
OpenCopy(j) ==
  /\ job[j].pc = "place"
  /\ ~SameVolume \/ disk[Target(j)] # NoData \/ Fault("rename")
  /\ disk[Source(j)] # NoData
  /\ disk' = [disk EXCEPT ![Target(j)] = PartOf(disk[Source(j)].of)]
  /\ Goto(j, "copy")
  /\ UNCHANGED <<daemon, storeVars, pollVars, envVars>>

\* The source vanished, or the target cannot be created.
PlaceFails(j) ==
  /\ job[j].pc = "place"
  /\ disk[Source(j)] = NoData \/ Fault("fs")
  /\ Goto(j, "failed")
  /\ UNCHANGED <<daemon, disk, storeVars, pollVars, envVars>>

\* Every chunk written and the sizes equal.
VerifyCopy(j) ==
  /\ job[j].pc = "copy"
  /\ disk[Source(j)] # NoData /\ disk[Target(j)] # NoData
  /\ disk' = [disk EXCEPT ![Target(j)] = disk[Source(j)]]
  /\ Goto(j, "erase")
  /\ UNCHANGED <<daemon, storeVars, pollVars, envVars>>

CancelCopyRemovingSource(j) ==
  /\ job[j].pc = "copy" /\ j \in cancelled
  /\ disk' = [disk EXCEPT ![Source(j)] = NoData]
  /\ Goto(j, "cancelled")
  /\ UNCHANGED <<daemon, storeVars, pollVars, envVars>>

CancelCopyLeavingPartial(j) ==
  /\ job[j].pc = "copy" /\ j \in cancelled
  /\ Goto(j, "cancelled")
  /\ UNCHANGED <<daemon, disk, storeVars, pollVars, envVars>>

\* The flag is seen before a chunk: the partial target is removed (best
\* effort).
CancelCopy(j) ==
  /\ job[j].pc = "copy" /\ j \in cancelled
  /\ \/ disk' = [disk EXCEPT ![Target(j)] = NoData]
     \/ Fault("cleanup") /\ UNCHANGED disk
  /\ Goto(j, "cancelled")
  /\ UNCHANGED <<daemon, storeVars, pollVars, envVars>>

\* A read, a write or the verification fails: the partial target is removed.
CopyFails(j) ==
  /\ job[j].pc = "copy"
  /\ disk[Source(j)] = NoData \/ disk[Target(j)] = NoData \/ Fault("fs")
  /\ \/ disk' = [disk EXCEPT ![Target(j)] = NoData]
     \/ Fault("cleanup") /\ UNCHANGED disk
  /\ Goto(j, "failed")
  /\ UNCHANGED <<daemon, storeVars, pollVars, envVars>>

EraseSource(j) ==
  /\ job[j].pc = "erase"
  /\ disk[Source(j)] # NoData
  /\ disk' = [disk EXCEPT ![Source(j)] = NoData]
  /\ Goto(j, "pointer")
  /\ UNCHANGED <<daemon, storeVars, pollVars, envVars>>

EraseFailsRemovingTarget(j) ==
  /\ job[j].pc = "erase"
  /\ disk[Source(j)] # NoData /\ Fault("fs")
  /\ disk' = [disk EXCEPT ![Source(j)].whole = FALSE, ![Target(j)] = NoData]
  /\ Goto(j, "failed")
  /\ UNCHANGED <<daemon, storeVars, pollVars, envVars>>

\* The source cannot be removed, or only a part of its tree can.
EraseFails(j) ==
  /\ job[j].pc = "erase"
  /\ \/ disk[Source(j)] = NoData /\ UNCHANGED disk
     \/ /\ disk[Source(j)] # NoData /\ Fault("fs")
        /\ disk' \in {disk, [disk EXCEPT ![Source(j)].whole = FALSE]}
  /\ Goto(j, "failed")
  /\ UNCHANGED <<daemon, storeVars, pollVars, envVars>>

CopyStep(j) ==
  \/ CheckPaths(j) \/ Rename(j) \/ OpenCopy(j) \/ PlaceFails(j)
  \/ VerifyCopy(j) \/ CancelCopy(j) \/ CopyFails(j)
  \/ EraseSource(j) \/ EraseFails(j)

----------------------------------------------------------------------------
(* The rest of execute_move. *)

RestartAfterFailureOnly(i) ==
  /\ job[i].pc \in {"failed", "cancelled"}
  /\ IF job[i].was /\ job[i].pc = "failed"
     THEN BestEffort(Started(i[1])) ELSE UNCHANGED daemon
  /\ Goto(i, IF job[i].pc = "failed" THEN "endFailed" ELSE "endCancelled")
  /\ UNCHANGED <<disk, storeVars, pollVars, envVars>>

\* Cancelled or failed on the disk: started again in place, if it was active.
RestartInPlace(i) ==
  /\ job[i].pc \in {"failed", "cancelled"}
  /\ IF job[i].was THEN BestEffort(Started(i[1])) ELSE UNCHANGED daemon
  /\ Goto(i, IF job[i].pc = "failed" THEN "endFailed" ELSE "endCancelled")
  /\ UNCHANGED <<disk, storeVars, pollVars, envVars>>

EndInPlace(i) ==
  /\ \/ job[i].pc = "endFailed" /\ Finish(i, "Failed")
     \/ job[i].pc = "endCancelled" /\ Finish(i, "Cancelled")
  /\ UNCHANGED <<daemon, disk, handles, cancelled, pollVars, envVars>>

PointDaemon(i) ==
  /\ job[i].pc = "pointer"
  /\ \/ /\ Accepted(i[1], Pointed(i[1], job[i].to))
        /\ Goto(i, "clear")
        /\ UNCHANGED <<journal, journalFile>>
     \/ /\ Refused(i[1], Pointed(i[1], job[i].to))
        /\ Finish(i, "Failed")
  /\ UNCHANGED <<disk, handles, cancelled, pollVars, envVars>>

ClearIntent(i) ==
  /\ job[i].pc = "clear"
  /\ BestEffort(Settled({i[1]} \cap daemon.live))
  /\ Goto(i, "restart")
  /\ UNCHANGED <<disk, storeVars, pollVars, envVars>>

RestartHome(i) ==
  /\ job[i].pc = "restart"
  /\ IF job[i].was THEN BestEffort(Started(i[1])) ELSE UNCHANGED daemon
  /\ Goto(i, "endDone")
  /\ UNCHANGED <<disk, storeVars, pollVars, envVars>>

EndDone(i) ==
  /\ job[i].pc = "endDone"
  /\ Finish(i, "Done")
  /\ UNCHANGED <<daemon, disk, handles, cancelled, pollVars, envVars>>

\* The second half of finish.
Unregister(i) ==
  /\ job[i].pc = "unregister"
  /\ handles' = handles \ {i}
  /\ cancelled' = cancelled \ {i}
  /\ End(i)
  /\ UNCHANGED <<daemon, disk, journal, journalFile, pollVars, envVars>>

MoveStep(i) ==
  \/ Begin(i) \/ Gate(i) \/ ReadActive(i) \/ StopTorrent(i) \/ MarkInProgress(i)
  \/ CopyStep(i) \/ RestartInPlace(i) \/ EndInPlace(i) \/ PointDaemon(i)
  \/ ClearIntent(i) \/ RestartHome(i) \/ EndDone(i) \/ Unregister(i)

----------------------------------------------------------------------------
(* The operator: cmd.rs. *)

\* set_location reads the torrent and, if it is active, stops it first.  With
\* no data to move (or none asked for) only the pointer changes.
AskLocation(t, d) ==
  /\ job[<<t, 0>>] = Idle
  /\ \E from \in (IF "set_location" \in Commands /\ t \in daemon.live
                  THEN {daemon.dir[t]} ELSE {})
                 \cup (IF "repoint" \in Commands THEN {NoDir} ELSE {}) :
       job' = [job EXCEPT ![<<t, 0>>] =
                 [pc |-> IF t \in daemon.active THEN "stop"
                         ELSE IF from # NoDir THEN "check" ELSE "pointer",
                  from |-> from, to |-> d, was |-> t \in daemon.active]]
  /\ UNCHANGED <<daemon, disk, storeVars, pollVars, envVars>>

\* `?` ends the request on the spot.
StopForLocation(r) ==
  /\ job[r].pc = "stop"
  /\ \/ /\ Accepted(r[1], Stopped(r[1]))
        /\ Goto(r, IF job[r].from # NoDir THEN "check" ELSE "pointer")
     \/ Refused(r[1], Stopped(r[1])) /\ End(r)
  /\ UNCHANGED <<disk, storeVars, pollVars, envVars>>

\* The files could not be moved: started again, and an error to the operator.
RestartAfterRequest(r) ==
  /\ job[r].pc = "failed"
  /\ IF job[r].was THEN BestEffort(Started(r[1])) ELSE UNCHANGED daemon
  /\ End(r)
  /\ UNCHANGED <<disk, storeVars, pollVars, envVars>>

PointForLocation(r) ==
  /\ job[r].pc = "pointer"
  /\ \/ Accepted(r[1], Pointed(r[1], job[r].to)) /\ Goto(r, "clear")
     \/ Refused(r[1], Pointed(r[1], job[r].to)) /\ End(r)
  /\ UNCHANGED <<disk, storeVars, pollVars, envVars>>

\* A manual move wins over automation: the recorded final_dir goes.
ClearForLocation(r) ==
  /\ job[r].pc = "clear"
  /\ BestEffort(Settled({r[1]} \cap daemon.live))
  /\ Goto(r, "restart")
  /\ UNCHANGED <<disk, storeVars, pollVars, envVars>>

RestartForLocation(r) ==
  /\ job[r].pc = "restart"
  /\ IF job[r].was THEN BestEffort(Started(r[1])) ELSE UNCHANGED daemon
  /\ End(r)
  /\ UNCHANGED <<disk, storeVars, pollVars, envVars>>

\* remove with deleteData: the base path is read, the torrent erased, and what
\* lies at that path by then goes to the trash.
AskTrash(t) ==
  /\ "trash" \in Commands /\ t \in daemon.live
  /\ job[<<t, 0>>] = Idle
  /\ job' = [job EXCEPT ![<<t, 0>>] =
               [pc |-> "remove", from |-> NoDir, to |-> daemon.dir[t], was |-> FALSE]]
  /\ UNCHANGED <<daemon, disk, storeVars, pollVars, envVars>>

EraseForTrash(r) ==
  /\ job[r].pc = "remove"
  /\ \/ Accepted(r[1], Erased(r[1])) /\ Goto(r, "trash")
     \/ Refused(r[1], Erased(r[1])) /\ End(r)
  /\ UNCHANGED <<disk, storeVars, pollVars, envVars>>

TrashData(r) ==
  /\ job[r].pc = "trash"
  /\ \/ disk' = [disk EXCEPT ![Target(r)] = NoData]
     \/ Fault("fs") /\ UNCHANGED disk
  /\ trashed' = trashed \cup {r[1]}
  /\ End(r)
  /\ UNCHANGED <<daemon, storeVars, pollVars, crashes>>

RequestStep(r) ==
  \/ StopForLocation(r) \/ CopyStep(r) \/ RestartAfterRequest(r)
  \/ PointForLocation(r) \/ ClearForLocation(r) \/ RestartForLocation(r)
  \/ EraseForTrash(r) \/ TrashData(r)

StartCommand(t) ==
  /\ "start" \in Commands /\ t \in daemon.live
  /\ daemon' = Started(t)
  /\ UNCHANGED <<disk, storeVars, job, pollVars, envVars>>

StopCommand(t) ==
  /\ "stop" \in Commands /\ t \in daemon.active
  /\ daemon' = Stopped(t)
  /\ UNCHANGED <<disk, storeVars, job, pollVars, envVars>>

\* cancel_move: by id or by hash, only a registered task.
CancelMove(i) ==
  /\ "cancel" \in Commands /\ i \in handles
  /\ cancelled' = cancelled \cup {i}
  /\ UNCHANGED <<daemon, disk, journal, journalFile, handles, job, pollVars, envVars>>

\* retry_move: saved, and reported, only if an entry went.
RetryMove(t) ==
  /\ "retry" \in Commands
  /\ Retry(journal, t) # journal
  /\ Journal(Retry(journal, t))
  /\ UNCHANGED <<daemon, disk, handles, cancelled, job, pollVars, envVars>>

\* remove: erased from the daemon, the files stay.
RemoveTorrent(t) ==
  /\ "remove" \in Commands /\ t \in daemon.live
  /\ daemon' = Erased(t)
  /\ UNCHANGED <<disk, storeVars, job, pollVars, envVars>>

----------------------------------------------------------------------------
(* The daemon and the machine. *)

\* The last piece of an active torrent arrives.
CompleteDownload(t) ==
  /\ t \in daemon.active \ daemon.complete
  /\ disk[Place(daemon.dir[t], t)] = PartOf(t)
  /\ daemon' = [daemon EXCEPT !.complete = @ \cup {t}]
  /\ disk' = [disk EXCEPT ![Place(daemon.dir[t], t)] = DataOf(t)]
  /\ UNCHANGED <<storeVars, job, pollVars, envVars>>

\* Someone is inside MoveStore::save.
Saving ==
  \/ \E i \in Moves : job[i].pc \in {"begin", "gate", "stop", "mark", "pointer",
                                     "endFailed", "endCancelled", "endDone"}
  \/ todo # {}
  \/ phase \in {"fetched", "recover"}

\* The process is killed and started again.  Killed inside a save it leaves a
\* torn file, which loads as an empty journal.
Restart ==
  /\ crashes < MaxCrashes
  /\ crashes' = crashes + 1
  /\ journalFile' \in {journalFile} \cup
       (IF Fault("torn") /\ Saving THEN {{}} ELSE {})
  /\ journal' = journalFile'
  /\ handles' = {} /\ cancelled' = {}
  /\ job' = [j \in Jobs |-> Idle]
  /\ phase' = "rest" /\ raw' = NoRows /\ todo' = {} /\ recovered' = FALSE
  /\ UNCHANGED <<daemon, disk, trashed>>

----------------------------------------------------------------------------

Tick ==
  \/ Fetch \/ ResumeMoves
  \/ \E o \in todo : RecoverLanded(o) \/ RecoverOrphan(o) \/ RecoverAbsent(o)
  \/ PruneJournal \/ SettleHomed \/ PlanMoves \/ RunQueue

Operator ==
  \E t \in Torrents :
    \/ \E d \in Dirs : AskLocation(t, d)
    \/ StartCommand(t) \/ StopCommand(t) \/ RetryMove(t) \/ RemoveTorrent(t)
    \/ AskTrash(t)

Next ==
  \/ Tick
  \/ \E i \in Moves : MoveStep(i) \/ CancelMove(i)
  \/ \E r \in Requests : RequestStep(r)
  \/ Operator
  \/ \E t \in Torrents : CompleteDownload(t)
  \/ Restart

Spec == Init /\ [][Next]_vars

\* The runtime keeps polling the loop and every spawned task and request
\* (tokio is fair to ready tasks, every RPC and every file operation returns);
\* operators, downloads and kills owe nothing.
Fairness ==
  /\ WF_vars(Tick)
  /\ \A i \in Moves : WF_vars(MoveStep(i))
  /\ \A r \in Requests : WF_vars(RequestStep(r))

FairSpec == Spec /\ Fairness
=============================================================================
