--------------------------- MODULE MoveProperties ---------------------------
(***************************************************************************)
(* The properties of MoveOnComplete.                                       *)
(***************************************************************************)
EXTENDS MoveOnComplete

Working(j) == job[j].pc # "idle"
OnDisk(j) == job[j].pc \in CopyPcs

----------------------------------------------------------------------------
(* Safety. *)

\* The data of a completed torrent lies whole at some path, whatever copy,
\* cancel, failure or kill happened, unless the operator threw it away
\* (copy_and_verify_then_remove erases the source only behind a verified copy).
DataSurvives ==
  \A t \in daemon.complete \ trashed : \E p \in Paths : disk[p] = DataOf(t)

\* A torrent never has two move tasks, registered or running: the handles are
\* registered before the spawn, so a tick never plans beside a live task.
OneTaskPerTorrent ==
  \A i, k \in Moves :
    (Working(i) \/ i \in handles) /\ (Working(k) \/ k \in handles) /\ i[1] = k[1] => i = k

\* A torrent never has two unfinished journal entries, in memory or in the
\* file a restart loads: resume_moves would settle one move against the other.
OneUnfinishedEntry ==
  \A entries \in {journal, journalFile} :
    \A o, q \in entries :
      /\ o.state \in {"Pending", "InProgress", "Failed"}
      /\ q.state \in {"Pending", "InProgress", "Failed"}
      /\ o.id[1] = q.id[1]
      => o = q

\* While a task may have changed the disk or the daemon without having
\* finished, the file a restart would load names the move and where it goes:
\* a kill at any point leaves an entry to recover from.
JournalBacksMove ==
  \A i \in Moves :
    /\ job[i].pc \in CopyPcs \cup {"failed", "cancelled", "pointer", "clear", "restart"}
    /\ i[1] \in daemon.live
    => \E o \in journalFile :
         o.id = i /\ o.state = "InProgress" /\ o.dst = Target(i)

\* Recovery is over before the first task starts, so it never settles the
\* entry of a move that is running.
RecoveryPrecedesMoves ==
  (\E i \in Moves : Working(i)) => recovered /\ todo = {}

\* The files of a torrent are not touched while the daemon runs it, even when
\* the queue starts torrents in the ticks a move spans.
StoppedWhileMoving ==
  \A i \in Moves : OnDisk(i) => i[1] \notin daemon.active

\* The daemon's directory holds the whole data of a completed torrent, or the
\* file has an unfinished entry that says why not.
PointerFindsData ==
  \A t \in daemon.live \cap daemon.complete :
    \/ disk[Place(daemon.dir[t], t)] = DataOf(t)
    \/ t \in HashesOf(Resumable(journalFile))

\* A cancelled move leaves the source whole and nothing at the destination,
\* which is what makes resuming in place safe.
CancelLeavesSource ==
  \A i \in Moves :
    job[i].pc = "cancelled" /\ i[1] \notin trashed
    => disk[Source(i)] = DataOf(i[1]) /\ disk[Target(i)] = NoData

\* A torrent that ran before its move runs again when the task ends, whether
\* the move finished, failed or was cancelled, when every start succeeds and
\* nobody else stops it.
RunsAgainAfterMove ==
  \A i \in Moves :
    /\ job[i].pc \in {"endFailed", "endCancelled", "endDone", "unregister"}
    /\ job[i].was
    => i[1] \in daemon.active

----------------------------------------------------------------------------
(* Liveness, under FairSpec. *)

Home(t) ==
  /\ daemon.dir[t] = Destination(t, Recorded[t])
  /\ disk[Place(daemon.dir[t], t)] = DataOf(t)

\* A completed torrent with a destination ends up there, its data and the
\* daemon's pointer both, unless a move of it fails or is cancelled.
CompletedGoHome ==
  \A t \in Torrents :
    [](\A o \in journal : o.id[1] = t => o.state \notin {"Failed", "Cancelled"})
    => (t \in daemon.complete /\ Destination(t, Recorded[t]) # NoDir ~> [](Home(t)))

----------------------------------------------------------------------------
(* The inductive invariant behind the theorems of MoveProofs. *)

\* A job under way has somewhere to go, and something to bring there while it
\* handles files.
JobsDirected ==
  \A j \in Jobs :
    /\ Working(j) => job[j].to \in Dirs
    /\ job[j].from = NoDir =>
         job[j].pc \notin CopyPcs /\ (j \in Moves => ~Working(j))

\* The tick settles what a restart left before it plans.
TickOrder == phase \in {"settle", "plan", "queue"} => recovered /\ todo = {}

\* The registered handles are those of the tasks.
HandlesAreTasks == handles = {i \in Moves : Working(i)}

\* An id names one entry.
IdsUnique(entries) == \A o, q \in entries : o.id = q.id => o = q

Unfinished(entries) == {o \in entries : o.state \in {"Pending", "InProgress", "Failed"}}

OneUnfinished(entries) ==
  \A o, q \in Unfinished(entries) : o.id[1] = q.id[1] => o = q

\* The entry of a task is new when it begins and unfinished until it ends.
TasksOwnEntries ==
  \A i \in Moves : \A o \in journal :
    o.id = i =>
      /\ job[i].pc # "begin"
      /\ job[i].pc \notin {"idle", "unregister"} => o.state \in {"Pending", "InProgress"}

\* What recovery has still to settle is unfinished.
TodoUnfinished ==
  /\ IdsUnique(todo)
  /\ \A o \in todo : \A q \in journal : q.id = o.id => q.state = "InProgress"

JournalInv ==
  /\ \A entries \in {journal, journalFile} : IdsUnique(entries) /\ OneUnfinished(entries)
  /\ TasksOwnEntries
  /\ TodoUnfinished

MoveInv ==
  /\ TypeOK
  /\ JobsDirected
  /\ HandlesAreTasks
  /\ TickOrder
  /\ RecoveryPrecedesMoves
  /\ OneTaskPerTorrent
  /\ JournalInv

----------------------------------------------------------------------------
(* What the theorems of CustodyProofs ask of the constants, and the        *)
(* inductive invariants behind them.                                       *)

\* No two torrents share the name of their data.
DistinctNames == \A t, u \in Torrents : NameOf[t] = NameOf[u] => t = u

\* Nobody else's data lies where the data of a torrent may go.
Unsquatted == \A t \in Torrents, d \in Dirs : Place(d, t) \notin Squatted

Without(commands) == Commands \cap commands = {}

Relocations == {"set_location", "repoint"}
Removals == {"remove", "trash"}

\* The operator's requests only throw data away.
RequestsOnlyTrash == \A r \in Requests : job[r].pc \in {"idle", "remove", "trash"}

\* From the stop to the pointer a task keeps its torrent stopped.
TasksKeepStopped ==
  \A i \in Moves : job[i].pc \in {"mark"} \cup CopyPcs => i[1] \notin daemon.active

\* A task that has stopped its torrent and has still to start it.
Owes(i) ==
  /\ job[i].was
  /\ job[i].pc \in {"mark", "failed", "cancelled", "pointer", "clear", "restart"} \cup CopyPcs

\* What the tick saw running runs, or is owed a start by its task; a task that
\* stops its torrent knows it ran, and one that owes nothing has it running.
RunningIsOwed ==
  /\ daemon.live = Torrents
  /\ \A t \in raw.active : t \in daemon.active \/ \E i \in Moves : i[1] = t /\ Owes(i)
  /\ \A i \in Moves :
       /\ job[i].pc = "stop" => job[i].was
       /\ job[i].was /\ Working(i) /\ ~Owes(i) => i[1] \in daemon.active

\* While a torrent lives, so does the entry of its task: in the file as in
\* memory, with the destination of the task, in progress from the mark on.
EntriesBack ==
  /\ journalFile = journal
  /\ phase # "rest" => daemon.live \subseteq raw.live
  /\ \A i \in Moves :
       i[1] \in daemon.live /\ job[i].pc \notin {"idle", "begin", "unregister"} =>
         \E o \in journal :
           /\ o.id = i /\ o.dst = Target(i)
           /\ job[i].pc \notin {"gate", "read", "stop", "mark"} => o.state = "InProgress"

\* Nothing moves before it is complete.
OnlyCompletedMove ==
  /\ raw.complete \subseteq daemon.complete
  /\ \A i \in Moves : Working(i) => i[1] \in daemon.complete
  /\ \A o \in journal \cup journalFile \cup todo : o.id[1] \in daemon.complete

Whole(t, d) == disk[Place(d, t)] = DataOf(t)

\* Data is whole from its completion on, somewhere, unless it was thrown away.
WholeOnceComplete ==
  \A t \in Torrents :
    /\ t \notin daemon.complete => \A d \in Dirs : ~Whole(t, d)
    /\ t \in daemon.complete \ trashed => \E d \in Dirs : Whole(t, d)

\* What a job is about to overwrite or to erase is not the last whole copy.
Spares(j) ==
  /\ job[j].pc \in {"place", "copy", "erase"} => job[j].from # job[j].to
  /\ j[1] \in daemon.complete \ trashed =>
       /\ \/ job[j].pc = "copy"
          \/ job[j].pc = "place" /\ disk[Source(j)] # NoData
          => \E d \in Dirs \ {job[j].to} : Whole(j[1], d)
       /\ job[j].pc = "erase" => \E d \in Dirs \ {job[j].from} : Whole(j[1], d)

CustodyInv == WholeOnceComplete /\ \A j \in Jobs : Spares(j)

\* On one volume data is renamed: it lies in one directory at a time, and no
\* job ever copies.
RenamedOnly ==
  /\ \A t \in Torrents : \A d, e \in Dirs :
       disk[Place(d, t)] # NoData /\ disk[Place(e, t)] # NoData => d = e
  /\ \A t \in Torrents, d \in Dirs : disk[Place(d, t)].of \in {t, Nobody}
  /\ \A j \in Jobs :
       /\ job[j].pc \notin {"copy", "erase", "cancelled", "endCancelled"}
       /\ job[j].pc = "place" => job[j].from # job[j].to

\* Automation moves a torrent from where it was loaded to one destination.
HomeDir(t) == Destination(t, Recorded[t])

Homing ==
  /\ \A t \in Torrents : \A rows \in {daemon, raw} :
       /\ rows.finalDir[t] \in {Recorded[t], NoDir}
       /\ rows.dir[t] \in {StartDir[t], HomeDir(t)}
  /\ \A t \in Torrents \ daemon.complete : daemon.dir[t] = StartDir[t]
  /\ \A i \in Moves : Working(i) =>
       /\ job[i].from = StartDir[i[1]] /\ job[i].to = HomeDir(i[1])
       /\ job[i].from # job[i].to
  /\ \A o \in journal \cup journalFile \cup todo :
       /\ o.dst[1] = HomeDir(o.id[1]) /\ o.dst[2] = NameOf[o.id[1]]
       /\ ~AutoRename => o.dst[3] = 0

\* The data stays whole where it was loaded until all of it is at home; a
\* partial copy at home is the business of a running task.
SourceLast ==
  /\ \A t \in daemon.complete \ trashed :
       /\ HomeDir(t) \in Dirs
       /\ \/ disk[Place(HomeDir(t), t)] = NoData
          \/ \E i \in Moves : i[1] = t /\ job[i].pc = "copy"
       => Whole(t, StartDir[t])
  /\ \A i \in Moves : i[1] \notin trashed =>
       /\ job[i].pc \in {"place", "cancelled"} => disk[Target(i)] = NoData
       /\ job[i].pc = "erase" => disk[Target(i)] # NoData

\* The daemon follows the data, or an entry says that it does not yet; after
\* the move the data is at home, and from the pointer on the daemon too.
PointerInv ==
  /\ trashed = {}
  /\ \A t \in Torrents, d \in Dirs :
       disk[Place(d, t)] # NoData => d \in {StartDir[t], HomeDir(t)}
  /\ \A i \in Moves :
       /\ job[i].pc \in {"pointer", "clear", "restart", "endDone"} => Whole(i[1], job[i].to)
       /\ job[i].pc \in {"clear", "restart", "endDone"} => daemon.dir[i[1]] = job[i].to
  /\ PointerFindsData

----------------------------------------------------------------------------
(* The abstraction. *)

Copies ==
  [t \in Torrents |-> {d \in Dirs : disk[Place(d, t)] = DataOf(t)}]

Custody == INSTANCE DataCustody WITH copies <- Copies, released <- trashed

\* Relocation implements the custody of the data.
KeepsCustody == Custody!Spec
=============================================================================
