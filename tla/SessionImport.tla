---------------------------- MODULE SessionImport ----------------------------
(***************************************************************************)
(* The import of a saved session: the detached job of server/session.rs    *)
(* (services.rs runs the same one in the desktop client) over run_import   *)
(* of session.rs.  It adds the torrents of a manifest stopped, rechecks    *)
(* them one by one, starts those whose check reports nothing, and keeps a  *)
(* journal for a run that is cancelled or killed to be resumed.            *)
(***************************************************************************)
EXTENDS Integers, FiniteSets

CONSTANTS
  Items,       \* torrents, numbered in the order manifests list them
  Manifests,   \* each with its valid entries, and the id the journal knows it by
  Sourced,     \* those whose entry has a magnet link or the torrent, and not only a path of it
  Whole,       \* those whose data a check finds
  MaxImports,  \* bound: imports asked for
  MaxMishaps   \* bound: failing calls and saves, kills, cancels, acts of the user

ASSUME ItemsAssumption ==
  /\ Items \subseteq Nat /\ IsFiniteSet(Items)
  /\ Sourced \subseteq Items /\ Whole \subseteq Items
  /\ \A m \in Manifests : m.items \subseteq Items
  /\ MaxImports \in Nat /\ MaxMishaps \in Nat

VARIABLES
  status,       \* ImportStatus, what the dialog polls
  cancelAsked,  \* the flag the cancel command sets
  importJob,    \* the detached job, and what it was asked for
  importFile,   \* the journal on disk
  imported,     \* the daemon's torrents
  ours,         \* those an import has loaded
  checked,      \* those a check has ended for, and reported nothing, since they were loaded
  spared,       \* those that were there when the job listed the daemon
  erased,       \* those the user erased and nobody has added since
  gone,         \* those erased since the journal that the job goes by was begun
  asked, mishaps

importHistory == <<ours, checked, spared, erased, gone>>
importVars == <<status, cancelAsked, importJob, importFile, imported,
                importHistory, asked, mishaps>>

NoJournal == [id |-> "none", done |-> {}]
NoStatus == [running |-> FALSE, done |-> FALSE, failed |-> FALSE]
NoImport ==
  [phase |-> "idle", id |-> "none", items |-> {}, resume |-> FALSE, done |-> {},
   planned |-> {}, item |-> -1, failed |-> FALSE, cancel |-> FALSE]

Ids == {m.id : m \in Manifests} \cup {"none"}
ImportPhases == {"idle", "list", "item", "load", "recheck", "wait", "start", "save"}

ImportStatuses == [running : BOOLEAN, done : BOOLEAN, failed : BOOLEAN]
ImportJobs ==
  [phase : ImportPhases, id : Ids, items : SUBSET Items, resume : BOOLEAN,
   done : SUBSET Items, planned : SUBSET Items, item : Items \cup {-1},
   failed : BOOLEAN, cancel : BOOLEAN]

\* After its check a torrent is "clean", or "bad", with a message, or "partial",
\* with data missing and no message.
ImportStates == {"absent", "stopped", "checking", "clean", "partial", "bad", "running"}
Journals == [id : Ids, done : SUBSET Items]

ImportTypeOK ==
  /\ status \in ImportStatuses
  /\ cancelAsked \in BOOLEAN
  /\ importJob \in ImportJobs
  /\ importJob.phase \notin {"idle", "list", "item"} => importJob.item \in Sourced \ importJob.planned
  /\ importFile \in Journals
  /\ imported \in [Items -> ImportStates]
  /\ ours \subseteq Items /\ checked \subseteq Items
  /\ spared \subseteq Items /\ erased \subseteq Items /\ gone \subseteq Items
  /\ asked \in 0..MaxImports /\ mishaps \in 0..MaxMishaps

ImportInit ==
  /\ status = NoStatus
  /\ cancelAsked = FALSE
  /\ importJob = NoImport
  /\ importFile = NoJournal
  /\ imported = [i \in Items |-> "absent"]
  /\ ours = {} /\ checked = {} /\ spared = {} /\ erased = {} /\ gone = {}
  /\ asked = 0 /\ mishaps = 0

----------------------------------------------------------------------------
(* The request. *)

Mishap == mishaps < MaxMishaps /\ mishaps' = mishaps + 1

AskImport(m, items, resume) ==
  /\ ~status.running /\ asked < MaxImports
  /\ status' = [NoStatus EXCEPT !.running = TRUE]
  /\ importJob' = [NoImport EXCEPT !.phase = "list", !.id = m.id, !.items = items,
                                   !.resume = resume]
  /\ asked' = asked + 1
  /\ UNCHANGED <<cancelAsked, importFile, imported, importHistory, mishaps>>

\* The flag is set before the text is parsed, and stays when it does not parse.
AskGarbage ==
  /\ ~status.running /\ asked < MaxImports
  /\ status' = [NoStatus EXCEPT !.running = TRUE]
  /\ asked' = asked + 1
  /\ UNCHANGED <<cancelAsked, importJob, importFile, imported, importHistory, mishaps>>

CancelFreeingTheFlag ==
  /\ Mishap
  /\ cancelAsked' = TRUE
  /\ status' = [status EXCEPT !.running = FALSE]
  /\ UNCHANGED <<importJob, importFile, imported, importHistory, asked>>

CancelImport ==
  /\ Mishap
  /\ cancelAsked' = TRUE
  /\ UNCHANGED <<status, importJob, importFile, imported, importHistory, asked>>

----------------------------------------------------------------------------
(* The job. *)

ImportOver(failed) ==
  /\ status' = [running |-> FALSE, done |-> TRUE, failed |-> failed]
  /\ importJob' = [importJob EXCEPT !.phase = "idle"]

Present == {i \in Items : imported[i] # "absent"}

Resumes == importJob.resume /\ importFile.id = importJob.id

PlannedForgettingPresent == importJob.items

Planned == importJob.items \ Present

\* The journal is read and the daemon listed; an earlier cancel is forgotten.
ListPresent ==
  /\ importJob.phase = "list"
  /\ importJob' = [importJob EXCEPT !.phase = "item", !.planned = Planned,
                                    !.done = IF Resumes THEN importFile.done ELSE {}]
  /\ cancelAsked' = FALSE
  /\ spared' = Present
  /\ gone' = IF Resumes THEN erased ELSE {}
  /\ UNCHANGED <<status, importFile, imported, ours, checked, erased, asked, mishaps>>

ListFails ==
  /\ importJob.phase = "list" /\ Mishap
  /\ ImportOver(TRUE)
  /\ UNCHANGED <<cancelAsked, importFile, imported, importHistory, asked>>

First(S) == CHOOSE i \in S : \A j \in S : i <= j

TakeItemMarkingIt ==
  LET i == First(importJob.planned)
      rest == [importJob EXCEPT !.planned = @ \ {i}]
  IN IF i \in importJob.done THEN rest
     ELSE IF i \notin Sourced THEN [rest EXCEPT !.failed = TRUE]
     ELSE [rest EXCEPT !.item = i, !.phase = "load", !.done = @ \cup {i}]

TakeItemUnsourced ==
  LET i == First(importJob.planned)
      rest == [importJob EXCEPT !.planned = @ \ {i}]
  IN IF i \in importJob.done THEN rest ELSE [rest EXCEPT !.item = i, !.phase = "load"]

TakeItem ==
  LET i == First(importJob.planned)
      rest == [importJob EXCEPT !.planned = @ \ {i}]
  IN IF i \in importJob.done THEN rest
     ELSE IF i \notin Sourced THEN [rest EXCEPT !.failed = TRUE]
     ELSE [rest EXCEPT !.item = i, !.phase = "load"]

NextItem ==
  /\ importJob.phase = "item" /\ importJob.planned # {} /\ ~importJob.cancel
  /\ importJob' = TakeItem
  /\ UNCHANGED <<status, cancelAsked, importFile, imported, importHistory, asked, mishaps>>

\* A call is done, or refused, or done and its answer lost: the last two fail
\* the entry, and the job goes on to the next one.
CallDaemon(i, after, then) ==
  \/ /\ imported' = [imported EXCEPT ![i] = after]
     /\ importJob' = [importJob EXCEPT !.phase = then]
     /\ UNCHANGED mishaps
  \/ /\ imported' \in {imported, [imported EXCEPT ![i] = after]}
     /\ importJob' = [importJob EXCEPT !.phase = "item", !.failed = TRUE]
     /\ Mishap

\* A hash the daemon does not have is refused.
RefusedUnknown(i) ==
  /\ i \notin Present
  /\ importJob' = [importJob EXCEPT !.phase = "item", !.failed = TRUE]
  /\ UNCHANGED <<imported, mishaps>>

\* Tags, priority, caps, throttle and provenance follow, with their failures
\* ignored.  A torrent somebody else has added meanwhile stays as it is.
LoadItem ==
  /\ importJob.phase = "load"
  /\ LET i == importJob.item IN
       /\ CallDaemon(i, IF i \in Present THEN imported[i] ELSE "stopped", "recheck")
       /\ ours' = IF imported'[i] # imported[i] THEN ours \cup {i} ELSE ours
       /\ erased' = IF imported'[i] # imported[i] THEN erased \ {i} ELSE erased
  /\ UNCHANGED <<status, cancelAsked, importFile, checked, spared, gone, asked>>

RecheckItem ==
  /\ importJob.phase = "recheck"
  /\ LET i == importJob.item IN
       RefusedUnknown(i) \/ (i \in Present /\ CallDaemon(i, "checking", "wait"))
  /\ UNCHANGED <<status, cancelAsked, importFile, importHistory, asked>>

\* Data reported missing, a torrent that vanished and a check that takes longer
\* than the job is willing to wait end alike: reported, and done with.
GiveUp ==
  /\ importJob' = [importJob EXCEPT !.phase = "save", !.failed = TRUE, !.done = @ \cup {importJob.item}]

WaitNotLooking ==
  /\ importJob.phase = "wait"
  /\ IF imported[importJob.item] \in {"absent", "bad"} THEN GiveUp
     ELSE importJob' = [importJob EXCEPT !.phase = "start"]
  /\ UNCHANGED <<status, cancelAsked, importFile, imported, importHistory, asked, mishaps>>

WaitForEver ==
  /\ importJob.phase = "wait"
  /\ \/ imported[importJob.item] \in {"absent", "bad"} /\ GiveUp
     \/ /\ imported[importJob.item] \notin {"absent", "bad", "checking"}
        /\ importJob' = [importJob EXCEPT !.phase = "start"]
  /\ UNCHANGED <<status, cancelAsked, importFile, imported, importHistory, asked, mishaps>>

\* A torrent that is not being checked and has no message passes, whatever data
\* it has.  If the daemon cannot be listed for as long, the job gives up on any.
WaitForCheck ==
  /\ importJob.phase = "wait"
  /\ \/ imported[importJob.item] \in {"absent", "bad", "checking"} /\ GiveUp /\ UNCHANGED mishaps
     \/ /\ imported[importJob.item] \in {"stopped", "clean", "partial", "running"}
        /\ importJob' = [importJob EXCEPT !.phase = "start"] /\ UNCHANGED mishaps
     \/ GiveUp /\ Mishap
  /\ UNCHANGED <<status, cancelAsked, importFile, imported, importHistory, asked>>

StartItem ==
  /\ importJob.phase = "start"
  /\ LET i == importJob.item IN
       \/ RefusedUnknown(i)
       \/ /\ i \in Present
          /\ \/ /\ imported' = [imported EXCEPT ![i] = "running"]
                /\ importJob' = [importJob EXCEPT !.phase = "save", !.done = @ \cup {i}]
                /\ UNCHANGED mishaps
             \/ /\ imported' \in {imported, [imported EXCEPT ![i] = "running"]}
                /\ importJob' = [importJob EXCEPT !.phase = "item", !.failed = TRUE]
                /\ Mishap
  /\ UNCHANGED <<status, cancelAsked, importFile, importHistory, asked>>

\* The journal is overwritten in place: a failing write may leave it garbled,
\* which reads as none.
SaveImport ==
  /\ importJob.phase = "save"
  /\ \/ importFile' = [id |-> importJob.id, done |-> importJob.done] /\ UNCHANGED mishaps
     \/ importFile' \in {importFile, NoJournal} /\ Mishap
  /\ importJob' = [importJob EXCEPT !.phase = "item"]
  /\ UNCHANGED <<status, cancelAsked, imported, importHistory, asked>>

\* Only a run with nothing left to do drops the journal.
FinishImport ==
  /\ importJob.phase = "item" /\ (importJob.planned = {} \/ importJob.cancel)
  /\ ImportOver(importJob.failed)
  /\ importFile' = IF importJob.failed \/ importJob.cancel THEN importFile ELSE NoJournal
  /\ UNCHANGED <<cancelAsked, imported, importHistory, asked, mishaps>>

JobStep ==
  \/ ListPresent \/ ListFails \/ NextItem \/ LoadItem \/ RecheckItem
  \/ WaitForCheck \/ StartItem \/ SaveImport \/ FinishImport

\* A second task carries the flag over to the job, every half second.
HearCancel ==
  /\ importJob.phase \notin {"idle", "list"} /\ cancelAsked
  /\ importJob' = [importJob EXCEPT !.cancel = TRUE]
  /\ UNCHANGED <<status, cancelAsked, importFile, imported, importHistory, asked, mishaps>>

----------------------------------------------------------------------------
(* Meanwhile. *)

DaemonChecks(i) ==
  /\ imported[i] = "checking"
  /\ \E found \in IF i \in Whole THEN {"clean"} ELSE {"partial", "bad"} :
       /\ imported' = [imported EXCEPT ![i] = found]
       /\ checked' = IF found = "bad" THEN checked ELSE checked \cup {i}
  /\ UNCHANGED <<status, cancelAsked, importJob, importFile, ours, spared, erased, gone, asked, mishaps>>

EraseImported(i) ==
  /\ Mishap /\ i \in Present
  /\ imported' = [imported EXCEPT ![i] = "absent"]
  /\ ours' = ours \ {i} /\ checked' = checked \ {i} /\ spared' = spared \ {i}
  /\ erased' = erased \cup {i} /\ gone' = gone \cup {i}
  /\ UNCHANGED <<status, cancelAsked, importJob, importFile, asked>>

AddByHand(i) ==
  /\ Mishap /\ i \notin Present
  /\ imported' = [imported EXCEPT ![i] = "stopped"]
  /\ erased' = erased \ {i}
  /\ UNCHANGED <<status, cancelAsked, importJob, importFile, ours, checked, spared, gone, asked>>

\* The process is killed, perhaps in the middle of a save, and started again.
KillImport ==
  /\ Mishap
  /\ status' = NoStatus /\ cancelAsked' = FALSE
  /\ importJob' = NoImport
  /\ importFile' \in {importFile} \cup
       IF importJob.phase = "save" THEN {NoJournal, [id |-> importJob.id, done |-> importJob.done]} ELSE {}
  /\ UNCHANGED <<imported, importHistory, asked>>

ImportNext ==
  \/ \E m \in Manifests, resume \in BOOLEAN :
       \E items \in SUBSET m.items : AskImport(m, items, resume)
  \/ AskGarbage \/ CancelImport
  \/ JobStep \/ HearCancel
  \/ \E i \in Items : DaemonChecks(i) \/ EraseImported(i) \/ AddByHand(i)
  \/ KillImport

ImportSpec == ImportInit /\ [][ImportNext]_importVars
ImportFairness == WF_importVars(JobStep)

----------------------------------------------------------------------------
(* Properties. *)

\* The status says an import runs for as long as a job does, so that a second
\* one, which would share its journal and its cancel flag, is refused.
FlagFollowsJob == importJob.phase # "idle" => status.running

\* After a run, resumed or not, that reports no failure and was not cancelled,
\* every valid entry asked for is in the daemon, but those the user erased: no kill,
\* failing call or torn journal makes an entry pass for done that was not added.
CleanMeansComplete ==
  status.done /\ ~status.failed /\ ~importJob.cancel =>
    importJob.items \subseteq Present \cup gone

\* The torrents that were in the daemon when the job listed it are left alone
\* until the user erases them, whatever the journal says of them.
SparedStandStill ==
  [][JobStep => \A i \in spared' : imported'[i] = imported[i]]_importVars

\* What an import has loaded it starts only once a check of it has ended and has
\* reported nothing, never on the strength of a check under way, a refused one or
\* a wait that ran out.  That the data is there it does not say: what is missing
\* without a message is started (wait_for_check asks `complete` of no such row).
StartsOnlyChecked ==
  [][\A i \in ours : JobStep /\ imported'[i] = "running" /\ imported[i] # "running"
       => i \in checked]_importVars

\* An import ends, though a check may never.
ImportEnds == importJob.phase # "idle" ~> importJob.phase = "idle"

\* "every finished hash lands in the journal before moving on, so a kill
\* mid-import resumes cleanly" (session.rs, run_import): a run that reports no
\* failure leaves no torrent behind that was added and never checked.
ResumesCleanly ==
  status.done /\ ~status.failed /\ ~importJob.cancel =>
    \A i \in importJob.items \cap ours : imported[i] # "stopped"
=============================================================================
