---------------------------- MODULE ImportProofs ----------------------------
(***************************************************************************)
(* Proofs about the import job, for any manifests, failures and kills.     *)
(* What makes a clean run complete is an account of every torrent asked    *)
(* for: it is in the daemon, or was erased by the user, or is still        *)
(* planned, or is the item in hand; and of every entry of the journal, in  *)
(* memory and on disk: it was added, or erased since.                      *)
(***************************************************************************)
EXTENDS SessionImport, WellFoundedInduction, TLAPS

\* A set of items that is not empty has a first one.
LEMMA FirstIsIn ==
  ASSUME NEW S \in SUBSET Items, S # {}
  PROVE First(S) \in S
<1> USE ItemsAssumption
<1> DEFINE less == {ss \in Nat \X Nat : ss[1] < ss[2]}
<1>1. PICK i \in S : \A j \in S : ~(<<j, i>> \in less)
  <2>1. S \subseteq Nat
    OBVIOUS
  <2>2. IsWellFoundedOn(less, Nat)
    BY NatLessThanWellFounded DEF OpToRel
  <2> HIDE DEF less
  <2> QED BY <2>1, <2>2, WFMin
<1>2. \A j \in S : i <= j
  <2> SUFFICES ASSUME NEW j \in S, ~(i <= j) PROVE FALSE
    OBVIOUS
  <2>1. j < i /\ i \in Nat /\ j \in Nat
    OBVIOUS
  <2>2. <<j, i>> \in less
    BY <2>1
  <2> QED BY <1>1, <2>2
<1> QED BY <1>1, <1>2 DEF First

(* Type correctness. *)

LEMMA ImportTyped == ImportInit => ImportTypeOK
<1> SUFFICES ASSUME ImportInit PROVE ImportTypeOK
  OBVIOUS
<1>1. importJob \in ImportJobs
  BY DEF ImportInit, NoImport, ImportJobs, Ids, ImportPhases
<1>2. status \in ImportStatuses /\ importFile \in Journals
  BY DEF ImportInit, NoStatus, NoJournal, ImportStatuses, Journals, Ids
<1>3. importJob.phase = "idle"
  BY DEF ImportInit, NoImport
<1>4. asked \in 0..MaxImports /\ mishaps \in 0..MaxMishaps
  BY ItemsAssumption DEF ImportInit
<1> QED BY <1>1, <1>2, <1>3, <1>4 DEF ImportInit, ImportTypeOK, ImportStates

\* What a call leaves behind, whether it is done, refused, or its answer lost.
TypedCall ==
  /\ imported' \in [Items -> ImportStates]
  /\ importJob' \in ImportJobs
  /\ importJob'.item = importJob.item /\ importJob'.planned = importJob.planned
  /\ mishaps' \in 0..MaxMishaps

LEMMA Called ==
  ASSUME ImportTypeOK, NEW i \in Items, NEW after \in ImportStates, NEW then \in ImportPhases,
         CallDaemon(i, after, then)
  PROVE TypedCall
<1>1. imported' \in [Items -> ImportStates]
  BY DEF ImportTypeOK, CallDaemon
<1>2. /\ importJob' \in ImportJobs
      /\ importJob'.item = importJob.item /\ importJob'.planned = importJob.planned
  <2>1. \/ importJob' = [importJob EXCEPT !.phase = then]
        \/ importJob' = [importJob EXCEPT !.phase = "item", !.failed = TRUE]
    BY DEF CallDaemon
  <2>2. importJob \in ImportJobs /\ "item" \in ImportPhases
    BY DEF ImportTypeOK, ImportPhases
  <2> QED BY <2>1, <2>2 DEF ImportJobs
<1>3. mishaps' \in 0..MaxMishaps
  BY ItemsAssumption DEF ImportTypeOK, CallDaemon, Mishap
<1> QED BY <1>1, <1>2, <1>3 DEF TypedCall

LEMMA Bounds == MaxImports \in Nat /\ MaxMishaps \in Nat /\ Sourced \subseteq Items
BY ItemsAssumption

LEMMA ImportTypeKept == ImportTypeOK /\ [ImportNext]_importVars => ImportTypeOK'
<1> SUFFICES ASSUME ImportTypeOK, [ImportNext]_importVars PROVE ImportTypeOK'
  OBVIOUS
<1> USE Bounds DEF ImportTypeOK, importHistory
<1>1. ASSUME NEW m \in Manifests, NEW resume \in BOOLEAN, NEW items \in SUBSET m.items,
             AskImport(m, items, resume)
      PROVE ImportTypeOK'
  <2>1. status' = [running |-> TRUE, done |-> FALSE, failed |-> FALSE]
    BY <1>1 DEF AskImport, NoStatus
  <2>2. importJob' = [phase |-> "list", id |-> m.id, items |-> items, resume |-> resume,
                      done |-> {}, planned |-> {}, item |-> -1, failed |-> FALSE, cancel |-> FALSE]
    BY <1>1 DEF AskImport, NoImport
  <2>3. m.id \in Ids /\ items \subseteq Items
    BY ItemsAssumption DEF Ids
  <2>4. importJob' \in ImportJobs
    BY <2>2, <2>3 DEF ImportJobs, ImportPhases
  <2>5. asked' \in 0..MaxImports
    BY <1>1 DEF AskImport
  <2>6. status' \in ImportStatuses
    BY <2>1 DEF ImportStatuses
  <2> QED BY <1>1, <2>2, <2>4, <2>5, <2>6 DEF AskImport
<1>2. CASE AskGarbage
  <2>1. status' = [running |-> TRUE, done |-> FALSE, failed |-> FALSE]
    BY <1>2 DEF AskGarbage, NoStatus
  <2>2. asked' \in 0..MaxImports
    BY <1>2 DEF AskGarbage
  <2>3. status' \in ImportStatuses
    BY <2>1 DEF ImportStatuses
  <2> QED BY <1>2, <2>2, <2>3 DEF AskGarbage
<1>3. CASE CancelImport
  BY <1>3 DEF CancelImport, Mishap
<1>4. CASE ListPresent
  BY <1>4 DEF ListPresent, Planned, Present, ImportJobs, ImportPhases, ImportStatuses, ImportStates, Journals
<1>5. CASE ListFails
  BY <1>5 DEF ListFails, ImportOver, Mishap, ImportJobs, ImportPhases, ImportStatuses
<1>6. CASE NextItem
  BY <1>6, FirstIsIn DEF NextItem, TakeItem, ImportJobs, ImportPhases
<1>7. CASE LoadItem
  <2>1. importJob.item \in Items
    BY <1>7 DEF LoadItem
  <2>2. PICK after \in {"stopped", imported[importJob.item]} :
          CallDaemon(importJob.item, after, "recheck")
    BY <1>7 DEF LoadItem
  <2>3. TypedCall
    <3>1. after \in ImportStates
      BY <2>1, <2>2 DEF ImportStates
    <3>2. "recheck" \in ImportPhases
      BY DEF ImportPhases
    <3> HIDE DEF ImportTypeOK
    <3> QED BY <2>1, <2>2, <3>1, <3>2, Called
  <2> QED BY <1>7, <2>1, <2>3 DEF LoadItem, TypedCall
<1>8. CASE RecheckItem
  <2>1. importJob.item \in Items
    BY <1>8 DEF RecheckItem
  <2>2. CASE CallDaemon(importJob.item, "checking", "wait")
    <3>1. TypedCall
      BY <1>8, <2>1, <2>2, Called DEF RecheckItem, ImportPhases, ImportStates
    <3> QED BY <1>8, <3>1 DEF RecheckItem, TypedCall
  <2>3. CASE RefusedUnknown(importJob.item)
    BY <1>8, <2>3 DEF RecheckItem, RefusedUnknown, ImportJobs, ImportPhases
  <2> QED BY <1>8, <2>2, <2>3 DEF RecheckItem
<1>9. CASE WaitForCheck
  <2>1. importJob.item \in Sourced \ importJob.planned
    BY <1>9 DEF WaitForCheck
  <2>2. mishaps' \in 0..MaxMishaps
    BY <1>9 DEF WaitForCheck, Mishap
  <2>3. CASE GiveUp
    <3>1. importJob.done \cup {importJob.item} \in SUBSET Items
      BY <2>1 DEF ImportJobs
    <3>2. importJob' = [importJob EXCEPT !.phase = "save", !.failed = TRUE,
                                         !.done = importJob.done \cup {importJob.item}]
      BY <2>3 DEF GiveUp
    <3>3. importJob' \in ImportJobs /\ importJob'.item = importJob.item
          /\ importJob'.planned = importJob.planned
      BY <3>1, <3>2 DEF ImportJobs, ImportPhases
    <3> QED BY <1>9, <2>1, <2>2, <3>3 DEF WaitForCheck
  <2>4. CASE importJob' = [importJob EXCEPT !.phase = "start"]
    <3>1. importJob' \in ImportJobs /\ importJob'.item = importJob.item
          /\ importJob'.planned = importJob.planned
      BY <2>4 DEF ImportJobs, ImportPhases
    <3> QED BY <1>9, <2>1, <2>2, <3>1 DEF WaitForCheck
  <2> QED BY <1>9, <2>3, <2>4 DEF WaitForCheck
<1>10. CASE StartItem
  <2>1. importJob.item \in Sourced \ importJob.planned
    BY <1>10 DEF StartItem
  <2>2. CASE importJob' = [importJob EXCEPT !.phase = "save",
                                            !.done = importJob.done \cup {importJob.item}]
    <3>1. importJob.done \cup {importJob.item} \in SUBSET Items
      BY <2>1 DEF ImportJobs
    <3>2. importJob' \in ImportJobs /\ importJob'.item = importJob.item
          /\ importJob'.planned = importJob.planned
      BY <2>2, <3>1 DEF ImportJobs, ImportPhases
    <3>3. imported' \in [Items -> ImportStates] /\ mishaps' \in 0..MaxMishaps
      BY <1>10 DEF StartItem, RefusedUnknown, Mishap, ImportStates
    <3> QED BY <1>10, <2>1, <3>2, <3>3 DEF StartItem
  <2>3. CASE importJob' = [importJob EXCEPT !.phase = "item", !.failed = TRUE]
    <3>1. imported' \in [Items -> ImportStates] /\ mishaps' \in 0..MaxMishaps
      BY <1>10 DEF StartItem, RefusedUnknown, Mishap, ImportStates
    <3>2. importJob' \in ImportJobs /\ importJob'.item = importJob.item
          /\ importJob'.planned = importJob.planned
      BY <2>3 DEF ImportJobs, ImportPhases
    <3> QED BY <1>10, <2>1, <3>1, <3>2 DEF StartItem
  <2> QED BY <1>10, <2>2, <2>3 DEF StartItem, RefusedUnknown
<1>11. CASE SaveImport
  BY <1>11 DEF SaveImport, NoJournal, Ids, Mishap, ImportJobs, ImportPhases, Journals
<1>12. CASE FinishImport
  BY <1>12 DEF FinishImport, ImportOver, NoJournal, Ids, ImportJobs, ImportPhases, ImportStatuses, Journals
<1>13. CASE HearCancel
  BY <1>13 DEF HearCancel, ImportJobs
<1>14. ASSUME NEW i \in Items, DaemonChecks(i) \/ EraseImported(i) \/ AddByHand(i)
       PROVE ImportTypeOK'
  <2>1. PICK state \in ImportStates : imported' = [imported EXCEPT ![i] = state]
    BY <1>14 DEF DaemonChecks, EraseImported, AddByHand, ImportStates
  <2>2. imported' \in [Items -> ImportStates]
    BY <2>1 DEF ImportStates
  <2>3. importJob' = importJob /\ status' = status /\ importFile' = importFile
        /\ cancelAsked' = cancelAsked /\ asked' = asked
    BY <1>14 DEF DaemonChecks, EraseImported, AddByHand
  <2>4. mishaps' \in 0..MaxMishaps
    BY <1>14 DEF DaemonChecks, EraseImported, AddByHand, Mishap
  <2>5. ours' \subseteq Items /\ checked' \subseteq Items /\ spared' \subseteq Items
        /\ erased' \subseteq Items /\ gone' \subseteq Items
    BY <1>14 DEF DaemonChecks, EraseImported, AddByHand
  <2> QED BY <2>2, <2>3, <2>4, <2>5
<1>15. CASE KillImport
  <2>1. importJob' \in ImportJobs /\ importJob'.phase = "idle"
    BY <1>15 DEF KillImport, NoImport, Ids, ImportJobs, ImportPhases
  <2>2. status' \in ImportStatuses
    BY <1>15 DEF KillImport, NoStatus, ImportStatuses
  <2>3. importFile' \in Journals
    BY <1>15 DEF KillImport, NoJournal, Ids, ImportJobs, Journals
  <2>4. mishaps' \in 0..MaxMishaps
    BY <1>15 DEF KillImport, Mishap
  <2>5. cancelAsked' \in BOOLEAN
    BY <1>15, Zenon DEF KillImport
  <2>6. UNCHANGED <<imported, importHistory, asked>>
    BY <1>15 DEF KillImport
  <2> QED BY <2>1, <2>2, <2>3, <2>4, <2>5, <2>6
<1>16. CASE UNCHANGED importVars
  BY <1>16 DEF importVars, importHistory
<1> QED BY <1>1, <1>2, <1>3, <1>4, <1>5, <1>6, <1>7, <1>8, <1>9, <1>10, <1>11, <1>12,
           <1>13, <1>14, <1>15, <1>16 DEF ImportNext, JobStep

\* The job is of its type, and the entry in hand can be added and is no longer
\* planned, whatever fails and whenever it is killed (session.rs run_import).
THEOREM ImportTypeCorrect == ImportSpec => []ImportTypeOK
BY ImportTyped, ImportTypeKept, PTL DEF ImportSpec

(* An import in progress says so. *)

JobShown ==
  /\ FlagFollowsJob
  /\ importJob.phase # "idle" => ~status.done

LEMMA JobStaysShown ==
  ASSUME ImportTypeOK, JobShown, [ImportNext]_importVars
  PROVE  JobShown'
<1> USE DEF JobShown, FlagFollowsJob, ImportTypeOK, ImportJobs, ImportStatuses
<1>1. ASSUME NEW m \in Manifests, NEW resume \in BOOLEAN, NEW items \in SUBSET m.items,
             AskImport(m, items, resume)
      PROVE JobShown'
  BY <1>1 DEF AskImport, NoStatus, NoImport
<1>2. CASE AskGarbage
  BY <1>2 DEF AskGarbage, NoStatus
<1>3. CASE CancelImport
  BY <1>3 DEF CancelImport
<1>4. CASE ListPresent
  BY <1>4 DEF ListPresent, Planned
<1>5. CASE ListFails
  BY <1>5 DEF ListFails, ImportOver
<1>6. CASE NextItem
  BY <1>6, FirstIsIn DEF NextItem, TakeItem
<1>7. CASE LoadItem
  BY <1>7 DEF LoadItem, CallDaemon
<1>8. CASE RecheckItem
  BY <1>8 DEF RecheckItem, RefusedUnknown, CallDaemon
<1>9. CASE WaitForCheck
  BY <1>9 DEF WaitForCheck, GiveUp
<1>10. CASE StartItem
  BY <1>10 DEF StartItem, RefusedUnknown
<1>11. CASE SaveImport
  BY <1>11 DEF SaveImport, NoJournal
<1>12. CASE FinishImport
  BY <1>12 DEF FinishImport, ImportOver, NoJournal
<1>13. CASE HearCancel
  BY <1>13 DEF HearCancel
<1>14. ASSUME NEW i \in Items, DaemonChecks(i)
       PROVE JobShown'
  BY <1>14 DEF DaemonChecks
<1>15. ASSUME NEW i \in Items, EraseImported(i)
       PROVE JobShown'
  BY <1>15 DEF EraseImported
<1>16. ASSUME NEW i \in Items, AddByHand(i)
       PROVE JobShown'
  BY <1>16 DEF AddByHand
<1>17. CASE KillImport
  BY <1>17 DEF KillImport, NoStatus, NoImport, NoJournal
<1>18. CASE UNCHANGED importVars
  BY <1>18 DEF importVars
<1> QED BY <1>1, <1>2, <1>3, <1>4, <1>5, <1>6, <1>7, <1>8, <1>9, <1>10, <1>11, <1>12,
           <1>13, <1>14, <1>15, <1>16, <1>17, <1>18 DEF ImportNext, JobStep

\* The dialog sees an import run for as long as it does, and a second one is
\* refused (session.rs start_import, ImportStatus).
THEOREM FlagIsTrue == ImportSpec => []FlagFollowsJob
<1>1. ImportInit => JobShown
  BY DEF ImportInit, JobShown, FlagFollowsJob, NoImport
<1>2. JobShown => FlagFollowsJob
  BY DEF JobShown
<1>3. ImportTypeOK /\ JobShown /\ [ImportNext]_importVars => JobShown'
  BY JobStaysShown
<1> QED BY <1>1, <1>2, <1>3, ImportTypeCorrect, PTL DEF ImportSpec

(* What was there. *)

Hand == {"load", "recheck", "wait", "start", "save"}

SparedInv ==
  /\ spared \cap importJob.planned = {}
  /\ importJob.phase \in Hand => importJob.item \notin spared

LEMMA SparedStays ==
  ASSUME ImportTypeOK, SparedInv, [ImportNext]_importVars
  PROVE  SparedInv'
<1> USE DEF SparedInv, Hand, ImportTypeOK, ImportJobs, importHistory
<1>1. ASSUME NEW m \in Manifests, NEW resume \in BOOLEAN, NEW items \in SUBSET m.items,
             AskImport(m, items, resume)
      PROVE SparedInv'
  BY <1>1 DEF AskImport, NoStatus, NoImport
<1>2. CASE AskGarbage
  BY <1>2 DEF AskGarbage, NoStatus
<1>3. CASE CancelImport
  BY <1>3 DEF CancelImport
<1>4. CASE ListPresent
  BY <1>4 DEF ListPresent, Planned
<1>5. CASE ListFails
  BY <1>5 DEF ListFails, ImportOver
<1>6. CASE NextItem
  BY <1>6, FirstIsIn DEF NextItem, TakeItem
<1>7. CASE LoadItem
  BY <1>7 DEF LoadItem, CallDaemon
<1>8. CASE RecheckItem
  BY <1>8 DEF RecheckItem, RefusedUnknown, CallDaemon
<1>9. CASE WaitForCheck
  BY <1>9 DEF WaitForCheck, GiveUp
<1>10. CASE StartItem
  BY <1>10 DEF StartItem, RefusedUnknown
<1>11. CASE SaveImport
  BY <1>11 DEF SaveImport, NoJournal
<1>12. CASE FinishImport
  BY <1>12 DEF FinishImport, ImportOver, NoJournal
<1>13. CASE HearCancel
  BY <1>13 DEF HearCancel
<1>14. ASSUME NEW i \in Items, DaemonChecks(i)
       PROVE SparedInv'
  BY <1>14 DEF DaemonChecks
<1>15. ASSUME NEW i \in Items, EraseImported(i)
       PROVE SparedInv'
  BY <1>15 DEF EraseImported
<1>16. ASSUME NEW i \in Items, AddByHand(i)
       PROVE SparedInv'
  BY <1>16 DEF AddByHand
<1>17. CASE KillImport
  BY <1>17 DEF KillImport, NoStatus, NoImport, NoJournal
<1>18. CASE UNCHANGED importVars
  BY <1>18 DEF importVars
<1> QED BY <1>1, <1>2, <1>3, <1>4, <1>5, <1>6, <1>7, <1>8, <1>9, <1>10, <1>11, <1>12,
           <1>13, <1>14, <1>15, <1>16, <1>17, <1>18 DEF ImportNext, JobStep

LEMMA SparedAreLeft ==
  ASSUME ImportTypeOK, SparedInv, [ImportNext]_importVars, JobStep
  PROVE  \A i \in spared' : imported'[i] = imported[i]
<1> USE DEF SparedInv, Hand, ImportTypeOK, importHistory
<1>1. CASE ListPresent \/ ListFails \/ NextItem \/ WaitForCheck \/ SaveImport \/ FinishImport
  BY <1>1 DEF ListPresent, ListFails, NextItem, WaitForCheck, SaveImport, FinishImport
<1>2. CASE LoadItem
  BY <1>2 DEF LoadItem, CallDaemon
<1>3. CASE RecheckItem
  BY <1>3 DEF RecheckItem, RefusedUnknown, CallDaemon
<1>4. CASE StartItem
  BY <1>4 DEF StartItem, RefusedUnknown
<1> QED BY <1>1, <1>2, <1>3, <1>4 DEF JobStep

\* What was in the daemon when the job listed it, the job neither stops, nor
\* checks, nor starts (session.rs plan_restore, SkipHave).
THEOREM SparedAreLeftAlone == ImportSpec => SparedStandStill
<1>1. ImportInit => SparedInv
  BY DEF ImportInit, SparedInv, Hand, NoImport
<1>2. ImportTypeOK /\ SparedInv /\ [ImportNext]_importVars => SparedInv'
  BY SparedStays
<1>3. ImportTypeOK /\ SparedInv /\ [ImportNext]_importVars =>
        [JobStep => \A i \in spared' : imported'[i] = imported[i]]_importVars
  BY SparedAreLeft
<1> QED BY <1>1, <1>2, <1>3, ImportTypeCorrect, PTL DEF ImportSpec, SparedStandStill

(* What was started. *)

CheckedInv ==
  /\ \A i \in ours : imported[i] # "absent"
  /\ \A i \in ours : imported[i] \in {"clean", "partial"} => i \in checked
  /\ importJob.phase = "wait" /\ importJob.item \in ours =>
       imported[importJob.item] \in {"checking", "clean", "partial", "bad"}
  /\ importJob.phase = "start" /\ importJob.item \in ours => importJob.item \in checked

LEMMA CheckedStays ==
  ASSUME ImportTypeOK, CheckedInv, [ImportNext]_importVars
  PROVE  CheckedInv'
<1> USE DEF CheckedInv, ImportTypeOK, ImportJobs, importHistory
<1>1. ASSUME NEW m \in Manifests, NEW resume \in BOOLEAN, NEW items \in SUBSET m.items,
             AskImport(m, items, resume)
      PROVE CheckedInv'
  BY <1>1 DEF AskImport, NoStatus, NoImport
<1>2. CASE AskGarbage
  BY <1>2 DEF AskGarbage, NoStatus
<1>3. CASE CancelImport
  BY <1>3 DEF CancelImport
<1>4. CASE ListPresent
  BY <1>4 DEF ListPresent, Planned
<1>5. CASE ListFails
  BY <1>5 DEF ListFails, ImportOver
<1>6. CASE NextItem
  BY <1>6, FirstIsIn DEF NextItem, TakeItem
<1>7. CASE LoadItem
  <2>1. importJob.item \in Items /\ importJob.phase = "load"
    BY <1>7, Bounds DEF LoadItem
  <2>2. importJob'.phase \in {"recheck", "item"} /\ UNCHANGED checked
    BY <1>7, <2>1 DEF LoadItem, CallDaemon
  <2>3. CASE imported' = imported
    BY <1>7, <2>2, <2>3 DEF LoadItem
  <2>4. CASE imported' # imported
    <3>1. importJob.item \notin Present /\ imported' = [imported EXCEPT ![importJob.item] = "stopped"]
      BY <1>7, <2>1, <2>4 DEF LoadItem, CallDaemon
    <3>2. ours' = ours \cup {importJob.item}
      BY <1>7, <2>1, <3>1 DEF LoadItem, Present
    <3> QED BY <2>1, <2>2, <3>1, <3>2
  <2> QED BY <2>3, <2>4
<1>8. CASE RecheckItem
  BY <1>8 DEF RecheckItem, RefusedUnknown, CallDaemon
<1>9. CASE WaitForCheck
  BY <1>9 DEF WaitForCheck, GiveUp
<1>10. CASE StartItem
  BY <1>10 DEF StartItem, RefusedUnknown
<1>11. CASE SaveImport
  BY <1>11 DEF SaveImport, NoJournal
<1>12. CASE FinishImport
  BY <1>12 DEF FinishImport, ImportOver, NoJournal
<1>13. CASE HearCancel
  BY <1>13 DEF HearCancel
<1>14. ASSUME NEW i \in Items, DaemonChecks(i)
       PROVE CheckedInv'
  BY <1>14 DEF DaemonChecks
<1>15. ASSUME NEW i \in Items, EraseImported(i)
       PROVE CheckedInv'
  BY <1>15 DEF EraseImported
<1>16. ASSUME NEW i \in Items, AddByHand(i)
       PROVE CheckedInv'
  BY <1>16 DEF AddByHand, Present
<1>17. CASE KillImport
  BY <1>17 DEF KillImport, NoStatus, NoImport, NoJournal
<1>18. CASE UNCHANGED importVars
  BY <1>18 DEF importVars
<1> QED BY <1>1, <1>2, <1>3, <1>4, <1>5, <1>6, <1>7, <1>8, <1>9, <1>10, <1>11, <1>12,
           <1>13, <1>14, <1>15, <1>16, <1>17, <1>18 DEF ImportNext, JobStep

LEMMA StartedWereChecked ==
  ASSUME ImportTypeOK, CheckedInv, [ImportNext]_importVars
  PROVE  \A i \in ours : JobStep /\ imported'[i] = "running" /\ imported[i] # "running"
           => i \in checked
<1> SUFFICES ASSUME NEW i \in ours, JobStep, imported'[i] = "running", imported[i] # "running"
             PROVE  i \in checked
  OBVIOUS
<1> USE DEF CheckedInv, ImportTypeOK
<1>1. CASE ListPresent \/ ListFails \/ NextItem \/ WaitForCheck \/ SaveImport \/ FinishImport
  BY <1>1 DEF ListPresent, ListFails, NextItem, WaitForCheck, SaveImport, FinishImport
<1>2. CASE LoadItem
  BY <1>2 DEF LoadItem, CallDaemon
<1>3. CASE RecheckItem
  BY <1>3 DEF RecheckItem, RefusedUnknown, CallDaemon
<1>4. CASE StartItem
  BY <1>4 DEF StartItem, RefusedUnknown
<1> QED BY <1>1, <1>2, <1>3, <1>4 DEF JobStep

\* The job starts a torrent it has loaded only after a check of it ended and
\* reported nothing, whatever fails, and however long the check takes (session.rs
\* run_import, wait_for_check); that all its data was there is not claimed.
THEOREM StartedAreChecked == ImportSpec => StartsOnlyChecked
<1>1. ImportInit => CheckedInv
  BY DEF ImportInit, CheckedInv, NoImport
<1>2. ImportTypeOK /\ CheckedInv /\ [ImportNext]_importVars => CheckedInv'
  BY CheckedStays
<1>3. ImportTypeOK /\ CheckedInv /\ [ImportNext]_importVars =>
        [\A i \in ours : JobStep /\ imported'[i] = "running" /\ imported[i] # "running"
           => i \in checked]_importVars
  BY StartedWereChecked
<1> QED BY <1>1, <1>2, <1>3, ImportTypeCorrect, PTL DEF ImportSpec, StartsOnlyChecked

(* The account of what was asked for. *)

Had == Present \cup gone

AccountInv ==
  /\ importJob.phase # "idle" => ~status.done
  /\ importFile.done \subseteq Present \cup erased
  /\ gone \subseteq Present \cup erased
  /\ importJob.phase \notin {"idle", "list"} => importJob.done \subseteq Had
  /\ importJob.phase \in {"recheck", "wait", "start", "save"} => importJob.item \in Had
  /\ importJob.phase \notin {"idle", "list"} /\ ~importJob.failed =>
       importJob.items \subseteq Had \cup importJob.planned \cup
         (IF importJob.phase = "item" THEN {} ELSE {importJob.item})
  /\ CleanMeansComplete

LEMMA AccountKept ==
  ASSUME ImportTypeOK, AccountInv, [ImportNext]_importVars
  PROVE  AccountInv'
<1> USE DEF AccountInv, Had, Present, CleanMeansComplete, ImportTypeOK, ImportJobs, ImportStatuses, Journals,
        importHistory
<1>1. ASSUME NEW m \in Manifests, NEW resume \in BOOLEAN, NEW items \in SUBSET m.items,
             AskImport(m, items, resume)
      PROVE AccountInv'
  BY <1>1 DEF AskImport, NoStatus, NoImport
<1>2. CASE AskGarbage
  BY <1>2 DEF AskGarbage, NoStatus
<1>3. CASE CancelImport
  BY <1>3 DEF CancelImport
<1>4. CASE ListPresent
  BY <1>4 DEF ListPresent, Planned, Resumes
<1>5. CASE ListFails
  BY <1>5 DEF ListFails, ImportOver
<1>6. CASE NextItem
  BY <1>6, FirstIsIn DEF NextItem, TakeItem
<1>7. CASE LoadItem
  <2>1. importJob.item \in Items /\ importJob.phase = "load"
    BY <1>7, Bounds DEF LoadItem
  <2>2. UNCHANGED <<status, importFile, gone>>
    BY <1>7 DEF LoadItem
  <2>3. \/ importJob' = [importJob EXCEPT !.phase = "recheck"]
        \/ importJob' = [importJob EXCEPT !.phase = "item", !.failed = TRUE]
    BY <1>7 DEF LoadItem, CallDaemon
  <2>4. importJob' = [importJob EXCEPT !.phase = "recheck"] => importJob.item \in Present'
    <3>1. SUFFICES ASSUME importJob' = [importJob EXCEPT !.phase = "recheck"]
                   PROVE  importJob.item \in Present'
      OBVIOUS
    <3>2. importJob'.phase = "recheck"
      BY <3>1
    <3>3. imported' = [imported EXCEPT ![importJob.item] =
                         IF importJob.item \in Present THEN imported[importJob.item] ELSE "stopped"]
      BY <1>7, <3>2 DEF LoadItem, CallDaemon
    <3> QED BY <2>1, <3>3
  <2>5. CASE imported' = imported
    <3>1. erased' = erased /\ Present' = Present
      BY <1>7, <2>5 DEF LoadItem
    <3>2. Had' = Had
      BY <2>2, <3>1
    <3> HIDE DEF Present, Had
    <3>3. CASE importJob' = [importJob EXCEPT !.phase = "recheck"]
      <4>1. importJob.item \in Had
        BY <2>4, <3>1, <3>3 DEF Had
      <4> QED BY <2>1, <2>2, <3>1, <3>2, <3>3, <4>1
    <3>4. CASE importJob' = [importJob EXCEPT !.phase = "item", !.failed = TRUE]
      BY <2>1, <2>2, <3>1, <3>2, <3>4
    <3> QED BY <2>3, <3>3, <3>4
  <2>6. CASE imported' # imported
    <3>1. imported' = [imported EXCEPT ![importJob.item] = "stopped"]
      BY <1>7, <2>1, <2>6 DEF LoadItem, CallDaemon
    <3>2. Present' = Present \cup {importJob.item}
      BY <2>1, <3>1
    <3>3. erased \subseteq erased' \cup {importJob.item}
      BY <1>7, <2>1 DEF LoadItem
    <3>4. Had' = Had \cup {importJob.item}
      BY <2>2, <3>2
    <3> HIDE DEF Present, Had
    <3>5. CASE importJob' = [importJob EXCEPT !.phase = "recheck"]
      BY <2>1, <2>2, <3>2, <3>3, <3>4, <3>5
    <3>6. CASE importJob' = [importJob EXCEPT !.phase = "item", !.failed = TRUE]
      BY <2>1, <2>2, <3>2, <3>3, <3>4, <3>6
    <3> QED BY <2>3, <3>5, <3>6
  <2> QED BY <2>5, <2>6
<1>8. CASE RecheckItem
  <2>1. UNCHANGED <<status, importFile, erased, gone>> /\ importJob.phase = "recheck"
    BY <1>8 DEF RecheckItem
  <2>2. \/ importJob' = [importJob EXCEPT !.phase = "wait"]
        \/ importJob' = [importJob EXCEPT !.phase = "item", !.failed = TRUE]
    BY <1>8 DEF RecheckItem, RefusedUnknown, CallDaemon
  <2>3. Present' = Present
    <3>1. CASE imported' = imported
      BY <3>1
    <3>2. CASE imported' # imported
      <4>1. imported' = [imported EXCEPT ![importJob.item] = "checking"]
            /\ importJob.item \in Present
        BY <1>8, <3>2 DEF RecheckItem, RefusedUnknown, CallDaemon
      <4> QED BY <4>1
    <3> QED BY <3>1, <3>2
  <2> HIDE DEF Present
  <2>4. Had' = Had
    BY <2>1, <2>3
  <2> HIDE DEF Had
  <2>5. CASE importJob' = [importJob EXCEPT !.phase = "wait"]
    BY <2>1, <2>3, <2>4, <2>5
  <2>6. CASE importJob' = [importJob EXCEPT !.phase = "item", !.failed = TRUE]
    BY <2>1, <2>3, <2>4, <2>6
  <2> QED BY <2>2, <2>5, <2>6
<1>9. CASE WaitForCheck
  <2>1. UNCHANGED <<status, importFile, imported, erased, gone>>
    BY <1>9 DEF WaitForCheck
  <2>2. importJob.phase = "wait"
    BY <1>9 DEF WaitForCheck
  <2>3. CASE GiveUp
    <3>1. importJob' = [importJob EXCEPT !.phase = "save", !.failed = TRUE,
                                         !.done = importJob.done \cup {importJob.item}]
      BY <2>3 DEF GiveUp
    <3> QED BY <2>1, <2>2, <3>1
  <2>4. CASE importJob' = [importJob EXCEPT !.phase = "start"]
    BY <2>1, <2>2, <2>4
  <2> QED BY <1>9, <2>3, <2>4 DEF WaitForCheck
<1>10. CASE StartItem
  <2>1. UNCHANGED <<status, importFile, erased, gone>>
    BY <1>10 DEF StartItem
  <2>2. importJob.phase = "start" /\ Present' = Present
    BY <1>10 DEF StartItem, RefusedUnknown
  <2>3. CASE importJob' = [importJob EXCEPT !.phase = "save",
                                            !.done = importJob.done \cup {importJob.item}]
    <3> HIDE DEF Present
    <3> QED BY <2>1, <2>2, <2>3
  <2>4. CASE importJob' = [importJob EXCEPT !.phase = "item", !.failed = TRUE]
    <3> HIDE DEF Present
    <3> QED BY <2>1, <2>2, <2>4
  <2> QED BY <1>10, <2>3, <2>4 DEF StartItem, RefusedUnknown
<1>11. CASE SaveImport
  BY <1>11 DEF SaveImport, NoJournal
<1>12. CASE FinishImport
  BY <1>12 DEF FinishImport, ImportOver, NoJournal
<1>13. CASE HearCancel
  BY <1>13 DEF HearCancel
<1>14. ASSUME NEW i \in Items, DaemonChecks(i)
       PROVE AccountInv'
  BY <1>14 DEF DaemonChecks
<1>15. ASSUME NEW i \in Items, EraseImported(i)
       PROVE AccountInv'
  BY <1>15 DEF EraseImported
<1>16. ASSUME NEW i \in Items, AddByHand(i)
       PROVE AccountInv'
  BY <1>16 DEF AddByHand
<1>17. CASE KillImport
  BY <1>17 DEF KillImport, NoStatus, NoImport, NoJournal
<1>18. CASE UNCHANGED importVars
  BY <1>18 DEF importVars
<1> QED BY <1>1, <1>2, <1>3, <1>4, <1>5, <1>6, <1>7, <1>8, <1>9, <1>10, <1>11, <1>12,
           <1>13, <1>14, <1>15, <1>16, <1>17, <1>18 DEF ImportNext, JobStep

\* A run that reports no failure has left nothing out, whatever was killed,
\* refused or half written before it (session.rs run_import, plan_restore).
THEOREM CleanRunIsWhole == ImportSpec => []CleanMeansComplete
<1>1. ImportInit => AccountInv
  BY DEF ImportInit, AccountInv, Had, CleanMeansComplete, NoImport, NoStatus, NoJournal
<1>2. AccountInv => CleanMeansComplete
  BY DEF AccountInv
<1>3. ImportTypeOK /\ AccountInv /\ [ImportNext]_importVars => AccountInv'
  BY AccountKept
<1> QED BY <1>1, <1>2, <1>3, ImportTypeCorrect, PTL DEF ImportSpec
=============================================================================
