------------------------------ MODULE RssFeeds ------------------------------
(***************************************************************************)
(* Automatic downloads from feeds: the engine of rss.rs and the runner of  *)
(* the desktop client (gpui/rss.rs, model.rs).  A pass takes the runner    *)
(* out of the model, fetches the feeds that rules are due for, adds what   *)
(* they match and has not been seen, saves what it has seen, and puts the  *)
(* runner back.                                                            *)
(***************************************************************************)
EXTENDS Integers, Sequences, FiniteSets

CONSTANTS
  Guids,      \* items, numbered by how well they score
  Feeds, Rules,
  Carries,    \* the items a feed may list
  Scope,      \* the feeds of a rule
  Matching,   \* the items a rule matches
  Smart,      \* the rules that keep the best item of an episode
  Episode,    \* the episode of an item
  SeenCap,    \* SEEN_CAP
  MaxTrouble  \* bound: failing fetches, adds and saves, quits, seen sets cleared

ASSUME FeedsAssumption ==
  /\ Guids \subseteq Nat /\ IsFiniteSet(Guids)
  /\ Carries \in [Feeds -> SUBSET Guids]
  /\ Scope \in [Rules -> SUBSET Feeds] /\ Matching \in [Rules -> SUBSET Guids]
  /\ Smart \subseteq Rules /\ Guids \subseteq DOMAIN Episode
  /\ SeenCap \in Nat \ {0} /\ MaxTrouble \in Nat

VARIABLES
  listed,     \* what each feed lists
  due,        \* the rules whose interval has passed
  seen,       \* what the runner has added, oldest first
  seenFile,   \* what a start would read from its file
  rssPass,    \* the pass under way, which has the runner
  added,      \* every item added since the user last cleared the seen set for good
  kept,       \* what this process added in passes that ended, or was started with
  saved,      \* what the last save that went well recorded, if none broke off since
  trouble

rssVars == <<listed, due, seen, seenFile, rssPass, added, kept, saved, trouble>>

SetOf(s) == {s[i] : i \in DOMAIN s}

NoPass == [phase |-> "idle", plan |-> {}, news |-> FALSE]

RssTypeOK ==
  /\ listed \in [Feeds -> SUBSET Guids]
  /\ due \subseteq Rules
  /\ seen \in Seq(Guids) /\ seenFile \in Seq(Guids) /\ Len(seenFile) <= SeenCap
  /\ rssPass \in [phase : {"idle", "add"}, plan : SUBSET (Rules \X Feeds \X Guids),
                  news : BOOLEAN]
  /\ added \subseteq Guids /\ kept \subseteq Guids /\ saved \subseteq Guids
  /\ trouble \in 0..MaxTrouble

RssInit ==
  /\ listed \in [Feeds -> {{}}]
  /\ due = Rules
  /\ seen = <<>> /\ seenFile = <<>>
  /\ rssPass = NoPass
  /\ added = {} /\ kept = {} /\ saved = {}
  /\ trouble = 0

----------------------------------------------------------------------------

Trouble == trouble < MaxTrouble /\ trouble' = trouble + 1

News(r, fetched) ==
  {<<r, f, g>> : f \in fetched \cap Scope[r], g \in Matching[r] \ SetOf(seen)}

\* An entry of the plan for each feed that lists an item.
Offered(r, fetched) == {e \in News(r, fetched) : e[3] \in listed[e[2]]}

\* A smart rule takes the best item of an episode; the others stay unseen.
Best(offers) ==
  {e \in offers : \A o \in offers : Episode[o[3]] = Episode[e[3]] => o[3] <= e[3]}

Taken(r, fetched) == IF r \in Smart THEN Best(Offered(r, fetched)) ELSE Offered(r, fetched)

\* A rule counts as polled whether or not its feeds could be fetched.
StartPass ==
  /\ rssPass.phase = "idle" /\ due # {}
  /\ LET wanted == UNION {Scope[r] : r \in due} IN
     \E fetched \in SUBSET wanted :
       /\ (fetched = wanted /\ UNCHANGED trouble) \/ (fetched # wanted /\ Trouble)
       /\ rssPass' = [NoPass EXCEPT !.phase = "add",
                                    !.plan = UNION {Taken(r, fetched) : r \in due}]
  /\ due' = {}
  /\ UNCHANGED <<listed, seen, seenFile, added, kept, saved>>

Remembered(e) ==
  /\ seen' = Append(seen, e[3])
  /\ rssPass' = [rssPass EXCEPT !.plan = @ \ {e}, !.news = TRUE]

AddRememberingFailures(e) ==
  /\ rssPass.phase = "add" /\ e \in rssPass.plan
  /\ \/ added' = added \cup {e[3]} /\ UNCHANGED trouble
     \/ added' \in {added, added \cup {e[3]}} /\ Trouble
  /\ Remembered(e)
  /\ UNCHANGED <<listed, due, seenFile, kept, saved>>

\* An item is seen once its add is answered; one that was refused, or whose
\* answer got lost after the deed, is not.
AddItem(e) ==
  /\ rssPass.phase = "add" /\ e \in rssPass.plan
  /\ \/ added' = added \cup {e[3]} /\ Remembered(e) /\ UNCHANGED trouble
     \/ /\ added' \in {added, added \cup {e[3]}} /\ Trouble
        /\ rssPass' = [rssPass EXCEPT !.plan = @ \ {e}] /\ UNCHANGED seen
  /\ UNCHANGED <<listed, due, seenFile, kept, saved>>

CappedOneTooMany(s) == SubSeq(s, Len(s) - SeenCap, Len(s))

Capped(s) == SubSeq(s, Len(s) - SeenCap + 1, Len(s))

WithinCap(s) == IF Len(s) > SeenCap THEN Capped(s) ELSE s

\* The file is written in place: a write that breaks off leaves one that reads
\* as empty.  Nobody is told of a write that failed.
SaveDone == seenFile' = seen' /\ saved' = SetOf(seen')
SaveRefused == UNCHANGED <<seenFile, saved>>
SaveTorn == seenFile' = <<>> /\ saved' = {}

\* The pass forgets what is over the cap, saves, and gives the runner back.
EndPass ==
  /\ rssPass.phase = "add" /\ rssPass.plan = {}
  /\ seen' = IF rssPass.news THEN WithinCap(seen) ELSE seen
  /\ kept' = IF rssPass.news THEN SetOf(seen') ELSE kept
  /\ \/ rssPass.news /\ SaveDone /\ UNCHANGED trouble
     \/ rssPass.news /\ (SaveRefused \/ SaveTorn) /\ Trouble
     \/ ~rssPass.news /\ UNCHANGED <<seenFile, saved, trouble>>
  /\ rssPass' = NoPass
  /\ UNCHANGED <<listed, due, added>>

PassStepRss == StartPass \/ EndPass \/ \E e \in rssPass.plan : AddItem(e)

----------------------------------------------------------------------------
(* Meanwhile. *)

IntervalPasses(r) ==
  /\ r \notin due /\ due' = due \cup {r}
  /\ UNCHANGED <<listed, seen, seenFile, rssPass, added, kept, saved, trouble>>

Relist(f) ==
  /\ \E g \in Carries[f] :
       listed' = [listed EXCEPT ![f] = IF g \in @ THEN @ \ {g} ELSE @ \cup {g}]
  /\ UNCHANGED <<due, seen, seenFile, rssPass, added, kept, saved, trouble>>

\* While a pass has the runner there is nothing to clear, and nothing is.  A
\* clear whose save is refused holds until the next start.
ClearSeen ==
  /\ Trouble /\ rssPass.phase = "idle"
  /\ seen' = <<>> /\ kept' = {}
  /\ \/ SaveDone /\ added' = {}
     \/ SaveRefused /\ UNCHANGED added
  /\ UNCHANGED <<listed, due, rssPass>>

QuitForgetting ==
  /\ Trouble
  /\ seen' = <<>> /\ kept' = saved /\ rssPass' = NoPass /\ due' = Rules
  /\ UNCHANGED <<listed, seenFile, added, saved>>

QuitOutsideSave == UNCHANGED <<seenFile, saved>>

\* The save of a pass was under way, or over, when the client went.
QuitInSave ==
  /\ rssPass.phase = "add" /\ rssPass.plan = {} /\ rssPass.news
  /\ \/ SaveTorn
     \/ seenFile' = WithinCap(seen) /\ saved' = SetOf(WithinCap(seen))

\* The client is quit, or a pass panics: the runner is built from its file,
\* with nothing if the file cannot be read.
Quit ==
  /\ Trouble
  /\ QuitOutsideSave \/ QuitInSave
  /\ \/ seen' = seenFile' /\ kept' = saved'
     \/ seen' = <<>> /\ kept' = {}
  /\ rssPass' = NoPass /\ due' = Rules
  /\ UNCHANGED <<listed, added>>

RssNext ==
  \/ PassStepRss
  \/ \E r \in Rules : IntervalPasses(r)
  \/ \E f \in Feeds : Relist(f)
  \/ ClearSeen \/ Quit

RssSpec == RssInit /\ [][RssNext]_rssVars
RssFairness == WF_rssVars(PassStepRss) /\ \A r \in Rules : WF_rssVars(IntervalPasses(r))

----------------------------------------------------------------------------
(* Properties. *)

\* No pass adds again what an ended pass of this process added, saved or not, nor,
\* after a restart, what its file still records; until the user clears the seen
\* set or the cap drops it.  The file records it as long as no write of it broke
\* off: after one that did, and a restart, items are added again, and the code
\* has nothing against that.
NoRepeat ==
  [][\A e \in rssPass.plan : AddItem(e) => e[3] \notin kept]_rssVars

WantedByRule(g) ==
  \E r \in Rules : g \in Matching[r] /\ \E f \in Scope[r] : g \in listed[f]

\* What a feed goes on listing and a rule matches is added in the end: a smart
\* rule's second best too, a failing fetch or add only puts it off.
InTheEndAdded == \A g \in Guids : <>[]WantedByRule(g) => <>[](g \in added)
=============================================================================
