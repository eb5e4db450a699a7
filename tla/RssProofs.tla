------------------------------ MODULE RssProofs ------------------------------
(***************************************************************************)
(* Proof that no pass adds again what this process added in an earlier one *)
(* or was started with, for any feeds and rules, and that what is saved    *)
(* outlives a restart as long as no write breaks off: what was kept is in  *)
(* the runner's memory, what was saved is in its file, and the plan of a   *)
(* pass is disjoint from what was kept throughout.                         *)
(***************************************************************************)
EXTENDS RssFeeds, TLAPS

USE FeedsAssumption

(* The memory of a runner. *)

LEMMA PlanIsNews ==
  ASSUME NEW fetched, NEW r \in Rules, NEW e \in Taken(r, fetched)
  PROVE /\ e \in {<<r, f, g>> : f \in fetched \cap Scope[r], g \in Matching[r]}
        /\ e[3] \notin SetOf(seen)
BY DEF Taken, Best, Offered, News

LEMMA AppendKeeps ==
  ASSUME NEW s \in Seq(Guids), NEW g \in Guids
  PROVE Append(s, g) \in Seq(Guids) /\ SetOf(s) \subseteq SetOf(Append(s, g))
BY DEF SetOf

LEMMA CappedType ==
  ASSUME NEW s \in Seq(Guids), Len(s) > SeenCap
  PROVE Capped(s) \in Seq(Guids) /\ Len(Capped(s)) = SeenCap
BY DEF Capped

LEMMA WithinCapType ==
  ASSUME NEW s \in Seq(Guids)
  PROVE WithinCap(s) \in Seq(Guids) /\ Len(WithinCap(s)) <= SeenCap
BY CappedType DEF WithinCap

LEMMA SetOfType ==
  ASSUME NEW s \in Seq(Guids)
  PROVE SetOf(s) \subseteq Guids
BY DEF SetOf

(* Type correctness. *)

Plans == SUBSET (Rules \X Feeds \X Guids)
Passes == [phase : {"idle", "add"}, plan : Plans, news : BOOLEAN]

LEMMA PassesType ==
  Passes = [phase : {"idle", "add"}, plan : SUBSET (Rules \X Feeds \X Guids), news : BOOLEAN]
BY DEF Passes, Plans

\* The variables a pass goes through stay of their types, whatever fails in it.
THEOREM RssTypeCorrect == RssSpec => []RssTypeOK
<1>1. RssInit => RssTypeOK
  BY DEF RssInit, RssTypeOK, NoPass
<1>2. RssTypeOK /\ [RssNext]_rssVars => RssTypeOK'
  <2> SUFFICES ASSUME RssTypeOK, [RssNext]_rssVars PROVE RssTypeOK'
    OBVIOUS
  <2> USE DEF RssTypeOK
  <2>1. CASE StartPass
    <3>1. PICK fetched \in SUBSET UNION {Scope[r] : r \in due} :
            rssPass' = [NoPass EXCEPT !.phase = "add",
                                      !.plan = UNION {Taken(r, fetched) : r \in due}]
      BY <2>1 DEF StartPass
    <3> DEFINE plan == UNION {Taken(r, fetched) : r \in due}
    <3>2. \A r \in due : \A e \in Taken(r, fetched) : e \in Rules \X Feeds \X Guids
      BY PlanIsNews
    <3>3. plan \in Plans
      BY <3>2 DEF Plans
    <3>4. rssPass' = [phase |-> "add", plan |-> plan, news |-> FALSE]
      BY <3>1 DEF NoPass
    <3> HIDE DEF plan
    <3>5. rssPass' \in Passes
      BY <3>3, <3>4 DEF Passes
    <3>6. trouble' \in 0..MaxTrouble
      BY <2>1 DEF StartPass, Trouble
    <3> QED BY <2>1, <3>5, <3>6, PassesType DEF StartPass
  <2>2. ASSUME NEW e \in rssPass.plan, AddItem(e) PROVE RssTypeOK'
    <3>1. e[3] \in Guids
      OBVIOUS
    <3>2. Append(seen, e[3]) \in Seq(Guids)
      BY <3>1, AppendKeeps
    <3>3. seen' \in Seq(Guids)
      BY <2>2, <3>2 DEF AddItem, Remembered
    <3>4. rssPass' \in Passes
      <4>1. rssPass \in Passes /\ rssPass.plan \ {e} \in Plans
        BY PassesType DEF Plans
      <4>2. \/ rssPass' = [rssPass EXCEPT !.plan = rssPass.plan \ {e}, !.news = TRUE]
            \/ rssPass' = [rssPass EXCEPT !.plan = rssPass.plan \ {e}]
        BY <2>2 DEF AddItem, Remembered
      <4> QED BY <4>1, <4>2 DEF Passes
    <3>5. added' \subseteq Guids /\ trouble' \in 0..MaxTrouble
      BY <2>2, <3>1 DEF AddItem, Trouble
    <3> QED BY <2>2, <3>3, <3>4, <3>5, PassesType DEF AddItem
  <2>3. CASE EndPass
    <3>1. seen' \in Seq(Guids) /\ (rssPass.news => Len(seen') <= SeenCap)
      BY <2>3, WithinCapType DEF EndPass
    <3>2. SetOf(seen') \subseteq Guids
      BY <3>1, SetOfType
    <3>3. seenFile' \in Seq(Guids) /\ Len(seenFile') <= SeenCap
      <4>1. <<>> \in Seq(Guids) /\ Len(<<>>) <= SeenCap
        OBVIOUS
      <4> QED BY <2>3, <3>1, <4>1 DEF EndPass, SaveDone, SaveRefused, SaveTorn
    <3>4. kept' \subseteq Guids /\ saved' \subseteq Guids
      BY <2>3, <3>2 DEF EndPass, SaveDone, SaveRefused, SaveTorn
    <3> QED BY <2>3, <3>1, <3>3, <3>4 DEF EndPass, NoPass, Trouble
  <2>4. ASSUME NEW r \in Rules, IntervalPasses(r) PROVE RssTypeOK'
    BY <2>4 DEF IntervalPasses
  <2>5. ASSUME NEW f \in Feeds, Relist(f) PROVE RssTypeOK'
    BY <2>5 DEF Relist
  <2>6. CASE ClearSeen
    <3>1. <<>> \in Seq(Guids) /\ Len(<<>>) <= SeenCap
      OBVIOUS
    <3>2. seenFile' \in Seq(Guids) /\ Len(seenFile') <= SeenCap
      BY <2>6, <3>1 DEF ClearSeen, SaveDone, SaveRefused
    <3>3. seen' \in Seq(Guids) /\ SetOf(seen') \subseteq Guids
      BY <2>6, <3>1, SetOfType DEF ClearSeen
    <3>4. saved' \subseteq Guids /\ added' \subseteq Guids /\ kept' \subseteq Guids
      BY <2>6, <3>3 DEF ClearSeen, SaveDone, SaveRefused
    <3>5. UNCHANGED <<listed, due, rssPass>> /\ trouble' \in 0..MaxTrouble
      BY <2>6 DEF ClearSeen, Trouble
    <3> QED BY <3>2, <3>3, <3>4, <3>5
  <2>7. CASE Quit
    <3>1. /\ WithinCap(seen) \in Seq(Guids) /\ Len(WithinCap(seen)) <= SeenCap
          /\ SetOf(WithinCap(seen)) \subseteq Guids
      BY WithinCapType, SetOfType
    <3>2. <<>> \in Seq(Guids) /\ Len(<<>>) <= SeenCap
      OBVIOUS
    <3>3. /\ seenFile' \in Seq(Guids) /\ Len(seenFile') <= SeenCap
          /\ saved' \subseteq Guids
      BY <2>7, <3>1, <3>2 DEF Quit, QuitOutsideSave, QuitInSave, SaveTorn
    <3>4. seen' \in Seq(Guids) /\ kept' \subseteq Guids
      BY <2>7, <3>2, <3>3 DEF Quit
    <3> QED BY <2>7, <3>3, <3>4 DEF Quit, Trouble, NoPass
  <2>8. CASE UNCHANGED rssVars
    BY <2>8 DEF rssVars
  <2> QED BY <2>1, <2>2, <2>3, <2>4, <2>5, <2>6, <2>7, <2>8 DEF RssNext, PassStepRss
<1> QED BY <1>1, <1>2, PTL DEF RssSpec

(* What is kept is known to whoever plans next. *)

KeptInv ==
  /\ kept \subseteq SetOf(seen)
  /\ saved \subseteq SetOf(seenFile)
  /\ \A e \in rssPass.plan : e[3] \notin kept

LEMMA KeptInitially == RssInit => KeptInv
BY DEF RssInit, KeptInv, SetOf, NoPass

LEMMA KeptStays == RssTypeOK /\ KeptInv /\ [RssNext]_rssVars => KeptInv'
<1> SUFFICES ASSUME RssTypeOK, KeptInv, [RssNext]_rssVars PROVE KeptInv'
  OBVIOUS
<1> USE DEF KeptInv
<1>1. CASE StartPass
  <2>1. \A e \in rssPass'.plan : e[3] \notin SetOf(seen)
    BY <1>1, PlanIsNews DEF StartPass, NoPass, RssTypeOK
  <2> QED BY <1>1, <2>1 DEF StartPass
<1>2. ASSUME NEW e \in rssPass.plan, AddItem(e) PROVE KeptInv'
  <2>1. seen' = seen \/ SetOf(seen) \subseteq SetOf(seen')
    BY <1>2, AppendKeeps DEF AddItem, Remembered, RssTypeOK
  <2>2. rssPass'.plan \subseteq rssPass.plan
    BY <1>2 DEF AddItem, Remembered, RssTypeOK
  <2> QED BY <1>2, <2>1, <2>2 DEF AddItem
<1>3. CASE EndPass
  <2>1. rssPass'.plan = {}
    BY <1>3 DEF EndPass, NoPass
  <2>2. kept' \subseteq SetOf(seen') /\ saved' \subseteq SetOf(seenFile')
    BY <1>3 DEF EndPass, SaveDone, SaveRefused, SaveTorn
  <2> QED BY <2>1, <2>2
<1>4. ASSUME NEW r \in Rules, IntervalPasses(r) PROVE KeptInv'
  BY <1>4 DEF IntervalPasses
<1>5. ASSUME NEW f \in Feeds, Relist(f) PROVE KeptInv'
  BY <1>5 DEF Relist
<1>6. CASE ClearSeen
  BY <1>6 DEF ClearSeen, SaveDone, SaveRefused
<1>7. CASE Quit
  <2>1. saved' \subseteq SetOf(seenFile')
    BY <1>7 DEF Quit, QuitOutsideSave, QuitInSave, SaveTorn
  <2> QED BY <1>7, <2>1 DEF Quit, NoPass
<1>8. CASE UNCHANGED rssVars
  BY <1>8 DEF rssVars
<1> QED BY <1>1, <1>2, <1>3, <1>4, <1>5, <1>6, <1>7, <1>8 DEF RssNext, PassStepRss

\* No pass adds again what an ended pass of this process added, nor, after a
\* restart, what the file still records (rss.rs plan and save_seen, gpui/rss.rs
\* Runner), until it is cleared or dropped by the cap.
THEOREM NothingRepeats == RssSpec => NoRepeat
<1>1. RssSpec => []KeptInv
  BY KeptInitially, KeptStays, RssTypeCorrect, PTL DEF RssSpec
<1>2. KeptInv => [\A e \in rssPass.plan : AddItem(e) => e[3] \notin kept]_rssVars
  BY DEF KeptInv
<1> QED BY <1>1, <1>2, PTL DEF NoRepeat
=============================================================================
