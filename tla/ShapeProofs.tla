----------------------------- MODULE ShapeProofs -----------------------------
(***************************************************************************)
(* Proof that the bandwidth rules keep off what a user set by hand, for    *)
(* any torrents, rules and refusals.  What he set before the poll has no   *)
(* marker and a throttle or caps, which keeps it out of the plan of the    *)
(* pass; what he sets under a pass, or has not dropped the marker of by    *)
(* the poll, is among the crossed.                                         *)
(***************************************************************************)
EXTENDS BandwidthRules, WellFoundedInduction, TLAPS

USE DEF None, User

(* Rows and the pass are records with these fields. *)

IsShape(row) ==
  row = [x \in DOMAIN row |-> row[x]] /\ {"throttle", "caps", "marker"} \subseteq DOMAIN row

IsShaper(s) ==
  /\ s = [x \in DOMAIN s |-> s[x]]
  /\ {"step", "own", "rows", "match", "hand", "todo", "at"} \subseteq DOMAIN s

\* The user's, as the plan sees it.
Mine(row) == row.marker = None /\ (row.throttle # None \/ row.caps # None)

\* Those whose limits are the user's, by the poll of the pass under way.
Apart == shaper.hand \ crossed

Shapes ==
  /\ shaping = [t \in Shapeable |-> shaping[t]] /\ \A t \in Shapeable : IsShape(shaping[t])
  /\ IsShaper(shaper)
  /\ byHand \subseteq Shapeable /\ clearing \subseteq Shapeable

Working == {"define", "assign", "caps", "mark"}

HandInv ==
  /\ Shapes
  /\ \A t \in byHand \ crossed : Mine(shaping[t])
  /\ shaper.step # "idle" => /\ byHand \ crossed \subseteq Apart
                             /\ clearing \subseteq crossed
                             /\ \A t \in Apart \cap Shapeable : Mine(shaper.rows[t])
  /\ shaper.step \in Working \cup {"next"} =>
       shaper.todo \subseteq Shapeable /\ shaper.todo \cap Apart = {}
  /\ shaper.step \in Working => shaper.at \in Shapeable \ Apart

LEMMA MineIsSpared ==
  ASSUME NEW rows, NEW match, NEW t \in Planned(rows, match)
  PROVE t \in Shapeable /\ ~Mine(rows[t])
BY DEF Planned, Adopts, Releases, Mine

LEMMA NothingYet ==
  IsShape(NoShaping) /\ IsShaper(NoShaper) /\ NoShaper.step = "idle"
BY DEF IsShape, NoShaping, IsShaper, NoShaper

LEMMA HandInit == ShapeInit => HandInv
BY NothingYet DEF ShapeInit, HandInv, Shapes, Working

(* The steps of a pass. *)

LEMMA TakeMemoryKeeps ==
  ASSUME HandInv, TakeMemory
  PROVE HandInv'
<1>1. IsShaper(shaper') /\ shaper'.step \in {"replay", "plan"}
      /\ shaper'.hand = byHand /\ shaper'.rows = shaping
  BY DEF TakeMemory, NoShaper, IsShaper
<1> QED
  BY <1>1 DEF HandInv, TakeMemory, Shapes, Apart, Working, userVars

\* A step that moves the pass on and sets nothing.
LEMMA MovesOn ==
  ASSUME HandInv, IsShaper(shaper'), shaper.step # "idle",
         shaper'.hand = shaper.hand, shaper'.rows = shaper.rows,
         UNCHANGED <<shaping, byHand, clearing, crossed>>,
         shaper'.step \in Working \cup {"next"} =>
           shaper'.todo \subseteq Shapeable /\ shaper'.todo \cap Apart = {},
         shaper'.step \in Working => shaper'.at \in Shapeable \ Apart
  PROVE HandInv'
BY DEF HandInv, Shapes, Apart

LEMMA ReplayKeeps ==
  ASSUME HandInv, Replay
  PROVE HandInv'
<1>1. PICK r \in shaper.todo :
        shaper' = [shaper EXCEPT !.todo = @ \ {r}, !.own.defined = @ \cup {r}]
  BY DEF Replay
<1>2. IsShaper(shaper') /\ shaper'.step = "replay" /\ shaper'.hand = shaper.hand
      /\ shaper'.rows = shaper.rows
  BY <1>1 DEF Replay, HandInv, Shapes, IsShaper
<1> QED
  BY <1>2, MovesOn DEF Replay, userVars, Working

LEMMA PlanKeeps ==
  ASSUME HandInv, Plan
  PROVE HandInv'
<1>1. /\ IsShaper(shaper') /\ shaper'.step = "next" /\ shaper'.hand = shaper.hand
      /\ shaper'.rows = shaper.rows /\ shaper'.todo = Planned(shaper.rows, shaper.match)
  BY DEF Plan, HandInv, Shapes, IsShaper
<1>2. shaper'.todo \subseteq Shapeable /\ shaper'.todo \cap Apart = {}
  BY <1>1, MineIsSpared DEF Plan, HandInv
<1> QED
  BY <1>1, <1>2, MovesOn DEF Plan, userVars, Working

LEMMA TakeUpKeeps ==
  ASSUME HandInv, TakeUp
  PROVE HandInv'
<1>1. PICK t \in shaper.todo :
        shaper' = [shaper EXCEPT !.todo = @ \ {t}, !.at = t,
          !.step = IF Rule(t) = None \/ Rule(t) \in shaper.own.defined THEN "assign" ELSE "define"]
  BY DEF TakeUp
<1>2. /\ IsShaper(shaper') /\ shaper'.step \in {"assign", "define"}
      /\ shaper'.hand = shaper.hand /\ shaper'.rows = shaper.rows
      /\ shaper'.todo \subseteq shaper.todo /\ shaper'.at = t
  BY <1>1 DEF HandInv, Shapes, IsShaper
<1> QED
  BY <1>2, MovesOn DEF TakeUp, HandInv, userVars, Working

LEMMA DefineKeeps ==
  ASSUME HandInv, Define
  PROVE HandInv'
<1>1. /\ IsShaper(shaper') /\ shaper'.step \in {"assign", "next"}
      /\ shaper'.hand = shaper.hand /\ shaper'.rows = shaper.rows
      /\ shaper'.todo = shaper.todo /\ shaper'.at = shaper.at
  BY DEF Define, HandInv, Shapes, IsShaper
<1> QED
  BY <1>1, MovesOn DEF Define, HandInv, userVars, Working

\* A step that sets a field of the torrent at hand, or is refused.
LEMMA SetsOne ==
  ASSUME HandInv, shaper.step \in Working, NEW row, IsShape(row),
         shaping' \in {shaping, [shaping EXCEPT ![shaper.at] = row]},
         NEW step \in Working \cup {"next"}, shaper' = [shaper EXCEPT !.step = step],
         UNCHANGED <<byHand, clearing, crossed>>
  PROVE HandInv'
<1>1. /\ IsShaper(shaper') /\ shaper'.step = step
      /\ shaper'.hand = shaper.hand /\ shaper'.rows = shaper.rows
      /\ shaper'.todo = shaper.todo /\ shaper'.at = shaper.at
  BY DEF HandInv, Shapes, IsShaper
<1>2. Apart' = Apart /\ shaper.at \in Shapeable \ Apart
  BY <1>1 DEF HandInv, Apart
<1>3. \A t \in Shapeable \ {shaper.at} : shaping'[t] = shaping[t]
  BY DEF HandInv, Shapes
<1>4. Shapes'
  BY <1>1, <1>2 DEF HandInv, Shapes
<1>5. \A t \in byHand \ crossed : Mine(shaping'[t])
  BY <1>2, <1>3 DEF HandInv, Shapes, Working
<1> QED
  BY <1>1, <1>2, <1>4, <1>5 DEF HandInv, Working

LEMMA FieldsOfShape ==
  ASSUME NEW row, IsShape(row), NEW v
  PROVE /\ IsShape([row EXCEPT !.throttle = v]) /\ IsShape([row EXCEPT !.caps = v])
        /\ IsShape([row EXCEPT !.marker = v])
BY DEF IsShape

LEMMA AssignKeeps ==
  ASSUME HandInv, Assign
  PROVE HandInv'
<1> DEFINE r == Rule(shaper.at)
           row == [shaping[shaper.at] EXCEPT !.throttle = r]
<1>1. shaper.at \in Shapeable /\ IsShape(shaping[shaper.at]) /\ shaper.step \in Working
  BY DEF Assign, HandInv, Shapes, Working
<1>2. shaping' \in {shaping, [shaping EXCEPT ![shaper.at] = row]}
  BY DEF Assign
<1>3. PICK step \in {"caps", "next"} : shaper' = [shaper EXCEPT !.step = step]
  BY DEF Assign
<1>4. IsShape(row)
  BY <1>1, FieldsOfShape
<1> HIDE DEF row
<1> QED
  BY <1>1, <1>2, <1>3, <1>4, SetsOne DEF Assign, userVars, Working

LEMMA SetCapsKeeps ==
  ASSUME HandInv, SetCaps
  PROVE HandInv'
<1> DEFINE r == Rule(shaper.at)
           caps == IF r \in Capping THEN r ELSE None
           row == [shaping[shaper.at] EXCEPT !.caps = caps]
<1>1. shaper.at \in Shapeable /\ IsShape(shaping[shaper.at]) /\ shaper.step \in Working
  BY DEF SetCaps, HandInv, Shapes, Working
<1>2. shaping' \in {shaping, [shaping EXCEPT ![shaper.at] = row]}
  BY DEF SetCaps
<1>3. shaper' = [shaper EXCEPT !.step = "mark"]
  BY DEF SetCaps
<1> HIDE DEF caps
<1>4. IsShape(row)
  BY <1>1, FieldsOfShape
<1> HIDE DEF row
<1> QED
  BY <1>1, <1>2, <1>3, <1>4, SetsOne DEF SetCaps, userVars, Working

LEMMA SetMarkerKeeps ==
  ASSUME HandInv, SetMarker
  PROVE HandInv'
<1> DEFINE r == Rule(shaper.at)
           row == [shaping[shaper.at] EXCEPT !.marker = r]
<1>1. shaper.at \in Shapeable /\ IsShape(shaping[shaper.at]) /\ shaper.step \in Working
  BY DEF SetMarker, HandInv, Shapes, Working
<1>2. shaping' \in {shaping, [shaping EXCEPT ![shaper.at] = row]}
  BY DEF SetMarker
<1>3. shaper' = [shaper EXCEPT !.step = "next"]
  BY DEF SetMarker
<1>4. IsShape(row)
  BY <1>1, FieldsOfShape
<1> HIDE DEF row
<1> QED
  BY <1>1, <1>2, <1>3, <1>4, SetsOne DEF SetMarker, userVars, Working

LEMMA PutBackKeeps ==
  ASSUME HandInv, PutBack
  PROVE HandInv'
BY NothingYet DEF HandInv, PutBack, Shapes, userVars, Working

LEMMA ShapeStepKeeps ==
  ASSUME HandInv, ShapeStep
  PROVE HandInv'
BY TakeMemoryKeeps, ReplayKeeps, PlanKeeps, TakeUpKeeps, DefineKeeps, AssignKeeps, SetCapsKeeps,
   SetMarkerKeeps, PutBackKeeps DEF ShapeStep

(* What the user does meanwhile. *)

LEMMA ByHandKeeps ==
  ASSUME HandInv, NEW t \in Shapeable, NEW row, IsShape(row), ByHand(t, row)
  PROVE HandInv'
<1>1. shaping' = [shaping EXCEPT ![t] = row] /\ shaper' = shaper
  BY DEF ByHand
<1>2. Shapes'
  BY <1>1 DEF HandInv, Shapes, ByHand
<1>3. \A u \in byHand' \ crossed' : Mine(shaping'[u])
  BY <1>1 DEF HandInv, Shapes, ByHand
<1>4. Apart' \subseteq Apart
  BY <1>1 DEF Apart, ByHand
<1>5. shaper.step # "idle" => byHand' \ crossed' \subseteq Apart' /\ clearing' \subseteq crossed'
  BY <1>1 DEF HandInv, Apart, ByHand
<1> QED
  BY <1>1, <1>2, <1>3, <1>4, <1>5 DEF HandInv

LEMMA DropMarkerKeeps ==
  ASSUME HandInv, NEW t \in Shapeable, DropMarker(t)
  PROVE HandInv'
<1> DEFINE row == [shaping[t] EXCEPT !.marker = None]
<1>1. shaping' = [shaping EXCEPT ![t] = row] /\ UNCHANGED <<shaper, crossed>> /\ t \in clearing
  BY DEF DropMarker
<1>2. IsShape(shaping[t])
  BY DEF HandInv, Shapes
<1>3. IsShape(row) /\ (Limited(shaping[t]) => Mine(row))
  <2>1. row.marker = None /\ row.throttle = shaping[t].throttle /\ row.caps = shaping[t].caps
    BY <1>2 DEF IsShape
  <2> QED
    BY <1>2, <2>1, FieldsOfShape DEF Limited, Mine
<1> HIDE DEF row
<1>4. Shapes'
  BY <1>1, <1>3 DEF HandInv, Shapes, DropMarker
<1>5. \A u \in byHand' \ crossed' : Mine(shaping'[u])
  BY <1>1, <1>3 DEF HandInv, Shapes, DropMarker
<1>6. Apart' = Apart
  BY <1>1 DEF Apart
<1>7. shaper.step # "idle" => byHand' \ crossed' \subseteq Apart' /\ clearing' \subseteq crossed'
  BY <1>1, <1>6 DEF HandInv, DropMarker
<1> QED
  BY <1>1, <1>4, <1>5, <1>6, <1>7 DEF HandInv

LEMMA UserKeeps ==
  ASSUME HandInv, NEW t \in Shapeable, LimitByHand(t) \/ CapByHand(t) \/ UnlimitByHand(t)
  PROVE HandInv'
<1>1. IsShape(shaping[t])
  BY DEF HandInv, Shapes
<1>2. \E row : IsShape(row) /\ ByHand(t, row)
  BY <1>1, FieldsOfShape DEF LimitByHand, CapByHand, UnlimitByHand
<1> QED
  BY <1>2, ByHandKeeps

LEMMA StandingKeeps ==
  ASSUME HandInv, UNCHANGED <<shaping, shaper, byHand, clearing, crossed>>
  PROVE HandInv'
BY DEF HandInv, Shapes, Apart

LEMMA HandNext == HandInv /\ [ShapeNext]_shapeVars => HandInv'
<1> SUFFICES ASSUME HandInv, [ShapeNext]_shapeVars PROVE HandInv'
  OBVIOUS
<1>1. CASE ShapeStep
  BY <1>1, ShapeStepKeeps
<1>2. CASE \E t \in Shapeable :
             LimitByHand(t) \/ CapByHand(t) \/ UnlimitByHand(t) \/ DropMarker(t)
  BY <1>2, UserKeeps, DropMarkerKeeps
<1>3. CASE \E t \in Shapeable : Retag(t)
  BY <1>3, StandingKeeps DEF Retag, userVars
<1>4. CASE LoseSession
  BY <1>4, StandingKeeps DEF LoseSession, userVars
<1>5. CASE UNCHANGED shapeVars
  BY <1>5, StandingKeeps DEF shapeVars, userVars
<1> QED
  BY <1>1, <1>2, <1>3, <1>4, <1>5 DEF ShapeNext

LEMMA PassSparesMine ==
  ASSUME HandInv, ShapeStep, NEW t \in (shaper.hand \cap byHand) \ crossed
  PROVE shaping'[t] = shaping[t]
<1>1. t \in Shapeable /\ t \in Apart
  BY DEF HandInv, Shapes, Apart
<1>2. CASE Assign \/ SetCaps \/ SetMarker
  <2>1. shaper.at # t
    BY <1>1, <1>2 DEF HandInv, Working, Assign, SetCaps, SetMarker
  <2>2. shaping' = shaping \/ \E row : shaping' = [shaping EXCEPT ![shaper.at] = row]
    BY <1>2 DEF Assign, SetCaps, SetMarker
  <2> QED
    BY <1>1, <2>1, <2>2 DEF HandInv, Shapes
<1>3. CASE TakeMemory \/ Replay \/ Plan \/ TakeUp \/ Define \/ PutBack
  BY <1>3 DEF TakeMemory, Replay, Plan, TakeUp, Define, PutBack
<1> QED
  BY <1>2, <1>3 DEF ShapeStep

\* No pass of the rules touches the throttle, the caps or the marker of a torrent
\* whose limits the user set before its poll (plan_bandwidth).
THEOREM HandsOff == ShapeSpec => ManualStands
<1>1. HandInv /\ [ShapeNext]_shapeVars =>
        [ShapeStep => \A t \in (shaper.hand \cap byHand) \ crossed :
                        shaping'[t] = shaping[t]]_shapeVars
  BY PassSparesMine
<1> QED
  BY HandInit, HandNext, <1>1, PTL DEF ShapeSpec, ManualStands

(* Types, and whose the user's limits are. *)

\* Of the rules a torrent matches one has the lowest number.
LEMMA LowestIs ==
  ASSUME NEW S \in SUBSET Nat, S # {}
  PROVE  Lowest(S) \in S
<1> DEFINE less == OpToRel(<, Nat)
<1>1. IsWellFoundedOn(less, Nat)
  BY NatLessThanWellFounded
<1>2. \A m, n \in Nat : m < n => <<m, n>> \in less
  BY DEF OpToRel
<1> HIDE DEF less
<1>3. PICK r \in S : \A q \in S : <<q, r>> \notin less
  BY <1>1, WFMin
<1>4. ASSUME NEW q \in S
      PROVE  r <= q
  <2>1. q \in Nat /\ r \in Nat
    OBVIOUS
  <2>2. ~(q < r)
    BY <1>2, <1>3, <2>1
  <2> QED
    BY <2>1, <2>2
<1> QED
  BY <1>4 DEF Lowest

LEMMA RuleForIs ==
  ASSUME NEW rules \in SUBSET Profiles
  PROVE  RuleFor(rules) \in Profiles \cup {None}
<1>1. ASSUME NEW S \in SUBSET rules, S # {}
      PROVE  Lowest(S) \in Profiles
  <2>1. S \in SUBSET Nat
    BY ProfilesAssumption
  <2> QED
    BY <1>1, <2>1, LowestIs
<1> QED
  BY <1>1 DEF RuleFor

Shapers ==
  [step : {"idle", "replay", "plan", "next"} \cup Working, own : Memory,
   rows : [Shapeable -> ShapeRow], match : [Shapeable -> SUBSET Profiles],
   hand : SUBSET Shapeable, todo : SUBSET (Shapeable \cup Profiles),
   at : Shapeable \cup {None}]

\* The user's throttle and the user's caps are on torrents whose limits are his,
\* or are about to be.
HandMade ==
  \A t \in Shapeable : User \in {shaping[t].throttle, shaping[t].caps} => t \in byHand \cup clearing

ShapeKinds ==
  /\ matching \in [Shapeable -> Matches]
  /\ shaping \in [Shapeable -> ShapeRow]
  /\ pool \subseteq Profiles
  /\ slot \in Memory
  /\ shaper \in Shapers
  /\ shaper.step = "replay" => shaper.todo \subseteq Profiles
  /\ shaper.step = "define" => RuleFor(shaper.match[shaper.at]) # None
  /\ byHand \subseteq Shapeable /\ clearing \subseteq Shapeable /\ crossed \subseteq Shapeable
  /\ acts \in 0..MaxActs
  /\ HandMade

LEMMA KindsBlank ==
  /\ NoShaping \in ShapeRow /\ Blank \in Memory /\ Reset \in Memory
  /\ NoShaper \in Shapers /\ NoShaper.step = "idle"
BY DEF NoShaping, ShapeRow, Owners, Blank, Reset, Memory, NoShaper, Shapers

LEMMA KindsInit == ShapeInit => ShapeKinds
<1> SUFFICES ASSUME ShapeInit PROVE ShapeKinds
  OBVIOUS
<1>1. /\ shaping = [t \in Shapeable |-> NoShaping] /\ shaper = NoShaper
      /\ slot = Reset
  BY DEF ShapeInit, Reset
<1>2. acts \in 0..MaxActs
  BY ProfilesAssumption DEF ShapeInit
<1>3. HandMade
  BY <1>1 DEF HandMade, NoShaping
<1> QED
  BY <1>1, <1>2, <1>3, KindsBlank DEF ShapeInit, ShapeKinds

LEMMA ActCounts ==
  ASSUME acts \in 0..MaxActs, UNCHANGED acts \/ Act
  PROVE  acts' \in 0..MaxActs
BY ProfilesAssumption DEF Act

LEMMA RuleIs ==
  ASSUME ShapeKinds, NEW t \in Shapeable
  PROVE  Rule(t) \in Profiles \cup {None}
<1>1. shaper.match[t] \in SUBSET Profiles
  BY DEF ShapeKinds, Shapers
<1> QED
  BY <1>1, RuleForIs DEF Rule

\* A step that moves the pass on and sets nothing.
LEMMA KindsMoveOn ==
  ASSUME ShapeKinds, shaper' \in Shapers, shaper'.step = "replay" => shaper'.todo \subseteq Profiles,
         shaper'.step = "define" => RuleFor(shaper'.match[shaper'.at]) # None,
         UNCHANGED <<matching, shaping, byHand, clearing>>, crossed' \subseteq Shapeable, UNCHANGED acts \/ Act,
         pool' \subseteq Profiles, slot' \in Memory
  PROVE  ShapeKinds'
BY ActCounts DEF ShapeKinds, HandMade

LEMMA KindsPass ==
  ASSUME ShapeKinds, HandInv, TakeMemory \/ Replay \/ Plan \/ TakeUp \/ Define \/ PutBack
  PROVE  ShapeKinds'
<1>1. /\ shaper \in Shapers /\ pool \subseteq Profiles /\ slot \in Memory
      /\ shaper.step = "replay" => shaper.todo \subseteq Profiles
      /\ shaping \in [Shapeable -> ShapeRow] /\ byHand \subseteq Shapeable
      /\ clearing \subseteq Shapeable /\ crossed \subseteq Shapeable
      /\ matching \in [Shapeable -> SUBSET Profiles]
  BY ProfilesAssumption DEF ShapeKinds
<1>2. CASE TakeMemory
  <2> DEFINE own == [slot EXCEPT !.replay = FALSE]
             step == IF slot.replay THEN "replay" ELSE "plan"
             todo == IF slot.replay THEN Profiles ELSE {}
  <2>1. shaper' = [NoShaper EXCEPT !.step = step, !.own = own, !.rows = shaping,
                                   !.match = matching, !.hand = byHand, !.todo = todo]
    BY <1>2 DEF TakeMemory
  <2>2. own \in Memory
    BY <1>1 DEF Memory
  <2>3. todo \subseteq Profiles /\ step \in {"replay", "plan"}
    OBVIOUS
  <2> HIDE DEF own, step, todo
  <2>4. shaper' \in Shapers /\ shaper'.todo = todo
    BY <1>1, <2>1, <2>2, <2>3, KindsBlank DEF Shapers
  <2> QED
    BY <1>1, <1>2, <2>3, <2>4, KindsBlank, KindsMoveOn DEF TakeMemory, userVars
<1>3. CASE Replay
  <2>1. PICK r \in shaper.todo :
          /\ shaper' = [shaper EXCEPT !.todo = @ \ {r}, !.own.defined = @ \cup {r}]
          /\ \/ pool' = pool \cup {r} /\ UNCHANGED acts
             \/ Refused("define") /\ UNCHANGED pool
    BY <1>3 DEF Replay
  <2>2. r \in Profiles /\ shaper.own \in Memory
    BY <1>1, <1>3 DEF Replay, Shapers
  <2> DEFINE own == [shaper.own EXCEPT !.defined = shaper.own.defined \cup {r}]
  <2>3. own \in Memory
    BY <2>2 DEF Memory
  <2>4. shaper' = [shaper EXCEPT !.todo = shaper.todo \ {r}, !.own = own]
    BY <2>1
  <2> HIDE DEF own
  <2>5. shaper' \in Shapers /\ shaper'.todo \subseteq Profiles /\ shaper'.step = "replay"
    BY <1>1, <1>3, <2>3, <2>4 DEF Shapers, Replay
  <2> QED
    BY <1>1, <1>3, <2>1, <2>2, <2>5, KindsMoveOn DEF Replay, userVars, Refused
<1>4. CASE Plan
  <2>1. Planned(shaper.rows, shaper.match) \subseteq Shapeable
    BY DEF Planned
  <2>2. shaper' \in Shapers /\ shaper'.step = "next"
    BY <1>1, <1>4, <2>1 DEF Plan, Shapers
  <2> QED
    BY <1>1, <1>4, <2>2, KindsMoveOn DEF Plan, userVars
<1>5. CASE TakeUp
  <2> DEFINE step(t) ==
               IF Rule(t) = None \/ Rule(t) \in shaper.own.defined THEN "assign" ELSE "define"
  <2>1. PICK t \in shaper.todo :
          shaper' = [shaper EXCEPT !.todo = @ \ {t}, !.at = t, !.step = step(t)]
    BY <1>5 DEF TakeUp
  <2>2. t \in Shapeable /\ step(t) \in Working
    BY <1>5, <2>1 DEF HandInv, TakeUp, Working
  <2> HIDE DEF step
  <2>3. /\ shaper' \in Shapers /\ shaper'.step = step(t)
        /\ shaper'.match = shaper.match /\ shaper'.at = t
    BY <1>1, <2>1, <2>2 DEF Shapers, Working
  <2>4. step(t) # "replay" /\ (step(t) = "define" => RuleFor(shaper.match[t]) # None)
    BY DEF step, Rule
  <2> QED
    BY <1>1, <1>5, <2>3, <2>4, KindsMoveOn DEF TakeUp, userVars
<1>6. CASE Define
  <2> DEFINE r == Rule(shaper.at)
             own == [shaper.own EXCEPT !.defined = shaper.own.defined \cup {r}]
  <2>1. shaper.at \in Shapeable
    BY <1>6 DEF Define, HandInv, Working
  <2>2. r \in Profiles
    BY <1>6, <2>1, RuleIs DEF Define, ShapeKinds, Rule
  <2>3. PICK step \in {"assign", "next"} :
          /\ shaper' = [shaper EXCEPT !.step = step, !.own = own]
          /\ pool' \in {pool, pool \cup {r}}
          /\ UNCHANGED acts \/ Act
    BY <1>6 DEF Define, Refused
  <2>4. own \in Memory
    BY <1>1, <2>2 DEF Memory, Shapers
  <2> HIDE DEF own
  <2>5. shaper' \in Shapers /\ shaper'.step = step
    BY <1>1, <2>3, <2>4 DEF Shapers, Working
  <2> QED
    BY <1>1, <1>6, <2>2, <2>3, <2>5, KindsMoveOn DEF Define, userVars
<1>7. CASE PutBack
  BY <1>1, <1>7, KindsBlank, KindsMoveOn DEF PutBack, userVars, Shapers
<1> QED
  BY <1>2, <1>3, <1>4, <1>5, <1>6, <1>7

\* A step that sets a field of the torrent at hand to what its rule says.
LEMMA KindsSet ==
  ASSUME ShapeKinds, HandInv, Assign \/ SetCaps \/ SetMarker
  PROVE  ShapeKinds'
<1> DEFINE t == shaper.at
           r == Rule(t)
<1>1. /\ t \in Shapeable /\ r \in Profiles \cup {None} /\ shaping[t] \in ShapeRow
      /\ shaping \in [Shapeable -> ShapeRow] /\ shaper \in Shapers
  <2>1. t \in Shapeable
    BY DEF Assign, SetCaps, SetMarker, HandInv, Working
  <2> QED
    BY <2>1, RuleIs DEF ShapeKinds
<1>2. \E row \in ShapeRow :
        /\ shaping' \in {shaping, [shaping EXCEPT ![t] = row]}
        /\ User \in {row.throttle, row.caps} =>
             User \in {shaping[t].throttle, shaping[t].caps}
  <2>1. CASE Assign
    <3> DEFINE row == [shaping[t] EXCEPT !.throttle = r]
    <3>1. row \in ShapeRow /\ row.throttle = r /\ row.caps = shaping[t].caps
      BY <1>1 DEF ShapeRow, Owners
    <3>2. shaping' \in {shaping, [shaping EXCEPT ![t] = row]}
      BY <2>1 DEF Assign
    <3> HIDE DEF row, r
    <3> QED
      BY <1>1, <3>1, <3>2, ProfilesAssumption
  <2>2. CASE SetCaps
    <3> DEFINE caps == IF r \in Capping THEN r ELSE None
               row == [shaping[t] EXCEPT !.caps = caps]
    <3>1. caps \in Profiles \cup {None}
      BY ProfilesAssumption
    <3> HIDE DEF caps
    <3>2. row \in ShapeRow /\ row.caps = caps /\ row.throttle = shaping[t].throttle
      BY <1>1, <3>1 DEF ShapeRow, Owners
    <3>3. shaping' \in {shaping, [shaping EXCEPT ![t] = row]}
      BY <2>2 DEF SetCaps, caps
    <3> HIDE DEF row, r
    <3> QED
      BY <3>1, <3>2, <3>3, ProfilesAssumption
  <2>3. CASE SetMarker
    <3> DEFINE row == [shaping[t] EXCEPT !.marker = r]
    <3>1. row \in ShapeRow /\ row.caps = shaping[t].caps /\ row.throttle = shaping[t].throttle
      BY <1>1 DEF ShapeRow
    <3>2. shaping' \in {shaping, [shaping EXCEPT ![t] = row]}
      BY <2>3 DEF SetMarker
    <3> HIDE DEF row, r
    <3> QED
      BY <3>1, <3>2
  <2> QED
    BY <2>1, <2>2, <2>3
<1>3. /\ shaping' \in [Shapeable -> ShapeRow]
      /\ \A u \in Shapeable : User \in {shaping'[u].throttle, shaping'[u].caps} =>
           User \in {shaping[u].throttle, shaping[u].caps}
  BY <1>1, <1>2
<1>4. \E step \in {"caps", "mark", "next"} : shaper' = [shaper EXCEPT !.step = step]
  BY DEF Assign, SetCaps, SetMarker
<1>5. shaper' \in Shapers /\ shaper'.step \notin {"replay", "define"}
  BY <1>1, <1>4 DEF Shapers, Working
<1>6. UNCHANGED <<matching, pool, slot, byHand, clearing, crossed>> /\ (UNCHANGED acts \/ Act)
  BY DEF Assign, SetCaps, SetMarker, userVars, Refused
<1> QED
  BY <1>3, <1>5, <1>6, ActCounts DEF ShapeKinds, HandMade

LEMMA KindsByHand ==
  ASSUME ShapeKinds, NEW t \in Shapeable, LimitByHand(t) \/ CapByHand(t) \/ UnlimitByHand(t)
  PROVE  ShapeKinds'
<1>1. shaping \in [Shapeable -> ShapeRow] /\ shaping[t] \in ShapeRow
  BY DEF ShapeKinds
<1>2. PICK row \in ShapeRow : ByHand(t, row)
  BY <1>1 DEF LimitByHand, CapByHand, UnlimitByHand, ShapeRow, Owners
<1>3. /\ shaping' = [shaping EXCEPT ![t] = row]
      /\ byHand' = byHand \ {t} /\ clearing' = clearing \cup {t}
      /\ crossed' \subseteq crossed \cup {t}
      /\ UNCHANGED <<matching, pool, slot, shaper>> /\ Act
  BY <1>2 DEF ByHand
<1>4. HandMade'
  BY <1>1, <1>3 DEF HandMade, ShapeKinds
<1> QED
  BY <1>1, <1>3, <1>4, ActCounts DEF ShapeKinds

LEMMA KindsDropMarker ==
  ASSUME ShapeKinds, NEW t \in Shapeable, DropMarker(t)
  PROVE  ShapeKinds'
<1> DEFINE row == [shaping[t] EXCEPT !.marker = None]
<1>1. shaping \in [Shapeable -> ShapeRow] /\ shaping[t] \in ShapeRow
  BY DEF ShapeKinds
<1>2. /\ row \in ShapeRow
      /\ row.throttle = shaping[t].throttle /\ row.caps = shaping[t].caps
  BY <1>1 DEF ShapeRow
<1>3. /\ shaping' = [shaping EXCEPT ![t] = row]
      /\ byHand' = IF Limited(shaping[t]) THEN byHand \cup {t} ELSE byHand \ {t}
      /\ clearing' = clearing \ {t}
      /\ UNCHANGED <<matching, pool, slot, shaper, crossed, acts>>
  BY DEF DropMarker
<1> HIDE DEF row
<1>4. shaping' \in [Shapeable -> ShapeRow]
  BY <1>1, <1>2, <1>3
<1>5. HandMade'
  <2> SUFFICES ASSUME NEW u \in Shapeable, User \in {shaping'[u].throttle, shaping'[u].caps}
               PROVE  u \in byHand' \cup clearing'
    BY DEF HandMade
  <2>1. User \in {shaping[u].throttle, shaping[u].caps}
    BY <1>1, <1>2, <1>3
  <2>2. CASE u = t
    BY <1>3, <2>1, <2>2 DEF Limited
  <2>3. CASE u # t
    BY <1>3, <2>1, <2>3 DEF ShapeKinds, HandMade
  <2> QED
    BY <2>2, <2>3
<1> QED
  BY <1>1, <1>3, <1>4, <1>5 DEF ShapeKinds

LEMMA KindsNext == ShapeKinds /\ HandInv /\ [ShapeNext]_shapeVars => ShapeKinds'
<1> SUFFICES ASSUME ShapeKinds, HandInv, [ShapeNext]_shapeVars PROVE ShapeKinds'
  OBVIOUS
<1>1. CASE ShapeStep
  BY <1>1, KindsPass, KindsSet DEF ShapeStep
<1>2. CASE \E t \in Shapeable :
             LimitByHand(t) \/ CapByHand(t) \/ UnlimitByHand(t) \/ DropMarker(t)
  BY <1>2, KindsByHand, KindsDropMarker
<1>3. CASE \E t \in Shapeable : Retag(t)
  BY <1>3, ActCounts DEF Retag, userVars, ShapeKinds, HandMade
<1>4. CASE LoseSession
  BY <1>4, ActCounts, KindsBlank DEF LoseSession, userVars, ShapeKinds, HandMade
<1>5. CASE UNCHANGED shapeVars
  BY <1>5 DEF shapeVars, userVars, ShapeKinds, HandMade
<1> QED
  BY <1>1, <1>2, <1>3, <1>4, <1>5 DEF ShapeNext

\* Types, and that no marker of a rule stands beside a limit of the user's
\* (bandwidth.rs owns), but where he came under a pass or his command is not over.
THEOREM ShapeTypes == ShapeSpec => []ShapeTypeOK
<1>1. ShapeKinds /\ HandInv => ShapeTypeOK
  <2> SUFFICES ASSUME ShapeKinds, HandInv PROVE ShapeTypeOK
    OBVIOUS
  <2>1. ASSUME NEW t \in Shapeable \ (crossed \cup clearing), shaping[t].marker # None,
               User \in {shaping[t].throttle, shaping[t].caps}
        PROVE  FALSE
    BY <2>1 DEF ShapeKinds, HandMade, HandInv, Mine
  <2> QED
    BY <2>1 DEF ShapeKinds, ShapeTypeOK, Shapers, Working
<1> QED
  BY <1>1, HandInit, HandNext, KindsInit, KindsNext, PTL DEF ShapeSpec

=============================================================================
