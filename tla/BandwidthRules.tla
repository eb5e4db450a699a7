--------------------------- MODULE BandwidthRules ---------------------------
(***************************************************************************)
(* The bandwidth rules of the desktop client: bandwidth.rs, the stages of  *)
(* policy.rs that replay and execute them, the take and put back of their  *)
(* memory in model.rs, and the limits a user sets by hand (services.rs).   *)
(* The daemon keeps the name of the throttle a torrent is on and, until it *)
(* restarts, what throttles the names stand for.                           *)
(***************************************************************************)
EXTENDS Integers, FiniteSets

CONSTANTS
  Shapeable,   \* torrents
  Profiles,    \* rules, numbered in their order; each has a throttle
  TagRules,    \* those that match a tag; the others match a label
  Capping,     \* those with caps on peers or uploads
  Matches,     \* the sets of rules that the tags and the label of a torrent may match
  Refusals,    \* the calls of the engine that may fail
  Racing,      \* whether a session may be lost under a pass
  MaxActs      \* bound: acts of the user, lost sessions, refusals

None == 0
User == -1

ASSUME ProfilesAssumption ==
  /\ Profiles \subseteq Nat \ {0} /\ IsFiniteSet(Profiles)
  /\ TagRules \subseteq Profiles /\ Capping \subseteq Profiles
  /\ Matches \subseteq SUBSET Profiles
  /\ Refusals \subseteq {"define", "assign", "caps", "mark", "release", "unmark"}
  /\ Racing \in BOOLEAN /\ MaxActs \in Nat

VARIABLES
  matching,   \* the rules a torrent matches
  shaping,    \* its throttle, its caps and its marker: a rule's, the user's or none
  pool,       \* the rules whose throttles the daemon has defined
  slot,       \* the engine's memory where the model keeps it
  shaper,     \* the pass under way, with the memory it took
  byHand,     \* the torrents whose limits are the user's
  clearing,   \* those he has set limits of, with the marker still to be dropped
  crossed,    \* those whose limits he has touched under a pass
  acts

userVars == <<byHand, clearing, crossed>>
shapeVars == <<matching, shaping, pool, slot, shaper, userVars, acts>>

Owners == Profiles \cup {None, User}
ShapeRow == [throttle : Owners, caps : Owners, marker : Profiles \cup {None}]
Memory == [defined : SUBSET Profiles, replay : BOOLEAN]
Blank == [defined |-> {}, replay |-> FALSE]
NoShaping == [throttle |-> None, caps |-> None, marker |-> None]

NoShaper ==
  [step |-> "idle", own |-> Blank, rows |-> [t \in Shapeable |-> NoShaping],
   match |-> [t \in Shapeable |-> {}], hand |-> {}, todo |-> {}, at |-> None]

ShapeTypeOK ==
  /\ matching \in [Shapeable -> Matches]
  /\ shaping \in [Shapeable -> ShapeRow]
  /\ pool \subseteq Profiles
  /\ slot \in Memory /\ shaper.own \in Memory
  /\ shaper.step \in {"idle", "replay", "plan", "next", "define", "assign", "caps", "mark"}
  /\ byHand \subseteq Shapeable /\ clearing \subseteq Shapeable /\ crossed \subseteq Shapeable
  /\ \A t \in Shapeable \ (crossed \cup clearing) :
       shaping[t].marker # None => User \notin {shaping[t].throttle, shaping[t].caps}
  /\ acts \in 0..MaxActs

ShapeInit ==
  /\ matching \in [Shapeable -> Matches]
  /\ shaping = [t \in Shapeable |-> NoShaping]
  /\ pool = {}
  /\ slot = [Blank EXCEPT !.replay = TRUE]
  /\ shaper = NoShaper
  /\ byHand = {} /\ clearing = {} /\ crossed = {}
  /\ acts = 0

----------------------------------------------------------------------------
(* The plan. *)

Lowest(S) == CHOOSE r \in S : \A q \in S : r <= q

RuleFor(rules) ==
  IF rules \cap TagRules # {} THEN Lowest(rules \cap TagRules)
  ELSE IF rules # {} THEN Lowest(rules) ELSE None

AdoptsUnmarked(row, rule) ==
  rule # None /\ row.marker # rule

\* A torrent with a throttle or caps and no marker is the user's.
Adopts(row, rule) ==
  /\ rule # None /\ row.marker # rule
  /\ row.marker # None \/ (row.throttle = None /\ row.caps = None)

Releases(row, rule) == rule = None /\ row.marker # None

Planned(rows, match) ==
  {t \in Shapeable : Adopts(rows[t], RuleFor(match[t])) \/ Releases(rows[t], RuleFor(match[t]))}

----------------------------------------------------------------------------
(* A pass. *)

Act == acts < MaxActs /\ acts' = acts + 1
Refused(call) == call \in Refusals /\ Act

\* The memory is taken, which leaves a blank in its place.
TakeMemory ==
  /\ shaper.step = "idle"
  /\ shaper' = [NoShaper EXCEPT
       !.step = IF slot.replay THEN "replay" ELSE "plan",
       !.own = [slot EXCEPT !.replay = FALSE],
       !.rows = shaping, !.match = matching, !.hand = byHand,
       !.todo = IF slot.replay THEN Profiles ELSE {}]
  /\ slot' = Blank
  /\ crossed' = crossed \cup clearing
  /\ UNCHANGED <<matching, shaping, pool, byHand, clearing, acts>>

\* A definition that fails counts as done.
Replay ==
  /\ shaper.step = "replay" /\ shaper.todo # {}
  /\ \E r \in shaper.todo :
       /\ shaper' = [shaper EXCEPT !.todo = @ \ {r}, !.own.defined = @ \cup {r}]
       /\ \/ pool' = pool \cup {r} /\ UNCHANGED acts
          \/ Refused("define") /\ UNCHANGED pool
  /\ UNCHANGED <<matching, shaping, slot, userVars>>

Plan ==
  /\ shaper.step = "plan" \/ (shaper.step = "replay" /\ shaper.todo = {})
  /\ shaper' = [shaper EXCEPT !.step = "next", !.todo = Planned(shaper.rows, shaper.match)]
  /\ UNCHANGED <<matching, shaping, pool, slot, userVars, acts>>

Rule(t) == RuleFor(shaper.match[t])

TakeUp ==
  /\ shaper.step = "next"
  /\ \E t \in shaper.todo :
       shaper' = [shaper EXCEPT !.todo = @ \ {t}, !.at = t,
         !.step = IF Rule(t) = None \/ Rule(t) \in shaper.own.defined THEN "assign" ELSE "define"]
  /\ UNCHANGED <<matching, shaping, pool, slot, userVars, acts>>

\* A throttle is asked for once in a session, whether or not that succeeds.
Define ==
  /\ shaper.step = "define"
  /\ LET r == Rule(shaper.at) IN
       \/ /\ pool' = pool \cup {r} /\ UNCHANGED acts
          /\ shaper' = [shaper EXCEPT !.step = "assign", !.own.defined = @ \cup {r}]
       \/ /\ Refused("define") /\ UNCHANGED pool
          /\ shaper' = [shaper EXCEPT !.step = "next", !.own.defined = @ \cup {r}]
  /\ UNCHANGED <<matching, shaping, slot, userVars>>

\* An adoption that cannot assign goes no further; a release goes on.
Assign ==
  /\ shaper.step = "assign"
  /\ LET r == Rule(shaper.at) IN
       \/ /\ shaping' = [shaping EXCEPT ![shaper.at].throttle = r]
          /\ shaper' = [shaper EXCEPT !.step = "caps"] /\ UNCHANGED acts
       \/ /\ Refused(IF r = None THEN "release" ELSE "assign") /\ UNCHANGED shaping
          /\ shaper' = [shaper EXCEPT !.step = IF r = None THEN "caps" ELSE "next"]
  /\ UNCHANGED <<matching, pool, slot, userVars>>

SetCaps ==
  /\ shaper.step = "caps"
  /\ LET r == Rule(shaper.at) IN
       \/ /\ shaping' = [shaping EXCEPT ![shaper.at].caps = IF r \in Capping THEN r ELSE None]
          /\ UNCHANGED acts
       \/ Refused(IF r = None THEN "release" ELSE "caps") /\ UNCHANGED shaping
  /\ shaper' = [shaper EXCEPT !.step = "mark"]
  /\ UNCHANGED <<matching, pool, slot, userVars>>

SetMarker ==
  /\ shaper.step = "mark"
  /\ LET r == Rule(shaper.at) IN
       \/ shaping' = [shaping EXCEPT ![shaper.at].marker = r] /\ UNCHANGED acts
       \/ Refused(IF r = None THEN "unmark" ELSE "mark") /\ UNCHANGED shaping
  /\ shaper' = [shaper EXCEPT !.step = "next"]
  /\ UNCHANGED <<matching, pool, slot, userVars>>

PutBack ==
  /\ shaper.step = "next" /\ shaper.todo = {}
  /\ slot' = shaper.own
  /\ shaper' = NoShaper
  /\ UNCHANGED <<matching, shaping, pool, userVars, acts>>

ShapeStep ==
  \/ TakeMemory \/ Replay \/ Plan \/ TakeUp \/ Define \/ Assign
  \/ SetCaps \/ SetMarker \/ PutBack

----------------------------------------------------------------------------
(* Meanwhile. *)

\* The command of a user, until it has set the throttle or the caps.
ByHand(t, row) ==
  /\ Act
  /\ shaping' = [shaping EXCEPT ![t] = row]
  /\ byHand' = byHand \ {t} /\ clearing' = clearing \cup {t}
  /\ crossed' = IF shaper.step # "idle" THEN crossed \cup {t} ELSE crossed
  /\ UNCHANGED <<matching, pool, slot, shaper>>

LimitByHand(t) == ByHand(t, [shaping[t] EXCEPT !.throttle = User])
CapByHand(t) == ByHand(t, [shaping[t] EXCEPT !.caps = User])
UnlimitByHand(t) == ByHand(t, [shaping[t] EXCEPT !.throttle = None])

\* A limit that a pass takes for the user's when no marker goes with it.
Limited(row) == row.throttle # None \/ row.caps # None

DropMarkerForgetting(t) ==
  /\ t \in clearing /\ clearing' = clearing \ {t}
  /\ byHand' = IF Limited(shaping[t]) THEN byHand \cup {t} ELSE byHand \ {t}
  /\ UNCHANGED <<matching, shaping, pool, slot, shaper, crossed, acts>>

\* Every one of them then drops the marker.  That may fail, and is ignored: then
\* this never happens.
DropMarker(t) ==
  /\ t \in clearing /\ clearing' = clearing \ {t}
  /\ shaping' = [shaping EXCEPT ![t].marker = None]
  /\ byHand' = IF Limited(shaping[t]) THEN byHand \cup {t} ELSE byHand \ {t}
  /\ UNCHANGED <<matching, pool, slot, shaper, crossed, acts>>

Retag(t) ==
  /\ Act
  /\ \E rules \in Matches \ {matching[t]} : matching' = [matching EXCEPT ![t] = rules]
  /\ UNCHANGED <<shaping, pool, slot, shaper, userVars>>

ResetWithoutReplay == Blank

Reset == [Blank EXCEPT !.replay = TRUE]

\* The session is lost and found; the daemon may have been restarted.
LoseSession ==
  /\ Act /\ (Racing \/ shaper.step = "idle")
  /\ slot' = Reset
  /\ pool' \in {pool, {}}
  /\ UNCHANGED <<matching, shaping, shaper, userVars>>

ShapeNext ==
  \/ ShapeStep
  \/ \E t \in Shapeable :
       LimitByHand(t) \/ CapByHand(t) \/ UnlimitByHand(t) \/ DropMarker(t) \/ Retag(t)
  \/ LoseSession

ShapeSpec == ShapeInit /\ [][ShapeNext]_shapeVars
ShapeFairness == WF_shapeVars(ShapeStep)

----------------------------------------------------------------------------
(* Properties. *)

\* A limit or a cap that a user set by hand, marker dropped before the poll, stays
\* as he set it: rules keep off it in every pass that follows.
ManualStands ==
  [][ShapeStep => \A t \in (shaper.hand \cap byHand) \ crossed : shaping'[t] = shaping[t]]_shapeVars

\* In the end every other torrent is on the throttle of the rule it matches,
\* marked with it, and the daemon knows that throttle, though calls were refused
\* and the daemon restarted; and on none, with no marker, when it matches none.
RulesSettle ==
  <>[](\A t \in Shapeable \ (byHand \cup clearing \cup crossed) :
         LET r == RuleFor(matching[t]) IN
         /\ shaping[t].throttle = r /\ shaping[t].marker = r
         /\ r # None => r \in pool)
=============================================================================
