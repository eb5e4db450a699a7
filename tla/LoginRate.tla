------------------------------ MODULE LoginRate ------------------------------
(***************************************************************************)
(* The limit on login attempts of server/auth.rs: a fixed window for each  *)
(* address, begun by the first attempt that comes after the end of the one *)
(* before.  One address is modelled, since addresses share nothing.        *)
(***************************************************************************)
EXTENDS Integers, Sequences

CONSTANTS
  RateWindow,    \* RATE_WINDOW
  RateMax,       \* RATE_MAX
  MaxInstant,    \* bound: of the clock
  MaxAdmitted    \* bound: attempts let through

ASSUME RateAssumption ==
  /\ RateWindow \in Nat /\ RateMax \in Nat \ {0}
  /\ MaxInstant \in Nat /\ MaxAdmitted \in Nat

VARIABLES
  instant,
  since, count,   \* the window under way: when it began, its attempts so far
  admitted        \* when attempts were let through, in order

rateVars == <<instant, since, count, admitted>>

RateTypeOK ==
  /\ instant \in Nat /\ since \in 0..instant /\ count \in 0..RateMax + 1
  /\ admitted \in Seq(0..instant)

RateInit == instant = 0 /\ since = 0 /\ count = 0 /\ admitted = <<>>

EndedAtItsEnd == count > 0 /\ instant - since >= RateWindow

Ended == count > 0 /\ instant - since > RateWindow

\* The first attempt of an address begins its window; the attempts past the cap
\* are counted as one.
Attempt ==
  /\ Len(admitted) < MaxAdmitted
  /\ since' = IF count = 0 \/ Ended THEN instant ELSE since
  /\ count' = IF count = 0 \/ Ended THEN 1 ELSE IF count <= RateMax THEN count + 1 ELSE count
  /\ admitted' = IF count' <= RateMax THEN Append(admitted, instant) ELSE admitted
  /\ UNCHANGED instant

InstantPasses == instant < MaxInstant /\ instant' = instant + 1 /\ UNCHANGED <<since, count, admitted>>

RateNext == Attempt \/ InstantPasses

RateSpec == RateInit /\ [][RateNext]_rateVars

----------------------------------------------------------------------------
(* Properties. *)

\* In no span of the length of the window, wherever it begins, are as many as
\* twice RateMax attempts let through.
FewInAnySpan ==
  \A i \in 1..Len(admitted) :
    i + 2 * RateMax - 1 <= Len(admitted) =>
      admitted[i + 2 * RateMax - 1] - admitted[i] > RateWindow
=============================================================================
