----------------------------- MODULE LoginProofs ------------------------------
(***************************************************************************)
(* Proofs about the logins: the session store, for any tokens, lifetime    *)
(* and throttle, and the limit on attempts, for any cap, window and number *)
(* of attempts.                                                            *)
(***************************************************************************)
EXTENDS WebSessions, LoginRate, TLAPS

(***************************************************************************)
(* The sessions.  Each property is inductive given the types, whose one    *)
(* fact that is more than a type is that no expiry lies further off than a *)
(* lifetime.  An operation ends in a write that is done, one that fails,   *)
(* or in none; the facts about its new sessions are stated before, the     *)
(* cases after.                                                            *)
(***************************************************************************)

USE SessionsAssumption

(* The sessions after an operation. *)

LEMMA ExtendedType ==
  ASSUME NEW t \in Tokens, clock \in Nat, IsStore(sessions),
         \A u \in DOMAIN sessions : sessions[u] <= clock + Lifetime
  PROVE /\ IsStore(Extended(t)) /\ DOMAIN Extended(t) = DOMAIN sessions \cup {t}
        /\ Extended(t)[t] = clock + Lifetime
        /\ \A u \in DOMAIN sessions : Extended(t)[u] >= sessions[u]
        /\ \A u \in DOMAIN sessions \ {t} : Extended(t)[u] = sessions[u]
        /\ \A u \in DOMAIN Extended(t) : Extended(t)[u] <= clock + Lifetime
BY DEF Extended, IsStore

LEMMA WithoutType ==
  ASSUME NEW s, IsStore(s), NEW S
  PROVE /\ IsStore(Without(s, S)) /\ DOMAIN Without(s, S) = DOMAIN s \ S
        /\ \A u \in DOMAIN s \ S : Without(s, S)[u] = s[u]
BY DEF Without, IsStore

LEMMA LoadedType ==
  ASSUME IsStore(store)
  PROVE /\ IsStore(Loaded) /\ DOMAIN Loaded \subseteq DOMAIN store
        /\ \A u \in DOMAIN Loaded : Loaded[u] = store[u]
BY DEF Loaded, Unexpired, IsStore

\* What is common to the operations on the sessions: none of them forgets who
\* signed out, lets a token expire earlier, or brings a token back.
Operation ==
  /\ clock' = clock /\ IsStore(sessions')
  /\ minted \subseteq minted' /\ minted' \subseteq Tokens /\ DOMAIN sessions' \subseteq minted'
  /\ signedOut \subseteq signedOut' /\ signedOut' \subseteq minted'
  /\ DOMAIN sessions' \cap signedOut' \subseteq DOMAIN sessions \cap signedOut
  /\ \A u \in DOMAIN sessions' : sessions'[u] <= clock + Lifetime
  /\ \A u \in DOMAIN sessions' \cap minted :
       u \in DOMAIN sessions /\ sessions'[u] >= sessions[u]

LEMMA LoginOperates ==
  ASSUME SessionsTypeOK, NEW t \in Tokens, Login(t) PROVE Operation
<1>1. sessions' = Extended(t) /\ t \notin minted /\ minted' = minted \cup {t}
  BY DEF Login
<1>2. /\ clock \in Nat /\ IsStore(sessions) /\ DOMAIN sessions \subseteq minted
      /\ \A u \in DOMAIN sessions : sessions[u] \in Nat /\ sessions[u] <= clock + Lifetime
  BY DEF SessionsTypeOK, IsStore
<1>3. DOMAIN sessions' = DOMAIN sessions \cup {t} /\ IsStore(sessions')
  BY <1>1, <1>2, ExtendedType
<1>4. /\ \A u \in DOMAIN sessions' : sessions'[u] <= clock + Lifetime
      /\ \A u \in DOMAIN sessions : sessions'[u] >= sessions[u]
  BY <1>1, <1>2, ExtendedType
<1> QED BY <1>1, <1>2, <1>3, <1>4 DEF Login, Operation, SessionsTypeOK

LEMMA UseOperates ==
  ASSUME SessionsTypeOK, NEW t \in Tokens, Use(t) PROVE Operation
<1>1. sessions' = Extended(t) /\ t \in DOMAIN sessions /\ UNCHANGED <<clock, minted, signedOut>>
  BY DEF Use
<1>2. /\ clock \in Nat /\ IsStore(sessions) /\ DOMAIN sessions \subseteq minted
      /\ \A u \in DOMAIN sessions : sessions[u] \in Nat /\ sessions[u] <= clock + Lifetime
  BY DEF SessionsTypeOK, IsStore
<1>3. DOMAIN sessions' = DOMAIN sessions /\ IsStore(sessions')
  BY <1>1, <1>2, ExtendedType
<1>4. \A u \in DOMAIN sessions :
        sessions'[u] >= sessions[u] /\ sessions'[u] <= clock + Lifetime
  BY <1>1, <1>2, <1>3, ExtendedType
<1>5. minted \subseteq Tokens /\ signedOut \subseteq minted
  BY DEF SessionsTypeOK
<1> QED BY <1>1, <1>2, <1>3, <1>4, <1>5 DEF Operation

LEMMA ExpireOperates ==
  ASSUME SessionsTypeOK, NEW t \in Tokens, Expire(t) PROVE Operation
<1>1. /\ sessions' = Without(sessions, {t}) /\ minted' = minted /\ clock' = clock
      /\ signedOut' = signedOut
  BY DEF Expire
<1>2. /\ clock \in Nat /\ IsStore(sessions) /\ DOMAIN sessions \subseteq minted
      /\ \A u \in DOMAIN sessions : sessions[u] \in Nat /\ sessions[u] <= clock + Lifetime
  BY DEF SessionsTypeOK, IsStore
<1>3. /\ IsStore(sessions') /\ DOMAIN sessions' = DOMAIN sessions \ {t}
      /\ \A u \in DOMAIN sessions' : sessions'[u] = sessions[u]
  BY <1>1, <1>2, WithoutType
<1>4. \A u \in DOMAIN sessions' :
        u \in DOMAIN sessions /\ sessions'[u] >= sessions[u] /\ sessions'[u] <= clock + Lifetime
  BY <1>2, <1>3
<1>5. minted \subseteq Tokens /\ signedOut \subseteq minted
  BY DEF SessionsTypeOK
<1> QED BY <1>1, <1>2, <1>3, <1>4, <1>5 DEF Operation

LEMMA RevokeOperates ==
  ASSUME SessionsTypeOK, NEW S \in SUBSET DOMAIN sessions, Revoke(S) PROVE Operation
<1>1. /\ sessions' = Without(sessions, S) /\ minted' = minted /\ clock' = clock
      /\ signedOut' = signedOut \cup S
  BY DEF Revoke
<1>2. /\ clock \in Nat /\ IsStore(sessions) /\ DOMAIN sessions \subseteq minted
      /\ \A u \in DOMAIN sessions : sessions[u] \in Nat /\ sessions[u] <= clock + Lifetime
  BY DEF SessionsTypeOK, IsStore
<1>3. /\ IsStore(sessions') /\ DOMAIN sessions' = DOMAIN sessions \ S
      /\ \A u \in DOMAIN sessions' : sessions'[u] = sessions[u]
  <2>1. /\ IsStore(Without(sessions, S)) /\ DOMAIN Without(sessions, S) = DOMAIN sessions \ S
        /\ \A u \in DOMAIN sessions \ S : Without(sessions, S)[u] = sessions[u]
    BY <1>2, WithoutType, Zenon
  <2> QED BY <1>1, <2>1
<1>4. \A u \in DOMAIN sessions' :
        u \in DOMAIN sessions /\ sessions'[u] >= sessions[u] /\ sessions'[u] <= clock + Lifetime
  BY <1>2, <1>3
<1>5. minted \subseteq Tokens /\ signedOut \subseteq minted
  BY DEF SessionsTypeOK
<1> QED BY <1>1, <1>2, <1>3, <1>4, <1>5 DEF Operation

\* A step is an operation with or without a write, a restart or a tick.
LEMMA Steps ==
  ASSUME SessionsTypeOK, SessionsNext
  PROVE \/ Operation /\ Persist
        \/ Operation /\ Unwritten /\ ~Due /\ \E t \in Tokens : Use(t)
        \/ RestartSessions \/ ClockAdvances
<1>1. ASSUME NEW t \in Tokens, Login(t) PROVE Operation /\ Persist
  BY <1>1, LoginOperates DEF Login
<1>2. ASSUME NEW t \in Tokens, Use(t) PROVE Operation /\ (Persist \/ (~Due /\ Unwritten))
  BY <1>2, UseOperates DEF Use
<1>3. ASSUME NEW t \in Tokens, Expire(t) PROVE Operation /\ Persist
  BY <1>3, ExpireOperates DEF Expire
<1>4. ASSUME NEW S \in SUBSET DOMAIN sessions, Revoke(S) PROVE Operation /\ Persist
  BY <1>4, RevokeOperates DEF Revoke
<1> QED BY <1>1, <1>2, <1>3, <1>4 DEF SessionsNext

(* Type correctness. *)

LEMMA SessionsTypeKept == SessionsTypeOK /\ [SessionsNext]_sessionVars => SessionsTypeOK'
<1> SUFFICES ASSUME SessionsTypeOK, [SessionsNext]_sessionVars PROVE SessionsTypeOK'
  OBVIOUS
<1>1. CASE Operation /\ Persist
  BY <1>1 DEF Operation, Persist, SessionsTypeOK, IsStore, Never
<1>2. CASE Operation /\ Unwritten
  BY <1>2 DEF Operation, Unwritten, SessionsTypeOK, IsStore, Never
<1>3. CASE RestartSessions
  <2>1. \A t \in DOMAIN sessions' : sessions'[t] <= clock + Lifetime
    BY <1>3, LoadedType DEF RestartSessions, SessionsTypeOK
  <2> QED BY <1>3, <2>1, LoadedType DEF RestartSessions, SessionsTypeOK, Never
<1>4. CASE ClockAdvances
  <2>1. /\ \A t \in DOMAIN sessions : sessions[t] \in Nat
        /\ \A t \in DOMAIN store : store[t] \in Nat
    BY DEF SessionsTypeOK, IsStore
  <2> QED BY <1>4, <2>1 DEF ClockAdvances, SessionsTypeOK, IsStore, Never
<1>5. CASE UNCHANGED sessionVars
  BY <1>5 DEF sessionVars, SessionsTypeOK, IsStore
<1> QED BY <1>1, <1>2, <1>3, <1>4, <1>5, Steps

\* No live or stored session outlasts a lifetime from now, and whatever is live
\* or stored was once minted (auth.rs Sessions).
THEOREM SessionsTypeCorrect == SessionsSpec => []SessionsTypeOK
<1>1. SessionsInit => SessionsTypeOK
  BY DEF SessionsInit, SessionsTypeOK, IsStore, Never
<1> QED BY <1>1, SessionsTypeKept, PTL DEF SessionsSpec

(* Signing out. *)

\* Who signed out is out, now and after any restart, unless the write that said
\* so failed (auth.rs revoke, revoke_all, persist).
THEOREM SignedOutStaysOut == SessionsSpec => []SignedOutIsOut
<1>1. SessionsInit => SignedOutIsOut
  BY DEF SessionsInit, SignedOutIsOut
<1>2. SessionsTypeOK /\ SignedOutIsOut /\ [SessionsNext]_sessionVars => SignedOutIsOut'
  <2> SUFFICES ASSUME SessionsTypeOK, SignedOutIsOut, [SessionsNext]_sessionVars,
                      NEW t \in signedOut', t \in DOMAIN sessions' \cup DOMAIN store'
               PROVE t \in undead'
    BY DEF SignedOutIsOut
  <2>1. CASE Operation /\ Persist
    <3>1. t \in DOMAIN sessions' => t \in undead
      BY <2>1 DEF Operation, SignedOutIsOut
    <3>2. CASE store' = sessions' /\ undead' = undead \cap DOMAIN sessions'
      BY <3>1, <3>2
    <3>3. CASE undead' = undead \cup (signedOut' \ signedOut) /\ store' = store
      BY <3>1, <3>3 DEF SignedOutIsOut
    <3> QED BY <2>1, <3>2, <3>3 DEF Persist
  <2>2. CASE Operation /\ Unwritten /\ \E u \in Tokens : Use(u)
    BY <2>2 DEF Operation, Unwritten, Use, SignedOutIsOut
  <2>3. CASE RestartSessions
    BY <2>3, LoadedType DEF RestartSessions, SignedOutIsOut, SessionsTypeOK
  <2>4. CASE ClockAdvances
    BY <2>4 DEF ClockAdvances, SignedOutIsOut
  <2>5. CASE UNCHANGED sessionVars
    BY <2>5 DEF sessionVars, SignedOutIsOut
  <2> QED BY <2>1, <2>2, <2>3, <2>4, <2>5, Steps
<1> QED BY <1>1, <1>2, SessionsTypeCorrect, PTL DEF SessionsSpec

(* The file and the memory. *)

\* Nobody is let in later than a lifetime after the last use of a session: the
\* file never has a later expiry than memory, whatever writes fail and whenever
\* the server restarts (auth.rs validate, persist, with_store).
THEOREM FileStaysBehind == SessionsSpec => []FileNeverLeads
<1>1. SessionsInit => FileNeverLeads
  BY DEF SessionsInit, FileNeverLeads
<1>2. SessionsTypeOK /\ FileNeverLeads /\ [SessionsNext]_sessionVars => FileNeverLeads'
  <2> SUFFICES ASSUME SessionsTypeOK, FileNeverLeads, [SessionsNext]_sessionVars,
                      NEW t \in DOMAIN sessions' \cap DOMAIN store'
               PROVE store'[t] <= sessions'[t]
    BY DEF FileNeverLeads
  <2>t. /\ \A u \in DOMAIN sessions : sessions[u] \in Nat
        /\ \A u \in DOMAIN store : store[u] \in Nat /\ u \in minted
    BY DEF SessionsTypeOK, IsStore
  <2>1. CASE Operation /\ store' = sessions'
    BY <2>1 DEF Operation, IsStore
  <2>2. CASE Operation /\ store' = store
    <3>1. t \in DOMAIN sessions /\ sessions'[t] >= sessions[t] /\ sessions'[t] \in Nat
      BY <2>2, <2>t DEF Operation, IsStore
    <3>2. store[t] <= sessions[t]
      BY <2>2, <3>1 DEF FileNeverLeads
    <3> QED BY <2>2, <2>t, <3>1, <3>2
  <2>3. CASE RestartSessions
    BY <2>3, <2>t, LoadedType DEF RestartSessions, SessionsTypeOK
  <2>4. CASE ClockAdvances
    BY <2>4 DEF ClockAdvances, FileNeverLeads
  <2>5. CASE UNCHANGED sessionVars
    BY <2>5 DEF sessionVars, FileNeverLeads
  <2> QED BY <2>1, <2>2, <2>3, <2>4, <2>5, Steps DEF Persist, Unwritten
<1> QED BY <1>1, <1>2, SessionsTypeCorrect, PTL DEF SessionsSpec

\* What the throttle of the writes may lose, when none fails, is less than
\* PERSIST_EVERY of the life of a session (auth.rs validate).
THEOREM FileLagsLittle == SessionsSpec => []FileLagsBriefly
<1>1. SessionsInit => FileLagsBriefly
  BY DEF SessionsInit, FileLagsBriefly
<1>2. SessionsTypeOK /\ FileLagsBriefly /\ [SessionsNext]_sessionVars => FileLagsBriefly'
  <2> SUFFICES ASSUME SessionsTypeOK, FileLagsBriefly, [SessionsNext]_sessionVars,
                      losses' = 0, NEW t \in DOMAIN sessions'
               PROVE \/ t \in DOMAIN store' /\ store'[t] = sessions'[t]
                     \/ /\ written' # Never
                        /\ sessions'[t] < written' + PersistEvery + Lifetime
    BY DEF FileLagsBriefly
  <2>1. CASE Operation /\ Persist
    <3>1. store' = sessions'
      BY <2>1 DEF Persist, SessionsTypeOK
    <3> QED BY <3>1
  <2>2. CASE Unwritten /\ ~Due /\ \E u \in Tokens : Use(u)
    <3>1. PICK u \in Tokens : Use(u)
      BY <2>2
    <3>2. written # Never /\ clock - written < PersistEvery /\ written \in Nat /\ clock \in Nat
      BY <2>2 DEF Due, SessionsTypeOK
    <3>3. /\ IsStore(sessions) /\ \A v \in DOMAIN sessions : sessions[v] <= clock + Lifetime
          /\ u \in DOMAIN sessions /\ sessions' = Extended(u)
      BY <3>1 DEF SessionsTypeOK, Use
    <3>4. CASE t = u
      <4>1. sessions'[t] = clock + Lifetime
        BY <3>2, <3>3, <3>4, ExtendedType
      <4> QED BY <2>2, <3>2, <4>1 DEF Unwritten
    <3>5. CASE t # u
      <4>1. t \in DOMAIN sessions /\ sessions'[t] = sessions[t]
        BY <3>2, <3>3, <3>5, ExtendedType
      <4> QED BY <2>2, <4>1 DEF Unwritten, FileLagsBriefly
    <3> QED BY <3>4, <3>5
  <2>3. CASE RestartSessions
    BY <2>3, LoadedType DEF RestartSessions, SessionsTypeOK
  <2>4. CASE ClockAdvances
    BY <2>4 DEF ClockAdvances, FileLagsBriefly
  <2>5. CASE UNCHANGED sessionVars
    BY <2>5 DEF sessionVars, FileLagsBriefly
  <2> QED BY <2>1, <2>2, <2>3, <2>4, <2>5, Steps
<1> QED BY <1>1, <1>2, SessionsTypeCorrect, PTL DEF SessionsSpec

----------------------------------------------------------------------------
(***************************************************************************)
(* The limit lets fewer than twice its cap through in any span of its      *)
(* window.  The attempts let through by the window under way are the last  *)
(* ones; the one that began it came when it began; and whichever attempt   *)
(* has a cap's worth of others between itself and that one came a whole    *)
(* window before.                                                          *)
(***************************************************************************)

USE RateAssumption

Within == IF count <= RateMax THEN count ELSE RateMax
Before == Len(admitted) - Within   \* how many earlier windows let through

RateInv ==
  /\ RateTypeOK
  /\ Within <= Len(admitted)
  /\ count = 0 => Len(admitted) = 0
  /\ count > 0 => admitted[Before + 1] = since
  /\ \A i \in 1..Len(admitted) : i <= Before => admitted[i] <= since
  /\ \A i \in 1..Len(admitted) : i + RateMax <= Before + 1 => admitted[i] + RateWindow < since
  /\ FewInAnySpan

LEMMA RateInitially == RateInit => RateInv
BY DEF RateInit, RateInv, RateTypeOK, FewInAnySpan, Within, Before

\* What letting an attempt through does to the record of them.
LEMMA Recorded ==
  ASSUME RateTypeOK, admitted' = Append(admitted, instant)
  PROVE /\ admitted' \in Seq(0..instant)
        /\ Len(admitted') = Len(admitted) + 1
        /\ admitted'[Len(admitted) + 1] = instant
        /\ \A i \in 1..Len(admitted) : admitted'[i] = admitted[i]
        /\ \A i \in 1..Len(admitted) : admitted[i] \in 0..instant
BY DEF RateTypeOK

LEMMA AttemptKeeps == RateInv /\ Attempt => RateInv'
<1> SUFFICES ASSUME RateInv, Attempt PROVE RateInv'
  OBVIOUS
<1> DEFINE n == Len(admitted)
<1>0. /\ n \in Nat /\ count \in Nat /\ count <= RateMax + 1
      /\ since \in Nat /\ instant \in Nat /\ since <= instant
      /\ instant' = instant /\ Within \in Nat
  BY DEF RateInv, RateTypeOK, Attempt, Within
<1>1. CASE count = 0 \/ Ended
  <2>1. since' = instant /\ count' = 1 /\ admitted' = Append(admitted, instant)
    BY <1>1 DEF Attempt
  <2>2. Len(admitted') = n + 1 /\ Within' = 1 /\ Before' = n
    BY <2>1, Recorded DEF RateInv, Within, Before
  <2>3. RateTypeOK'
    BY <1>0, <2>1, Recorded DEF RateInv, RateTypeOK
  <2>4. \A i \in 1..n : admitted'[i] = admitted[i] /\ admitted[i] \in 0..instant
    BY <2>1, Recorded DEF RateInv
  <2>5. admitted'[n + 1] = instant
    BY <2>1, Recorded DEF RateInv
  <2>6. ASSUME NEW i \in 1..n, i + RateMax <= n + 1 PROVE admitted[i] + RateWindow < instant
    <3>1. count > 0 /\ Ended
      BY <1>1, <1>0 DEF RateInv
    <3>2. since + RateWindow < instant
      BY <3>1, <1>0 DEF Ended
    <3>3. i <= Before + 1
      BY <1>0, <2>6 DEF Within, Before
    <3>4. admitted[i] <= since
      <4>1. CASE i = Before + 1
        BY <3>1, <4>1, <1>0 DEF RateInv
      <4>2. CASE i <= Before
        BY <4>2 DEF RateInv
      <4> QED BY <3>3, <4>1, <4>2, <1>0 DEF Before
    <3> QED BY <2>4, <3>2, <3>4, <1>0
  <2>7. FewInAnySpan'
    <3> SUFFICES ASSUME NEW i \in 1..(n + 1), i + 2 * RateMax - 1 <= n + 1
                 PROVE admitted'[i + 2 * RateMax - 1] - admitted'[i] > RateWindow
      BY <2>2 DEF FewInAnySpan
    <3>1. i \in 1..n /\ i + 2 * RateMax - 1 \in 1..(n + 1)
      BY <1>0
    <3>2. CASE i + 2 * RateMax - 1 = n + 1
      <4>1. i + RateMax <= n + 1
        BY <3>2, <1>0
      <4>2. admitted[i] + RateWindow < instant
        BY <2>6, <3>1, <4>1
      <4>3. admitted[i] \in Int /\ RateWindow \in Int
        BY <2>4, <3>1, <1>0
      <4>4. instant - admitted[i] > RateWindow
        BY <4>2, <4>3, <1>0
      <4> QED BY <2>4, <2>5, <3>1, <3>2, <4>4
    <3>3. CASE i + 2 * RateMax - 1 <= n
      BY <2>4, <3>1, <3>3, <1>0 DEF RateInv, FewInAnySpan
    <3> QED BY <3>1, <3>2, <3>3, <1>0
  <2>8. \A i \in 1..(n + 1) : i <= n => admitted'[i] <= instant
    BY <2>4, <1>0
  <2>9. \A i \in 1..(n + 1) : i + RateMax <= n + 1 => admitted'[i] + RateWindow < instant
    BY <2>4, <2>6, <1>0
  <2> QED BY <2>1, <2>2, <2>3, <2>5, <2>7, <2>8, <2>9, <1>0 DEF RateInv
<1>2. CASE ~(count = 0 \/ Ended) /\ count < RateMax
  <2>1. since' = since /\ count' = count + 1 /\ admitted' = Append(admitted, instant)
    BY <1>2, <1>0 DEF Attempt
  <2>2. Len(admitted') = n + 1 /\ Within' = Within + 1 /\ Before' = Before
    <3>1. Len(admitted') = n + 1
      BY <2>1, Recorded DEF RateInv
    <3>2. Within = count /\ Within' = count + 1
      BY <1>2, <2>1, <1>0 DEF Within
    <3> QED BY <3>1, <3>2, <1>0 DEF Before
  <2>10. count > 0 /\ Before \in Nat /\ Before + 1 \in 1..n
    BY <1>2, <1>0 DEF RateInv, Within, Before
  <2>3. RateTypeOK'
    BY <1>2, <1>0, <2>1, Recorded DEF RateInv, RateTypeOK
  <2>4. \A i \in 1..n : admitted'[i] = admitted[i] /\ admitted[i] \in 0..instant
    BY <2>1, Recorded DEF RateInv
  <2>5. admitted'[n + 1] = instant
    BY <2>1, Recorded DEF RateInv
  <2>6. FewInAnySpan'
    <3> SUFFICES ASSUME NEW i \in 1..(n + 1), i + 2 * RateMax - 1 <= n + 1
                 PROVE admitted'[i + 2 * RateMax - 1] - admitted'[i] > RateWindow
      BY <2>2 DEF FewInAnySpan
    <3>1. i \in 1..n /\ i + 2 * RateMax - 1 \in 1..(n + 1)
      BY <1>0
    <3>2. CASE i + 2 * RateMax - 1 = n + 1
      <4>1. i + RateMax <= Before + 1
        BY <1>2, <3>2, <1>0 DEF Before, Within
      <4>2. admitted[i] + RateWindow < since
        BY <3>1, <4>1 DEF RateInv
      <4> QED BY <2>4, <2>5, <3>1, <3>2, <4>2, <1>0
    <3>3. CASE i + 2 * RateMax - 1 <= n
      BY <2>4, <3>1, <3>3, <1>0 DEF RateInv, FewInAnySpan
    <3> QED BY <3>1, <3>2, <3>3, <1>0
  <2>7. admitted'[Before' + 1] = since'
    <3>1. admitted[Before + 1] = since
      BY <2>10 DEF RateInv
    <3>2. admitted'[Before + 1] = since
      BY <2>10, <2>4, <3>1
    <3> QED BY <2>1, <2>2, <3>2
  <2>8. \A i \in 1..(n + 1) : i <= Before' => admitted'[i] <= since'
    <3> SUFFICES ASSUME NEW i \in 1..(n + 1), i <= Before
                 PROVE admitted'[i] <= since
      BY <2>1, <2>2
    <3>1. i \in 1..n
      BY <2>10, <1>0
    <3> QED BY <2>4, <3>1 DEF RateInv
  <2>9. \A i \in 1..(n + 1) : i + RateMax <= Before' + 1 => admitted'[i] + RateWindow < since'
    <3> SUFFICES ASSUME NEW i \in 1..(n + 1), i + RateMax <= Before + 1
                 PROVE admitted'[i] + RateWindow < since
      BY <2>1, <2>2
    <3>1. i \in 1..n
      BY <2>10, <1>0
    <3> QED BY <2>4, <3>1 DEF RateInv
  <2> QED BY <2>1, <2>2, <2>3, <2>6, <2>7, <2>8, <2>9, <1>0 DEF RateInv
<1>3. CASE ~(count = 0 \/ Ended) /\ count >= RateMax
  <2>1. since' = since /\ count' = RateMax + 1 /\ admitted' = admitted
    BY <1>3, <1>0 DEF Attempt
  <2>2. Within' = Within /\ Before' = Before
    BY <1>3, <2>1, <1>0 DEF Within, Before
  <2> QED BY <1>3, <2>1, <2>2, <1>0 DEF RateInv, RateTypeOK, FewInAnySpan
<1> QED BY <1>1, <1>2, <1>3, <1>0

LEMMA InstantKeeps == RateInv /\ InstantPasses => RateInv'
<1> SUFFICES ASSUME RateInv, InstantPasses PROVE RateInv'
  OBVIOUS
<1>1. Within' = Within /\ Before' = Before
  BY DEF InstantPasses, Within, Before
<1>2. admitted \in Seq(0..instant')
  BY DEF InstantPasses, RateInv, RateTypeOK
<1> QED BY <1>1, <1>2 DEF InstantPasses, RateInv, RateTypeOK, FewInAnySpan

LEMMA RateInvariant == RateSpec => []RateInv
<1>1. RateInv /\ UNCHANGED rateVars => RateInv'
  BY DEF RateInv, RateTypeOK, FewInAnySpan, Within, Before, rateVars
<1>2. RateInv /\ [RateNext]_rateVars => RateInv'
  BY <1>1, AttemptKeeps, InstantKeeps DEF RateNext
<1> QED BY RateInitially, <1>2, PTL DEF RateSpec

\* The count of a window never exceeds the cap by more than one, and attempts
\* are recorded at times that have been.
THEOREM RateTypeCorrect == RateSpec => []RateTypeOK
<1>1. RateInv => RateTypeOK
  BY DEF RateInv
<1> QED BY <1>1, RateInvariant, PTL

\* In no span of the length of the window are twice RateMax attempts let
\* through (auth.rs, RateLimiter::allow), however they fall on its windows.
THEOREM FewInEverySpan == RateSpec => []FewInAnySpan
<1>1. RateInv => FewInAnySpan
  BY DEF RateInv
<1> QED BY <1>1, RateInvariant, PTL
=============================================================================
