----------------------------- MODULE WebSessions -----------------------------
(***************************************************************************)
(* The login sessions of server/auth.rs.  A session's expiry slides with   *)
(* its use; the store on disk is written at once when a session begins or  *)
(* ends, and now and then while it is used.                                *)
(***************************************************************************)
EXTENDS Integers, FiniteSets

CONSTANTS
  Tokens,        \* what a login may mint, each at most once
  Lifetime,      \* SESSION_TTL
  PersistEvery,  \* PERSIST_EVERY
  MaxTime,       \* bound: of the clock
  MaxLosses      \* bound: writes of the store that fail

ASSUME SessionsAssumption ==
  /\ Lifetime \in Nat \ {0} /\ PersistEvery \in Nat
  /\ MaxTime \in Nat /\ MaxLosses \in Nat

VARIABLES
  clock,
  sessions,    \* the live tokens, each with its expiry
  written,     \* when the store was last written, or Never
  store,       \* the file
  minted,      \* every token there was
  signedOut,   \* those revoked, one by one or all at once
  undead,      \* those revoked by a write that failed, and not written over since
  losses

sessionVars == <<clock, sessions, written, store, minted, signedOut, undead, losses>>

Never == -1
IsStore(s) == DOMAIN s \subseteq Tokens /\ s \in [DOMAIN s -> Nat]

SessionsTypeOK ==
  /\ clock \in 0..MaxTime
  /\ IsStore(sessions) /\ IsStore(store)
  /\ \A t \in DOMAIN sessions : sessions[t] <= clock + Lifetime
  /\ \A t \in DOMAIN store : store[t] <= clock + Lifetime
  /\ written \in Nat \cup {Never} /\ written <= clock
  /\ DOMAIN sessions \cup DOMAIN store \subseteq minted /\ minted \subseteq Tokens
  /\ signedOut \subseteq minted /\ undead \subseteq signedOut
  /\ losses \in 0..MaxLosses

SessionsInit ==
  /\ clock = 0
  /\ sessions = <<>> /\ store = <<>>
  /\ written = Never
  /\ minted = {} /\ signedOut = {} /\ undead = {}
  /\ losses = 0

----------------------------------------------------------------------------

Unexpired(s) ==
  LET live == {t \in DOMAIN s : s[t] > clock} IN [t \in live |-> s[t]]
Without(s, S) == [t \in DOMAIN s \ S |-> s[t]]
ExtendedFurther(t) ==
  [u \in DOMAIN sessions \cup {t} |->
     IF u # t THEN sessions[u] ELSE IF t \in DOMAIN sessions THEN sessions[t] + Lifetime ELSE clock + Lifetime]

Extended(t) ==
  [u \in DOMAIN sessions \cup {t} |-> IF u = t THEN clock + Lifetime ELSE sessions[u]]

PersistAnew ==
  /\ written' = clock
  /\ store' = [t \in DOMAIN sessions' |-> clock + Lifetime]
  /\ undead' = undead \cap DOMAIN sessions'
  /\ UNCHANGED losses

\* The store goes to a temporary file that is renamed over the old one: a write
\* that fails leaves it as it was, and counts as a write.
Persist ==
  /\ written' = clock
  /\ \/ store' = sessions' /\ undead' = undead \cap DOMAIN sessions' /\ UNCHANGED losses
     \/ /\ losses < MaxLosses /\ losses' = losses + 1
        /\ undead' = undead \cup (signedOut' \ signedOut) /\ UNCHANGED store

Unwritten == UNCHANGED <<written, store, undead, losses>>

Login(t) ==
  /\ t \in Tokens \ minted
  /\ sessions' = Extended(t)
  /\ minted' = minted \cup {t}
  /\ UNCHANGED <<clock, signedOut>>
  /\ Persist

DueAfterTheLifetime == written = Never \/ clock - written >= Lifetime

Due == written = Never \/ clock - written >= PersistEvery

\* A request with a live token moves its expiry.
Use(t) ==
  /\ t \in DOMAIN sessions /\ sessions[t] > clock
  /\ sessions' = Extended(t)
  /\ UNCHANGED <<clock, minted, signedOut>>
  /\ IF Due THEN Persist ELSE Unwritten

Expire(t) ==
  /\ t \in DOMAIN sessions /\ sessions[t] <= clock
  /\ sessions' = Without(sessions, {t})
  /\ UNCHANGED <<clock, minted, signedOut>>
  /\ Persist

\* Signing out ends one session, signing out everywhere all of them.
RevokeInMemory(S) ==
  /\ S # {}
  /\ sessions' = Without(sessions, S)
  /\ signedOut' = signedOut \cup S
  /\ IF Due THEN Persist ELSE Unwritten
  /\ UNCHANGED <<clock, minted>>

Revoke(S) ==
  /\ S # {}
  /\ sessions' = Without(sessions, S)
  /\ signedOut' = signedOut \cup S
  /\ Persist
  /\ UNCHANGED <<clock, minted>>

Loaded == Unexpired(store)

\* A new process loads what has not expired.
RestartSessions ==
  /\ sessions' = Loaded
  /\ written' = Never
  /\ UNCHANGED <<clock, store, minted, signedOut, undead, losses>>

ClockAdvances ==
  /\ clock < MaxTime
  /\ clock' = clock + 1
  /\ UNCHANGED <<sessions, written, store, minted, signedOut, undead, losses>>

SessionsNext ==
  \/ \E t \in Tokens : Login(t) \/ Use(t) \/ Expire(t)
  \/ \E t \in DOMAIN sessions : Revoke({t})
  \/ Revoke(DOMAIN sessions)
  \/ RestartSessions \/ ClockAdvances

SessionsSpec == SessionsInit /\ [][SessionsNext]_sessionVars

----------------------------------------------------------------------------
(* Properties. *)

\* Who signed out is out, now and after a restart: memory and file list no
\* revoked session, but one whose write failed and that a restart brings back
\* before the next write.
SignedOutIsOut ==
  \A t \in signedOut : t \in DOMAIN sessions \cup DOMAIN store => t \in undead

\* The throttle loses little: without failing writes, what the file has not of
\* a session is uses since the last write, and less than PersistEvery after it;
\* a use later than that is on disk.
FileLagsBriefly ==
  losses = 0 =>
    \A t \in DOMAIN sessions :
      \/ t \in DOMAIN store /\ store[t] = sessions[t]
      \/ written # Never /\ sessions[t] < written + PersistEvery + Lifetime

\* The file never keeps a session longer than its use does: whatever writes
\* fail and whenever the server restarts, nobody is let in later than Lifetime
\* after the last use of the session.
FileNeverLeads ==
  \A t \in DOMAIN sessions \cap DOMAIN store : store[t] <= sessions[t]
=============================================================================
