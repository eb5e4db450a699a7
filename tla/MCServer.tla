------------------------------- MODULE MCServer -------------------------------
(***************************************************************************)
(* The import job, the login sessions and the login limit of the server    *)
(* for TLC.  They share no state, so each behaviour is one of one of them, *)
(* with the two others asleep.                                             *)
(***************************************************************************)
EXTENDS SessionImport, WebSessions, LoginRate

VARIABLE part

rest == <<part>>
serverVars == <<part, importVars, sessionVars, rateVars>>

\* Two manifests that share a torrent.
TwoManifests == {[id |-> "a", items |-> {1, 2}], [id |-> "b", items |-> {2, 3}]}

----------------------------------------------------------------------------

ServerInit ==
  /\ part \in {"import", "sessions", "rate"}
  /\ ImportInit /\ SessionsInit /\ RateInit

ImportsOn == part = "import" /\ JobStep /\ UNCHANGED <<rest, sessionVars, rateVars>>
Imports == part = "import" /\ ImportNext /\ UNCHANGED <<rest, sessionVars, rateVars>>
SignsIn == part = "sessions" /\ SessionsNext /\ UNCHANGED <<rest, importVars, rateVars>>
Tries == part = "rate" /\ RateNext /\ UNCHANGED <<rest, importVars, sessionVars>>

ServerNext == Imports \/ SignsIn \/ Tries

\* ImportFairness, of the import when it is the one awake.
ServerSpec ==
  ServerInit /\ [][ServerNext]_serverVars /\ WF_serverVars(ImportsOn)
=============================================================================
