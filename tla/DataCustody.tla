---------------------------- MODULE DataCustody ----------------------------
(***************************************************************************)
(* What relocation promises about the data of a completed torrent,         *)
(* whatever the order of copies, cancels, failures and kills: whole copies *)
(* appear only from whole copies, and the last one never goes unless the   *)
(* operator throws the data away.                                          *)
(***************************************************************************)
CONSTANTS Torrents, Dirs

VARIABLES
  copies,    \* per torrent, the directories holding a whole copy
  released   \* torrents whose data the operator threw away

Init == copies = [t \in Torrents |-> {}] /\ released = {}

\* The download completes where the daemon keeps it.
Complete(t, d) ==
  /\ copies[t] = {}
  /\ copies' = [copies EXCEPT ![t] = {d}]
  /\ UNCHANGED released

Copy(t, d) ==
  /\ copies[t] # {}
  /\ copies' = [copies EXCEPT ![t] = @ \cup {d}]
  /\ UNCHANGED released

Relocate(t, from, to) ==
  /\ from \in copies[t]
  /\ copies' = [copies EXCEPT ![t] = (@ \ {from}) \cup {to}]
  /\ UNCHANGED released

Drop(t, d) ==
  /\ d \in copies[t]
  /\ copies[t] # {d}
  /\ copies' = [copies EXCEPT ![t] = @ \ {d}]
  /\ UNCHANGED released

\* The operator deletes the data: copies may go from then on.
Release(t) ==
  /\ released' = released \cup {t}
  /\ \E left \in SUBSET copies[t] : copies' = [copies EXCEPT ![t] = left]

Lose(t) ==
  /\ t \in released
  /\ \E left \in SUBSET copies[t] : copies' = [copies EXCEPT ![t] = left]
  /\ UNCHANGED released

Next ==
  \E t \in Torrents :
    \/ Release(t) \/ Lose(t)
    \/ \E d \in Dirs : Complete(t, d) \/ Copy(t, d) \/ Drop(t, d)
    \/ \E d, e \in Dirs : Relocate(t, d, e)

Spec == Init /\ [][Next]_<<copies, released>>
=============================================================================
