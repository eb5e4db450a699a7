----------------------------- MODULE MoveClaims -----------------------------
(***************************************************************************)
(* What comments of the code say of it and the code does not do: each is   *)
(* the property of a run that TLC finds violated.                          *)
(***************************************************************************)
EXTENDS MoveProperties

\* mover.rs, resume_moves: "back to Pending so the next tick re-plans from
\* daemon truth".  A Pending entry does not stay for ever.
PendingIsReplanned ==
  \A t \in Torrents :
    LET pending == \E o \in journal : o.id[1] = t /\ o.state = "Pending"
    IN pending ~> ~pending

\* mover.rs, resume_moves: "The copy finished before the kill; finalize
\* without touching bytes".  What recovery settles as Done is whole.
RecoveredIsWhole ==
  [][\A o \in todo :
       [o EXCEPT !.state = "Done"] \in journal' \ journal
       => disk[o.dst] = DataOf(o.id[1])]_vars
=============================================================================
