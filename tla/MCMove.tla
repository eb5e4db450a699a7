------------------------------- MODULE MCMove -------------------------------
(***************************************************************************)
(* Instances of MoveOnComplete for TLC.                                    *)
(***************************************************************************)
EXTENDS MoveClaims, TLC

CONSTANTS t1, t2, incoming, library, show, film

\* One torrent, loaded into the incomplete dir, its home recorded.
OneTorrent == {t1}
OneName == {show}
OneNameOf == t1 :> show
OneStart == t1 :> incoming
OneRecorded == t1 :> library
NoRule == [t \in Torrents |-> NoDir]

\* Two torrents with names of their own: one is sent home by a rule, the other
\* has its home recorded.
TwoTorrents == {t1, t2}
TwoNames == {show, film}
TwoNameOf == t1 :> show @@ t2 :> film
TwoStart == t1 :> incoming @@ t2 :> incoming
TwoRecorded == t1 :> NoDir @@ t2 :> library
TwoRule == t1 :> library @@ t2 :> NoDir

TwoDirs == {incoming, library}
OnePaths == TwoDirs \X OneName \X {0}
SuffixPaths == TwoDirs \X TwoNames \X {0, 1}
=============================================================================
