------------------------ MODULE MCWatchNotification ------------------------
(***************************************************************************)
(* WatchNotification for TLC: two polls of overlapping keys.               *)
(***************************************************************************)
EXTENDS WatchNotification, TLC

CONSTANTS k1, k2, p1, p2

\* One poll of a key, and one of a prefix that both keys have.
MCWatched == p1 :> {k1} @@ p2 :> {k1, k2}
=============================================================================
