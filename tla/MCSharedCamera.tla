--------------------------- MODULE MCSharedCamera ---------------------------
(* Two owners (a live session and a one-shot snapshot) in each of two      *)
(* processes: the smallest instance in which the registry and the lock     *)
(* both have something to decide on either side.                           *)
EXTENDS SharedCamera

CONSTANTS session, snapshot, session2, snapshot2, server, second
MCLeases == {session, snapshot, session2, snapshot2}
MCProcesses == {server, second}
MCProcessOf == [l \in MCLeases |-> IF l \in {session, snapshot} THEN server ELSE second]
=============================================================================
