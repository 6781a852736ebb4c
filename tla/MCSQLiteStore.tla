---------------------------- MODULE MCSQLiteStore ---------------------------
(* Instance of SQLiteStore for TLC. *)
EXTENDS SQLiteStore

CONSTANTS w, p, ka, kb

(* One key with two contents, and a big observation that outlives it. *)
MCObservations == {[key |-> ka, size |-> 1, ttl |-> 1], [key |-> ka, size |-> 2, ttl |-> 1],
                   [key |-> kb, size |-> 2, ttl |-> 2]}
=============================================================================
