---------------------------- MODULE BoundedStore ----------------------------
(***************************************************************************)
(* What a store of observations promises, however many programs share it:  *)
(* an idempotency key names one row, sequence numbers only ever go up, the *)
(* limits hold, and a row goes away only after it has expired.             *)
(***************************************************************************)
EXTENDS Naturals, FiniteSets, FiniteSetsExt

CONSTANTS MaxRows, MaxBytes

VARIABLES
  rows,   \* records with fields key, size, seq and expires
  next,   \* the next sequence number
  now     \* the wall clock

bvars == <<rows, next, now>>

Bytes(R) == MapThenSumSet(LAMBDA r : r.size, R)
WithinLimits(R) == Cardinality(R) <= MaxRows /\ Bytes(R) <= MaxBytes

BInit == rows = {} /\ next = 1 /\ now \in Nat

(* A row is added, and what had expired may make room for it. *)
Add ==
  /\ \E new \in rows' \ rows :
       /\ new.seq = next
       /\ new.key \notin {r.key : r \in rows' \ {new}}
       /\ rows' \ {new} \subseteq rows
  /\ \A r \in rows \ rows' : r.expires <= now
  /\ WithinLimits(rows')
  /\ next' = next + 1
  /\ UNCHANGED now

Expire ==
  /\ rows' \subseteq rows
  /\ \A r \in rows \ rows' : r.expires <= now
  /\ UNCHANGED <<next, now>>

Pass == now' > now /\ UNCHANGED <<rows, next>>

BNext == Add \/ Expire \/ Pass

BSpec == BInit /\ [][BNext]_bvars
=============================================================================
