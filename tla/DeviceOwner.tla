---------------------------- MODULE DeviceOwner ----------------------------
(***************************************************************************)
(* The discipline that every owner of a camera follows, whatever else it   *)
(* does: it creates at most one handle of the device at a time, only while *)
(* it holds the lease of that device, and gives the lease back only when   *)
(* no handle is left unclosed.  Two owners that both follow it over one    *)
(* exclusive lease never drive the device together.                        *)
(***************************************************************************)
EXTENDS Naturals

VARIABLES
  lease,      \* the owner holds the exclusive lease
  handles     \* handles created and not confirmed closed

ovars == <<lease, handles>>

OInit == lease = FALSE /\ handles = 0

Acquire == ~lease /\ lease' = TRUE /\ UNCHANGED handles
Create  == lease /\ handles = 0 /\ handles' = 1 /\ UNCHANGED lease
Destroy == handles = 1 /\ handles' = 0 /\ UNCHANGED lease
Release == lease /\ handles = 0 /\ lease' = FALSE /\ UNCHANGED handles

ONext == Acquire \/ Create \/ Destroy \/ Release

OSpec == OInit /\ [][ONext]_ovars

(* What the discipline is for: a handle exists only under the lease.       *)
Owned == handles \in {0, 1} /\ (handles = 1 => lease)
=============================================================================
