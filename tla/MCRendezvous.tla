---------------------------- MODULE MCRendezvous ----------------------------
(* Instances of LatestObservationSlot and SnapshotBroker for TLC: two       *)
(* components that share nothing, each explored with the other at rest.     *)
EXTENDS LatestObservationSlot, SnapshotBroker

CONSTANTS ra, rb, rc, sa, sb

VARIABLE part   \* the component that moves

MCInit == SlotInit /\ BrokerInit /\ part \in {"slot", "broker"}
MCNext == \/ part = "slot" /\ SlotNext /\ UNCHANGED <<brokerVars, part>>
          \/ part = "broker" /\ BrokerNext /\ UNCHANGED <<slotVars, part>>
MCSpec == MCInit /\ [][MCNext]_<<slotVars, brokerVars, part>>
=============================================================================
