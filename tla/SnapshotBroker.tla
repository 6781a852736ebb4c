--------------------------- MODULE SnapshotBroker ---------------------------
(***************************************************************************)
(* snapshots/broker.py: at most one request waits for a frame, and a frame *)
(* is kept only for a request that waits.  Each call is one region of the  *)
(* condition's lock, which request() leaves only while it waits.           *)
(***************************************************************************)
EXTENDS Naturals

CONSTANTS
  Callers,     \* threads that call request()
  MaxFrames    \* bound of the model: frames offered

ASSUME BrokerAssumption == MaxFrames \in Nat

VARIABLES
  brokerClosed,  \* _closed
  pending,       \* _pending
  frame,         \* _frame, 0 for None; frames are numbered as they are offered
  frames,        \* history: frames offered
  request,       \* per caller: "idle" or "waiting"
  since,         \* history, per caller: frames offered before its request
  got            \* per caller: the frame its last request returned, 0 without one

brokerVars == <<brokerClosed, pending, frame, frames, request, since, got>>

BrokerInit ==
  /\ brokerClosed = FALSE /\ pending = FALSE /\ frame = 0 /\ frames = 0
  /\ request = [c \in Callers |-> "idle"]
  /\ since = [c \in Callers |-> 0] /\ got = [c \in Callers |-> 0]

Return(c, f) ==
  /\ request' = [request EXCEPT ![c] = "idle"]
  /\ got' = [got EXCEPT ![c] = f]

(* "closed" or "busy" *)
Refuse(c) ==
  /\ request[c] = "idle" /\ (brokerClosed \/ pending)
  /\ Return(c, 0)
  /\ UNCHANGED <<brokerClosed, pending, frame, frames, since>>

Request(c) ==
  /\ request[c] = "idle" /\ ~brokerClosed /\ ~pending
  /\ pending' = TRUE
  /\ request' = [request EXCEPT ![c] = "waiting"]
  /\ since' = [since EXCEPT ![c] = frames] /\ got' = [got EXCEPT ![c] = 0]
  /\ UNCHANGED <<brokerClosed, frame, frames>>

(* Mutant: a request that times out leaves its demand behind. *)
RequestEndsPending(c) ==
  /\ request[c] = "waiting"
  /\ pending' = (frame = 0 /\ ~brokerClosed) /\ frame' = 0
  /\ Return(c, IF brokerClosed THEN 0 ELSE frame)
  /\ UNCHANGED <<brokerClosed, frames, since>>

(* The loop ends with a frame, a closed broker, or neither at the deadline. *)
RequestEnds(c) ==
  /\ request[c] = "waiting"
  /\ pending' = FALSE /\ frame' = 0
  /\ Return(c, IF brokerClosed THEN 0 ELSE frame)
  /\ UNCHANGED <<brokerClosed, frames, since>>

(* "closed", "no_demand" or "delivered" *)
OfferFrame ==
  /\ frames < MaxFrames /\ frames' = frames + 1
  /\ frame' = IF brokerClosed \/ ~pending \/ frame # 0 THEN frame ELSE frames + 1
  /\ UNCHANGED <<brokerClosed, pending, request, since, got>>

CloseBroker ==
  /\ ~brokerClosed
  /\ brokerClosed' = TRUE /\ pending' = FALSE /\ frame' = 0
  /\ UNCHANGED <<frames, request, since, got>>

BrokerNext ==
  \/ OfferFrame \/ CloseBroker
  \/ \E c \in Callers : Refuse(c) \/ Request(c) \/ RequestEnds(c)

BrokerSpec == BrokerInit /\ [][BrokerNext]_brokerVars

-----------------------------------------------------------------------------
(* The variables keep their types. *)
BrokerTypeOK ==
  /\ brokerClosed \in BOOLEAN /\ pending \in BOOLEAN
  /\ frames \in 0..MaxFrames /\ frame \in 0..MaxFrames
  /\ request \in [Callers -> {"idle", "waiting"}]
  /\ since \in [Callers -> 0..MaxFrames] /\ got \in [Callers -> 0..MaxFrames]

(* However requests, offers, deadlines and close() interleave: a request is *)
(* answered with a frame that was offered after it was made, and no frame   *)
(* answers two; a demand is somebody's, who waits for it, and a frame is    *)
(* kept for no other reason, so that a deadline or a close leaves neither   *)
(* pixels nor a broker that is busy for ever.                               *)
FrameOfItsDemand ==
  /\ \A c \in Callers : got[c] # 0 => got[c] > since[c]
  /\ \A c, d \in Callers : got[c] = got[d] /\ got[c] # 0 => c = d
  /\ pending => ~brokerClosed /\ \E c \in Callers : request[c] = "waiting"
  /\ \A c, d \in Callers : request[c] = "waiting" /\ request[d] = "waiting" => c = d
  /\ frame # 0 => pending
=============================================================================
