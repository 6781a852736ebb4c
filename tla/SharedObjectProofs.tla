------------------------- MODULE SharedObjectProofs -------------------------
(***************************************************************************)
(* Theorems about four objects that threads or processes share and that    *)
(* have nothing in common but that: the lease of the camera (SharedCamera), *)
(* the broker of snapshots (SnapshotBroker), the slot of the latest        *)
(* observation (LatestObservationSlot), and the MCP session with the       *)
(* challenges its tools work on (McpServer).  Each part uses the           *)
(* definitions of its own module only.                                     *)
(***************************************************************************)
EXTENDS SharedCamera, SnapshotBroker, LatestObservationSlot, McpServer,
        FiniteSetTheorems, SequenceTheorems, TLAPS

-----------------------------------------------------------------------------
(* The lease of the camera.                                                *)

(* Where a lease can be, seen from its owner, its descriptor, the registry *)
(* of its process and the lock.                                            *)
Accounted(l) ==
  /\ pc[l] = "locked" => lockHolder = l /\ owner[l] = "without"
  /\ pc[l] = "closed" => lockHolder # l /\ owner[l] # "without" /\ ~device[l]
  /\ owner[l] = "without" => ~fd[l] /\ ~device[l]
  /\ owner[l] # "without" => fd[l] /\ registry[ProcessOf[l]] = l
  /\ owner[l] = "with" /\ pc[l] = "idle" => lockHolder = l
  /\ device[l] => owner[l] = "with" /\ pc[l] = "idle" /\ (NoOrphan \/ metOrphan[l])
  /\ lockHolder = l => pc[l] = "locked" \/ owner[l] # "without" \/ l \in stray
  /\ l \in stray => lockHolder = l /\ pc[l] = "idle" /\ owner[l] = "without"

LeaseIInv == LeaseTypeOK /\ \A l \in Leases : Accounted(l)

(* Every step keeps the types. *)
LEMMA LeaseTypeStep == LeaseTypeOK /\ [LeaseNext]_leaseVars => LeaseTypeOK'
<1> SUFFICES ASSUME LeaseTypeOK, [LeaseNext]_leaseVars PROVE LeaseTypeOK'
  OBVIOUS
<1> USE LeaseAssumption DEF LeaseTypeOK, leaseVars, calls, use
<1>1. ASSUME NEW l \in Leases, Acquire(l) PROVE LeaseTypeOK'
  BY <1>1 DEF Acquire, TakeLock, TryOsLock
<1>2. ASSUME NEW l \in Leases, Register(l) PROVE LeaseTypeOK'
  <2>1. fd' \in [Leases -> BOOLEAN]
    BY <1>2 DEF Register
  <2>2. /\ pc' \in [Leases -> {"idle", "locked", "closed"}]
        /\ owner' \in [Leases -> {"without", "with", "broken"}]
    BY <1>2 DEF Register
  <2>3. lockHolder' \in Leases \cup {Nobody} /\ registry' \in [Processes -> Leases \cup {Nobody}]
    BY <1>2 DEF Register
  <2>4. stray' \subseteq Leases /\ UNCHANGED use
    BY <1>2 DEF Register
  <2> QED
    BY <2>1, <2>2, <2>3, <2>4
<1>3. ASSUME NEW l \in Leases, Release(l) PROVE LeaseTypeOK'
  BY <1>3 DEF Release, Unlock
<1>4. ASSUME NEW l \in Leases, ReleaseFails(l) PROVE LeaseTypeOK'
  BY <1>4 DEF ReleaseFails, Unlock
<1>5. ASSUME NEW l \in Leases, Unregister(l) PROVE LeaseTypeOK'
  BY <1>5 DEF Unregister
<1>6. ASSUME NEW l \in Leases, OpenDevice(l) \/ CloseDevice(l) \/ OrphanLetsGo(l)
      PROVE LeaseTypeOK'
  <2>1. device' \in [Leases -> BOOLEAN] /\ UNCHANGED <<lockHolder, calls, stray>>
    BY <1>6 DEF OpenDevice, CloseDevice, OrphanLetsGo
  <2>2. metOrphan' \in [Leases -> BOOLEAN]
    <3>1. (~NoOrphan) \in BOOLEAN
      BY DEF NoOrphan
    <3>2. \E b \in BOOLEAN : metOrphan' = [metOrphan EXCEPT ![l] = b] \/ UNCHANGED metOrphan
      BY <1>6, <3>1 DEF OpenDevice, CloseDevice, OrphanLetsGo
    <3> QED
      BY <3>2
  <2>3. orphans' \in [Leases -> Nat]
    <3>1. CASE OrphanLetsGo(l)
      <4>1. orphans[l] - 1 \in Nat
        BY <3>1 DEF OrphanLetsGo
      <4> QED
        BY <3>1, <4>1 DEF OrphanLetsGo
    <3>2. CASE ~OrphanLetsGo(l)
      BY <1>6, <3>2 DEF OpenDevice, CloseDevice
    <3> QED
      BY <3>1, <3>2
  <2> QED
    BY <2>1, <2>2, <2>3
<1>7. ASSUME NEW p \in Processes, Crash(p) PROVE LeaseTypeOK'
  <2>1. fd' \in [Leases -> BOOLEAN] /\ device' \in [Leases -> BOOLEAN]
    BY <1>7 DEF Crash
  <2> QED
    BY <1>7, <2>1 DEF Crash
<1>8. CASE UNCHANGED leaseVars
  BY <1>8
<1> QED
  BY <1>1, <1>2, <1>3, <1>4, <1>5, <1>6, <1>7, <1>8 DEF LeaseNext, LeaseCall

(* Every step keeps every lease, the one that moves and the others. *)
LEMMA LeaseStep == LeaseIInv /\ [LeaseNext]_leaseVars => \A m \in Leases : Accounted(m)'
<1> SUFFICES ASSUME LeaseIInv, [LeaseNext]_leaseVars, NEW m \in Leases PROVE Accounted(m)'
  OBVIOUS
<1> USE LeaseAssumption DEF LeaseTypeOK, leaseVars, calls, use, LeaseIInv, Accounted, NoOrphan
<1>1. ASSUME NEW l \in Leases, Acquire(l) PROVE Accounted(m)'
  <2>1. lockHolder = Nobody /\ lockHolder' = l /\ pc' = [pc EXCEPT ![l] = "locked"]
        /\ UNCHANGED <<registry, fd, owner, stray, use>> /\ owner[l] = "without"
    BY <1>1 DEF Acquire, TakeLock, TryOsLock
  <2> QED
    BY <2>1
<1>2. ASSUME NEW l \in Leases, Register(l) PROVE Accounted(m)'
  <2>1. pc[l] = "locked" /\ lockHolder = l /\ owner[l] = "without" /\ ProcessOf[l] \in Processes
        /\ pc' = [pc EXCEPT ![l] = "idle"] /\ UNCHANGED device
    BY <1>2 DEF Register
  <2>2. CASE registry[ProcessOf[l]] = Nobody
    BY <1>2, <2>1, <2>2 DEF Register
  <2>3. CASE registry[ProcessOf[l]] # Nobody
    BY <1>2, <2>1, <2>3 DEF Register
  <2> QED
    BY <2>2, <2>3
<1>3. ASSUME NEW l \in Leases, Release(l) PROVE Accounted(m)'
  BY <1>3 DEF Release, Unlock
<1>4. ASSUME NEW l \in Leases, ReleaseFails(l) PROVE Accounted(m)'
  BY <1>4 DEF ReleaseFails, Unlock
<1>5. ASSUME NEW l \in Leases, Unregister(l) PROVE Accounted(m)'
  <2>1. registry[ProcessOf[l]] = l /\ ProcessOf[l] \in Processes
    BY <1>5 DEF Unregister
  <2> QED
    BY <1>5, <2>1 DEF Unregister
<1>6. ASSUME NEW l \in Leases, OpenDevice(l) \/ CloseDevice(l) \/ OrphanLetsGo(l)
      PROVE Accounted(m)'
  BY <1>6 DEF OpenDevice, CloseDevice, OrphanLetsGo
<1>7. ASSUME NEW p \in Processes, Crash(p) PROVE Accounted(m)'
  <2>1. CASE ProcessOf[m] = p
    <3>1. lockHolder' # m
      BY <1>7, <2>1 DEF Crash
    <3>2. pc'[m] = "idle" /\ owner'[m] = "without" /\ m \notin stray'
      BY <1>7, <2>1 DEF Crash
    <3>3. ~fd'[m] /\ ~device'[m]
      BY <1>7, <2>1 DEF Crash
    <3> QED
      BY <3>1, <3>2, <3>3
  <2>2. CASE ProcessOf[m] # p
    BY <1>7, <2>2 DEF Crash
  <2> QED
    BY <2>1, <2>2
<1>8. CASE UNCHANGED leaseVars
  BY <1>8
<1> QED
  BY <1>1, <1>2, <1>3, <1>4, <1>5, <1>6, <1>7, <1>8 DEF LeaseNext, LeaseCall

(* The invariant is inductive. *)
THEOREM LeaseInvariance == LeaseSpec => []LeaseIInv
<1>1. LeaseInit => LeaseIInv
  <2> SUFFICES ASSUME LeaseInit PROVE LeaseIInv
    OBVIOUS
  <2>1. LeaseTypeOK
    BY LeaseAssumption DEF LeaseInit, LeaseTypeOK
  <2>2. \A l \in Leases : Accounted(l)
    BY LeaseAssumption DEF LeaseInit, Accounted
  <2> QED
    BY <2>1, <2>2 DEF LeaseIInv
<1>2. LeaseIInv /\ [LeaseNext]_leaseVars => LeaseIInv'
  BY LeaseTypeStep, LeaseStep DEF LeaseIInv
<1> QED
  BY <1>1, <1>2, PTL DEF LeaseSpec

(* Every variable stays in its range. *)
THEOREM LeaseTypeCorrect == LeaseSpec => []LeaseTypeOK
<1>1. LeaseIInv => LeaseTypeOK
  BY DEF LeaseIInv
<1> QED
  BY <1>1, LeaseInvariance, PTL

(* No two living owners ever drive the camera, in any number of processes,  *)
(* and an owner that found no orphan at it has it to itself.               *)
THEOREM MutualExclusion == LeaseSpec => []ExclusiveUse
<1>1. LeaseIInv => ExclusiveUse
  BY DEF LeaseIInv, Accounted, ExclusiveUse
<1> QED
  BY <1>1, LeaseInvariance, PTL

(* An answer of True from acquire() means the lock, until the release.     *)
THEOREM LeaseMeansLock == LeaseSpec => []LeaseIsLocked
<1>1. LeaseIInv => LeaseIsLocked
  BY DEF LeaseIInv, Accounted, LeaseIsLocked
<1> QED
  BY <1>1, LeaseInvariance, PTL

(* A release that failed keeps the process out.                            *)
THEOREM FailedReleaseKeepsOut == LeaseSpec => []FailsClosed
<1>1. LeaseIInv => FailsClosed
  BY LeaseAssumption DEF LeaseIInv, Accounted, FailsClosed
<1> QED
  BY <1>1, LeaseInvariance, PTL

(* Whoever holds the lock is alive and known to its process, or the refused *)
(* descriptor that a living process could not close.                       *)
THEOREM NoStrayLock == LeaseSpec => []LockAccountedFor
<1>1. LeaseIInv => LockAccountedFor
  BY LeaseAssumption DEF LeaseIInv, Accounted, LeaseTypeOK, LockAccountedFor
<1> QED
  BY <1>1, LeaseInvariance, PTL

-----------------------------------------------------------------------------
(* The broker of snapshots.                                                *)

(* A caller that waits at a broker that is open is the one whose demand is  *)
(* pending; a frame that is kept is newer than the demand, and than every   *)
(* frame returned so far.                                                   *)
Demand ==
  /\ \A c \in Callers : request[c] = "waiting" /\ ~brokerClosed => pending
  /\ \A c \in Callers : frame # 0 /\ request[c] = "waiting" => frame > since[c]
  /\ frame <= frames
  /\ \A c \in Callers : got[c] <= frames /\ since[c] <= frames
  /\ \A c \in Callers : frame # 0 => got[c] # frame

BrokerIInv == BrokerTypeOK /\ FrameOfItsDemand /\ Demand

LEMMA NoneIsFrame == 0 \in 0..MaxFrames
  BY BrokerAssumption

LEMMA BrokerInitHolds == BrokerInit => BrokerIInv
<1> SUFFICES ASSUME BrokerInit PROVE BrokerIInv
  OBVIOUS
<1>1. BrokerTypeOK
  BY NoneIsFrame DEF BrokerInit, BrokerTypeOK
<1>2. FrameOfItsDemand
  BY DEF BrokerInit, FrameOfItsDemand
<1>3. Demand
  BY DEF BrokerInit, Demand
<1>4. QED
  BY <1>1, <1>2, <1>3 DEF BrokerIInv

LEMMA BrokerStepKeeps == BrokerIInv /\ [BrokerNext]_brokerVars => BrokerIInv'
<1> SUFFICES ASSUME BrokerIInv, [BrokerNext]_brokerVars PROVE BrokerIInv'
  OBVIOUS
<1>1. CASE OfferFrame
  BY <1>1, BrokerAssumption DEF OfferFrame, BrokerIInv, BrokerTypeOK, FrameOfItsDemand, Demand
<1>2. CASE CloseBroker
  <2>1. BrokerTypeOK'
    BY <1>2, NoneIsFrame DEF CloseBroker, BrokerIInv, BrokerTypeOK
  <2>2. FrameOfItsDemand'
    BY <1>2 DEF CloseBroker, BrokerIInv, BrokerTypeOK, FrameOfItsDemand, Demand
  <2>3. Demand'
    BY <1>2 DEF CloseBroker, BrokerIInv, BrokerTypeOK, FrameOfItsDemand, Demand
  <2>4. QED
    BY <2>1, <2>2, <2>3 DEF BrokerIInv
<1>3. ASSUME NEW c \in Callers, Refuse(c) PROVE BrokerIInv'
  BY <1>3, NoneIsFrame DEF Refuse, Return, BrokerIInv, BrokerTypeOK, FrameOfItsDemand, Demand
<1>4. ASSUME NEW c \in Callers, Request(c) PROVE BrokerIInv'
  BY <1>4, NoneIsFrame DEF Request, BrokerIInv, BrokerTypeOK, FrameOfItsDemand, Demand
<1>5. ASSUME NEW c \in Callers, RequestEnds(c) PROVE BrokerIInv'
  <2>1. BrokerTypeOK'
    BY <1>5, NoneIsFrame DEF RequestEnds, Return, BrokerIInv, BrokerTypeOK
  <2>2. FrameOfItsDemand'
    BY <1>5 DEF RequestEnds, Return, BrokerIInv, BrokerTypeOK, FrameOfItsDemand, Demand
  <2>3. Demand'
    BY <1>5 DEF RequestEnds, Return, BrokerIInv, BrokerTypeOK, FrameOfItsDemand, Demand
  <2>4. QED
    BY <2>1, <2>2, <2>3 DEF BrokerIInv
<1>6. CASE UNCHANGED brokerVars
  BY <1>6 DEF brokerVars, BrokerIInv, BrokerTypeOK, FrameOfItsDemand, Demand
<1>7. QED
  BY <1>1, <1>2, <1>3, <1>4, <1>5, <1>6 DEF BrokerNext

LEMMA BrokerInvariant == BrokerSpec => []BrokerIInv
  BY BrokerInitHolds, BrokerStepKeeps, PTL DEF BrokerSpec

(* The variables of the broker keep their types. *)
THEOREM BrokerTypeCorrect == BrokerSpec => []BrokerTypeOK
<1>1. BrokerIInv => BrokerTypeOK
  BY DEF BrokerIInv
<1>2. QED
  BY <1>1, BrokerInvariant, PTL

(* A request is answered with a frame offered for it, once, and neither a   *)
(* frame nor a demand outlives the request it belongs to.                   *)
THEOREM BrokerAnswersItsDemand == BrokerSpec => []FrameOfItsDemand
<1>1. BrokerIInv => FrameOfItsDemand
  BY DEF BrokerIInv
<1>2. QED
  BY <1>1, BrokerInvariant, PTL

-----------------------------------------------------------------------------
(* The slot of the latest observation.                                     *)

Observations ==
  [n : 0..MaxOffers, at : 0..MaxTime, ttl : Ages \cup {0}, schema : Schemas \cup {"none"}]
Wants == [now : 0..MaxTime, age : Ages \cup {0}, schemas : SUBSET Schemas]
Outcomes == {"none", "ok", "empty", "stale", "schema_mismatch", "timeout", "closed",
             "future_timestamp"}
Answers ==
  [outcome : Outcomes, n : Int, limit : Int, real : Int, delay : Int, missed : BOOLEAN]

ReaderTypes ==
  /\ read \in [Readers -> {"idle", "called", "waiting"}]
  /\ want \in [Readers -> Wants]
  /\ entered \in [Readers -> 0..MaxTime] /\ before \in [Readers -> 0..MaxOffers]
  /\ answer \in [Readers -> Answers]

(* A slot that is open and empty has been offered nothing since the readers *)
(* that wait began to: that is all a deadline has to go by.                 *)
EmptyMeansNoOffer ==
  \A r \in Readers :
    read[r] = "waiting" /\ ~slotClosed /\ latest = NoObservation => offers = before[r]

SlotIInv ==
  SlotTypeOK /\ latest \in Observations /\ ReaderTypes
    /\ EmptyMeansNoOffer /\ OkIsFresh /\ EveryWaiterServed

LEMMA NothingTypes ==
  /\ NoObservation \in Observations /\ NoObservation.n = 0 /\ NoObservation.at = 0
  /\ NoWant \in Wants /\ NoWant.now = 0 /\ 0 \in 0..MaxOffers /\ 0 \in 0..MaxTime
  /\ NoAnswer \in Answers /\ NoAnswer.outcome = "none" /\ ~NoAnswer.missed
<1>1. 0 \in 0..MaxOffers /\ 0 \in 0..MaxTime
  BY SlotAssumption
<1>2. QED
  BY <1>1 DEF NoObservation, Observations, NoWant, Wants, NoAnswer, Answers, Outcomes

LEMMA SlotInitHolds == SlotInit => SlotIInv
<1> SUFFICES ASSUME SlotInit PROVE SlotIInv
  OBVIOUS
<1>1. latest \in Observations /\ latest.n = 0 /\ latest.at = 0
  BY NothingTypes DEF SlotInit
<1>2. ReaderTypes
  BY NothingTypes DEF SlotInit, ReaderTypes
<1>3. SlotTypeOK
  <2>1. \A r \in Readers : want[r] = NoWant /\ entered[r] = 0
    BY DEF SlotInit
  <2>2. \A r \in Readers : want[r].now \in 0..time /\ entered[r] \in 0..time
    <3>1. time = 0 /\ NoWant.now = 0 /\ 0 \in 0..0
      BY NothingTypes DEF SlotInit
    <3>2. QED
      BY <2>1, <3>1
  <2>3. slotClosed \in BOOLEAN /\ latest.n \in 0..offers /\ latest.at \in 0..time
    <3>1. time = 0 /\ offers = 0 /\ slotClosed = FALSE /\ 0 \in 0..0
      BY DEF SlotInit
    <3>2. QED
      BY <1>1, <3>1
  <2>4. QED
    BY <1>2, <2>2, <2>3, NothingTypes DEF SlotInit, SlotTypeOK, ReaderTypes
<1>4. EmptyMeansNoOffer
  BY DEF SlotInit, EmptyMeansNoOffer
<1>5. OkIsFresh /\ EveryWaiterServed
  BY NothingTypes DEF SlotInit, OkIsFresh, EveryWaiterServed
<1>6. QED
  BY <1>1, <1>2, <1>3, <1>4, <1>5 DEF SlotIInv

(* An answer that may be given: of its type, fresh if it is ok, and not to  *)
(* a reader sent away although something was offered.                       *)
Fair(a) ==
  /\ a \in Answers /\ ~a.missed
  /\ a.outcome = "ok" => a.delay <= a.real /\ a.real <= a.limit + a.delay

(* An answer without an observation is always fair.                         *)
LEMMA WithoutIsFair ==
  ASSUME NEW outcome \in Outcomes \ {"ok"} PROVE Fair(Without(outcome))
<1>1. Without(outcome) \in Answers
  BY NothingTypes DEF Without, Answers
<1>2. Without(outcome).outcome = outcome /\ ~Without(outcome).missed
  BY NothingTypes DEF Without, Answers
<1>3. QED
  BY <1>1, <1>2 DEF Fair

(* The judgement is fair whenever the time it is made as of lags the clock  *)
(* by exactly the delay that is reported.                                   *)
LEMMA JudgedIsFair ==
  ASSUME latest \in Observations, time \in Int, NEW now \in Int, NEW delay \in Int,
         NEW w \in Wants, now + delay = time
  PROVE  Fair(Judged(now, w, delay))
<1> DEFINE limit == AtMost(w.age, latest.ttl)
           outcome == CASE latest.at > now -> "future_timestamp"
                        [] latest.at <= now /\ now - latest.at > limit -> "stale"
                        [] OTHER -> IF latest.schema \in w.schemas THEN "ok" ELSE "schema_mismatch"
           judged == [outcome |-> outcome, n |-> latest.n, limit |-> limit,
                      real |-> time - latest.at, delay |-> delay, missed |-> FALSE]
<1>1. w.age \in Int /\ latest.ttl \in Int /\ latest.at \in Int /\ latest.n \in Int
  <2>1. w.age \in Ages \cup {0} /\ latest.ttl \in Ages \cup {0}
    BY DEF Wants, Observations
  <2>2. latest.at \in 0..MaxTime /\ latest.n \in 0..MaxOffers
    BY DEF Observations
  <2>3. Ages \cup {0} \subseteq Int /\ 0..MaxTime \subseteq Int /\ 0..MaxOffers \subseteq Int
    BY SlotAssumption
  <2>4. QED
    BY <2>1, <2>2, <2>3
<1>2. limit \in Int
  BY <1>1 DEF AtMost
<1>3. outcome \in Outcomes
  BY <1>1, <1>2 DEF Outcomes
<1>4. outcome = "ok" => latest.at <= now /\ now - latest.at <= limit
  BY <1>1, <1>2
<1>5. Judged(now, w, delay) = judged
  BY DEF Judged
<1>6. judged \in Answers
  <2> HIDE DEF outcome, limit
  <2>1. time - latest.at \in Int
    BY <1>1
  <2>2. QED
    BY <1>1, <1>2, <1>3, <2>1 DEF Answers
<1>7. /\ judged.outcome = outcome /\ judged.limit = limit /\ judged.delay = delay
      /\ judged.real = time - latest.at /\ ~judged.missed
  OBVIOUS
<1>8. judged.outcome = "ok" =>
        judged.delay <= judged.real /\ judged.real <= judged.limit + judged.delay
  <2> HIDE DEF outcome, limit, judged
  <2> QED
    BY <1>1, <1>2, <1>4, <1>7
<1>9. QED
  BY <1>5, <1>6, <1>7, <1>8 DEF Fair

(* A call that ends with a fair answer keeps the invariant.                 *)
LEMMA AnswerKeeps ==
  ASSUME SlotIInv, NEW r \in Readers, NEW a, Fair(a), Answer(r, a), UNCHANGED <<slotClosed, latest>>
  PROVE  SlotIInv'
<1>1. /\ \A s \in Readers \ {r} : read'[s] = read[s] /\ want'[s] = want[s]
           /\ entered'[s] = entered[s] /\ before'[s] = before[s] /\ answer'[s] = answer[s]
      /\ read'[r] = "idle" /\ want'[r] = NoWant /\ entered'[r] = 0 /\ answer'[r] = a
  BY DEF Answer, SlotIInv, ReaderTypes
<1>2. ReaderTypes'
  BY NothingTypes DEF Answer, SlotIInv, ReaderTypes, Fair
<1>3. SlotTypeOK'
  <2>1. \A s \in Readers : want'[s].now \in 0..time /\ entered'[s] \in 0..time
    BY <1>1, NothingTypes DEF SlotIInv, SlotTypeOK
  <2>2. QED
    BY <1>2, <2>1 DEF Answer, SlotIInv, SlotTypeOK, ReaderTypes
<1>4. EmptyMeansNoOffer'
  BY <1>1 DEF Answer, SlotIInv, EmptyMeansNoOffer, NoObservation
<1>5. OkIsFresh' /\ EveryWaiterServed'
  BY <1>1 DEF SlotIInv, OkIsFresh, EveryWaiterServed, Fair
<1>6. QED
  BY <1>2, <1>3, <1>4, <1>5 DEF SlotIInv

LEMMA OfferKeeps == ASSUME SlotIInv, Offer PROVE SlotIInv'
<1>1. PICK at \in 0..time, ttl \in Ages, s \in Schemas :
        latest' = IF slotClosed THEN latest
                  ELSE [n |-> offers + 1, at |-> at, ttl |-> ttl, schema |-> s]
  BY DEF Offer
<1>2. /\ offers \in 0..MaxOffers /\ offers' = offers + 1 /\ offers' \in 0..MaxOffers
      /\ time \in 0..MaxTime
      /\ UNCHANGED <<slotClosed, time, read, want, entered, before, answer>>
  BY SlotAssumption DEF Offer, SlotIInv, SlotTypeOK
<1>3. /\ latest' \in Observations /\ latest'.n \in 0..offers' /\ latest'.at \in 0..time'
      /\ ~slotClosed => latest'.n # 0
  <2>1. CASE slotClosed
    BY <1>1, <1>2, <2>1 DEF SlotIInv, SlotTypeOK
  <2>2. CASE ~slotClosed
    BY <1>1, <1>2, <2>2, SlotAssumption DEF Observations
  <2>3. QED
    BY <2>1, <2>2
<1>4. ReaderTypes' /\ OkIsFresh' /\ EveryWaiterServed'
  BY <1>2 DEF SlotIInv, ReaderTypes, OkIsFresh, EveryWaiterServed
<1>5. SlotTypeOK'
  BY <1>2, <1>3 DEF SlotIInv, SlotTypeOK
<1>6. EmptyMeansNoOffer'
  <2>1. ~slotClosed' => latest' # NoObservation
    BY <1>2, <1>3, NothingTypes
  <2>2. QED
    BY <2>1 DEF EmptyMeansNoOffer, NoObservation
<1>7. QED
  BY <1>3, <1>4, <1>5, <1>6 DEF SlotIInv

LEMMA CallKeeps == ASSUME SlotIInv, NEW r \in Readers, Call(r) PROVE SlotIInv'
<1>1. PICK age \in Ages, S \in {Schemas} \cup {{s} : s \in Schemas} :
        want' = [want EXCEPT ![r] = [now |-> time, age |-> age, schemas |-> S]]
  BY DEF Call
<1>2. [now |-> time, age |-> age, schemas |-> S] \in Wants
  BY DEF Wants, SlotIInv, SlotTypeOK
<1>3. ReaderTypes'
  BY <1>1, <1>2, NothingTypes DEF Call, SlotIInv, ReaderTypes
<1>4. /\ \A s \in Readers \ {r} : read'[s] = read[s] /\ want'[s] = want[s] /\ answer'[s] = answer[s]
      /\ read'[r] = "called" /\ want'[r].now = time /\ answer'[r] = NoAnswer
      /\ UNCHANGED <<slotClosed, latest, offers, time, entered, before>>
  BY <1>1 DEF Call, SlotIInv, ReaderTypes
<1>5. SlotTypeOK'
  BY <1>3, <1>4, SlotAssumption DEF SlotIInv, SlotTypeOK, ReaderTypes
<1>6. EmptyMeansNoOffer'
  BY <1>4 DEF SlotIInv, EmptyMeansNoOffer, NoObservation
<1>7. OkIsFresh' /\ EveryWaiterServed'
  BY <1>4, NothingTypes DEF SlotIInv, OkIsFresh, EveryWaiterServed
<1>8. QED
  BY <1>3, <1>4, <1>5, <1>6, <1>7 DEF SlotIInv

LEMMA EnterKeeps == ASSUME SlotIInv, NEW r \in Readers, Enter(r) PROVE SlotIInv'
<1>1. /\ UNCHANGED <<slotClosed, latest>> /\ latest \in Observations
      /\ time \in 0..MaxTime /\ offers \in 0..MaxOffers
      /\ want[r] \in Wants /\ want[r].now \in 0..time
  BY DEF Enter, SlotIInv, SlotTypeOK, ReaderTypes
<1>2. CASE Answer(r, Without("closed"))
  BY <1>1, <1>2, WithoutIsFair, AnswerKeeps DEF Outcomes
<1>3. CASE Answer(r, Judged(want[r].now, want[r], time - want[r].now))
  <2>1. /\ want[r].now \in Int /\ time \in Int /\ time - want[r].now \in Int
        /\ want[r].now + (time - want[r].now) = time
    BY <1>1
  <2>2. Fair(Judged(want[r].now, want[r], time - want[r].now))
    BY <1>1, <2>1, JudgedIsFair
  <2>3. QED
    BY <1>1, <1>3, <2>2, AnswerKeeps
<1>4. CASE Answer(r, Without("empty"))
  BY <1>1, <1>4, WithoutIsFair, AnswerKeeps DEF Outcomes
<1>5. CASE /\ read' = [read EXCEPT ![r] = "waiting"]
           /\ entered' = [entered EXCEPT ![r] = time] /\ before' = [before EXCEPT ![r] = offers]
           /\ UNCHANGED <<offers, time, want, answer>>
  <2>1. ReaderTypes'
    BY <1>1, <1>5 DEF SlotIInv, ReaderTypes
  <2>2. /\ \A s \in Readers \ {r} : read'[s] = read[s] /\ entered'[s] = entered[s]
             /\ before'[s] = before[s]
        /\ entered'[r] = time /\ before'[r] = offers
    BY <1>5 DEF SlotIInv, ReaderTypes
  <2>3. SlotTypeOK'
    BY <1>1, <1>5, <2>1, <2>2 DEF SlotIInv, SlotTypeOK, ReaderTypes
  <2>4. EmptyMeansNoOffer'
    BY <1>1, <1>5, <2>2 DEF SlotIInv, EmptyMeansNoOffer, NoObservation
  <2>5. OkIsFresh' /\ EveryWaiterServed'
    BY <1>5 DEF SlotIInv, OkIsFresh, EveryWaiterServed
  <2>6. QED
    BY <1>1, <2>1, <2>3, <2>4, <2>5 DEF SlotIInv
<1>6. QED
  BY <1>2, <1>3, <1>4, <1>5 DEF Enter

LEMMA WakeKeeps == ASSUME SlotIInv, NEW r \in Readers, Wake(r) PROVE SlotIInv'
<1>1. /\ UNCHANGED <<slotClosed, latest>> /\ latest \in Observations /\ want[r] \in Wants
      /\ time \in Int /\ want[r].now \in Int /\ entered[r] \in Int
  BY SlotAssumption DEF Wake, SlotIInv, SlotTypeOK, ReaderTypes
<1>2. CASE slotClosed
  BY <1>1, <1>2, WithoutIsFair, AnswerKeeps DEF Wake, Outcomes
<1>3. CASE ~slotClosed
  <2> DEFINE now == want[r].now + (time - entered[r])
  <2>1. now \in Int /\ Delay(r) \in Int /\ now + Delay(r) = time
    BY <1>1 DEF Delay
  <2>2. Fair(Judged(now, want[r], Delay(r)))
    BY <1>1, <2>1, JudgedIsFair
  <2>3. Answer(r, Judged(now, want[r], Delay(r)))
    BY <1>3 DEF Wake
  <2>4. QED
    BY <1>1, <2>2, <2>3, AnswerKeeps
<1>4. QED
  BY <1>2, <1>3

LEMMA TimeOutKeeps == ASSUME SlotIInv, NEW r \in Readers, TimeOut(r) PROVE SlotIInv'
<1> DEFINE a == [Without("timeout") EXCEPT !.missed = offers > before[r]]
<1>1. ~(offers > before[r])
  BY SlotAssumption DEF TimeOut, SlotIInv, EmptyMeansNoOffer, SlotTypeOK
<1>2. Fair(Without("timeout"))
  BY WithoutIsFair DEF Outcomes
<1>3. Fair(a)
  <2>1. a \in Answers /\ ~a.missed
    BY <1>1, <1>2 DEF Fair, Answers
  <2>2. a.outcome = "timeout"
    BY <1>2, NothingTypes DEF Fair, Answers, Without
  <2>3. QED
    BY <2>1, <2>2 DEF Fair
<1>4. QED
  BY <1>3, AnswerKeeps DEF TimeOut

LEMMA SlotStepKeeps == SlotIInv /\ [SlotNext]_slotVars => SlotIInv'
<1> SUFFICES ASSUME SlotIInv, [SlotNext]_slotVars PROVE SlotIInv'
  OBVIOUS
<1>1. CASE CloseSlot
  <2>1. latest' \in Observations /\ latest'.n = 0 /\ latest'.at = 0
    BY <1>1, NothingTypes DEF CloseSlot
  <2>2. ReaderTypes' /\ OkIsFresh' /\ EveryWaiterServed'
    BY <1>1 DEF CloseSlot, SlotIInv, ReaderTypes, OkIsFresh, EveryWaiterServed
  <2>3. SlotTypeOK' /\ EmptyMeansNoOffer'
    BY <1>1, <2>1 DEF CloseSlot, SlotIInv, SlotTypeOK, EmptyMeansNoOffer
  <2>4. QED
    BY <2>1, <2>2, <2>3 DEF SlotIInv
<1>2. CASE TimePasses
  <2>1. latest' \in Observations /\ ReaderTypes' /\ OkIsFresh' /\ EveryWaiterServed'
    BY <1>2 DEF TimePasses, SlotIInv, ReaderTypes, OkIsFresh, EveryWaiterServed, Observations
  <2>2. SlotTypeOK'
    BY <1>2, SlotAssumption DEF TimePasses, SlotIInv, SlotTypeOK
  <2>3. EmptyMeansNoOffer'
    BY <1>2 DEF TimePasses, SlotIInv, EmptyMeansNoOffer, NoObservation
  <2>4. QED
    BY <2>1, <2>2, <2>3 DEF SlotIInv
<1>3. CASE UNCHANGED slotVars
  BY <1>3 DEF slotVars, SlotIInv, SlotTypeOK, ReaderTypes, EmptyMeansNoOffer, NoObservation,
              OkIsFresh, EveryWaiterServed, Observations
<1>4. QED
  BY <1>1, <1>2, <1>3, OfferKeeps, CallKeeps, EnterKeeps, WakeKeeps, TimeOutKeeps
     DEF SlotNext, Read

LEMMA SlotInvariance == SlotSpec => []SlotIInv
  BY SlotInitHolds, SlotStepKeeps, PTL DEF SlotSpec

(* The variables of the slot and of its readers keep their types. *)
THEOREM SlotTypeCorrect == SlotSpec => []SlotTypeOK
<1>1. SlotIInv => SlotTypeOK
  BY DEF SlotIInv
<1>2. QED
  BY <1>1, SlotInvariance, PTL

(* read() answers ok only for an observation that is as young as the limits *)
(* ask but for the wait for the lock, however long the reader waited in the *)
(* slot and whatever was offered meanwhile.                                 *)
THEOREM FreshAnswers == SlotSpec => []OkIsFresh
<1>1. SlotIInv => OkIsFresh
  BY DEF SlotIInv
<1>2. QED
  BY <1>1, SlotInvariance, PTL

(* No reader is sent away at its deadline although something was offered    *)
(* while it waited, for any number of readers.                              *)
THEOREM WaitersServed == SlotSpec => []EveryWaiterServed
<1>1. SlotIInv => EveryWaiterServed
  BY DEF SlotIInv
<1>2. QED
  BY <1>1, SlotInvariance, PTL

-----------------------------------------------------------------------------
(* The MCP session and its challenges.                                     *)

Records == [number : Nat, expires : Nat, used : BOOLEAN]

ChallengeTypes ==
  /\ records \in [ChallengeIds -> Records]
  /\ issued \in Nat /\ clock \in Nat
  /\ verdicts \in [1..MaxIssued -> Seq(Int)]

(* A record is one of the challenges issued, a challenge has at most one    *)
(* record, and one that can still be answered has no verdict.               *)
Ledger(R) ==
  /\ \A id \in ChallengeIds : R[id] # NoRecord => R[id].number \in 1..issued
  /\ \A id \in ChallengeIds : R[id] # NoRecord /\ ~R[id].used => verdicts[R[id].number] = <<>>
  /\ \A i, j \in ChallengeIds :
       R[i] # NoRecord /\ R[j] # NoRecord /\ R[i].number = R[j].number => i = j

ChallengeInv ==
  /\ ChallengeTypes /\ issued <= MaxIssued /\ Ledger(records) /\ OneVerdict
  /\ \A n \in 1..MaxIssued : n > issued => verdicts[n] = <<>>
  /\ closing # "no" => stopping
  /\ closing = "done" => \A id \in ChallengeIds : records[id] = NoRecord

ChallengeStep ==
  \/ \E id \in ChallengeIds : Issue(id) \/ IssueRefused(id)
  \/ \E id \in ChallengeIds, right \in BOOLEAN : Verify(id, right)
  \/ StoreNext
  \/ UNCHANGED challengeVars

Underway == {i \in Ids : stage[i] # "none"}

AdmissionTypes ==
  /\ reader \in {"receiving", "acquiring", "over"}
  /\ reader = "acquiring" => held \in Ids
  /\ free \in Nat
  /\ stage \in [Ids -> {"none", "running", "ready"}]

AdmissionInv == AdmissionTypes /\ IsFiniteSet(Underway) /\ AdmissionAccounted

ServerIInv == ChallengeInv /\ AdmissionInv

-----------------------------------------------------------------------------
LEMMA NoRecordType == NoRecord \in Records /\ NoRecord.number = 0 /\ NoRecord.expires = 0
  BY DEF NoRecord, Records

(* What _cleanup_locked leaves is a ledger, and none of it has expired.     *)
LEMMA CleanedIsLedger ==
  ASSUME ChallengeInv
  PROVE  /\ Cleaned \in [ChallengeIds -> Records] /\ Ledger(Cleaned)
         /\ \A id \in ChallengeIds : Cleaned[id] # NoRecord =>
              Cleaned[id].expires > clock /\ Cleaned[id] = records[id]
         /\ closing = "done" => \A id \in ChallengeIds : Cleaned[id] = NoRecord
<1>1. Cleaned \in [ChallengeIds -> Records]
  BY NoRecordType DEF Cleaned, ChallengeInv, ChallengeTypes
<1>2. \A id \in ChallengeIds : Cleaned[id] # NoRecord =>
        Cleaned[id].expires > clock /\ Cleaned[id] = records[id]
  BY DEF Cleaned, ChallengeInv, ChallengeTypes, Records
<1>3. \A id \in ChallengeIds : records[id] = NoRecord => Cleaned[id] = NoRecord
  BY DEF Cleaned
<1>4. QED
  BY <1>1, <1>2, <1>3 DEF ChallengeInv, Ledger

LEMMA ChallengeInitHolds == ChallengeInit => ChallengeInv
<1> SUFFICES ASSUME ChallengeInit PROVE ChallengeInv
  OBVIOUS
<1>1. ChallengeTypes
  BY NoRecordType DEF ChallengeInit, ChallengeTypes
<1>2. issued <= MaxIssued
  BY ChallengeAssumption DEF ChallengeInit
<1>3. QED
  BY <1>1, <1>2 DEF ChallengeInit, ChallengeInv, Ledger, OneVerdict

LEMMA IssueKeeps ==
  ASSUME ChallengeInv, NEW id \in ChallengeIds, Issue(id)
  PROVE  ChallengeInv'
<1> DEFINE new == [number |-> issued + 1, expires |-> clock + TTL, used |-> FALSE]
<1>1. /\ Cleaned \in [ChallengeIds -> Records] /\ Ledger(Cleaned)
      /\ issued \in Nat /\ clock \in Nat /\ verdicts \in [1..MaxIssued -> Seq(Int)]
  BY CleanedIsLedger DEF ChallengeInv, ChallengeTypes
<1>2. new \in Records /\ issued' = issued + 1 /\ issued' <= MaxIssued
  BY <1>1, ChallengeAssumption DEF Issue, Records
<1>3. /\ records' = [Cleaned EXCEPT ![id] = new]
      /\ UNCHANGED <<stopping, expirer, closing, clock, verdicts>> /\ ~stopping
  BY DEF Issue
<1>4. ChallengeTypes'
  BY <1>1, <1>2, <1>3 DEF ChallengeTypes
<1>5. verdicts[issued + 1] = <<>>
  BY <1>1, <1>2 DEF ChallengeInv
<1>6. \A i \in ChallengeIds : records'[i] = IF i = id THEN new ELSE Cleaned[i]
  BY <1>1, <1>3
<1>7. Ledger(records)'
  BY <1>1, <1>2, <1>3, <1>5, <1>6 DEF Ledger, Records
<1>8. QED
  BY <1>1, <1>2, <1>3, <1>4, <1>7 DEF ChallengeInv, OneVerdict

LEMMA CleanedKeeps ==
  ASSUME ChallengeInv, records' = Cleaned,
         UNCHANGED <<stopping, expirer, closing, clock, issued, verdicts>>
  PROVE  ChallengeInv'
  BY CleanedIsLedger DEF ChallengeInv, ChallengeTypes, Ledger, OneVerdict

LEMMA VerifyKeeps ==
  ASSUME ChallengeInv, NEW id \in ChallengeIds, NEW right \in BOOLEAN, Verify(id, right)
  PROVE  ChallengeInv'
<1>1. CASE records' = Cleaned /\ UNCHANGED verdicts
  BY <1>1, CleanedKeeps DEF Verify
<1>2. CASE Cleaned[id] # NoRecord /\ ~Cleaned[id].used /\ Judge(Cleaned, id, TRUE)
  <2> DEFINE n == Cleaned[id].number
             age == clock + TTL - Cleaned[id].expires
  <2>1. /\ Cleaned \in [ChallengeIds -> Records] /\ Ledger(Cleaned)
        /\ issued \in Nat /\ clock \in Nat /\ verdicts \in [1..MaxIssued -> Seq(Int)]
        /\ issued <= MaxIssued
        /\ UNCHANGED <<stopping, expirer, closing, clock, issued>>
    BY CleanedIsLedger DEF ChallengeInv, ChallengeTypes, Verify
  <2>2. /\ Cleaned[id].expires > clock /\ Cleaned[id].expires \in Nat
        /\ n \in 1..issued /\ verdicts[n] = <<>>
    BY <1>2, <2>1, CleanedIsLedger DEF Ledger, Records
  <2>3. age \in Int /\ age < TTL
    BY <2>1, <2>2, ChallengeAssumption
  <2>4. /\ records' = [Cleaned EXCEPT ![id].used = TRUE]
        /\ verdicts' = [verdicts EXCEPT ![n] = Append(@, age)]
    BY <1>2 DEF Judge
  <2>5. /\ \A i \in ChallengeIds \ {id} : records'[i] = Cleaned[i]
        /\ records'[id] \in Records /\ records'[id].number = n /\ records'[id].used
        /\ records' \in [ChallengeIds -> Records]
    BY <2>1, <2>4 DEF Records
  <2>6. n \in 1..MaxIssued
    BY <2>1, <2>2, ChallengeAssumption
  <2>7. /\ verdicts'[n] = <<age>> /\ \A m \in 1..MaxIssued : m # n => verdicts'[m] = verdicts[m]
        /\ verdicts' \in [1..MaxIssued -> Seq(Int)]
    BY <2>1, <2>2, <2>3, <2>4, <2>6
  <2>8. ChallengeTypes'
    BY <2>1, <2>5, <2>7 DEF ChallengeTypes
  <2>9. OneVerdict'
    <3>1. DOMAIN verdicts = 1..MaxIssued /\ DOMAIN verdicts' = 1..MaxIssued
      BY <2>1, <2>7
    <3>2. Len(verdicts'[n]) <= 1 /\ \A k \in DOMAIN verdicts'[n] : verdicts'[n][k] < TTL
      BY <2>3, <2>7
    <3>3. QED
      BY <2>7, <3>1, <3>2 DEF ChallengeInv, OneVerdict
  <2>10. Ledger(records)'
    <3>1. \A i \in ChallengeIds \ {id} : records'[i] # NoRecord =>
            Cleaned[i].number \in 1..issued /\ Cleaned[i].number # n
      BY <1>2, <2>1, <2>5 DEF Ledger
    <3>2. \A i \in ChallengeIds \ {id} : records'[i] # NoRecord /\ ~records'[i].used =>
            verdicts'[records'[i].number] = <<>>
      <4> SUFFICES ASSUME NEW i \in ChallengeIds \ {id},
                          records'[i] # NoRecord, ~records'[i].used
                   PROVE  verdicts'[records'[i].number] = <<>>
        OBVIOUS
      <4>1. records'[i] = Cleaned[i] /\ Cleaned[i].number \in 1..MaxIssued \ {n}
        BY <2>1, <2>5, <3>1, ChallengeAssumption
      <4>2. verdicts[Cleaned[i].number] = <<>>
        BY <2>1, <4>1 DEF Ledger
      <4>3. QED
        BY <2>7, <4>1, <4>2
    <3>3. \A i \in ChallengeIds : records'[i] # NoRecord => records'[i].number \in 1..issued
      BY <2>2, <2>5, <3>1
    <3>4. \A i, j \in ChallengeIds :
            records'[i] # NoRecord /\ records'[j] # NoRecord
              /\ records'[i].number = records'[j].number => i = j
      <4> SUFFICES ASSUME NEW i \in ChallengeIds, NEW j \in ChallengeIds, i # j,
                          records'[i] # NoRecord, records'[j] # NoRecord
                   PROVE  records'[i].number # records'[j].number
        OBVIOUS
      <4>1. CASE i = id \/ j = id
        BY <2>5, <3>1, <4>1
      <4>2. CASE i # id /\ j # id
        BY <2>1, <2>5, <4>2 DEF Ledger
      <4>3. QED
        BY <4>1, <4>2
    <3>5. QED
      BY <2>1, <2>5, <3>2, <3>3, <3>4 DEF Ledger
  <2>11. \A m \in 1..MaxIssued : m > issued' => verdicts'[m] = <<>>
    BY <2>1, <2>2, <2>7 DEF ChallengeInv
  <2>12. closing # "done"
    BY <1>2, CleanedIsLedger
  <2>13. QED
    BY <2>1, <2>8, <2>9, <2>10, <2>11, <2>12 DEF ChallengeInv
<1>3. QED
  BY <1>1, <1>2 DEF Verify

LEMMA StoreKeeps == ASSUME ChallengeInv, StoreNext PROVE ChallengeInv'
<1>1. CASE Expire
  BY <1>1, CleanedKeeps DEF Expire
<1>2. CASE ExpirerEnds
  BY <1>2 DEF ExpirerEnds, ChallengeInv, ChallengeTypes, Ledger, OneVerdict
<1>3. CASE Close
  BY <1>3 DEF Close, ChallengeInv, ChallengeTypes, Ledger, OneVerdict
<1>4. CASE CloseClears
  BY <1>4, NoRecordType DEF CloseClears, ChallengeInv, ChallengeTypes, Ledger, OneVerdict
<1>5. CASE Tick
  BY <1>5 DEF Tick, ChallengeInv, ChallengeTypes, Ledger, OneVerdict
<1>6. QED
  BY <1>1, <1>2, <1>3, <1>4, <1>5 DEF StoreNext

LEMMA ChallengeKept == ASSUME ChallengeInv, ChallengeStep PROVE ChallengeInv'
<1>1. ASSUME NEW id \in ChallengeIds, IssueRefused(id) PROVE ChallengeInv'
  BY <1>1, CleanedKeeps DEF IssueRefused
<1>2. CASE UNCHANGED challengeVars
  BY <1>2 DEF challengeVars, ChallengeInv, ChallengeTypes, Ledger, OneVerdict
<1>3. QED
  BY <1>1, <1>2, IssueKeeps, VerifyKeeps, StoreKeeps DEF ChallengeStep

-----------------------------------------------------------------------------
LEMMA AdmissionInitHolds == Init => AdmissionInv
<1> SUFFICES ASSUME Init PROVE AdmissionInv
  OBVIOUS
<1>1. Underway = {}
  BY DEF Init, Underway
<1>2. IsFiniteSet(Underway) /\ Cardinality(Underway) = 0
  BY <1>1, FS_EmptySet
<1>3. AdmissionTypes
  BY AdmissionAssumption DEF Init, AdmissionTypes
<1>4. AdmissionAccounted
  BY <1>1, <1>2, AdmissionAssumption DEF Init, AdmissionAccounted, Underway
<1>5. QED
  BY <1>2, <1>3, <1>4 DEF AdmissionInv

LEMMA AdmitKeeps == ASSUME AdmissionInv, Admit PROVE AdmissionInv'
<1>1. /\ held \in Ids /\ free \in Nat /\ free > 0 /\ stage \in [Ids -> {"none", "running", "ready"}]
      /\ free + Cardinality(Underway) = MaxInflight /\ IsFiniteSet(Underway)
      /\ inflight = {KeyOf[i] : i \in Underway}
      /\ \A i, j \in Underway : KeyOf[i] = KeyOf[j] => i = j
  BY DEF Admit, AdmissionInv, AdmissionTypes, AdmissionAccounted, Underway
<1>2. held \notin Underway /\ \A i \in Underway : KeyOf[i] # KeyOf[held]
  BY <1>1 DEF Admit
<1>3. Underway' = Underway \cup {held}
  BY <1>1 DEF Admit, Underway
<1>4. IsFiniteSet(Underway') /\ Cardinality(Underway') = Cardinality(Underway) + 1
  BY <1>1, <1>2, <1>3, FS_AddElement
<1>5. AdmissionTypes'
  BY <1>1 DEF Admit, AdmissionTypes
<1>6. (free + Cardinality(Underway))' = MaxInflight
  <2>1. Cardinality(Underway) \in Nat
    BY <1>1, FS_CardinalityType
  <2>2. QED
    BY <1>1, <1>4, <2>1 DEF Admit
<1>7. inflight' = {KeyOf[i] : i \in Underway'}
  BY <1>1, <1>3 DEF Admit
<1>8. \A i, j \in Underway' : KeyOf[i] = KeyOf[j] => i = j
  BY <1>1, <1>2, <1>3
<1>9. QED
  BY <1>4, <1>5, <1>6, <1>7, <1>8 DEF AdmissionInv, AdmissionAccounted, Underway

LEMMA RespondKeepsCount ==
  ASSUME AdmissionInv, NEW k \in Ids, Respond(k) PROVE AdmissionInv'
<1>1. /\ k \in Underway /\ free \in Nat /\ stage \in [Ids -> {"none", "running", "ready"}]
      /\ free + Cardinality(Underway) = MaxInflight /\ IsFiniteSet(Underway)
      /\ inflight = {KeyOf[i] : i \in Underway}
      /\ \A i, j \in Underway : KeyOf[i] = KeyOf[j] => i = j
  BY DEF Respond, AdmissionInv, AdmissionTypes, AdmissionAccounted, Underway
<1>2. Underway' = Underway \ {k}
  BY <1>1 DEF Respond, Underway
<1>3. IsFiniteSet(Underway') /\ Cardinality(Underway') = Cardinality(Underway) - 1
  BY <1>1, <1>2, FS_RemoveElement
<1>4. free' = free + 1
  BY <1>1 DEF Respond
<1>5. AdmissionTypes'
  BY <1>1, <1>4 DEF Respond, AdmissionInv, AdmissionTypes
<1>6. (free + Cardinality(Underway))' = MaxInflight
  <2>1. Cardinality(Underway) \in Nat
    BY <1>1, FS_CardinalityType
  <2>2. QED
    BY <1>1, <1>3, <1>4, <2>1
<1>7. inflight' = {KeyOf[i] : i \in Underway'}
  BY <1>1, <1>2 DEF Respond
<1>8. \A i, j \in Underway' : KeyOf[i] = KeyOf[j] => i = j
  BY <1>1, <1>2
<1>9. QED
  BY <1>3, <1>5, <1>6, <1>7, <1>8 DEF AdmissionInv, AdmissionAccounted, Underway

(* A step that takes and gives back no slot. *)
LEMMA SlotsKept ==
  ASSUME AdmissionInv, AdmissionTypes', Underway' = Underway, UNCHANGED <<free, inflight>>
  PROVE  AdmissionInv'
  BY DEF AdmissionInv, AdmissionAccounted, Underway

LEMMA ToolKeeps ==
  ASSUME AdmissionInv, NEW i \in Ids, Run(i) PROVE AdmissionInv' /\ ChallengeStep
<1>1. /\ stage[i] = "running" /\ stage' = [stage EXCEPT ![i] = "ready"]
      /\ UNCHANGED <<reader, held, free, inflight>>
  BY DEF Run, VisionChallengeTool, VerifyVisionChallengeTool, OtherTool, Tool
<1>2. AdmissionTypes' /\ Underway' = Underway
  BY <1>1 DEF AdmissionInv, AdmissionTypes, Underway
<1>3. ChallengeStep
  BY DEF Run, VisionChallengeTool, VerifyVisionChallengeTool, OtherTool, Tool, ChallengeStep
<1>4. QED
  BY <1>1, <1>2, <1>3, SlotsKept

-----------------------------------------------------------------------------
LEMMA ServerInitHolds == Init => ServerIInv
  BY ChallengeInitHolds, AdmissionInitHolds DEF Init, ServerIInv

LEMMA ServerStepKeeps == ServerIInv /\ [Next]_vars => ServerIInv'
<1> SUFFICES ASSUME ServerIInv, [Next]_vars PROVE ServerIInv'
  OBVIOUS
<1>0. ChallengeInv /\ AdmissionInv
  BY DEF ServerIInv
<1>1. ASSUME NEW i \in Ids, Receive(i) PROVE ServerIInv'
  <2>1. AdmissionTypes' /\ Underway' = Underway /\ UNCHANGED <<free, inflight, challengeVars>>
    BY <1>0, <1>1 DEF Receive, AdmissionInv, AdmissionTypes, Underway
  <2>2. QED
    BY <1>0, <2>1, SlotsKept, ChallengeKept DEF ServerIInv, ChallengeStep
<1>2. ASSUME NEW i \in Ids, Run(i) PROVE ServerIInv'
  BY <1>0, <1>2, ToolKeeps, ChallengeKept DEF ServerIInv
<1>3. ASSUME NEW i \in Ids, Respond(i) PROVE ServerIInv'
  BY <1>0, <1>3, RespondKeepsCount, ChallengeKept DEF ServerIInv, ChallengeStep, Respond
<1>4. CASE Admit
  BY <1>0, <1>4, AdmitKeeps, ChallengeKept DEF ServerIInv, ChallengeStep, Admit
<1>5. CASE Reject \/ End
  <2>1. AdmissionTypes' /\ Underway' = Underway /\ UNCHANGED <<free, inflight, challengeVars>>
    BY <1>0, <1>5 DEF Reject, End, AdmissionInv, AdmissionTypes, Underway
  <2>2. QED
    BY <1>0, <2>1, SlotsKept, ChallengeKept DEF ServerIInv, ChallengeStep
<1>6. CASE StoreNext /\ UNCHANGED <<reader, held, free, inflight, stage, received>>
  <2>1. AdmissionTypes' /\ Underway' = Underway /\ UNCHANGED <<free, inflight>>
    BY <1>0, <1>6 DEF AdmissionInv, AdmissionTypes, Underway
  <2>2. QED
    BY <1>0, <1>6, <2>1, SlotsKept, ChallengeKept DEF ServerIInv, ChallengeStep
<1>7. CASE UNCHANGED vars
  <2>1. AdmissionTypes' /\ Underway' = Underway /\ UNCHANGED <<free, inflight, challengeVars>>
    BY <1>0, <1>7 DEF vars, AdmissionInv, AdmissionTypes, Underway
  <2>2. QED
    BY <1>0, <2>1, SlotsKept, ChallengeKept DEF ServerIInv, ChallengeStep
<1>8. QED
  BY <1>1, <1>2, <1>3, <1>4, <1>5, <1>6, <1>7 DEF Next

LEMMA ServerInvariant == Spec => []ServerIInv
  BY ServerInitHolds, ServerStepKeeps, PTL DEF Spec

(* A challenge gets one verdict, and only before it expires, whatever       *)
(* requests, the expiry thread and close() do at the same time.             *)
THEOREM ChallengesJudgedOnce == Spec => []OneVerdict
<1>1. ServerIInv => OneVerdict
  BY DEF ServerIInv, ChallengeInv
<1>2. QED
  BY <1>1, ServerInvariant, PTL

(* After a close() that returned no expected claim is kept. *)
THEOREM ClosedStoreIsEmpty == Spec => []ClosedKeepsNothing
<1>1. ServerIInv => ClosedKeepsNothing
  BY DEF ServerIInv, ChallengeInv, ClosedKeepsNothing, Active
<1>2. QED
  BY <1>1, ServerInvariant, PTL

(* Slots and requests under way add up, and every request under way is the  *)
(* only one of its key.                                                     *)
THEOREM SlotsAddUp == Spec => []AdmissionAccounted
<1>1. ServerIInv => AdmissionAccounted
  BY DEF ServerIInv, AdmissionInv
<1>2. QED
  BY <1>1, ServerInvariant, PTL
=============================================================================
