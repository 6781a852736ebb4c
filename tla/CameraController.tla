-------------------------- MODULE CameraController --------------------------
(***************************************************************************)
(* capture/controller.py: one daemon thread (owner) creates, opens, reads  *)
(* and closes one backend at a time under the lease of the device, and     *)
(* publishes the newest frame in a capacity-one slot (capture/latest.py).  *)
(*                                                                         *)
(* Threads: the owner (_run), one caller of start(), the callers of stop() *)
(* in Stoppers, and whoever takes frames from or closes the slot.  An      *)
(* action is a region under self._condition or the return of a call into   *)
(* the backend, the lease or the gate, or the beginning of one: wherever   *)
(* the code reads the stop flag and acts on it afterwards (it writes the   *)
(* state, or calls factory, open() or read()) these are two actions.       *)
(* Clocks are a choice: a deadline may or may not have passed, a stream may or may    *)
(* not have been stable, a frame may or may not be stale.                  *)
(***************************************************************************)
EXTENDS Integers

CONSTANTS
  Stoppers,            \* threads that call stop()
  Gated,               \* a resource_gate is configured
  MaxReopenAttempts,   \* policy.max_reopen_attempts
  WarmupFrames,        \* policy.warmup_frames
  MaxEpoch,            \* stands for _MAX_INT64 as the last stream epoch
  MaxSequence          \* stands for _MAX_INT64 as the last frame sequence

ASSUME ControllerAssumption ==
  /\ Gated \in BOOLEAN
  /\ MaxReopenAttempts \in Nat /\ WarmupFrames \in Nat
  /\ MaxEpoch \in Nat /\ MaxSequence \in Nat

VARIABLES
  state,           \* _state
  started,         \* _started
  owner,           \* where the owner thread is; "none" before start()
  stopRequested,   \* _stop_requested
  slot,            \* LatestFrameSlot._pending, NoFrame for None
  slotClosed,      \* LatestFrameSlot._closed
  streamEpoch,     \* _stream_epoch, -1 for None
  activeStream,    \* _negotiated_stream is not None
  leaseFlag,       \* _lease_held
  lease,           \* the lease of the device is held (external)
  handles,         \* backends created and not confirmed closed (external)
  retained,        \* _retained_backend is not None
  nextEpoch,       \* local next_epoch of _run
  failedAttempts,  \* local failed_attempts of _run
  warmup,          \* local warmup_remaining of _read_stream
  sequence,        \* local sequence of _read_stream
  result,          \* what _read_stream will return
  stable,          \* ... and its second component
  after,           \* what follows the close in progress
  attempts,        \* history: backend factory calls since a stable stream
  offered,         \* history: the newest frame ever offered
  late,            \* history: calls of factory, open() and read() begun, and frames
                   \* offered, after a stop was requested
  stopper          \* per caller of stop(): where it is, or its answer

NoFrame == [epoch |-> -1, seq |-> -1]

slots   == <<slot, slotClosed>>
device  == <<lease, leaseFlag, handles, retained>>
stream  == <<streamEpoch, activeStream>>
locals  == <<nextEpoch, failedAttempts, warmup, sequence, result, stable, after>>
history == <<attempts, offered, late>>
vars == <<state, started, owner, stopRequested, slots, stream, device, locals, history,
          stopper>>

Results == {"none", "stopped", "retry", "fatal", "stuck", "slot_closed", "timeout"}
Owners == {"none", "unstarted", "begin", "admit", "acquire", "loop", "opening", "create",
           "factory", "ready", "open", "mark", "check", "next", "read", "offer", "degrade",
           "wait", "close", "retry", "cooldown", "release", "exhausted", "finally",
           "releaseLast", "last", "tail", "dead"}
OwnerAlive == owner \notin {"none", "unstarted", "dead"}

Init ==
  /\ state = "closed" /\ started = FALSE /\ owner = "none" /\ stopRequested = FALSE
  /\ slot = NoFrame /\ slotClosed = FALSE
  /\ streamEpoch = -1 /\ activeStream = FALSE
  /\ lease = FALSE /\ leaseFlag = FALSE /\ handles = 0 /\ retained = FALSE
  /\ nextEpoch = 0 /\ failedAttempts = 0 /\ warmup = 0 /\ sequence = 0
  /\ result = "none" /\ stable = FALSE /\ after = "none"
  /\ attempts = 0 /\ offered = NoFrame /\ late = 0
  /\ stopper = [s \in Stoppers |-> "idle"]

-----------------------------------------------------------------------------
(* _set_state: STUCK is overwritten by nothing but STUCK. *)
SetState(s) == state' = IF state = "stuck" THEN "stuck" ELSE s

Goto(pc) == owner' = pc
Keep(pc) == Goto(pc) /\ UNCHANGED state
Begun == late' = IF stopRequested THEN late + 1 ELSE late

(* LatestFrameSlot.close() and take(); others than the controller hold     *)
(* the slot too, and may close it.                                         *)
CloseSlot == slotClosed' = TRUE /\ slot' = NoFrame

SlotClosedOutside ==
  /\ ~slotClosed /\ CloseSlot
  /\ UNCHANGED <<state, started, owner, stopRequested, stream, device, locals, history,
                 stopper>>

TakeFrame ==
  /\ slot # NoFrame
  /\ slot' = NoFrame
  /\ UNCHANGED <<state, started, owner, stopRequested, slotClosed, stream, device, locals,
                 history, stopper>>

(* start(), with the two ways Thread.start() can end. *)
Start ==
  /\ ~started /\ ~slotClosed
  /\ started' = TRUE
  /\ \/ state' = "opening" /\ Goto("begin") /\ UNCHANGED slots
     \/ state' = "failed" /\ Goto("unstarted") /\ CloseSlot
  /\ UNCHANGED <<stopRequested, stream, device, locals, history, stopper>>

-----------------------------------------------------------------------------
(* _run up to the loop: admission, then the lease. *)
Begin ==
  /\ owner = "begin"
  /\ Keep(IF stopRequested THEN "finally" ELSE IF Gated THEN "admit" ELSE "acquire")
  /\ UNCHANGED <<started, stopRequested, slots, stream, device, locals, history, stopper>>

(* The gate of _resources_admit answers, then the second look at the stop   *)
(* flag.  (A stop seen before the gate is asked ends in "finally" as well.) *)
Admit ==
  /\ owner = "admit"
  /\ \/ SetState("failed") /\ Goto("finally")
     \/ Keep(IF stopRequested THEN "finally" ELSE "acquire")
  /\ UNCHANGED <<started, stopRequested, slots, stream, device, locals, history, stopper>>

AcquireLease ==
  /\ owner = "acquire"
  /\ \/ lease' = TRUE /\ leaseFlag' = TRUE /\ Keep("loop")
     \/ SetState("failed") /\ Goto("finally") /\ UNCHANGED <<lease, leaseFlag>>
  /\ UNCHANGED <<started, stopRequested, slots, stream, handles, retained, locals, history,
                 stopper>>

Loop ==
  /\ owner = "loop"
  /\ \/ stopRequested /\ Keep("finally")
     \/ ~stopRequested /\ nextEpoch <= MaxEpoch /\ Keep("opening")
     \/ ~stopRequested /\ nextEpoch > MaxEpoch /\ SetState("failed") /\ Goto("finally")
  /\ UNCHANGED <<started, stopRequested, slots, stream, device, locals, history, stopper>>

Opening ==
  /\ owner = "opening"
  /\ SetState("opening") /\ Goto("create")
  /\ UNCHANGED <<started, stopRequested, slots, stream, device, locals, history, stopper>>

-----------------------------------------------------------------------------
(* _create_backend and the tests that follow it. *)
CallFactory ==
  /\ owner = "create"
  /\ Keep("factory") /\ Begun
  /\ UNCHANGED <<started, stopRequested, slots, stream, device, locals, attempts, offered,
                 stopper>>

FactoryRaises ==
  /\ owner = "factory"
  /\ attempts' = attempts + 1
  /\ \/ stopRequested /\ Keep("finally") /\ UNCHANGED failedAttempts
     \/ ~stopRequested /\ Keep("retry") /\ failedAttempts' = failedAttempts + 1
  /\ UNCHANGED <<started, stopRequested, slots, stream, device, nextEpoch, warmup, sequence,
                 result, stable, after, offered, late, stopper>>

(* Not a CaptureBackend at all: nothing there to close. *)
FactoryInvalid ==
  /\ owner = "factory"
  /\ attempts' = attempts + 1
  /\ SetState("failed") /\ Goto("finally")
  /\ UNCHANGED <<started, stopRequested, slots, stream, device, locals, offered, late,
                 stopper>>

(* Mutant: the stop flag is not read after the factory returned. *)
FactoryReturnsIgnoringStop ==
  /\ owner = "factory"
  /\ attempts' = attempts + 1 /\ handles' = handles + 1
  /\ Keep("ready")
  /\ UNCHANGED <<started, stopRequested, slots, stream, lease, leaseFlag, retained, nextEpoch,
                 failedAttempts, warmup, sequence, result, stable, after, offered, late,
                 stopper>>

(* A backend, whose capabilities may be unreadable, invalid or unsafe. *)
FactoryReturns ==
  /\ owner = "factory"
  /\ attempts' = attempts + 1
  /\ handles' = handles + 1
  /\ \/ SetState("failed") /\ Goto("close") /\ after' = "end"
     \/ stopRequested /\ Keep("close") /\ after' = "end"
     \/ ~stopRequested /\ Keep("ready") /\ UNCHANGED after
  /\ UNCHANGED <<started, stopRequested, slots, stream, lease, leaseFlag, retained, nextEpoch,
                 failedAttempts, warmup, sequence, result, stable, offered, late, stopper>>

-----------------------------------------------------------------------------
(* backend.open() is called: the flag was read before, not here. *)
CallOpen ==
  /\ owner = "ready"
  /\ Keep("open") /\ Begun
  /\ UNCHANGED <<started, stopRequested, slots, stream, device, locals, attempts, offered,
                 stopper>>

(* backend.open(): it violated its deadline, the clock went backwards or   *)
(* it negotiated an invalid stream; it raised in time; it opened.          *)
OpenFatal ==
  /\ owner = "open"
  /\ SetState("failed") \/ state' = "stuck"
  /\ Goto("close") /\ after' = "end"
  /\ UNCHANGED <<started, stopRequested, slots, stream, device, nextEpoch, failedAttempts,
                 warmup, sequence, result, stable, history, stopper>>

OpenRaises ==
  /\ owner = "open"
  /\ Keep("close") /\ after' = "openError"
  /\ UNCHANGED <<started, stopRequested, slots, stream, device, nextEpoch, failedAttempts,
                 warmup, sequence, result, stable, history, stopper>>

(* Mutant: the epoch is not advanced for the next stream. *)
OpenReturnsSameEpoch ==
  /\ owner = "open"
  /\ streamEpoch' = nextEpoch /\ activeStream' = TRUE
  /\ warmup' = WarmupFrames /\ sequence' = 0
  /\ result' = "none" /\ stable' = FALSE
  /\ Keep("mark")
  /\ UNCHANGED <<started, stopRequested, slots, device, nextEpoch, failedAttempts, after,
                 history, stopper>>

OpenReturns ==
  /\ owner = "open"
  /\ streamEpoch' = nextEpoch /\ activeStream' = TRUE
  /\ nextEpoch' = nextEpoch + 1
  /\ warmup' = WarmupFrames /\ sequence' = 0
  /\ result' = "none" /\ stable' = FALSE
  /\ Keep("mark")
  /\ UNCHANGED <<started, stopRequested, slots, device, failedAttempts, after, history,
                 stopper>>

-----------------------------------------------------------------------------
(* _read_stream. *)
Mark ==
  /\ owner = "mark"
  /\ SetState(IF warmup > 0 THEN "warming" ELSE "streaming") /\ Goto("check")
  /\ UNCHANGED <<started, stopRequested, slots, stream, device, locals, history, stopper>>

(* The stream ends with r: the backend is closed next. *)
EndStream(r) ==
  /\ result' = r /\ stable' \in BOOLEAN
  /\ Goto("close") /\ after' = "stream"
  /\ UNCHANGED <<nextEpoch, failedAttempts, warmup, sequence>>

CheckStop ==
  /\ owner = "check"
  /\ \/ stopRequested /\ EndStream("stopped")
     \/ ~stopRequested /\ Goto("next") /\ UNCHANGED locals
  /\ UNCHANGED <<state, started, stopRequested, slots, stream, device, history, stopper>>

CallRead ==
  /\ owner = "next"
  /\ Keep("read") /\ Begun
  /\ UNCHANGED <<started, stopRequested, slots, stream, device, locals, attempts, offered,
                 stopper>>

(* read() raised, or returned past its deadline, or the clock moved back:  *)
(* decided before the stop flag is read again.                             *)
ReadFails ==
  /\ owner = "read"
  /\ \/ UNCHANGED state /\ (EndStream("retry") \/ EndStream("fatal"))
     \/ state' = "stuck" /\ EndStream("stuck")
  /\ UNCHANGED <<started, stopRequested, slots, stream, device, history, stopper>>

ReadStopped ==
  /\ owner = "read" /\ stopRequested
  /\ EndStream("stopped")
  /\ UNCHANGED <<state, started, stopRequested, slots, stream, device, history, stopper>>

(* An invalid result, a frame unlike the stream, or a fatal status. *)
ReadInvalid ==
  /\ owner = "read" /\ ~stopRequested
  /\ EndStream("fatal")
  /\ UNCHANGED <<state, started, stopRequested, slots, stream, device, history, stopper>>

ReadFrame ==
  /\ owner = "read" /\ ~stopRequested
  /\ warmup' = IF warmup > 0 THEN warmup - 1 ELSE 0
  /\ Keep(IF warmup = 0 THEN "offer" ELSE IF warmup = 1 THEN "mark" ELSE "check")
  /\ UNCHANGED <<started, stopRequested, slots, stream, device, nextEpoch, failedAttempts,
                 sequence, result, stable, after, history, stopper>>

(* TIMEOUT, or DISCONNECTED and RECOVERABLE_ERROR, which both end in retry. *)
ReadDegraded ==
  /\ owner = "read" /\ ~stopRequested
  /\ result' \in {"timeout", "retry"}
  /\ Keep("degrade")
  /\ UNCHANGED <<started, stopRequested, slots, stream, device, nextEpoch, failedAttempts,
                 warmup, sequence, stable, after, history, stopper>>

Degrade ==
  /\ owner = "degrade"
  /\ SetState("degraded")
  /\ \/ result = "timeout" /\ Goto("wait") /\ UNCHANGED locals
     \/ result = "retry" /\ EndStream("retry")
  /\ UNCHANGED <<started, stopRequested, slots, stream, device, history, stopper>>

(* The rest of the read interval, then the staleness test. *)
WaitEnds ==
  /\ owner = "wait"
  /\ \/ stopRequested /\ EndStream("stopped")
     \/ EndStream("retry")
     \/ Goto("mark") /\ UNCHANGED locals
  /\ UNCHANGED <<state, started, stopRequested, slots, stream, device, history, stopper>>

(* Mutant: the offer waits for the frame before it to be taken. *)
OfferFrameBlocking ==
  /\ owner = "offer" /\ sequence <= MaxSequence /\ ~slotClosed
  /\ slot = NoFrame
  /\ slot' = [epoch |-> streamEpoch, seq |-> sequence]
  /\ offered' = slot' /\ Begun
  /\ sequence' = sequence + 1
  /\ Keep("mark")
  /\ UNCHANGED <<started, stopRequested, slotClosed, stream, device, nextEpoch,
                 failedAttempts, warmup, result, stable, after, attempts, stopper>>

(* _offer_frame and LatestFrameSlot.offer(). *)
OfferFrame ==
  /\ owner = "offer" /\ sequence <= MaxSequence /\ ~slotClosed
  /\ slot' = [epoch |-> streamEpoch, seq |-> sequence]
  /\ offered' = slot' /\ Begun
  /\ sequence' = sequence + 1
  /\ Keep("mark")
  /\ UNCHANGED <<started, stopRequested, slotClosed, stream, device, nextEpoch,
                 failedAttempts, warmup, result, stable, after, attempts, stopper>>

OfferRefused ==
  /\ owner = "offer"
  /\ \/ sequence > MaxSequence /\ EndStream("fatal") /\ UNCHANGED stopRequested
     \/ sequence <= MaxSequence /\ slotClosed /\ EndStream("slot_closed")
        /\ stopRequested' = TRUE
  /\ UNCHANGED <<state, started, slots, stream, device, history, stopper>>

-----------------------------------------------------------------------------
(* _close_or_retain_backend, then what its caller does with the answer.    *)
CloseFails ==
  /\ owner = "close"
  /\ SetState("failed") \/ state' = "stuck"
  /\ retained' = TRUE
  /\ Goto("finally")
  /\ activeStream' = (activeStream /\ after # "stream")
  /\ UNCHANGED <<started, stopRequested, slots, streamEpoch, lease, leaseFlag, handles,
                 locals, history, stopper>>

CloseReturns ==
  /\ owner = "close"
  /\ handles' = handles - 1
  /\ activeStream' = (activeStream /\ after # "stream")
  /\ \/ after = "end" /\ Keep("finally") /\ UNCHANGED <<failedAttempts, attempts>>
     \/ /\ after = "openError"
        /\ failedAttempts' = failedAttempts + 1
        /\ Keep("retry") /\ UNCHANGED attempts
     \/ /\ after = "stream" /\ result \in {"stopped", "slot_closed"}
        /\ Keep("finally") /\ UNCHANGED <<failedAttempts, attempts>>
     \/ /\ after = "stream" /\ result \in {"stuck", "fatal"}
        /\ IF result = "stuck" THEN state' = "stuck" ELSE SetState("failed")
        /\ Goto("finally") /\ UNCHANGED <<failedAttempts, attempts>>
     \/ /\ after = "stream" /\ result = "retry"
        /\ failedAttempts' = IF stable THEN 1 ELSE failedAttempts + 1
        /\ attempts' = IF stable THEN 1 ELSE attempts
        /\ Keep("retry")
  /\ UNCHANGED <<started, stopRequested, slots, streamEpoch, lease, leaseFlag, retained,
                 nextEpoch, warmup, sequence, result, stable, after, offered, late,
                 stopper>>

(* _schedule_retry. *)
Retry ==
  /\ owner = "retry"
  /\ \/ failedAttempts > MaxReopenAttempts /\ Keep("release")
     \/ failedAttempts <= MaxReopenAttempts /\ SetState("cooldown") /\ Goto("cooldown")
  /\ UNCHANGED <<started, stopRequested, slots, stream, device, locals, history, stopper>>

CooldownEnds ==
  /\ owner = "cooldown"
  /\ Keep(IF stopRequested THEN "finally" ELSE "loop")
  /\ UNCHANGED <<started, stopRequested, slots, stream, device, locals, history, stopper>>

(* Mutant: the retained backend is forgotten when the lease is released. *)
ReleaseLeaseAnyway(next) ==
  /\ lease' = FALSE /\ leaseFlag' = FALSE
  /\ Keep(next)

(* _release_lease_if_safe: a release that raises keeps _lease_held, and    *)
(* the operating system may or may not have freed the lock.                *)
ReleaseLease(next) ==
  \/ /\ leaseFlag /\ ~retained
     /\ lease' = FALSE /\ leaseFlag' = FALSE
     /\ Keep(next)
  \/ /\ leaseFlag /\ ~retained
     /\ UNCHANGED lease \/ lease' = FALSE
     /\ state' = "stuck" /\ Goto(next) /\ UNCHANGED leaseFlag
  \/ /\ ~leaseFlag \/ retained
     /\ Keep(next) /\ UNCHANGED <<lease, leaseFlag>>

ReleaseExhausted ==
  /\ owner = "release"
  /\ ReleaseLease("exhausted")
  /\ UNCHANGED <<started, stopRequested, slots, stream, handles, retained, locals, history,
                 stopper>>

Exhausted ==
  /\ owner = "exhausted"
  /\ SetState("failed") /\ Goto("finally")
  /\ UNCHANGED <<started, stopRequested, slots, stream, device, locals, history, stopper>>

(* An invalid clock reading raises out of the loop: "except Exception". *)
InternalError ==
  /\ \/ owner \in {"ready", "open", "next", "read", "wait"}
     \/ owner = "check" /\ stopRequested
     \/ owner = "retry" /\ failedAttempts <= MaxReopenAttempts
  /\ SetState("failed")
  /\ IF owner = "retry" THEN Goto("finally") /\ UNCHANGED after
                        ELSE Goto("close") /\ after' = "end"
  /\ UNCHANGED <<started, stopRequested, slots, stream, device, nextEpoch, failedAttempts,
                 warmup, sequence, result, stable, history, stopper>>

(* The finally block. *)
Finally ==
  /\ owner = "finally"
  /\ activeStream' = FALSE
  /\ CloseSlot
  /\ Keep("releaseLast")
  /\ UNCHANGED <<started, stopRequested, streamEpoch, device, locals, history, stopper>>

(* Mutant: the finally block leaves the lease to somebody else. *)
ReleaseLastSkipped ==
  /\ owner = "releaseLast"
  /\ Keep("last")
  /\ UNCHANGED <<started, stopRequested, slots, stream, device, locals, history, stopper>>

ReleaseLast ==
  /\ owner = "releaseLast"
  /\ ReleaseLease("last")
  /\ UNCHANGED <<started, stopRequested, slots, stream, handles, retained, locals, history,
                 stopper>>

Last ==
  /\ owner = "last"
  /\ state' = IF state \in {"failed", "stuck"} THEN state ELSE "closed"
  /\ Goto("tail")
  /\ UNCHANGED <<started, stopRequested, slots, stream, device, locals, history, stopper>>

ThreadEnds ==
  /\ owner = "tail"
  /\ Keep("dead")
  /\ UNCHANGED <<started, stopRequested, slots, stream, device, locals, history, stopper>>

-----------------------------------------------------------------------------
(* stop(): the flag, the slot, the region under the condition, the join.   *)
StopSignals(s) ==
  /\ stopper[s] \notin {"signalled", "shut", "joining"}
  /\ stopRequested' = TRUE
  /\ stopper' = [stopper EXCEPT ![s] = "signalled"]
  /\ UNCHANGED <<state, started, owner, slots, stream, device, locals, history>>

StopShutsSlot(s) ==
  /\ stopper[s] = "signalled"
  /\ CloseSlot
  /\ stopper' = [stopper EXCEPT ![s] = "shut"]
  /\ UNCHANGED <<state, started, owner, stopRequested, stream, device, locals, history>>

StopMarks(s) ==
  /\ stopper[s] = "shut"
  /\ \/ /\ ~started
        /\ stopper' = [stopper EXCEPT ![s] = "true"] /\ UNCHANGED state
     \/ /\ started /\ state = "stuck" /\ OwnerAlive
        /\ stopper' = [stopper EXCEPT ![s] = "false"] /\ UNCHANGED state
     \/ /\ started /\ ~(state = "stuck" /\ OwnerAlive)
        /\ state' = IF OwnerAlive /\ state # "failed" THEN "stopping" ELSE state
        /\ stopper' = [stopper EXCEPT ![s] = "joining"]
  /\ UNCHANGED <<started, owner, stopRequested, slots, stream, device, locals, history>>

(* join() of a thread that never started raises RuntimeError. *)
StopJoins(s) ==
  /\ stopper[s] = "joining" /\ owner \in {"dead", "unstarted"}
  /\ stopper' = [stopper EXCEPT ![s] = IF owner = "dead" THEN "true" ELSE "raised"]
  /\ UNCHANGED <<state, started, owner, stopRequested, slots, stream, device, locals, history>>

StopTimesOut(s) ==
  /\ stopper[s] = "joining" /\ OwnerAlive
  /\ state' = "stuck"
  /\ stopper' = [stopper EXCEPT ![s] = "false"]
  /\ UNCHANGED <<started, owner, stopRequested, slots, stream, device, locals, history>>

-----------------------------------------------------------------------------
OwnerStep ==
  \/ Begin \/ Admit \/ AcquireLease \/ Loop \/ Opening
  \/ CallFactory \/ FactoryRaises \/ FactoryInvalid \/ FactoryReturns
  \/ CallOpen \/ OpenFatal \/ OpenRaises \/ OpenReturns
  \/ Mark \/ CheckStop \/ CallRead \/ ReadFails \/ ReadStopped \/ ReadInvalid \/ ReadFrame
  \/ ReadDegraded \/ Degrade \/ WaitEnds \/ OfferFrame \/ OfferRefused
  \/ CloseFails \/ CloseReturns \/ Retry \/ CooldownEnds \/ ReleaseExhausted \/ Exhausted
  \/ InternalError \/ Finally \/ ReleaseLast \/ Last \/ ThreadEnds

StopCall(s) ==
  StopSignals(s) \/ StopShutsSlot(s) \/ StopMarks(s) \/ StopJoins(s) \/ StopTimesOut(s)

Next ==
  \/ Start \/ SlotClosedOutside \/ TakeFrame
  \/ OwnerStep
  \/ \E s \in Stoppers : StopCall(s)

Spec == Init /\ [][Next]_vars

(* The owner thread is scheduled and the calls it makes return. *)
FairSpec == Spec /\ WF_vars(OwnerStep)

-----------------------------------------------------------------------------
Frames == [epoch : Int, seq : Int]

TypeOK ==
  /\ state \in {"closed", "opening", "warming", "streaming", "degraded", "cooldown",
                "stopping", "failed", "stuck"}
  /\ started \in BOOLEAN /\ owner \in Owners /\ stopRequested \in BOOLEAN
  /\ slot \in Frames /\ slotClosed \in BOOLEAN
  /\ streamEpoch \in Int /\ activeStream \in BOOLEAN
  /\ lease \in BOOLEAN /\ leaseFlag \in BOOLEAN
  /\ handles \in Nat /\ retained \in BOOLEAN
  /\ nextEpoch \in Nat /\ failedAttempts \in Nat
  /\ warmup \in Nat /\ sequence \in Nat
  /\ result \in Results /\ stable \in BOOLEAN
  /\ after \in {"none", "end", "openError", "stream"}
  /\ attempts \in Nat /\ offered \in Frames /\ late \in Nat
  /\ stopper \in [Stoppers -> {"idle", "signalled", "shut", "joining", "true", "false",
                               "raised"}]

(* "The controller never calls a second factory until the prior backend's  *)
(* close has returned. A device lease is acquired before the first factory *)
(* call and is held across retries until cleanup is confirmed." (class     *)
(* docstring): the controller is an owner in the sense of DeviceOwner.     *)
Ownership == INSTANCE DeviceOwner

ImplementsOwner == Ownership!OSpec

(* The safety half of it, which the proofs establish.                      *)
DeviceOwned == Ownership!Owned

(* When the owner thread is through, no backend is left but one that is    *)
(* retained, and the lease is free unless that backend needs it or its     *)
(* release failed, which leaves STUCK behind.                              *)
CleanupComplete ==
  owner \in {"tail", "dead"} =>
    /\ handles = 1 <=> retained
    /\ leaseFlag => (retained \/ state = "stuck")
    /\ ~activeStream

(* stop() answered True: no thread is left that could touch the device or  *)
(* the slot, which is closed and empty for ever.                           *)
StopTrueIsFinal ==
  (\E s \in Stoppers : stopper[s] = "true") =>
    /\ owner \in {"none", "dead"}
    /\ slotClosed /\ slot = NoFrame
    /\ handles = 1 => retained

(* A closed slot holds no raw frame, although offer() and close() come     *)
(* from different threads.                                                 *)
ClosedSlotIsEmpty == slotClosed => slot = NoFrame

Newer(f, g) == f.epoch > g.epoch \/ (f.epoch = g.epoch /\ f.seq > g.seq)

(* Frames are offered in strictly increasing (epoch, sequence) order       *)
(* across reconnections, and never for an epoch that is not the published  *)
(* one; so a consumer that compares epochs can tell every stale frame.     *)
FramesAdvance ==
  [][(offered' # offered) =>
       /\ Newer(offered', offered)
       /\ offered'.epoch = streamEpoch /\ activeStream]_vars

(* At most max_reopen_attempts + 1 backends are tried without one stable   *)
(* stream among them, counting failures of the factory, of open() and of   *)
(* the stream alike.                                                       *)
RetriesBounded == attempts <= MaxReopenAttempts + 1

(* The flag is read before a call and the call is made after it, so a stop *)
(* may fall between the two.  The owner notices it after that call,        *)
(* whatever the call answers and whatever retry it leads to: after a stop  *)
(* was requested at most one more factory, open() or read() call begins,   *)
(* or one more frame is offered.                                           *)
OneCallAfterStop == late <= 1

(* A requested stop ends the owner thread when its calls return, from any  *)
(* state, a cooldown included.                                             *)
StopCompletes == (stopRequested /\ started /\ owner # "unstarted") ~> (owner = "dead")

(* The tests read the state of a stopped controller as CLOSED              *)
(* (test_controller.py:1027): an answer of True leaves a terminal state.   *)
StopTrueIsTerminal ==
  (\E s \in Stoppers : stopper[s] = "true") => state \in {"closed", "failed", "stuck"}
=============================================================================
