--------------------------- MODULE CameraSnapshot ---------------------------
(***************************************************************************)
(* agent/camera_snapshot.py: CameraSnapshotProvider.capture(), one still   *)
(* under one deadline, called by any number of threads.                    *)
(*                                                                         *)
(* The caller that gets the operation lock (never waiting for it) goes     *)
(* through admission, lease, factory, open, reads, close and release; every *)
(* call of these may raise an Exception, which becomes an answer, or be    *)
(* interrupted (a BaseException), which propagates but must leave the      *)
(* provider usable or closed for good.  Clocks are a choice: the deadline  *)
(* may have passed at each look.  The minimum interval between two opens is *)
(* taken to be positive.                                                   *)
(***************************************************************************)
EXTENDS Naturals

CONSTANTS
  Callers,        \* threads that call capture()
  Nobody,         \* the operation lock is free
  WarmupFrames,   \* _warmup_frames
  MaxAttempts,    \* _max_attempts
  MaxRequests     \* bound of the model: calls of capture()

ASSUME SnapshotAssumption ==
  /\ Nobody \notin Callers
  /\ WarmupFrames \in Nat /\ MaxAttempts \in Nat \ {0} /\ MaxRequests \in Nat

VARIABLES
  lock,          \* _operation_lock: the caller that has it
  pc,            \* where that caller is
  result,        \* the answer it is going to return, or "interrupt"
  reads,         \* frames read by _capture_with_backend
  attempt,       \* its loop variable
  answer,        \* per caller, its last answer
  closeStuck,    \* _close_stuck, and _retained_backend is not None
  leaseHeld,     \* _lease_held
  lease,         \* the lease of the device is held (external)
  handles,       \* backends created and not confirmed closed (external)
  lost,          \* history: how many of these were let go of without a latch
  recentOpen,    \* _open_is_throttled
  requests,      \* _metrics_counts[_REQUESTS]
  opens          \* history: values of _last_open_started_ns in the current interval

call    == <<lock, pc, result, reads, attempt>>
device  == <<lease, leaseHeld, handles, closeStuck, lost>>
timing  == <<recentOpen, opens>>
vars == <<call, answer, device, requests, timing>>

Answers == {"ok", "busy", "timeout", "unavailable", "failed", "interrupt"}

Init ==
  /\ lock = Nobody /\ pc = "idle" /\ result = "none" /\ reads = 0 /\ attempt = 0
  /\ answer = [c \in Callers |-> "none"]
  /\ lease = FALSE /\ leaseHeld = FALSE /\ handles = 0 /\ closeStuck = FALSE
  /\ lost = 0
  /\ requests = 0
  /\ recentOpen = FALSE /\ opens = 0

-----------------------------------------------------------------------------
(* capture() up to the operation lock. *)
Enter(c) ==
  /\ requests < MaxRequests /\ lock # c
  /\ requests' = requests + 1
  /\ \/ /\ answer' = [answer EXCEPT ![c] = "timeout"] /\ UNCHANGED call
     \/ /\ lock # Nobody
        /\ answer' = [answer EXCEPT ![c] = "busy"] /\ UNCHANGED call
     \/ /\ lock = Nobody
        /\ lock' = c /\ pc' = "check" /\ result' = "none" /\ reads' = 0 /\ attempt' = 0
        /\ UNCHANGED answer
  /\ UNCHANGED <<device, timing>>

Goto(next) == pc' = next /\ UNCHANGED <<lock, result, reads, attempt>>

(* The answer is r unless something later changes it; next comes cleanup. *)
Conclude(r, next) == pc' = next /\ result' = r /\ UNCHANGED <<lock, reads, attempt>>

(* Mutant: the interval since the last open is not looked at. *)
CheckIgnoringInterval ==
  /\ pc = "check"
  /\ IF closeStuck \/ leaseHeld THEN Conclude("failed", "release")
     ELSE Conclude("failed", "release") \/ Conclude("timeout", "release") \/ Goto("admit")
  /\ UNCHANGED <<answer, device, requests, timing>>

(* The tests that open the operation: latches, clock, deadline, interval.  *)
Check ==
  /\ pc = "check"
  /\ IF closeStuck \/ leaseHeld THEN Conclude("failed", "release")
     ELSE \/ Conclude("failed", "release") \/ Conclude("timeout", "release")
          \/ recentOpen /\ Conclude("busy", "release")
          \/ ~recentOpen /\ Goto("admit")
  /\ UNCHANGED <<answer, device, requests, timing>>

(* _resources_admit, and the clock again; the interval cannot have begun    *)
(* again meanwhile, as only the holder of the operation lock opens.         *)
Admit ==
  /\ pc = "admit"
  /\ \/ \E r \in {"unavailable", "failed", "timeout", "interrupt"} : Conclude(r, "release")
     \/ Goto("acquire")
  /\ UNCHANGED <<answer, device, requests, timing>>

AcquireLease ==
  /\ pc = "acquire"
  /\ \/ /\ \E r \in {"busy", "failed", "interrupt"} : Conclude(r, "release")
        /\ UNCHANGED <<lease, leaseHeld, timing>>
     \/ /\ lease' = TRUE /\ leaseHeld' = TRUE
        /\ recentOpen' = TRUE /\ opens' = opens + 1
        /\ Goto("factory")
  /\ UNCHANGED <<answer, handles, closeStuck, lost, requests>>

(* The factory raised or made something that is no backend, or made one.   *)
CreateBackend ==
  /\ pc = "factory"
  /\ \/ \E r \in {"failed", "interrupt"} : Conclude(r, "release") /\ UNCHANGED handles
     \/ Goto("open") /\ handles' = handles + 1
  /\ UNCHANGED <<answer, lease, leaseHeld, closeStuck, lost, requests, timing>>

-----------------------------------------------------------------------------
(* _capture_with_backend. *)
OpenBackend ==
  /\ pc = "open"
  /\ \/ \E r \in {"failed", "timeout", "unavailable", "interrupt"} : Conclude(r, "close")
     \/ Goto("read")
  /\ UNCHANGED <<answer, device, requests, timing>>

(* The deadline has passed, or the read failed for good, or raised, or a   *)
(* frame is unlike the stream.                                             *)
ReadFails ==
  /\ pc = "read"
  /\ reads' \in {reads, reads + 1}
  /\ pc' = "close" /\ result' \in {"failed", "timeout", "unavailable", "interrupt"}
  /\ UNCHANGED <<lock, attempt, answer, device, requests, timing>>

ReadWarmupFrame ==
  /\ pc = "read" /\ reads < WarmupFrames
  /\ reads' = reads + 1
  /\ UNCHANGED <<lock, pc, result, attempt, answer, device, requests, timing>>

(* RECOVERABLE_ERROR in place of the frame that was asked for. *)
ReadRecoverable ==
  /\ pc = "read" /\ reads >= WarmupFrames
  /\ reads' = reads + 1
  /\ IF attempt + 1 >= MaxAttempts
     THEN pc' = "close" /\ result' = "failed" /\ UNCHANGED attempt
     ELSE attempt' = attempt + 1 /\ UNCHANGED <<pc, result>>
  /\ UNCHANGED <<lock, answer, device, requests, timing>>

(* The frame, its encoding and the last look at the deadline. *)
ReadFrame ==
  /\ pc = "read" /\ reads >= WarmupFrames
  /\ reads' = reads + 1
  /\ pc' = "close" /\ result' \in {"ok", "failed", "timeout"}
  /\ UNCHANGED <<lock, attempt, answer, device, requests, timing>>

-----------------------------------------------------------------------------
(* _create_use_and_close_backend, its finally block: closed, with no worker *)
(* process left.                                                            *)
CloseReturns ==
  /\ pc = "close"
  /\ handles' = handles - 1
  /\ Goto("release")
  /\ UNCHANGED <<answer, lease, leaseHeld, closeStuck, lost, requests, timing>>

(* Mutant: an interrupted close is not latched. *)
CloseFailsUnlatched ==
  /\ pc = "close"
  /\ \/ /\ closeStuck' = TRUE
        /\ Conclude(IF result = "interrupt" THEN "interrupt" ELSE "failed", "release")
     \/ Conclude("interrupt", "release") /\ UNCHANGED closeStuck
  /\ UNCHANGED <<answer, lease, leaseHeld, handles, lost, requests, timing>>

(* close() raised or was interrupted, or left a worker process behind, or   *)
(* the look at the worker after it was interrupted: _latch_close_failure.  *)
CloseFails ==
  /\ pc = "close"
  /\ closeStuck' = TRUE
  /\ \/ Conclude(IF result = "interrupt" THEN "interrupt" ELSE "failed", "release")
     \/ Conclude("interrupt", "release")
  /\ UNCHANGED <<answer, lease, leaseHeld, handles, lost, requests, timing>>

(* close() raised, and _latch_close_failure is interrupted while it asks    *)
(* the backend for its worker, which is before it latches anything.        *)
CloseFailureInterrupted ==
  /\ pc = "close"
  /\ lost' = lost + 1
  /\ Conclude("interrupt", "release")
  /\ UNCHANGED <<answer, lease, leaseHeld, handles, closeStuck, requests, timing>>

(* capture(), its finally block. *)
ReleaseLease ==
  /\ pc = "release" /\ leaseHeld /\ ~closeStuck
  /\ lease' = FALSE /\ leaseHeld' = FALSE
  /\ Goto("unlock")
  /\ UNCHANGED <<answer, handles, closeStuck, lost, requests, timing>>

(* Mutant: the answer stands although the release failed. *)
ReleaseFailsUnnoticed ==
  /\ pc = "release" /\ leaseHeld /\ ~closeStuck
  /\ UNCHANGED lease \/ lease' = FALSE
  /\ Goto("unlock")
  /\ UNCHANGED <<answer, leaseHeld, handles, closeStuck, lost, requests, timing>>

(* release() raised, which turns any answer into a failure, or was          *)
(* interrupted; the system may have freed the lock all the same.            *)
ReleaseFails ==
  /\ pc = "release" /\ leaseHeld /\ ~closeStuck
  /\ UNCHANGED lease \/ lease' = FALSE
  /\ \/ Conclude(IF result = "interrupt" THEN "interrupt" ELSE "failed", "unlock")
     \/ Conclude("interrupt", "unlock")
  /\ UNCHANGED <<answer, leaseHeld, handles, closeStuck, lost, requests, timing>>

ReleaseNothing ==
  /\ pc = "release" /\ (~leaseHeld \/ closeStuck)
  /\ Goto("unlock")
  /\ UNCHANGED <<answer, device, requests, timing>>

(* Mutant: an interrupt leaves without the operation lock being released. *)
LeaveUnlessInterrupted ==
  /\ pc = "unlock" /\ result # "interrupt"
  /\ lock' = Nobody /\ pc' = "idle"
  /\ answer' = [answer EXCEPT ![lock] = result]
  /\ UNCHANGED <<result, reads, attempt, device, requests, timing>>

Leave ==
  /\ pc = "unlock"
  /\ lock' = Nobody /\ pc' = "idle"
  /\ answer' = [answer EXCEPT ![lock] = result]
  /\ UNCHANGED <<result, reads, attempt, device, requests, timing>>

(* The minimum interval since the last open is over. *)
IntervalPasses ==
  /\ recentOpen
  /\ recentOpen' = FALSE /\ opens' = 0
  /\ UNCHANGED <<call, answer, device, requests>>

-----------------------------------------------------------------------------
HolderStep ==
  \/ Check \/ Admit \/ AcquireLease \/ CreateBackend
  \/ OpenBackend \/ ReadFails \/ ReadWarmupFrame \/ ReadRecoverable \/ ReadFrame
  \/ CloseReturns \/ CloseFails \/ CloseFailureInterrupted
  \/ ReleaseLease \/ ReleaseFails \/ ReleaseNothing \/ Leave

Next == HolderStep \/ IntervalPasses \/ \E c \in Callers : Enter(c)

Spec == Init /\ [][Next]_vars

(* The calls that capture() makes return, and its thread is scheduled. *)
FairSpec == Spec /\ WF_vars(HolderStep)

-----------------------------------------------------------------------------
TypeOK ==
  /\ lock \in Callers \cup {Nobody}
  /\ pc \in {"idle", "check", "admit", "acquire", "factory", "open", "read", "close",
             "release", "unlock"}
  /\ result \in Answers \cup {"none"}
  /\ reads \in Nat /\ attempt \in Nat
  /\ answer \in [Callers -> Answers \cup {"none"}]
  /\ lease \in BOOLEAN /\ leaseHeld \in BOOLEAN /\ handles \in Nat /\ closeStuck \in BOOLEAN
  /\ lost \in Nat
  /\ requests \in Nat
  /\ recentOpen \in BOOLEAN /\ opens \in Nat

(* The provider is an owner in the sense of DeviceOwner over all its       *)
(* captures, but for the backends it lost: an interrupt between a failed   *)
(* close and the latch makes it forget one.                                *)
Ownership == INSTANCE DeviceOwner WITH handles <- handles - lost

ImplementsOwner == Ownership!OSpec

(* The safety half of it: one backend at a time, under the lease.          *)
DeviceOwned == Ownership!Owned

(* "The process-wide device lease is held from before factory creation     *)
(* until a close is confirmed" (class docstring), of every backend.        *)
LeaseCoversBackend == handles > 0 => lease

(* Between two captures nothing is left open but a backend whose close     *)
(* failed, which keeps the lease and is latched so that no other is made,  *)
(* and those that an interrupted latch lost; and the lease is not held     *)
(* without the provider knowing it.                                        *)
QuietBetweenCaptures ==
  pc = "idle" =>
    /\ lock = Nobody
    /\ handles = lost + (IF closeStuck THEN 1 ELSE 0)
    /\ lease => leaseHeld
    /\ closeStuck => lease

(* A caller is told "ok" only when the backend of its capture is closed    *)
(* and the lease has been given back: a success never hides a leak.   *)
OkMeansReleased ==
  [][(pc = "unlock" /\ result = "ok" /\ pc' = "idle") =>
       (handles = lost /\ ~lease /\ ~leaseHeld)]_vars

(* The camera is opened at most once per minimum interval (from one start  *)
(* of an open to the next), however many threads ask and whatever the      *)
(* captures before came to.                                                *)
OneOpenPerInterval == opens <= 1

(* "max_attempts=2 permits exactly one additional read only after          *)
(* RECOVERABLE_ERROR" (class docstring).                                   *)
ReadsBounded == reads <= WarmupFrames + MaxAttempts

(* No capture keeps the operation lock for ever, interrupted or not: "a    *)
(* non-application interrupt must never strand the operation lock".        *)
CaptureAnswers == \A c \in Callers : (lock = c) ~> (lock # c)

=============================================================================
