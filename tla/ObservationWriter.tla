------------------------- MODULE ObservationWriter -------------------------
(***************************************************************************)
(* storage/writer.py: a store that is created, used and closed by exactly  *)
(* one daemon thread, behind a queue bounded by count and by bytes.        *)
(*                                                                         *)
(* Threads: the worker (_run), one caller of start(), any number of        *)
(* callers of submit() and the callers of stop() in Stoppers.  One action  *)
(* is one region under self._condition, together with the call outside     *)
(* the lock that led to it when nobody can see the moment in between.      *)
(* Timeouts are a choice: a bounded wait may end at any moment.            *)
(***************************************************************************)
EXTENDS Integers, Sequences, SequencesExt

CONSTANTS
  Stoppers,          \* threads that call stop()
  MaxPendingCount,   \* max_pending_count
  MaxPendingBytes,   \* max_pending_bytes
  Sizes,             \* canonical sizes of the observations offered
  MaxSubmissions     \* bound of the model: calls of submit()

ASSUME WriterAssumption ==
  /\ MaxPendingCount \in Nat \ {0}
  /\ MaxPendingBytes \in Nat \ {0}
  /\ Sizes \subseteq Nat \ {0}
  /\ MaxSubmissions \in Nat

VARIABLES
  state,            \* _state
  failureReason,    \* _failure_reason, "none" for None
  worker,           \* where the daemon thread is; "none" before start()
  store,            \* the store object: "none", "open", "closed", "broken"
  activeStore,      \* _active_store is not None
  retainedStore,    \* _retained_store is not None
  ready,            \* _ready
  stopRequested,    \* _stop_requested
  drainRequested,   \* _drain_requested
  queue,            \* _queue: records of item number and canonical bytes
  pendingBytes,     \* _pending_bytes
  inFlight,         \* _in_flight
  queued,           \* _queued: also numbers the items
  rejected,         \* _rejected
  persisted,        \* sum of the three receipt counters (_record_receipt)
  failed,           \* _persisted_failed by an exception of put()
  discarded,        \* _discarded
  putLog,           \* item numbers handed to store.put(), in order
  starter,          \* the caller of start()
  stopper           \* per caller of stop(): what it is doing or was told

lifecycle == <<state, failureReason, stopRequested, drainRequested>>
handles   == <<store, activeStore, retainedStore>>
pending   == <<queue, pendingBytes, inFlight>>
counters  == <<queued, rejected, persisted, failed, discarded, putLog>>
vars == <<lifecycle, worker, handles, ready, pending, counters, starter, stopper>>

States  == {"new", "running", "draining", "stopped", "failed", "stuck"}
Workers == {"none", "unstarted", "factory", "loop", "put", "close", "final", "tail", "dead"}
Reports == {"clean", "unclean", "busy", "raised"}

WorkerAlive == worker \notin {"none", "unstarted", "dead"}
StopLockFree == \A s \in Stoppers : stopper[s] # "joining"

Init ==
  /\ state = "new" /\ failureReason = "none"
  /\ stopRequested = FALSE /\ drainRequested = FALSE
  /\ worker = "none" /\ ready = FALSE
  /\ store = "none" /\ activeStore = FALSE /\ retainedStore = FALSE
  /\ queue = <<>> /\ pendingBytes = 0 /\ inFlight = FALSE
  /\ queued = 0 /\ rejected = 0 /\ persisted = 0 /\ failed = 0 /\ discarded = 0
  /\ putLog = <<>>
  /\ starter = "idle"
  /\ stopper = [s \in Stoppers |-> "idle"]

-----------------------------------------------------------------------------
(* Mutant: the items thrown away are not counted. *)
DiscardUncounted ==
  /\ queue' = <<>>
  /\ pendingBytes' = 0
  /\ UNCHANGED discarded

(* _discard_pending_locked *)
DiscardPending ==
  /\ discarded' = discarded + Len(queue)
  /\ queue' = <<>>
  /\ pendingBytes' = 0

(* start(): the thread is created and started under the condition;        *)
(* Thread.start() may raise.                                               *)
Start ==
  /\ starter = "idle" /\ worker = "none" /\ state = "new"
  /\ \/ worker' = "factory" /\ starter' = "waiting"
     \/ worker' = "unstarted" /\ starter' = "raised"
  /\ UNCHANGED <<lifecycle, handles, ready, pending, counters, stopper>>

(* The wait for _ready ended with the event set (or set in time for the    *)
(* second look under the condition).                                       *)
StartReports ==
  /\ starter = "waiting" /\ ready
  /\ starter' = IF state = "running" THEN "ready" ELSE "notready"
  /\ UNCHANGED <<lifecycle, worker, handles, ready, pending, counters, stopper>>

StartTimesOut ==
  /\ starter = "waiting" /\ ~ready
  /\ state' = "stuck" /\ failureReason' = "factory_ready_timeout"
  /\ stopRequested' = TRUE
  /\ starter' = "notready"
  /\ UNCHANGED <<drainRequested, worker, handles, ready, pending, counters, stopper>>

-----------------------------------------------------------------------------

(* submit(): why an observation of this size is turned away. *)
Refused(bytes) ==
  \/ bytes > MaxPendingBytes
  \/ state # "running"
  \/ Len(queue) >= MaxPendingCount
  \/ pendingBytes + bytes > MaxPendingBytes

SubmitRefused(bytes) ==
  /\ queued + rejected < MaxSubmissions
  /\ Refused(bytes)
  /\ rejected' = rejected + 1
  /\ UNCHANGED <<lifecycle, worker, handles, ready, pending, queued, persisted,
                 failed, discarded, putLog, starter, stopper>>

SubmitQueued(bytes) ==
  /\ queued + rejected < MaxSubmissions
  /\ ~Refused(bytes)
  /\ queued' = queued + 1
  /\ queue' = Append(queue, [id |-> queued + 1, bytes |-> bytes])
  /\ pendingBytes' = pendingBytes + bytes
  /\ UNCHANGED <<lifecycle, worker, handles, ready, inFlight, rejected, persisted,
                 failed, discarded, putLog, starter, stopper>>

-----------------------------------------------------------------------------
(* _run, the worker thread.  The factory raised, or returned something    *)
(* that is no store, and is closed all the same.                           *)
FactoryFails ==
  /\ worker = "factory"
  /\ state' = "failed" /\ failureReason' = "store_factory_failed"
  /\ DiscardPending
  /\ ready' = TRUE
  /\ \/ worker' = "final" /\ UNCHANGED store
     \/ worker' = "close" /\ store' = "open"
  /\ UNCHANGED <<stopRequested, drainRequested, activeStore, retainedStore, inFlight, queued, rejected,
                 persisted, failed, putLog, starter, stopper>>

FactoryReturns ==
  /\ worker = "factory"
  /\ store' = "open" /\ activeStore' = TRUE
  /\ state' = IF state = "stuck" THEN "stuck"
              ELSE IF stopRequested THEN "draining" ELSE "running"
  /\ ready' = TRUE
  /\ worker' = "loop"
  /\ UNCHANGED <<failureReason, stopRequested, drainRequested, retainedStore, pending,
                 counters, starter, stopper>>

(* Mutants: the newest item goes first; nothing is taken once a stop was   *)
(* requested.                                                              *)
TakeNewest ==
  /\ worker = "loop" /\ queue # <<>>
  /\ queue' = Front(queue)
  /\ pendingBytes' = pendingBytes - Last(queue).bytes
  /\ inFlight' = TRUE
  /\ putLog' = Append(putLog, Last(queue).id)
  /\ worker' = "put"
  /\ UNCHANGED <<lifecycle, handles, ready, queued, rejected, persisted, failed,
                 discarded, starter, stopper>>

TakeUntilStop == ~stopRequested /\ TakeNewest

Take ==
  /\ worker = "loop" /\ queue # <<>>
  /\ queue' = Tail(queue)
  /\ pendingBytes' = pendingBytes - Head(queue).bytes
  /\ inFlight' = TRUE
  /\ putLog' = Append(putLog, Head(queue).id)
  /\ worker' = "put"
  /\ UNCHANGED <<lifecycle, handles, ready, queued, rejected, persisted, failed,
                 discarded, starter, stopper>>

(* Mutant: the loop waits for a drain that need not be requested. *)
LoopEndsOnDrain ==
  /\ worker = "loop" /\ queue = <<>> /\ stopRequested /\ drainRequested
  /\ worker' = "close"
  /\ UNCHANGED <<lifecycle, handles, ready, pending, counters, starter, stopper>>

LoopEnds ==
  /\ worker = "loop" /\ queue = <<>> /\ stopRequested
  /\ worker' = "close"
  /\ UNCHANGED <<lifecycle, handles, ready, pending, counters, starter, stopper>>

(* Mutant: a stop ends the loop, whether or not it asked for a drain. *)
PutReturnsNoDrain ==
  /\ worker = "put"
  /\ inFlight' = FALSE
  /\ persisted' = persisted + 1
  /\ worker' = IF stopRequested THEN "close" ELSE "loop"
  /\ UNCHANGED <<lifecycle, handles, ready, queue, pendingBytes, queued, rejected, failed,
                 discarded, putLog, starter, stopper>>

(* put() returned a receipt, whatever its status. *)
PutReturns ==
  /\ worker = "put"
  /\ inFlight' = FALSE
  /\ persisted' = persisted + 1
  /\ worker' = IF stopRequested /\ ~drainRequested THEN "close" ELSE "loop"
  /\ UNCHANGED <<lifecycle, handles, ready, queue, pendingBytes, queued, rejected, failed,
                 discarded, putLog, starter, stopper>>

(* Mutant: the error path returns without closing the store. *)
PutRaisesNoClose ==
  /\ worker = "put"
  /\ inFlight' = FALSE
  /\ failed' = failed + 1
  /\ state' = "failed" /\ failureReason' = "store_put_failed"
  /\ DiscardPending
  /\ worker' = "final"
  /\ UNCHANGED <<stopRequested, drainRequested, handles, ready, queued, rejected, persisted,
                 putLog, starter, stopper>>

PutRaises ==
  /\ worker = "put"
  /\ inFlight' = FALSE
  /\ failed' = failed + 1
  /\ state' = "failed" /\ failureReason' = "store_put_failed"
  /\ DiscardPending
  /\ worker' = "close"
  /\ UNCHANGED <<stopRequested, drainRequested, handles, ready, queued, rejected, persisted,
                 putLog, starter, stopper>>

CloseStore ==
  /\ worker = "close"
  /\ store' \in {"closed", "broken"}
  /\ worker' = "final"
  /\ UNCHANGED <<lifecycle, activeStore, retainedStore, ready, pending, counters, starter,
                 stopper>>

(* The region that ends the finally block. *)
Finalise ==
  /\ worker = "final"
  /\ inFlight' = FALSE
  /\ activeStore' = FALSE
  /\ ready' = TRUE
  /\ \/ /\ state = "stuck"
        /\ retainedStore' = (retainedStore \/ store # "none")
        /\ UNCHANGED <<state, failureReason>>
     \/ /\ state # "stuck" /\ store = "broken"
        /\ state' = "failed" /\ failureReason' = "store_close_failed"
        /\ UNCHANGED retainedStore
     \/ /\ state # "stuck" /\ store # "broken"
        /\ state' = IF state = "failed" THEN "failed" ELSE "stopped"
        /\ UNCHANGED <<failureReason, retainedStore>>
  /\ worker' = "tail"
  /\ UNCHANGED <<stopRequested, drainRequested, store, queue, pendingBytes, counters,
                 starter, stopper>>

(* is_alive() becomes false only some time after the last statement. *)
ThreadEnds ==
  /\ worker = "tail"
  /\ worker' = "dead"
  /\ UNCHANGED <<lifecycle, handles, ready, pending, counters, starter, stopper>>

-----------------------------------------------------------------------------
(* stop(drain, timeout) by s: _stop_lock, then the region before join(). *)
StopAnswers(s, report) ==
  /\ stopper' = [stopper EXCEPT ![s] = report]
  /\ UNCHANGED <<worker, handles, ready, pending, counters, starter>>

StopBusy(s) ==
  /\ stopper[s] # "joining" /\ ~StopLockFree
  /\ StopAnswers(s, "busy")
  /\ UNCHANGED lifecycle

StopAtOnce(s) ==
  /\ StopLockFree
  /\ state = "stopped" \/ (worker = "none" /\ state = "new")
  /\ state' = "stopped"
  /\ StopAnswers(s, "clean")
  /\ UNCHANGED <<failureReason, stopRequested, drainRequested>>

(* RUNNING.  DRAINING never gets here: see DrainingHasItsStopper.          *)
StopFirst(s, drain) ==
  /\ StopLockFree /\ worker # "none"
  /\ state = "running"
  /\ state' = "draining"
  /\ stopRequested' = TRUE /\ drainRequested' = drain
  /\ IF drain THEN UNCHANGED <<queue, pendingBytes, discarded>> ELSE DiscardPending
  /\ stopper' = [stopper EXCEPT ![s] = "joining"]
  /\ UNCHANGED <<failureReason, worker, handles, ready, inFlight, queued, rejected, persisted,
                 failed, putLog, starter>>

(* FAILED, STUCK, or NEW with a thread whose factory has not returned. *)
StopOther(s, drain) ==
  /\ StopLockFree /\ worker # "none"
  /\ state \in {"new", "failed", "stuck"}
  /\ stopRequested' = TRUE /\ drainRequested' = drain
  /\ stopper' = [stopper EXCEPT ![s] = "joining"]
  /\ UNCHANGED <<state, failureReason, worker, handles, ready, pending, counters, starter>>

(* join() of a thread that never started raises RuntimeError. *)
StopJoins(s) ==
  /\ stopper[s] = "joining" /\ worker \in {"dead", "unstarted"}
  /\ StopAnswers(s, IF worker = "unstarted" THEN "raised"
                    ELSE IF state = "stopped" THEN "clean" ELSE "unclean")
  /\ UNCHANGED lifecycle

StopTimesOut(s) ==
  /\ stopper[s] = "joining" /\ WorkerAlive
  /\ state' = "stuck" /\ failureReason' = "stop_timeout"
  /\ retainedStore' = (retainedStore \/ activeStore)
  /\ stopper' = [stopper EXCEPT ![s] = "unclean"]
  /\ UNCHANGED <<stopRequested, drainRequested, worker, store, activeStore, ready, pending,
                 counters, starter>>

-----------------------------------------------------------------------------
StoreCall == FactoryFails \/ FactoryReturns \/ PutReturns \/ PutRaises \/ CloseStore
WorkerStep == StoreCall \/ Take \/ LoopEnds \/ Finalise \/ ThreadEnds
StopCall(s) ==
  \/ StopBusy(s) \/ StopAtOnce(s) \/ StopJoins(s) \/ StopTimesOut(s)
  \/ \E drain \in BOOLEAN : StopFirst(s, drain) \/ StopOther(s, drain)

Next ==
  \/ Start \/ StartReports \/ StartTimesOut
  \/ \E bytes \in Sizes : SubmitRefused(bytes) \/ SubmitQueued(bytes)
  \/ WorkerStep
  \/ \E s \in Stoppers : StopCall(s)

Spec == Init /\ [][Next]_vars

(* A store whose calls return (SQLite's are bounded by busy_timeout), and  *)
(* a scheduler that runs the worker thread.                                *)
FairSpec == Spec /\ WF_vars(WorkerStep)

-----------------------------------------------------------------------------
Items == [id : Nat, bytes : Nat]

TypeOK ==
  /\ state \in States
  /\ failureReason \in {"none", "factory_ready_timeout", "store_factory_failed",
                        "store_put_failed", "store_close_failed", "stop_timeout"}
  /\ worker \in Workers
  /\ store \in {"none", "open", "closed", "broken"}
  /\ activeStore \in BOOLEAN /\ retainedStore \in BOOLEAN
  /\ ready \in BOOLEAN /\ stopRequested \in BOOLEAN /\ drainRequested \in BOOLEAN
  /\ queue \in Seq(Items)
  /\ pendingBytes \in Int /\ inFlight \in BOOLEAN
  /\ queued \in Nat /\ rejected \in Nat /\ persisted \in Nat
  /\ failed \in Nat /\ discarded \in Nat
  /\ putLog \in Seq(Nat)
  /\ starter \in {"idle", "waiting", "ready", "notready", "raised"}
  /\ stopper \in [Stoppers -> {"idle", "joining"} \cup Reports]

(* Every observation submit() answered "queued" is in exactly one place:   *)
(* receipted, failed, discarded, waiting or in the hands of the store.     *)
(* The counters are written by four regions of two kinds of threads        *)
(* (submit, _stop_serialized, and _run's take and settle regions).         *)
Accounting ==
  queued = persisted + failed + discarded + Len(queue) + (IF inFlight THEN 1 ELSE 0)

SumBytes(q) == MapThenSumSet(LAMBDA i : q[i].bytes, DOMAIN q)

(* The queue never exceeds either of its limits, and the running total     *)
(* _pending_bytes is that of the items really waiting, also after a        *)
(* discard raced with the worker's popleft.                                *)
QueueWithinLimits ==
  /\ Len(queue) <= MaxPendingCount
  /\ pendingBytes = SumBytes(queue)
  /\ pendingBytes <= MaxPendingBytes

(* A stop() that reported clean=True is final: the writer stays STOPPED,   *)
(* the store was closed (or never made) by the worker, and nothing is      *)
(* waiting, in flight or unaccounted, whatever other stops did meanwhile.  *)
CleanIsFinal ==
  (\E s \in Stoppers : stopper[s] = "clean") =>
    /\ state = "stopped"
    /\ store \in {"none", "closed"} /\ ~activeStore
    /\ worker \in {"none", "tail", "dead"}
    /\ queue = <<>> /\ ~inFlight

(* STOPPED after a stop(drain=True) means that every observation queued    *)
(* reached put(), in order: neither a failure nor another stop's           *)
(* drain=False lost one on the way.                                        *)
DrainLosesNothing ==
  state = "stopped" /\ drainRequested =>
    /\ putLog = [n \in 1 .. queued |-> n]
    /\ persisted = queued

(* No thread of the writer ends and leaves its store open.                 *)
StoreNotLeaked == worker \in {"tail", "dead"} => store # "open"

(* The writer implements a bounded delivery queue (DeliveryQueue).         *)
Phase == CASE state = "new" -> "new" [] state = "running" -> "open" [] OTHER -> "closed"
Ids(q) == [i \in 1 .. Len(q) |-> q[i].id]

Delivery == INSTANCE DeliveryQueue WITH
  phase <- Phase, accepted <- queued, backlog <- Ids(queue), handed <- putLog,
  dropped <- discarded

(* submit/stop/_run together hand items over in order, at most once, drop  *)
(* them only while or after closing, and never reopen.                     *)
ImplementsDelivery == Delivery!QSpec

(* With a store that answers, a requested stop ends the worker thread,     *)
(* including when the request came from a start() that timed out.          *)
ShutdownCompletes == (stopRequested /\ worker # "unstarted") ~> (worker = "dead")

(* With a store that answers, a queued observation does not wait for ever, *)
(* unless a stop timed out first: a later stop without drain then clears    *)
(* the drain flag, and the worker leaves with items waiting.                *)
EventuallySettled ==
  \A n \in 1 .. MaxSubmissions :
    (\E i \in DOMAIN queue : queue[i].id = n) ~>
      (state = "stuck" \/ \A i \in DOMAIN queue : queue[i].id # n)
=============================================================================
