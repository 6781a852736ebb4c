--------------------------- MODULE LiveScheduler ---------------------------
(***************************************************************************)
(* runtime/live.py: one worker thread takes the newest frame from the slot *)
(* the controller fills, has it processed, publishes the observation and   *)
(* hands it to an observation writer.                                      *)
(*                                                                         *)
(* Threads: the worker (_run), the callers of start() and stop(), who      *)
(* exclude each other by the lifecycle lock (a stop() that does not get it *)
(* in time returns False and changes nothing: a stutter), the controller,  *)
(* and the writer, of which only what ObservationWriter promises is kept:  *)
(* its state, how much is pending, and a stop() that joins its thread.     *)
(* Clocks are a choice.                                                    *)
(***************************************************************************)
EXTENDS Integers

CONSTANTS
  MaxEpoch,     \* bound of the model: stream epochs
  MaxSequence   \* bound of the model: frames per epoch

ASSUME SchedulerAssumption == MaxEpoch \in Nat /\ MaxSequence \in Nat

VARIABLES
  state,          \* _state
  stopRequested,  \* _stop_requested
  worker,         \* where the worker thread is; "none" before start()
  frame,          \* local frame of _run
  control,        \* the lifecycle lock, and where its holder is
  late,           \* local worker_alive of _stop_serialized
  owns,           \* _owns_writer
  slot,           \* the frame waiting in the latest-frame slot
  slotClosed,     \* ... which is closed
  epoch,          \* what current_epoch() answers (external)
  produced,       \* the newest frame offered by the controller (external)
  obsClosed,      \* the observation slot is closed
  published,      \* the frame of the newest observation in that slot
  writer,         \* state of the writer
  pending,        \* how many observations wait in the writer
  joiner,         \* who is in the writer's stop()
  saidTrue,       \* history: some stop() returned True
  everLate,       \* history: some stop() gave up on the worker
  refused,        \* history: an observation was refused by a closed writer
  finished,       \* history: the epoch when the processor returned
  compared        \* history: the validation was told an epoch to compare with

NoFrame == [epoch |-> -1, seq |-> -1]

camera  == <<slot, slotClosed, epoch, produced>>
sink    == <<writer, pending, joiner>>
results == <<obsClosed, published>>
history == <<saidTrue, everLate, refused, finished, compared>>
vars == <<state, stopRequested, worker, frame, control, late, owns, camera, results, sink,
          history>>

WorkerAlive == worker \notin {"none", "unstarted", "dead"}

Init ==
  /\ state = "new" /\ stopRequested = FALSE /\ worker = "none" /\ frame = NoFrame
  /\ control = "free" /\ late = FALSE /\ owns = FALSE
  /\ slot = NoFrame /\ slotClosed = FALSE /\ epoch = 0 /\ produced = NoFrame
  /\ obsClosed = FALSE /\ published = NoFrame
  /\ writer = "new" /\ pending = 0 /\ joiner = "none"
  /\ saidTrue = FALSE /\ everLate = FALSE /\ refused = FALSE /\ finished = -1
  /\ compared = FALSE

-----------------------------------------------------------------------------
(* The controller: a newer frame replaces the one in the slot, a new stream *)
(* begins, the slot is closed; and somebody closes the observation slot.    *)
FrameArrives ==
  /\ ~slotClosed
  /\ LET seq == IF produced.epoch = epoch THEN produced.seq + 1 ELSE 0
     IN  seq <= MaxSequence /\ produced' = [epoch |-> epoch, seq |-> seq]
  /\ slot' = produced'
  /\ UNCHANGED <<state, stopRequested, worker, frame, control, late, owns, slotClosed, epoch,
                 results, sink, history>>

NewStream ==
  /\ epoch < MaxEpoch
  /\ epoch' = epoch + 1
  /\ UNCHANGED <<state, stopRequested, worker, frame, control, late, owns, slot, slotClosed,
                 produced, results, sink, history>>

FramesClose ==
  /\ ~slotClosed
  /\ slotClosed' = TRUE /\ slot' = NoFrame
  /\ UNCHANGED <<state, stopRequested, worker, frame, control, late, owns, epoch, produced,
                 results, sink, history>>

ObservationsClose ==
  /\ ~obsClosed /\ obsClosed' = TRUE
  /\ UNCHANGED <<state, stopRequested, worker, frame, control, late, owns, camera, published,
                 sink, history>>

-----------------------------------------------------------------------------
(* start(): RUNNING first, then the writer, then the worker.               *)
Start ==
  /\ control = "free" /\ state = "new"
  /\ state' = "running" /\ control' = "starting"
  /\ UNCHANGED <<stopRequested, worker, frame, late, owns, camera, results, sink, history>>

(* The writer is not ready, failed, could not even be started, or belongs  *)
(* to somebody else and is not running.                                    *)
StartFails ==
  /\ control = "starting"
  /\ \/ owns' = TRUE /\ writer' \in {"stuck", "failed"}
     \/ UNCHANGED <<owns, writer>>
  /\ state' = "failed" /\ control' = "free"
  /\ UNCHANGED <<stopRequested, worker, frame, late, camera, results, pending, joiner, history>>

(* A writer that was supplied in NEW is owned from now on; one that runs    *)
(* already is not, and what happens to it is its owner's business.         *)
(* Thread.start() of the worker may raise.                                 *)
StartWorker ==
  /\ control = "starting"
  /\ owns' \in BOOLEAN
  /\ writer' = IF owns' THEN "running" ELSE writer
  /\ worker' \in {"loop", "unstarted"} /\ control' = "free"
  /\ UNCHANGED <<state, stopRequested, frame, late, camera, results, pending, joiner, history>>

-----------------------------------------------------------------------------
(* _run and _process. *)
At(pc) == worker = pc
Goto(pc) == worker' = pc
WorkerOnly == UNCHANGED <<stopRequested, control, late, owns, camera, results, sink>>

(* Mutant: only a closed slot ends the loop. *)
LoopIgnoringStop ==
  /\ At("loop") /\ Goto("take")
  /\ UNCHANGED <<state, frame, history>> /\ WorkerOnly

Loop ==
  /\ At("loop")
  /\ Goto(IF stopRequested THEN "exit" ELSE "take")
  /\ UNCHANGED <<state, frame, history>> /\ WorkerOnly

(* Mutant: the frame stays in the slot. *)
TakeFrameKeeps ==
  /\ At("take")
  /\ \/ slot # NoFrame /\ frame' = slot /\ Goto("admit")
     \/ slot = NoFrame /\ Goto(IF slotClosed THEN "exit" ELSE "loop") /\ UNCHANGED frame
  /\ UNCHANGED <<state, stopRequested, control, late, owns, camera, results, sink, history>>

(* LatestFrameSlot.take(), with a bounded wait. *)
TakeFrame ==
  /\ At("take")
  /\ \/ /\ slot # NoFrame
        /\ frame' = slot /\ slot' = NoFrame /\ Goto("admit")
     \/ /\ slot = NoFrame
        /\ Goto(IF slotClosed THEN "exit" ELSE "loop") /\ UNCHANGED <<frame, slot>>
  /\ UNCHANGED <<state, stopRequested, control, late, owns, slotClosed, epoch, produced,
                 results, sink, history>>

(* _read_epoch: without a current_epoch, or when it answers None, the frame *)
(* is not compared with the stream.                                        *)
OfStream(answered) == answered => frame.epoch = epoch

(* Not too old, not of another stream, admitted. *)
Admit ==
  /\ At("admit")
  /\ \/ Goto("loop")
     \/ (\E answered \in BOOLEAN : OfStream(answered)) /\ Goto("process")
  /\ UNCHANGED <<state, frame, history>> /\ WorkerOnly

(* processor.process() raises, or returns. *)
Process ==
  /\ At("process")
  /\ \/ Goto("loop") /\ UNCHANGED history
     \/ Goto("result") /\ finished' = epoch /\ UNCHANGED <<saidTrue, everLate, refused, compared>>
  /\ UNCHANGED <<state, frame>> /\ WorkerOnly

ResultAfterStop ==
  /\ At("result")
  /\ Goto(IF stopRequested THEN "loop" ELSE "validate")
  /\ UNCHANGED <<state, frame, history>> /\ WorkerOnly

(* Mutant: the stream is not looked at again. *)
ValidateIdentityOnly ==
  /\ At("validate")
  /\ Goto("loop") \/ Goto("publish")
  /\ compared' = TRUE
  /\ UNCHANGED <<state, frame, saidTrue, everLate, refused, finished>> /\ WorkerOnly

(* Identity, sensitivity, the stream once more, age and size. *)
Validate ==
  /\ At("validate")
  /\ \E answered \in BOOLEAN :
       /\ compared' = answered
       /\ \/ Goto("loop")
          \/ OfStream(answered) /\ Goto("publish")
  /\ UNCHANGED <<state, frame, saidTrue, everLate, refused, finished>> /\ WorkerOnly

(* The region under _result_lock: the flag, then the slot. *)
CheckBeforePublish ==
  /\ At("publish")
  /\ Goto(IF stopRequested THEN "loop" ELSE "offer")
  /\ UNCHANGED <<state, frame, history>> /\ WorkerOnly

Publish ==
  /\ At("offer")
  /\ IF obsClosed THEN Goto("loop") /\ UNCHANGED published
                  ELSE Goto("persist") /\ published' = frame
  /\ UNCHANGED <<state, stopRequested, frame, control, late, owns, camera, obsClosed, sink,
                 history>>

(* The flag once more, then _persist: not admitted, or a store or a writer  *)
(* that is not ours, whose put() or submit() leaves only counts behind.     *)
CheckBeforePersist ==
  /\ At("persist")
  /\ \/ Goto("loop")
     \/ ~stopRequested /\ owns /\ Goto("submit")
  /\ UNCHANGED <<state, frame, history>> /\ WorkerOnly

Submit ==
  /\ At("submit")
  /\ Goto("loop")
  /\ IF writer = "running"
     THEN pending' \in {pending, pending + 1} /\ UNCHANGED history
     ELSE refused' = TRUE /\ UNCHANGED <<pending, saidTrue, everLate, finished, compared>>
  /\ UNCHANGED <<state, stopRequested, frame, control, late, owns, camera, results, writer,
                 joiner>>

(* Something in the loop raised. *)
WorkerRaises ==
  /\ worker \in {"admit", "validate", "publish", "persist"}
  /\ state' = "failed" /\ Goto("exit")
  /\ UNCHANGED <<frame, history>> /\ WorkerOnly

(* The finally block. *)
Exit ==
  /\ At("exit")
  /\ Goto(IF stopRequested \/ ~owns THEN "mark" ELSE "drain")
  /\ UNCHANGED <<state, frame, history>> /\ WorkerOnly

Mark ==
  /\ At("mark")
  /\ state' = IF state \in {"failed", "stuck"} THEN state ELSE "stopped"
  /\ Goto("tail")
  /\ UNCHANGED <<frame, history>> /\ WorkerOnly

ThreadEnds ==
  /\ At("tail")
  /\ Goto("dead")
  /\ UNCHANGED <<state, frame, history>> /\ WorkerOnly

-----------------------------------------------------------------------------
(* The writer's own thread: it persists, fails, or ends once it is drained. *)
WriterPersists ==
  /\ writer \in {"running", "draining", "stuck"} /\ pending > 0
  /\ pending' = pending - 1
  /\ UNCHANGED <<state, stopRequested, worker, frame, control, late, owns, camera, results,
                 writer, joiner, history>>

WriterFails ==
  /\ writer \in {"running", "draining"}
  /\ writer' = "failed" /\ pending' = 0
  /\ UNCHANGED <<state, stopRequested, worker, frame, control, late, owns, camera, results,
                 joiner, history>>

WriterEnds ==
  /\ writer = "draining" /\ pending = 0
  /\ writer' = "stopped"
  /\ UNCHANGED <<state, stopRequested, worker, frame, control, late, owns, camera, results,
                 pending, joiner, history>>

(* _stop_owned_writer, for who is "worker" or "stop": the writer's stop()   *)
(* is entered or answers at once.                                          *)
EnterWriterStop(who, drain) ==
  /\ joiner = "none" /\ writer # "stopped"
  /\ joiner' = who
  /\ writer' = IF writer = "running" THEN "draining" ELSE writer
  /\ pending' = IF writer = "running" /\ ~drain THEN 0 ELSE pending

WriterStopAtOnce == (joiner # "none" \/ writer = "stopped") /\ UNCHANGED sink

(* ... and its answer is projected: clean, unclean after a join that timed  *)
(* out (STUCK), unclean after a failure.                                   *)
WriterStopped(who) == joiner = who /\ writer = "stopped" /\ UNCHANGED <<writer, pending>>

WriterTimedOut(who) == joiner = who /\ writer' = "stuck" /\ UNCHANGED pending

WriterUnclean(who) ==
  joiner = who /\ writer \in {"failed", "stuck"} /\ UNCHANGED <<writer, pending>>

ProjectUnclean == state' = IF writer' = "stuck" \/ state = "stuck" THEN "stuck" ELSE "failed"

(* The writer's stop() refuses a timeout above 30 seconds before it does    *)
(* anything; the scheduler's policy allows 60.                             *)
WriterStopRaises ==
  /\ state' = IF state = "stuck" THEN "stuck" ELSE "failed"
  /\ UNCHANGED sink

DrainBegins ==
  /\ At("drain")
  /\ \/ EnterWriterStop("worker", TRUE) /\ Goto("drainJoin") /\ UNCHANGED state
     \/ WriterStopAtOnce /\ Goto("mark") /\ UNCHANGED state
     \/ WriterStopRaises /\ Goto("mark")
  /\ UNCHANGED <<stopRequested, frame, control, late, owns, camera, results, history>>

DrainEnds ==
  /\ At("drainJoin") /\ joiner' = "none" /\ Goto("mark")
  /\ \/ WriterStopped("worker") /\ UNCHANGED state
     \/ (WriterTimedOut("worker") \/ WriterUnclean("worker")) /\ ProjectUnclean
  /\ UNCHANGED <<stopRequested, frame, control, late, owns, camera, results, history>>

-----------------------------------------------------------------------------
(* stop(), under the lifecycle lock. *)
StopOnly == UNCHANGED <<worker, frame, owns, camera, results>>
Answer(true) ==
  /\ control' = "free"
  /\ saidTrue' = (saidTrue \/ true) /\ UNCHANGED <<everLate, refused, finished, compared>>

StopBegins ==
  /\ control = "free"
  /\ \/ state = "new" /\ state' = "stopped" /\ Answer(TRUE)
     \/ state \in {"stopped", "failed"} /\ ~owns /\ Answer(TRUE) /\ UNCHANGED state
     \/ /\ state \notin {"new"} /\ ~(state \in {"stopped", "failed"} /\ ~owns)
        /\ state' = IF state \in {"failed", "stuck"} THEN state ELSE "stopping"
        /\ control' = "signal" /\ UNCHANGED history
  /\ late' = FALSE
  /\ UNCHANGED <<stopRequested, sink>> /\ StopOnly

StopSignals ==
  /\ control = "signal"
  /\ stopRequested' = TRUE
  /\ control' = IF worker = "none" THEN "writer" ELSE "join"
  /\ UNCHANGED <<state, late, sink, history>> /\ StopOnly

(* Mutant: the worker is not joined. *)
StopJoinsNothing ==
  /\ control = "join"
  /\ control' = "writer"
  /\ UNCHANGED <<state, stopRequested, late, sink, history>> /\ StopOnly

(* join() returns, or raises for a thread that never started. *)
StopJoins ==
  /\ control = "join" /\ worker \in {"dead", "unstarted"}
  /\ control' = IF worker = "dead" THEN "writer" ELSE "free"
  /\ UNCHANGED <<state, stopRequested, late, sink, history>> /\ StopOnly

StopGivesUp ==
  /\ control = "join" /\ WorkerAlive
  /\ control' = "writer" /\ late' = TRUE /\ everLate' = TRUE
  /\ state' = "stuck"
  /\ UNCHANGED <<stopRequested, sink, saidTrue, refused, finished, compared>> /\ StopOnly

(* No writer of ours to stop: the answer depends on the worker alone. *)
StopWithoutWriter ==
  /\ control = "writer" /\ ~owns
  /\ state' = IF late \/ state = "failed" THEN state ELSE "stopped"
  /\ Answer(~late)
  /\ UNCHANGED <<stopRequested, late, sink>> /\ StopOnly

StopWriterBegins ==
  /\ control = "writer" /\ owns
  /\ \/ EnterWriterStop("stop", ~late) /\ control' = "writerJoin" /\ UNCHANGED <<state, history>>
     \/ /\ joiner # "none" /\ UNCHANGED <<state, sink>> /\ Answer(FALSE)
     \/ ~late /\ WriterStopRaises /\ Answer(FALSE)  \* a late worker leaves no time
     \/ /\ joiner = "none" /\ writer = "stopped" /\ UNCHANGED sink
        /\ state' = IF late \/ state = "failed" THEN state ELSE "stopped"
        /\ Answer(~late)
  /\ UNCHANGED <<stopRequested, late>> /\ StopOnly

(* Mutant: the answer of the writer is not part of the answer. *)
StopWriterEndsTrue ==
  /\ control = "writerJoin" /\ joiner' = "none"
  /\ \/ /\ WriterStopped("stop")
        /\ state' = IF late \/ state = "failed" THEN state ELSE "stopped"
     \/ (WriterTimedOut("stop") \/ WriterUnclean("stop")) /\ ProjectUnclean
  /\ Answer(~late)
  /\ UNCHANGED <<stopRequested, late>> /\ StopOnly

StopWriterEnds ==
  /\ control = "writerJoin" /\ joiner' = "none"
  /\ \/ /\ WriterStopped("stop")
        /\ state' = IF late \/ state = "failed" THEN state ELSE "stopped"
        /\ Answer(~late)
     \/ (WriterTimedOut("stop") \/ WriterUnclean("stop")) /\ ProjectUnclean /\ Answer(FALSE)
  /\ UNCHANGED <<stopRequested, late>> /\ StopOnly

-----------------------------------------------------------------------------
WorkerStep ==
  \/ Loop \/ TakeFrame \/ Admit \/ Process \/ ResultAfterStop \/ Validate
  \/ CheckBeforePublish \/ Publish \/ CheckBeforePersist \/ Submit \/ WorkerRaises
  \/ Exit \/ DrainBegins \/ DrainEnds \/ Mark \/ ThreadEnds

WriterStep == WriterPersists \/ WriterFails \/ WriterEnds

StartStop ==
  \/ Start \/ StartFails \/ StartWorker
  \/ StopBegins \/ StopSignals \/ StopJoins \/ StopGivesUp
  \/ StopWithoutWriter \/ StopWriterBegins \/ StopWriterEnds

Next ==
  \/ FrameArrives \/ NewStream \/ FramesClose \/ ObservationsClose
  \/ WorkerStep \/ WriterStep \/ StartStop

Spec == Init /\ [][Next]_vars

(* The threads of worker and writer are scheduled, and the processor and   *)
(* the store return.                                                       *)
FairSpec == Spec /\ WF_vars(WorkerStep) /\ WF_vars(WriterStep)

-----------------------------------------------------------------------------
Frames == [epoch : Int, seq : Int]

TypeOK ==
  /\ state \in {"new", "running", "stopping", "stopped", "failed", "stuck"}
  /\ stopRequested \in BOOLEAN
  /\ worker \in {"none", "unstarted", "loop", "take", "admit", "process", "result",
                 "validate", "publish", "offer", "persist", "submit", "exit", "drain",
                 "drainJoin", "mark", "tail", "dead"}
  /\ frame \in Frames /\ slot \in Frames /\ produced \in Frames /\ published \in Frames
  /\ control \in {"free", "starting", "signal", "join", "writer", "writerJoin"}
  /\ late \in BOOLEAN /\ owns \in BOOLEAN /\ slotClosed \in BOOLEAN /\ obsClosed \in BOOLEAN
  /\ epoch \in Nat /\ finished \in Int
  /\ writer \in {"new", "running", "draining", "stopped", "failed", "stuck"}
  /\ pending \in Nat /\ joiner \in {"none", "worker", "stop"}
  /\ saidTrue \in BOOLEAN /\ everLate \in BOOLEAN /\ refused \in BOOLEAN
  /\ compared \in BOOLEAN

(* A stop() that returned True is final: the worker publishes and submits  *)
(* nothing any more, and a writer the scheduler owns is STOPPED, whatever  *)
(* earlier stops gave up on.                                               *)
StopTrueIsFinal ==
  saidTrue =>
    /\ worker \in {"none", "exit", "mark", "tail", "dead"}
    /\ owns => writer = "stopped" /\ worker \in {"none", "dead"}

(* The writer a scheduler owns is closed after the worker is through and    *)
(* before STOPPED is exposed: the worker is never refused by a writer that  *)
(* its own scheduler closed, unless a stop() gave up on the worker, and     *)
(* STOPPED without an explicit stop() means that the writer is STOPPED too, *)
(* also when the writer's stop() raised.                                    *)
WriterClosedInOrder ==
  /\ refused => everLate \/ writer \in {"failed", "stuck"}
  /\ state = "stopped" /\ owns /\ ~stopRequested => writer = "stopped"

Newer(f, g) == f.epoch > g.epoch \/ (f.epoch = g.epoch /\ f.seq > g.seq)

(* Observations are published in the order of their frames, each at most   *)
(* once, across reconnections and replaced frames.                         *)
Published == worker = "offer" /\ worker' = "persist"
PublishedAdvance == [][Published => Newer(published', published)]_vars

(* An observation whose validation was told an epoch is published only if   *)
(* the stream of its frame was still the current one when the processor     *)
(* returned.                                                                *)
NoResultOfOldStream ==
  [][Published /\ compared => (published'.epoch >= finished)]_vars

(* A requested stop, or the end of the frames, ends the worker.             *)
WorkerEnds ==
  (WorkerAlive /\ (stopRequested \/ slotClosed)) ~> (worker = "dead")

=============================================================================
