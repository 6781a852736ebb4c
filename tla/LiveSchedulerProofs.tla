------------------------- MODULE LiveSchedulerProofs -------------------------
(***************************************************************************)
(* Theorems about LiveScheduler, for any number of streams and of frames   *)
(* in a stream.                                                            *)
(***************************************************************************)
EXTENDS LiveScheduler, TLAPS

(* What each place of the start and of a stop() means. A lifecycle call    *)
(* joins the worker before it goes for the writer, or has given up on it.  *)
ControlInv ==
  /\ state = "new" =>
       /\ worker = "none" /\ ~owns /\ control = "free" /\ ~stopRequested /\ ~saidTrue
       /\ joiner = "none" /\ writer = "new"
  /\ control = "starting" =>
       /\ state = "running" /\ worker = "none" /\ ~owns /\ ~stopRequested /\ ~saidTrue
       /\ joiner = "none" /\ writer = "new"
  /\ control \in {"signal", "join"} => ~late
  /\ control \in {"join", "writer", "writerJoin"} => stopRequested
  /\ control \in {"writer", "writerJoin"} =>
       /\ late => everLate
       /\ ~late => worker \in {"none", "dead"}

(* A writer is stopped by one thread at a time, and only by its owner.     *)
WriterInv ==
  /\ ~owns => writer = "new" /\ joiner = "none"
  /\ owns => writer # "new"
  /\ worker \in {"submit", "drain", "drainJoin"} => owns
  /\ joiner = "worker" <=> worker = "drainJoin"
  /\ joiner = "stop" <=> control = "writerJoin"

(* The stop that answers True has seen the worker off, and the writer too. *)
FinalInv ==
  /\ ~owns /\ state \in {"stopped", "failed"} =>
       worker \in {"none", "exit", "mark", "tail", "dead"}
  /\ saidTrue /\ owns => joiner = "none"

(* A writer on its way to STOPPED has no worker that could still submit.   *)
OrderInv ==
  /\ owns /\ writer \in {"draining", "stopped"} =>
       everLate \/ worker \in {"none", "drainJoin", "mark", "tail", "dead"}
  /\ worker = "mark" /\ owns /\ ~stopRequested =>
       writer = "stopped" \/ state \in {"failed", "stuck"}
  /\ state = "stopped" /\ owns /\ ~stopRequested => worker \in {"tail", "dead"}

NotBefore(f, g) == f = g \/ Newer(f, g)

(* Observation, frame in work, frame waiting and frame produced are in this *)
(* order, and a frame is never taken twice.                                *)
FrameInv ==
  /\ produced.epoch <= epoch
  /\ NotBefore(frame, published) /\ NotBefore(produced, frame)
  /\ slot # NoFrame => Newer(slot, frame) /\ NotBefore(produced, slot)
  /\ worker \in {"admit", "process", "result", "validate", "publish", "offer"} =>
       Newer(frame, published)

(* The stream when the processor returned is not later than the one that   *)
(* the validation was told, if it was told one.                            *)
StreamInv ==
  /\ finished <= epoch
  /\ worker \in {"publish", "offer"} /\ compared => frame.epoch >= finished

IInv ==
  /\ TypeOK /\ ControlInv /\ WriterInv /\ FinalInv /\ OrderInv /\ FrameInv /\ StreamInv
  /\ StopTrueIsFinal /\ WriterClosedInOrder

-----------------------------------------------------------------------------
(* Every step keeps the types. *)
LEMMA TypeStep == TypeOK /\ [Next]_vars => TypeOK'
<1> SUFFICES ASSUME TypeOK, [Next]_vars PROVE TypeOK'
  OBVIOUS
<1> USE SchedulerAssumption DEF TypeOK, Frames, NoFrame, vars, camera, sink, results,
    history, At, Goto, WorkerOnly, StopOnly
<1>1. CASE FrameArrives  BY <1>1 DEF FrameArrives
<1>2. CASE NewStream  BY <1>2 DEF NewStream
<1>3. CASE FramesClose  BY <1>3 DEF FramesClose
<1>4. CASE ObservationsClose  BY <1>4 DEF ObservationsClose
<1>5. CASE Loop  BY <1>5 DEF Loop
<1>6. CASE TakeFrame  BY <1>6 DEF TakeFrame
<1>7. CASE Admit  BY <1>7 DEF Admit
<1>8. CASE Process  BY <1>8 DEF Process
<1>9. CASE ResultAfterStop  BY <1>9 DEF ResultAfterStop
<1>10. CASE Validate  BY <1>10 DEF Validate
<1>11. CASE CheckBeforePublish  BY <1>11 DEF CheckBeforePublish
<1>12. CASE Publish  BY <1>12 DEF Publish
<1>13. CASE CheckBeforePersist  BY <1>13 DEF CheckBeforePersist
<1>14. CASE Submit
  <2>1. pending' \in Nat
    BY <1>14 DEF Submit
  <2>2. UNCHANGED <<state, stopRequested, frame, control, late, owns, camera, results, writer, joiner>>
    BY <1>14 DEF Submit
  <2>3. worker' = "loop" /\ refused' \in BOOLEAN /\ UNCHANGED <<saidTrue, everLate, finished, compared>>
    BY <1>14 DEF Submit
  <2> QED
    BY <2>1, <2>2, <2>3
<1>15. CASE WorkerRaises  BY <1>15 DEF WorkerRaises
<1>16. CASE Exit  BY <1>16 DEF Exit
<1>17. CASE DrainBegins  BY <1>17 DEF DrainBegins, EnterWriterStop, WriterStopAtOnce, WriterStopRaises
<1>18. CASE DrainEnds
  BY <1>18 DEF DrainEnds, WriterStopped, WriterTimedOut, WriterUnclean, ProjectUnclean
<1>19. CASE Mark  BY <1>19 DEF Mark
<1>20. CASE ThreadEnds  BY <1>20 DEF ThreadEnds
<1>21. CASE WriterPersists  BY <1>21 DEF WriterPersists
<1>22. CASE WriterFails  BY <1>22 DEF WriterFails
<1>23. CASE WriterEnds  BY <1>23 DEF WriterEnds
<1>24. CASE Start  BY <1>24 DEF Start
<1>25. CASE StartFails
  <2>1. writer' \in {"new", "running", "draining", "stopped", "failed", "stuck"}
    BY <1>25 DEF StartFails
  <2>2. UNCHANGED <<stopRequested, worker, frame, late, camera, results, pending, joiner, history>>
    BY <1>25 DEF StartFails
  <2>3. state' = "failed" /\ control' = "free" /\ owns' \in BOOLEAN
    BY <1>25 DEF StartFails
  <2> QED
    BY <2>1, <2>2, <2>3
<1>26. CASE StartWorker  BY <1>26 DEF StartWorker
<1>27. CASE StopBegins
  <2>1. state' \in {"new", "running", "stopping", "stopped", "failed", "stuck"}
    BY <1>27 DEF StopBegins, Answer
  <2>2. stopRequested' \in BOOLEAN /\ UNCHANGED <<worker, frame, slot, produced, published>>
    BY <1>27 DEF StopBegins, Answer
  <2>3. control' \in {"free", "starting", "signal", "join", "writer", "writerJoin"}
    BY <1>27 DEF StopBegins, Answer
  <2>4. late' \in BOOLEAN /\ owns' \in BOOLEAN /\ slotClosed' \in BOOLEAN /\ obsClosed' \in BOOLEAN
    BY <1>27 DEF StopBegins, Answer
  <2>5. UNCHANGED <<epoch, finished, writer, pending, joiner>>
    BY <1>27 DEF StopBegins, Answer
  <2>6. saidTrue' \in BOOLEAN
    BY <1>27 DEF StopBegins, Answer
  <2>7. everLate' \in BOOLEAN /\ refused' \in BOOLEAN /\ compared' \in BOOLEAN
    BY <1>27 DEF StopBegins, Answer
  <2> QED
    BY <2>1, <2>2, <2>3, <2>4, <2>5, <2>6, <2>7
<1>28. CASE StopSignals  BY <1>28 DEF StopSignals
<1>29. CASE StopJoins  BY <1>29 DEF StopJoins
<1>30. CASE StopGivesUp  BY <1>30 DEF StopGivesUp, WorkerAlive
<1>31. CASE StopWithoutWriter  BY <1>31 DEF StopWithoutWriter, Answer
<1>32. CASE StopWriterBegins
  <2>1. pending' \in Nat
    BY <1>32 DEF StopWriterBegins, EnterWriterStop, WriterStopRaises,
     Answer
  <2>2. writer' \in {"new", "running", "draining", "stopped", "failed", "stuck"}
    BY <1>32 DEF StopWriterBegins, EnterWriterStop, WriterStopRaises,
     Answer
  <2>3. state' \in {"new", "running", "stopping", "stopped", "failed", "stuck"}
    BY <1>32 DEF StopWriterBegins, EnterWriterStop, WriterStopRaises,
     Answer
  <2>4. joiner' \in {"none", "worker", "stop"}
    BY <1>32 DEF StopWriterBegins, EnterWriterStop, WriterStopRaises,
     Answer
  <2>5. control' \in {"free", "writerJoin"} /\ saidTrue' \in BOOLEAN
    BY <1>32 DEF StopWriterBegins, EnterWriterStop, WriterStopRaises,
     Answer
  <2>6. UNCHANGED <<stopRequested, late, worker, frame, owns, camera, results, everLate,
                    refused, finished, compared>>
    BY <1>32 DEF StopWriterBegins, EnterWriterStop, WriterStopRaises,
     Answer
  <2> QED
    BY <2>1, <2>2, <2>3, <2>4, <2>5, <2>6
<1>33. CASE StopWriterEnds
  <2>1. writer' \in {"new", "running", "draining", "stopped", "failed", "stuck"}
    BY <1>33 DEF StopWriterEnds, WriterStopped, WriterTimedOut, WriterUnclean,
       ProjectUnclean, Answer
  <2>2. state' \in {"new", "running", "stopping", "stopped", "failed", "stuck"}
    BY <1>33 DEF StopWriterEnds, WriterStopped, WriterTimedOut, WriterUnclean,
       ProjectUnclean, Answer
  <2>3. joiner' = "none" /\ control' = "free" /\ saidTrue' \in BOOLEAN
    BY <1>33 DEF StopWriterEnds, WriterStopped, WriterTimedOut, WriterUnclean,
       ProjectUnclean, Answer
  <2>4. UNCHANGED <<stopRequested, late, worker, frame, owns, camera, results, pending,
                    everLate, refused, finished, compared>>
    BY <1>33 DEF StopWriterEnds, WriterStopped, WriterTimedOut, WriterUnclean,
       ProjectUnclean, Answer
  <2> QED
    BY <2>1, <2>2, <2>3, <2>4
<1>34. CASE UNCHANGED vars  BY <1>34
<1> QED
  BY <1>1, <1>2, <1>3, <1>4, <1>5, <1>6, <1>7, <1>8, <1>9, <1>10, <1>11, <1>12, <1>13,
     <1>14, <1>15, <1>16, <1>17, <1>18, <1>19, <1>20, <1>21, <1>22, <1>23, <1>24, <1>25,
     <1>26, <1>27, <1>28, <1>29, <1>30, <1>31, <1>32, <1>33, <1>34 DEF Next, WorkerStep,
     WriterStep, StartStop

(* A lifecycle call goes past the worker only when it is gone or given up on. *)
LEMMA ControlStep == TypeOK /\ ControlInv /\ [Next]_vars => ControlInv'
<1> SUFFICES ASSUME TypeOK /\ ControlInv, [Next]_vars PROVE ControlInv'
  OBVIOUS
<1> USE SchedulerAssumption DEF TypeOK, ControlInv, vars, camera, sink, results,
    history, At, Goto, WorkerOnly, StopOnly
<1>1. CASE FrameArrives \/ NewStream \/ FramesClose \/ ObservationsClose
  BY <1>1 DEF FrameArrives, NewStream, FramesClose, ObservationsClose
<1>2. CASE Loop \/ TakeFrame \/ Admit \/ Process \/ ResultAfterStop \/ Validate \/
    CheckBeforePublish \/ Publish
  BY <1>2 DEF Loop, TakeFrame, Admit, Process, ResultAfterStop, Validate,
     CheckBeforePublish, Publish
<1>3. CASE CheckBeforePersist  BY <1>3 DEF CheckBeforePersist
<1>4. CASE Submit  BY <1>4 DEF Submit
<1>5. CASE WorkerRaises  BY <1>5 DEF WorkerRaises
<1>6. CASE Exit  BY <1>6 DEF Exit
<1>7. CASE DrainBegins  BY <1>7 DEF DrainBegins, EnterWriterStop, WriterStopAtOnce, WriterStopRaises
<1>8. CASE DrainEnds
  BY <1>8 DEF DrainEnds, WriterStopped, WriterTimedOut, WriterUnclean, ProjectUnclean
<1>9. CASE Mark  BY <1>9 DEF Mark
<1>10. CASE ThreadEnds  BY <1>10 DEF ThreadEnds
<1>11. CASE WriterStep  BY <1>11 DEF WriterStep, WriterPersists, WriterFails, WriterEnds
<1>12. CASE Start  BY <1>12 DEF Start
<1>13. CASE StartFails  BY <1>13 DEF StartFails
<1>14. CASE StartWorker  BY <1>14 DEF StartWorker
<1>15. CASE StopBegins  BY <1>15 DEF StopBegins, Answer
<1>16. CASE StopSignals  BY <1>16 DEF StopSignals
<1>17. CASE StopJoins  BY <1>17 DEF StopJoins
<1>18. CASE StopGivesUp  BY <1>18 DEF StopGivesUp, WorkerAlive
<1>19. CASE StopWithoutWriter  BY <1>19 DEF StopWithoutWriter, Answer
<1>20. CASE StopWriterBegins  BY <1>20 DEF StopWriterBegins, EnterWriterStop, WriterStopRaises,
     Answer
<1>21. CASE StopWriterEnds
  BY <1>21 DEF StopWriterEnds, WriterStopped, WriterTimedOut, WriterUnclean,
     ProjectUnclean, Answer
<1>22. CASE UNCHANGED vars  BY <1>22
<1> QED
  BY <1>1, <1>2, <1>3, <1>4, <1>5, <1>6, <1>7, <1>8, <1>9, <1>10, <1>11, <1>12, <1>13,
     <1>14, <1>15, <1>16, <1>17, <1>18, <1>19, <1>20, <1>21, <1>22 DEF Next, WorkerStep,
     WriterStep, StartStop

(* The writer's stop() is entered by one thread, of the scheduler that owns it. *)
LEMMA WriterStopStep == TypeOK /\ WriterInv /\ ControlInv /\ [Next]_vars => WriterInv'
<1> SUFFICES ASSUME TypeOK /\ WriterInv /\ ControlInv, [Next]_vars PROVE WriterInv'
  OBVIOUS
<1> USE SchedulerAssumption DEF TypeOK, WriterInv, ControlInv, vars, camera, sink,
    results, history, At, Goto, WorkerOnly, StopOnly
<1>1. CASE FrameArrives \/ NewStream \/ FramesClose \/ ObservationsClose
  BY <1>1 DEF FrameArrives, NewStream, FramesClose, ObservationsClose
<1>2. CASE Loop \/ TakeFrame \/ Admit \/ Process \/ ResultAfterStop \/ Validate \/
    CheckBeforePublish \/ Publish
  BY <1>2 DEF Loop, TakeFrame, Admit, Process, ResultAfterStop, Validate,
     CheckBeforePublish, Publish
<1>3. CASE CheckBeforePersist  BY <1>3 DEF CheckBeforePersist
<1>4. CASE Submit  BY <1>4 DEF Submit
<1>5. CASE WorkerRaises  BY <1>5 DEF WorkerRaises
<1>6. CASE Exit  BY <1>6 DEF Exit
<1>7. CASE DrainBegins
  <2>1. owns /\ UNCHANGED <<owns, control>>
    BY <1>7 DEF DrainBegins, EnterWriterStop, WriterStopAtOnce, WriterStopRaises
  <2>2. \/ joiner' = "worker" /\ joiner = "none" /\ worker' = "drainJoin"
        \/ joiner' = joiner /\ joiner # "worker" /\ worker' = "mark"
    BY <1>7 DEF DrainBegins, EnterWriterStop, WriterStopAtOnce, WriterStopRaises
  <2>3. writer' # "new"
    BY <1>7 DEF DrainBegins, EnterWriterStop, WriterStopAtOnce, WriterStopRaises
  <2> QED
    BY <2>1, <2>2, <2>3
<1>8. CASE DrainEnds
  BY <1>8 DEF DrainEnds, WriterStopped, WriterTimedOut, WriterUnclean, ProjectUnclean
<1>9. CASE Mark  BY <1>9 DEF Mark
<1>10. CASE ThreadEnds  BY <1>10 DEF ThreadEnds
<1>11. CASE WriterStep  BY <1>11 DEF WriterStep, WriterPersists, WriterFails, WriterEnds
<1>12. CASE Start  BY <1>12 DEF Start
<1>13. CASE StartFails  BY <1>13 DEF StartFails
<1>14. CASE StartWorker  BY <1>14 DEF StartWorker
<1>15. CASE StopBegins  BY <1>15 DEF StopBegins, Answer
<1>16. CASE StopSignals  BY <1>16 DEF StopSignals
<1>17. CASE StopJoins  BY <1>17 DEF StopJoins
<1>18. CASE StopGivesUp  BY <1>18 DEF StopGivesUp, WorkerAlive
<1>19. CASE StopWithoutWriter  BY <1>19 DEF StopWithoutWriter, Answer
<1>20. CASE StopWriterBegins
  <2>1. owns /\ UNCHANGED <<owns, worker>>
    BY <1>20 DEF StopWriterBegins, EnterWriterStop, WriterStopRaises,
     Answer
  <2>2. \/ joiner' = "stop" /\ joiner = "none" /\ control' = "writerJoin"
        \/ joiner' = joiner /\ joiner # "stop" /\ control' = "free"
    BY <1>20 DEF StopWriterBegins, EnterWriterStop, WriterStopRaises,
     Answer
  <2>3. writer' # "new"
    BY <1>20 DEF StopWriterBegins, EnterWriterStop, WriterStopRaises,
     Answer
  <2> QED
    BY <2>1, <2>2, <2>3
<1>21. CASE StopWriterEnds
  BY <1>21 DEF StopWriterEnds, WriterStopped, WriterTimedOut, WriterUnclean,
     ProjectUnclean, Answer
<1>22. CASE UNCHANGED vars  BY <1>22
<1> QED
  BY <1>1, <1>2, <1>3, <1>4, <1>5, <1>6, <1>7, <1>8, <1>9, <1>10, <1>11, <1>12, <1>13,
     <1>14, <1>15, <1>16, <1>17, <1>18, <1>19, <1>20, <1>21, <1>22 DEF Next, WorkerStep,
     WriterStep, StartStop

(* What a stop() that answers True has seen. *)
LEMMA FinalStep == TypeOK /\ FinalInv /\ WriterInv /\ ControlInv /\ StopTrueIsFinal /\
  [Next]_vars => FinalInv'
<1> SUFFICES ASSUME TypeOK /\ FinalInv /\ WriterInv /\ ControlInv /\ StopTrueIsFinal,
    [Next]_vars PROVE FinalInv'
  OBVIOUS
<1> USE SchedulerAssumption DEF TypeOK, FinalInv, WriterInv, ControlInv,
    StopTrueIsFinal, vars, camera, sink, results, history, At, Goto, WorkerOnly,
    StopOnly
<1>1. CASE FrameArrives \/ NewStream \/ FramesClose \/ ObservationsClose
  BY <1>1 DEF FrameArrives, NewStream, FramesClose, ObservationsClose
<1>2. CASE Loop \/ TakeFrame \/ Admit \/ Process \/ ResultAfterStop \/ Validate \/
    CheckBeforePublish \/ Publish
  BY <1>2 DEF Loop, TakeFrame, Admit, Process, ResultAfterStop, Validate,
     CheckBeforePublish, Publish
<1>3. CASE CheckBeforePersist  BY <1>3 DEF CheckBeforePersist
<1>4. CASE Submit  BY <1>4 DEF Submit
<1>5. CASE WorkerRaises  BY <1>5 DEF WorkerRaises
<1>6. CASE Exit  BY <1>6 DEF Exit
<1>7. CASE DrainBegins  BY <1>7 DEF DrainBegins, EnterWriterStop, WriterStopAtOnce, WriterStopRaises
<1>8. CASE DrainEnds
  BY <1>8 DEF DrainEnds, WriterStopped, WriterTimedOut, WriterUnclean, ProjectUnclean
<1>9. CASE Mark  BY <1>9 DEF Mark
<1>10. CASE ThreadEnds  BY <1>10 DEF ThreadEnds
<1>11. CASE WriterStep  BY <1>11 DEF WriterStep, WriterPersists, WriterFails, WriterEnds
<1>12. CASE Start  BY <1>12 DEF Start
<1>13. CASE StartFails  BY <1>13 DEF StartFails
<1>14. CASE StartWorker  BY <1>14 DEF StartWorker
<1>15. CASE StopBegins  BY <1>15 DEF StopBegins, Answer
<1>16. CASE StopSignals  BY <1>16 DEF StopSignals
<1>17. CASE StopJoins  BY <1>17 DEF StopJoins
<1>18. CASE StopGivesUp  BY <1>18 DEF StopGivesUp, WorkerAlive
<1>19. CASE StopWithoutWriter  BY <1>19 DEF StopWithoutWriter, Answer
<1>20. CASE StopWriterBegins  BY <1>20 DEF StopWriterBegins, EnterWriterStop, WriterStopRaises,
     Answer
<1>21. CASE StopWriterEnds
  BY <1>21 DEF StopWriterEnds, WriterStopped, WriterTimedOut, WriterUnclean,
     ProjectUnclean, Answer
<1>22. CASE UNCHANGED vars  BY <1>22
<1> QED
  BY <1>1, <1>2, <1>3, <1>4, <1>5, <1>6, <1>7, <1>8, <1>9, <1>10, <1>11, <1>12, <1>13,
     <1>14, <1>15, <1>16, <1>17, <1>18, <1>19, <1>20, <1>21, <1>22 DEF Next, WorkerStep,
     WriterStep, StartStop

(* ... and nothing changes it afterwards. *)
LEMMA StopTrueStep == TypeOK /\ StopTrueIsFinal /\ FinalInv /\ WriterInv /\ ControlInv
  /\ [Next]_vars => StopTrueIsFinal'
<1> SUFFICES ASSUME TypeOK /\ StopTrueIsFinal /\ FinalInv /\ WriterInv /\ ControlInv,
    [Next]_vars PROVE StopTrueIsFinal'
  OBVIOUS
<1> USE SchedulerAssumption DEF TypeOK, StopTrueIsFinal, FinalInv, WriterInv,
    ControlInv, vars, camera, sink, results, history, At, Goto, WorkerOnly, StopOnly
<1>1. CASE FrameArrives \/ NewStream \/ FramesClose \/ ObservationsClose
  BY <1>1 DEF FrameArrives, NewStream, FramesClose, ObservationsClose
<1>2. CASE Loop \/ TakeFrame \/ Admit \/ Process \/ ResultAfterStop \/ Validate \/
    CheckBeforePublish \/ Publish
  BY <1>2 DEF Loop, TakeFrame, Admit, Process, ResultAfterStop, Validate,
     CheckBeforePublish, Publish
<1>3. CASE CheckBeforePersist  BY <1>3 DEF CheckBeforePersist
<1>4. CASE Submit  BY <1>4 DEF Submit
<1>5. CASE WorkerRaises  BY <1>5 DEF WorkerRaises
<1>6. CASE Exit  BY <1>6 DEF Exit
<1>7. CASE DrainBegins  BY <1>7 DEF DrainBegins, EnterWriterStop, WriterStopAtOnce, WriterStopRaises
<1>8. CASE DrainEnds
  BY <1>8 DEF DrainEnds, WriterStopped, WriterTimedOut, WriterUnclean, ProjectUnclean
<1>9. CASE Mark  BY <1>9 DEF Mark
<1>10. CASE ThreadEnds  BY <1>10 DEF ThreadEnds
<1>11. CASE WriterStep  BY <1>11 DEF WriterStep, WriterPersists, WriterFails, WriterEnds
<1>12. CASE Start  BY <1>12 DEF Start
<1>13. CASE StartFails  BY <1>13 DEF StartFails
<1>14. CASE StartWorker  BY <1>14 DEF StartWorker
<1>15. CASE StopBegins  BY <1>15 DEF StopBegins, Answer
<1>16. CASE StopSignals  BY <1>16 DEF StopSignals
<1>17. CASE StopJoins  BY <1>17 DEF StopJoins
<1>18. CASE StopGivesUp  BY <1>18 DEF StopGivesUp, WorkerAlive
<1>19. CASE StopWithoutWriter  BY <1>19 DEF StopWithoutWriter, Answer
<1>20. CASE StopWriterBegins  BY <1>20 DEF StopWriterBegins, EnterWriterStop, WriterStopRaises,
     Answer
<1>21. CASE StopWriterEnds
  BY <1>21 DEF StopWriterEnds, WriterStopped, WriterTimedOut, WriterUnclean,
     ProjectUnclean, Answer
<1>22. CASE UNCHANGED vars  BY <1>22
<1> QED
  BY <1>1, <1>2, <1>3, <1>4, <1>5, <1>6, <1>7, <1>8, <1>9, <1>10, <1>11, <1>12, <1>13,
     <1>14, <1>15, <1>16, <1>17, <1>18, <1>19, <1>20, <1>21, <1>22 DEF Next, WorkerStep,
     WriterStep, StartStop

(* A writer is closed only behind a worker that is through or given up on. *)
LEMMA OrderStep == TypeOK /\ OrderInv /\ WriterInv /\ ControlInv /\ WriterClosedInOrder
  /\ [Next]_vars => OrderInv'
<1> SUFFICES ASSUME TypeOK /\ OrderInv /\ WriterInv /\ ControlInv /\
    WriterClosedInOrder, [Next]_vars PROVE OrderInv'
  OBVIOUS
<1> USE SchedulerAssumption DEF TypeOK, OrderInv, WriterInv, ControlInv,
    WriterClosedInOrder, vars, camera, sink, results, history, At, Goto, WorkerOnly,
    StopOnly
<1>1. CASE FrameArrives \/ NewStream \/ FramesClose \/ ObservationsClose
  BY <1>1 DEF FrameArrives, NewStream, FramesClose, ObservationsClose
<1>2. CASE Loop \/ TakeFrame \/ Admit \/ Process \/ ResultAfterStop \/ Validate \/
    CheckBeforePublish \/ Publish
  BY <1>2 DEF Loop, TakeFrame, Admit, Process, ResultAfterStop, Validate,
     CheckBeforePublish, Publish
<1>3. CASE CheckBeforePersist  BY <1>3 DEF CheckBeforePersist
<1>4. CASE Submit  BY <1>4 DEF Submit
<1>5. CASE WorkerRaises  BY <1>5 DEF WorkerRaises
<1>6. CASE Exit  BY <1>6 DEF Exit
<1>7. CASE DrainBegins  BY <1>7 DEF DrainBegins, EnterWriterStop, WriterStopAtOnce, WriterStopRaises
<1>8. CASE DrainEnds
  BY <1>8 DEF DrainEnds, WriterStopped, WriterTimedOut, WriterUnclean, ProjectUnclean
<1>9. CASE Mark  BY <1>9 DEF Mark
<1>10. CASE ThreadEnds  BY <1>10 DEF ThreadEnds
<1>11. CASE WriterStep  BY <1>11 DEF WriterStep, WriterPersists, WriterFails, WriterEnds
<1>12. CASE Start  BY <1>12 DEF Start
<1>13. CASE StartFails  BY <1>13 DEF StartFails
<1>14. CASE StartWorker  BY <1>14 DEF StartWorker
<1>15. CASE StopBegins  BY <1>15 DEF StopBegins, Answer
<1>16. CASE StopSignals  BY <1>16 DEF StopSignals
<1>17. CASE StopJoins  BY <1>17 DEF StopJoins
<1>18. CASE StopGivesUp  BY <1>18 DEF StopGivesUp, WorkerAlive
<1>19. CASE StopWithoutWriter  BY <1>19 DEF StopWithoutWriter, Answer
<1>20. CASE StopWriterBegins  BY <1>20 DEF StopWriterBegins, EnterWriterStop, WriterStopRaises,
     Answer
<1>21. CASE StopWriterEnds
  BY <1>21 DEF StopWriterEnds, WriterStopped, WriterTimedOut, WriterUnclean,
     ProjectUnclean, Answer
<1>22. CASE UNCHANGED vars  BY <1>22
<1> QED
  BY <1>1, <1>2, <1>3, <1>4, <1>5, <1>6, <1>7, <1>8, <1>9, <1>10, <1>11, <1>12, <1>13,
     <1>14, <1>15, <1>16, <1>17, <1>18, <1>19, <1>20, <1>21, <1>22 DEF Next, WorkerStep,
     WriterStep, StartStop

(* ... so that nothing is refused, and STOPPED is not said too early. *)
LEMMA ClosedInOrderStep == TypeOK /\ WriterClosedInOrder /\ OrderInv /\ WriterInv /\
  ControlInv /\ [Next]_vars => WriterClosedInOrder'
<1> SUFFICES ASSUME TypeOK /\ WriterClosedInOrder /\ OrderInv /\ WriterInv /\
    ControlInv, [Next]_vars PROVE WriterClosedInOrder'
  OBVIOUS
<1> USE SchedulerAssumption DEF TypeOK, WriterClosedInOrder, OrderInv, WriterInv,
    ControlInv, vars, camera, sink, results, history, At, Goto, WorkerOnly, StopOnly
<1>1. CASE FrameArrives \/ NewStream \/ FramesClose \/ ObservationsClose
  BY <1>1 DEF FrameArrives, NewStream, FramesClose, ObservationsClose
<1>2. CASE Loop \/ TakeFrame \/ Admit \/ Process \/ ResultAfterStop \/ Validate \/
    CheckBeforePublish \/ Publish
  BY <1>2 DEF Loop, TakeFrame, Admit, Process, ResultAfterStop, Validate,
     CheckBeforePublish, Publish
<1>3. CASE CheckBeforePersist  BY <1>3 DEF CheckBeforePersist
<1>4. CASE Submit  BY <1>4 DEF Submit
<1>5. CASE WorkerRaises  BY <1>5 DEF WorkerRaises
<1>6. CASE Exit  BY <1>6 DEF Exit
<1>7. CASE DrainBegins  BY <1>7 DEF DrainBegins, EnterWriterStop, WriterStopAtOnce, WriterStopRaises
<1>8. CASE DrainEnds
  BY <1>8 DEF DrainEnds, WriterStopped, WriterTimedOut, WriterUnclean, ProjectUnclean
<1>9. CASE Mark  BY <1>9 DEF Mark
<1>10. CASE ThreadEnds  BY <1>10 DEF ThreadEnds
<1>11. CASE WriterStep  BY <1>11 DEF WriterStep, WriterPersists, WriterFails, WriterEnds
<1>12. CASE Start  BY <1>12 DEF Start
<1>13. CASE StartFails  BY <1>13 DEF StartFails
<1>14. CASE StartWorker  BY <1>14 DEF StartWorker
<1>15. CASE StopBegins  BY <1>15 DEF StopBegins, Answer
<1>16. CASE StopSignals  BY <1>16 DEF StopSignals
<1>17. CASE StopJoins  BY <1>17 DEF StopJoins
<1>18. CASE StopGivesUp  BY <1>18 DEF StopGivesUp, WorkerAlive
<1>19. CASE StopWithoutWriter  BY <1>19 DEF StopWithoutWriter, Answer
<1>20. CASE StopWriterBegins  BY <1>20 DEF StopWriterBegins, EnterWriterStop, WriterStopRaises,
     Answer
<1>21. CASE StopWriterEnds
  BY <1>21 DEF StopWriterEnds, WriterStopped, WriterTimedOut, WriterUnclean,
     ProjectUnclean, Answer
<1>22. CASE UNCHANGED vars  BY <1>22
<1> QED
  BY <1>1, <1>2, <1>3, <1>4, <1>5, <1>6, <1>7, <1>8, <1>9, <1>10, <1>11, <1>12, <1>13,
     <1>14, <1>15, <1>16, <1>17, <1>18, <1>19, <1>20, <1>21, <1>22 DEF Next, WorkerStep,
     WriterStep, StartStop

(* Frames only move forward. *)
LEMMA FrameStep == TypeOK /\ FrameInv /\ [Next]_vars => FrameInv'
<1> SUFFICES ASSUME TypeOK /\ FrameInv, [Next]_vars PROVE FrameInv'
  OBVIOUS
<1> USE SchedulerAssumption DEF TypeOK, Frames, FrameInv, Newer, NotBefore, NoFrame,
    vars, camera, sink, results, history, At, Goto, WorkerOnly, StopOnly
<1>1. CASE FrameArrives  BY <1>1 DEF FrameArrives
<1>2. CASE NewStream  BY <1>2 DEF NewStream
<1>3. CASE FramesClose  BY <1>3 DEF FramesClose
<1>4. CASE ObservationsClose  BY <1>4 DEF ObservationsClose
<1>5. CASE Loop  BY <1>5 DEF Loop
<1>6. CASE TakeFrame  BY <1>6 DEF TakeFrame
<1>7. CASE Admit  BY <1>7 DEF Admit
<1>8. CASE Process  BY <1>8 DEF Process
<1>9. CASE ResultAfterStop  BY <1>9 DEF ResultAfterStop
<1>10. CASE Validate  BY <1>10 DEF Validate
<1>11. CASE CheckBeforePublish  BY <1>11 DEF CheckBeforePublish
<1>12. CASE Publish  BY <1>12 DEF Publish
<1>13. CASE CheckBeforePersist \/ Submit \/ WorkerRaises \/ Exit \/ DrainBegins \/
    DrainEnds \/ Mark \/ ThreadEnds
  BY <1>13 DEF CheckBeforePersist, Submit, WorkerRaises, Exit, DrainBegins,
     EnterWriterStop, WriterStopAtOnce, WriterStopRaises, DrainEnds, WriterStopped, WriterTimedOut,
     WriterUnclean, ProjectUnclean, Mark, ThreadEnds
<1>14. CASE WriterStep  BY <1>14 DEF WriterStep, WriterPersists, WriterFails, WriterEnds
<1>15. CASE StartStop
  BY <1>15 DEF StartStop, Start, StartFails, StartWorker, StopBegins, Answer,
     StopSignals, StopJoins, StopGivesUp, WorkerAlive, StopWithoutWriter,
     StopWriterBegins, EnterWriterStop, WriterStopRaises, StopWriterEnds, WriterStopped, WriterTimedOut,
     WriterUnclean, ProjectUnclean
<1>16. CASE UNCHANGED vars  BY <1>16
<1> QED
  BY <1>1, <1>2, <1>3, <1>4, <1>5, <1>6, <1>7, <1>8, <1>9, <1>10, <1>11, <1>12, <1>13,
     <1>14, <1>15, <1>16 DEF Next, WorkerStep, WriterStep, StartStop

(* The stream only moves forward. *)
LEMMA StreamStep == TypeOK /\ StreamInv /\ [Next]_vars => StreamInv'
<1> SUFFICES ASSUME TypeOK /\ StreamInv, [Next]_vars PROVE StreamInv'
  OBVIOUS
<1> USE SchedulerAssumption DEF TypeOK, Frames, StreamInv, NoFrame, vars, camera, sink,
    results, history, At, Goto, WorkerOnly, StopOnly
<1>1. CASE FrameArrives  BY <1>1 DEF FrameArrives
<1>2. CASE NewStream  BY <1>2 DEF NewStream
<1>3. CASE FramesClose  BY <1>3 DEF FramesClose
<1>4. CASE ObservationsClose  BY <1>4 DEF ObservationsClose
<1>5. CASE Loop  BY <1>5 DEF Loop
<1>6. CASE TakeFrame  BY <1>6 DEF TakeFrame
<1>7. CASE Admit  BY <1>7 DEF Admit
<1>8. CASE Process  BY <1>8 DEF Process
<1>9. CASE ResultAfterStop  BY <1>9 DEF ResultAfterStop
<1>10. CASE Validate  BY <1>10 DEF Validate, OfStream
<1>11. CASE CheckBeforePublish  BY <1>11 DEF CheckBeforePublish
<1>12. CASE Publish  BY <1>12 DEF Publish
<1>13. CASE CheckBeforePersist \/ Submit \/ WorkerRaises \/ Exit \/ DrainBegins \/
    DrainEnds \/ Mark \/ ThreadEnds
  BY <1>13 DEF CheckBeforePersist, Submit, WorkerRaises, Exit, DrainBegins,
     EnterWriterStop, WriterStopAtOnce, WriterStopRaises, DrainEnds, WriterStopped, WriterTimedOut,
     WriterUnclean, ProjectUnclean, Mark, ThreadEnds
<1>14. CASE WriterStep  BY <1>14 DEF WriterStep, WriterPersists, WriterFails, WriterEnds
<1>15. CASE StartStop
  BY <1>15 DEF StartStop, Start, StartFails, StartWorker, StopBegins, Answer,
     StopSignals, StopJoins, StopGivesUp, WorkerAlive, StopWithoutWriter,
     StopWriterBegins, EnterWriterStop, WriterStopRaises, StopWriterEnds, WriterStopped, WriterTimedOut,
     WriterUnclean, ProjectUnclean
<1>16. CASE UNCHANGED vars  BY <1>16
<1> QED
  BY <1>1, <1>2, <1>3, <1>4, <1>5, <1>6, <1>7, <1>8, <1>9, <1>10, <1>11, <1>12, <1>13,
     <1>14, <1>15, <1>16 DEF Next, WorkerStep, WriterStep, StartStop

-----------------------------------------------------------------------------
(* The invariant is inductive. *)
THEOREM Invariance == Spec => []IInv
<1>1. Init => IInv
  <2> SUFFICES ASSUME Init PROVE IInv
    OBVIOUS
  <2>1. TypeOK
    <3>1. NoFrame \in Frames
      BY DEF NoFrame, Frames
    <3>2. late \in BOOLEAN /\ owns \in BOOLEAN
      BY DEF Init
    <3>3. slotClosed \in BOOLEAN /\ obsClosed \in BOOLEAN
      BY DEF Init
    <3>4. stopRequested \in BOOLEAN /\ saidTrue \in BOOLEAN
      BY DEF Init
    <3>5. everLate \in BOOLEAN /\ refused \in BOOLEAN /\ compared \in BOOLEAN
      BY DEF Init
    <3>6. state = "new" /\ worker = "none" /\ control = "free" /\ writer = "new"
          /\ joiner = "none"
      BY DEF Init
    <3>7. frame = NoFrame /\ slot = NoFrame /\ produced = NoFrame /\ published = NoFrame
      BY DEF Init
    <3>8. epoch = 0 /\ pending = 0 /\ finished = -1
      BY DEF Init
    <3> QED
      BY <3>1, <3>2, <3>3, <3>4, <3>5, <3>6, <3>7, <3>8 DEF TypeOK
  <2>2. ControlInv /\ WriterInv /\ FinalInv /\ OrderInv
    BY DEF Init, ControlInv, WriterInv, FinalInv, OrderInv
  <2>3. FrameInv /\ StreamInv
    BY DEF Init, FrameInv, StreamInv, NotBefore, NoFrame
  <2>4. StopTrueIsFinal /\ WriterClosedInOrder
    BY DEF Init, StopTrueIsFinal, WriterClosedInOrder
  <2> QED
    BY <2>1, <2>2, <2>3, <2>4 DEF IInv
<1>2. IInv /\ [Next]_vars => IInv'
  BY TypeStep, ControlStep, WriterStopStep, FinalStep, StopTrueStep, OrderStep,
     ClosedInOrderStep, FrameStep, StreamStep DEF IInv
<1> QED
  BY <1>1, <1>2, PTL DEF Spec

(* Every variable stays in its range.                                      *)
THEOREM TypeCorrect == Spec => []TypeOK
<1>1. IInv => TypeOK
  BY DEF IInv
<1> QED
  BY <1>1, Invariance, PTL

(* After a stop() that returned True the worker publishes and submits      *)
(* nothing, and the writer that the scheduler owns is STOPPED.             *)
THEOREM StopIsFinal == Spec => []StopTrueIsFinal
<1>1. IInv => StopTrueIsFinal
  BY DEF IInv
<1> QED
  BY <1>1, Invariance, PTL

(* The writer is closed behind the worker and before STOPPED is exposed.   *)
THEOREM WriterClosesInOrder == Spec => []WriterClosedInOrder
<1>1. IInv => WriterClosedInOrder
  BY DEF IInv
<1> QED
  BY <1>1, Invariance, PTL

(* A step that publishes is Publish() on a slot that is open. *)
LEMMA PublishingStep == [Next]_vars /\ Published => worker = "offer" /\ published' = frame
<1> SUFFICES ASSUME [Next]_vars, Published PROVE worker = "offer" /\ published' = frame
  OBVIOUS
<1> USE DEF Published, vars, camera, sink, results, history, At, Goto, WorkerOnly, StopOnly
<1>1. CASE Publish  BY <1>1 DEF Publish
<1>2. CASE FrameArrives \/ NewStream \/ FramesClose \/ ObservationsClose
  BY <1>2 DEF FrameArrives, NewStream, FramesClose, ObservationsClose
<1>3. CASE WorkerStep /\ ~Publish
  BY <1>3 DEF WorkerStep, Loop, TakeFrame, Admit, Process, ResultAfterStop, Validate,
     CheckBeforePublish, CheckBeforePersist, Submit, WorkerRaises, Exit, DrainBegins,
     DrainEnds, Mark, ThreadEnds
<1>4. CASE WriterStep
  BY <1>4 DEF WriterStep, WriterPersists, WriterFails, WriterEnds
<1>5. CASE StartStop
  <2>1. CASE StartWorker  BY <2>1 DEF StartWorker
  <2>2. CASE StartStop /\ ~StartWorker
    BY <2>2 DEF StartStop, Start, StartFails, StopBegins, StopSignals, StopJoins, StopGivesUp,
       StopWithoutWriter, StopWriterBegins, StopWriterEnds
  <2> QED
    BY <1>5, <2>1, <2>2
<1>6. CASE UNCHANGED vars  BY <1>6
<1> QED
  BY <1>1, <1>2, <1>3, <1>4, <1>5, <1>6 DEF Next

(* Observations are published in the order of their frames, each at most   *)
(* once, however frames are replaced and streams reconnected.              *)
THEOREM ObservationsAdvance == Spec => PublishedAdvance
<1>1. IInv /\ [Next]_vars => [Published => Newer(published', published)]_vars
  <2> SUFFICES ASSUME IInv, [Next]_vars, Published PROVE Newer(published', published)
    OBVIOUS
  <2>1. worker = "offer" /\ published' = frame
    BY PublishingStep
  <2>2. Newer(frame, published)
    BY <2>1 DEF IInv, FrameInv
  <2> QED
    BY <2>1, <2>2
<1> QED
  BY <1>1, Invariance, PTL DEF Spec, PublishedAdvance

(* An observation of a stream that ended before the processor returned is  *)
(* not published, if the validation was told the current epoch.            *)
THEOREM OldStreamsStayUnpublished == Spec => NoResultOfOldStream
<1>1. IInv /\ [Next]_vars =>
        [Published /\ compared => (published'.epoch >= finished)]_vars
  <2> SUFFICES ASSUME IInv, [Next]_vars, Published, compared
               PROVE published'.epoch >= finished
    OBVIOUS
  <2>1. worker = "offer" /\ published' = frame
    BY PublishingStep
  <2>2. frame.epoch >= finished
    BY <2>1 DEF IInv, StreamInv
  <2> QED
    BY <2>1, <2>2
<1> QED
  BY <1>1, Invariance, PTL DEF Spec, NoResultOfOldStream
=============================================================================
