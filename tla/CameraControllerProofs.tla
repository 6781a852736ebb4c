----------------------- MODULE CameraControllerProofs -----------------------
(***************************************************************************)
(* Theorems about CameraController, for any number of callers of stop()    *)
(* and any policy: the safety properties of its runs, from one inductive   *)
(* invariant that says what the owner thread holds at every place it can   *)
(* be in.                                                                  *)
(***************************************************************************)
EXTENDS CameraController, TLAPS

Before    == {"none", "unstarted", "begin", "admit", "acquire"}
Between   == {"loop", "opening", "create", "factory", "retry", "cooldown", "release"}
Streaming == {"mark", "check", "next", "read", "offer", "degrade", "wait"}
Holding   == {"ready", "open", "close"} \cup Streaming
Ending    == {"finally", "releaseLast", "last", "tail", "dead"}
Done      == {"last", "tail", "dead"}

(* The lease and the backends at each place.  A release that fails may     *)
(* leave the flag without the lock, never the lock without the flag.       *)
DeviceInv ==
  /\ lease => leaseFlag
  /\ owner \in Before => ~leaseFlag /\ handles = 0 /\ ~retained
  /\ owner \in Between => lease /\ handles = 0 /\ ~retained
  /\ owner \in Holding => lease /\ handles = 1 /\ ~retained
  /\ owner = "exhausted" => handles = 0 /\ ~retained
  /\ owner \in Ending => handles \in {0, 1} /\ (handles = 1 <=> retained)
  /\ retained => lease
  /\ owner \in Done => (leaseFlag => retained \/ state = "stuck")
  /\ owner \in Done \cup {"releaseLast"} => ~activeStream

(* Every factory call since the last stable stream is a failed attempt or  *)
(* the attempt in progress.                                                *)
RetryInv ==
  /\ owner \in Before => attempts = 0 /\ failedAttempts = 0
  /\ owner \in {"loop", "opening", "create", "factory", "cooldown"} =>
       attempts = failedAttempts /\ failedAttempts <= MaxReopenAttempts
  /\ owner \in Holding => attempts = failedAttempts + 1
  /\ owner = "retry" => attempts = failedAttempts
  /\ attempts <= MaxReopenAttempts + 1

(* The frames offered so far are older than the next one.                  *)
StreamInv ==
  /\ offered.epoch < nextEpoch
  /\ owner \in Streaming =>
       /\ activeStream /\ streamEpoch = nextEpoch - 1
       /\ offered.epoch = streamEpoch => offered.seq < sequence

(* What a caller of stop() has already brought about.                      *)
StopInv ==
  /\ owner = "none" <=> ~started
  /\ \A s \in Stoppers :
       /\ stopper[s] \in {"shut", "joining", "true"} => slotClosed
       /\ stopper[s] = "true" => owner \in {"none", "dead"}

(* Between a test of the stop flag and the call it allows, nothing has     *)
(* begun late: the test would have sent the owner elsewhere.               *)
LateInv ==
  /\ late <= 1
  /\ late > 0 => stopRequested
  /\ owner \in {"opening", "create", "ready", "next", "offer"} => late = 0

IInv ==
  TypeOK /\ DeviceInv /\ RetryInv /\ StreamInv /\ StopInv /\ LateInv /\ ClosedSlotIsEmpty

-----------------------------------------------------------------------------
(* Every step keeps the types; DeviceInv is what makes handles - 1 natural. *)
LEMMA TypeStep == TypeOK /\ DeviceInv /\ [Next]_vars => TypeOK'
<1> SUFFICES ASSUME TypeOK /\ DeviceInv, [Next]_vars PROVE TypeOK'
  OBVIOUS
<1> USE ControllerAssumption DEF TypeOK, Frames, NoFrame, Owners, Results,
    vars, slots, stream, device, locals, history, Keep, Goto, SetState,
    CloseSlot
<1>1. CASE Start
  <2>1. started' \in BOOLEAN /\ slotClosed' \in BOOLEAN
    BY <1>1 DEF Start
  <2> QED
    BY <1>1, <2>1 DEF Start
<1>2. CASE SlotClosedOutside  BY <1>2 DEF SlotClosedOutside
<1>3. CASE TakeFrame  BY <1>3 DEF TakeFrame
<1>4. CASE Begin  BY <1>4 DEF Begin
<1>5. CASE Admit  BY <1>5 DEF Admit
<1>6. CASE AcquireLease
  <2>1. lease' \in BOOLEAN /\ leaseFlag' \in BOOLEAN
    BY <1>6 DEF AcquireLease
  <2> QED
    BY <1>6, <2>1 DEF AcquireLease
<1>7. CASE Loop  BY <1>7 DEF Loop
<1>8. CASE Opening  BY <1>8 DEF Opening
<1>9. CASE FactoryRaises  BY <1>9 DEF FactoryRaises
<1>10. CASE FactoryInvalid  BY <1>10 DEF FactoryInvalid
<1>11. CASE FactoryReturns  BY <1>11 DEF FactoryReturns
<1>12. CASE OpenFatal  BY <1>12 DEF OpenFatal
<1>13. CASE OpenRaises  BY <1>13 DEF OpenRaises
<1>14. CASE OpenReturns
  <2>1. activeStream' \in BOOLEAN /\ stable' \in BOOLEAN
    BY <1>14 DEF OpenReturns
  <2> QED
    BY <1>14, <2>1 DEF OpenReturns
<1>15. CASE Mark  BY <1>15 DEF Mark
<1>16. CASE CheckStop  BY <1>16 DEF CheckStop, EndStream
<1>17. CASE ReadFails  BY <1>17 DEF ReadFails, EndStream
<1>18. CASE ReadStopped  BY <1>18 DEF ReadStopped, EndStream
<1>19. CASE ReadInvalid  BY <1>19 DEF ReadInvalid, EndStream
<1>20. CASE ReadFrame  BY <1>20 DEF ReadFrame
<1>21. CASE ReadDegraded  BY <1>21 DEF ReadDegraded
<1>22. CASE Degrade  BY <1>22 DEF Degrade, EndStream
<1>23. CASE WaitEnds  BY <1>23 DEF WaitEnds, EndStream
<1>24. CASE OfferFrame  BY <1>24 DEF OfferFrame, Begun
<1>25. CASE OfferRefused
  <2>1. stopRequested' \in BOOLEAN /\ stable' \in BOOLEAN
    BY <1>25 DEF OfferRefused, EndStream
  <2> QED
    BY <1>25, <2>1 DEF OfferRefused, EndStream
<1>26. CASE CloseFails  BY <1>26 DEF CloseFails
<1>27. CASE CloseReturns
  <2>1. activeStream' \in BOOLEAN /\ handles' \in Nat
    BY <1>27 DEF CloseReturns, DeviceInv, Before, Between, Streaming, Holding, Ending, Done
  <2> QED
    BY <1>27, <2>1 DEF CloseReturns
<1>28. CASE Retry  BY <1>28 DEF Retry
<1>29. CASE CooldownEnds  BY <1>29 DEF CooldownEnds
<1>30. CASE ReleaseExhausted
  <2>1. lease' \in BOOLEAN /\ leaseFlag' \in BOOLEAN
    BY <1>30 DEF ReleaseExhausted, ReleaseLease
  <2> QED
    BY <1>30, <2>1 DEF ReleaseExhausted, ReleaseLease
<1>31. CASE Exhausted  BY <1>31 DEF Exhausted
<1>32. CASE InternalError  BY <1>32 DEF InternalError
<1>33. CASE Finally
  <2>1. activeStream' \in BOOLEAN /\ slotClosed' \in BOOLEAN
    BY <1>33 DEF Finally
  <2> QED
    BY <1>33, <2>1 DEF Finally
<1>34. CASE ReleaseLast
  <2>1. lease' \in BOOLEAN /\ leaseFlag' \in BOOLEAN
    BY <1>34 DEF ReleaseLast, ReleaseLease
  <2> QED
    BY <1>34, <2>1 DEF ReleaseLast, ReleaseLease
<1>35. CASE Last  BY <1>35 DEF Last
<1>36. CASE ThreadEnds  BY <1>36 DEF ThreadEnds
<1>37. ASSUME NEW s \in Stoppers, StopSignals(s) PROVE TypeOK'
  BY <1>37 DEF StopSignals
<1>38. ASSUME NEW s \in Stoppers, StopShutsSlot(s) PROVE TypeOK'
  BY <1>38 DEF StopShutsSlot
<1>39. ASSUME NEW s \in Stoppers, StopMarks(s) PROVE TypeOK'
  BY <1>39 DEF StopMarks
<1>40. ASSUME NEW s \in Stoppers, StopJoins(s) PROVE TypeOK'
  BY <1>40 DEF StopJoins
<1>41. ASSUME NEW s \in Stoppers, StopTimesOut(s) PROVE TypeOK'
  BY <1>41 DEF StopTimesOut
<1>42. CASE UNCHANGED vars
  BY <1>42
<1>43. CASE CallFactory  BY <1>43 DEF CallFactory, Begun
<1>44. CASE CallOpen  BY <1>44 DEF CallOpen, Begun
<1>45. CASE CallRead  BY <1>45 DEF CallRead, Begun
<1> QED
  BY <1>1, <1>2, <1>3, <1>4, <1>5, <1>6, <1>7, <1>8, <1>9, <1>10, <1>11,
     <1>12, <1>13, <1>14, <1>15, <1>16, <1>17, <1>18, <1>19, <1>20, <1>21,
     <1>22, <1>23, <1>24, <1>25, <1>26, <1>27, <1>28, <1>29, <1>30, <1>31,
     <1>32, <1>33, <1>34, <1>35, <1>36, <1>37, <1>38, <1>39, <1>40, <1>41,
     <1>42, <1>43, <1>44, <1>45
     DEF Next, OwnerStep, StopCall

(* Lease and backends: the heart of the matter is that close, release and  *)
(* their failures all lead to places whose claim is weak enough.           *)
LEMMA DeviceStep == TypeOK /\ DeviceInv /\ StopInv /\ [Next]_vars => DeviceInv'
<1> SUFFICES ASSUME TypeOK /\ DeviceInv /\ StopInv, [Next]_vars PROVE DeviceInv'
  OBVIOUS
<1> USE ControllerAssumption DEF TypeOK, DeviceInv, StopInv, Before, Between,
    Streaming, Holding, Ending, Done, vars, slots, stream, device, locals,
    history, Keep, Goto, SetState, CloseSlot
<1>1. CASE Start  BY <1>1 DEF Start
<1>2. CASE SlotClosedOutside  BY <1>2 DEF SlotClosedOutside
<1>3. CASE TakeFrame  BY <1>3 DEF TakeFrame
<1>4. CASE Begin  BY <1>4 DEF Begin
<1>5. CASE Admit  BY <1>5 DEF Admit
<1>6. CASE AcquireLease  BY <1>6 DEF AcquireLease
<1>7. CASE Loop  BY <1>7 DEF Loop
<1>8. CASE Opening  BY <1>8 DEF Opening
<1>9. CASE FactoryRaises  BY <1>9 DEF FactoryRaises
<1>10. CASE FactoryInvalid  BY <1>10 DEF FactoryInvalid
<1>11. CASE FactoryReturns  BY <1>11 DEF FactoryReturns
<1>12. CASE OpenFatal  BY <1>12 DEF OpenFatal
<1>13. CASE OpenRaises  BY <1>13 DEF OpenRaises
<1>14. CASE OpenReturns  BY <1>14 DEF OpenReturns
<1>15. CASE Mark  BY <1>15 DEF Mark
<1>16. CASE CheckStop  BY <1>16 DEF CheckStop, EndStream
<1>17. CASE ReadFails  BY <1>17 DEF ReadFails, EndStream
<1>18. CASE ReadStopped  BY <1>18 DEF ReadStopped, EndStream
<1>19. CASE ReadInvalid  BY <1>19 DEF ReadInvalid, EndStream
<1>20. CASE ReadFrame  BY <1>20 DEF ReadFrame
<1>21. CASE ReadDegraded  BY <1>21 DEF ReadDegraded
<1>22. CASE Degrade  BY <1>22 DEF Degrade, EndStream
<1>23. CASE WaitEnds  BY <1>23 DEF WaitEnds, EndStream
<1>24. CASE OfferFrame  BY <1>24 DEF OfferFrame, Begun
<1>25. CASE OfferRefused  BY <1>25 DEF OfferRefused, EndStream
<1>26. CASE CloseFails  BY <1>26 DEF CloseFails
<1>27. CASE CloseReturns  BY <1>27 DEF CloseReturns
<1>28. CASE Retry  BY <1>28 DEF Retry
<1>29. CASE CooldownEnds  BY <1>29 DEF CooldownEnds
<1>30. CASE ReleaseExhausted  BY <1>30 DEF ReleaseExhausted, ReleaseLease
<1>31. CASE Exhausted  BY <1>31 DEF Exhausted
<1>32. CASE InternalError  BY <1>32 DEF InternalError
<1>33. CASE Finally  BY <1>33 DEF Finally
<1>34. CASE ReleaseLast  BY <1>34 DEF ReleaseLast, ReleaseLease
<1>35. CASE Last  BY <1>35 DEF Last
<1>36. CASE ThreadEnds  BY <1>36 DEF ThreadEnds
<1>37. ASSUME NEW s \in Stoppers, StopSignals(s) PROVE DeviceInv'
  BY <1>37 DEF StopSignals
<1>38. ASSUME NEW s \in Stoppers, StopShutsSlot(s) PROVE DeviceInv'
  BY <1>38 DEF StopShutsSlot
<1>39. ASSUME NEW s \in Stoppers, StopMarks(s) PROVE DeviceInv'
  BY <1>39 DEF StopMarks
<1>40. ASSUME NEW s \in Stoppers, StopJoins(s) PROVE DeviceInv'
  BY <1>40 DEF StopJoins
<1>41. ASSUME NEW s \in Stoppers, StopTimesOut(s) PROVE DeviceInv'
  BY <1>41 DEF StopTimesOut
<1>42. CASE UNCHANGED vars
  BY <1>42
<1>43. CASE CallFactory  BY <1>43 DEF CallFactory, Begun
<1>44. CASE CallOpen  BY <1>44 DEF CallOpen, Begun
<1>45. CASE CallRead  BY <1>45 DEF CallRead, Begun
<1> QED
  BY <1>1, <1>2, <1>3, <1>4, <1>5, <1>6, <1>7, <1>8, <1>9, <1>10, <1>11,
     <1>12, <1>13, <1>14, <1>15, <1>16, <1>17, <1>18, <1>19, <1>20, <1>21,
     <1>22, <1>23, <1>24, <1>25, <1>26, <1>27, <1>28, <1>29, <1>30, <1>31,
     <1>32, <1>33, <1>34, <1>35, <1>36, <1>37, <1>38, <1>39, <1>40, <1>41,
     <1>42, <1>43, <1>44, <1>45
     DEF Next, OwnerStep, StopCall

(* The retry budget: counted once per factory call, whichever way it fails. *)
LEMMA RetryStep == TypeOK /\ RetryInv /\ StopInv /\ [Next]_vars => RetryInv'
<1> SUFFICES ASSUME TypeOK /\ RetryInv /\ StopInv, [Next]_vars PROVE RetryInv'
  OBVIOUS
<1> USE ControllerAssumption DEF TypeOK, StopInv, RetryInv, Before, Streaming,
    Holding, vars, slots, stream, device, locals, history, Keep, Goto,
    SetState, CloseSlot
<1>1. CASE Start  BY <1>1 DEF Start
<1>2. CASE SlotClosedOutside  BY <1>2 DEF SlotClosedOutside
<1>3. CASE TakeFrame  BY <1>3 DEF TakeFrame
<1>4. CASE Begin  BY <1>4 DEF Begin
<1>5. CASE Admit  BY <1>5 DEF Admit
<1>6. CASE AcquireLease  BY <1>6 DEF AcquireLease
<1>7. CASE Loop  BY <1>7 DEF Loop
<1>8. CASE Opening  BY <1>8 DEF Opening
<1>9. CASE FactoryRaises  BY <1>9 DEF FactoryRaises
<1>10. CASE FactoryInvalid  BY <1>10 DEF FactoryInvalid
<1>11. CASE FactoryReturns  BY <1>11 DEF FactoryReturns
<1>12. CASE OpenFatal  BY <1>12 DEF OpenFatal
<1>13. CASE OpenRaises  BY <1>13 DEF OpenRaises
<1>14. CASE OpenReturns  BY <1>14 DEF OpenReturns
<1>15. CASE Mark  BY <1>15 DEF Mark
<1>16. CASE CheckStop  BY <1>16 DEF CheckStop, EndStream
<1>17. CASE ReadFails  BY <1>17 DEF ReadFails, EndStream
<1>18. CASE ReadStopped  BY <1>18 DEF ReadStopped, EndStream
<1>19. CASE ReadInvalid  BY <1>19 DEF ReadInvalid, EndStream
<1>20. CASE ReadFrame  BY <1>20 DEF ReadFrame
<1>21. CASE ReadDegraded  BY <1>21 DEF ReadDegraded
<1>22. CASE Degrade  BY <1>22 DEF Degrade, EndStream
<1>23. CASE WaitEnds  BY <1>23 DEF WaitEnds, EndStream
<1>24. CASE OfferFrame  BY <1>24 DEF OfferFrame, Begun
<1>25. CASE OfferRefused  BY <1>25 DEF OfferRefused, EndStream
<1>26. CASE CloseFails  BY <1>26 DEF CloseFails
<1>27. CASE CloseReturns  BY <1>27 DEF CloseReturns
<1>28. CASE Retry  BY <1>28 DEF Retry
<1>29. CASE CooldownEnds  BY <1>29 DEF CooldownEnds
<1>30. CASE ReleaseExhausted  BY <1>30 DEF ReleaseExhausted, ReleaseLease
<1>31. CASE Exhausted  BY <1>31 DEF Exhausted
<1>32. CASE InternalError  BY <1>32 DEF InternalError
<1>33. CASE Finally  BY <1>33 DEF Finally
<1>34. CASE ReleaseLast  BY <1>34 DEF ReleaseLast, ReleaseLease
<1>35. CASE Last  BY <1>35 DEF Last
<1>36. CASE ThreadEnds  BY <1>36 DEF ThreadEnds
<1>37. ASSUME NEW s \in Stoppers, StopSignals(s) PROVE RetryInv'
  BY <1>37 DEF StopSignals
<1>38. ASSUME NEW s \in Stoppers, StopShutsSlot(s) PROVE RetryInv'
  BY <1>38 DEF StopShutsSlot
<1>39. ASSUME NEW s \in Stoppers, StopMarks(s) PROVE RetryInv'
  BY <1>39 DEF StopMarks
<1>40. ASSUME NEW s \in Stoppers, StopJoins(s) PROVE RetryInv'
  BY <1>40 DEF StopJoins
<1>41. ASSUME NEW s \in Stoppers, StopTimesOut(s) PROVE RetryInv'
  BY <1>41 DEF StopTimesOut
<1>42. CASE UNCHANGED vars
  BY <1>42
<1>43. CASE CallFactory  BY <1>43 DEF CallFactory, Begun
<1>44. CASE CallOpen  BY <1>44 DEF CallOpen, Begun
<1>45. CASE CallRead  BY <1>45 DEF CallRead, Begun
<1> QED
  BY <1>1, <1>2, <1>3, <1>4, <1>5, <1>6, <1>7, <1>8, <1>9, <1>10, <1>11,
     <1>12, <1>13, <1>14, <1>15, <1>16, <1>17, <1>18, <1>19, <1>20, <1>21,
     <1>22, <1>23, <1>24, <1>25, <1>26, <1>27, <1>28, <1>29, <1>30, <1>31,
     <1>32, <1>33, <1>34, <1>35, <1>36, <1>37, <1>38, <1>39, <1>40, <1>41,
     <1>42, <1>43, <1>44, <1>45
     DEF Next, OwnerStep, StopCall

(* Epochs and sequences: a new epoch is above every frame offered before.  *)
LEMMA StreamStep == TypeOK /\ StreamInv /\ StopInv /\ [Next]_vars => StreamInv'
<1> SUFFICES ASSUME TypeOK /\ StreamInv /\ StopInv, [Next]_vars PROVE StreamInv'
  OBVIOUS
<1> USE ControllerAssumption DEF TypeOK, StopInv, Frames, NoFrame, StreamInv,
    Streaming, vars, slots, stream, device, locals, history, Keep, Goto,
    SetState, CloseSlot
<1>1. CASE Start  BY <1>1 DEF Start
<1>2. CASE SlotClosedOutside  BY <1>2 DEF SlotClosedOutside
<1>3. CASE TakeFrame  BY <1>3 DEF TakeFrame
<1>4. CASE Begin  BY <1>4 DEF Begin
<1>5. CASE Admit  BY <1>5 DEF Admit
<1>6. CASE AcquireLease  BY <1>6 DEF AcquireLease
<1>7. CASE Loop  BY <1>7 DEF Loop
<1>8. CASE Opening  BY <1>8 DEF Opening
<1>9. CASE FactoryRaises  BY <1>9 DEF FactoryRaises
<1>10. CASE FactoryInvalid  BY <1>10 DEF FactoryInvalid
<1>11. CASE FactoryReturns  BY <1>11 DEF FactoryReturns
<1>12. CASE OpenFatal  BY <1>12 DEF OpenFatal
<1>13. CASE OpenRaises  BY <1>13 DEF OpenRaises
<1>14. CASE OpenReturns  BY <1>14 DEF OpenReturns
<1>15. CASE Mark  BY <1>15 DEF Mark
<1>16. CASE CheckStop  BY <1>16 DEF CheckStop, EndStream
<1>17. CASE ReadFails  BY <1>17 DEF ReadFails, EndStream
<1>18. CASE ReadStopped  BY <1>18 DEF ReadStopped, EndStream
<1>19. CASE ReadInvalid  BY <1>19 DEF ReadInvalid, EndStream
<1>20. CASE ReadFrame  BY <1>20 DEF ReadFrame
<1>21. CASE ReadDegraded  BY <1>21 DEF ReadDegraded
<1>22. CASE Degrade  BY <1>22 DEF Degrade, EndStream
<1>23. CASE WaitEnds  BY <1>23 DEF WaitEnds, EndStream
<1>24. CASE OfferFrame  BY <1>24 DEF OfferFrame, Begun
<1>25. CASE OfferRefused  BY <1>25 DEF OfferRefused, EndStream
<1>26. CASE CloseFails  BY <1>26 DEF CloseFails
<1>27. CASE CloseReturns  BY <1>27 DEF CloseReturns
<1>28. CASE Retry  BY <1>28 DEF Retry
<1>29. CASE CooldownEnds  BY <1>29 DEF CooldownEnds
<1>30. CASE ReleaseExhausted  BY <1>30 DEF ReleaseExhausted, ReleaseLease
<1>31. CASE Exhausted  BY <1>31 DEF Exhausted
<1>32. CASE InternalError  BY <1>32 DEF InternalError
<1>33. CASE Finally  BY <1>33 DEF Finally
<1>34. CASE ReleaseLast  BY <1>34 DEF ReleaseLast, ReleaseLease
<1>35. CASE Last  BY <1>35 DEF Last
<1>36. CASE ThreadEnds  BY <1>36 DEF ThreadEnds
<1>37. ASSUME NEW s \in Stoppers, StopSignals(s) PROVE StreamInv'
  BY <1>37 DEF StopSignals
<1>38. ASSUME NEW s \in Stoppers, StopShutsSlot(s) PROVE StreamInv'
  BY <1>38 DEF StopShutsSlot
<1>39. ASSUME NEW s \in Stoppers, StopMarks(s) PROVE StreamInv'
  BY <1>39 DEF StopMarks
<1>40. ASSUME NEW s \in Stoppers, StopJoins(s) PROVE StreamInv'
  BY <1>40 DEF StopJoins
<1>41. ASSUME NEW s \in Stoppers, StopTimesOut(s) PROVE StreamInv'
  BY <1>41 DEF StopTimesOut
<1>42. CASE UNCHANGED vars
  BY <1>42
<1>43. CASE CallFactory  BY <1>43 DEF CallFactory, Begun
<1>44. CASE CallOpen  BY <1>44 DEF CallOpen, Begun
<1>45. CASE CallRead  BY <1>45 DEF CallRead, Begun
<1> QED
  BY <1>1, <1>2, <1>3, <1>4, <1>5, <1>6, <1>7, <1>8, <1>9, <1>10, <1>11,
     <1>12, <1>13, <1>14, <1>15, <1>16, <1>17, <1>18, <1>19, <1>20, <1>21,
     <1>22, <1>23, <1>24, <1>25, <1>26, <1>27, <1>28, <1>29, <1>30, <1>31,
     <1>32, <1>33, <1>34, <1>35, <1>36, <1>37, <1>38, <1>39, <1>40, <1>41,
     <1>42, <1>43, <1>44, <1>45
     DEF Next, OwnerStep, StopCall

(* Callers of stop(): the slot they closed stays closed, and a thread that *)
(* ended, or never will start, stays so.                                   *)
LEMMA StopStep == TypeOK /\ StopInv /\ [Next]_vars => StopInv'
<1> SUFFICES ASSUME TypeOK /\ StopInv, [Next]_vars PROVE StopInv'
  OBVIOUS
<1> USE ControllerAssumption DEF TypeOK, StopInv, OwnerAlive, vars, slots,
    stream, device, locals, history, Keep, Goto, SetState, CloseSlot
<1>1. CASE Start  BY <1>1 DEF Start
<1>2. CASE SlotClosedOutside  BY <1>2 DEF SlotClosedOutside
<1>3. CASE TakeFrame  BY <1>3 DEF TakeFrame
<1>4. CASE Begin  BY <1>4 DEF Begin
<1>5. CASE Admit  BY <1>5 DEF Admit
<1>6. CASE AcquireLease  BY <1>6 DEF AcquireLease
<1>7. CASE Loop  BY <1>7 DEF Loop
<1>8. CASE Opening  BY <1>8 DEF Opening
<1>9. CASE FactoryRaises  BY <1>9 DEF FactoryRaises
<1>10. CASE FactoryInvalid  BY <1>10 DEF FactoryInvalid
<1>11. CASE FactoryReturns  BY <1>11 DEF FactoryReturns
<1>12. CASE OpenFatal  BY <1>12 DEF OpenFatal
<1>13. CASE OpenRaises  BY <1>13 DEF OpenRaises
<1>14. CASE OpenReturns  BY <1>14 DEF OpenReturns
<1>15. CASE Mark  BY <1>15 DEF Mark
<1>16. CASE CheckStop  BY <1>16 DEF CheckStop, EndStream
<1>17. CASE ReadFails  BY <1>17 DEF ReadFails, EndStream
<1>18. CASE ReadStopped  BY <1>18 DEF ReadStopped, EndStream
<1>19. CASE ReadInvalid  BY <1>19 DEF ReadInvalid, EndStream
<1>20. CASE ReadFrame  BY <1>20 DEF ReadFrame
<1>21. CASE ReadDegraded  BY <1>21 DEF ReadDegraded
<1>22. CASE Degrade  BY <1>22 DEF Degrade, EndStream
<1>23. CASE WaitEnds  BY <1>23 DEF WaitEnds, EndStream
<1>24. CASE OfferFrame  BY <1>24 DEF OfferFrame, Begun
<1>25. CASE OfferRefused  BY <1>25 DEF OfferRefused, EndStream
<1>26. CASE CloseFails  BY <1>26 DEF CloseFails
<1>27. CASE CloseReturns  BY <1>27 DEF CloseReturns
<1>28. CASE Retry  BY <1>28 DEF Retry
<1>29. CASE CooldownEnds  BY <1>29 DEF CooldownEnds
<1>30. CASE ReleaseExhausted  BY <1>30 DEF ReleaseExhausted, ReleaseLease
<1>31. CASE Exhausted  BY <1>31 DEF Exhausted
<1>32. CASE InternalError  BY <1>32 DEF InternalError
<1>33. CASE Finally  BY <1>33 DEF Finally
<1>34. CASE ReleaseLast  BY <1>34 DEF ReleaseLast, ReleaseLease
<1>35. CASE Last  BY <1>35 DEF Last
<1>36. CASE ThreadEnds  BY <1>36 DEF ThreadEnds
<1>37. ASSUME NEW s \in Stoppers, StopSignals(s) PROVE StopInv'
  BY <1>37 DEF StopSignals
<1>38. ASSUME NEW s \in Stoppers, StopShutsSlot(s) PROVE StopInv'
  BY <1>38 DEF StopShutsSlot
<1>39. ASSUME NEW s \in Stoppers, StopMarks(s) PROVE StopInv'
  BY <1>39 DEF StopMarks
<1>40. ASSUME NEW s \in Stoppers, StopJoins(s) PROVE StopInv'
  BY <1>40 DEF StopJoins
<1>41. ASSUME NEW s \in Stoppers, StopTimesOut(s) PROVE StopInv'
  BY <1>41 DEF StopTimesOut
<1>42. CASE UNCHANGED vars
  BY <1>42
<1>43. CASE CallFactory  BY <1>43 DEF CallFactory, Begun
<1>44. CASE CallOpen  BY <1>44 DEF CallOpen, Begun
<1>45. CASE CallRead  BY <1>45 DEF CallRead, Begun
<1> QED
  BY <1>1, <1>2, <1>3, <1>4, <1>5, <1>6, <1>7, <1>8, <1>9, <1>10, <1>11,
     <1>12, <1>13, <1>14, <1>15, <1>16, <1>17, <1>18, <1>19, <1>20, <1>21,
     <1>22, <1>23, <1>24, <1>25, <1>26, <1>27, <1>28, <1>29, <1>30, <1>31,
     <1>32, <1>33, <1>34, <1>35, <1>36, <1>37, <1>38, <1>39, <1>40, <1>41,
     <1>42, <1>43, <1>44, <1>45
     DEF Next, OwnerStep, StopCall

(* Late calls: every place from which a call begins is reached only        *)
(* through a test of the flag, and the flag is never reset.                *)
LEMMA LateStep == TypeOK /\ LateInv /\ StopInv /\ [Next]_vars => LateInv'
<1> SUFFICES ASSUME TypeOK /\ LateInv /\ StopInv, [Next]_vars PROVE LateInv'
  OBVIOUS
<1> USE ControllerAssumption DEF TypeOK, LateInv, StopInv, OwnerAlive, vars, slots,
    stream, device, locals, history, Keep, Goto, SetState, CloseSlot
<1>1. CASE Start  BY <1>1 DEF Start
<1>2. CASE SlotClosedOutside  BY <1>2 DEF SlotClosedOutside
<1>3. CASE TakeFrame  BY <1>3 DEF TakeFrame
<1>4. CASE Begin  BY <1>4 DEF Begin
<1>5. CASE Admit  BY <1>5 DEF Admit
<1>6. CASE AcquireLease  BY <1>6 DEF AcquireLease
<1>7. CASE Loop  BY <1>7 DEF Loop
<1>8. CASE Opening  BY <1>8 DEF Opening
<1>9. CASE FactoryRaises  BY <1>9 DEF FactoryRaises
<1>10. CASE FactoryInvalid  BY <1>10 DEF FactoryInvalid
<1>11. CASE FactoryReturns  BY <1>11 DEF FactoryReturns
<1>12. CASE OpenFatal  BY <1>12 DEF OpenFatal
<1>13. CASE OpenRaises  BY <1>13 DEF OpenRaises
<1>14. CASE OpenReturns  BY <1>14 DEF OpenReturns
<1>15. CASE Mark  BY <1>15 DEF Mark
<1>16. CASE CheckStop  BY <1>16 DEF CheckStop, EndStream
<1>17. CASE ReadFails  BY <1>17 DEF ReadFails, EndStream
<1>18. CASE ReadStopped  BY <1>18 DEF ReadStopped, EndStream
<1>19. CASE ReadInvalid  BY <1>19 DEF ReadInvalid, EndStream
<1>20. CASE ReadFrame  BY <1>20 DEF ReadFrame
<1>21. CASE ReadDegraded  BY <1>21 DEF ReadDegraded
<1>22. CASE Degrade  BY <1>22 DEF Degrade, EndStream
<1>23. CASE WaitEnds  BY <1>23 DEF WaitEnds, EndStream
<1>24. CASE OfferFrame  BY <1>24 DEF OfferFrame, Begun
<1>25. CASE OfferRefused  BY <1>25 DEF OfferRefused, EndStream
<1>26. CASE CloseFails  BY <1>26 DEF CloseFails
<1>27. CASE CloseReturns  BY <1>27 DEF CloseReturns
<1>28. CASE Retry  BY <1>28 DEF Retry
<1>29. CASE CooldownEnds  BY <1>29 DEF CooldownEnds
<1>30. CASE ReleaseExhausted  BY <1>30 DEF ReleaseExhausted, ReleaseLease
<1>31. CASE Exhausted  BY <1>31 DEF Exhausted
<1>32. CASE InternalError  BY <1>32 DEF InternalError
<1>33. CASE Finally  BY <1>33 DEF Finally
<1>34. CASE ReleaseLast  BY <1>34 DEF ReleaseLast, ReleaseLease
<1>35. CASE Last  BY <1>35 DEF Last
<1>36. CASE ThreadEnds  BY <1>36 DEF ThreadEnds
<1>37. ASSUME NEW s \in Stoppers, StopSignals(s) PROVE LateInv'
  BY <1>37 DEF StopSignals
<1>38. ASSUME NEW s \in Stoppers, StopShutsSlot(s) PROVE LateInv'
  BY <1>38 DEF StopShutsSlot
<1>39. ASSUME NEW s \in Stoppers, StopMarks(s) PROVE LateInv'
  BY <1>39 DEF StopMarks
<1>40. ASSUME NEW s \in Stoppers, StopJoins(s) PROVE LateInv'
  BY <1>40 DEF StopJoins
<1>41. ASSUME NEW s \in Stoppers, StopTimesOut(s) PROVE LateInv'
  BY <1>41 DEF StopTimesOut
<1>42. CASE UNCHANGED vars
  BY <1>42
<1>43. CASE CallFactory  BY <1>43 DEF CallFactory, Begun
<1>44. CASE CallOpen  BY <1>44 DEF CallOpen, Begun
<1>45. CASE CallRead  BY <1>45 DEF CallRead, Begun
<1> QED
  BY <1>1, <1>2, <1>3, <1>4, <1>5, <1>6, <1>7, <1>8, <1>9, <1>10, <1>11,
     <1>12, <1>13, <1>14, <1>15, <1>16, <1>17, <1>18, <1>19, <1>20, <1>21,
     <1>22, <1>23, <1>24, <1>25, <1>26, <1>27, <1>28, <1>29, <1>30, <1>31,
     <1>32, <1>33, <1>34, <1>35, <1>36, <1>37, <1>38, <1>39, <1>40, <1>41,
     <1>42, <1>43, <1>44, <1>45
     DEF Next, OwnerStep, StopCall

(* A closed slot is never filled again. *)
LEMMA SlotStep == ClosedSlotIsEmpty /\ [Next]_vars => ClosedSlotIsEmpty'
<1> USE DEF ClosedSlotIsEmpty, slots, CloseSlot
<1> SUFFICES ASSUME ClosedSlotIsEmpty, [Next]_vars PROVE ClosedSlotIsEmpty'
  OBVIOUS
<1>1. CASE OfferFrame  BY <1>1 DEF OfferFrame
<1>2. CASE Start \/ SlotClosedOutside \/ TakeFrame \/ Finally
  BY <1>2 DEF Start, SlotClosedOutside, TakeFrame, Finally
<1>3. ASSUME NEW s \in Stoppers, StopCall(s) PROVE ClosedSlotIsEmpty'
  BY <1>3 DEF StopCall, StopSignals, StopShutsSlot, StopMarks, StopJoins, StopTimesOut
<1>4. CASE OwnerStep /\ ~OfferFrame /\ ~Finally
  <2>1. UNCHANGED slots
    BY <1>4 DEF OwnerStep, Begin, Admit, AcquireLease, Loop, Opening, CallFactory,
      FactoryRaises, FactoryInvalid, FactoryReturns, CallOpen, OpenFatal, OpenRaises,
      OpenReturns, Mark, CheckStop, CallRead, ReadFails, ReadStopped, ReadInvalid, ReadFrame,
      ReadDegraded, Degrade, WaitEnds, OfferRefused, CloseFails, CloseReturns, Retry,
      CooldownEnds, ReleaseExhausted, Exhausted, InternalError, ReleaseLast, Last, ThreadEnds
  <2> QED
    BY <2>1
<1>5. CASE UNCHANGED vars
  BY <1>5 DEF vars
<1> QED
  BY <1>1, <1>2, <1>3, <1>4, <1>5 DEF Next

-----------------------------------------------------------------------------
(* The controller before start(). *)
LEMMA InitIInv == Init => IInv
<1> SUFFICES ASSUME Init PROVE IInv
  OBVIOUS
<1> USE ControllerAssumption DEF Init, NoFrame
<1>1. TypeOK
  <2>1. /\ started \in BOOLEAN /\ stopRequested \in BOOLEAN /\ slotClosed \in BOOLEAN
        /\ activeStream \in BOOLEAN /\ lease \in BOOLEAN /\ leaseFlag \in BOOLEAN
        /\ retained \in BOOLEAN /\ stable \in BOOLEAN
    OBVIOUS
  <2>2. slot \in Frames /\ offered \in Frames
    BY DEF Frames
  <2> QED
    BY <2>1, <2>2 DEF TypeOK, Owners, Results
<1>2. DeviceInv
  BY DEF DeviceInv, Before, Between, Streaming, Holding, Ending, Done
<1>3. RetryInv  BY DEF RetryInv, Before, Streaming, Holding
<1>4. StreamInv  BY DEF StreamInv, Streaming
<1>5. StopInv /\ LateInv /\ ClosedSlotIsEmpty  BY DEF StopInv, LateInv, ClosedSlotIsEmpty
<1> QED
  BY <1>1, <1>2, <1>3, <1>4, <1>5 DEF IInv

(* The invariant is inductive. *)
THEOREM Invariance == Spec => []IInv
<1>1. IInv /\ [Next]_vars => IInv'
  BY TypeStep, DeviceStep, RetryStep, StreamStep, StopStep, LateStep, SlotStep DEF IInv
<1> QED
  BY InitIInv, <1>1, PTL DEF Spec

(* Every variable stays in its range. *)
THEOREM TypeCorrect == Spec => []TypeOK
<1>1. IInv => TypeOK  BY DEF IInv
<1> QED
  BY <1>1, Invariance, PTL

(* A backend exists only one at a time and only under the lease, however   *)
(* factories, opens, reads, closes and releases fail.                      *)
THEOREM DeviceSafety == Spec => []DeviceOwned
<1>1. IInv => DeviceOwned
  <2> SUFFICES ASSUME IInv PROVE DeviceOwned
    OBVIOUS
  <2>1. owner \in Before \cup Between \cup Holding \cup {"exhausted"} \cup Ending
    BY DEF IInv, TypeOK, Owners, Before, Between, Streaming, Holding, Ending
  <2>2. handles \in {0, 1} /\ (handles = 1 => lease)
    BY <2>1 DEF IInv, DeviceInv
  <2> QED
    BY <2>2 DEF DeviceOwned, Ownership!Owned
<1> QED
  BY <1>1, Invariance, PTL

(* The owner thread leaves nothing behind but a backend it could not close *)
(* or a lease it could not release.                                        *)
THEOREM Cleanup == Spec => []CleanupComplete
<1>1. IInv => CleanupComplete
  BY DEF IInv, DeviceInv, CleanupComplete, Done, Ending
<1> QED
  BY <1>1, Invariance, PTL

(* A True from stop() means what a caller takes it to mean, for any number *)
(* of callers.                                                             *)
THEOREM StopTrue == Spec => []StopTrueIsFinal
<1>1. IInv => StopTrueIsFinal
  BY DEF IInv, StopInv, DeviceInv, Before, Ending, ClosedSlotIsEmpty, StopTrueIsFinal
<1> QED
  BY <1>1, Invariance, PTL

(* No raw frame survives in a closed slot. *)
THEOREM ClosedSlot == Spec => []ClosedSlotIsEmpty
<1>1. IInv => ClosedSlotIsEmpty  BY DEF IInv
<1> QED
  BY <1>1, Invariance, PTL

(* The retry budget holds for every budget. *)
THEOREM RetryBudget == Spec => []RetriesBounded
<1>1. IInv => RetriesBounded  BY DEF IInv, RetryInv, RetriesBounded
<1> QED
  BY <1>1, Invariance, PTL

(* Whoever compares epochs and sequences can order all frames ever offered. *)
THEOREM FrameOrder == Spec => FramesAdvance
<1>1. IInv /\ [Next]_vars =>
        [(offered' # offered) =>
           Newer(offered', offered) /\ offered'.epoch = streamEpoch /\ activeStream]_vars
  <2> SUFFICES ASSUME IInv, OfferFrame
               PROVE  /\ Newer(offered', offered)
                      /\ offered'.epoch = streamEpoch /\ activeStream
    <3>1. ASSUME [Next]_vars, ~OfferFrame PROVE offered' = offered
      <4> USE DEF history
      <4>1. CASE OwnerStep
        BY <3>1, <4>1 DEF OwnerStep, Begin, Admit, AcquireLease, Loop, Opening, CallFactory,
          FactoryRaises, FactoryInvalid, FactoryReturns, CallOpen, OpenFatal, OpenRaises,
          OpenReturns, Mark, CheckStop, CallRead, ReadFails, ReadStopped, ReadInvalid,
          ReadFrame, ReadDegraded, Degrade, WaitEnds, OfferRefused, CloseFails, CloseReturns,
          Retry, CooldownEnds, ReleaseExhausted, Exhausted, InternalError, Finally,
          ReleaseLast, Last, ThreadEnds
      <4>2. CASE Start \/ SlotClosedOutside \/ TakeFrame
        BY <4>2 DEF Start, SlotClosedOutside, TakeFrame
      <4>3. ASSUME NEW s \in Stoppers, StopCall(s) PROVE offered' = offered
        BY <4>3 DEF StopCall, StopSignals, StopShutsSlot, StopMarks, StopJoins, StopTimesOut
      <4>4. CASE UNCHANGED vars
        BY <4>4 DEF vars
      <4> QED
        BY <3>1, <4>1, <4>2, <4>3, <4>4 DEF Next
    <3> QED
      BY <3>1
  <2>1. /\ activeStream /\ sequence \in Nat /\ streamEpoch \in Int
        /\ offered.epoch \in Int /\ offered.seq \in Int
        /\ offered.epoch < streamEpoch \/ (offered.epoch = streamEpoch /\ offered.seq < sequence)
    <3>1. owner \in Streaming  BY DEF OfferFrame, Streaming
    <3>2. StreamInv /\ TypeOK  BY DEF IInv
    <3> QED
      BY <3>1, <3>2 DEF StreamInv, TypeOK, Frames
  <2>2. offered'.epoch = streamEpoch /\ offered'.seq = sequence
    BY DEF OfferFrame
  <2> QED
    BY <2>1, <2>2 DEF Newer
<1> QED
  BY <1>1, Invariance, PTL DEF Spec, FramesAdvance

(* A stop that falls between a test of the flag and the call after it lets *)
(* that one call begin and no other, for any number of callers of stop(),  *)
(* retries and streams.                                                    *)
THEOREM StopIsNoticed == Spec => []OneCallAfterStop
<1>1. IInv => OneCallAfterStop  BY DEF IInv, LateInv, OneCallAfterStop
<1> QED
  BY <1>1, Invariance, PTL

-----------------------------------------------------------------------------
(* The controller implements DeviceOwner: every step acquires, creates,    *)
(* destroys, releases or leaves lease and backends alone.                  *)
THEOREM ControllerRefinesOwner == Spec => ImplementsOwner
<1>1. Init => Ownership!OInit
  BY DEF Init, Ownership!OInit
<1>2. IInv /\ [Next]_vars => [Ownership!ONext]_<<lease, handles>>
  <2> SUFFICES ASSUME IInv, [Next]_vars PROVE [Ownership!ONext]_<<lease, handles>>
    OBVIOUS
  <2> USE DEF device
  <2>0. TypeOK /\ DeviceInv  BY DEF IInv
  <2>1. CASE AcquireLease
    BY <2>1, <2>0 DEF AcquireLease, DeviceInv, Before, TypeOK, Ownership!ONext,
      Ownership!Acquire
  <2>2. CASE FactoryReturns
    BY <2>2, <2>0 DEF FactoryReturns, DeviceInv, Between, Ownership!ONext, Ownership!Create
  <2>3. CASE CloseReturns
    BY <2>3, <2>0 DEF CloseReturns, DeviceInv, Holding, Ownership!ONext, Ownership!Destroy
  <2>4. ASSUME NEW next, ReleaseLease(next), UNCHANGED handles, ~retained => handles = 0
        PROVE  [Ownership!ONext]_<<lease, handles>>
    BY <2>4, <2>0 DEF ReleaseLease, DeviceInv, TypeOK, Ownership!ONext, Ownership!Release
  <2>5. CASE ReleaseExhausted
    BY <2>5, <2>4, <2>0 DEF ReleaseExhausted, DeviceInv, Between
  <2>6. CASE ReleaseLast
    BY <2>6, <2>4, <2>0 DEF ReleaseLast, DeviceInv, Ending
  <2>7. CASE /\ OwnerStep
             /\ ~(AcquireLease \/ FactoryReturns \/ CloseReturns)
             /\ ~(ReleaseExhausted \/ ReleaseLast)
    BY <2>7 DEF OwnerStep, Begin, Admit, Loop, Opening, CallFactory, FactoryRaises,
      FactoryInvalid, CallOpen, OpenFatal, OpenRaises, OpenReturns, Mark, CheckStop, CallRead,
      ReadFails, ReadStopped, ReadInvalid, ReadFrame, ReadDegraded, Degrade, WaitEnds,
      OfferFrame, OfferRefused, CloseFails, Retry, CooldownEnds, Exhausted, InternalError,
      Finally, Last, ThreadEnds
  <2>8. CASE Start \/ SlotClosedOutside \/ TakeFrame
    BY <2>8 DEF Start, SlotClosedOutside, TakeFrame
  <2>9. ASSUME NEW s \in Stoppers, StopCall(s) PROVE UNCHANGED <<lease, handles>>
    BY <2>9 DEF StopCall, StopSignals, StopShutsSlot, StopMarks, StopJoins, StopTimesOut
  <2>10. CASE UNCHANGED vars
    BY <2>10 DEF vars
  <2> QED
    BY <2>1, <2>2, <2>3, <2>5, <2>6, <2>7, <2>8, <2>9, <2>10 DEF Next
<1> QED
  BY <1>1, <1>2, Invariance, PTL DEF Spec, ImplementsOwner, Ownership!OSpec, Ownership!ovars
=============================================================================
