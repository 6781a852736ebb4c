----------------------- MODULE ObservationWriterProofs -----------------------
(***************************************************************************)
(* Theorems about ObservationWriter, for any number of callers of stop(),  *)
(* any limits and any number of submissions.                               *)
(***************************************************************************)
EXTENDS ObservationWriter, FiniteSetTheorems, SequenceTheorems, TLAPS

(* Which states the worker can be seen in, and what is waiting then.       *)
LifeInv ==
  /\ worker = "none" => state \in {"new", "stopped"} /\ starter = "idle" /\ ~stopRequested
  /\ worker = "factory" => state \in {"new", "stuck"}
  /\ worker = "unstarted" => state = "new" /\ starter = "raised"
  /\ worker \in {"none", "unstarted", "factory"} => queue = <<>>
  /\ ready <=> worker \notin {"none", "unstarted", "factory"}
  /\ state = "new" => worker \in {"none", "unstarted", "factory"}
  /\ state = "running" => worker \in {"loop", "put"} /\ ~stopRequested
  /\ state = "draining" =>
       /\ worker \in {"loop", "put", "close", "final"} /\ stopRequested
       /\ ~drainRequested \/ worker \in {"close", "final"} => queue = <<>>
  /\ state = "stopped" => worker \in {"none", "tail", "dead"} /\ queue = <<>>
  /\ state = "failed" => worker \in {"close", "final", "tail", "dead"} /\ queue = <<>>

(* The store belongs to the worker between its factory and its close.      *)
StoreInv ==
  /\ worker \in {"none", "unstarted", "factory"} => store = "none" /\ ~activeStore
  /\ worker \in {"loop", "put", "close"} => store = "open"
  /\ worker \in {"final", "tail", "dead"} => store # "open"
  /\ worker \in {"tail", "dead"} => ~activeStore
  /\ state = "stopped" => store # "broken"

CountInv == Accounting /\ (inFlight <=> worker = "put")

(* What was handed over and what waits are the observations 1 to n, in order. *)
InOrder(waiting, log, n) ==
  /\ Len(log) + Len(waiting) = n
  /\ \A i \in 1 .. Len(log) : log[i] = i
  /\ \A i \in 1 .. Len(waiting) : waiting[i].id = Len(log) + i

OrderInv ==
  /\ discarded = 0 => InOrder(queue, putLog, queued)
  /\ failed # 0 => state \in {"failed", "stuck"}
  /\ discarded # 0 =>
       state \in {"failed", "stuck"} \/ (state \in {"draining", "stopped"} /\ ~drainRequested)

(* At most one caller is past _stop_lock, and none after a clean answer;   *)
(* a draining writer always has one.                                       *)
StopInv ==
  /\ \A s \in Stoppers :
       /\ stopper[s] = "joining" =>
            worker # "none" /\ \A t \in Stoppers : stopper[t] = "joining" => t = s
       /\ stopper[s] = "clean" => state = "stopped" /\ StopLockFree
  /\ state = "draining" \/ (state = "new" /\ worker = "factory" /\ stopRequested) =>
       ~StopLockFree

IInv == TypeOK /\ LifeInv /\ StoreInv /\ CountInv /\ OrderInv /\ StopInv

-----------------------------------------------------------------------------
(* Every step keeps the types. *)
LEMMA TypeStep == TypeOK /\ [Next]_vars => TypeOK'
<1> SUFFICES ASSUME TypeOK, [Next]_vars PROVE TypeOK'
  OBVIOUS
<1> USE WriterAssumption DEF TypeOK, States, Workers, Reports, vars,
    lifecycle, handles, pending, counters, DiscardPending
<1>1. CASE Start  BY <1>1 DEF Start
<1>2. CASE StartReports  BY <1>2 DEF StartReports
<1>3. CASE StartTimesOut  BY <1>3 DEF StartTimesOut
<1>4. CASE \E bytes \in Sizes : SubmitRefused(bytes)
  BY <1>4 DEF SubmitRefused
<1>5. CASE \E bytes \in Sizes : SubmitQueued(bytes)
  <2>1. PICK bytes \in Sizes : SubmitQueued(bytes)
    BY <1>5
  <2>2. [id |-> queued + 1, bytes |-> bytes] \in Items
    BY DEF Items
  <2>3. queue' \in Seq(Items) /\ pendingBytes' \in Int /\ queued' \in Nat
    BY <2>1, <2>2, AppendProperties DEF SubmitQueued
  <2> QED
    BY <2>1, <2>3 DEF SubmitQueued
<1>6. CASE FactoryFails  BY <1>6 DEF FactoryFails
<1>7. CASE FactoryReturns  BY <1>7 DEF FactoryReturns
<1>8. CASE PutReturns
  <2>1. inFlight' \in BOOLEAN
    BY <1>8 DEF PutReturns
  <2> QED
    BY <1>8, <2>1 DEF PutReturns
<1>9. CASE PutRaises
  <2>1. inFlight' \in BOOLEAN
    BY <1>9 DEF PutRaises
  <2> QED
    BY <1>9, <2>1 DEF PutRaises
<1>10. CASE CloseStore  BY <1>10 DEF CloseStore
<1>11. CASE Take
  <2>1. inFlight' \in BOOLEAN
    BY <1>11 DEF Take
  <2>2. queue \in Seq(Items) /\ queue # <<>>
    BY <1>11 DEF Take
  <2>3. Head(queue) \in Items /\ Tail(queue) \in Seq(Items)
    BY <2>2, HeadTailProperties
  <2>4. Head(queue).id \in Nat /\ Head(queue).bytes \in Nat
    BY <2>3 DEF Items
  <2>5. pendingBytes' \in Int /\ putLog' \in Seq(Nat) /\ queue' \in Seq(Items)
    BY <1>11, <2>3, <2>4 DEF Take
  <2> QED
    BY <1>11, <2>1, <2>5 DEF Take
<1>12. CASE LoopEnds  BY <1>12 DEF LoopEnds
<1>13. CASE Finalise
  <2>1. state' \in States /\ retainedStore' \in BOOLEAN
    BY <1>13 DEF Finalise
  <2>2. inFlight' = FALSE /\ activeStore' = FALSE /\ ready' = TRUE
    BY <1>13 DEF Finalise
  <2>3. worker' = "tail" /\ failureReason' \in {failureReason, "store_close_failed"}
    BY <1>13 DEF Finalise
  <2>4. UNCHANGED <<stopRequested, drainRequested, store, queue, pendingBytes, counters,
                    starter, stopper>>
    BY <1>13 DEF Finalise
  <2> QED
    BY <2>1, <2>2, <2>3, <2>4
<1>14. CASE ThreadEnds  BY <1>14 DEF ThreadEnds
<1>15. ASSUME NEW s \in Stoppers, StopBusy(s) PROVE TypeOK'
  BY <1>15 DEF StopBusy, StopAnswers
<1>16. ASSUME NEW s \in Stoppers, StopAtOnce(s) PROVE TypeOK'
  BY <1>16 DEF StopAtOnce, StopAnswers
<1>17. ASSUME NEW s \in Stoppers, \E drain \in BOOLEAN : StopFirst(s, drain) PROVE TypeOK'
  <2>1. PICK drain \in BOOLEAN : StopFirst(s, drain)
    BY <1>17
  <2>2. stopRequested' \in BOOLEAN /\ drainRequested' \in BOOLEAN
    BY <2>1 DEF StopFirst
  <2>3. queue' \in Seq(Items) /\ pendingBytes' \in Int /\ discarded' \in Nat
    <3>1. CASE drain
      BY <2>1, <3>1 DEF StopFirst
    <3>2. CASE ~drain
      BY <2>1, <3>2 DEF StopFirst
    <3> QED
      BY <3>1, <3>2
  <2> QED
    BY <2>1, <2>2, <2>3 DEF StopFirst
<1>18. ASSUME NEW s \in Stoppers, \E drain \in BOOLEAN : StopOther(s, drain) PROVE TypeOK'
  BY <1>18 DEF StopOther
<1>19. ASSUME NEW s \in Stoppers, StopJoins(s) PROVE TypeOK'
  BY <1>19 DEF StopJoins, StopAnswers
<1>20. ASSUME NEW s \in Stoppers, StopTimesOut(s) PROVE TypeOK'
  BY <1>20 DEF StopTimesOut
<1>21. CASE UNCHANGED vars  BY <1>21
<1> QED
  BY <1>1, <1>2, <1>3, <1>4, <1>5, <1>6, <1>7, <1>8, <1>9, <1>10, <1>11,
     <1>12, <1>13, <1>14, <1>15, <1>16, <1>17, <1>18, <1>19, <1>20,
     <1>21
     DEF Next, WorkerStep, StoreCall, StopCall

(* The state and the place of the worker go together. *)
LEMMA LifeStep == TypeOK /\ LifeInv /\ [Next]_vars => LifeInv'
<1> SUFFICES ASSUME TypeOK /\ LifeInv, [Next]_vars PROVE LifeInv'
  OBVIOUS
<1> USE WriterAssumption DEF TypeOK, LifeInv, WorkerAlive, vars, lifecycle,
    handles, pending, counters, DiscardPending
<1>1. CASE Start  BY <1>1 DEF Start
<1>2. CASE StartReports  BY <1>2 DEF StartReports
<1>3. CASE StartTimesOut  BY <1>3 DEF StartTimesOut
<1>4. CASE \E bytes \in Sizes : SubmitRefused(bytes)
  BY <1>4 DEF SubmitRefused
<1>5. CASE \E bytes \in Sizes : SubmitQueued(bytes)
  BY <1>5 DEF SubmitQueued, Refused
<1>6. CASE FactoryFails  BY <1>6 DEF FactoryFails
<1>7. CASE FactoryReturns  BY <1>7 DEF FactoryReturns
<1>8. CASE PutReturns  BY <1>8 DEF PutReturns
<1>9. CASE PutRaises  BY <1>9 DEF PutRaises
<1>10. CASE CloseStore  BY <1>10 DEF CloseStore
<1>11. CASE Take  BY <1>11 DEF Take
<1>12. CASE LoopEnds  BY <1>12 DEF LoopEnds
<1>13. CASE Finalise
  <2>1. CASE state = "stuck"
    BY <1>13, <2>1 DEF Finalise
  <2>2. CASE state # "stuck"
    <3>1. /\ UNCHANGED <<queue, starter, stopRequested, drainRequested>>
          /\ worker = "final" /\ worker' = "tail" /\ ready' /\ state' \in {"failed", "stopped"}
      BY <1>13, <2>2 DEF Finalise
    <3>2. state # "new" /\ state # "running"
      BY <3>1
    <3>3. queue = <<>>
      BY <3>1, <3>2, <2>2 DEF States
    <3> QED
      BY <3>1, <3>3
  <2> QED
    BY <2>1, <2>2
<1>14. CASE ThreadEnds  BY <1>14 DEF ThreadEnds
<1>15. ASSUME NEW s \in Stoppers, StopBusy(s) PROVE LifeInv'
  BY <1>15 DEF StopBusy, StopAnswers
<1>16. ASSUME NEW s \in Stoppers, StopAtOnce(s) PROVE LifeInv'
  BY <1>16 DEF StopAtOnce, StopAnswers
<1>17. ASSUME NEW s \in Stoppers, \E drain \in BOOLEAN : StopFirst(s, drain) PROVE LifeInv'
  BY <1>17 DEF StopFirst
<1>18. ASSUME NEW s \in Stoppers, \E drain \in BOOLEAN : StopOther(s, drain) PROVE LifeInv'
  BY <1>18 DEF StopOther
<1>19. ASSUME NEW s \in Stoppers, StopJoins(s) PROVE LifeInv'
  BY <1>19 DEF StopJoins, StopAnswers
<1>20. ASSUME NEW s \in Stoppers, StopTimesOut(s) PROVE LifeInv'
  BY <1>20 DEF StopTimesOut
<1>21. CASE UNCHANGED vars  BY <1>21
<1> QED
  BY <1>1, <1>2, <1>3, <1>4, <1>5, <1>6, <1>7, <1>8, <1>9, <1>10, <1>11,
     <1>12, <1>13, <1>14, <1>15, <1>16, <1>17, <1>18, <1>19, <1>20,
     <1>21
     DEF Next, WorkerStep, StoreCall, StopCall

(* The store is made, used and closed by the worker alone. *)
LEMMA StoreStep == TypeOK /\ LifeInv /\ StoreInv /\ [Next]_vars => StoreInv'
<1> SUFFICES ASSUME TypeOK /\ LifeInv /\ StoreInv, [Next]_vars PROVE StoreInv'
  OBVIOUS
<1> USE WriterAssumption DEF TypeOK, LifeInv, StoreInv, WorkerAlive, vars,
    lifecycle, handles, pending, counters, DiscardPending
<1>1. CASE Start  BY <1>1 DEF Start
<1>2. CASE StartReports  BY <1>2 DEF StartReports
<1>3. CASE StartTimesOut  BY <1>3 DEF StartTimesOut
<1>4. CASE \E bytes \in Sizes : SubmitRefused(bytes)
  BY <1>4 DEF SubmitRefused
<1>5. CASE \E bytes \in Sizes : SubmitQueued(bytes)  BY <1>5 DEF SubmitQueued
<1>6. CASE FactoryFails  BY <1>6 DEF FactoryFails
<1>7. CASE FactoryReturns  BY <1>7 DEF FactoryReturns
<1>8. CASE PutReturns  BY <1>8 DEF PutReturns
<1>9. CASE PutRaises  BY <1>9 DEF PutRaises
<1>10. CASE CloseStore  BY <1>10 DEF CloseStore
<1>11. CASE Take  BY <1>11 DEF Take
<1>12. CASE LoopEnds  BY <1>12 DEF LoopEnds
<1>13. CASE Finalise  BY <1>13 DEF Finalise
<1>14. CASE ThreadEnds  BY <1>14 DEF ThreadEnds
<1>15. ASSUME NEW s \in Stoppers, StopBusy(s) PROVE StoreInv'
  BY <1>15 DEF StopBusy, StopAnswers
<1>16. ASSUME NEW s \in Stoppers, StopAtOnce(s) PROVE StoreInv'
  BY <1>16 DEF StopAtOnce, StopAnswers
<1>17. ASSUME NEW s \in Stoppers, \E drain \in BOOLEAN : StopFirst(s, drain) PROVE StoreInv'
  BY <1>17 DEF StopFirst
<1>18. ASSUME NEW s \in Stoppers, \E drain \in BOOLEAN : StopOther(s, drain) PROVE StoreInv'
  BY <1>18 DEF StopOther
<1>19. ASSUME NEW s \in Stoppers, StopJoins(s) PROVE StoreInv'
  BY <1>19 DEF StopJoins, StopAnswers
<1>20. ASSUME NEW s \in Stoppers, StopTimesOut(s) PROVE StoreInv'
  BY <1>20 DEF StopTimesOut
<1>21. CASE UNCHANGED vars  BY <1>21
<1> QED
  BY <1>1, <1>2, <1>3, <1>4, <1>5, <1>6, <1>7, <1>8, <1>9, <1>10, <1>11,
     <1>12, <1>13, <1>14, <1>15, <1>16, <1>17, <1>18, <1>19, <1>20,
     <1>21
     DEF Next, WorkerStep, StoreCall, StopCall

(* No region loses count of an observation. *)
LEMMA CountStep == TypeOK /\ CountInv /\ [Next]_vars => CountInv'
<1> SUFFICES ASSUME TypeOK /\ CountInv, [Next]_vars PROVE CountInv'
  OBVIOUS
<1> USE WriterAssumption DEF TypeOK, CountInv, Accounting, vars, lifecycle,
    handles, pending, counters, DiscardPending
<1>1. CASE Start  BY <1>1 DEF Start
<1>2. CASE StartReports  BY <1>2 DEF StartReports
<1>3. CASE StartTimesOut  BY <1>3 DEF StartTimesOut
<1>4. CASE \E bytes \in Sizes : SubmitRefused(bytes)
  BY <1>4 DEF SubmitRefused
<1>5. CASE \E bytes \in Sizes : SubmitQueued(bytes)  BY <1>5 DEF SubmitQueued
<1>6. CASE FactoryFails  BY <1>6 DEF FactoryFails
<1>7. CASE FactoryReturns  BY <1>7 DEF FactoryReturns
<1>8. CASE PutReturns  BY <1>8 DEF PutReturns
<1>9. CASE PutRaises  BY <1>9 DEF PutRaises
<1>10. CASE CloseStore  BY <1>10 DEF CloseStore
<1>11. CASE Take  BY <1>11 DEF Take
<1>12. CASE LoopEnds  BY <1>12 DEF LoopEnds
<1>13. CASE Finalise  BY <1>13 DEF Finalise
<1>14. CASE ThreadEnds  BY <1>14 DEF ThreadEnds
<1>15. ASSUME NEW s \in Stoppers, StopBusy(s) PROVE CountInv'
  BY <1>15 DEF StopBusy, StopAnswers
<1>16. ASSUME NEW s \in Stoppers, StopAtOnce(s) PROVE CountInv'
  BY <1>16 DEF StopAtOnce, StopAnswers
<1>17. ASSUME NEW s \in Stoppers, \E drain \in BOOLEAN : StopFirst(s, drain) PROVE CountInv'
  <2>1. PICK drain \in BOOLEAN : StopFirst(s, drain)
    BY <1>17
  <2>2. CASE drain
    BY <2>1, <2>2 DEF StopFirst
  <2>3. CASE ~drain
    BY <2>1, <2>3 DEF StopFirst
  <2> QED
    BY <2>2, <2>3
<1>18. ASSUME NEW s \in Stoppers, \E drain \in BOOLEAN : StopOther(s, drain) PROVE CountInv'
  BY <1>18 DEF StopOther
<1>19. ASSUME NEW s \in Stoppers, StopJoins(s) PROVE CountInv'
  BY <1>19 DEF StopJoins, StopAnswers
<1>20. ASSUME NEW s \in Stoppers, StopTimesOut(s) PROVE CountInv'
  BY <1>20 DEF StopTimesOut
<1>21. CASE UNCHANGED vars  BY <1>21
<1> QED
  BY <1>1, <1>2, <1>3, <1>4, <1>5, <1>6, <1>7, <1>8, <1>9, <1>10, <1>11,
     <1>12, <1>13, <1>14, <1>15, <1>16, <1>17, <1>18, <1>19, <1>20,
     <1>21
     DEF Next, WorkerStep, StoreCall, StopCall

(* Taking from the front and appending at the end keep the order. *)
LEMMA TakeInOrder ==
  ASSUME NEW waiting \in Seq(Items), NEW log \in Seq(Nat), NEW n \in Nat,
         waiting # <<>>, InOrder(waiting, log, n)
  PROVE  InOrder(Tail(waiting), Append(log, Head(waiting).id), n)
<1> DEFINE rest == Tail(waiting)
           more == Append(log, Head(waiting).id)
<1>1. /\ Head(waiting) \in Items /\ Len(rest) = Len(waiting) - 1
      /\ \A i \in 1 .. Len(rest) : rest[i] = waiting[i + 1]
  BY HeadTailProperties
<1>2. Head(waiting) = waiting[1] /\ Len(waiting) \in Nat \ {0} /\ Len(log) \in Nat
  BY EmptySeq
<1>3. Head(waiting).id \in Nat /\ Head(waiting).id = Len(log) + 1
  BY <1>1, <1>2 DEF Items, InOrder
<1>4. /\ Len(more) = Len(log) + 1 /\ more[Len(log) + 1] = Len(log) + 1
      /\ \A i \in 1 .. Len(log) : more[i] = log[i]
  BY <1>3, AppendProperties
<1>5. \A i \in 1 .. Len(more) : more[i] = i
  BY <1>2, <1>4 DEF InOrder
<1>6. \A i \in 1 .. Len(rest) : rest[i].id = Len(more) + i
  BY <1>1, <1>2, <1>4 DEF InOrder
<1>7. Len(more) + Len(rest) = n
  BY <1>1, <1>2, <1>4 DEF InOrder
<1> QED
  BY <1>5, <1>6, <1>7 DEF InOrder

LEMMA AppendInOrder ==
  ASSUME NEW waiting \in Seq(Items), NEW log \in Seq(Nat), NEW n \in Nat, NEW bytes \in Nat,
         InOrder(waiting, log, n)
  PROVE  InOrder(Append(waiting, [id |-> n + 1, bytes |-> bytes]), log, n + 1)
<1> DEFINE new == [id |-> n + 1, bytes |-> bytes]
           more == Append(waiting, new)
<1>1. new \in Items  BY DEF Items
<1>2. /\ Len(more) = Len(waiting) + 1 /\ more[Len(waiting) + 1] = new
      /\ \A i \in 1 .. Len(waiting) : more[i] = waiting[i]
  BY <1>1, AppendProperties
<1>3. Len(waiting) \in Nat /\ Len(log) \in Nat /\ more[Len(waiting) + 1].id = n + 1
  BY <1>2
<1>4. ASSUME NEW i \in 1 .. Len(more) PROVE more[i].id = Len(log) + i
  <2>1. CASE i \in 1 .. Len(waiting)
    BY <1>2, <2>1 DEF InOrder
  <2>2. CASE i = Len(waiting) + 1
    <3>1. Len(log) + Len(waiting) = n
      BY DEF InOrder
    <3>2. more[i].id = n + 1
      BY <1>3, <2>2
    <3> QED
      BY <1>3, <2>2, <3>1, <3>2
  <2> QED
    BY <1>2, <1>3, <2>1, <2>2
<1>5. Len(log) + Len(more) = n + 1
  BY <1>2, <1>3 DEF InOrder
<1> QED
  BY <1>4, <1>5 DEF InOrder

(* The order of submission is the order of delivery. *)
LEMMA OrderStep == TypeOK /\ LifeInv /\ OrderInv /\ [Next]_vars => OrderInv'
<1> SUFFICES ASSUME TypeOK /\ LifeInv /\ OrderInv, [Next]_vars PROVE OrderInv'
  OBVIOUS
<1> USE WriterAssumption DEF TypeOK, LifeInv, OrderInv, WorkerAlive, vars,
    lifecycle, handles, pending, counters, DiscardPending
<1>1. CASE Start  BY <1>1 DEF Start
<1>2. CASE StartReports  BY <1>2 DEF StartReports
<1>3. CASE StartTimesOut  BY <1>3 DEF StartTimesOut
<1>4. CASE \E bytes \in Sizes : SubmitRefused(bytes)
  BY <1>4 DEF SubmitRefused
<1>5. CASE \E bytes \in Sizes : SubmitQueued(bytes)
  <2>1. PICK bytes \in Sizes : SubmitQueued(bytes)
    BY <1>5
  <2>2. state = "running" /\ UNCHANGED <<state, failed, discarded>>
    BY <2>1 DEF SubmitQueued, Refused
  <2>3. discarded = 0 /\ InOrder(queue, putLog, queued)
    BY <2>2
  <2>4. bytes \in Nat
    OBVIOUS
  <2>5. InOrder(queue', putLog', queued')
    BY <2>1, <2>3, <2>4, AppendInOrder DEF SubmitQueued
  <2> QED
    BY <2>2, <2>3, <2>5
<1>6. CASE FactoryFails  BY <1>6 DEF FactoryFails
<1>7. CASE FactoryReturns  BY <1>7 DEF FactoryReturns
<1>8. CASE PutReturns  BY <1>8 DEF PutReturns
<1>9. CASE PutRaises  BY <1>9 DEF PutRaises
<1>10. CASE CloseStore  BY <1>10 DEF CloseStore
<1>11. CASE Take
  <2>1. /\ queue # <<>> /\ queue' = Tail(queue) /\ putLog' = Append(putLog, Head(queue).id)
        /\ UNCHANGED <<queued, discarded, failed, state, drainRequested>>
    BY <1>11 DEF Take
  <2>2. discarded = 0 => InOrder(queue', putLog', queued')
    BY <2>1, TakeInOrder
  <2> QED
    BY <2>1, <2>2
<1>12. CASE LoopEnds  BY <1>12 DEF LoopEnds
<1>13. CASE Finalise  BY <1>13 DEF Finalise
<1>14. CASE ThreadEnds  BY <1>14 DEF ThreadEnds
<1>15. ASSUME NEW s \in Stoppers, StopBusy(s) PROVE OrderInv'
  BY <1>15 DEF StopBusy, StopAnswers
<1>16. ASSUME NEW s \in Stoppers, StopAtOnce(s) PROVE OrderInv'
  BY <1>16 DEF StopAtOnce, StopAnswers
<1>17. ASSUME NEW s \in Stoppers, \E drain \in BOOLEAN : StopFirst(s, drain) PROVE OrderInv'
  <2>1. PICK drain \in BOOLEAN : StopFirst(s, drain)
    BY <1>17
  <2>2. CASE drain
    BY <2>1, <2>2 DEF StopFirst
  <2>3. CASE ~drain
    BY <2>1, <2>3 DEF StopFirst
  <2> QED
    BY <2>2, <2>3
<1>18. ASSUME NEW s \in Stoppers, \E drain \in BOOLEAN : StopOther(s, drain) PROVE OrderInv'
  BY <1>18 DEF StopOther
<1>19. ASSUME NEW s \in Stoppers, StopJoins(s) PROVE OrderInv'
  BY <1>19 DEF StopJoins, StopAnswers
<1>20. ASSUME NEW s \in Stoppers, StopTimesOut(s) PROVE OrderInv'
  BY <1>20 DEF StopTimesOut
<1>21. CASE UNCHANGED vars  BY <1>21
<1> QED
  BY <1>1, <1>2, <1>3, <1>4, <1>5, <1>6, <1>7, <1>8, <1>9, <1>10, <1>11,
     <1>12, <1>13, <1>14, <1>15, <1>16, <1>17, <1>18, <1>19, <1>20,
     <1>21
     DEF Next, WorkerStep, StoreCall, StopCall

(* _stop_lock admits one caller to the join; a clean answer ends it all. *)
LEMMA StopStep == TypeOK /\ LifeInv /\ StopInv /\ [Next]_vars => StopInv'
<1> SUFFICES ASSUME TypeOK /\ LifeInv /\ StopInv, [Next]_vars PROVE StopInv'
  OBVIOUS
<1> USE WriterAssumption DEF TypeOK, LifeInv, StopInv, StopLockFree,
    WorkerAlive, vars, lifecycle, handles, pending, counters, DiscardPending
<1>1. CASE Start  BY <1>1 DEF Start
<1>2. CASE StartReports  BY <1>2 DEF StartReports
<1>3. CASE StartTimesOut  BY <1>3 DEF StartTimesOut
<1>4. CASE \E bytes \in Sizes : SubmitRefused(bytes)
  BY <1>4 DEF SubmitRefused
<1>5. CASE \E bytes \in Sizes : SubmitQueued(bytes)  BY <1>5 DEF SubmitQueued
<1>6. CASE FactoryFails  BY <1>6 DEF FactoryFails
<1>7. CASE FactoryReturns  BY <1>7 DEF FactoryReturns
<1>8. CASE PutReturns  BY <1>8 DEF PutReturns
<1>9. CASE PutRaises  BY <1>9 DEF PutRaises
<1>10. CASE CloseStore  BY <1>10 DEF CloseStore
<1>11. CASE Take  BY <1>11 DEF Take
<1>12. CASE LoopEnds  BY <1>12 DEF LoopEnds
<1>13. CASE Finalise  BY <1>13 DEF Finalise
<1>14. CASE ThreadEnds  BY <1>14 DEF ThreadEnds
<1>15. ASSUME NEW s \in Stoppers, StopBusy(s) PROVE StopInv'
  BY <1>15 DEF StopBusy, StopAnswers
<1>16. ASSUME NEW s \in Stoppers, StopAtOnce(s) PROVE StopInv'
  BY <1>16 DEF StopAtOnce, StopAnswers
<1>17. ASSUME NEW s \in Stoppers, \E drain \in BOOLEAN : StopFirst(s, drain) PROVE StopInv'
  BY <1>17 DEF StopFirst
<1>18. ASSUME NEW s \in Stoppers, \E drain \in BOOLEAN : StopOther(s, drain) PROVE StopInv'
  BY <1>18 DEF StopOther
<1>19. ASSUME NEW s \in Stoppers, StopJoins(s) PROVE StopInv'
  BY <1>19 DEF StopJoins, StopAnswers
<1>20. ASSUME NEW s \in Stoppers, StopTimesOut(s) PROVE StopInv'
  BY <1>20 DEF StopTimesOut
<1>21. CASE UNCHANGED vars  BY <1>21
<1> QED
  BY <1>1, <1>2, <1>3, <1>4, <1>5, <1>6, <1>7, <1>8, <1>9, <1>10, <1>11,
     <1>12, <1>13, <1>14, <1>15, <1>16, <1>17, <1>18, <1>19, <1>20,
     <1>21
     DEF Next, WorkerStep, StoreCall, StopCall

-----------------------------------------------------------------------------
(* The writer before start(). *)
LEMMA InitIInv == Init => IInv
<1> SUFFICES ASSUME Init PROVE IInv
  OBVIOUS
<1> USE WriterAssumption DEF Init
<1>1. TypeOK
  <2>1. /\ stopRequested \in BOOLEAN /\ drainRequested \in BOOLEAN /\ ready \in BOOLEAN
        /\ activeStore \in BOOLEAN /\ retainedStore \in BOOLEAN /\ inFlight \in BOOLEAN
    OBVIOUS
  <2>2. queue \in Seq(Items) /\ putLog \in Seq(Nat)
    OBVIOUS
  <2> QED
    BY <2>1, <2>2 DEF TypeOK, States, Workers, Reports
<1>2. LifeInv /\ StoreInv
  BY DEF LifeInv, StoreInv
<1>3. CountInv
  BY DEF CountInv, Accounting
<1>4. OrderInv
  BY DEF OrderInv, InOrder
<1>5. StopInv
  BY DEF StopInv
<1> QED
  BY <1>1, <1>2, <1>3, <1>4, <1>5 DEF IInv

(* The invariant is inductive. *)
THEOREM Invariance == Spec => []IInv
<1>1. IInv /\ [Next]_vars => IInv'
  BY TypeStep, LifeStep, StoreStep, CountStep, OrderStep, StopStep DEF IInv
<1> QED
  BY InitIInv, <1>1, PTL DEF Spec

(* Every variable stays in its range. *)
THEOREM TypeCorrect == Spec => []TypeOK
<1>1. IInv => TypeOK  BY DEF IInv
<1> QED
  BY <1>1, Invariance, PTL

(* No queued observation is lost or counted twice, whatever the threads of *)
(* submit(), stop() and the worker interleave.                             *)
THEOREM NothingUncounted == Spec => []Accounting
<1>1. IInv => Accounting  BY DEF IInv, CountInv
<1> QED
  BY <1>1, Invariance, PTL

(* DRAINING is only ever seen with a caller of stop() inside join(): the   *)
(* branch of _stop_serialized for a writer that is already draining is     *)
(* dead code, and the module has no action for it.                         *)
THEOREM DrainingHasItsStopper == Spec => [](state = "draining" => ~StopLockFree)
<1>1. IInv => (state = "draining" => ~StopLockFree)  BY DEF IInv, StopInv
<1> QED
  BY <1>1, Invariance, PTL

(* clean=True is final. *)
THEOREM CleanStop == Spec => []CleanIsFinal
<1>1. IInv => CleanIsFinal
  <2> SUFFICES ASSUME IInv, NEW s \in Stoppers, stopper[s] = "clean"
               PROVE  /\ state = "stopped" /\ store \in {"none", "closed"} /\ ~activeStore
                      /\ worker \in {"none", "tail", "dead"} /\ queue = <<>> /\ ~inFlight
    BY DEF CleanIsFinal
  <2>1. state = "stopped"
    BY DEF IInv, StopInv
  <2>2. worker \in {"none", "tail", "dead"} /\ queue = <<>>
    BY <2>1 DEF IInv, LifeInv
  <2>3. store \in {"none", "closed"} /\ ~activeStore
    BY <2>1, <2>2 DEF IInv, StoreInv, TypeOK
  <2>4. ~inFlight
    BY <2>2 DEF IInv, CountInv
  <2> QED
    BY <2>1, <2>2, <2>3, <2>4
<1> QED
  BY <1>1, Invariance, PTL

(* A stop that drained to STOPPED handed every observation to the store,   *)
(* in the order of submission, and got an answer for each.                 *)
THEOREM DrainComplete == Spec => []DrainLosesNothing
<1>1. IInv => DrainLosesNothing
  <2> SUFFICES ASSUME IInv, state = "stopped", drainRequested
               PROVE  putLog = [n \in 1 .. queued |-> n] /\ persisted = queued
    BY DEF DrainLosesNothing
  <2>1. discarded = 0 /\ failed = 0
    BY DEF IInv, OrderInv
  <2>2. queue = <<>> /\ ~inFlight
    BY DEF IInv, LifeInv, CountInv
  <2>3. persisted = queued
    BY <2>1, <2>2 DEF IInv, CountInv, Accounting, TypeOK
  <2>4. Len(putLog) = queued /\ \A i \in 1 .. Len(putLog) : putLog[i] = i
    BY <2>1, <2>2 DEF IInv, OrderInv, InOrder, TypeOK
  <2>5. putLog \in Seq(Nat)
    BY DEF IInv, TypeOK
  <2> QED
    BY <2>3, <2>4, <2>5
<1> QED
  BY <1>1, Invariance, PTL

(* The worker never ends with its store open. *)
THEOREM StoreClosed == Spec => []StoreNotLeaked
<1>1. IInv => StoreNotLeaked  BY DEF IInv, StoreInv, StoreNotLeaked
<1> QED
  BY <1>1, Invariance, PTL

-----------------------------------------------------------------------------
(* The numbers of the waiting items, as the queue grows and shrinks. *)
LEMMA IdsOfSeq ==
  ASSUME NEW q \in Seq(Items)
  PROVE  /\ Ids(q) \in Seq(Nat) /\ Len(Ids(q)) = Len(q)
         /\ \A i \in 1 .. Len(q) : Ids(q)[i] = q[i].id
<1>1. ASSUME NEW i \in 1 .. Len(q) PROVE q[i].id \in Nat
  <2>1. q[i] \in Items
    BY ElementOfSeq
  <2> QED
    BY <2>1 DEF Items
<1> QED
  BY <1>1 DEF Ids

LEMMA IdsOfAppend ==
  ASSUME NEW q \in Seq(Items), NEW item \in Items
  PROVE  Ids(Append(q, item)) = Append(Ids(q), item.id)
<1>1. Append(q, item) \in Seq(Items) /\ item.id \in Nat
  BY AppendProperties DEF Items
<1>2. /\ Len(Append(q, item)) = Len(q) + 1 /\ Append(q, item)[Len(q) + 1] = item
      /\ \A i \in 1 .. Len(q) : Append(q, item)[i] = q[i]
  BY AppendProperties
<1>3. /\ Append(Ids(q), item.id) \in Seq(Nat)
      /\ Len(Append(Ids(q), item.id)) = Len(q) + 1
      /\ Append(Ids(q), item.id)[Len(q) + 1] = item.id
      /\ \A i \in 1 .. Len(q) : Append(Ids(q), item.id)[i] = q[i].id
  BY <1>1, IdsOfSeq, AppendProperties
<1>4. /\ Ids(Append(q, item)) \in Seq(Nat) /\ Len(Ids(Append(q, item))) = Len(q) + 1
      /\ \A i \in 1 .. Len(q) + 1 : Ids(Append(q, item))[i] = Append(q, item)[i].id
  BY <1>1, <1>2, IdsOfSeq
<1>5. ASSUME NEW i \in 1 .. Len(q) + 1 PROVE Ids(Append(q, item))[i] = Append(Ids(q), item.id)[i]
  <2>1. CASE i \in 1 .. Len(q)  BY <1>2, <1>3, <1>4, <2>1
  <2>2. CASE i = Len(q) + 1  BY <1>2, <1>3, <1>4, <2>2
  <2>3. i \in 1 .. Len(q) \/ i = Len(q) + 1
    <3>1. Len(q) \in Nat
      BY LenProperties
    <3> QED
      BY <3>1
  <2> QED
    BY <2>1, <2>2, <2>3
<1> QED
  BY <1>3, <1>4, <1>5, SeqEqual

LEMMA IdsOfTail ==
  ASSUME NEW q \in Seq(Items), q # <<>>
  PROVE  Ids(q) # <<>> /\ Head(Ids(q)) = Head(q).id /\ Ids(Tail(q)) = Tail(Ids(q))
<1>1. /\ Tail(q) \in Seq(Items) /\ Len(Tail(q)) = Len(q) - 1 /\ Len(q) \in Nat \ {0}
      /\ \A i \in 1 .. Len(Tail(q)) : Tail(q)[i] = q[i + 1]
  BY HeadTailProperties, EmptySeq
<1>2. /\ Ids(q) \in Seq(Nat) /\ Len(Ids(q)) = Len(q)
      /\ \A i \in 1 .. Len(q) : Ids(q)[i] = q[i].id
  BY IdsOfSeq
<1>3. Ids(q) # <<>>
  BY <1>1, <1>2, EmptySeq
<1>4. Head(Ids(q)) = Head(q).id
  BY <1>1, <1>2, <1>3
<1>5. /\ Tail(Ids(q)) \in Seq(Nat) /\ Len(Tail(Ids(q))) = Len(q) - 1
      /\ \A i \in 1 .. Len(Tail(Ids(q))) : Tail(Ids(q))[i] = Ids(q)[i + 1]
  BY <1>2, <1>3, HeadTailProperties
<1>6. /\ Ids(Tail(q)) \in Seq(Nat) /\ Len(Ids(Tail(q))) = Len(q) - 1
      /\ \A i \in 1 .. Len(q) - 1 : Ids(Tail(q))[i] = Tail(q)[i].id
  BY <1>1, IdsOfSeq
<1>7. ASSUME NEW i \in 1 .. Len(q) - 1 PROVE Ids(Tail(q))[i] = Tail(Ids(q))[i]
  BY <1>1, <1>2, <1>5, <1>6
<1>8. Ids(Tail(q)) = Tail(Ids(q))
  BY <1>5, <1>6, <1>7, SeqEqual
<1> QED
  BY <1>3, <1>4, <1>8

(* The writer implements the delivery queue: every step opens, accepts,    *)
(* hands over, closes or leaves the queue as it is.                        *)
THEOREM WriterRefinesDelivery == Spec => ImplementsDelivery
<1>1. Init => Delivery!QInit
  <2>1. Ids(<<>>) = <<>>
    BY EmptySeq, IdsOfSeq DEF Ids
  <2> QED
    BY <2>1 DEF Init, Delivery!QInit, Phase
<1>2. IInv /\ [Next]_vars => [Delivery!QNext]_(Delivery!qvars)
  <2> SUFFICES ASSUME IInv, [Next]_vars PROVE [Delivery!QNext]_(Delivery!qvars)
    OBVIOUS
  <2> USE DEF Delivery!QNext, Delivery!qvars
  <2>1. /\ queue \in Seq(Items) /\ Len(Ids(queue)) = Len(queue) /\ Ids(<<>>) = <<>>
        /\ queued \in Nat /\ discarded \in Nat
    BY IdsOfSeq, EmptySeq DEF IInv, TypeOK, Ids
  <2>2. ASSUME NEW bytes \in Sizes, SubmitQueued(bytes) PROVE Delivery!Accept
    <3>1. /\ state = "running" /\ state' = state /\ Len(queue) < MaxPendingCount
          /\ queue' = Append(queue, [id |-> queued + 1, bytes |-> bytes])
          /\ queued' = queued + 1 /\ UNCHANGED <<putLog, discarded>>
      BY <2>1, <2>2, WriterAssumption DEF SubmitQueued, Refused, lifecycle
    <3>2. [id |-> queued + 1, bytes |-> bytes] \in Items
      BY <2>1, WriterAssumption DEF Items
    <3>3. Ids(queue') = Append(Ids(queue), queued + 1)
      BY <2>1, <3>1, <3>2, IdsOfAppend
    <3> QED
      BY <2>1, <3>1, <3>3 DEF Delivery!Accept, Phase
  <2>3. CASE Take
    <3>1. /\ queue # <<>> /\ queue' = Tail(queue) /\ putLog' = Append(putLog, Head(queue).id)
          /\ UNCHANGED <<state, queued, discarded>>
      BY <2>3 DEF Take, lifecycle
    <3> QED
      BY <2>1, <3>1, IdsOfTail DEF Delivery!Hand, Phase
  <2>4. CASE FactoryReturns
    <3>1. UNCHANGED <<queue, queued, putLog, discarded>> /\ state \in {"new", "stuck"}
      BY <2>4 DEF FactoryReturns, IInv, LifeInv, pending, counters
    <3>2. CASE state = "stuck"
      BY <2>4, <3>1, <3>2 DEF FactoryReturns, Phase
    <3>3. CASE state = "new" /\ ~stopRequested
      BY <2>4, <3>1, <3>3 DEF FactoryReturns, Phase, Delivery!Open
    <3>4. CASE state = "new" /\ stopRequested
      BY <2>4, <3>1, <3>4 DEF FactoryReturns, Phase, Delivery!Close
    <3> QED
      BY <3>1, <3>2, <3>3, <3>4
  <2>5. ASSUME state' \notin {"new", "running"}, UNCHANGED <<queued, putLog>>,
               UNCHANGED <<queue, discarded>> \/ DiscardPending
        PROVE  Delivery!Close
    BY <2>1, <2>5 DEF Delivery!Close, DiscardPending, Phase
  <2>6. CASE StartTimesOut \/ FactoryFails \/ PutRaises
    BY <2>5, <2>6 DEF StartTimesOut, FactoryFails, PutRaises, pending, counters
  <2>7. CASE Finalise
    <3>1. UNCHANGED <<queue, queued, putLog, discarded>>
      BY <2>7 DEF Finalise, counters
    <3>2. state' \in {"stuck", "failed", "stopped"}
      BY <2>7 DEF Finalise
    <3> QED
      BY <2>5, <3>1, <3>2
  <2>8. ASSUME NEW s \in Stoppers, NEW drain \in BOOLEAN, StopFirst(s, drain)
        PROVE  Delivery!Close
    <3>1. CASE drain
      BY <2>5, <2>8, <3>1 DEF StopFirst
    <3>2. CASE ~drain
      BY <2>5, <2>8, <3>2 DEF StopFirst
    <3> QED
      BY <3>1, <3>2
  <2>9. ASSUME NEW s \in Stoppers, StopAtOnce(s) \/ StopTimesOut(s) PROVE Delivery!Close
    BY <2>5, <2>9 DEF StopAtOnce, StopAnswers, StopTimesOut, pending, counters
  <2>10. ASSUME UNCHANGED <<state, queue, queued, putLog, discarded>>
         PROVE  UNCHANGED Delivery!qvars
    BY <2>10 DEF Phase
  <2>11. CASE \/ Start \/ StartReports \/ PutReturns \/ CloseStore \/ LoopEnds \/ ThreadEnds
              \/ UNCHANGED vars
    BY <2>10, <2>11 DEF Start, StartReports, PutReturns, CloseStore, LoopEnds, ThreadEnds,
      vars, lifecycle, pending, counters
  <2>12. ASSUME NEW bytes \in Sizes, SubmitRefused(bytes) PROVE UNCHANGED Delivery!qvars
    BY <2>10, <2>12 DEF SubmitRefused, lifecycle, pending
  <2>13. ASSUME NEW s \in Stoppers, StopBusy(s) \/ StopJoins(s)
         PROVE  UNCHANGED Delivery!qvars
    BY <2>10, <2>13 DEF StopBusy, StopJoins, StopAnswers, lifecycle, pending, counters
  <2>14. ASSUME NEW s \in Stoppers, NEW drain \in BOOLEAN, StopOther(s, drain)
         PROVE  UNCHANGED Delivery!qvars
    BY <2>10, <2>14 DEF StopOther, pending, counters
  <2> QED
    BY <2>2, <2>3, <2>4, <2>6, <2>7, <2>8, <2>9, <2>11, <2>12, <2>13, <2>14
       DEF Next, WorkerStep, StoreCall, StopCall
<1> QED
  BY <1>1, <1>2, Invariance, PTL DEF Spec, ImplementsDelivery, Delivery!QSpec

-----------------------------------------------------------------------------
(* The bytes that wait.                                                    *)

(* The bytes of the items at some places of a queue, one element for each:  *)
(* what the sum over a queue counts, as a set.                              *)
BytesAt(q, i) == {i} \X (1 .. q[i].bytes)
BytesIn(q, D) == UNION {BytesAt(q, i) : i \in D}

(* Finitely many places have finitely many bytes, and each as many as its   *)
(* item says.                                                               *)
LEMMA BytesCounted ==
  ASSUME NEW q \in Seq(Items), NEW D \in SUBSET DOMAIN q
  PROVE  /\ IsFiniteSet(D) /\ IsFiniteSet(BytesIn(q, D)) /\ Cardinality(BytesIn(q, D)) \in Nat
         /\ \A i \in D : q[i].bytes \in Nat /\ Cardinality(BytesAt(q, i)) = q[i].bytes
<1> DEFINE Families == {BytesAt(q, i) : i \in D}
           f == [i \in D |-> BytesAt(q, i)]
<1>1. IsFiniteSet(D)
  <2>1. DOMAIN q = 1 .. Len(q) /\ Len(q) \in Nat
    BY LenProperties
  <2>2. IsFiniteSet(DOMAIN q)
    BY <2>1, FS_Interval
  <2> QED
    BY <2>2, FS_Subset
<1>2. ASSUME NEW i \in D
      PROVE  /\ q[i].bytes \in Nat /\ IsFiniteSet(BytesAt(q, i))
             /\ Cardinality(BytesAt(q, i)) = q[i].bytes
  <2> DEFINE b == q[i].bytes
  <2>1. q[i] \in Items
    BY ElementOfSeq
  <2>2. b \in Nat
    BY <2>1 DEF Items
  <2>3. BytesAt(q, i) = {i} \X (1 .. b)
    BY DEF BytesAt
  <2> HIDE DEF b
  <2>4. IsFiniteSet({i}) /\ Cardinality({i}) = 1
    BY FS_Singleton
  <2>5. IsFiniteSet(1 .. b) /\ Cardinality(1 .. b) = b
    BY <2>2, FS_Interval
  <2>6. /\ IsFiniteSet({i} \X (1 .. b))
        /\ Cardinality({i} \X (1 .. b)) = Cardinality({i}) * Cardinality(1 .. b)
    BY <2>4, <2>5, FS_Product
  <2>7. IsFiniteSet(BytesAt(q, i)) /\ Cardinality(BytesAt(q, i)) = b
    BY <2>2, <2>3, <2>4, <2>5, <2>6
  <2> QED
    BY <2>2, <2>7 DEF b
<1>3. f \in Surjection(D, Families)
  BY DEF Surjection
<1>4. IsFiniteSet(Families)
  BY <1>1, <1>3, FS_Surjection
<1>5. \A U \in Families : IsFiniteSet(U)
  BY <1>2
<1>6. IsFiniteSet(UNION Families)
  <2> HIDE DEF Families
  <2> QED
    BY <1>4, <1>5, FS_UNION
<1> QED
  BY <1>1, <1>2, <1>6, FS_CardinalityType DEF BytesIn

(* One place, and the others. *)
LEMMA BytesOfOne ==
  ASSUME NEW q \in Seq(Items), NEW D \in SUBSET DOMAIN q, NEW i \in D
  PROVE  Cardinality(BytesIn(q, D)) = q[i].bytes + Cardinality(BytesIn(q, D \ {i}))
<1> DEFINE One == BytesIn(q, {i})
           Others == BytesIn(q, D \ {i})
<1>1. One = BytesAt(q, i)
  BY DEF BytesIn
<1>2. /\ IsFiniteSet(One) /\ Cardinality(One) = q[i].bytes /\ q[i].bytes \in Nat
      /\ IsFiniteSet(Others) /\ Cardinality(Others) \in Nat
  <2>1. {i} \in SUBSET DOMAIN q /\ D \ {i} \in SUBSET DOMAIN q
    OBVIOUS
  <2> QED
    BY <1>1, <2>1, BytesCounted
<1>3. BytesIn(q, D) = One \cup Others
  BY DEF BytesIn
<1>4. One \cap Others = {}
  BY DEF BytesIn, BytesAt
<1>5. Cardinality(One \cap Others) = 0
  BY <1>4, FS_EmptySet
<1>6. Cardinality(One \cup Others) = Cardinality(One) + Cardinality(Others) - Cardinality(One \cap Others)
  BY <1>2, FS_Union
<1> HIDE DEF One, Others
<1>7. Cardinality(One \cup Others) = q[i].bytes + Cardinality(Others)
  BY <1>2, <1>5, <1>6
<1> QED
  BY <1>3, <1>7 DEF Others

(* The sum counts the bytes: a smallest set of places where it did not      *)
(* would contradict the recursion that defines the fold.                    *)
LEMMA SumIsBytes ==
  ASSUME NEW q \in Seq(Items)
  PROVE  SumBytes(q) = Cardinality(BytesIn(q, DOMAIN q))
<1> DEFINE R == DOMAIN q
           Pick(T) == CHOOSE i \in T : TRUE
           Adds(g) == g = [T \in SUBSET R |->
                             IF T = {} THEN 0 ELSE q[Pick(T)].bytes + g[T \ {Pick(T)}]]
           count == [T \in SUBSET R |-> Cardinality(BytesIn(q, T))]
           sum == CHOOSE g : Adds(g)
<1>1. SumBytes(q) = sum[R]
  BY DEF SumBytes, MapThenSumSet, MapThenFoldSet
<1>2. R \in SUBSET R /\ IsFiniteSet(R)
  BY BytesCounted
<1>3. Cardinality(BytesIn(q, {})) = 0
  BY FS_EmptySet DEF BytesIn
<1> HIDE DEF R
<1>4. ASSUME NEW T \in SUBSET R, T # {}
      PROVE  /\ Pick(T) \in T /\ T \ {Pick(T)} \in SUBSET R
             /\ Cardinality(BytesIn(q, T)) = q[Pick(T)].bytes + Cardinality(BytesIn(q, T \ {Pick(T)}))
  <2>1. Pick(T) \in T
    BY <1>4
  <2> HIDE DEF Pick
  <2> QED
    BY <2>1, BytesOfOne DEF R
<1>5. Adds(count)
  <2> HIDE DEF Pick
  <2>1. ASSUME NEW T \in SUBSET R
        PROVE  count[T] = IF T = {} THEN 0 ELSE q[Pick(T)].bytes + count[T \ {Pick(T)}]
    BY <1>3, <1>4
  <2> HIDE DEF count
  <2>2. count = [T \in SUBSET R |-> count[T]]
    BY DEF count
  <2> QED
    BY <2>1, <2>2
<1>6. Adds(sum)
  <2> HIDE DEF Adds, count
  <2> QED
    BY <1>5
<1>7. ASSUME NEW T \in SUBSET R
      PROVE  sum[T] = IF T = {} THEN 0 ELSE q[Pick(T)].bytes + sum[T \ {Pick(T)}]
  <2> HIDE DEF sum, Pick
  <2> QED
    BY <1>6
<1> DEFINE Wrong == {T \in SUBSET R : sum[T] # Cardinality(BytesIn(q, T))}
<1>8. Wrong = {}
  <2> HIDE DEF Pick, sum
  <2>1. SUFFICES ASSUME Wrong # {} PROVE FALSE
    OBVIOUS
  <2>2. Wrong \subseteq FiniteSubsetsOf(R)
    BY <1>2, FS_FiniteSubsetsOfFinite
  <2>3. PICK T \in Wrong : \A U \in Wrong : <<U, T>> \notin StrictSubsetOrdering(R)
    <3> HIDE DEF Wrong
    <3> QED
      BY <2>1, <2>2, FS_StrictSubsetOrderingWellFounded, WFMin
  <2>4. T \in SUBSET R /\ sum[T] # Cardinality(BytesIn(q, T))
    OBVIOUS
  <2>5. T # {}
    BY <1>3, <1>7, <2>4
  <2>6. Pick(T) \in T /\ T \ {Pick(T)} \in SUBSET R
    BY <1>4, <2>4, <2>5
  <2>7. <<T \ {Pick(T)}, T>> \in StrictSubsetOrdering(R)
    BY <2>4, <2>6 DEF StrictSubsetOrdering
  <2>8. sum[T \ {Pick(T)}] = Cardinality(BytesIn(q, T \ {Pick(T)}))
    BY <2>3, <2>6, <2>7
  <2>9. sum[T] = q[Pick(T)].bytes + Cardinality(BytesIn(q, T \ {Pick(T)}))
    BY <1>7, <2>4, <2>5, <2>8
  <2> QED
    BY <1>4, <2>4, <2>5, <2>9
<1>9. sum[R] = Cardinality(BytesIn(q, R))
  <2> HIDE DEF sum
  <2> QED
    BY <1>2, <1>8
<1> QED
  BY <1>1, <1>9 DEF R

LEMMA SumOfNone == SumBytes(<<>>) = 0
<1>1. <<>> \in Seq(Items) /\ DOMAIN <<>> = {}
  BY EmptySeq
<1>2. BytesIn(<<>>, {}) = {}
  BY DEF BytesIn
<1> QED
  BY <1>1, <1>2, SumIsBytes, FS_EmptySet

(* One item more at the end. *)
LEMMA SumOfAppend ==
  ASSUME NEW q \in Seq(Items), NEW item \in Items
  PROVE  SumBytes(Append(q, item)) = SumBytes(q) + item.bytes
<1> DEFINE p == Append(q, item)
           n == Len(q) + 1
<1>1. /\ p \in Seq(Items) /\ DOMAIN p = 1 .. n /\ p[n] = item
      /\ DOMAIN q = 1 .. Len(q) /\ Len(q) \in Nat /\ \A i \in DOMAIN q : p[i] = q[i]
  BY AppendProperties, LenProperties
<1> HIDE DEF p
<1>2. n \in DOMAIN p /\ DOMAIN p \ {n} = DOMAIN q
  BY <1>1
<1>3. Cardinality(BytesIn(p, DOMAIN p)) = item.bytes + Cardinality(BytesIn(p, DOMAIN q))
  BY <1>1, <1>2, BytesOfOne
<1>4. BytesIn(p, DOMAIN q) = BytesIn(q, DOMAIN q)
  <2>1. \A i \in DOMAIN q : BytesAt(p, i) = BytesAt(q, i)
    BY <1>1 DEF BytesAt
  <2> QED
    BY <2>1 DEF BytesIn
<1>5. Cardinality(BytesIn(q, DOMAIN q)) \in Nat /\ item.bytes \in Nat
  BY BytesCounted DEF Items
<1>6. SumBytes(p) = Cardinality(BytesIn(p, DOMAIN p)) /\ SumBytes(q) = Cardinality(BytesIn(q, DOMAIN q))
  BY <1>1, SumIsBytes
<1>7. SumBytes(p) = SumBytes(q) + item.bytes
  BY <1>3, <1>4, <1>5, <1>6
<1> QED
  BY <1>7 DEF p

(* The first item less. *)
LEMMA SumOfTail ==
  ASSUME NEW q \in Seq(Items), q # <<>>
  PROVE  SumBytes(Tail(q)) = SumBytes(q) - Head(q).bytes
<1> DEFINE p == Tail(q)
           Ahead == BytesIn(p, DOMAIN p)
           Behind == BytesIn(q, DOMAIN q \ {1})
           f == [u \in Ahead |-> <<u[1] + 1, u[2]>>]
<1>1. /\ p \in Seq(Items) /\ DOMAIN p = 1 .. Len(q) - 1 /\ DOMAIN q = 1 .. Len(q)
      /\ Len(q) \in Nat \ {0} /\ Head(q) = q[1] /\ \A i \in DOMAIN p : p[i] = q[i + 1]
  BY HeadTailProperties, EmptySeq, LenProperties
<1> HIDE DEF p
<1>2. 1 \in DOMAIN q
  BY <1>1
<1>3. Cardinality(BytesIn(q, DOMAIN q)) = Head(q).bytes + Cardinality(Behind)
  <2>1. Cardinality(BytesIn(q, DOMAIN q)) = q[1].bytes + Cardinality(Behind)
    BY <1>2, BytesOfOne
  <2> QED
    BY <1>1, <2>1
<1>4. /\ \A u : u \in Ahead <=> \E i \in 1 .. Len(q) - 1 : \E k \in 1 .. q[i + 1].bytes : u = <<i, k>>
      /\ \A u : u \in Behind <=> \E i \in 2 .. Len(q) : \E k \in 1 .. q[i].bytes : u = <<i, k>>
  <2>1. DOMAIN q \ {1} = 2 .. Len(q)
    BY <1>1
  <2>2. ASSUME NEW i, NEW S, NEW u
        PROVE  u \in {i} \X S <=> \E k \in S : u = <<i, k>>
    OBVIOUS
  <2>3. ASSUME NEW u
        PROVE  u \in Ahead <=> \E i \in 1 .. Len(q) - 1 : \E k \in 1 .. q[i + 1].bytes : u = <<i, k>>
    <3>1. u \in Ahead <=> \E i \in DOMAIN p : u \in {i} \X (1 .. p[i].bytes)
      BY DEF BytesIn, BytesAt
    <3>2. u \in Ahead <=> \E i \in DOMAIN p : \E k \in 1 .. p[i].bytes : u = <<i, k>>
      BY <2>2, <3>1
    <3> HIDE DEF Ahead
    <3>3. ASSUME NEW i \in DOMAIN p PROVE 1 .. p[i].bytes = 1 .. q[i + 1].bytes
      BY <1>1
    <3> QED
      BY <1>1, <3>2, <3>3
  <2>4. ASSUME NEW u
        PROVE  u \in Behind <=> \E i \in 2 .. Len(q) : \E k \in 1 .. q[i].bytes : u = <<i, k>>
    <3>1. u \in Behind <=> \E i \in 2 .. Len(q) : u \in {i} \X (1 .. q[i].bytes)
      BY <2>1 DEF BytesIn, BytesAt
    <3> HIDE DEF Behind
    <3> QED
      BY <2>2, <3>1
  <2> HIDE DEF Ahead, Behind
  <2> QED
    BY <2>3, <2>4
<1>5. f \in Bijection(Ahead, Behind)
  <2>1. ASSUME NEW u \in Ahead PROVE f[u] \in Behind
    <3>1. PICK i \in 1 .. Len(q) - 1 : \E k \in 1 .. q[i + 1].bytes : u = <<i, k>>
      BY <1>4
    <3>2. PICK k \in 1 .. q[i + 1].bytes : u = <<i, k>>
      BY <3>1
    <3>3. f[u] = <<i + 1, k>> /\ i + 1 \in 2 .. Len(q)
      BY <1>1, <3>2
    <3> QED
      BY <1>4, <3>3
  <2>2. ASSUME NEW u \in Ahead, NEW v \in Ahead, f[u] = f[v] PROVE u = v
    <3>1. \A w \in Ahead : \E i \in 1 .. Len(q) - 1 : \E k \in Nat : w = <<i, k>>
      BY <1>4
    <3>2. PICK i \in 1 .. Len(q) - 1, k \in Nat : u = <<i, k>>
      BY <3>1
    <3>3. PICK j \in 1 .. Len(q) - 1, m \in Nat : v = <<j, m>>
      BY <3>1
    <3>4. f[u] = <<i + 1, k>> /\ f[v] = <<j + 1, m>>
      BY <3>2, <3>3
    <3>5. i + 1 = j + 1 /\ k = m
      BY <2>2, <3>4
    <3> QED
      BY <1>1, <3>2, <3>3, <3>5
  <2>3. ASSUME NEW v \in Behind PROVE \E u \in Ahead : f[u] = v
    <3>1. PICK i \in 2 .. Len(q) : \E k \in 1 .. q[i].bytes : v = <<i, k>>
      BY <1>4
    <3>2. PICK k \in 1 .. q[i].bytes : v = <<i, k>>
      BY <3>1
    <3>3. i - 1 \in 1 .. Len(q) - 1 /\ (i - 1) + 1 = i
      BY <1>1
    <3>4. <<i - 1, k>> \in Ahead
      BY <1>4, <3>2, <3>3
    <3>5. f[<<i - 1, k>>] = v
      BY <3>2, <3>3, <3>4
    <3> QED
      BY <3>4, <3>5
  <2> HIDE DEF f, Ahead, Behind
  <2>4. f \in [Ahead -> Behind]
    BY <2>1 DEF f
  <2>5. f \in Injection(Ahead, Behind)
    BY <2>2, <2>4 DEF Injection, IsInjective
  <2>6. f \in Surjection(Ahead, Behind)
    BY <2>3, <2>4 DEF Surjection
  <2> QED
    BY <2>5, <2>6 DEF Bijection
<1>6. Cardinality(Ahead) = Cardinality(Behind) /\ Cardinality(Behind) \in Nat
  <2> HIDE DEF f
  <2>1. IsFiniteSet(Ahead) /\ Cardinality(Ahead) \in Nat
    BY <1>1, BytesCounted
  <2> HIDE DEF Ahead, Behind
  <2>2. Cardinality(Behind) = Cardinality(Ahead)
    BY <1>5, <2>1, FS_Bijection DEF ExistsBijection
  <2> QED
    BY <2>1, <2>2
<1>7. Head(q).bytes \in Nat
  <2>1. Head(q) \in Items
    BY <1>1, <1>2, ElementOfSeq
  <2> QED
    BY <2>1 DEF Items
<1> HIDE DEF Ahead, Behind
<1>8. SumBytes(p) = Cardinality(Ahead) /\ SumBytes(q) = Head(q).bytes + Cardinality(Behind)
  BY <1>1, <1>3, SumIsBytes DEF Ahead
<1> QED
  BY <1>6, <1>7, <1>8 DEF p

(* What every step leaves of the limits. *)
LEMMA LimitsStep == TypeOK /\ QueueWithinLimits /\ [Next]_vars => QueueWithinLimits'
<1> SUFFICES ASSUME TypeOK, QueueWithinLimits, [Next]_vars PROVE QueueWithinLimits'
  OBVIOUS
<1>1. /\ queue \in Seq(Items) /\ queued \in Nat /\ Len(queue) \in Nat
      /\ MaxPendingCount \in Nat /\ MaxPendingBytes \in Nat
  BY WriterAssumption, LenProperties DEF TypeOK
<1>2. ASSUME NEW bytes \in Sizes, SubmitQueued(bytes) PROVE QueueWithinLimits'
  <2> DEFINE item == [id |-> queued + 1, bytes |-> bytes]
  <2>1. bytes \in Nat
    BY WriterAssumption
  <2>2. item \in Items /\ item.bytes = bytes
    BY <1>1, <2>1 DEF Items
  <2>3. queue' = Append(queue, item) /\ pendingBytes' = pendingBytes + bytes
    BY <1>2 DEF SubmitQueued
  <2>4. Len(queue) < MaxPendingCount /\ pendingBytes + bytes <= MaxPendingBytes
    BY <1>1, <1>2, <2>1 DEF SubmitQueued, Refused, TypeOK
  <2> HIDE DEF item
  <2>5. Len(queue') = Len(queue) + 1 /\ SumBytes(queue') = SumBytes(queue) + bytes
    BY <1>1, <2>2, <2>3, AppendProperties, SumOfAppend
  <2> QED
    BY <1>1, <2>1, <2>3, <2>4, <2>5 DEF QueueWithinLimits, TypeOK
<1>3. CASE Take
  <2>1. /\ queue # <<>> /\ queue' = Tail(queue)
        /\ pendingBytes' = pendingBytes - Head(queue).bytes
    BY <1>3 DEF Take
  <2>2. /\ Len(queue') = Len(queue) - 1 /\ Head(queue) \in Items
        /\ SumBytes(queue') = SumBytes(queue) - Head(queue).bytes
    BY <1>1, <2>1, HeadTailProperties, SumOfTail
  <2>3. Head(queue).bytes \in Nat
    BY <2>2 DEF Items
  <2> QED
    BY <1>1, <2>1, <2>2, <2>3 DEF QueueWithinLimits, TypeOK
<1>4. ASSUME UNCHANGED <<queue, pendingBytes>> PROVE QueueWithinLimits'
  BY <1>4 DEF QueueWithinLimits
<1>5. ASSUME DiscardPending PROVE QueueWithinLimits'
  BY <1>1, <1>5, SumOfNone, EmptySeq DEF DiscardPending, QueueWithinLimits
<1>6. CASE FactoryFails \/ PutRaises
  BY <1>5, <1>6 DEF FactoryFails, PutRaises
<1>7. CASE \/ Start \/ StartReports \/ StartTimesOut \/ FactoryReturns \/ PutReturns \/ CloseStore
           \/ LoopEnds \/ Finalise \/ ThreadEnds \/ UNCHANGED vars
  BY <1>4, <1>7 DEF Start, StartReports, StartTimesOut, FactoryReturns, PutReturns, CloseStore,
    LoopEnds, Finalise, ThreadEnds, vars, pending
<1>8. ASSUME NEW bytes \in Sizes, SubmitRefused(bytes) PROVE QueueWithinLimits'
  BY <1>4, <1>8 DEF SubmitRefused, pending
<1>9. ASSUME NEW s \in Stoppers, NEW drain \in BOOLEAN, StopFirst(s, drain)
      PROVE  QueueWithinLimits'
  BY <1>4, <1>5, <1>9 DEF StopFirst
<1>10. ASSUME NEW s \in Stoppers, NEW drain \in BOOLEAN, StopOther(s, drain)
       PROVE  QueueWithinLimits'
  BY <1>4, <1>10 DEF StopOther, pending
<1>11. ASSUME NEW s \in Stoppers, StopBusy(s) \/ StopJoins(s) \/ StopAtOnce(s) \/ StopTimesOut(s)
       PROVE  QueueWithinLimits'
  BY <1>4, <1>11 DEF StopBusy, StopJoins, StopAtOnce, StopTimesOut, StopAnswers, pending
<1> QED
  BY <1>2, <1>3, <1>6, <1>7, <1>8, <1>9, <1>10, <1>11 DEF Next, WorkerStep, StoreCall, StopCall

(* The queue keeps within both limits, and _pending_bytes is the sum of     *)
(* the items that wait, for any limits and sizes, whoever submits, takes,   *)
(* fails or discards.                                                       *)
THEOREM QueueBounded == Spec => []QueueWithinLimits
<1>1. Init => QueueWithinLimits
  BY SumOfNone, EmptySeq, WriterAssumption DEF Init, QueueWithinLimits
<1>2. IInv /\ QueueWithinLimits /\ [Next]_vars => QueueWithinLimits'
  BY LimitsStep DEF IInv
<1> QED
  BY <1>1, <1>2, Invariance, PTL DEF Spec

-----------------------------------------------------------------------------
(* What follows from the promise of the delivery queue alone.              *)

(* The backlog b continues what was handed over, h, among the numbers 1 to n. *)
Continues(b, h, n) ==
  /\ \A i, j \in 1 .. Len(h) : i < j => h[i] < h[j]
  /\ \A i, j \in 1 .. Len(b) : i < j => b[i] < b[j]
  /\ \A i \in 1 .. Len(h), j \in 1 .. Len(b) : h[i] < b[j]
  /\ \A i \in 1 .. Len(h) : h[i] \in 1 .. n
  /\ \A j \in 1 .. Len(b) : b[j] \in 1 .. n

LEMMA HandContinues ==
  ASSUME NEW b \in Seq(Nat), b # <<>>, NEW h \in Seq(Nat), NEW n \in Nat, Continues(b, h, n)
  PROVE  Continues(Tail(b), Append(h, Head(b)), n)
<1> DEFINE t == Tail(b)
           g == Append(h, Head(b))
<1>1. /\ Len(b) \in Nat \ {0} /\ Len(t) = Len(b) - 1 /\ Head(b) = b[1] /\ Head(b) \in Nat
      /\ \A i \in 1 .. Len(t) : t[i] = b[i + 1]
  BY HeadTailProperties, EmptySeq, LenProperties
<1>2. /\ Len(h) \in Nat /\ Len(g) = Len(h) + 1 /\ g[Len(h) + 1] = b[1]
      /\ \A i \in 1 .. Len(h) : g[i] = h[i]
  BY <1>1, AppendProperties, LenProperties
<1> HIDE DEF t, g
<1>3. \A i \in 1 .. Len(g) : i \in 1 .. Len(h) \/ i = Len(h) + 1
  BY <1>2
<1>4. /\ \A i \in 1 .. Len(t) : i + 1 \in 1 .. Len(b) /\ 1 < i + 1
      /\ 1 \in 1 .. Len(b)
  BY <1>1
<1>5. ASSUME NEW i \in 1 .. Len(g), NEW j \in 1 .. Len(g), i < j PROVE g[i] < g[j]
  <2>1. i \in 1 .. Len(h) /\ g[i] = h[i]
    BY <1>2, <1>3, <1>5
  <2>2. CASE j \in 1 .. Len(h)
    BY <1>2, <1>5, <2>1, <2>2 DEF Continues
  <2>3. CASE j = Len(h) + 1
    BY <1>2, <1>4, <2>1, <2>3 DEF Continues
  <2> QED
    BY <1>3, <2>2, <2>3
<1>6. ASSUME NEW i \in 1 .. Len(t), NEW j \in 1 .. Len(t), i < j PROVE t[i] < t[j]
  <2>1. i + 1 \in 1 .. Len(b) /\ j + 1 \in 1 .. Len(b) /\ i + 1 < j + 1
    BY <1>4, <1>6
  <2>2. b[i + 1] < b[j + 1]
    BY <2>1 DEF Continues
  <2> QED
    BY <1>1, <2>2
<1>7. \A i \in 1 .. Len(g), j \in 1 .. Len(t) : g[i] < t[j]
  BY <1>1, <1>2, <1>3, <1>4 DEF Continues
<1>8. \A i \in 1 .. Len(g) : g[i] \in 1 .. n
  BY <1>2, <1>3, <1>4 DEF Continues
<1>9. \A j \in 1 .. Len(t) : t[j] \in 1 .. n
  BY <1>1, <1>4 DEF Continues
<1>10. Continues(t, g, n)
  BY <1>5, <1>6, <1>7, <1>8, <1>9 DEF Continues
<1> QED
  BY <1>10 DEF t, g

LEMMA AcceptContinues ==
  ASSUME NEW b \in Seq(Nat), NEW h \in Seq(Nat), NEW n \in Nat, Continues(b, h, n)
  PROVE  Continues(Append(b, n + 1), h, n + 1)
<1> DEFINE g == Append(b, n + 1)
<1>1. /\ Len(b) \in Nat /\ Len(g) = Len(b) + 1 /\ g[Len(b) + 1] = n + 1
      /\ \A i \in 1 .. Len(b) : g[i] = b[i]
  BY AppendProperties, LenProperties
<1> HIDE DEF g
<1>2. \A i \in 1 .. Len(g) : i \in 1 .. Len(b) \/ i = Len(b) + 1
  BY <1>1
<1>3. ASSUME NEW i \in 1 .. Len(g), NEW j \in 1 .. Len(g), i < j PROVE g[i] < g[j]
  <2>1. i \in 1 .. Len(b) /\ g[i] = b[i] /\ b[i] \in 1 .. n
    BY <1>1, <1>2, <1>3 DEF Continues
  <2>2. CASE j \in 1 .. Len(b)
    BY <1>1, <1>3, <2>1, <2>2 DEF Continues
  <2>3. CASE j = Len(b) + 1
    BY <1>1, <2>1, <2>3
  <2> QED
    BY <1>2, <2>2, <2>3
<1>4. ASSUME NEW i \in 1 .. Len(h), NEW j \in 1 .. Len(g) PROVE h[i] < g[j]
  <2>1. h[i] \in 1 .. n
    BY DEF Continues
  <2>2. CASE j \in 1 .. Len(b)
    BY <1>1, <2>2 DEF Continues
  <2>3. CASE j = Len(b) + 1
    BY <1>1, <2>1, <2>3
  <2> QED
    BY <1>2, <2>2, <2>3
<1>5. \A j \in 1 .. Len(g) : g[j] \in 1 .. n + 1
  BY <1>1, <1>2 DEF Continues
<1>6. \A i \in 1 .. Len(h) : h[i] \in 1 .. n + 1
  BY DEF Continues
<1>7. Continues(g, h, n + 1)
  BY <1>3, <1>4, <1>5, <1>6 DEF Continues
<1> QED
  BY <1>7 DEF g

QueueInv ==
  /\ Ids(queue) \in Seq(Nat) /\ putLog \in Seq(Nat) /\ queued \in Nat
  /\ Continues(Ids(queue), putLog, queued)

(* The queue's promise is enough for the order. *)
LEMMA QueueInvariant == Delivery!QSpec => []QueueInv
<1>1. Delivery!QInit => QueueInv
  <2> SUFFICES ASSUME Delivery!QInit PROVE QueueInv
    OBVIOUS
  <2>1. Ids(queue) = <<>> /\ putLog = <<>> /\ queued = 0
    BY DEF Delivery!QInit
  <2>2. <<>> \in Seq(Nat) /\ 1 .. Len(<<>>) = {}
    BY EmptySeq
  <2> QED
    BY <2>1, <2>2 DEF QueueInv, Continues
<1>2. QueueInv /\ [Delivery!QNext]_(Delivery!qvars) => QueueInv'
  <2> SUFFICES ASSUME QueueInv, [Delivery!QNext]_(Delivery!qvars) PROVE QueueInv'
    OBVIOUS
  <2>1. /\ Ids(queue) \in Seq(Nat) /\ putLog \in Seq(Nat) /\ queued \in Nat
        /\ Continues(Ids(queue), putLog, queued)
    BY DEF QueueInv
  <2>2. CASE Delivery!Accept
    <3>1. /\ Ids(queue)' = Append(Ids(queue), queued + 1) /\ queued' = queued + 1
          /\ putLog' = putLog
      BY <2>2 DEF Delivery!Accept
    <3>2. Append(Ids(queue), queued + 1) \in Seq(Nat) /\ queued + 1 \in Nat
      BY <2>1, AppendProperties
    <3> QED
      BY <2>1, <3>1, <3>2, AcceptContinues DEF QueueInv
  <2>3. CASE Delivery!Hand
    <3>1. /\ Ids(queue) # <<>> /\ Ids(queue)' = Tail(Ids(queue)) /\ queued' = queued
          /\ putLog' = Append(putLog, Head(Ids(queue)))
      BY <2>3 DEF Delivery!Hand
    <3>2. Tail(Ids(queue)) \in Seq(Nat) /\ Append(putLog, Head(Ids(queue))) \in Seq(Nat)
      BY <2>1, <3>1, HeadTailProperties, AppendProperties
    <3> QED
      BY <2>1, <3>1, <3>2, HandContinues DEF QueueInv
  <2>4. CASE Delivery!Close
    <3>1. /\ Ids(queue)' = Ids(queue) \/ Ids(queue)' = <<>>
          /\ queued' = queued /\ putLog' = putLog
      BY <2>4 DEF Delivery!Close
    <3>2. <<>> \in Seq(Nat) /\ 1 .. Len(<<>>) = {}
      BY EmptySeq
    <3>3. Continues(<<>>, putLog, queued)
      BY <2>1, <3>2 DEF Continues
    <3> QED
      BY <2>1, <3>1, <3>2, <3>3 DEF QueueInv
  <2>5. CASE Delivery!Open \/ UNCHANGED Delivery!qvars
    <3>1. Ids(queue)' = Ids(queue) /\ queued' = queued /\ putLog' = putLog
      BY <2>5 DEF Delivery!Open, Delivery!qvars
    <3> QED
      BY <2>1, <3>1 DEF QueueInv
  <2> QED
    BY <2>2, <2>3, <2>4, <2>5 DEF Delivery!QNext
<1> QED
  BY <1>1, <1>2, PTL DEF Delivery!QSpec

(* The store's put() gets the observations in the order in which submit()   *)
(* queued them, none twice, whatever a failure or a stop discards: this     *)
(* follows from the refinement, whatever the writer's own details are.      *)
THEOREM PutInOrder == Spec => []Delivery!HandedInOrder
<1>1. QueueInv => Delivery!HandedInOrder
  <2> SUFFICES ASSUME QueueInv PROVE Delivery!HandedInOrder
    OBVIOUS
  <2>1. DOMAIN putLog = 1 .. Len(putLog)
    BY LenProperties DEF QueueInv
  <2> QED
    BY <2>1 DEF QueueInv, Continues, Delivery!HandedInOrder
<1> QED
  BY <1>1, WriterRefinesDelivery, QueueInvariant, PTL DEF ImplementsDelivery
==============================================================================
