------------------------ MODULE CameraSnapshotProofs ------------------------
(***************************************************************************)
(* Theorems about CameraSnapshot, for any number of callers and captures,  *)
(* any warmup and any number of attempts.                                  *)
(***************************************************************************)
EXTENDS CameraSnapshot, TLAPS

(* What is held where, and what a latched close leaves behind. *)
DeviceInv ==
  /\ lock = Nobody <=> pc = "idle"
  /\ lease => leaseHeld
  /\ pc \in {"open", "read", "close"} => handles = lost + 1 /\ ~closeStuck /\ lease
  /\ pc \notin {"open", "read", "close"} => handles = lost + (IF closeStuck THEN 1 ELSE 0)
  /\ closeStuck => lease
  /\ pc = "factory" => lease /\ ~closeStuck
  /\ pc \in {"admit", "acquire"} => ~leaseHeld

(* A success is on its way only with the lease held and the close done. *)
ResultInv ==
  /\ pc \in {"check", "admit", "acquire", "factory", "open", "read"} => result = "none"
  /\ pc = "release" /\ result = "ok" => leaseHeld /\ ~closeStuck
  /\ pc = "unlock" /\ result = "ok" => ~leaseHeld /\ ~closeStuck

IntervalInv ==
  /\ opens <= 1 /\ (~recentOpen => opens = 0)
  /\ pc \in {"admit", "acquire"} => ~recentOpen

ReadInv ==
  /\ reads <= WarmupFrames + MaxAttempts
  /\ pc \in {"check", "admit", "acquire", "factory", "open"} => reads = 0 /\ attempt = 0
  /\ pc = "read" => reads <= WarmupFrames + attempt /\ attempt < MaxAttempts

IInv == TypeOK /\ DeviceInv /\ ResultInv /\ IntervalInv /\ ReadInv

-----------------------------------------------------------------------------
(* Every step keeps the types. *)
LEMMA TypeStep == TypeOK /\ DeviceInv /\ [Next]_vars => TypeOK'
<1> SUFFICES ASSUME TypeOK /\ DeviceInv, [Next]_vars PROVE TypeOK'
  OBVIOUS
<1> USE SnapshotAssumption DEF TypeOK, DeviceInv, vars, call, device,
    timing, Goto, Conclude, Answers
<1>1. CASE Check  BY <1>1 DEF Check
<1>2. CASE Admit  BY <1>2 DEF Admit
<1>3. CASE AcquireLease
  <2>1. lease' \in BOOLEAN /\ leaseHeld' \in BOOLEAN /\ recentOpen' \in BOOLEAN
    BY <1>3 DEF AcquireLease
  <2>2. opens' \in Nat
    BY <1>3 DEF AcquireLease
  <2> QED
    BY <1>3, <2>1, <2>2 DEF AcquireLease
<1>4. CASE CreateBackend  BY <1>4 DEF CreateBackend
<1>5. CASE OpenBackend  BY <1>5 DEF OpenBackend
<1>6. CASE ReadFails  BY <1>6 DEF ReadFails
<1>7. CASE ReadWarmupFrame  BY <1>7 DEF ReadWarmupFrame
<1>8. CASE ReadRecoverable  BY <1>8 DEF ReadRecoverable
<1>9. CASE ReadFrame  BY <1>9 DEF ReadFrame
<1>10. CASE CloseReturns
  <2>1. handles' \in Nat
    BY <1>10 DEF CloseReturns, DeviceInv
  <2> QED
    BY <1>10, <2>1 DEF CloseReturns
<1>11. CASE CloseFails  BY <1>11 DEF CloseFails
<1>12. CASE CloseFailureInterrupted  BY <1>12 DEF CloseFailureInterrupted
<1>13. CASE ReleaseLease  BY <1>13 DEF ReleaseLease
<1>14. CASE ReleaseFails  BY <1>14 DEF ReleaseFails
<1>15. CASE ReleaseNothing  BY <1>15 DEF ReleaseNothing
<1>16. CASE Leave
  <2>1. answer' \in [Callers -> Answers \cup {"none"}]
    BY <1>16 DEF Leave
  <2> QED
    BY <1>16, <2>1 DEF Leave
<1>17. CASE IntervalPasses  BY <1>17 DEF IntervalPasses
<1>18. ASSUME NEW c \in Callers, Enter(c) PROVE TypeOK'
  BY <1>18 DEF Enter
<1>19. CASE UNCHANGED vars  BY <1>19
<1> QED
  BY <1>1, <1>2, <1>3, <1>4, <1>5, <1>6, <1>7, <1>8, <1>9, <1>10, <1>11, <1>12,
     <1>13, <1>14, <1>15, <1>16, <1>17, <1>18, <1>19
     DEF Next, HolderStep

(* Lease, backend and latch move together. *)
LEMMA DeviceStep == TypeOK /\ DeviceInv /\ [Next]_vars => DeviceInv'
<1> SUFFICES ASSUME TypeOK /\ DeviceInv, [Next]_vars PROVE DeviceInv'
  OBVIOUS
<1> USE SnapshotAssumption DEF TypeOK, DeviceInv, vars, call, device,
    timing, Goto, Conclude
<1>1. CASE Check  BY <1>1 DEF Check
<1>2. CASE Admit  BY <1>2 DEF Admit
<1>3. CASE AcquireLease  BY <1>3 DEF AcquireLease
<1>4. CASE CreateBackend  BY <1>4 DEF CreateBackend
<1>5. CASE OpenBackend  BY <1>5 DEF OpenBackend
<1>6. CASE ReadFails  BY <1>6 DEF ReadFails
<1>7. CASE ReadWarmupFrame  BY <1>7 DEF ReadWarmupFrame
<1>8. CASE ReadRecoverable  BY <1>8 DEF ReadRecoverable
<1>9. CASE ReadFrame  BY <1>9 DEF ReadFrame
<1>10. CASE CloseReturns  BY <1>10 DEF CloseReturns
<1>11. CASE CloseFails  BY <1>11 DEF CloseFails
<1>12. CASE CloseFailureInterrupted  BY <1>12 DEF CloseFailureInterrupted
<1>13. CASE ReleaseLease  BY <1>13 DEF ReleaseLease
<1>14. CASE ReleaseFails  BY <1>14 DEF ReleaseFails
<1>15. CASE ReleaseNothing  BY <1>15 DEF ReleaseNothing
<1>16. CASE Leave  BY <1>16 DEF Leave
<1>17. CASE IntervalPasses  BY <1>17 DEF IntervalPasses
<1>18. ASSUME NEW c \in Callers, Enter(c) PROVE DeviceInv'
  BY <1>18 DEF Enter
<1>19. CASE UNCHANGED vars  BY <1>19
<1> QED
  BY <1>1, <1>2, <1>3, <1>4, <1>5, <1>6, <1>7, <1>8, <1>9, <1>10, <1>11, <1>12,
     <1>13, <1>14, <1>15, <1>16, <1>17, <1>18, <1>19
     DEF Next, HolderStep

(* No success survives a failed close or release. *)
LEMMA ResultStep == TypeOK /\ DeviceInv /\ ResultInv /\ [Next]_vars => ResultInv'
<1> SUFFICES ASSUME TypeOK /\ DeviceInv /\ ResultInv, [Next]_vars PROVE ResultInv'
  OBVIOUS
<1> USE SnapshotAssumption DEF TypeOK, DeviceInv, ResultInv, vars, call,
    device, timing, Goto, Conclude
<1>1. CASE Check  BY <1>1 DEF Check
<1>2. CASE Admit  BY <1>2 DEF Admit
<1>3. CASE AcquireLease  BY <1>3 DEF AcquireLease
<1>4. CASE CreateBackend  BY <1>4 DEF CreateBackend
<1>5. CASE OpenBackend  BY <1>5 DEF OpenBackend
<1>6. CASE ReadFails  BY <1>6 DEF ReadFails
<1>7. CASE ReadWarmupFrame  BY <1>7 DEF ReadWarmupFrame
<1>8. CASE ReadRecoverable  BY <1>8 DEF ReadRecoverable
<1>9. CASE ReadFrame  BY <1>9 DEF ReadFrame
<1>10. CASE CloseReturns  BY <1>10 DEF CloseReturns
<1>11. CASE CloseFails  BY <1>11 DEF CloseFails
<1>12. CASE CloseFailureInterrupted  BY <1>12 DEF CloseFailureInterrupted
<1>13. CASE ReleaseLease  BY <1>13 DEF ReleaseLease
<1>14. CASE ReleaseFails  BY <1>14 DEF ReleaseFails
<1>15. CASE ReleaseNothing  BY <1>15 DEF ReleaseNothing
<1>16. CASE Leave  BY <1>16 DEF Leave
<1>17. CASE IntervalPasses  BY <1>17 DEF IntervalPasses
<1>18. ASSUME NEW c \in Callers, Enter(c) PROVE ResultInv'
  BY <1>18 DEF Enter
<1>19. CASE UNCHANGED vars  BY <1>19
<1> QED
  BY <1>1, <1>2, <1>3, <1>4, <1>5, <1>6, <1>7, <1>8, <1>9, <1>10, <1>11, <1>12,
     <1>13, <1>14, <1>15, <1>16, <1>17, <1>18, <1>19
     DEF Next, HolderStep

(* Only a caller that saw the interval pass opens. *)
LEMMA IntervalStep == TypeOK /\ IntervalInv /\ [Next]_vars => IntervalInv'
<1> SUFFICES ASSUME TypeOK /\ IntervalInv, [Next]_vars PROVE IntervalInv'
  OBVIOUS
<1> USE SnapshotAssumption DEF TypeOK, IntervalInv, vars, call, device,
    timing, Goto, Conclude
<1>1. CASE Check  BY <1>1 DEF Check
<1>2. CASE Admit  BY <1>2 DEF Admit
<1>3. CASE AcquireLease  BY <1>3 DEF AcquireLease
<1>4. CASE CreateBackend  BY <1>4 DEF CreateBackend
<1>5. CASE OpenBackend  BY <1>5 DEF OpenBackend
<1>6. CASE ReadFails  BY <1>6 DEF ReadFails
<1>7. CASE ReadWarmupFrame  BY <1>7 DEF ReadWarmupFrame
<1>8. CASE ReadRecoverable  BY <1>8 DEF ReadRecoverable
<1>9. CASE ReadFrame  BY <1>9 DEF ReadFrame
<1>10. CASE CloseReturns  BY <1>10 DEF CloseReturns
<1>11. CASE CloseFails  BY <1>11 DEF CloseFails
<1>12. CASE CloseFailureInterrupted  BY <1>12 DEF CloseFailureInterrupted
<1>13. CASE ReleaseLease  BY <1>13 DEF ReleaseLease
<1>14. CASE ReleaseFails  BY <1>14 DEF ReleaseFails
<1>15. CASE ReleaseNothing  BY <1>15 DEF ReleaseNothing
<1>16. CASE Leave  BY <1>16 DEF Leave
<1>17. CASE IntervalPasses  BY <1>17 DEF IntervalPasses
<1>18. ASSUME NEW c \in Callers, Enter(c) PROVE IntervalInv'
  BY <1>18 DEF Enter
<1>19. CASE UNCHANGED vars  BY <1>19
<1> QED
  BY <1>1, <1>2, <1>3, <1>4, <1>5, <1>6, <1>7, <1>8, <1>9, <1>10, <1>11, <1>12,
     <1>13, <1>14, <1>15, <1>16, <1>17, <1>18, <1>19
     DEF Next, HolderStep

(* Warmup and attempts bound the reads. *)
LEMMA ReadStep == TypeOK /\ ReadInv /\ [Next]_vars => ReadInv'
<1> SUFFICES ASSUME TypeOK /\ ReadInv, [Next]_vars PROVE ReadInv'
  OBVIOUS
<1> USE SnapshotAssumption DEF TypeOK, ReadInv, vars, call, device,
    timing, Goto, Conclude
<1>1. CASE Check  BY <1>1 DEF Check
<1>2. CASE Admit  BY <1>2 DEF Admit
<1>3. CASE AcquireLease  BY <1>3 DEF AcquireLease
<1>4. CASE CreateBackend  BY <1>4 DEF CreateBackend
<1>5. CASE OpenBackend  BY <1>5 DEF OpenBackend
<1>6. CASE ReadFails  BY <1>6 DEF ReadFails
<1>7. CASE ReadWarmupFrame  BY <1>7 DEF ReadWarmupFrame
<1>8. CASE ReadRecoverable  BY <1>8 DEF ReadRecoverable
<1>9. CASE ReadFrame  BY <1>9 DEF ReadFrame
<1>10. CASE CloseReturns  BY <1>10 DEF CloseReturns
<1>11. CASE CloseFails  BY <1>11 DEF CloseFails
<1>12. CASE CloseFailureInterrupted  BY <1>12 DEF CloseFailureInterrupted
<1>13. CASE ReleaseLease  BY <1>13 DEF ReleaseLease
<1>14. CASE ReleaseFails  BY <1>14 DEF ReleaseFails
<1>15. CASE ReleaseNothing  BY <1>15 DEF ReleaseNothing
<1>16. CASE Leave  BY <1>16 DEF Leave
<1>17. CASE IntervalPasses  BY <1>17 DEF IntervalPasses
<1>18. ASSUME NEW c \in Callers, Enter(c) PROVE ReadInv'
  BY <1>18 DEF Enter
<1>19. CASE UNCHANGED vars  BY <1>19
<1> QED
  BY <1>1, <1>2, <1>3, <1>4, <1>5, <1>6, <1>7, <1>8, <1>9, <1>10, <1>11, <1>12,
     <1>13, <1>14, <1>15, <1>16, <1>17, <1>18, <1>19
     DEF Next, HolderStep

-----------------------------------------------------------------------------
(* The invariant is inductive. *)
THEOREM Invariance == Spec => []IInv
<1>1. Init => IInv
  <2> SUFFICES ASSUME Init PROVE IInv
    OBVIOUS
  <2> USE SnapshotAssumption DEF Init
  <2>1. TypeOK
    <3>1. lease \in BOOLEAN /\ leaseHeld \in BOOLEAN /\ closeStuck \in BOOLEAN
          /\ recentOpen \in BOOLEAN
      OBVIOUS
    <3> QED
      BY <3>1 DEF TypeOK, Answers
  <2>2. DeviceInv /\ ResultInv
    BY DEF DeviceInv, ResultInv
  <2>3. IntervalInv /\ ReadInv
    BY DEF IntervalInv, ReadInv
  <2> QED
    BY <2>1, <2>2, <2>3 DEF IInv
<1>2. IInv /\ [Next]_vars => IInv'
  BY TypeStep, DeviceStep, ResultStep, IntervalStep, ReadStep DEF IInv
<1> QED
  BY <1>1, <1>2, PTL DEF Spec

(* Every variable stays in its range. *)
THEOREM TypeCorrect == Spec => []TypeOK
<1>1. IInv => TypeOK  BY DEF IInv
<1> QED
  BY <1>1, Invariance, PTL

(* A backend that no interrupted latch lost exists only under the lease of *)
(* the device.                                                             *)
THEOREM DeviceSafety == Spec => []DeviceOwned
<1>1. IInv => DeviceOwned  BY DEF IInv, TypeOK, DeviceInv, DeviceOwned, Ownership!Owned
<1> QED
  BY <1>1, Invariance, PTL

(* Captures leave nothing behind but what is latched or lost. *)
THEOREM Quiet == Spec => []QuietBetweenCaptures
<1>1. IInv => QuietBetweenCaptures
  BY DEF IInv, DeviceInv, QuietBetweenCaptures
<1> QED
  BY <1>1, Invariance, PTL

(* At most one open per interval. *)
THEOREM OpensThrottled == Spec => []OneOpenPerInterval
<1>1. IInv => OneOpenPerInterval  BY DEF IInv, IntervalInv, OneOpenPerInterval
<1> QED
  BY <1>1, Invariance, PTL

(* At most the warmup and max_attempts reads. *)
THEOREM ReadsLimited == Spec => []ReadsBounded
<1>1. IInv => ReadsBounded  BY DEF IInv, ReadInv, ReadsBounded
<1> QED
  BY <1>1, Invariance, PTL

(* A success is returned only with the device closed and given back. *)
THEOREM OkIsReleased == Spec => OkMeansReleased
<1>1. IInv /\ [Next]_vars =>
        [(pc = "unlock" /\ result = "ok" /\ pc' = "idle") =>
           (handles = lost /\ ~lease /\ ~leaseHeld)]_vars
  BY DEF IInv, TypeOK, DeviceInv, ResultInv
<1> QED
  BY <1>1, Invariance, PTL DEF Spec, OkMeansReleased

-----------------------------------------------------------------------------
(* The provider follows the discipline of an owner of the device. *)
THEOREM ProviderRefinesOwner == Spec => ImplementsOwner
<1>1. Init => Ownership!OInit
  BY DEF Init, Ownership!OInit
<1>2. IInv /\ [Next]_vars => [Ownership!ONext]_(Ownership!ovars)
  <2> SUFFICES ASSUME IInv, [Next]_vars PROVE [Ownership!ONext]_(Ownership!ovars)
    OBVIOUS
  <2> USE DEF IInv, TypeOK, DeviceInv, Ownership!ONext, Ownership!ovars
  <2>1. CASE AcquireLease
    BY <2>1 DEF AcquireLease, Ownership!Acquire
  <2>2. CASE CreateBackend
    BY <2>2 DEF CreateBackend, Ownership!Create
  <2>3. CASE CloseReturns \/ CloseFailureInterrupted
    <3>1. handles - lost = 1 /\ UNCHANGED lease
      BY <2>3 DEF CloseReturns, CloseFailureInterrupted
    <3>2. handles' - lost' = 0
      BY <2>3 DEF CloseReturns, CloseFailureInterrupted
    <3> QED
      BY <3>1, <3>2 DEF Ownership!Destroy
  <2>4. CASE ReleaseLease \/ ReleaseFails
    <3>1. handles - lost = 0 /\ UNCHANGED <<handles, lost>>
      BY <2>4 DEF ReleaseLease, ReleaseFails
    <3>2. lease' = lease \/ (lease /\ ~lease')
      BY <2>4 DEF ReleaseLease, ReleaseFails
    <3> QED
      BY <3>1, <3>2 DEF Ownership!Release
  <2>5. CASE \/ Check \/ Admit \/ OpenBackend \/ ReadFails \/ ReadWarmupFrame
             \/ ReadRecoverable \/ ReadFrame \/ CloseFails \/ ReleaseNothing \/ Leave
             \/ IntervalPasses
    BY <2>5 DEF Check, Admit, OpenBackend, ReadFails, ReadWarmupFrame, ReadRecoverable,
       ReadFrame, CloseFails, ReleaseNothing, Leave, IntervalPasses, device
  <2>6. ASSUME NEW c \in Callers, Enter(c) PROVE UNCHANGED Ownership!ovars
    BY <2>6 DEF Enter, device
  <2>7. CASE UNCHANGED vars
    BY <2>7 DEF vars, device
  <2> QED
    BY <2>1, <2>2, <2>3, <2>4, <2>5, <2>6, <2>7 DEF Next, HolderStep
<1> QED
  BY <1>1, <1>2, Invariance, PTL DEF Spec, ImplementsOwner, Ownership!OSpec
=============================================================================
