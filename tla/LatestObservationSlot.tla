------------------------ MODULE LatestObservationSlot ------------------------
(***************************************************************************)
(* observations/latest.py, with the clocks of the call that reads it in    *)
(* agent/service.py: a slot that holds the observation offered last, read  *)
(* without being consumed.                                                 *)
(*                                                                         *)
(* A reader looks at the clock before it has the slot's lock; offers, the  *)
(* clock and close() may come between, and again while it waits for a slot *)
(* that is empty.                                                          *)
(***************************************************************************)
EXTENDS Integers

CONSTANTS
  Readers,     \* threads that call read()
  Schemas,     \* schema_id of an observation
  Ages,        \* values of max_age_ns and ttl_ns
  MaxOffers,   \* bound of the model: observations offered
  MaxTime      \* bound of the model: the monotonic clock

ASSUME SlotAssumption ==
  /\ Ages \subseteq Nat
  /\ MaxOffers \in Nat /\ MaxTime \in Nat

NoObservation == [n |-> 0, at |-> 0, ttl |-> 0, schema |-> "none"]

VARIABLES
  slotClosed,  \* _closed
  latest,      \* _latest, or NoObservation
  offers,      \* history: observations offered
  time,        \* the monotonic clock
  read,        \* per reader, where its call is
  want,        \* per reader, its now_monotonic_ns, max_age_ns and schema_ids
  entered,     \* per reader, wait_started_ns
  before,      \* history, per reader: offers as it began to wait
  answer       \* per reader, what its last read() came to, and when

slotVars == <<slotClosed, latest, offers, time, read, want, entered, before, answer>>

NoWant == [now |-> 0, age |-> 0, schemas |-> {}]
NoAnswer == [outcome |-> "none", n |-> 0, limit |-> 0, real |-> 0, delay |-> 0, missed |-> FALSE]

SlotInit ==
  /\ slotClosed = FALSE /\ latest = NoObservation /\ offers = 0 /\ time = 0
  /\ read = [r \in Readers |-> "idle"] /\ want = [r \in Readers |-> NoWant]
  /\ entered = [r \in Readers |-> 0] /\ before = [r \in Readers |-> 0]
  /\ answer = [r \in Readers |-> NoAnswer]

-----------------------------------------------------------------------------
(* An observation made at some time up to now; "accepted", "replaced" or,   *)
(* on a closed slot, "closed".                                              *)
Offer ==
  /\ offers < MaxOffers
  /\ offers' = offers + 1
  /\ \E at \in 0..time, ttl \in Ages, s \in Schemas :
       latest' = IF slotClosed THEN latest
                 ELSE [n |-> offers + 1, at |-> at, ttl |-> ttl, schema |-> s]
  /\ UNCHANGED <<slotClosed, time, read, want, entered, before, answer>>

CloseSlot ==
  /\ ~slotClosed
  /\ slotClosed' = TRUE /\ latest' = NoObservation
  /\ UNCHANGED <<offers, time, read, want, entered, before, answer>>

TimePasses ==
  /\ time < MaxTime /\ time' = time + 1
  /\ UNCHANGED <<slotClosed, latest, offers, read, want, entered, before, answer>>

-----------------------------------------------------------------------------
(* The caller takes the time, and has not got the lock yet. *)
Call(r) ==
  /\ read[r] = "idle"
  /\ read' = [read EXCEPT ![r] = "called"]
  /\ \E age \in Ages, S \in {Schemas} \cup {{s} : s \in Schemas} :
       want' = [want EXCEPT ![r] = [now |-> time, age |-> age, schemas |-> S]]
  /\ answer' = [answer EXCEPT ![r] = NoAnswer]
  /\ UNCHANGED <<slotClosed, latest, offers, time, entered, before>>

(* _finish_read *)
Answer(r, result) ==
  /\ read' = [read EXCEPT ![r] = "idle"]
  /\ want' = [want EXCEPT ![r] = NoWant]
  /\ entered' = [entered EXCEPT ![r] = 0] /\ before' = [before EXCEPT ![r] = 0]
  /\ answer' = [answer EXCEPT ![r] = result]
  /\ UNCHANGED <<offers, time>>

Without(outcome) == [NoAnswer EXCEPT !.outcome = outcome]

AtMost(a, b) == IF a <= b THEN a ELSE b

(* What becomes of the observation in the slot, judged as of the time now,  *)
(* by a reader that waited for the lock, the delay, and then in the slot.   *)
Judged(now, w, delay) ==
  LET age == now - latest.at
      limit == AtMost(w.age, latest.ttl)
      outcome == CASE latest.at > now -> "future_timestamp"
                   [] latest.at <= now /\ age > limit -> "stale"
                   [] OTHER -> IF latest.schema \in w.schemas THEN "ok" ELSE "schema_mismatch"
  IN  [outcome |-> outcome, n |-> latest.n, limit |-> limit,
       real |-> time - latest.at, delay |-> delay, missed |-> FALSE]

(* The lock is taken, and the slot closed, occupied, or empty. *)
Enter(r) ==
  /\ read[r] = "called"
  /\ UNCHANGED <<slotClosed, latest>>
  /\ \/ slotClosed /\ Answer(r, Without("closed"))
     \/ /\ ~slotClosed /\ latest # NoObservation
        /\ Answer(r, Judged(want[r].now, want[r], time - want[r].now))
     \/ ~slotClosed /\ latest = NoObservation /\ Answer(r, Without("empty"))
     \/ /\ ~slotClosed /\ latest = NoObservation
        /\ read' = [read EXCEPT ![r] = "waiting"]
        /\ entered' = [entered EXCEPT ![r] = time] /\ before' = [before EXCEPT ![r] = offers]
        /\ UNCHANGED <<offers, time, want, answer>>

Delay(r) == entered[r] - want[r].now

(* Mutant: the time spent waiting is not counted. *)
WakeUncounted(r) ==
  /\ read[r] = "waiting" /\ (slotClosed \/ latest # NoObservation)
  /\ Answer(r, IF slotClosed THEN Without("closed") ELSE Judged(want[r].now, want[r], Delay(r)))
  /\ UNCHANGED <<slotClosed, latest>>

(* Mutant: a reader that waited takes the observation with it. *)
WakeConsumes(r) ==
  /\ read[r] = "waiting" /\ (slotClosed \/ latest # NoObservation)
  /\ Answer(r, IF slotClosed THEN Without("closed")
               ELSE Judged(want[r].now + (time - entered[r]), want[r], Delay(r)))
  /\ latest' = NoObservation /\ UNCHANGED slotClosed

(* Woken by an offer or by close(), in time or at the deadline. *)
Wake(r) ==
  /\ read[r] = "waiting" /\ (slotClosed \/ latest # NoObservation)
  /\ Answer(r, IF slotClosed THEN Without("closed")
               ELSE Judged(want[r].now + (time - entered[r]), want[r], Delay(r)))
  /\ UNCHANGED <<slotClosed, latest>>

(* The deadline finds the slot as empty as it was. *)
TimeOut(r) ==
  /\ read[r] = "waiting" /\ ~slotClosed /\ latest = NoObservation
  /\ Answer(r, [Without("timeout") EXCEPT !.missed = offers > before[r]])
  /\ UNCHANGED <<slotClosed, latest>>

Read(r) == Enter(r) \/ Wake(r) \/ TimeOut(r)

SlotNext == Offer \/ CloseSlot \/ TimePasses \/ \E r \in Readers : Call(r) \/ Read(r)

SlotSpec == SlotInit /\ [][SlotNext]_slotVars

-----------------------------------------------------------------------------
(* The variables keep their types. *)
SlotTypeOK ==
  /\ slotClosed \in BOOLEAN /\ offers \in 0..MaxOffers /\ time \in 0..MaxTime
  /\ latest.n \in 0..offers /\ latest.at \in 0..time
  /\ read \in [Readers -> {"idle", "called", "waiting"}]
  /\ \A r \in Readers : want[r].now \in 0..time /\ entered[r] \in 0..time

(* An observation answered as ok is as young as the limits ask, and was not *)
(* made after it was read, but for the time the reader waited for the lock: *)
(* its clock was read before, while the time it spends in an empty slot     *)
(* counts.                                                                  *)
OkIsFresh ==
  \A r \in Readers :
    LET a == answer[r] IN
      a.outcome = "ok" => a.delay <= a.real /\ a.real <= a.limit + a.delay

(* One offer serves every reader that waits: none is sent away at its       *)
(* deadline although something was offered while it waited.                 *)
EveryWaiterServed == \A r \in Readers : ~answer[r].missed
=============================================================================
