--------------------------- MODULE VisionChallenge ---------------------------
(***************************************************************************)
(* agent/vision_challenge.py: synthetic challenges, each good for one      *)
(* answer until it expires.  The store's lock makes every call one step;   *)
(* only close() has parts, between which other calls come.  What the image *)
(* shows and how claims are compared is left out: an answer is right or    *)
(* wrong.                                                                  *)
(***************************************************************************)
EXTENDS Naturals, FiniteSets, Sequences

CONSTANTS
  ChallengeIds,  \* what challenge_id_factory may return
  MaxActive,     \* _max_active
  TTL,           \* _ttl_seconds
  MaxIssued,     \* bound of the model: challenges issued
  MaxClock       \* bound of the model: the clock

ASSUME ChallengeAssumption ==
  /\ MaxActive \in Nat \ {0} /\ TTL \in Nat \ {0}
  /\ MaxIssued \in Nat /\ MaxClock \in Nat

VARIABLES
  records,   \* _records, NoRecord where there is none
  stopping,  \* _stop_event
  expirer,   \* the expiry thread runs
  closing,   \* where close() is: "no", "joining", or "done" at least once
  clock,     \* _clock
  issued,    \* history: challenges issued; each has its number
  verdicts   \* history, per number: the ages at which it was passed or failed

challengeVars == <<records, stopping, expirer, closing, clock, issued, verdicts>>

NoRecord == [number |-> 0, expires |-> 0, used |-> FALSE]
Active(R) == {id \in ChallengeIds : R[id] # NoRecord}

ChallengeInit ==
  /\ records = [id \in ChallengeIds |-> NoRecord]
  /\ stopping = FALSE /\ expirer = TRUE /\ closing = "no"
  /\ clock = 0 /\ issued = 0 /\ verdicts = [n \in 1..MaxIssued |-> <<>>]

-----------------------------------------------------------------------------
(* _cleanup_locked *)
Cleaned == [id \in ChallengeIds |->
              IF records[id].expires <= clock THEN NoRecord ELSE records[id]]

(* Mutant: a store that is being closed still issues. *)
IssueRegardless(id) ==
  /\ issued < MaxIssued
  /\ Cardinality(Active(Cleaned)) < MaxActive /\ Cleaned[id] = NoRecord
  /\ issued' = issued + 1
  /\ records' = [Cleaned EXCEPT ![id] =
                   [number |-> issued + 1, expires |-> clock + TTL, used |-> FALSE]]
  /\ UNCHANGED <<stopping, expirer, closing, clock, verdicts>>

Issue(id) ==
  /\ issued < MaxIssued /\ ~stopping
  /\ Cardinality(Active(Cleaned)) < MaxActive /\ Cleaned[id] = NoRecord
  /\ issued' = issued + 1
  /\ records' = [Cleaned EXCEPT ![id] =
                   [number |-> issued + 1, expires |-> clock + TTL, used |-> FALSE]]
  /\ UNCHANGED <<stopping, expirer, closing, clock, verdicts>>

(* The store is closed or full, or the identifier is taken. *)
IssueRefused(id) ==
  /\ stopping \/ Cardinality(Active(Cleaned)) >= MaxActive \/ Cleaned[id] # NoRecord
  /\ records' = Cleaned
  /\ UNCHANGED <<stopping, expirer, closing, clock, issued, verdicts>>

Judge(R, id, spent) ==
  /\ records' = [R EXCEPT ![id].used = spent]
  /\ verdicts' = [verdicts EXCEPT ![R[id].number] = Append(@, clock + TTL - R[id].expires)]

(* Mutant: a wrong answer leaves the challenge as it was. *)
VerifyAgain(id, right) ==
  /\ \/ Cleaned[id] # NoRecord /\ ~Cleaned[id].used /\ Judge(Cleaned, id, right)
     \/ (Cleaned[id] = NoRecord \/ Cleaned[id].used) /\ records' = Cleaned /\ UNCHANGED verdicts
  /\ UNCHANGED <<stopping, expirer, closing, clock, issued>>

(* PASS or FAIL, which spends the challenge, or "rejected". *)
Verify(id, right) ==
  /\ \/ Cleaned[id] # NoRecord /\ ~Cleaned[id].used /\ Judge(Cleaned, id, TRUE)
     \/ (Cleaned[id] = NoRecord \/ Cleaned[id].used) /\ records' = Cleaned /\ UNCHANGED verdicts
  /\ UNCHANGED <<stopping, expirer, closing, clock, issued>>

(* size, and a turn of the expiry thread. *)
Expire ==
  /\ records' = Cleaned
  /\ UNCHANGED <<stopping, expirer, closing, clock, issued, verdicts>>

ExpirerEnds ==
  /\ expirer /\ stopping
  /\ expirer' = FALSE
  /\ UNCHANGED <<records, stopping, closing, clock, issued, verdicts>>

(* close(): the event is set, the thread waited for, with a deadline, and  *)
(* the records dropped.                                                    *)
Close ==
  /\ closing # "joining"
  /\ stopping' = TRUE /\ closing' = "joining"
  /\ UNCHANGED <<records, expirer, clock, issued, verdicts>>

CloseClears ==
  /\ closing = "joining"
  /\ records' = [id \in ChallengeIds |-> NoRecord]
  /\ closing' = "done"
  /\ UNCHANGED <<stopping, expirer, clock, issued, verdicts>>

Tick ==
  /\ clock < MaxClock /\ clock' = clock + 1
  /\ UNCHANGED <<records, stopping, expirer, closing, issued, verdicts>>

(* What goes on besides the calls of the tools. *)
StoreNext == Expire \/ ExpirerEnds \/ Close \/ CloseClears \/ Tick

-----------------------------------------------------------------------------
(* A challenge gets one verdict, right or wrong, and only before it         *)
(* expires, whether or not the expiry thread has got to it; an identifier   *)
(* that comes up again is another challenge.                                *)
OneVerdict ==
  \A n \in DOMAIN verdicts :
    Len(verdicts[n]) <= 1 /\ \A k \in DOMAIN verdicts[n] : verdicts[n][k] < TTL

(* After a close() that returned no expected claim is kept, not even that   *)
(* of a challenge issued while it was closing.                              *)
ClosedKeepsNothing == closing = "done" => Active(records) = {}
=============================================================================
