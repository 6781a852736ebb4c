----------------------------- MODULE SQLiteStore ----------------------------
(***************************************************************************)
(* storage/sqlite_store.py: one database file and the programs that have   *)
(* it open, each with a connection and counters of its own in memory: the  *)
(* writer of a live session, and the commands that initialise and purge    *)
(* the same file.                                                          *)
(*                                                                         *)
(* SQLite's part is external: BEGIN IMMEDIATE takes the one write lock, a  *)
(* transaction is read and written under it and becomes the file's content *)
(* at COMMIT, and a process that dies leaves what was committed.  Any      *)
(* statement may fail, and so may a ROLLBACK; and what a row holds beside   *)
(* the columns kept here (document, digest, metadata) may be damaged on     *)
(* the disk.                                                               *)
(***************************************************************************)
EXTENDS Naturals, FiniteSets, FiniteSetsExt

CONSTANTS
  Connections,   \* programs that open the file
  Nobody,        \* the write lock is free
  Observations,  \* records with fields key, size and ttl; equal ones have equal digests
  MaxRows,       \* _max_rows
  MaxBytes,      \* _max_logical_bytes
  MaxPurgeRows,  \* _max_purge_rows
  MaxSequence,   \* _MAX_INT64, at which the store stops
  MaxTime        \* bound of the model: the wall clock

ASSUME StoreAssumption ==
  /\ Nobody \notin Connections
  /\ Observations \subseteq [key : {o.key : o \in Observations}, size : Nat \ {0}, ttl : Nat \ {0}]
  /\ {MaxRows, MaxBytes, MaxPurgeRows, MaxSequence} \subseteq Nat \ {0}
  /\ MaxTime \in Nat

VARIABLES
  file,      \* what is committed: the rows and the row of store_state
  lock,      \* the connection inside a write transaction (external)
  damaged,   \* rows of the file whose stored document, digest or metadata was altered (external)
  now,       \* time.time_ns
  state,     \* per connection, _state
  reason,    \* _reason; "sqlite_error" for all that SQLite's errors and odd paths give
  counters,  \* _row_count and _logical_bytes
  pc,        \* where its thread is
  item,      \* the observation being put
  at,        \* stored_unix_ns
  draft,     \* the file as its transaction leaves it
  foreign,   \* history: somebody else committed since it loaded its counters
  receipts   \* history: rows whose put() answered accepted or coalesced

health == <<state, reason, counters>>
call   == <<pc, item, at, draft>>
vars == <<file, lock, damaged, now, health, call, foreign, receipts>>

Bytes(R) == MapThenSumSet(LAMBDA r : r.size, R)
Counts(f) == [rows |-> f.count, bytes |-> f.bytes]
Expired(f, t) == {r \in f.rows : r.expires <= t}
NoCounts == [rows |-> 0, bytes |-> 0]
NoFile == [made |-> FALSE, rows |-> {}, next |-> 1, count |-> 0, bytes |-> 0]
NoItem == [key |-> "none"]

Init ==
  /\ file = NoFile /\ lock = Nobody /\ damaged = {} /\ now = 0
  /\ state = [c \in Connections |-> "closed"] /\ reason = [c \in Connections |-> "none"]
  /\ counters = [c \in Connections |-> NoCounts]
  /\ pc = [c \in Connections |-> "idle"] /\ item = [c \in Connections |-> NoItem]
  /\ at = [c \in Connections |-> 0] /\ draft = [c \in Connections |-> NoFile]
  /\ foreign = [c \in Connections |-> FALSE] /\ receipts = {}

-----------------------------------------------------------------------------
(* Steps that several calls share.                                         *)

(* The call under way is over, and its locals with it. *)
Return(c) ==
  /\ pc' = [pc EXCEPT ![c] = "idle"]
  /\ item' = [item EXCEPT ![c] = NoItem] /\ at' = [at EXCEPT ![c] = 0]
  /\ draft' = [draft EXCEPT ![c] = NoFile]

Goto(c, place) == pc' = [pc EXCEPT ![c] = place]

Latch(c, why) ==
  /\ state' = [state EXCEPT ![c] = "read_only"] /\ reason' = [reason EXCEPT ![c] = why]
  /\ UNCHANGED counters

(* A transaction that can be rolled back ends; a lock that was not taken    *)
(* stays where it is.                                                       *)
Unlock(c) == lock' = IF lock = c THEN Nobody ELSE lock

(* _handle_write_error: rollback, then the code decides whether the store   *)
(* becomes read-only.  A failed rollback leaves a transaction that had      *)
(* begun open.                                                              *)
WriteError(c, begun) ==
  \/ Unlock(c) /\ Return(c) /\ UNCHANGED health
  \/ Unlock(c) /\ Return(c) /\ Latch(c, "sqlite_error")
  \/ /\ begun /\ lock \in {c, Nobody} /\ lock' = c
     /\ Return(c) /\ Latch(c, "rollback_failed")

(* _handle_record_integrity_error: the same rollback, then read-only. *)
IntegrityError(c, begun) ==
  \/ Unlock(c) /\ Return(c) /\ Latch(c, "record_integrity_error")
  \/ begun /\ lock = Nobody /\ lock' = c /\ Return(c) /\ Latch(c, "rollback_failed")

Idle(c) == pc[c] = "idle"
Healthy(c) == state[c] = "healthy" /\ Idle(c)

-----------------------------------------------------------------------------
(* Opening: schema, then the counters.                                     *)

Opening == {"create", "load", "verify"}

Open(c) ==
  /\ state[c] = "closed" /\ Idle(c)
  /\ Goto(c, IF file.made THEN "load" ELSE "create")
  /\ UNCHANGED <<file, lock, now, damaged, health, item, at, draft, foreign, receipts>>

(* _create_schema; in the meantime another program may have done the same,  *)
(* and then CREATE TABLE fails.                                             *)
CreateSchema(c) ==
  /\ pc[c] = "create" /\ lock = Nobody /\ ~file.made
  /\ file' = [file EXCEPT !.made = TRUE]
  /\ Goto(c, "load")
  /\ UNCHANGED <<lock, now, damaged, health, item, at, draft, foreign, receipts>>

(* _load_and_verify_counters reads store_state ... *)
LoadState(c) ==
  /\ pc[c] = "load"
  /\ draft' = [draft EXCEPT ![c] = [file EXCEPT !.rows = {}]]
  /\ foreign' = [foreign EXCEPT ![c] = FALSE]
  /\ Goto(c, "verify")
  /\ UNCHANGED <<file, lock, now, damaged, health, item, at, receipts>>

(* ... and then, in another statement, the rows. *)
Verify(c) ==
  /\ pc[c] = "verify"
  /\ draft[c].count = Cardinality(file.rows) /\ draft[c].bytes = Bytes(file.rows)
  /\ \A r \in file.rows : r.seq < draft[c].next
  /\ draft[c].count <= MaxRows /\ draft[c].bytes <= MaxBytes
  /\ state' = [state EXCEPT ![c] = "healthy"] /\ reason' = [reason EXCEPT ![c] = "none"]
  /\ counters' = [counters EXCEPT ![c] = Counts(draft[c])]
  /\ Return(c)
  /\ UNCHANGED <<file, lock, now, damaged, foreign, receipts>>

(* Counters that disagree, a lock that stays taken, any error of SQLite. *)
OpenFails(c) ==
  /\ pc[c] \in Opening
  /\ Return(c)
  /\ UNCHANGED <<file, lock, now, damaged, health, foreign, receipts>>

-----------------------------------------------------------------------------
(* put()                                                                   *)

SameKey(o) == {r \in file.rows : r.key = o.key}

(* The answer for an observation whose key is in the file: coalesced if the *)
(* digests agree, a conflict if not.  A damaged digest agrees with nothing, *)
(* or is no digest at all.                                                 *)
Duplicate(c, o) ==
  LET row == CHOOSE r \in SameKey(o) : TRUE
      same == row.size = o.size /\ row.ttl = o.ttl
  IN  \/ /\ Return(c) /\ UNCHANGED <<lock, health>>
         /\ receipts' = IF same THEN receipts \cup {row} ELSE receipts
      \/ /\ row \in damaged
         /\ \/ Return(c) /\ UNCHANGED <<lock, health>>
            \/ IntegrityError(c, FALSE)
         /\ UNCHANGED receipts

(* Up to the look at the clock and the free space. An observation that the  *)
(* checks reject, and a store that is not healthy, change nothing.          *)
Put(c, o) ==
  /\ Healthy(c)
  /\ \/ SameKey(o) # {} /\ Duplicate(c, o)
     \/ /\ SameKey(o) = {}
        /\ Goto(c, "begin")
        /\ item' = [item EXCEPT ![c] = o] /\ at' = [at EXCEPT ![c] = now]
        /\ UNCHANGED <<lock, health, draft, receipts>>
     \/ WriteError(c, FALSE) /\ UNCHANGED receipts
  /\ UNCHANGED <<file, now, damaged, foreign>>

(* The first n of a set of rows, ORDER BY expires_unix_ns, store_sequence. *)
First(R, n) ==
  LET Before(q, r) == q.expires < r.expires \/ (q.expires = r.expires /\ q.seq < r.seq)
  IN  {r \in R : Cardinality({q \in R : Before(q, r)}) < n}

(* Mutant: logical_bytes does not follow. *)
WithoutBytes(f, gone) == [f EXCEPT !.rows = @ \ gone, !.count = @ - Cardinality(gone)]

(* The file without some rows, in the table and in store_state. *)
Without(f, gone) ==
  [f EXCEPT !.rows = @ \ gone, !.count = @ - Cardinality(gone), !.bytes = @ - Bytes(gone)]

(* The file with o added under the next sequence number. *)
With(f, o, t) ==
  [f EXCEPT !.rows = @ \cup {[key |-> o.key, size |-> o.size, ttl |-> o.ttl,
                              seq |-> f.next, expires |-> t + o.ttl]},
            !.next = @ + 1, !.count = @ + 1, !.bytes = @ + o.size]

Pressed(f, o) == f.count >= MaxRows \/ f.bytes + o.size > MaxBytes

(* Mutant: the oldest rows make room, expired or not. *)
RelievedByAge(f, o, t) ==
  IF Pressed(f, o) THEN Without(f, First(f.rows, MaxPurgeRows)) ELSE f

(* Under pressure, one batch of expired rows makes room for o. *)
Relieved(f, o, t) ==
  IF Pressed(f, o) THEN Without(f, First(Expired(f, t), MaxPurgeRows)) ELSE f

(* BEGIN IMMEDIATE is refused as long as another connection has the lock.   *)
Busy(c) ==
  /\ pc[c] = "begin" /\ lock # Nobody
  /\ Return(c)
  /\ UNCHANGED <<file, lock, now, damaged, health, foreign, receipts>>

(* Inside the transaction: somebody else has stored the key. *)
PutDuplicate(c) ==
  /\ pc[c] = "begin" /\ lock = Nobody
  /\ SameKey(item[c]) # {}
  /\ Duplicate(c, item[c])
  /\ UNCHANGED <<file, now, damaged, foreign>>

(* The counters in memory are not those in the file. *)
PutMistrusts(c) ==
  /\ pc[c] = "begin" /\ lock = Nobody /\ SameKey(item[c]) = {}
  /\ counters[c] # Counts(file)
  /\ IntegrityError(c, TRUE)
  /\ UNCHANGED <<file, now, damaged, foreign, receipts>>

Trusted(c) == lock = Nobody /\ counters[c] = Counts(file)

PutExhausted(c) ==
  /\ pc[c] = "begin" /\ SameKey(item[c]) = {} /\ Trusted(c)
  /\ file.next = MaxSequence
  /\ Return(c) /\ Latch(c, "sequence_exhausted")
  /\ UNCHANGED <<file, lock, now, damaged, foreign, receipts>>

(* No room even so: rolled back, with the purge. *)
PutFull(c) ==
  /\ pc[c] = "begin" /\ SameKey(item[c]) = {} /\ Trusted(c) /\ file.next # MaxSequence
  /\ Pressed(Relieved(file, item[c], at[c]), item[c])
  /\ Return(c)
  /\ UNCHANGED <<file, lock, now, damaged, health, foreign, receipts>>

(* Mutant: the counters in memory run ahead of the commit. *)
PutWritesAhead(c) ==
  /\ pc[c] = "begin" /\ SameKey(item[c]) = {} /\ Trusted(c) /\ file.next # MaxSequence
  /\ LET room == Relieved(file, item[c], at[c]) IN
       /\ ~Pressed(room, item[c])
       /\ draft' = [draft EXCEPT ![c] = With(room, item[c], at[c])]
       /\ counters' = [counters EXCEPT ![c] = Counts(With(room, item[c], at[c]))]
  /\ lock' = c /\ Goto(c, "commit")
  /\ UNCHANGED <<file, now, damaged, state, reason, item, at, foreign, receipts>>

PutWrites(c) ==
  /\ pc[c] = "begin" /\ SameKey(item[c]) = {} /\ Trusted(c) /\ file.next # MaxSequence
  /\ LET room == Relieved(file, item[c], at[c]) IN
       /\ ~Pressed(room, item[c])
       /\ draft' = [draft EXCEPT ![c] = With(room, item[c], at[c])]
  /\ lock' = c /\ Goto(c, "commit")
  /\ UNCHANGED <<file, now, damaged, health, item, at, foreign, receipts>>

-----------------------------------------------------------------------------
(* purge_expired()                                                         *)

Purge(c) ==
  /\ Healthy(c)
  /\ \/ lock # Nobody /\ Return(c) /\ UNCHANGED <<lock, health>>
     \/ lock = Nobody /\ WriteError(c, TRUE)
     \/ lock = Nobody /\ counters[c] # Counts(file) /\ IntegrityError(c, TRUE)
     \/ /\ Trusted(c) /\ Expired(file, now) = {}
        /\ Return(c) /\ UNCHANGED <<lock, health>>
     \/ /\ Trusted(c) /\ Expired(file, now) # {}
        /\ \E n \in 1..MaxPurgeRows :
             draft' = [draft EXCEPT ![c] = Without(file, First(Expired(file, now), n))]
        /\ lock' = c /\ Goto(c, "commit")
        /\ UNCHANGED <<health, item, at>>
  /\ UNCHANGED <<file, now, damaged, foreign, receipts>>

-----------------------------------------------------------------------------
(* The end of a transaction.                                               *)

Others(c) == [d \in Connections |-> foreign[d] \/ d # c]

(* Mutant: the next number follows the rows that are left. *)
CommitRenumbers(c) ==
  /\ pc[c] = "commit"
  /\ file' = [draft[c] EXCEPT !.next = 1 + Max({r.seq : r \in draft[c].rows} \cup {0})]
  /\ counters' = [counters EXCEPT ![c] = Counts(draft[c])]
  /\ damaged' = damaged \cap draft[c].rows
  /\ lock' = Nobody /\ foreign' = Others(c)
  /\ receipts' = receipts \cup (draft[c].rows \ file.rows)
  /\ Return(c)
  /\ UNCHANGED <<now, state, reason>>

(* COMMIT returns, and then the counters follow. *)
Commit(c) ==
  /\ pc[c] = "commit"
  /\ file' = draft[c]
  /\ counters' = [counters EXCEPT ![c] = Counts(draft[c])]
  /\ damaged' = damaged \cap draft[c].rows
  /\ lock' = Nobody /\ foreign' = Others(c)
  /\ receipts' = receipts \cup (draft[c].rows \ file.rows)
  /\ Return(c)
  /\ UNCHANGED <<now, state, reason>>

(* BEGIN, a statement or COMMIT raises. *)
TransactionFails(c) ==
  /\ pc[c] \in {"begin", "commit"}
  /\ WriteError(c, TRUE)
  /\ UNCHANGED <<file, now, damaged, foreign, receipts>>

-----------------------------------------------------------------------------
(* A stored row is altered behind SQLite's back, beside the columns that    *)
(* opening and purging look at.                                            *)
Damage(r) ==
  /\ r \in file.rows \ damaged
  /\ damaged' = damaged \cup {r}
  /\ UNCHANGED <<file, lock, now, health, call, foreign, receipts>>

(* query_latest() or footprint(), of a read-only store too: SQLite's error,  *)
(* an owned path that is no file, or a row that does not verify.           *)
ReadFails(c) ==
  /\ state[c] # "closed" /\ Idle(c)
  /\ \/ Latch(c, "sqlite_error")
     \/ damaged # {} /\ Latch(c, "record_integrity_error")
  /\ UNCHANGED <<file, lock, now, damaged, call, foreign, receipts>>

(* close() rolls back what is open; if that raises the state stays. *)
Close(c) ==
  /\ state[c] # "closed" /\ Idle(c)
  /\ Unlock(c)
  /\ \/ state' = [state EXCEPT ![c] = "closed"] /\ reason' = [reason EXCEPT ![c] = "none"]
     \/ lock = c /\ UNCHANGED <<state, reason>>
  /\ counters' = [counters EXCEPT ![c] = NoCounts]
  /\ Return(c)
  /\ UNCHANGED <<file, now, damaged, foreign, receipts>>

(* A program dies; a COMMIT under way may have taken effect. *)
Crash(c) ==
  /\ state[c] # "closed" \/ ~Idle(c)
  /\ Unlock(c)
  /\ \/ UNCHANGED <<file, damaged, foreign>>
     \/ /\ pc[c] = "commit" /\ file' = draft[c] /\ foreign' = Others(c)
        /\ damaged' = damaged \cap draft[c].rows
  /\ state' = [state EXCEPT ![c] = "closed"] /\ reason' = [reason EXCEPT ![c] = "none"]
  /\ counters' = [counters EXCEPT ![c] = NoCounts]
  /\ Return(c)
  /\ UNCHANGED <<now, receipts>>

Tick == now < MaxTime /\ now' = now + 1
        /\ UNCHANGED <<file, lock, damaged, health, call, foreign, receipts>>

Step(c) ==
  \/ CreateSchema(c) \/ LoadState(c) \/ Verify(c) \/ OpenFails(c)
  \/ Busy(c) \/ PutDuplicate(c) \/ PutMistrusts(c) \/ PutExhausted(c) \/ PutFull(c)
  \/ PutWrites(c) \/ Commit(c) \/ TransactionFails(c)

Next ==
  \/ \E c \in Connections :
       \/ Open(c) \/ Purge(c) \/ ReadFails(c) \/ Close(c) \/ Crash(c)
       \/ Step(c)
       \/ \E o \in Observations : Put(c, o)
  \/ \E r \in file.rows : Damage(r)
  \/ Tick

Spec == Init /\ [][Next]_vars

-----------------------------------------------------------------------------
Rows == [key : {o.key : o \in Observations}, size : Nat, ttl : Nat, seq : Nat, expires : Nat]
Files == [made : BOOLEAN, rows : SUBSET Rows, next : Nat, count : Nat, bytes : Nat]
Counters == [rows : Nat, bytes : Nat]

(* The variables keep their types. *)
TypeOK ==
  /\ file \in Files /\ draft \in [Connections -> Files]
  /\ lock \in Connections \cup {Nobody} /\ now \in 0..MaxTime
  /\ damaged \subseteq file.rows
  /\ state \in [Connections -> {"closed", "healthy", "read_only"}]
  /\ reason \in [Connections -> {"none", "sqlite_error", "rollback_failed",
                                 "record_integrity_error", "sequence_exhausted"}]
  /\ counters \in [Connections -> Counters]
  /\ pc \in [Connections -> {"idle", "begin", "commit"} \cup Opening]
  /\ item \in [Connections -> Observations \cup {NoItem}] /\ at \in [Connections -> Nat]
  /\ foreign \in [Connections -> BOOLEAN] /\ receipts \subseteq Rows

(* What is committed is always a file that _load_and_verify_counters would  *)
(* accept: counters, limits and sequence agree with the rows, whatever      *)
(* failed or died, and whoever else writes.                                 *)
FileVerifies ==
  /\ file.count = Cardinality(file.rows) /\ file.bytes = Bytes(file.rows)
  /\ file.count <= MaxRows /\ file.bytes <= MaxBytes
  /\ \A r \in file.rows : r.seq < file.next
  /\ \A r, q \in file.rows : r.key = q.key => r = q

(* A receipt that said accepted or coalesced is true until the row expires, *)
(* and no sequence number is given out twice.                               *)
ReceiptsHold ==
  /\ \A r \in receipts : r \in file.rows \/ r.expires <= now
  /\ \A r, q \in receipts : r.seq = q.seq => r = q

(* As long as nobody else commits, the counters in memory are those of the  *)
(* file; and a store becomes read-only for a record's integrity only if     *)
(* somebody else has committed or a row that is still there was damaged, so *)
(* that no failure of its own turns a store against its file.               *)
OwnCountersAgree ==
  \A c \in Connections :
    /\ state[c] = "healthy" /\ ~foreign[c] => counters[c] = Counts(file)
    /\ reason[c] = "record_integrity_error" => foreign[c] \/ damaged # {}

(* The file is a bounded store that loses nothing before it expires.        *)
Abstract == INSTANCE BoundedStore WITH rows <- file.rows, next <- file.next
ImplementsStore == Abstract!BSpec
=============================================================================
