-------------------------- MODULE SQLiteStoreProofs --------------------------
(***************************************************************************)
(* Theorems about SQLiteStore, for any number of programs that share the   *)
(* file, any observations, and any limits.                                 *)
(***************************************************************************)
EXTENDS SQLiteStore, FiniteSetTheorems, TLAPS

-----------------------------------------------------------------------------
(* Sums over sets of rows.                                                 *)

(* The bytes of a set of rows, one unit each: what a fold over the set adds *)
(* up, as a set whose cardinality the library's theorems can count.        *)
Sized(R) == IsFiniteSet(R) /\ \A r \in R : r.size \in Nat
UnitsOf(r) == {r} \X (1..r.size)
Units(R) == UNION {UnitsOf(r) : r \in R}

(* A row has as many units as its size says. *)
LEMMA UnitsOfRow ==
  ASSUME NEW r, r.size \in Nat
  PROVE  IsFiniteSet(UnitsOf(r)) /\ Cardinality(UnitsOf(r)) = r.size
<1>1. IsFiniteSet({r}) /\ Cardinality({r}) = 1
  BY FS_Singleton
<1>2. IsFiniteSet(1..r.size) /\ Cardinality(1..r.size) = r.size
  BY FS_Interval
<1>3. /\ IsFiniteSet({r} \X (1..r.size))
      /\ Cardinality({r} \X (1..r.size)) = Cardinality({r}) * Cardinality(1..r.size)
  BY <1>1, <1>2, FS_Product
<1> QED
  BY <1>1, <1>2, <1>3 DEF UnitsOf

(* Finitely many rows have finitely many units. *)
LEMMA UnitsFinite ==
  ASSUME NEW R, Sized(R)
  PROVE  IsFiniteSet(Units(R)) /\ Cardinality(Units(R)) \in Nat
<1> DEFINE Families == {UnitsOf(r) : r \in R}
           f == [r \in R |-> UnitsOf(r)]
<1>1. f \in Surjection(R, Families)
  BY DEF Surjection
<1>2. IsFiniteSet(Families)
  BY <1>1, FS_Surjection DEF Sized
<1>3. \A U \in Families : IsFiniteSet(U)
  BY UnitsOfRow DEF Sized
<1>4. IsFiniteSet(UNION Families)
  <2> HIDE DEF Families
  <2> QED
    BY <1>2, <1>3, FS_UNION
<1> QED
  BY <1>4, FS_CardinalityType DEF Units

(* The units of two sets of rows that share none. *)
LEMMA UnitsDisjoint ==
  ASSUME NEW R, NEW Q, Sized(R), Sized(Q), R \cap Q = {}
  PROVE  Cardinality(Units(R \cup Q)) = Cardinality(Units(R)) + Cardinality(Units(Q))
<1>1. Units(R \cup Q) = Units(R) \cup Units(Q)
  BY DEF Units
<1>2. Units(R) \cap Units(Q) = {}
  BY DEF Units, UnitsOf
<1>3. IsFiniteSet(Units(R)) /\ IsFiniteSet(Units(Q))
      /\ Cardinality(Units(R)) \in Nat /\ Cardinality(Units(Q)) \in Nat
  BY UnitsFinite
<1>4. Cardinality(Units(R) \cup Units(Q)) =
        Cardinality(Units(R)) + Cardinality(Units(Q)) - Cardinality(Units(R) \cap Units(Q))
  BY <1>3, FS_Union
<1>5. Cardinality(Units(R) \cap Units(Q)) = 0
  BY <1>2, FS_EmptySet
<1>6. Cardinality(Units(R) \cup Units(Q)) = Cardinality(Units(R)) + Cardinality(Units(Q))
  BY <1>3, <1>4, <1>5
<1> QED
  BY <1>1, <1>6

(* ... and of a set of rows, one of them and the others. *)
LEMMA UnitsOfOne ==
  ASSUME NEW R, Sized(R), NEW r \in R
  PROVE  Cardinality(Units(R)) = r.size + Cardinality(Units(R \ {r}))
<1>1. Sized({r}) /\ Sized(R \ {r})
  BY FS_Singleton, FS_RemoveElement DEF Sized
<1>2. Units({r}) = UnitsOf(r)
  BY DEF Units
<1>3. Cardinality(Units({r})) = r.size
  BY <1>2, UnitsOfRow DEF Sized
<1>4. R = {r} \cup (R \ {r}) /\ {r} \cap (R \ {r}) = {}
  OBVIOUS
<1>5. Cardinality(Units({r} \cup (R \ {r}))) =
        Cardinality(Units({r})) + Cardinality(Units(R \ {r}))
  BY <1>1, <1>4, UnitsDisjoint
<1> QED
  BY <1>3, <1>4, <1>5

(* The fold adds up the sizes: every function that satisfies the recursion  *)
(* counts the units, as a smallest set where it does not would show.        *)
LEMMA BytesAreUnits ==
  ASSUME NEW R, Sized(R)
  PROVE  Bytes(R) = Cardinality(Units(R))
<1> DEFINE Pick(T) == CHOOSE r \in T : TRUE
           Adds(g) == g = [T \in SUBSET R |->
                             IF T = {} THEN 0 ELSE Pick(T).size + g[T \ {Pick(T)}]]
           count == [T \in SUBSET R |-> Cardinality(Units(T))]
           sum == CHOOSE g : Adds(g)
<1>1. Bytes(R) = sum[R]
  BY DEF Bytes, MapThenSumSet, MapThenFoldSet
<1>2. ASSUME NEW T \in SUBSET R PROVE Sized(T)
  BY FS_Subset DEF Sized
<1>3. Cardinality(Units({})) = 0
  BY FS_EmptySet DEF Units
<1>4. ASSUME NEW T \in SUBSET R, T # {}
      PROVE  /\ Pick(T) \in T /\ T \ {Pick(T)} \in SUBSET R
             /\ Cardinality(Units(T)) = Pick(T).size + Cardinality(Units(T \ {Pick(T)}))
  <2>1. Pick(T) \in T
    BY <1>4
  <2> HIDE DEF Pick
  <2> QED
    BY <1>2, <2>1, UnitsOfOne
<1>5. Adds(count)
  <2> HIDE DEF Pick
  <2>1. ASSUME NEW T \in SUBSET R
        PROVE  count[T] = IF T = {} THEN 0 ELSE Pick(T).size + count[T \ {Pick(T)}]
    BY <1>3, <1>4
  <2> HIDE DEF count
  <2>2. count = [T \in SUBSET R |-> count[T]]
    BY DEF count
  <2> QED
    BY <2>1, <2>2
<1>6. Adds(sum)
  <2> HIDE DEF Adds, count
  <2> QED
    BY <1>5
<1>7. ASSUME NEW T \in SUBSET R
      PROVE  sum[T] = IF T = {} THEN 0 ELSE Pick(T).size + sum[T \ {Pick(T)}]
  <2> HIDE DEF sum, Pick
  <2> QED
    BY <1>6
<1> DEFINE Wrong == {T \in SUBSET R : sum[T] # Cardinality(Units(T))}
<1>8. Wrong = {}
  <2> HIDE DEF Pick, sum
  <2>1. SUFFICES ASSUME Wrong # {} PROVE FALSE
    OBVIOUS
  <2>2. FiniteSubsetsOf(R) = SUBSET R
    BY FS_FiniteSubsetsOfFinite DEF Sized
  <2>3. Wrong \subseteq FiniteSubsetsOf(R)
    BY <2>2
  <2>4. PICK T \in Wrong : \A U \in Wrong : <<U, T>> \notin StrictSubsetOrdering(R)
    <3> HIDE DEF Wrong
    <3> QED
      BY <2>1, <2>3, FS_StrictSubsetOrderingWellFounded, WFMin
  <2>5. T \in SUBSET R /\ sum[T] # Cardinality(Units(T))
    OBVIOUS
  <2>6. T # {}
    BY <1>3, <1>7, <2>5
  <2>7. Pick(T) \in T /\ T \ {Pick(T)} \in SUBSET R
    BY <1>4, <2>5, <2>6
  <2>8. <<T \ {Pick(T)}, T>> \in StrictSubsetOrdering(R)
    BY <2>5, <2>7 DEF StrictSubsetOrdering
  <2>9. sum[T \ {Pick(T)}] = Cardinality(Units(T \ {Pick(T)}))
    BY <2>4, <2>7, <2>8
  <2>10. sum[T] = Pick(T).size + Cardinality(Units(T \ {Pick(T)}))
    BY <1>7, <2>5, <2>6, <2>9
  <2> QED
    BY <1>4, <2>5, <2>6, <2>10
<1>9. sum[R] = Cardinality(Units(R))
  <2> HIDE DEF sum
  <2> QED
    BY <1>8
<1> QED
  BY <1>1, <1>9

(* No rows, no bytes. *)
LEMMA BytesOfNone == Bytes({}) = 0
<1>1. Sized({}) /\ Cardinality(Units({})) = 0
  BY FS_EmptySet DEF Sized, Units
<1> QED
  BY <1>1, BytesAreUnits

(* Bytes are a number. *)
LEMMA BytesType ==
  ASSUME NEW R, Sized(R)
  PROVE  Bytes(R) \in Nat
BY BytesAreUnits, UnitsFinite

(* One row more. *)
LEMMA BytesAdd ==
  ASSUME NEW R, Sized(R), NEW r, r \notin R, r.size \in Nat
  PROVE  Sized(R \cup {r}) /\ Bytes(R \cup {r}) = Bytes(R) + r.size
<1>1. Sized(R \cup {r})
  BY FS_AddElement DEF Sized
<1>2. (R \cup {r}) \ {r} = R
  OBVIOUS
<1>3. Cardinality(Units(R \cup {r})) = r.size + Cardinality(Units(R))
  BY <1>1, <1>2, UnitsOfOne
<1> QED
  BY <1>1, <1>3, BytesAreUnits, UnitsFinite

(* Some rows less. *)
LEMMA BytesRemove ==
  ASSUME NEW R, Sized(R), NEW Q \in SUBSET R
  PROVE  /\ Sized(R \ Q) /\ Sized(Q)
         /\ Bytes(R \ Q) = Bytes(R) - Bytes(Q) /\ Bytes(R \ Q) <= Bytes(R)
<1>1. Sized(R \ Q) /\ Sized(Q)
  <2>1. R \ Q \in SUBSET R
    OBVIOUS
  <2> QED
    BY <2>1, FS_Subset DEF Sized
<1>2. R = (R \ Q) \cup Q /\ (R \ Q) \cap Q = {}
  OBVIOUS
<1>3. Cardinality(Units(R)) = Cardinality(Units(R \ Q)) + Cardinality(Units(Q))
  BY <1>1, <1>2, UnitsDisjoint
<1>4. Bytes(R) \in Nat /\ Bytes(R \ Q) \in Nat /\ Bytes(Q) \in Nat
  BY <1>1, BytesType
<1> QED
  BY <1>1, <1>3, <1>4, BytesAreUnits

-----------------------------------------------------------------------------
(* The invariant.                                                          *)

(* A file that _load_and_verify_counters accepts. *)
Good(f) ==
  /\ f \in Files /\ Sized(f.rows)
  /\ f.count = Cardinality(f.rows) /\ f.bytes = Bytes(f.rows)
  /\ f.count <= MaxRows /\ f.bytes <= MaxBytes
  /\ \A r \in f.rows : r.seq < f.next
  /\ \A r, q \in f.rows : r.key = q.key => r = q
  /\ \A r, q \in f.rows : r.seq = q.seq => r = q

(* What a transaction on f may have come to: expired rows are gone, and one *)
(* row with the next number may be new.                                    *)
Shrinks(f, g, t) == g.rows \subseteq f.rows /\ \A r \in f.rows \ g.rows : r.expires <= t
Follows(f, g, t) ==
  \/ Shrinks(f, g, t) /\ g.next = f.next
  \/ /\ g.next = f.next + 1
     /\ \E r \in g.rows : /\ r \notin f.rows /\ r.seq = f.next
                          /\ Shrinks(f, [g EXCEPT !.rows = @ \ {r}], t)

(* Where a connection is, and what it then may rely on. *)
PlaceInv(c) ==
  /\ state[c] # "read_only" => reason[c] = "none"
  /\ pc[c] \in Opening => state[c] = "closed"
  /\ pc[c] \in {"begin", "commit"} => state[c] = "healthy"
  /\ pc[c] = "begin" => item[c] \in Observations /\ at[c] <= now

(* A transaction is alone, and its outcome follows the file; a transaction  *)
(* that could not be rolled back is that of a store that is read-only.     *)
DraftInv(c) ==
  /\ pc[c] = "commit" => lock = c /\ Good(draft[c]) /\ Follows(file, draft[c], now)
  /\ lock = c => pc[c] = "commit" \/ state[c] = "read_only"

(* The counters, in memory or just read, are those of the file until        *)
(* somebody else commits.  A damaged row stays until somebody else commits: *)
(* whoever found it is read-only.                                          *)
CountersInv(c) ==
  /\ state[c] = "healthy" /\ ~foreign[c] => counters[c] = Counts(file)
  /\ pc[c] = "verify" /\ ~foreign[c] => Counts(draft[c]) = Counts(file)
  /\ reason[c] = "record_integrity_error" => foreign[c] \/ damaged # {}

(* Whoever has a receipt has it for a row of its own. *)
ReceiptsInv ==
  /\ \A r \in receipts : r.seq < file.next
  /\ \A r \in receipts : r \in file.rows \/ r.expires <= now
  /\ \A r, q \in receipts \cup file.rows : r.seq = q.seq => r = q

IInv ==
  /\ TypeOK /\ Good(file) /\ ReceiptsInv
  /\ \A c \in Connections : PlaceInv(c) /\ DraftInv(c) /\ CountersInv(c)

-----------------------------------------------------------------------------
(* What a change to the file leaves.                                       *)

(* A prefix of an order of rows consists of rows. *)
LEMMA FirstIsSubset == \A R, n : First(R, n) \subseteq R
BY DEF First

(* Rows that go leave a good file, whichever they are. *)
LEMMA WithoutIsGood ==
  ASSUME NEW f, Good(f), NEW gone \in SUBSET f.rows
  PROVE  /\ Good(Without(f, gone))
         /\ Without(f, gone).rows = f.rows \ gone /\ Without(f, gone).next = f.next
         /\ Without(f, gone).count <= f.count /\ Without(f, gone).bytes <= f.bytes
<1> DEFINE g == Without(f, gone)
<1>1. f \in Files /\ Sized(f.rows) /\ MaxRows \in Nat /\ MaxBytes \in Nat
  BY StoreAssumption DEF Good
<1>2. /\ g.made = f.made /\ g.rows = f.rows \ gone /\ g.next = f.next
      /\ g.count = f.count - Cardinality(gone) /\ g.bytes = f.bytes - Bytes(gone)
  BY <1>1 DEF Without, Files
<1> HIDE DEF g
<1>3. /\ IsFiniteSet(gone) /\ Cardinality(gone) \in Nat /\ Cardinality(f.rows \ gone) \in Nat
      /\ Cardinality(f.rows \ gone) = Cardinality(f.rows) - Cardinality(gone)
      /\ Cardinality(f.rows) \in Nat
  <2>1. IsFiniteSet(gone) /\ IsFiniteSet(f.rows) /\ IsFiniteSet(f.rows \ gone)
    BY <1>1, FS_Subset, FS_Difference DEF Sized
  <2>2. Cardinality(f.rows \ gone) = Cardinality(f.rows) - Cardinality(f.rows \cap gone)
    BY <2>1, FS_Difference
  <2>3. f.rows \cap gone = gone
    OBVIOUS
  <2> QED
    BY <2>1, <2>2, <2>3, FS_CardinalityType
<1>4. /\ Sized(f.rows \ gone) /\ Bytes(f.rows \ gone) = f.bytes - Bytes(gone)
      /\ Bytes(f.rows \ gone) \in Nat /\ Bytes(f.rows \ gone) <= f.bytes
  BY <1>1, BytesRemove, BytesType DEF Good
<1>5. g.count = Cardinality(g.rows) /\ g.count <= f.count /\ g.count \in Nat
  BY <1>2, <1>3 DEF Good
<1>6. g.bytes = Bytes(g.rows) /\ g.bytes <= f.bytes /\ g.bytes \in Nat
  BY <1>2, <1>4
<1>7. g.count <= MaxRows /\ g.bytes <= MaxBytes
  BY <1>1, <1>5, <1>6 DEF Good, Files
<1>8. g \in Files
  BY <1>1, <1>2, <1>5, <1>6 DEF g, Without, Files
<1>9. Good(g)
  BY <1>2, <1>4, <1>5, <1>6, <1>7, <1>8 DEF Good
<1> QED
  BY <1>2, <1>5, <1>6, <1>9 DEF g

NewRow(f, o, t) ==
  [key |-> o.key, size |-> o.size, ttl |-> o.ttl, seq |-> f.next, expires |-> t + o.ttl]

(* A row that fits, under a key and a number of its own, leaves a good file. *)
LEMMA WithIsGood ==
  ASSUME NEW f, Good(f), NEW o \in Observations, NEW t \in Nat,
         ~Pressed(f, o), \A r \in f.rows : r.key # o.key
  PROVE  /\ Good(With(f, o, t))
         /\ With(f, o, t).rows = f.rows \cup {NewRow(f, o, t)}
         /\ With(f, o, t).next = f.next + 1
         /\ NewRow(f, o, t) \notin f.rows
<1> DEFINE g == With(f, o, t)
           new == NewRow(f, o, t)
<1>1. f \in Files /\ Sized(f.rows) /\ MaxRows \in Nat /\ MaxBytes \in Nat /\ f.rows \subseteq Rows
  BY StoreAssumption DEF Good, Files
<1>2. o.size \in Nat /\ o.ttl \in Nat /\ o.key \in {p.key : p \in Observations}
  BY StoreAssumption
<1>3. new \in Rows /\ new.size = o.size /\ new.key = o.key /\ new.seq = f.next
  BY <1>1, <1>2 DEF NewRow, Rows, Files
<1>4. /\ g.made = f.made /\ g.rows = f.rows \cup {new} /\ g.next = f.next + 1
      /\ g.count = f.count + 1 /\ g.bytes = f.bytes + o.size
  BY <1>1 DEF With, Files, NewRow
<1>5. new \notin f.rows
  BY <1>3
<1> HIDE DEF g, new
<1>6. /\ Sized(f.rows \cup {new}) /\ Bytes(f.rows \cup {new}) = Bytes(f.rows) + o.size
  BY <1>1, <1>2, <1>3, <1>5, BytesAdd
<1>7. Cardinality(f.rows \cup {new}) = Cardinality(f.rows) + 1
  BY <1>1, <1>5, FS_AddElement DEF Sized
<1>8. g.count = Cardinality(g.rows) /\ g.bytes = Bytes(g.rows)
  BY <1>4, <1>6, <1>7 DEF Good
<1>9. f.count \in Nat /\ f.bytes \in Nat /\ f.next \in Nat
  BY <1>1 DEF Files
<1>10. g.count <= MaxRows /\ g.bytes <= MaxBytes
  BY <1>1, <1>2, <1>4, <1>9 DEF Pressed
<1>11. g \in Files
  <2>1. g = [f EXCEPT !.rows = @ \cup {new}, !.next = @ + 1, !.count = @ + 1,
                      !.bytes = @ + o.size]
    BY DEF g, new, With, NewRow
  <2>2. f.rows \cup {new} \in SUBSET Rows
    BY <1>1, <1>3
  <2>3. f.next + 1 \in Nat /\ f.count + 1 \in Nat /\ f.bytes + o.size \in Nat
    BY <1>2, <1>9
  <2> QED
    BY <1>1, <2>1, <2>2, <2>3 DEF Files
<1>12. \A r \in g.rows : r.seq < g.next
  BY <1>1, <1>3, <1>4, <1>9 DEF Good, Rows
<1>13. \A r, q \in g.rows : r.key = q.key => r = q
  BY <1>3, <1>4 DEF Good
<1>14. \A r, q \in g.rows : r.seq = q.seq => r = q
  <2>1. \A r \in f.rows : r.seq # new.seq
    BY <1>1, <1>3, <1>9 DEF Good, Rows
  <2> QED
    BY <1>4, <2>1 DEF Good
<1>15. Good(g)
  BY <1>4, <1>6, <1>8, <1>10, <1>11, <1>12, <1>13, <1>14 DEF Good
<1> QED
  BY <1>4, <1>5, <1>15 DEF g, new

(* Under pressure only expired rows go. *)
LEMMA RelievedIsGood ==
  ASSUME NEW f, Good(f), NEW o \in Observations, NEW t \in Nat
  PROVE  /\ Good(Relieved(f, o, t)) /\ Shrinks(f, Relieved(f, o, t), t)
         /\ Relieved(f, o, t).next = f.next
<1>1. CASE Pressed(f, o)
  <2> DEFINE gone == First(Expired(f, t), MaxPurgeRows)
  <2>1. gone \subseteq Expired(f, t) /\ gone \in SUBSET f.rows
    BY FirstIsSubset DEF Expired
  <2>2. \A r \in gone : r.expires <= t
    BY <2>1 DEF Expired
  <2>3. Relieved(f, o, t) = Without(f, gone)
    BY <1>1 DEF Relieved
  <2> HIDE DEF gone
  <2> QED
    BY <2>1, <2>2, <2>3, WithoutIsGood DEF Shrinks
<1>2. CASE ~Pressed(f, o)
  BY <1>2 DEF Relieved, Shrinks
<1> QED
  BY <1>1, <1>2

(* What a transaction may have come to stays so as time passes. *)
LEMMA FollowsLater ==
  ASSUME NEW f \in Files, NEW g, NEW t \in Nat, NEW u \in Nat, t <= u, Follows(f, g, t)
  PROVE  Follows(f, g, u)
<1>1. \A r \in f.rows : r.expires \in Nat
  BY DEF Files, Rows
<1>2. ASSUME NEW h, Shrinks(f, h, t) PROVE Shrinks(f, h, u)
  BY <1>1, <1>2 DEF Shrinks
<1> QED
  BY <1>2 DEF Follows

-----------------------------------------------------------------------------
(* What a transaction may come to.                                         *)

(* put() writes a row that fits, behind expired rows. *)
LEMMA PutOutcome ==
  ASSUME NEW f, Good(f), NEW o \in Observations, NEW t \in Nat, NEW u \in Nat, t <= u,
         \A r \in f.rows : r.key # o.key, ~Pressed(Relieved(f, o, t), o)
  PROVE  /\ Good(With(Relieved(f, o, t), o, t))
         /\ Follows(f, With(Relieved(f, o, t), o, t), u)
<1> DEFINE room == Relieved(f, o, t)
           g == With(room, o, t)
           new == NewRow(room, o, t)
<1>1. Good(room) /\ Shrinks(f, room, t) /\ room.next = f.next
  BY RelievedIsGood
<1>2. \A r \in room.rows : r.key # o.key
  BY <1>1 DEF Shrinks
<1> HIDE DEF room
<1>3. /\ Good(g) /\ g.rows = room.rows \cup {new} /\ g.next = f.next + 1
      /\ new \notin room.rows
  BY <1>1, <1>2, WithIsGood DEF room
<1>4. new.seq = f.next
  BY <1>1 DEF NewRow
<1>5. new \notin f.rows
  BY <1>4 DEF Good, Files, Rows
<1> HIDE DEF g, new
<1>6. f \in Files /\ g \in Files /\ (\A r \in f.rows : r.expires \in Nat)
  BY <1>3 DEF Good, Files, Rows
<1>7. [g EXCEPT !.rows = @ \ {new}].rows = room.rows
  BY <1>3, <1>6 DEF Files
<1>8. Shrinks(f, [g EXCEPT !.rows = @ \ {new}], u)
  BY <1>1, <1>6, <1>7 DEF Shrinks
<1>9. Follows(f, g, u)
  BY <1>3, <1>4, <1>5, <1>8 DEF Follows
<1> QED
  BY <1>3, <1>9 DEF g, new, room

(* purge_expired() removes some expired rows. *)
LEMMA PurgeOutcome ==
  ASSUME NEW f, Good(f), NEW n, NEW t \in Nat
  PROVE  /\ Good(Without(f, First(Expired(f, t), n)))
         /\ Follows(f, Without(f, First(Expired(f, t), n)), t)
<1> DEFINE gone == First(Expired(f, t), n)
<1>1. gone \subseteq Expired(f, t) /\ gone \in SUBSET f.rows
  BY FirstIsSubset DEF Expired
<1>2. \A r \in gone : r.expires <= t
  BY <1>1 DEF Expired
<1> HIDE DEF gone
<1>3. /\ Good(Without(f, gone)) /\ Without(f, gone).rows = f.rows \ gone
      /\ Without(f, gone).next = f.next
  BY <1>1, WithoutIsGood
<1>4. Follows(f, Without(f, gone), t)
  BY <1>2, <1>3 DEF Follows, Shrinks
<1> QED
  BY <1>3, <1>4 DEF gone

(* put() begins its transaction with such an outcome. *)
LEMMA PutWritesGood ==
  ASSUME IInv, NEW c \in Connections, PutWrites(c)
  PROVE  \E g : /\ draft' = [draft EXCEPT ![c] = g]
                /\ Good(g) /\ Follows(file, g, now)
<1>1. Good(file) /\ item[c] \in Observations /\ at[c] \in Nat /\ now \in Nat /\ at[c] <= now
  BY StoreAssumption DEF IInv, TypeOK, PlaceInv, PutWrites
<1>2. \A r \in file.rows : r.key # item[c].key
  BY DEF PutWrites, SameKey
<1>3. /\ ~Pressed(Relieved(file, item[c], at[c]), item[c])
      /\ draft' = [draft EXCEPT ![c] = With(Relieved(file, item[c], at[c]), item[c], at[c])]
  BY DEF PutWrites
<1> QED
  BY <1>1, <1>2, <1>3, PutOutcome

(* purge_expired() ends at once, well or badly, or begins a transaction    *)
(* that removes expired rows.                                              *)
LEMMA PurgeBegins ==
  ASSUME IInv, NEW c \in Connections, Purge(c)
  PROVE  \/ WriteError(c, TRUE)
         \/ Return(c) /\ UNCHANGED <<lock, health>>
         \/ IntegrityError(c, TRUE) /\ counters[c] # Counts(file)
         \/ /\ Trusted(c) /\ lock' = c /\ Goto(c, "commit") /\ UNCHANGED <<health, item, at>>
            /\ \E g : draft' = [draft EXCEPT ![c] = g] /\ Good(g) /\ Follows(file, g, now)
<1>1. Good(file) /\ now \in Nat
  BY StoreAssumption DEF IInv, TypeOK
<1>2. ASSUME NEW n \in 1..MaxPurgeRows,
             draft' = [draft EXCEPT ![c] = Without(file, First(Expired(file, now), n))]
      PROVE  \E g : draft' = [draft EXCEPT ![c] = g] /\ Good(g) /\ Follows(file, g, now)
  BY <1>1, <1>2, PurgeOutcome
<1> QED
  BY <1>2 DEF Purge

(* A duplicate is answered with a row of the file, unless it is damaged. *)
LEMMA DuplicateHasRow ==
  ASSUME NEW c, NEW o, SameKey(o) # {}, Duplicate(c, o)
  PROVE  /\ \E r \in file.rows : receipts' \in {receipts, receipts \cup {r}}
         /\ \/ Return(c) /\ UNCHANGED <<lock, health>>
            \/ IntegrityError(c, FALSE) /\ damaged # {}
BY DEF Duplicate, SameKey

-----------------------------------------------------------------------------
(* What a step of one connection leaves alone.                             *)
Reasons == {"none", "sqlite_error", "rollback_failed", "record_integrity_error",
            "sequence_exhausted"}
Places == {"idle", "begin", "commit"} \cup Opening

HealthType ==
  /\ state \in [Connections -> {"closed", "healthy", "read_only"}]
  /\ reason \in [Connections -> Reasons]
  /\ counters \in [Connections -> Counters]
CallType ==
  /\ pc \in [Connections -> Places]
  /\ item \in [Connections -> Observations \cup {NoItem}] /\ at \in [Connections -> Nat]
  /\ draft \in [Connections -> Files]

(* The connections other than c have the same call and health as before.   *)
CallsStay(c) ==
  \A d \in Connections \ {c} :
    pc'[d] = pc[d] /\ item'[d] = item[d] /\ at'[d] = at[d] /\ draft'[d] = draft[d]
HealthStays(c) ==
  \A d \in Connections \ {c} :
    state'[d] = state[d] /\ reason'[d] = reason[d] /\ counters'[d] = counters[d]
LockStays(c) ==
  /\ lock' \in Connections \cup {Nobody} /\ lock' \in {lock, c, Nobody}
  /\ \A d \in Connections \ {c} : lock = d => lock' = d

(* The type invariant, by what a step changes together. *)
LEMMA TypeParts ==
  TypeOK <=> /\ damaged \subseteq file.rows
             /\ file \in Files /\ lock \in Connections \cup {Nobody} /\ now \in 0..MaxTime
             /\ HealthType /\ CallType
             /\ foreign \in [Connections -> BOOLEAN] /\ receipts \subseteq Rows
BY DEF TypeOK, HealthType, CallType, Reasons, Places

(* NoFile is a file. *)
LEMMA NoFileType == NoFile \in Files /\ NoCounts \in Counters
BY DEF NoFile, Files, NoCounts, Counters

(* What a connection keeps of a file in memory. *)
LEMMA CountsType == \A f \in Files : Counts(f) \in Counters
BY DEF Counts, Files, Counters

(* A call that is over leaves the calls of the others alone. *)
LEMMA ReturnKeeps ==
  ASSUME CallType, NEW c \in Connections, Return(c)
  PROVE  CallType' /\ CallsStay(c) /\ pc'[c] = "idle"
<1>1. /\ pc' = [pc EXCEPT ![c] = "idle"] /\ item' = [item EXCEPT ![c] = NoItem]
      /\ at' = [at EXCEPT ![c] = 0] /\ draft' = [draft EXCEPT ![c] = NoFile]
  BY DEF Return
<1>2. pc' \in [Connections -> Places] /\ pc'[c] = "idle"
  BY <1>1 DEF CallType, Places
<1>3. item' \in [Connections -> Observations \cup {NoItem}]
  BY <1>1 DEF CallType
<1>4. at' \in [Connections -> Nat]
  BY <1>1 DEF CallType
<1>5. draft' \in [Connections -> Files]
  BY <1>1, NoFileType DEF CallType
<1>6. CallsStay(c)
  BY <1>1 DEF CallType, CallsStay
<1> QED
  BY <1>2, <1>3, <1>4, <1>5, <1>6 DEF CallType

(* So does one that goes on, with another draft or the same. *)
LEMMA GotoKeeps ==
  ASSUME CallType, NEW c \in Connections, NEW place \in Places, Goto(c, place),
         UNCHANGED <<item, at>>,
         UNCHANGED draft \/ \E g \in Files : draft' = [draft EXCEPT ![c] = g]
  PROVE  CallType' /\ CallsStay(c) /\ pc'[c] = place
<1>1. pc' = [pc EXCEPT ![c] = place]
  BY DEF Goto
<1>2. pc' \in [Connections -> Places] /\ pc'[c] = place
  BY <1>1 DEF CallType
<1>3. draft' \in [Connections -> Files]
  BY DEF CallType
<1>4. CallsStay(c)
  BY <1>1 DEF CallType, CallsStay
<1> QED
  BY <1>2, <1>3, <1>4 DEF CallType

(* A store that becomes read-only leaves the health of the others alone. *)
LEMMA LatchKeeps ==
  ASSUME HealthType, NEW c \in Connections, NEW why \in Reasons, Latch(c, why)
  PROVE  /\ HealthType' /\ HealthStays(c)
         /\ state'[c] = "read_only" /\ reason'[c] = why /\ counters' = counters
<1>1. /\ state' = [state EXCEPT ![c] = "read_only"] /\ reason' = [reason EXCEPT ![c] = why]
      /\ counters' = counters
  BY DEF Latch
<1>2. state' \in [Connections -> {"closed", "healthy", "read_only"}]
  BY <1>1 DEF HealthType
<1>3. reason' \in [Connections -> Reasons]
  BY <1>1 DEF HealthType
<1> QED
  BY <1>1, <1>2, <1>3 DEF HealthType, HealthStays

(* A connection that opens, commits or goes has its health set anew. *)
LEMMA HealthSet ==
  ASSUME HealthType, NEW c \in Connections, NEW s \in {"closed", "healthy"},
         NEW k \in Counters,
         \/ /\ state' = [state EXCEPT ![c] = s]
            /\ reason' = [reason EXCEPT ![c] = "none"]
         \/ UNCHANGED <<state, reason>>,
         counters' = [counters EXCEPT ![c] = k]
  PROVE  HealthType' /\ HealthStays(c) /\ counters'[c] = k
<1>1. state' \in [Connections -> {"closed", "healthy", "read_only"}]
  BY DEF HealthType
<1>2. reason' \in [Connections -> Reasons]
  BY DEF HealthType, Reasons
<1>3. counters' \in [Connections -> Counters] /\ counters'[c] = k
  BY DEF HealthType
<1> QED
  BY <1>1, <1>2, <1>3 DEF HealthType, HealthStays

(* Nobody gives a lock back that another connection has. *)
LEMMA UnlockKeeps ==
  ASSUME lock \in Connections \cup {Nobody}, NEW c \in Connections, Unlock(c)
  PROVE  LockStays(c)
BY StoreAssumption DEF Unlock, LockStays

(* A write that failed, in its three endings. *)
LEMMA WriteErrorKeeps ==
  ASSUME TypeOK, NEW c \in Connections, NEW begun, WriteError(c, begun)
  PROVE  /\ CallType' /\ CallsStay(c) /\ pc'[c] = "idle"
         /\ HealthType' /\ HealthStays(c) /\ LockStays(c)
         /\ \/ UNCHANGED health
            \/ /\ state'[c] = "read_only" /\ counters' = counters
               /\ reason'[c] \in {"sqlite_error", "rollback_failed"}
<1> USE TypeParts
<1>1. Return(c)
  BY DEF WriteError
<1>2. CallType' /\ CallsStay(c) /\ pc'[c] = "idle"
  BY <1>1, ReturnKeeps
<1>3. LockStays(c)
  BY StoreAssumption, UnlockKeeps DEF WriteError, LockStays
<1>4. CASE UNCHANGED health
  BY <1>2, <1>3, <1>4 DEF health, HealthType, HealthStays
<1>5. ASSUME NEW why \in {"sqlite_error", "rollback_failed"}, Latch(c, why)
      PROVE  /\ HealthType' /\ HealthStays(c)
             /\ state'[c] = "read_only" /\ counters' = counters /\ reason'[c] = why
  BY <1>5, LatchKeeps DEF Reasons
<1> QED
  BY <1>2, <1>3, <1>4, <1>5 DEF WriteError

(* A record that did not verify, in its two endings. *)
LEMMA IntegrityErrorKeeps ==
  ASSUME TypeOK, NEW c \in Connections, NEW begun, IntegrityError(c, begun)
  PROVE  /\ CallType' /\ CallsStay(c) /\ pc'[c] = "idle"
         /\ HealthType' /\ HealthStays(c) /\ LockStays(c)
         /\ state'[c] = "read_only" /\ counters' = counters
<1> USE TypeParts
<1>1. Return(c)
  BY DEF IntegrityError
<1>2. CallType' /\ CallsStay(c) /\ pc'[c] = "idle"
  BY <1>1, ReturnKeeps
<1>3. LockStays(c)
  BY StoreAssumption, UnlockKeeps DEF IntegrityError, LockStays
<1>4. PICK why \in {"record_integrity_error", "rollback_failed"} : Latch(c, why)
  BY DEF IntegrityError
<1>5. HealthType' /\ HealthStays(c) /\ state'[c] = "read_only" /\ counters' = counters
  BY <1>4, LatchKeeps DEF Reasons
<1> QED
  BY <1>2, <1>3, <1>5

(* One step of a program that has the file open. *)
ConnectionStep(c) ==
  \/ Open(c) \/ Purge(c) \/ ReadFails(c) \/ Close(c) \/ Crash(c) \/ Step(c)
  \/ \E o \in Observations : Put(c, o)

(* No step touches another connection's call, health or lock. *)
LEMMA StepKeeps ==
  ASSUME IInv, NEW c \in Connections, ConnectionStep(c)
  PROVE  CallType' /\ CallsStay(c) /\ HealthType' /\ HealthStays(c) /\ LockStays(c)
<1> DEFINE Goal == CallType' /\ CallsStay(c) /\ HealthType' /\ HealthStays(c) /\ LockStays(c)
<1>1. TypeOK /\ CallType /\ HealthType /\ lock \in Connections \cup {Nobody} /\ file \in Files
  BY TypeParts DEF IInv
<1>2. ASSUME UNCHANGED health PROVE HealthType' /\ HealthStays(c)
  BY <1>1, <1>2 DEF health, HealthType, HealthStays
<1>3. ASSUME UNCHANGED lock PROVE LockStays(c)
  BY <1>1, <1>3 DEF LockStays
<1>4. ASSUME Return(c) PROVE CallType' /\ CallsStay(c)
  BY <1>1, <1>4, ReturnKeeps
<1>5. ASSUME NEW why \in Reasons, Latch(c, why) PROVE HealthType' /\ HealthStays(c)
  BY <1>1, <1>5, LatchKeeps
<1>6. ASSUME NEW place \in Places, Goto(c, place), UNCHANGED <<item, at>>,
             UNCHANGED draft \/ \E g \in Files : draft' = [draft EXCEPT ![c] = g]
      PROVE  CallType' /\ CallsStay(c)
  BY <1>1, <1>6, GotoKeeps
<1>7. ASSUME NEW begun, WriteError(c, begun) PROVE Goal
  BY <1>1, <1>7, WriteErrorKeeps
<1>7a. ASSUME NEW begun, IntegrityError(c, begun) PROVE Goal
  BY <1>1, <1>7a, IntegrityErrorKeeps
<1>7b. ASSUME UNCHANGED call PROVE CallType' /\ CallsStay(c)
  BY <1>1, <1>7b DEF call, CallType, CallsStay
<1>8. {"idle", "begin", "commit", "create", "load", "verify"} \subseteq Places
  BY DEF Places, Opening
<1>9. {"sqlite_error", "record_integrity_error", "sequence_exhausted"} \subseteq Reasons
  BY DEF Reasons
<1>10. CASE Open(c)
  <2>1. \E place \in {"load", "create"} : Goto(c, place)
    BY <1>10 DEF Open
  <2>2. UNCHANGED <<lock, health, item, at, draft>>
    BY <1>10 DEF Open
  <2> QED
    BY <1>2, <1>3, <1>6, <1>8, <2>1, <2>2
<1>11. CASE CreateSchema(c)
  <2>1. Goto(c, "load") /\ UNCHANGED <<lock, health, item, at, draft>>
    BY <1>11 DEF CreateSchema
  <2> QED
    BY <1>2, <1>3, <1>6, <1>8, <2>1
<1>12. CASE LoadState(c)
  <2>1. /\ Goto(c, "verify") /\ UNCHANGED <<lock, health, item, at>>
        /\ draft' = [draft EXCEPT ![c] = [file EXCEPT !.rows = {}]]
    BY <1>12 DEF LoadState
  <2>2. [file EXCEPT !.rows = {}] \in Files
    BY <1>1 DEF Files
  <2> QED
    BY <1>2, <1>3, <1>6, <1>8, <2>1, <2>2
<1>13. CASE Verify(c)
  <2>1. Return(c) /\ UNCHANGED lock
    BY <1>13 DEF Verify
  <2>2. Counts(draft[c]) \in Counters
    BY <1>1, CountsType DEF CallType
  <2>3. HealthType' /\ HealthStays(c)
    BY <1>1, <1>13, <2>2, HealthSet DEF Verify
  <2> QED
    BY <1>3, <1>4, <2>1, <2>3
<1>14. CASE OpenFails(c)
  BY <1>2, <1>3, <1>4, <1>14 DEF OpenFails
<1>15. ASSUME NEW o \in Observations, Put(c, o) PROVE Goal
  <2>1. CASE SameKey(o) # {} /\ Duplicate(c, o)
    BY <1>2, <1>3, <1>4, <1>7a, <2>1, DuplicateHasRow
  <2>2. CASE /\ Goto(c, "begin")
             /\ item' = [item EXCEPT ![c] = o] /\ at' = [at EXCEPT ![c] = now]
             /\ UNCHANGED <<lock, health, draft>>
    <3>1. now \in Nat
      BY <1>1, StoreAssumption DEF TypeOK
    <3>2. pc' = [pc EXCEPT ![c] = "begin"]
      BY <2>2 DEF Goto
    <3>3. pc' \in [Connections -> Places]
      BY <1>1, <1>8, <3>2 DEF CallType
    <3>4. item' \in [Connections -> Observations \cup {NoItem}]
      BY <1>1, <2>2 DEF CallType
    <3>5. at' \in [Connections -> Nat]
      BY <1>1, <2>2, <3>1 DEF CallType
    <3>6. CallType' /\ CallsStay(c)
      BY <1>1, <2>2, <3>2, <3>3, <3>4, <3>5 DEF CallType, CallsStay
    <3> QED
      BY <1>2, <1>3, <2>2, <3>6
  <2>3. CASE WriteError(c, FALSE)
    BY <1>7, <2>3
  <2> QED
    BY <1>15, <2>1, <2>2, <2>3 DEF Put
<1>16. CASE Busy(c)
  BY <1>2, <1>3, <1>4, <1>16 DEF Busy
<1>17. CASE PutDuplicate(c)
  <2>1. SameKey(item[c]) # {} /\ Duplicate(c, item[c])
    BY <1>17 DEF PutDuplicate
  <2> QED
    BY <1>2, <1>3, <1>4, <1>7a, <2>1, DuplicateHasRow
<1>18. CASE PutMistrusts(c)
  BY <1>18, <1>7a DEF PutMistrusts
<1>19. CASE PutExhausted(c)
  BY <1>3, <1>4, <1>5, <1>9, <1>19 DEF PutExhausted
<1>20. CASE PutFull(c)
  BY <1>2, <1>3, <1>4, <1>20 DEF PutFull
<1>21. CASE PutWrites(c)
  <2>1. Goto(c, "commit") /\ lock' = c /\ lock = Nobody /\ UNCHANGED <<health, item, at>>
    BY <1>21 DEF PutWrites, Trusted
  <2>2. \E g \in Files : draft' = [draft EXCEPT ![c] = g]
    BY <1>21, PutWritesGood DEF Good
  <2>3. LockStays(c)
    BY <2>1, StoreAssumption DEF LockStays
  <2> QED
    BY <1>2, <1>6, <1>8, <2>1, <2>2, <2>3
<1>22. CASE Purge(c)
  <2>1. CASE WriteError(c, TRUE)
    BY <1>7, <2>1
  <2>2. CASE Return(c) /\ UNCHANGED <<lock, health>>
    BY <1>2, <1>3, <1>4, <2>2
  <2>3. CASE IntegrityError(c, TRUE)
    BY <1>7a, <2>3
  <2>4. CASE /\ Trusted(c) /\ lock' = c /\ Goto(c, "commit") /\ UNCHANGED <<health, item, at>>
             /\ \E g : draft' = [draft EXCEPT ![c] = g] /\ Good(g) /\ Follows(file, g, now)
    <3>1. LockStays(c)
      BY <2>4, StoreAssumption DEF LockStays, Trusted
    <3>2. \E g \in Files : draft' = [draft EXCEPT ![c] = g]
      BY <2>4 DEF Good
    <3> QED
      BY <1>2, <1>6, <1>8, <2>4, <3>1, <3>2
  <2> QED
    BY <1>22, <2>1, <2>2, <2>3, <2>4, PurgeBegins
<1>23. CASE Commit(c)
  <2>1. Return(c) /\ lock' = Nobody
    BY <1>23 DEF Commit
  <2>2. lock = c
    BY <1>23 DEF Commit, IInv, DraftInv
  <2>3. Counts(draft[c]) \in Counters
    BY <1>1, CountsType DEF CallType
  <2>4. HealthType' /\ HealthStays(c)
    BY <1>1, <1>23, <2>3, HealthSet DEF Commit
  <2>5. LockStays(c)
    BY <2>1, <2>2, StoreAssumption DEF LockStays
  <2> QED
    BY <1>4, <2>1, <2>4, <2>5
<1>24. CASE TransactionFails(c)
  BY <1>7, <1>24 DEF TransactionFails
<1>25. CASE ReadFails(c)
  BY <1>3, <1>5, <1>9, <1>25, <1>7b DEF ReadFails
<1>26. CASE Close(c) \/ Crash(c)
  <2>1. Return(c) /\ Unlock(c)
    BY <1>26 DEF Close, Crash
  <2>2. HealthType' /\ HealthStays(c)
    BY <1>1, <1>26, HealthSet, NoFileType DEF Close, Crash
  <2>3. LockStays(c)
    BY <1>1, <2>1, UnlockKeeps
  <2> QED
    BY <1>4, <2>1, <2>2, <2>3
<1> QED
  BY <1>10, <1>11, <1>12, <1>13, <1>14, <1>15, <1>16, <1>17, <1>18, <1>19, <1>20, <1>21,
     <1>22, <1>23, <1>24, <1>25, <1>26 DEF ConnectionStep, Step

(* Only a commit, of the connection or of its last breath, changes rows,    *)
(* numbers and counters of the file.                                       *)
SameFile ==
  /\ file' \in Files /\ file'.rows = file.rows /\ file'.next = file.next
  /\ file'.count = file.count /\ file'.bytes = file.bytes
Committed(c) ==
  /\ pc[c] = "commit" /\ file' = draft[c] /\ foreign' = Others(c)
  /\ damaged' = damaged \cap draft[c].rows

(* How a step may change the file, the receipts and who is foreign to it. *)
LEMMA FileChanges ==
  ASSUME IInv, NEW c \in Connections, ConnectionStep(c)
  PROVE  /\ \/ /\ SameFile /\ UNCHANGED damaged
               /\ receipts' = receipts \/ \E r \in file.rows : receipts' = receipts \cup {r}
               /\ UNCHANGED foreign \/ foreign' = [foreign EXCEPT ![c] = FALSE]
            \/ /\ Committed(c)
               /\ \/ UNCHANGED receipts
                  \/ receipts' = receipts \cup (draft[c].rows \ file.rows)
         /\ UNCHANGED now
<1>1. file \in Files
  BY TypeParts DEF IInv
<1>2. ASSUME UNCHANGED file PROVE SameFile
  BY <1>1, <1>2 DEF SameFile
<1>3. CASE Open(c) \/ Verify(c) \/ OpenFails(c) \/ Busy(c)
  BY <1>2, <1>3 DEF Open, Verify, OpenFails, Busy
<1>4. CASE CreateSchema(c)
  <2>1. file' = [file EXCEPT !.made = TRUE] /\ UNCHANGED <<now, damaged, foreign, receipts>>
    BY <1>4 DEF CreateSchema
  <2>2. SameFile
    BY <1>1, <2>1 DEF SameFile, Files
  <2> QED
    BY <2>1, <2>2
<1>5. CASE LoadState(c)
  BY <1>2, <1>5 DEF LoadState
<1>6. ASSUME NEW o \in Observations, Put(c, o) PROVE UNCHANGED <<file, now, damaged, foreign>>
  BY <1>6 DEF Put
<1>7. ASSUME NEW o \in Observations, Put(c, o)
      PROVE  receipts' = receipts \/ \E r \in file.rows : receipts' = receipts \cup {r}
  BY <1>7, DuplicateHasRow DEF Put
<1>8. CASE PutDuplicate(c)
  <2>1. SameKey(item[c]) # {} /\ Duplicate(c, item[c])
        /\ UNCHANGED <<file, now, damaged, foreign>>
    BY <1>8 DEF PutDuplicate
  <2> QED
    BY <1>2, <2>1, DuplicateHasRow
<1>9. CASE PutMistrusts(c) \/ PutExhausted(c) \/ PutFull(c) \/ PutWrites(c)
  BY <1>2, <1>9 DEF PutMistrusts, PutExhausted, PutFull, PutWrites
<1>10. CASE Purge(c) \/ TransactionFails(c) \/ ReadFails(c) \/ Close(c)
  BY <1>2, <1>10 DEF Purge, TransactionFails, ReadFails, Close
<1>11. CASE Commit(c)
  BY <1>11 DEF Commit, Committed
<1>12. CASE Crash(c)
  BY <1>2, <1>12 DEF Crash, Committed
<1> QED
  BY <1>2, <1>3, <1>4, <1>5, <1>6, <1>7, <1>8, <1>9, <1>10, <1>11, <1>12
     DEF ConnectionStep, Step

(* Nothing happens, or to the disk alone. *)
DiskOnly ==
  /\ UNCHANGED <<file, lock, now, health, call, foreign, receipts>>
  /\ damaged \subseteq damaged' /\ damaged' \subseteq damaged \cup file.rows

(* Whose step it may be. *)
LEMMA NextCases ==
  [Next]_vars => (\E c \in Connections : ConnectionStep(c)) \/ Tick \/ DiskOnly
<1>1. ASSUME NEW r \in file.rows, Damage(r) PROVE DiskOnly
  BY <1>1 DEF Damage, DiskOnly
<1>2. CASE UNCHANGED vars
  BY <1>2 DEF vars, DiskOnly
<1> QED
  BY <1>1, <1>2 DEF Next, ConnectionStep

-----------------------------------------------------------------------------

(* Every step keeps the types. *)
LEMMA TypeStep == IInv /\ [Next]_vars => TypeOK'
<1> SUFFICES ASSUME IInv, [Next]_vars PROVE TypeOK'
  OBVIOUS
<1>1. TypeOK /\ HealthType /\ CallType /\ file \in Files /\ receipts \subseteq Rows
      /\ damaged \subseteq file.rows
      /\ foreign \in [Connections -> BOOLEAN] /\ now \in 0..MaxTime
      /\ lock \in Connections \cup {Nobody}
  BY TypeParts DEF IInv
<1>2. ASSUME NEW c \in Connections, ConnectionStep(c) PROVE TypeOK'
  <2>1. CallType' /\ HealthType' /\ lock' \in Connections \cup {Nobody}
    BY <1>2, StepKeeps DEF LockStays
  <2>2. now' \in 0..MaxTime
    BY <1>1, <1>2, FileChanges
  <2>3. draft[c] \in Files /\ draft[c].rows \subseteq Rows /\ file.rows \subseteq Rows
    BY <1>1 DEF CallType, Files
  <2>4. file' \in Files /\ receipts' \subseteq Rows
    BY <1>1, <1>2, <2>3, FileChanges DEF SameFile, Committed
  <2>5. foreign' \in [Connections -> BOOLEAN]
    BY <1>1, <1>2, FileChanges DEF Committed, Others
  <2>6. damaged' \subseteq file'.rows
    BY <1>1, <1>2, FileChanges DEF SameFile, Committed
  <2> QED
    BY <2>1, <2>2, <2>4, <2>5, <2>6 DEF TypeOK, CallType, HealthType, Reasons, Places
<1>3. CASE Tick
  <2>1. now' \in 0..MaxTime
    BY <1>1, <1>3, StoreAssumption DEF Tick
  <2> QED
    BY <1>1, <1>3, <2>1 DEF Tick, TypeOK, health, call
<1>4. CASE DiskOnly
  BY <1>1, <1>4 DEF DiskOnly, TypeOK, health, call
<1> QED
  BY <1>2, <1>3, <1>4, NextCases DEF ConnectionStep

(* What is committed stays a good file: it was one in the draft. *)
LEMMA FileStep == IInv /\ [Next]_vars => Good(file)'
<1> SUFFICES ASSUME IInv, [Next]_vars PROVE Good(file')
  BY DEF Good
<1>1. Good(file)
  BY DEF IInv
<1>2. ASSUME NEW c \in Connections, ConnectionStep(c) PROVE Good(file')
  <2>1. CASE SameFile
    BY <1>1, <2>1 DEF SameFile, Good
  <2>2. CASE Committed(c)
    BY <2>2 DEF Committed, IInv, DraftInv
  <2> QED
    BY <1>2, <2>1, <2>2, FileChanges
<1>3. CASE Tick
  BY <1>1, <1>3 DEF Tick
<1>4. CASE DiskOnly
  BY <1>1, <1>4 DEF DiskOnly
<1> QED
  BY <1>2, <1>3, <1>4, NextCases DEF ConnectionStep

(* Receipts are for rows that stay until they expire, and a new row has a   *)
(* number that no receipt has.                                             *)
LEMMA ReceiptsStep == IInv /\ [Next]_vars => ReceiptsInv'
<1> SUFFICES ASSUME IInv, [Next]_vars PROVE ReceiptsInv'
  OBVIOUS
<1>1. /\ ReceiptsInv /\ Good(file) /\ file \in Files /\ now \in Nat
      /\ receipts \subseteq Rows
  BY StoreAssumption DEF IInv, TypeOK
<1>2. /\ \A r \in receipts \cup file.rows : r.seq \in Nat /\ r.expires \in Nat
      /\ file.next \in Nat
  BY <1>1 DEF Rows, Files
<1>3. ASSUME NEW c \in Connections, ConnectionStep(c) PROVE ReceiptsInv'
  <2>1. CASE /\ SameFile
             /\ receipts' = receipts \/ \E r \in file.rows : receipts' = receipts \cup {r}
    <3>1. file'.rows = file.rows /\ file'.next = file.next /\ now' = now
          /\ receipts \subseteq receipts' /\ receipts' \subseteq receipts \cup file.rows
      BY <1>3, <2>1, FileChanges DEF SameFile
    <3> QED
      BY <1>1, <3>1 DEF ReceiptsInv, Good
  <2>2. CASE /\ Committed(c)
             /\ \/ UNCHANGED receipts
                \/ receipts' = receipts \cup (draft[c].rows \ file.rows)
    <3> DEFINE g == draft[c]
    <3>1. /\ file' = g /\ Good(g) /\ Follows(file, g, now) /\ now' = now
          /\ receipts' \subseteq receipts \cup g.rows
      BY <1>3, <2>2, FileChanges DEF Committed, IInv, DraftInv
    <3> HIDE DEF g
    <3>2. /\ \A r \in file.rows \ g.rows : r.expires <= now
          /\ g.next >= file.next
          /\ \A r \in g.rows : r \in file.rows \/ r.seq = file.next
      <4>1. CASE Shrinks(file, g, now) /\ g.next = file.next
        BY <1>2, <4>1 DEF Shrinks
      <4>2. CASE /\ g.next = file.next + 1
                 /\ \E r \in g.rows : /\ r \notin file.rows /\ r.seq = file.next
                                      /\ Shrinks(file, [g EXCEPT !.rows = @ \ {r}], now)
        <5>1. PICK r \in g.rows : /\ r \notin file.rows /\ r.seq = file.next
                                  /\ Shrinks(file, [g EXCEPT !.rows = @ \ {r}], now)
          BY <4>2
        <5>2. [g EXCEPT !.rows = @ \ {r}].rows = g.rows \ {r}
          BY <3>1 DEF Good, Files
        <5> QED
          BY <1>2, <4>2, <5>1, <5>2 DEF Shrinks
      <4> QED
        BY <3>1, <4>1, <4>2 DEF Follows
    <3>3. g.next \in Nat /\ \A r \in g.rows : r.seq \in Nat
      BY <3>1 DEF Good, Files, Rows
    <3>4. \A r \in receipts' : r.seq < g.next
      BY <1>1, <1>2, <3>1, <3>2, <3>3 DEF ReceiptsInv, Good
    <3>5. \A r \in receipts' : r \in g.rows \/ r.expires <= now
      BY <1>1, <3>1, <3>2 DEF ReceiptsInv
    <3>6. \A r \in receipts \cup file.rows : r.seq < file.next
      BY <1>1 DEF ReceiptsInv, Good
    <3>7. \A r, q \in receipts \cup g.rows : r.seq = q.seq => r = q
      <4> SUFFICES ASSUME NEW r \in receipts \cup g.rows, NEW q \in receipts \cup g.rows,
                          r.seq = q.seq
                   PROVE  r = q
        OBVIOUS
      <4>1. CASE r \in receipts \cup file.rows /\ q \in receipts \cup file.rows
        BY <1>1, <4>1 DEF ReceiptsInv
      <4>2. CASE r \notin receipts \cup file.rows \/ q \notin receipts \cup file.rows
        <5>1. r.seq = file.next
          BY <3>2, <4>2
        <5>2. \A p \in receipts \cup file.rows : p.seq # file.next
          BY <1>2, <3>6
        <5>3. r \in g.rows /\ q \in g.rows
          BY <5>1, <5>2
        <5> QED
          BY <3>1, <5>3 DEF Good
      <4> QED
        BY <4>1, <4>2
    <3> QED
      BY <3>1, <3>4, <3>5, <3>7 DEF ReceiptsInv
  <2> QED
    BY <1>3, <2>1, <2>2, FileChanges
<1>4. CASE Tick
  <2>1. now' = now + 1 /\ UNCHANGED <<file, receipts>>
    BY <1>4 DEF Tick
  <2> QED
    BY <1>1, <1>2, <2>1 DEF ReceiptsInv
<1>5. CASE DiskOnly
  BY <1>1, <1>5 DEF DiskOnly, ReceiptsInv
<1> QED
  BY <1>3, <1>4, <1>5, NextCases DEF ConnectionStep

(* A connection's place. *)
LEMMA PlaceStep == IInv /\ [Next]_vars => \A d \in Connections : PlaceInv(d)'
<1> SUFFICES ASSUME IInv, [Next]_vars, NEW d \in Connections PROVE PlaceInv(d)'
  OBVIOUS
<1>1. PlaceInv(d) /\ CallType /\ HealthType /\ now \in Nat
  BY TypeParts, StoreAssumption DEF IInv
<1>2. ASSUME NEW c \in Connections \ {d}, ConnectionStep(c) PROVE PlaceInv(d)'
  <2>1. now' = now /\ CallsStay(c) /\ HealthStays(c)
    BY <1>2, StepKeeps, FileChanges
  <2>2. /\ pc'[d] = pc[d] /\ item'[d] = item[d] /\ at'[d] = at[d]
        /\ state'[d] = state[d] /\ reason'[d] = reason[d]
    BY <2>1 DEF CallsStay, HealthStays
  <2> QED
    BY <1>1, <2>1, <2>2 DEF PlaceInv
<1>3. CASE ConnectionStep(d)
  <2> USE <1>1 DEF PlaceInv
  <2>1. ASSUME pc'[d] = "idle", state'[d] # "read_only" => reason'[d] = "none" PROVE PlaceInv(d)'
    BY <2>1 DEF Opening
  <2>2. ASSUME Return(d), UNCHANGED health PROVE PlaceInv(d)'
    BY <2>1, <2>2, ReturnKeeps DEF health
  <2>3. ASSUME NEW why \in Reasons, Return(d), Latch(d, why) PROVE PlaceInv(d)'
    BY <2>1, <2>3, ReturnKeeps, LatchKeeps
  <2>4. ASSUME NEW begun, WriteError(d, begun) PROVE PlaceInv(d)'
    BY <2>1, <2>4, WriteErrorKeeps DEF health, IInv
  <2>4a. ASSUME NEW begun, IntegrityError(d, begun) PROVE PlaceInv(d)'
    BY <2>1, <2>4a, IntegrityErrorKeeps DEF IInv
  <2>5. CASE Open(d)
    <3>1. pc'[d] \in {"load", "create"} /\ state[d] = "closed" /\ UNCHANGED health
      BY <2>5 DEF Open, Goto, CallType
    <3> QED
      BY <3>1 DEF health, Opening
  <2>6. CASE CreateSchema(d)
    <3>1. pc[d] = "create" /\ pc'[d] = "load" /\ UNCHANGED health
      BY <2>6 DEF CreateSchema, Goto, CallType
    <3> QED
      BY <3>1 DEF health, Opening
  <2>7. CASE LoadState(d)
    <3>1. pc[d] = "load" /\ pc'[d] = "verify" /\ UNCHANGED health
      BY <2>7 DEF LoadState, Goto, CallType
    <3> QED
      BY <3>1 DEF health, Opening
  <2>8. CASE Verify(d)
    <3>1. Return(d) /\ state'[d] = "healthy" /\ reason'[d] = "none"
      BY <2>8 DEF Verify, HealthType
    <3> QED
      BY <2>1, <3>1, ReturnKeeps
  <2>9. CASE OpenFails(d) \/ Busy(d) \/ PutFull(d)
    BY <2>2, <2>9 DEF OpenFails, Busy, PutFull
  <2>10. ASSUME NEW o \in Observations, Put(d, o) PROVE PlaceInv(d)'
    <3>1. CASE SameKey(o) # {} /\ Duplicate(d, o)
      BY <2>2, <2>4a, <3>1, DuplicateHasRow
    <3>2. CASE /\ Goto(d, "begin") /\ UNCHANGED health
               /\ item' = [item EXCEPT ![d] = o] /\ at' = [at EXCEPT ![d] = now]
      <4>1. /\ pc'[d] = "begin" /\ item'[d] = o /\ at'[d] = now /\ now' = now
            /\ state[d] = "healthy"
        BY <2>10, <3>2 DEF Put, Healthy, Goto, CallType
      <4> QED
        BY <3>2, <4>1 DEF health, Opening
    <3>3. CASE WriteError(d, FALSE)
      BY <2>4, <3>3
    <3> QED
      BY <2>10, <3>1, <3>2, <3>3 DEF Put
  <2>11. CASE PutDuplicate(d)
    BY <2>2, <2>11, <2>4a, DuplicateHasRow DEF PutDuplicate
  <2>12. CASE PutMistrusts(d) \/ PutExhausted(d)
    BY <2>3, <2>12, <2>4a DEF PutMistrusts, PutExhausted, Reasons
  <2>12a. CASE ReadFails(d)
    <3>1. pc[d] = "idle" /\ UNCHANGED call /\ \E why \in Reasons : Latch(d, why)
      BY <2>12a DEF ReadFails, Idle, Reasons
    <3> QED
      BY <2>1, <3>1, LatchKeeps DEF call
  <2>13. ASSUME pc[d] = "begin" \/ Healthy(d), Goto(d, "commit"), UNCHANGED health
         PROVE  PlaceInv(d)'
    <3>1. pc'[d] = "commit" /\ state[d] = "healthy"
      BY <2>13 DEF Goto, CallType, Healthy
    <3> QED
      BY <2>13, <3>1 DEF health, Opening
  <2>14. CASE PutWrites(d)
    BY <2>13, <2>14 DEF PutWrites
  <2>15. CASE Purge(d)
    <3>1. Healthy(d)
      BY <2>15 DEF Purge
    <3> QED
      BY <2>2, <2>4, <2>13, <2>15, <2>4a, <3>1, PurgeBegins
  <2>16. CASE Commit(d)
    <3>1. Return(d) /\ UNCHANGED <<state, reason>>
      BY <2>16 DEF Commit
    <3> QED
      BY <2>1, <3>1, ReturnKeeps
  <2>17. CASE TransactionFails(d)
    BY <2>4, <2>17 DEF TransactionFails
  <2>18. CASE Close(d) \/ Crash(d)
    <3>1. /\ Return(d)
          /\ \/ state' = [state EXCEPT ![d] = "closed"] /\ reason' = [reason EXCEPT ![d] = "none"]
             \/ UNCHANGED <<state, reason>>
      BY <2>18 DEF Close, Crash
    <3>2. state'[d] # "read_only" => reason'[d] = "none"
      BY <3>1 DEF HealthType
    <3> QED
      BY <2>1, <3>1, <3>2, ReturnKeeps
  <2> QED
    BY <1>3, <2>5, <2>6, <2>7, <2>8, <2>9, <2>10, <2>11, <2>12, <2>14, <2>15, <2>16, <2>17,
       <2>18, <2>12a DEF ConnectionStep, Step
<1>4. CASE Tick
  <2>1. now' = now + 1 /\ UNCHANGED <<health, call>>
    BY <1>4 DEF Tick
  <2>2. at[d] \in Nat
    BY <1>1 DEF CallType
  <2> QED
    BY <1>1, <2>1, <2>2 DEF PlaceInv, health, call
<1>5. CASE DiskOnly
  BY <1>1, <1>5 DEF DiskOnly, PlaceInv, health, call
<1> QED
  BY <1>2, <1>3, <1>4, <1>5, NextCases DEF ConnectionStep

(* The lock and what a transaction has come to. *)
LEMMA DraftStep == IInv /\ [Next]_vars => \A d \in Connections : DraftInv(d)'
<1> SUFFICES ASSUME IInv, [Next]_vars, NEW d \in Connections PROVE DraftInv(d)'
  OBVIOUS
<1>1. /\ DraftInv(d) /\ PlaceInv(d) /\ CallType /\ HealthType /\ now \in Nat /\ file \in Files
      /\ lock \in Connections \cup {Nobody}
  BY TypeParts, StoreAssumption DEF IInv
<1>2. ASSUME NEW c \in Connections \ {d}, ConnectionStep(c) PROVE DraftInv(d)'
  <2>1. now' = now /\ CallsStay(c) /\ HealthStays(c) /\ LockStays(c)
    BY <1>2, StepKeeps, FileChanges
  <2>2. pc'[d] = pc[d] /\ draft'[d] = draft[d] /\ state'[d] = state[d]
    BY <2>1 DEF CallsStay, HealthStays
  <2>3. (lock = d => lock' = d) /\ (lock' = d => lock = d)
    BY <1>2, <2>1, StoreAssumption DEF LockStays
  <2>4. CASE pc[d] = "commit"
    <3>1. lock = d
      BY <1>1, <2>4 DEF DraftInv
    <3>2. ~Committed(c)
      BY <1>2, <3>1 DEF Committed, IInv, DraftInv
    <3>3. SameFile
      BY <1>2, <3>2, FileChanges
    <3>4. Follows(file', draft'[d], now')
      BY <1>1, <2>1, <2>2, <2>4, <3>3 DEF DraftInv, SameFile, Follows, Shrinks
    <3>5. Good(draft'[d])
      BY <1>1, <2>2, <2>4 DEF DraftInv
    <3> QED
      BY <1>1, <2>2, <2>3, <2>4, <3>1, <3>4, <3>5 DEF DraftInv, Good
  <2> QED
    BY <1>1, <2>2, <2>3, <2>4 DEF DraftInv
<1>3. CASE ConnectionStep(d)
  <2>1. ASSUME pc'[d] # "commit", lock' # d \/ state'[d] = "read_only" PROVE DraftInv(d)'
    BY <2>1 DEF DraftInv
  <2>2. ASSUME pc[d] # "commit", UNCHANGED <<lock, health>>, pc'[d] # "commit"
        PROVE  DraftInv(d)'
    BY <1>1, <2>2 DEF DraftInv, health
  <2>3. ASSUME Return(d), Unlock(d) PROVE DraftInv(d)'
    BY <1>1, <2>1, <2>3, ReturnKeeps, StoreAssumption DEF Unlock
  <2>4. ASSUME NEW why \in Reasons, Return(d), Latch(d, why) PROVE DraftInv(d)'
    BY <1>1, <2>1, <2>4, ReturnKeeps, LatchKeeps
  <2>5. ASSUME NEW begun, WriteError(d, begun) PROVE DraftInv(d)'
    <3>1. \/ Unlock(d) /\ Return(d)
          \/ Return(d) /\ \E why \in Reasons : Latch(d, why)
      BY <2>5 DEF WriteError, Reasons
    <3> QED
      BY <2>3, <2>4, <3>1
  <2>5a. ASSUME NEW begun, IntegrityError(d, begun) PROVE DraftInv(d)'
    BY <1>1, <2>1, <2>5a, IntegrityErrorKeeps DEF IInv
  <2>6. ASSUME pc[d] # "commit", lock = Nobody, lock' = d, Goto(d, "commit"),
               UNCHANGED <<file, now>>,
               \E g : draft' = [draft EXCEPT ![d] = g] /\ Good(g) /\ Follows(file, g, now)
        PROVE  DraftInv(d)'
    <3>1. pc'[d] = "commit" /\ Good(draft'[d]) /\ Follows(file', draft'[d], now')
      BY <1>1, <2>6 DEF Goto, CallType
    <3> QED
      BY <2>6, <3>1 DEF DraftInv, Good
  <2>7. CASE Open(d) \/ CreateSchema(d) \/ LoadState(d)
    <3>1. pc[d] # "commit" /\ pc'[d] \in {"create", "load", "verify"} /\ UNCHANGED <<lock, health>>
      BY <1>1, <2>7 DEF Open, CreateSchema, LoadState, Goto, CallType, Idle
    <3> QED
      BY <2>2, <3>1
  <2>8. CASE Verify(d)
    <3>1. Return(d) /\ UNCHANGED lock /\ pc[d] = "verify"
      BY <2>8 DEF Verify
    <3>2. lock # d
      BY <1>1, <3>1 DEF PlaceInv, DraftInv, Opening
    <3> QED
      BY <1>1, <2>1, <3>1, <3>2, ReturnKeeps
  <2>9. CASE OpenFails(d) \/ Busy(d) \/ PutFull(d)
    <3>1. Return(d) /\ UNCHANGED <<lock, health>> /\ pc[d] # "commit"
      BY <2>9 DEF OpenFails, Busy, PutFull, Opening
    <3> QED
      BY <1>1, <2>2, <3>1, ReturnKeeps
  <2>9a. ASSUME NEW o, pc[d] # "commit", SameKey(o) # {}, Duplicate(d, o) PROVE DraftInv(d)'
    BY <1>1, <2>2, <2>5a, <2>9a, DuplicateHasRow, ReturnKeeps
  <2>9b. CASE PutDuplicate(d)
    BY <2>9a, <2>9b DEF PutDuplicate
  <2>10. ASSUME NEW o \in Observations, Put(d, o) PROVE DraftInv(d)'
    <3>1. pc[d] = "idle"
      BY <2>10 DEF Put, Healthy, Idle
    <3>2. CASE SameKey(o) # {} /\ Duplicate(d, o)
      BY <2>9a, <3>1, <3>2
    <3>3. CASE Goto(d, "begin") /\ UNCHANGED <<lock, health>>
      <4>1. pc'[d] = "begin"
        BY <1>1, <3>3 DEF Goto, CallType
      <4> QED
        BY <2>2, <3>1, <3>3, <4>1
    <3>4. CASE WriteError(d, FALSE)
      BY <2>5, <3>4
    <3> QED
      BY <2>10, <3>2, <3>3, <3>4 DEF Put
  <2>11. CASE PutMistrusts(d) \/ PutExhausted(d)
    BY <2>4, <2>11, <2>5a DEF PutMistrusts, PutExhausted, Reasons
  <2>11a. CASE ReadFails(d)
    <3>1. pc[d] = "idle" /\ UNCHANGED call /\ \E why \in Reasons : Latch(d, why)
      BY <2>11a DEF ReadFails, Idle, Reasons
    <3> QED
      BY <1>1, <2>1, <3>1, LatchKeeps DEF call
  <2>12. CASE PutWrites(d)
    <3>1. /\ pc[d] = "begin" /\ lock = Nobody /\ lock' = d /\ Goto(d, "commit")
          /\ UNCHANGED <<file, now>>
      BY <2>12 DEF PutWrites, Trusted
    <3> QED
      BY <2>6, <2>12, <3>1, PutWritesGood
  <2>13. CASE Purge(d)
    <3>1. pc[d] = "idle" /\ UNCHANGED <<file, now>>
      BY <2>13 DEF Purge, Healthy, Idle
    <3>2. CASE WriteError(d, TRUE)
      BY <2>5, <3>2
    <3>3. CASE Return(d) /\ UNCHANGED <<lock, health>>
      BY <1>1, <2>2, <3>1, <3>3, ReturnKeeps
    <3>4. CASE IntegrityError(d, TRUE)
      BY <2>5a, <3>4
    <3>5. CASE /\ Trusted(d) /\ lock' = d /\ Goto(d, "commit")
               /\ \E g : draft' = [draft EXCEPT ![d] = g] /\ Good(g) /\ Follows(file, g, now)
      BY <2>6, <3>1, <3>5 DEF Trusted
    <3> QED
      BY <2>13, <3>2, <3>3, <3>4, <3>5, PurgeBegins
  <2>14. CASE Commit(d)
    <3>1. Return(d) /\ lock' = Nobody
      BY <2>14 DEF Commit
    <3> QED
      BY <1>1, <2>1, <3>1, ReturnKeeps, StoreAssumption
  <2>15. CASE TransactionFails(d)
    BY <2>5, <2>15 DEF TransactionFails
  <2>16. CASE Close(d) \/ Crash(d)
    BY <2>3, <2>16 DEF Close, Crash
  <2> QED
    BY <1>3, <2>7, <2>8, <2>9, <2>10, <2>11, <2>12, <2>13, <2>14, <2>15, <2>16, <2>9b, <2>11a
       DEF ConnectionStep, Step
<1>4. CASE Tick
  <2>1. now' = now + 1 /\ UNCHANGED <<file, lock, health, call>>
    BY <1>4 DEF Tick
  <2>2. Follows(file, draft[d], now) => Follows(file, draft[d], now')
    BY <1>1, <2>1, FollowsLater
  <2> QED
    BY <1>1, <2>1, <2>2 DEF DraftInv, Good, call, health
<1>5. CASE DiskOnly
  BY <1>1, <1>5 DEF DiskOnly, DraftInv, Good, Follows, Shrinks, call, health
<1> QED
  BY <1>2, <1>3, <1>4, <1>5, NextCases DEF ConnectionStep

(* Counters in memory and in the file part only when somebody else commits. *)
LEMMA CountersStep == IInv /\ [Next]_vars => \A d \in Connections : CountersInv(d)'
<1> SUFFICES ASSUME IInv, [Next]_vars, NEW d \in Connections PROVE CountersInv(d)'
  OBVIOUS
<1>1. /\ CountersInv(d) /\ DraftInv(d) /\ PlaceInv(d) /\ CallType /\ HealthType
      /\ foreign \in [Connections -> BOOLEAN] /\ file \in Files
  BY TypeParts DEF IInv
<1>2. SameFile => Counts(file') = Counts(file)
  BY DEF SameFile, Counts
<1>3. ASSUME NEW c \in Connections \ {d}, ConnectionStep(c) PROVE CountersInv(d)'
  <2>1. CallsStay(c) /\ HealthStays(c)
    BY <1>3, StepKeeps
  <2>2. /\ pc'[d] = pc[d] /\ draft'[d] = draft[d]
        /\ state'[d] = state[d] /\ reason'[d] = reason[d] /\ counters'[d] = counters[d]
    BY <2>1 DEF CallsStay, HealthStays
  <2>3. CASE SameFile /\ UNCHANGED damaged /\ (UNCHANGED foreign \/ foreign' = [foreign EXCEPT ![c] = FALSE])
    <3>1. foreign'[d] = foreign[d]
      BY <1>1, <1>3, <2>3
    <3> QED
      BY <1>1, <1>2, <2>2, <2>3, <3>1 DEF CountersInv, Counts
  <2>4. CASE Committed(c)
    <3>1. foreign'[d]
      BY <1>3, <2>4 DEF Committed, Others
    <3> QED
      BY <3>1 DEF CountersInv
  <2> QED
    BY <1>3, <2>3, <2>4, FileChanges
<1>4. CASE ConnectionStep(d)
  <2>1. ASSUME UNCHANGED <<file, damaged, foreign, health>>, pc'[d] # "verify"
        PROVE  CountersInv(d)'
    BY <1>1, <2>1 DEF CountersInv, Counts, health
  <2>2. ASSUME pc'[d] # "verify", state'[d] # "healthy", reason'[d] # "record_integrity_error"
        PROVE  CountersInv(d)'
    BY <2>2 DEF CountersInv
  <2>3. ASSUME UNCHANGED <<file, damaged, foreign, health>>, Return(d) PROVE CountersInv(d)'
    BY <1>1, <2>1, <2>3, ReturnKeeps
  <2>4. ASSUME UNCHANGED <<file, damaged, foreign>>, NEW begun, WriteError(d, begun)
        PROVE  CountersInv(d)'
    <3>1. TypeOK
      BY DEF IInv
    <3> QED
      BY <1>1, <2>1, <2>2, <2>4, <3>1, WriteErrorKeeps
  <2>5. ASSUME UNCHANGED <<damaged, foreign>>, foreign[d] \/ damaged # {},
               pc'[d] # "verify", state'[d] # "healthy"
        PROVE  CountersInv(d)'
    BY <2>5 DEF CountersInv
  <2>5a. ASSUME UNCHANGED <<damaged, foreign>>, state[d] = "healthy", NEW begun,
                damaged # {} \/ counters[d] # Counts(file), IntegrityError(d, begun)
         PROVE  CountersInv(d)'
    <3>1. foreign[d] \/ damaged # {}
      BY <1>1, <2>5a DEF CountersInv
    <3>2. pc'[d] = "idle" /\ state'[d] = "read_only"
      BY <2>5a, IntegrityErrorKeeps DEF IInv
    <3> QED
      BY <2>5, <2>5a, <3>1, <3>2
  <2>5b. ASSUME UNCHANGED <<file, damaged, foreign>>, state[d] = "healthy",
                NEW o, SameKey(o) # {}, Duplicate(d, o)
         PROVE  CountersInv(d)'
    BY <2>3, <2>5a, <2>5b, DuplicateHasRow
  <2>6. CASE Open(d)
    <3>1. pc'[d] \in {"load", "create"} /\ UNCHANGED <<file, damaged, foreign, health>>
      BY <1>1, <2>6 DEF Open, Goto, CallType
    <3> QED
      BY <2>1, <3>1
  <2>7. CASE CreateSchema(d)
    <3>1. /\ pc[d] = "create" /\ pc'[d] = "load" /\ UNCHANGED health
      BY <1>1, <2>7 DEF CreateSchema, Goto, CallType
    <3>2. state'[d] = "closed" /\ reason'[d] = "none"
      BY <1>1, <3>1 DEF PlaceInv, Opening, health
    <3> QED
      BY <2>2, <3>1, <3>2
  <2>8. CASE LoadState(d)
    <3>1. /\ pc[d] = "load" /\ UNCHANGED <<file, health>> /\ foreign' = [foreign EXCEPT ![d] = FALSE]
          /\ draft'[d] = [file EXCEPT !.rows = {}]
      BY <1>1, <2>8 DEF LoadState, CallType
    <3>2. state'[d] = "closed" /\ reason'[d] = "none"
      BY <1>1, <3>1 DEF PlaceInv, Opening, health
    <3>3. Counts(draft'[d]) = Counts(file')
      BY <1>1, <3>1 DEF Counts, Files
    <3> QED
      BY <3>2, <3>3 DEF CountersInv, Counts
  <2>9. CASE Verify(d)
    <3>1. /\ pc[d] = "verify" /\ UNCHANGED <<file, foreign>> /\ Return(d)
          /\ counters'[d] = Counts(draft[d]) /\ reason'[d] = "none"
      BY <1>1, <2>9 DEF Verify, HealthType
    <3>2. pc'[d] = "idle"
      BY <1>1, <3>1, ReturnKeeps
    <3> QED
      BY <1>1, <3>1, <3>2 DEF CountersInv, Counts
  <2>10. CASE OpenFails(d) \/ Busy(d) \/ PutFull(d)
    BY <2>3, <2>10 DEF OpenFails, Busy, PutFull
  <2>10a. CASE PutDuplicate(d)
    <3>1. state[d] = "healthy"
      BY <1>1, <2>10a DEF PutDuplicate, PlaceInv
    <3> QED
      BY <2>5b, <2>10a, <3>1 DEF PutDuplicate
  <2>11. ASSUME NEW o \in Observations, Put(d, o) PROVE CountersInv(d)'
    <3>1. UNCHANGED <<file, damaged, foreign>> /\ state[d] = "healthy"
      BY <2>11 DEF Put, Healthy
    <3>2. CASE SameKey(o) # {} /\ Duplicate(d, o)
      BY <2>5b, <3>1, <3>2
    <3>3. CASE Goto(d, "begin") /\ UNCHANGED health
      <4>1. pc'[d] = "begin"
        BY <1>1, <3>3 DEF Goto, CallType
      <4> QED
        BY <2>1, <3>1, <3>3, <4>1
    <3>4. CASE WriteError(d, FALSE)
      BY <2>4, <3>1, <3>4
    <3> QED
      BY <2>11, <3>2, <3>3, <3>4 DEF Put
  <2>12. CASE PutMistrusts(d)
    <3>1. state[d] = "healthy"
      BY <1>1, <2>12 DEF PutMistrusts, PlaceInv
    <3> QED
      BY <2>12, <2>5a, <3>1 DEF PutMistrusts
  <2>13. CASE PutExhausted(d)
    BY <1>1, <2>2, <2>13, ReturnKeeps, LatchKeeps DEF PutExhausted, Reasons
  <2>13a. CASE ReadFails(d)
    <3>1. pc'[d] = "idle" /\ UNCHANGED <<damaged, foreign>>
      BY <2>13a DEF ReadFails, Idle, call
    <3>2. CASE Latch(d, "sqlite_error")
      BY <1>1, <2>2, <3>1, <3>2, LatchKeeps DEF Reasons
    <3>3. CASE damaged # {} /\ Latch(d, "record_integrity_error")
      BY <1>1, <2>5, <3>1, <3>3, LatchKeeps DEF Reasons
    <3> QED
      BY <2>13a, <3>2, <3>3 DEF ReadFails
  <2>14. ASSUME UNCHANGED <<file, damaged, foreign, health>>, Goto(d, "commit") PROVE CountersInv(d)'
    <3>1. pc'[d] = "commit"
      BY <1>1, <2>14 DEF Goto, CallType
    <3> QED
      BY <2>1, <2>14, <3>1
  <2>15. CASE PutWrites(d)
    BY <2>14, <2>15 DEF PutWrites
  <2>16. CASE Purge(d)
    <3>1. state[d] = "healthy" /\ UNCHANGED <<file, damaged, foreign>>
      BY <2>16 DEF Purge, Healthy
    <3> QED
      BY <2>3, <2>4, <2>14, <2>16, <2>5a, <3>1, PurgeBegins
  <2>17. CASE Commit(d)
    <3>1. /\ Return(d) /\ file' = draft[d] /\ foreign' = Others(d)
          /\ counters'[d] = Counts(draft[d]) /\ reason'[d] = "none"
      BY <1>1, <2>17 DEF Commit, HealthType, PlaceInv
    <3>2. foreign'[d] = foreign[d] /\ pc'[d] = "idle"
      BY <1>1, <3>1, ReturnKeeps DEF Others
    <3> QED
      BY <1>1, <3>1, <3>2 DEF CountersInv, Counts
  <2>18. CASE TransactionFails(d)
    BY <2>4, <2>18 DEF TransactionFails
  <2>19. CASE Close(d)
    <3>1. /\ Return(d) /\ pc[d] = "idle" /\ UNCHANGED <<file, damaged, foreign>>
          /\ \/ state' = [state EXCEPT ![d] = "closed"] /\ reason' = [reason EXCEPT ![d] = "none"]
             \/ lock = d /\ UNCHANGED <<state, reason>>
      BY <2>19 DEF Close, Idle
    <3>2. CASE state' = [state EXCEPT ![d] = "closed"] /\ reason' = [reason EXCEPT ![d] = "none"]
      BY <1>1, <2>2, <3>1, <3>2, ReturnKeeps DEF HealthType
    <3>3. CASE lock = d /\ UNCHANGED <<state, reason>>
      <4>1. state'[d] = "read_only" /\ pc'[d] = "idle"
        BY <1>1, <3>1, <3>3, ReturnKeeps DEF DraftInv
      <4> QED
        BY <1>1, <3>1, <3>3, <4>1 DEF CountersInv
    <3> QED
      BY <3>1, <3>2, <3>3
  <2>20. CASE Crash(d)
    <3>1. Return(d) /\ state'[d] = "closed" /\ reason'[d] = "none"
      BY <1>1, <2>20 DEF Crash, HealthType
    <3> QED
      BY <1>1, <2>2, <3>1, ReturnKeeps
  <2> QED
    BY <1>4, <2>6, <2>7, <2>8, <2>9, <2>10, <2>11, <2>12, <2>13, <2>15, <2>16, <2>17, <2>18,
       <2>19, <2>20, <2>10a, <2>13a DEF ConnectionStep, Step
<1>5. CASE Tick
  BY <1>1, <1>5 DEF Tick, CountersInv, Counts, health, call
<1>6. CASE DiskOnly
  BY <1>1, <1>6 DEF DiskOnly, CountersInv, Counts, health, call
<1> QED
  BY <1>3, <1>4, <1>5, <1>6, NextCases DEF ConnectionStep

-----------------------------------------------------------------------------

(* The invariant holds before any program opens the file. *)
LEMMA InitiallyGood == Init => IInv
<1> SUFFICES ASSUME Init PROVE IInv
  OBVIOUS
<1> USE StoreAssumption
<1>1. CallType /\ HealthType
  <2>1. NoFile \in Files /\ NoCounts \in Counters
    BY NoFileType
  <2> QED
    BY <2>1 DEF Init, CallType, HealthType, Places, Reasons
<1>2. TypeOK
  BY <1>1, TypeParts, NoFileType DEF Init
<1>3. Good(file)
  <2>1. Sized({}) /\ Cardinality({}) = 0 /\ Bytes({}) = 0
    BY FS_EmptySet, BytesOfNone DEF Sized
  <2> QED
    BY <2>1, NoFileType DEF Init, Good, NoFile
<1>4. ReceiptsInv
  BY DEF Init, ReceiptsInv, NoFile
<1>5. ASSUME NEW c \in Connections PROVE PlaceInv(c) /\ DraftInv(c) /\ CountersInv(c)
  BY DEF Init, PlaceInv, DraftInv, CountersInv, Opening
<1> QED
  BY <1>2, <1>3, <1>4, <1>5 DEF IInv

(* ... and every step keeps it. *)
THEOREM Invariance == Spec => []IInv
<1>1. IInv /\ [Next]_vars => IInv'
  BY TypeStep, FileStep, ReceiptsStep, PlaceStep, DraftStep, CountersStep DEF IInv
<1> QED
  BY <1>1, InitiallyGood, PTL DEF Spec

(* Every variable stays in its range.                                      *)
THEOREM TypeCorrect == Spec => []TypeOK
<1>1. IInv => TypeOK
  BY DEF IInv
<1> QED
  BY <1>1, Invariance, PTL

(* The file is one that the next program will accept, whatever failed or   *)
(* died, however many programs write it.                                   *)
THEOREM FileAlwaysVerifies == Spec => []FileVerifies
<1>1. IInv => FileVerifies
  BY DEF IInv, Good, FileVerifies
<1> QED
  BY <1>1, Invariance, PTL

(* A receipt holds until its row expires, and has a number of its own.     *)
THEOREM ReceiptsAlwaysHold == Spec => []ReceiptsHold
<1>1. IInv => ReceiptsHold
  BY DEF IInv, ReceiptsInv, ReceiptsHold
<1> QED
  BY <1>1, Invariance, PTL

(* A store mistrusts its file only if somebody else has committed to it.   *)
THEOREM OwnCountersAlwaysAgree == Spec => []OwnCountersAgree
<1>1. IInv => OwnCountersAgree
  BY DEF IInv, CountersInv, OwnCountersAgree
<1> QED
  BY <1>1, Invariance, PTL

-----------------------------------------------------------------------------
(* The file is a bounded store.                                            *)

(* Both modules count rows and add up bytes in the same way: an instance    *)
(* brings the library's operators under names of its own.                  *)
LEMMA SameBytes ==
  ASSUME NEW R
  PROVE  Abstract!Bytes(R) = Bytes(R) /\ Abstract!Cardinality(R) = Cardinality(R)
<1>1. Abstract!Bytes(R) = Bytes(R)
  BY DEF Bytes, MapThenSumSet, MapThenFoldSet,
     Abstract!Bytes, Abstract!MapThenSumSet, Abstract!MapThenFoldSet
<1>2. Abstract!Cardinality(R) = Cardinality(R)
  BY DEF Cardinality, Abstract!Cardinality
<1> QED
  BY <1>1, <1>2

(* A commit of a purge lets rows expire, and one of a put adds a row. *)
LEMMA CommitRefines ==
  ASSUME Good(file), NEW g, Good(g), Follows(file, g, now), file' = g, now' = now
  PROVE  Abstract!BNext
<1>1. CASE Shrinks(file, g, now) /\ g.next = file.next
  <2>1. Abstract!Expire
    BY <1>1 DEF Abstract!Expire, Shrinks
  <2> QED
    BY <2>1 DEF Abstract!BNext
<1>2. CASE /\ g.next = file.next + 1
           /\ \E r \in g.rows : /\ r \notin file.rows /\ r.seq = file.next
                                /\ Shrinks(file, [g EXCEPT !.rows = @ \ {r}], now)
  <2>1. PICK r \in g.rows : /\ r \notin file.rows /\ r.seq = file.next
                            /\ Shrinks(file, [g EXCEPT !.rows = @ \ {r}], now)
    BY <1>2
  <2>2. [g EXCEPT !.rows = @ \ {r}].rows = g.rows \ {r}
    BY DEF Good, Files
  <2>3. g.rows \ {r} \subseteq file.rows /\ \A q \in file.rows \ g.rows : q.expires <= now
    BY <2>1, <2>2 DEF Shrinks
  <2>4. r.key \notin {q.key : q \in g.rows \ {r}}
    BY DEF Good
  <2>5. Abstract!WithinLimits(g.rows)
    BY SameBytes DEF Good, Abstract!WithinLimits
  <2>6. Abstract!Add
    BY <1>2, <2>1, <2>3, <2>4, <2>5 DEF Abstract!Add
  <2> QED
    BY <2>6 DEF Abstract!BNext
<1> QED
  BY <1>1, <1>2 DEF Follows

(* SQLiteStore implements BoundedStore: nothing is lost before it expires,  *)
(* the limits hold, numbers only grow.                                     *)
THEOREM StoreIsBoundedStore == Spec => ImplementsStore
<1>1. Init => Abstract!BInit
  BY DEF Init, NoFile, Abstract!BInit
<1>2. IInv /\ [Next]_vars => [Abstract!BNext]_(Abstract!bvars)
  <2> SUFFICES ASSUME IInv, [Next]_vars PROVE [Abstract!BNext]_(Abstract!bvars)
    OBVIOUS
  <2>1. ASSUME NEW c \in Connections, ConnectionStep(c)
        PROVE  [Abstract!BNext]_(Abstract!bvars)
    <3>1. now' = now /\ (SameFile \/ Committed(c))
      BY <2>1, FileChanges
    <3>2. CASE SameFile
      BY <3>1, <3>2 DEF SameFile, Abstract!bvars
    <3>3. CASE Committed(c)
      BY <3>1, <3>3, CommitRefines DEF Committed, IInv, DraftInv
    <3> QED
      BY <3>1, <3>2, <3>3
  <2>2. CASE Tick
    <3>1. now' > now /\ UNCHANGED file
      BY <2>2, StoreAssumption DEF Tick, IInv, TypeOK
    <3> QED
      BY <3>1 DEF Abstract!BNext, Abstract!Pass
  <2>3. CASE DiskOnly
    BY <2>3 DEF DiskOnly, Abstract!bvars
  <2> QED
    BY <2>1, <2>2, <2>3, NextCases
<1> QED
  BY <1>1, <1>2, Invariance, PTL DEF Spec, ImplementsStore, Abstract!BSpec
=============================================================================
