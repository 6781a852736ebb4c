------------------------- MODULE AgentConsentProofs -------------------------
(***************************************************************************)
(* Theorems about AgentConsent, for any number of actors and processes,    *)
(* any terms and any number of grants.                                     *)
(***************************************************************************)
EXTENDS AgentConsent, TLAPS

UnderTheLock == {"deciding", "writing", "granting", "removing", "syncing", "done", "failed"}

(* The files: what is read is on the disk, identities are not reused.      *)
FileInv ==
  /\ file \in onDisk
  /\ \A v \in onDisk : v.id <= issued
  /\ \A g \in retired : g <= issued
  /\ \A g \in Ids : g > issued => captures[g] = 0

(* An actor: it holds the lock while it is under it, and its draft is what *)
(* the file says, counted up.                                              *)
ActorInv(a) ==
  /\ pc[a] \in UnderTheLock => mutex = a
  /\ pc[a] = "writing" =>
       /\ call[a] = "snapshot" /\ file # NoGrant
       /\ mine[a].id = file.id /\ mine[a].attempts = file.attempts + 1
       /\ mine[a].attempts <= terms[file.id].quota
  /\ pc[a] = "waiting" => call[a] \in {"snapshot", "grant", "revoke"}
  /\ pc[a] = "deciding" => call[a] = "snapshot"
  /\ pc[a] \in {"granting", "removing"} => call[a] # "snapshot"
  /\ pc[a] \in {"syncing", "done"} /\ call[a] = "snapshot" =>
       file = mine[a] /\ file # NoGrant
  /\ pc[a] = "syncing" => file.id \notin ending[a]
  /\ pc[a] \in {"idle", "waiting", "deciding", "writing", "removing"} => ending[a] = {}
  /\ \A g \in ending[a] : g <= issued

(* Where directories can be synchronised: no version on the disk has less  *)
(* attempts than there were captures, and none belongs to a retired grant. *)
DurableInv ==
  /\ \A v \in onDisk : v # NoGrant => captures[v.id] <= v.attempts /\ v.id \notin retired
  /\ \A g \in Ids : captures[g] <= terms[g].quota

DurableActorInv(a) ==
  /\ pc[a] \in {"syncing", "done"} /\ call[a] = "snapshot" =>
       captures[mine[a].id] < mine[a].attempts
  /\ pc[a] = "done" /\ call[a] = "snapshot" => onDisk = {file}
  /\ pc[a] = "done" => \A v \in onDisk : v.id \notin ending[a]
  /\ pc[a] = "rechecking" /\ gone[a] => mine[a].id \in retired \cup now[a]
  /\ pc[a] = "delivering" => ~gone[a]

IInv ==
  /\ TypeOK /\ FileInv
  /\ \A a \in Actors : ActorInv(a)
  /\ DirectorySync => DurableInv /\ \A a \in Actors : DurableActorInv(a)

-----------------------------------------------------------------------------
(* A version is a grant's, or there is none. *)
LEMMA VersionFields ==
  ASSUME NEW v \in Versions, v # NoGrant
  PROVE  v.id \in Ids /\ v.attempts \in Nat /\ v = [id |-> v.id, attempts |-> v.attempts]
BY DEF Versions

LEMMA VersionId == \A v \in Versions : v.id \in Int /\ v.attempts \in Int
BY ConsentAssumption DEF Versions, NoGrant, Ids

(* What Drop leaves of an actor, and of the others. *)
LEMMA DropEffect ==
  ASSUME NEW S, NEW place, Drop(S, place), NEW b \in Actors, b \in S
  PROVE  /\ pc'[b] = place /\ call'[b] = "none" /\ mine'[b] = NoGrant
         /\ now'[b] = {} /\ ending'[b] = {} /\ ~gone'[b]
BY DEF Drop

SameActor(b) ==
  /\ pc'[b] = pc[b] /\ call'[b] = call[b] /\ mine'[b] = mine[b]
  /\ now'[b] = now[b] /\ ending'[b] = ending[b] /\ gone'[b] = gone[b]

LEMMA DropOthers ==
  ASSUME TypeOK, NEW S, NEW place, Drop(S, place), NEW b \in Actors, b \notin S
  PROVE  SameActor(b)
BY DEF Drop, TypeOK, SameActor

LEMMA DropTypes ==
  ASSUME TypeOK, NEW S, NEW place \in Places, Drop(S, place)
  PROVE  /\ pc' \in [Actors -> Places] /\ call' \in [Actors -> Calls]
         /\ mine' \in [Actors -> Versions] /\ now' \in [Actors -> SUBSET Ids]
         /\ ending' \in [Actors -> SUBSET Ids] /\ gone' \in [Actors -> BOOLEAN]
<1>1. pc' \in [Actors -> Places] /\ call' \in [Actors -> Calls]
  BY DEF Drop, TypeOK, Calls
<1>2. mine' \in [Actors -> Versions]
  BY DEF Drop, TypeOK, Versions
<1>3. now' \in [Actors -> SUBSET Ids] /\ ending' \in [Actors -> SUBSET Ids]
  BY DEF Drop, TypeOK
<1>4. gone' \in [Actors -> BOOLEAN]
  BY DEF Drop, TypeOK
<1> QED
  BY <1>1, <1>2, <1>3, <1>4

(* The steps that change neither the files nor what is counted. *)
LEMMA Otherwise ==
  ASSUME NEW a \in Actors,
         \/ Begin(a) \/ Lock(a) \/ LockUnavailable(a) \/ Reserve(a) \/ Refuse(a)
         \/ MutationFails(a) \/ UnlockFails(a) \/ Obtain(a) \/ GiveUp(a) \/ Recheck(a) \/ Deliver(a)
  PROVE  UNCHANGED <<file, onDisk, issued, terms, captures, retired>>
BY DEF Begin, BeginSnapshot, BeginObservation, BeginGrant, BeginRevoke, Lock, LockUnavailable,
       Reserve, Refuse, MutationFails, UnlockFails, Obtain, GiveUp, Recheck, Deliver,
       disk, grants, history

-----------------------------------------------------------------------------
(* Every step keeps the types of what the actors keep. *)
ActorTypes ==
  /\ pc \in [Actors -> Places] /\ call \in [Actors -> Calls]
  /\ mine \in [Actors -> Versions] /\ now \in [Actors -> SUBSET Ids]
  /\ ending \in [Actors -> SUBSET Ids] /\ gone \in [Actors -> BOOLEAN]

LEMMA ActorTypeStep == IInv /\ [Next]_vars => ActorTypes'
<1> SUFFICES ASSUME IInv, [Next]_vars PROVE ActorTypes'
  OBVIOUS
<1>t. TypeOK /\ FileInv /\ \A a \in Actors : ActorInv(a)
  BY DEF IInv
<1>f. file \in Versions
  BY <1>t DEF TypeOK
<1>h. ASSUME NEW S, Home(S) PROVE ActorTypes'
  BY <1>t, <1>h, DropTypes DEF Home, Places, ActorTypes
<1>1. ASSUME NEW a \in Actors, Begin(a) PROVE ActorTypes'
  <2>1. CASE BeginSnapshot(a)
    BY <1>t, <2>1 DEF BeginSnapshot, TypeOK, ActorTypes, At, history, Places, Calls
  <2>2. CASE BeginObservation(a)
    <3>1. [id |-> file.id, attempts |-> 0] \in Versions
      BY <1>f, <2>2, VersionFields DEF BeginObservation, Allowed, Versions
    <3> QED
      BY <1>t, <2>2, <3>1 DEF BeginObservation, TypeOK, ActorTypes, At, history, Places, Calls
  <2>3. CASE BeginGrant(a) \/ BeginRevoke(a)
    BY <1>t, <2>3 DEF BeginGrant, BeginRevoke, TypeOK, ActorTypes, At, history, Places, Calls
  <2> QED
    BY <1>1, <2>1, <2>2, <2>3 DEF Begin
<1>2. ASSUME NEW a \in Actors, Lock(a) PROVE ActorTypes'
  <2>1. UnderLock[call[a]] \in Places
    BY <1>t, <1>2 DEF Lock, ActorInv, UnderLock, Places
  <2> QED
    BY <1>t, <1>2, <2>1 DEF Lock, TypeOK, ActorTypes, At, history
<1>3. ASSUME NEW a \in Actors, Reserve(a) PROVE ActorTypes'
  <2>1. [file EXCEPT !.attempts = @ + 1] \in Versions
    <3>1. file.id \in Ids /\ file.attempts \in Nat /\ file = [id |-> file.id, attempts |-> file.attempts]
      BY <1>f, <1>3, VersionFields DEF Reserve, MayCapture, Allowed
    <3>2. [file EXCEPT !.attempts = @ + 1] = [id |-> file.id, attempts |-> file.attempts + 1]
      BY <3>1
    <3>3. file.attempts + 1 \in Nat
      BY <3>1
    <3> QED
      BY <3>1, <3>2, <3>3 DEF Versions
  <2> QED
    BY <1>t, <1>3, <2>1 DEF Reserve, TypeOK, ActorTypes, At, history, Places
<1>4. ASSUME NEW a \in Actors, Refuse(a) \/ MutationFails(a) PROVE ActorTypes'
  BY <1>t, <1>4, DropTypes DEF Refuse, MutationFails, Places, ActorTypes
<1>5. ASSUME NEW a \in Actors, WriteReservation(a) \/ Sync(a) PROVE ActorTypes'
  BY <1>t, <1>5 DEF WriteReservation, Sync, TypeOK, ActorTypes, At, history, Places
<1>6. ASSUME NEW a \in Actors, WriteGrant(a) \/ Remove(a) PROVE ActorTypes'
  <2>1. IdsOf(onDisk) \subseteq Ids
    BY <1>t DEF TypeOK, IdsOf, Versions, NoGrant
  <2>2. pc' \in [Actors -> Places] /\ ending' \in [Actors -> SUBSET Ids]
    BY <1>t, <1>6, <2>1 DEF WriteGrant, Remove, TypeOK, At, Places
  <2>3. UNCHANGED <<call, mine, now, gone>>
    BY <1>6 DEF WriteGrant, Remove
  <2> QED
    BY <1>t, <2>2, <2>3 DEF TypeOK, ActorTypes
<1>7. ASSUME NEW a \in Actors, Unlock(a) PROVE ActorTypes'
  <2>1. CASE pc[a] = "done" /\ call[a] = "snapshot"
    BY <1>t, <1>7, <2>1 DEF Unlock, TypeOK, ActorTypes, At, Places
  <2> QED
    BY <1>h, <1>7, <2>1 DEF Unlock
<1>8. ASSUME NEW a \in Actors, LockUnavailable(a) \/ UnlockFails(a) \/ GiveUp(a) \/ Deliver(a)
      PROVE ActorTypes'
  BY <1>h, <1>8 DEF LockUnavailable, UnlockFails, GiveUp, Deliver
<1>9. ASSUME NEW a \in Actors, Obtain(a) PROVE ActorTypes'
  <2>1. pc' \in [Actors -> Places] /\ now' \in [Actors -> SUBSET Ids]
    BY <1>t, <1>9 DEF Obtain, TypeOK, At, Places
  <2>2. gone' \in [Actors -> BOOLEAN]
    BY <1>t, <1>9 DEF Obtain, TypeOK
  <2> QED
    BY <1>t, <1>9, <2>1, <2>2 DEF Obtain, TypeOK, ActorTypes
<1>10. ASSUME NEW a \in Actors, Recheck(a) PROVE ActorTypes'
  BY <1>t, <1>10 DEF Recheck, TypeOK, ActorTypes, At, history, Places
<1>11. ASSUME NEW g \in Ids, Expire(g) PROVE ActorTypes'
  BY <1>t, <1>11 DEF Expire, TypeOK, ActorTypes, history
<1>12. CASE (\E p \in Processes : Crash(p)) \/ PowerLoss
  BY <1>h, <1>12 DEF Crash, PowerLoss
<1>13. CASE UNCHANGED vars
  BY <1>t, <1>13 DEF vars, TypeOK, ActorTypes
<1> QED
  BY <1>1, <1>2, <1>3, <1>4, <1>5, <1>6, <1>7, <1>8, <1>9, <1>10, <1>11, <1>12, <1>13
  DEF Next, Proceed

-----------------------------------------------------------------------------
(* Every step keeps the types of the lock and of the clock. *)
LockTypes ==
  /\ mutex \in Actors \cup Processes \cup {Nobody} /\ stuck \in SUBSET Processes
  /\ expired \in SUBSET Ids

LEMMA LockTypeStep == IInv /\ [Next]_vars => LockTypes'
<1> SUFFICES ASSUME IInv, [Next]_vars PROVE LockTypes'
  OBVIOUS
<1>t. LockTypes /\ \A a \in Actors : ProcessOf[a] \in Processes
  BY ConsentAssumption DEF IInv, TypeOK, LockTypes
<1>1. ASSUME NEW a \in Actors, Begin(a) \/ Proceed(a) PROVE LockTypes'
  <2>1. CASE Begin(a)
    BY <1>t, <2>1 DEF Begin, BeginSnapshot, BeginObservation, BeginGrant, BeginRevoke, locks, LockTypes
  <2>2. CASE Lock(a) \/ LockUnavailable(a) \/ Unlock(a) \/ UnlockFails(a)
    BY <1>t, <2>2 DEF Lock, LockUnavailable, Unlock, UnlockFails, locks, LockTypes
  <2>3. CASE Reserve(a) \/ Refuse(a) \/ MutationFails(a)
    BY <1>t, <2>3 DEF Reserve, Refuse, MutationFails, locks, LockTypes
  <2>4. CASE WriteReservation(a) \/ WriteGrant(a) \/ Remove(a) \/ Sync(a)
    BY <1>t, <2>4 DEF WriteReservation, WriteGrant, Remove, Sync, locks, LockTypes
  <2>5. CASE Obtain(a) \/ GiveUp(a) \/ Recheck(a) \/ Deliver(a)
    BY <1>t, <2>5 DEF Obtain, GiveUp, Recheck, Deliver, locks, LockTypes
  <2> QED
    BY <1>1, <2>1, <2>2, <2>3, <2>4, <2>5 DEF Proceed
<1>2. ASSUME NEW g \in Ids, Expire(g) PROVE LockTypes'
  BY <1>t, <1>2 DEF Expire, locks, LockTypes
<1>3. CASE (\E p \in Processes : Crash(p)) \/ PowerLoss
  BY <1>t, <1>3 DEF Crash, PowerLoss, LockTypes
<1>4. CASE UNCHANGED vars
  BY <1>t, <1>4 DEF vars, LockTypes
<1> QED
  BY <1>1, <1>2, <1>3, <1>4 DEF Next

-----------------------------------------------------------------------------
(* Every step keeps the files: their types, the attempts of every version, *)
(* and the identities used.                                                *)
FileTypes ==
  /\ file \in Versions /\ onDisk \in SUBSET Versions
  /\ issued \in 0 .. MaxGrants /\ terms \in [Ids -> Terms]
  /\ captures \in [Ids -> Nat] /\ retired \in SUBSET Ids

AttemptsInv == \A v \in onDisk \cup {file} : v = NoGrant \/ v.attempts <= terms[v.id].quota

LEMMA FileStep == IInv /\ [Next]_vars => (FileTypes /\ AttemptsInv /\ FileInv)'
<1> SUFFICES ASSUME IInv, [Next]_vars PROVE (FileTypes /\ AttemptsInv /\ FileInv)'
  OBVIOUS
<1> DEFINE Goal == FileTypes /\ AttemptsInv /\ FileInv
<1>t. Goal /\ TypeOK /\ \A a \in Actors : ActorInv(a)
  BY DEF IInv, TypeOK, FileTypes, AttemptsInv
<1>u. (UNCHANGED <<file, onDisk, issued, terms, captures, retired>>) => Goal'
  BY <1>t DEF FileTypes, AttemptsInv, FileInv
<1>1. ASSUME NEW a \in Actors, WriteReservation(a) PROVE Goal'
  <2>1. mine[a] \in Versions /\ mine[a].id <= issued
    BY <1>t, <1>1 DEF WriteReservation, TypeOK, FileInv, ActorInv
  <2>2. mine[a].attempts <= terms[mine[a].id].quota
    BY <1>t, <1>1 DEF WriteReservation, ActorInv
  <2>3. file' = mine[a] /\ onDisk' = onDisk \cup {mine[a]}
        /\ UNCHANGED <<issued, terms, captures, retired>>
    BY <1>1 DEF WriteReservation, grants, history
  <2> QED
    BY <1>t, <2>1, <2>2, <2>3 DEF FileTypes, AttemptsInv, FileInv
<1>2. ASSUME NEW a \in Actors, WriteGrant(a) PROVE Goal'
  <2> DEFINE new == [id |-> issued + 1, attempts |-> 0]
  <2>1. /\ issued \in 0 .. MaxGrants /\ issued < MaxGrants /\ MaxGrants \in Nat
        /\ issued' = issued + 1 /\ file' = new /\ onDisk' = onDisk \cup {new}
        /\ UNCHANGED <<captures, retired>>
    BY <1>t, <1>2, ConsentAssumption DEF WriteGrant, TypeOK
  <2>2. PICK t \in Terms : terms' = [terms EXCEPT ![issued + 1] = t]
    BY <1>2 DEF WriteGrant
  <2>3. issued + 1 \in Ids /\ new \in Versions /\ issued' \in 0 .. MaxGrants
    BY <2>1 DEF Ids, Versions
  <2>4. t.quota \in Nat
    BY ConsentAssumption
  <2>5. FileTypes'
    BY <1>t, <2>1, <2>2, <2>3 DEF FileTypes
  <2>6. \A v \in onDisk : v.id \in Int /\ v.id <= issued
    BY <1>t, VersionId DEF FileTypes, FileInv
  <2>7. ASSUME NEW v \in onDisk, v # NoGrant PROVE v.attempts <= terms'[v.id].quota
    <3>1. v.id \in Ids /\ v.id # issued + 1
      BY <1>t, <2>1, <2>6, <2>7, VersionFields DEF FileTypes
    <3> QED
      BY <1>t, <2>2, <2>7, <3>1 DEF FileTypes, AttemptsInv
  <2>8. new.attempts <= terms'[new.id].quota
    BY <1>t, <2>2, <2>3, <2>4 DEF FileTypes
  <2>9. AttemptsInv'
    BY <2>1, <2>7, <2>8 DEF AttemptsInv
  <2>10. \A v \in onDisk' : v.id <= issued'
    BY <2>1, <2>6
  <2>11. (\A g \in retired' : g <= issued') /\ \A g \in Ids : g > issued' => captures'[g] = 0
    BY <1>t, <2>1 DEF FileTypes, FileInv, Ids
  <2>12. FileInv'
    BY <2>1, <2>10, <2>11 DEF FileInv
  <2> QED
    BY <2>5, <2>9, <2>12
<1>3. ASSUME NEW a \in Actors, Remove(a) PROVE Goal'
  <2>1. file' = NoGrant /\ onDisk' = onDisk \cup {NoGrant} /\ UNCHANGED <<issued, terms, captures, retired>>
    BY <1>t, <1>3 DEF Remove, grants, FileInv
  <2>2. NoGrant.id <= issued
    BY <1>t, ConsentAssumption DEF FileTypes, NoGrant
  <2> QED
    BY <1>t, <2>1, <2>2 DEF FileTypes, AttemptsInv, FileInv, Versions
<1>4. ASSUME NEW a \in Actors, Sync(a) PROVE Goal'
  BY <1>t, <1>4 DEF Sync, grants, history, FileTypes, AttemptsInv, FileInv
<1>5. ASSUME NEW a \in Actors, Unlock(a) PROVE Goal'
  <2>0. UNCHANGED <<file, onDisk, issued, terms>>
    BY <1>5 DEF Unlock, disk, grants
  <2>1. CASE pc[a] = "done" /\ call[a] = "snapshot"
    <3>1. captures' = [captures EXCEPT ![mine[a].id] = @ + 1] /\ UNCHANGED retired
      BY <1>5, <2>1 DEF Unlock
    <3>2. mine[a].id \in Ids /\ mine[a].id <= issued
      BY <1>t, <2>1, VersionFields DEF ActorInv, FileTypes, FileInv
    <3>3. captures' \in [Ids -> Nat] /\ \A g \in Ids : g > issued => captures'[g] = 0
      BY <1>t, <3>1, <3>2 DEF FileTypes, FileInv, Ids
    <3> QED
      BY <1>t, <2>0, <3>1, <3>3 DEF FileTypes, AttemptsInv, FileInv
  <2>2. CASE ~(pc[a] = "done" /\ call[a] = "snapshot")
    <3>1. UNCHANGED captures /\ (retired' = retired \cup ending[a] \/ UNCHANGED retired)
      BY <1>5, <2>2 DEF Unlock
    <3>2. ending[a] \subseteq Ids /\ \A g \in ending[a] : g <= issued
      BY <1>t DEF TypeOK, ActorInv
    <3> QED
      BY <1>t, <2>0, <3>1, <3>2 DEF FileTypes, AttemptsInv, FileInv
  <2> QED
    BY <2>1, <2>2
<1>6. CASE PowerLoss
  BY <1>t, <1>6 DEF PowerLoss, grants, FileTypes, AttemptsInv, FileInv
<1>7. CASE (\E g \in Ids : Expire(g)) \/ (\E p \in Processes : Crash(p)) \/ UNCHANGED vars
  BY <1>u, <1>7 DEF Expire, Crash, vars, disk, grants, history
<1> QED
  <2>1. ASSUME NEW a \in Actors, Begin(a) \/ Proceed(a) PROVE Goal'
    BY <1>u, <1>1, <1>2, <1>3, <1>4, <1>5, <2>1, Otherwise DEF Proceed
  <2> QED
    BY <1>6, <1>7, <2>1 DEF Next

-----------------------------------------------------------------------------
(* A step of one actor leaves what the others keep. *)
LEMMA Others ==
  ASSUME TypeOK, NEW a \in Actors, NEW b \in Actors, b # a, Begin(a) \/ Proceed(a)
  PROVE  SameActor(b)
<1>h. ASSUME NEW place, Drop({a}, place) PROVE SameActor(b)
  BY <1>h, DropOthers
<1>1. CASE Begin(a)
  BY <1>1 DEF Begin, BeginSnapshot, BeginObservation, BeginGrant, BeginRevoke, At, history, TypeOK, SameActor
<1>2. CASE Lock(a) \/ Reserve(a) \/ WriteReservation(a) \/ Sync(a)
  BY <1>2 DEF Lock, Reserve, WriteReservation, Sync, At, history, TypeOK, SameActor
<1>3. CASE Refuse(a) \/ MutationFails(a) \/ LockUnavailable(a) \/ UnlockFails(a) \/ GiveUp(a) \/ Deliver(a)
  BY <1>h, <1>3 DEF Refuse, MutationFails, LockUnavailable, UnlockFails, GiveUp, Deliver, Home
<1>4. CASE WriteGrant(a) \/ Remove(a)
  BY <1>4 DEF WriteGrant, Remove, At, TypeOK, SameActor
<1>5. CASE Unlock(a)
  BY <1>h, <1>5 DEF Unlock, Home, At, TypeOK, SameActor
<1>6. CASE Obtain(a) \/ Recheck(a)
  BY <1>6 DEF Obtain, Recheck, At, history, TypeOK, SameActor
<1> QED
  BY <1>1, <1>2, <1>3, <1>4, <1>5, <1>6 DEF Proceed

(* While an actor is under the lock, no step of another one touches the    *)
(* lock or the files.                                                      *)
LEMMA LockProtects ==
  ASSUME IInv, NEW a \in Actors, NEW b \in Actors, b # a, Begin(a) \/ Proceed(a), pc[b] \in UnderTheLock
  PROVE  UNCHANGED <<mutex, file, onDisk, issued, terms, captures, retired>>
<1>1. mutex = b /\ mutex # Nobody /\ pc[a] \notin UnderTheLock
  BY ConsentAssumption DEF IInv, ActorInv
<1>2. ~Lock(a) /\ ~Unlock(a) /\ ~UnlockFails(a)
  BY <1>1 DEF Lock, Unlock, UnlockFails, UnderTheLock
<1>3. ~(Reserve(a) \/ Refuse(a) \/ WriteReservation(a) \/ WriteGrant(a) \/ Remove(a) \/ Sync(a) \/ MutationFails(a))
  BY <1>1 DEF Reserve, Refuse, WriteReservation, WriteGrant, Remove, Sync, MutationFails, UnderTheLock
<1> QED
  BY <1>2, <1>3 DEF Begin, BeginSnapshot, BeginObservation, BeginGrant, BeginRevoke, Proceed,
     LockUnavailable, Obtain, GiveUp, Recheck, Deliver, disk, locks, grants, history

(* The number of grants issued never falls. *)
LEMMA IssuedGrows == IInv /\ Next => issued <= issued' /\ issued \in Nat /\ issued' \in Nat
<1> SUFFICES ASSUME IInv, Next PROVE issued <= issued' /\ issued \in Nat /\ issued' \in Nat
  OBVIOUS
<1>1. issued \in Nat
  BY ConsentAssumption DEF IInv, TypeOK
<1>2. issued' = issued \/ issued' = issued + 1
  <2>1. ASSUME NEW a \in Actors, Begin(a) \/ Proceed(a) PROVE issued' = issued \/ issued' = issued + 1
    BY <2>1, Otherwise DEF Proceed, WriteReservation, WriteGrant, Remove, Sync, Unlock, grants
  <2> QED
    BY <2>1 DEF Next, Expire, Crash, PowerLoss, grants
<1> QED
  BY <1>1, <1>2

(* Every step keeps every actor, the one that moves and the others. *)
LEMMA ActorStep == IInv /\ [Next]_vars => \A b \in Actors : ActorInv(b)'
<1> SUFFICES ASSUME IInv, [Next]_vars, NEW b \in Actors PROVE ActorInv(b)'
  OBVIOUS
<1>t. TypeOK /\ FileInv /\ ActorInv(b)
  BY DEF IInv
<1>0. CASE UNCHANGED vars
  BY <1>t, <1>0 DEF vars, ActorInv
<1> SUFFICES ASSUME Next PROVE ActorInv(b)'
  BY <1>0
<1>i. issued <= issued' /\ issued \in Nat /\ issued' \in Nat
  BY IssuedGrows
<1>e. \A g \in ending[b] : g \in Int /\ g <= issued'
  BY <1>t, <1>i DEF TypeOK, ActorInv, Ids
<1>h. ASSUME NEW S, b \in S, Home(S) PROVE ActorInv(b)'
  BY <1>t, <1>h, DropEffect DEF Home, ActorInv, UnderTheLock
<1>d. ASSUME Drop({b}, "failed"), mutex' = b PROVE ActorInv(b)'
  BY <1>t, <1>d, DropEffect DEF ActorInv
<1>1. ASSUME NEW a \in Actors, a # b, Begin(a) \/ Proceed(a) PROVE ActorInv(b)'
  <2>1. SameActor(b)
    BY <1>t, <1>1, Others
  <2>2. CASE pc[b] \in UnderTheLock
    BY <1>t, <1>1, <1>e, <2>1, <2>2, LockProtects DEF SameActor, ActorInv
  <2>3. CASE pc[b] \notin UnderTheLock
    BY <1>t, <1>e, <2>1, <2>3 DEF SameActor, ActorInv, UnderTheLock
  <2> QED
    BY <2>2, <2>3
<1>2. CASE Begin(b)
  BY <1>t, <1>2 DEF Begin, BeginSnapshot, BeginObservation, BeginGrant, BeginRevoke, At, history, grants,
     TypeOK, ActorInv, UnderTheLock
<1>3. CASE Lock(b)
  BY <1>t, <1>3 DEF Lock, UnderLock, At, history, grants, TypeOK, ActorInv, UnderTheLock
<1>4. CASE Reserve(b)
  <2>1. mutex' = b /\ pc[b] = "deciding" /\ pc'[b] = "writing" /\ mine'[b] = [file EXCEPT !.attempts = @ + 1]
        /\ UNCHANGED <<call, file, terms, ending, issued>> /\ call[b] = "snapshot"
    BY <1>t, <1>4 DEF Reserve, At, history, locks, disk, grants, TypeOK, ActorInv, UnderTheLock
  <2>2. file # NoGrant /\ file.attempts < terms[file.id].quota
    BY <1>4 DEF Reserve, MayCapture, Allowed
  <2>3. file.id \in Ids /\ file.attempts \in Nat /\ file = [id |-> file.id, attempts |-> file.attempts]
    BY <1>t, <2>2, VersionFields DEF TypeOK
  <2>4. terms[file.id].quota \in Nat
    BY <1>t, <2>3, ConsentAssumption DEF TypeOK
  <2>5. mine'[b].id = file.id /\ mine'[b].attempts = file.attempts + 1
    BY <2>1, <2>3
  <2>6. mine'[b].attempts <= terms[file.id].quota
    BY <2>2, <2>3, <2>4, <2>5
  <2> QED
    BY <1>t, <2>1, <2>2, <2>5, <2>6 DEF ActorInv
<1>5. CASE Refuse(b) \/ MutationFails(b)
  BY <1>t, <1>d, <1>5 DEF Refuse, MutationFails, ActorInv, UnderTheLock, locks
<1>6. CASE WriteReservation(b)
  <2>1. mutex' = b /\ pc'[b] = "syncing" /\ file' = mine[b] /\ mine' = mine /\ call' = call
        /\ ending' = ending /\ issued' = issued
    BY <1>t, <1>6 DEF WriteReservation, At, history, locks, grants, TypeOK, ActorInv, UnderTheLock
  <2>2. mine[b].id \in Ids /\ mine[b] # NoGrant /\ mine[b].id = file.id
    <3>1. file.id \in Ids /\ mine[b].id = file.id
      BY <1>t, <1>6, VersionFields DEF WriteReservation, ActorInv, TypeOK
    <3> QED
      BY <3>1 DEF NoGrant, Ids
  <2>3. ending[b] = {}
    BY <1>t, <1>6 DEF WriteReservation, ActorInv
  <2> QED
    BY <1>t, <2>1, <2>2, <2>3 DEF ActorInv
<1>7. CASE WriteGrant(b)
  <2>1. mutex' = b /\ pc'[b] = "syncing" /\ call'[b] # "snapshot" /\ issued' = issued + 1
        /\ file'.id = issued + 1 /\ ending'[b] = IdsOf(onDisk)
    BY <1>t, <1>7 DEF WriteGrant, At, locks, TypeOK, ActorInv, UnderTheLock
  <2>2. \A g \in IdsOf(onDisk) : g \in Int /\ g <= issued
    BY <1>t, VersionId DEF TypeOK, FileInv, IdsOf
  <2> QED
    BY <1>i, <2>1, <2>2 DEF ActorInv
<1>8. CASE Remove(b)
  <2>1. mutex' = b /\ call'[b] # "snapshot" /\ issued' = issued /\ file'.id = 0
        /\ pc'[b] \in {"syncing", "done"} /\ (ending'[b] = ending[b] \/ ending'[b] = IdsOf(onDisk))
        /\ (pc'[b] = "syncing" => ending'[b] = IdsOf(onDisk))
    BY <1>t, <1>8 DEF Remove, At, locks, grants, TypeOK, ActorInv, UnderTheLock, NoGrant
  <2>2. \A g \in IdsOf(onDisk) : g <= issued /\ g # 0
    BY <1>t DEF FileInv, IdsOf
  <2> QED
    BY <1>e, <2>1, <2>2 DEF ActorInv
<1>9. CASE Sync(b)
  BY <1>t, <1>9 DEF Sync, At, history, locks, grants, TypeOK, ActorInv, UnderTheLock
<1>10. CASE Unlock(b)
  <2>1. CASE pc[b] = "done" /\ call[b] = "snapshot"
    BY <1>t, <1>10, <2>1 DEF Unlock, At, grants, TypeOK, ActorInv, UnderTheLock
  <2> QED
    BY <1>h, <1>10, <2>1 DEF Unlock
<1>11. CASE LockUnavailable(b) \/ UnlockFails(b) \/ GiveUp(b) \/ Deliver(b)
  BY <1>h, <1>11 DEF LockUnavailable, UnlockFails, GiveUp, Deliver
<1>12. CASE Obtain(b) \/ Recheck(b)
  BY <1>t, <1>12 DEF Obtain, Recheck, At, history, locks, grants, TypeOK, ActorInv, UnderTheLock
<1>13. ASSUME NEW p \in Processes, Crash(p) PROVE ActorInv(b)'
  <2>1. CASE b \in ActorsOf(p)
    BY <1>h, <1>13, <2>1 DEF Crash
  <2>2. CASE b \notin ActorsOf(p)
    <3>1. SameActor(b)
      BY <1>t, <1>13, <2>2, DropOthers DEF Crash, Home
    <3>2. b \notin {p} \cup ActorsOf(p)
      BY <2>2, ConsentAssumption
    <3>3. pc[b] \in UnderTheLock => mutex' = b
      BY <1>t, <1>13, <3>2 DEF Crash, ActorInv
    <3> QED
      BY <1>t, <1>13, <3>1, <3>3 DEF Crash, SameActor, ActorInv, disk, grants
  <2> QED
    BY <2>1, <2>2
<1>14. CASE PowerLoss
  BY <1>h, <1>14 DEF PowerLoss
<1>15. ASSUME NEW g \in Ids, Expire(g) PROVE ActorInv(b)'
  BY <1>t, <1>15 DEF Expire, disk, locks, grants, history, ActorInv
<1> QED
  <2>1. ASSUME NEW a \in Actors, Begin(a) \/ Proceed(a) PROVE ActorInv(b)'
    BY <1>1, <1>2, <1>3, <1>4, <1>5, <1>6, <1>7, <1>8, <1>9, <1>10, <1>11, <1>12, <2>1 DEF Proceed
  <2> QED
    BY <1>13, <1>14, <1>15, <2>1 DEF Next

-----------------------------------------------------------------------------
(* Every step keeps the disk in agreement with the captures and with what  *)
(* was retired.                                                            *)
LEMMA DurableStep == IInv /\ DirectorySync /\ [Next]_vars => DurableInv'
<1> SUFFICES ASSUME IInv, DirectorySync, [Next]_vars PROVE DurableInv'
  OBVIOUS
<1>t. TypeOK /\ FileInv /\ DurableInv /\ \A a \in Actors : ActorInv(a) /\ DurableActorInv(a)
  BY DEF IInv
<1>u. (UNCHANGED <<file, onDisk, issued, terms, captures, retired>>) => DurableInv'
  BY <1>t DEF DurableInv
<1>g. \A v \in onDisk : v # NoGrant => v.id \in Ids /\ v.attempts \in Nat
  BY <1>t, VersionFields DEF TypeOK
<1>c. \A g \in Ids : captures[g] \in Nat
  BY <1>t DEF TypeOK
<1>1. ASSUME NEW a \in Actors, WriteReservation(a) PROVE DurableInv'
  <2>1. /\ file # NoGrant /\ mine[a].id = file.id /\ mine[a].attempts = file.attempts + 1
        /\ file \in onDisk
    BY <1>t, <1>1 DEF WriteReservation, ActorInv, FileInv
  <2>2. captures[mine[a].id] <= mine[a].attempts /\ mine[a].id \notin retired
    BY <1>t, <1>g, <1>c, <2>1 DEF DurableInv
  <2>3. onDisk' = onDisk \cup {mine[a]} /\ UNCHANGED <<terms, captures, retired>>
    BY <1>1 DEF WriteReservation, grants, history
  <2> QED
    BY <1>t, <2>2, <2>3 DEF DurableInv
<1>2. ASSUME NEW a \in Actors, WriteGrant(a) PROVE DurableInv'
  <2> DEFINE new == [id |-> issued + 1, attempts |-> 0]
  <2>1. /\ issued \in 0 .. MaxGrants /\ issued < MaxGrants /\ MaxGrants \in Nat
        /\ onDisk' = onDisk \cup {new} /\ UNCHANGED <<captures, retired>>
    BY <1>t, <1>2, ConsentAssumption DEF WriteGrant, TypeOK
  <2>2. PICK t \in Terms : terms' = [terms EXCEPT ![issued + 1] = t]
    BY <1>2 DEF WriteGrant
  <2>3. issued + 1 \in Ids /\ t.quota \in Nat /\ terms \in [Ids -> Terms]
    BY <1>t, <2>1, ConsentAssumption DEF Ids, TypeOK
  <2>4. captures[issued + 1] = 0 /\ issued + 1 \notin retired
    BY <1>t, <2>1, <2>3 DEF FileInv
  <2>5. \A v \in onDisk' : v # NoGrant => captures'[v.id] <= v.attempts /\ v.id \notin retired'
    BY <1>t, <2>1, <2>4 DEF DurableInv
  <2>6. \A g \in Ids : captures'[g] <= terms'[g].quota
    BY <1>t, <2>1, <2>2, <2>3, <2>4 DEF DurableInv
  <2> QED
    BY <2>5, <2>6 DEF DurableInv
<1>3. ASSUME NEW a \in Actors, Remove(a) \/ Sync(a) PROVE DurableInv'
  <2>1. onDisk' \subseteq onDisk \cup {NoGrant} /\ UNCHANGED <<terms, captures, retired>>
    BY <1>t, <1>3 DEF Remove, Sync, grants, history, FileInv
  <2> QED
    BY <1>t, <2>1 DEF DurableInv
<1>4. ASSUME NEW a \in Actors, Unlock(a) PROVE DurableInv'
  <2>0. UNCHANGED <<onDisk, terms>>
    BY <1>4 DEF Unlock, disk, grants
  <2>1. CASE pc[a] = "done" /\ call[a] = "snapshot"
    <3>1. captures' = [captures EXCEPT ![mine[a].id] = @ + 1] /\ UNCHANGED retired
      BY <1>4, <2>1 DEF Unlock
    <3>2. /\ file = mine[a] /\ file # NoGrant /\ onDisk = {file}
          /\ captures[mine[a].id] < mine[a].attempts
      BY <1>t, <2>1 DEF ActorInv, DurableActorInv
    <3>3. /\ mine[a].id \in Ids /\ mine[a].attempts \in Nat
          /\ mine[a].attempts <= terms[mine[a].id].quota
      BY <1>t, <1>g, <3>2 DEF TypeOK
    <3>4. terms[mine[a].id].quota \in Nat /\ captures \in [Ids -> Nat]
      BY <1>t, <3>3, ConsentAssumption DEF TypeOK
    <3>5. captures'[mine[a].id] <= mine[a].attempts /\ captures'[mine[a].id] <= terms[mine[a].id].quota
      BY <3>1, <3>2, <3>3, <3>4
    <3>6. \A g \in Ids \ {mine[a].id} : captures'[g] = captures[g]
      BY <3>1, <3>4
    <3> QED
      BY <1>t, <2>0, <3>1, <3>2, <3>5, <3>6 DEF DurableInv
  <2>2. CASE ~(pc[a] = "done" /\ call[a] = "snapshot")
    <3>1. UNCHANGED captures /\ retired' = IF pc[a] = "done" THEN retired \cup ending[a] ELSE retired
      BY <1>4, <2>2 DEF Unlock
    <3>2. pc[a] = "done" => \A v \in onDisk : v.id \notin ending[a]
      BY <1>t DEF DurableActorInv
    <3> QED
      BY <1>t, <2>0, <3>1, <3>2 DEF DurableInv
  <2> QED
    BY <2>1, <2>2
<1>5. CASE PowerLoss
  BY <1>t, <1>5 DEF PowerLoss, grants, DurableInv
<1>6. CASE (\E g \in Ids : Expire(g)) \/ (\E p \in Processes : Crash(p)) \/ UNCHANGED vars
  BY <1>u, <1>6 DEF Expire, Crash, vars, disk, grants, history
<1> QED
  <2>1. ASSUME NEW a \in Actors, Begin(a) \/ Proceed(a) PROVE DurableInv'
    BY <1>u, <1>1, <1>2, <1>3, <1>4, <2>1, Otherwise DEF Proceed
  <2> QED
    BY <1>5, <1>6, <2>1 DEF Next

(* Nothing leaves the set of the retired. *)
LEMMA RetiredGrows == ASSUME IInv, Next PROVE retired \subseteq retired'
<1>1. ASSUME NEW a \in Actors, Begin(a) \/ Proceed(a) PROVE retired \subseteq retired'
  BY <1>1, Otherwise DEF Proceed, WriteReservation, WriteGrant, Remove, Sync, Unlock, history
<1> QED
  BY <1>1 DEF Next, Expire, Crash, PowerLoss, history

LEMMA DurableActorStep == IInv /\ DirectorySync /\ [Next]_vars => \A b \in Actors : DurableActorInv(b)'
<1> SUFFICES ASSUME IInv, DirectorySync, [Next]_vars, NEW b \in Actors PROVE DurableActorInv(b)'
  OBVIOUS
<1>t. TypeOK /\ FileInv /\ DurableInv /\ ActorInv(b) /\ DurableActorInv(b)
  BY DEF IInv
<1>0. CASE UNCHANGED vars
  BY <1>t, <1>0 DEF vars, DurableActorInv
<1> SUFFICES ASSUME Next PROVE DurableActorInv(b)'
  BY <1>0
<1>r. retired \subseteq retired'
  BY RetiredGrows
<1>h. ASSUME NEW S, NEW place \in {"idle", "failed"}, b \in S, Drop(S, place) PROVE DurableActorInv(b)'
  <2>1. pc'[b] = place
    BY <1>h, DropEffect
  <2> QED
    BY <2>1 DEF DurableActorInv
<1>q. ASSUME pc'[b] \notin {"syncing", "done", "rechecking", "delivering"} PROVE DurableActorInv(b)'
  BY <1>q DEF DurableActorInv
<1>1. ASSUME NEW a \in Actors, a # b, Begin(a) \/ Proceed(a) PROVE DurableActorInv(b)'
  <2>1. SameActor(b)
    BY <1>t, <1>1, Others
  <2>2. CASE pc[b] \in UnderTheLock
    <3>1. UNCHANGED <<file, onDisk, captures>> /\ pc[b] \notin {"rechecking", "delivering"}
      BY <1>1, <2>2, LockProtects DEF UnderTheLock
    <3> QED
      BY <1>t, <2>1, <3>1 DEF SameActor, DurableActorInv
  <2>3. CASE pc[b] \notin UnderTheLock
    BY <1>t, <1>r, <2>1, <2>3 DEF SameActor, DurableActorInv, UnderTheLock
  <2> QED
    BY <2>2, <2>3
<1>2. CASE Begin(b) \/ Lock(b) \/ Reserve(b)
  BY <1>t, <1>q, <1>2 DEF Begin, BeginSnapshot, BeginObservation, BeginGrant, BeginRevoke, Lock, UnderLock,
     Reserve, At, TypeOK, ActorInv
<1>3. CASE Refuse(b) \/ MutationFails(b)
  BY <1>h, <1>3 DEF Refuse, MutationFails
<1>4. CASE WriteReservation(b)
  <2>1. /\ pc'[b] = "syncing" /\ UNCHANGED <<mine, captures>>
        /\ file # NoGrant /\ mine[b].id = file.id /\ mine[b].attempts = file.attempts + 1
        /\ file \in onDisk
    BY <1>t, <1>4 DEF WriteReservation, At, history, TypeOK, ActorInv, FileInv
  <2>2. captures[file.id] <= file.attempts /\ captures[file.id] \in Nat /\ file.attempts \in Nat
    BY <1>t, <2>1, VersionFields DEF DurableInv, TypeOK
  <2>3. captures[mine[b].id] < mine[b].attempts
    BY <2>1, <2>2
  <2> QED
    BY <2>1, <2>3 DEF DurableActorInv
<1>5. CASE WriteGrant(b)
  BY <1>t, <1>5 DEF WriteGrant, At, TypeOK, ActorInv, DurableActorInv
<1>6. CASE Remove(b)
  <2>1. call'[b] # "snapshot" /\ pc'[b] \in {"syncing", "done"}
    BY <1>t, <1>6 DEF Remove, At, TypeOK, ActorInv
  <2>2. ASSUME pc'[b] = "done" PROVE ending'[b] = {}
    BY <1>t, <1>6, <2>2 DEF Remove, At, TypeOK, ActorInv
  <2> QED
    BY <2>1, <2>2 DEF DurableActorInv
<1>7. CASE Sync(b)
  <2>1. /\ pc[b] = "syncing" /\ pc'[b] = "done" /\ onDisk' = {file}
        /\ UNCHANGED <<file, call, mine, captures, ending>>
    BY <1>t, <1>7 DEF Sync, At, history, TypeOK
  <2> QED
    BY <1>t, <2>1 DEF DurableActorInv, ActorInv
<1>8. CASE Unlock(b)
  <2>1. CASE pc[b] = "done" /\ call[b] = "snapshot"
    BY <1>t, <1>q, <1>8, <2>1 DEF Unlock, At, TypeOK
  <2> QED
    BY <1>h, <1>8, <2>1 DEF Unlock, Home
<1>9. CASE LockUnavailable(b) \/ UnlockFails(b) \/ GiveUp(b) \/ Deliver(b)
  BY <1>h, <1>9 DEF LockUnavailable, UnlockFails, GiveUp, Deliver, Home
<1>10. CASE Obtain(b)
  <2>1. pc'[b] = "rechecking" /\ now'[b] = expired /\ UNCHANGED <<mine, retired>>
    BY <1>t, <1>10 DEF Obtain, At, TypeOK
  <2>2. gone'[b] => mine[b].id \in retired \cup expired
    BY <1>t, <1>10 DEF Obtain, TypeOK
  <2> QED
    BY <2>1, <2>2 DEF DurableActorInv
<1>11. CASE Recheck(b)
  <2>1. pc[b] = "rechecking" /\ pc'[b] = "delivering" /\ UNCHANGED gone
    BY <1>t, <1>11 DEF Recheck, At, TypeOK, history
  <2>2. mine[b].id \notin retired \cup now[b]
    BY <1>t, <1>11 DEF Recheck, Allowed, DurableInv, FileInv
  <2>3. ~gone'[b]
    BY <1>t, <2>1, <2>2 DEF DurableActorInv
  <2> QED
    BY <2>1, <2>3 DEF DurableActorInv
<1>12. ASSUME NEW p \in Processes, Crash(p) PROVE DurableActorInv(b)'
  <2>1. CASE b \in ActorsOf(p)
    BY <1>h, <1>12, <2>1 DEF Crash, Home
  <2>2. CASE b \notin ActorsOf(p)
    <3>1. SameActor(b)
      BY <1>t, <1>12, <2>2, DropOthers DEF Crash, Home
    <3> QED
      BY <1>t, <1>12, <3>1 DEF Crash, SameActor, DurableActorInv, disk
  <2> QED
    BY <2>1, <2>2
<1>13. CASE PowerLoss
  BY <1>h, <1>13 DEF PowerLoss, Home
<1>14. ASSUME NEW g \in Ids, Expire(g) PROVE DurableActorInv(b)'
  BY <1>t, <1>14 DEF Expire, disk, history, DurableActorInv
<1> QED
  <2>1. ASSUME NEW a \in Actors, Begin(a) \/ Proceed(a) PROVE DurableActorInv(b)'
    BY <1>1, <1>2, <1>3, <1>4, <1>5, <1>6, <1>7, <1>8, <1>9, <1>10, <1>11, <2>1 DEF Proceed
  <2> QED
    BY <1>12, <1>13, <1>14, <2>1 DEF Next

-----------------------------------------------------------------------------
(* The invariant is inductive. *)
THEOREM Invariance == Spec => []IInv
<1>1. Init => IInv
  <2> SUFFICES ASSUME Init PROVE IInv
    OBVIOUS
  <2>t. (CHOOSE t \in Terms : TRUE) \in Terms /\ MaxGrants \in Nat
    BY ConsentAssumption
  <2>1. FileTypes /\ AttemptsInv
    BY <2>t DEF Init, FileTypes, AttemptsInv, Versions
  <2>2. ActorTypes
    <3>1. gone \in [Actors -> BOOLEAN]
      BY DEF Init
    <3>2. mine \in [Actors -> Versions] /\ now \in [Actors -> SUBSET Ids] /\ ending \in [Actors -> SUBSET Ids]
      BY DEF Init, Versions
    <3> QED
      BY <3>1, <3>2 DEF Init, ActorTypes, Places, Calls
  <2>3. LockTypes
    BY DEF Init, LockTypes
  <2>4. FileInv
    BY DEF Init, FileInv, NoGrant, Ids
  <2>5. \A a \in Actors : ActorInv(a)
    BY DEF Init, ActorInv, UnderTheLock
  <2>6. \A g \in Ids : captures[g] <= terms[g].quota
    <3>1. (CHOOSE t \in Terms : TRUE).quota \in Nat
      BY <2>t, ConsentAssumption
    <3> QED
      BY <3>1 DEF Init
  <2>7. DurableInv
    BY <2>6 DEF Init, DurableInv
  <2>8. \A a \in Actors : DurableActorInv(a)
    BY DEF Init, DurableActorInv
  <2> QED
    BY <2>1, <2>2, <2>3, <2>4, <2>5, <2>7, <2>8
    DEF IInv, TypeOK, FileTypes, AttemptsInv, ActorTypes, LockTypes
<1>2. IInv /\ [Next]_vars => IInv'
  <2> SUFFICES ASSUME IInv, [Next]_vars PROVE IInv'
    OBVIOUS
  <2>1. TypeOK'
    BY ActorTypeStep, LockTypeStep, FileStep DEF TypeOK, FileTypes, AttemptsInv, ActorTypes, LockTypes
  <2>2. FileInv' /\ \A a \in Actors : ActorInv(a)'
    BY FileStep, ActorStep
  <2>3. DirectorySync => DurableInv' /\ \A a \in Actors : DurableActorInv(a)'
    BY DurableStep, DurableActorStep
  <2> QED
    BY <2>1, <2>2, <2>3 DEF IInv
<1> QED
  BY <1>1, <1>2, PTL DEF Spec

(* Every variable stays in its range, and no version of the file ever      *)
(* counts more attempts than its grant allows.                             *)
THEOREM TypeCorrect == Spec => []TypeOK
<1>1. IInv => TypeOK
  BY DEF IInv
<1> QED
  BY <1>1, Invariance, PTL

(* reserve_snapshot() keeps the camera within the quota of every grant, in *)
(* any number of processes that crash and through any power loss.          *)
THEOREM Quota == Spec => []QuotaKept
<1>1. IInv => QuotaKept
  BY DEF IInv, DurableInv, QuotaKept
<1> QED
  BY <1>1, Invariance, PTL

(* A grant that grant() or revoke() ended stays ended.                     *)
THEOREM Retirement == Spec => []RetiredStaysRetired
<1>1. IInv => RetiredStaysRetired
  <2> SUFFICES ASSUME IInv, DirectorySync, NEW g \in retired, g \in IdsOf(onDisk \cup {file})
               PROVE FALSE
    BY DEF RetiredStaysRetired
  <2>1. PICK v \in onDisk : v.id = g /\ v # NoGrant
    BY DEF IInv, FileInv, IdsOf, NoGrant
  <2> QED
    BY <2>1 DEF IInv, DurableInv
<1> QED
  BY <1>1, Invariance, PTL

(* The second look at the consent keeps what a grant that has ended in the *)
(* meantime would have delivered.                                          *)
THEOREM Delivery == Spec => []DeliveredUnderLiveGrant
<1>1. IInv => DeliveredUnderLiveGrant
  BY DEF IInv, DurableActorInv, DeliveredUnderLiveGrant
<1> QED
  BY <1>1, Invariance, PTL
=============================================================================
