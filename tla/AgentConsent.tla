---------------------------- MODULE AgentConsent ----------------------------
(***************************************************************************)
(* agent/consent.py and the two reads of agent/service.py it authorises.   *)
(*                                                                         *)
(* Consent is one file, replaced atomically under a lock between           *)
(* processes: a grant with its terms and the snapshot attempts used.       *)
(* Administrators grant and revoke (the consent commands); agents ask for  *)
(* a snapshot or for the latest observation.  A snapshot reserves an       *)
(* attempt under the lock, captures, and reads consent again, without the  *)
(* lock, before it is delivered.  An observation is authorised before it   *)
(* is read and again after.                                                *)
(*                                                                         *)
(* Any actor's process may crash, and the machine may lose its power,      *)
(* which leaves any version of the file not yet superseded by a            *)
(* synchronised one.  Left out: the checks of the file's type and fields   *)
(* (a load that fails) and the metrics.                                    *)
(***************************************************************************)
EXTENDS Integers

CONSTANTS
  Agents, Admins,
  Processes, ProcessOf,   \* the process an actor runs in
  Terms,                  \* the terms a grant may have
  Levels,                 \* ranks of sensitivity, 0 being public
  CaptureLevel,           \* SnapshotProvider.sensitivity_class
  DirectorySync,          \* directories can be synchronised on this platform
  MaxGrants,              \* bound: grants issued
  Nobody                  \* of the lock

Actors == Agents \cup Admins
Ids == 1 .. MaxGrants
Scopes == {"observation.read", "snapshot.read"}

ASSUME ConsentAssumption ==
  /\ ProcessOf \in [Actors -> Processes]
  /\ Actors \cap Processes = {} /\ Nobody \notin Actors \cup Processes
  /\ Terms # {} /\ Terms \subseteq [quota: Nat, scopes: SUBSET Scopes, ceiling: Levels]
  /\ Levels \subseteq Nat /\ 0 \in Levels /\ CaptureLevel \in Levels
  /\ MaxGrants \in Nat
  /\ DirectorySync \in BOOLEAN

NoGrant == [id |-> 0, attempts |-> 0]
Versions == [id: Ids, attempts: Nat] \cup {NoGrant}

VARIABLES
  file,       \* the consent file, NoGrant when there is none
  onDisk,     \* the versions a power loss may leave
  mutex,      \* the lock: an actor, or a process whose release failed
  stuck,      \* processes whose registry keeps a lease that was not released
  issued,     \* grants issued so far
  terms,      \* the terms of each
  expired,    \* grants whose expiry the clock has reached
  pc, call,   \* per actor, where it is and in which call
  mine,       \* per actor, the version it loaded or wrote
  now,        \* per actor, the grants expired by its reading of the clock, until used
  captures,   \* history: captures started under each grant
  ending,     \* history, per actor: the grants its mutation puts an end to
  retired,    \* history: grants ended by a mutation that reported success
  gone        \* history, per actor: its grant had ended when its recheck began

vars == <<file, onDisk, mutex, stuck, issued, terms, expired, pc, call, mine, now,
          captures, ending, retired, gone>>
disk == <<file, onDisk>>
locks == <<mutex, stuck>>
grants == <<issued, terms>>
history == <<captures, ending, retired, gone>>

Init ==
  /\ file = NoGrant /\ onDisk = {NoGrant}
  /\ mutex = Nobody /\ stuck = {}
  /\ issued = 0 /\ expired = {}
  /\ terms = [g \in Ids |-> CHOOSE t \in Terms : TRUE]
  /\ pc = [a \in Actors |-> "idle"]
  /\ call = [a \in Actors |-> "none"]
  /\ mine = [a \in Actors |-> NoGrant]
  /\ now = [a \in Actors |-> {}]
  /\ captures = [g \in Ids |-> 0]
  /\ ending = [a \in Actors |-> {}] /\ retired = {} /\ gone = [a \in Actors |-> FALSE]

-----------------------------------------------------------------------------
ActorsOf(p) == {a \in Actors : ProcessOf[a] = p}
IdsOf(versions) == {v.id : v \in versions} \ {0}

At(a, place) == pc' = [pc EXCEPT ![a] = place]

(* The call's results are dropped: it only has a lock to give back, or has ended. *)
Drop(actors, place) ==
  /\ pc' = [a \in Actors |-> IF a \in actors THEN place ELSE pc[a]]
  /\ call' = [a \in Actors |-> IF a \in actors THEN "none" ELSE call[a]]
  /\ mine' = [a \in Actors |-> IF a \in actors THEN NoGrant ELSE mine[a]]
  /\ now' = [a \in Actors |-> IF a \in actors THEN {} ELSE now[a]]
  /\ ending' = [a \in Actors |-> IF a \in actors THEN {} ELSE ending[a]]
  /\ gone' = [a \in Actors |-> a \notin actors /\ gone[a]]

Home(actors) == Drop(actors, "idle")

(* evaluate_grant, of a version of the file and a reading of the clock. *)
Allowed(v, scope, level, used, clock) ==
  /\ v # NoGrant
  /\ v.id \notin clock
  /\ scope \in terms[v.id].scopes
  /\ level <= terms[v.id].ceiling
  /\ scope = "snapshot.read" => used < terms[v.id].quota

-----------------------------------------------------------------------------
(* snapshot() reads the clock before anything else. *)
BeginSnapshot(a) ==
  /\ pc[a] = "idle"
  /\ At(a, "waiting")
  /\ call' = [call EXCEPT ![a] = "snapshot"]
  /\ now' = [now EXCEPT ![a] = expired]
  /\ UNCHANGED <<disk, locks, grants, expired, mine, history>>

(* _authorize() loads consent without the lock; only the identity of what   *)
(* it found is used later.  A load that fails, or a refusal, is an answer.  *)
BeginObservation(a) ==
  /\ pc[a] = "idle"
  /\ Allowed(file, "observation.read", 0, file.attempts, expired)
  /\ At(a, "reading")
  /\ call' = [call EXCEPT ![a] = "observation"]
  /\ mine' = [mine EXCEPT ![a] = [id |-> file.id, attempts |-> 0]]
  /\ UNCHANGED <<disk, locks, grants, expired, now, history>>

BeginGrant(a) ==
  /\ pc[a] = "idle" /\ issued < MaxGrants
  /\ At(a, "waiting")
  /\ call' = [call EXCEPT ![a] = "grant"]
  /\ UNCHANGED <<disk, locks, grants, expired, mine, now, history>>

BeginRevoke(a) ==
  /\ pc[a] = "idle"
  /\ At(a, "waiting")
  /\ call' = [call EXCEPT ![a] = "revoke"]
  /\ UNCHANGED <<disk, locks, grants, expired, mine, now, history>>

-----------------------------------------------------------------------------
UnderLock == [snapshot |-> "deciding", grant |-> "granting", revoke |-> "removing"]

(* Mutant: a mutation does not wait for the one under way. *)
LockIgnored(a) ==
  /\ pc[a] = "waiting"
  /\ mutex' = a
  /\ At(a, UnderLock[call[a]])
  /\ UNCHANGED <<disk, stuck, grants, expired, call, mine, now, history>>

(* _mutation_lock(): the lock of the process's threads, then that of the   *)
(* processes.  A lease of the process left in the registry refuses others. *)
Lock(a) ==
  /\ pc[a] = "waiting"
  /\ mutex = Nobody /\ ProcessOf[a] \notin stuck
  /\ mutex' = a
  /\ At(a, UnderLock[call[a]])
  /\ UNCHANGED <<disk, stuck, grants, expired, call, mine, now, history>>

(* Mutant: a lock that is taken is waited for without a deadline. *)
LockAwaited(a) ==
  /\ pc[a] = "waiting"
  /\ mutex = Nobody
  /\ Home({a})
  /\ UNCHANGED <<disk, locks, grants, expired, captures, retired>>

(* The deadline passes: the lock is taken elsewhere, or cannot be made.    *)
(* The lock of the threads has no deadline.                                *)
LockUnavailable(a) ==
  /\ pc[a] = "waiting"
  /\ mutex \notin ActorsOf(ProcessOf[a])
  /\ Home({a})
  /\ UNCHANGED <<disk, locks, grants, expired, captures, retired>>

MayCapture(a) == Allowed(file, "snapshot.read", CaptureLevel, file.attempts, now[a])

(* reserve_snapshot() loads consent and decides.  Its clock was read before *)
(* it waited for the lock.                                                  *)
Reserve(a) ==
  /\ pc[a] = "deciding" /\ MayCapture(a)
  /\ At(a, "writing")
  /\ mine' = [mine EXCEPT ![a] = [file EXCEPT !.attempts = @ + 1]]
  /\ now' = [now EXCEPT ![a] = {}]
  /\ UNCHANGED <<disk, locks, grants, expired, call, history>>

Refuse(a) ==
  /\ pc[a] = "deciding" /\ ~MayCapture(a)
  /\ Drop({a}, "failed")
  /\ UNCHANGED <<disk, locks, grants, expired, captures, retired>>

(* _write(): the temporary file, synchronised, takes the place of the file. *)
WriteReservation(a) ==
  /\ pc[a] = "writing"
  /\ file' = mine[a]
  /\ onDisk' = onDisk \cup {mine[a]}
  /\ At(a, "syncing")
  /\ UNCHANGED <<locks, grants, expired, call, mine, now, history>>

(* grant(): a new identity, the terms asked for, no attempt used. *)
WriteGrant(a) ==
  /\ pc[a] = "granting" /\ issued < MaxGrants
  /\ issued' = issued + 1
  /\ \E t \in Terms : terms' = [terms EXCEPT ![issued + 1] = t]
  /\ file' = [id |-> issued + 1, attempts |-> 0]
  /\ onDisk' = onDisk \cup {file'}
  /\ At(a, "syncing")
  /\ ending' = [ending EXCEPT ![a] = IdsOf(onDisk)]
  /\ UNCHANGED <<locks, expired, call, mine, now, captures, retired, gone>>

(* revoke(): False when there is no file, and then nothing to synchronise. *)
Remove(a) ==
  /\ pc[a] = "removing"
  /\ file' = NoGrant
  /\ IF file = NoGrant
     THEN /\ At(a, "done")
          /\ UNCHANGED <<onDisk, ending>>
     ELSE /\ At(a, "syncing")
          /\ onDisk' = onDisk \cup {NoGrant}
          /\ ending' = [ending EXCEPT ![a] = IdsOf(onDisk)]
  /\ UNCHANGED <<locks, grants, expired, call, mine, now, captures, retired, gone>>

(* Mutant: the directory is not synchronised. *)
SyncNothing(a) ==
  /\ pc[a] = "syncing"
  /\ UNCHANGED onDisk
  /\ At(a, "done")
  /\ UNCHANGED <<file, locks, grants, expired, call, mine, now, history>>

(* _sync_parent_directory(), which some platforms cannot do. *)
Sync(a) ==
  /\ pc[a] = "syncing"
  /\ onDisk' = IF DirectorySync THEN {file} ELSE onDisk
  /\ At(a, "done")
  /\ UNCHANGED <<file, locks, grants, expired, call, mine, now, history>>

(* A load, a write, a removal or a synchronisation raises.  What was done  *)
(* before stays done.                                                      *)
MutationFails(a) ==
  /\ pc[a] \in {"deciding", "writing", "granting", "removing", "syncing"}
  /\ Drop({a}, "failed")
  /\ UNCHANGED <<disk, locks, grants, expired, captures, retired>>

-----------------------------------------------------------------------------
(* The lock is given back.  grant() and revoke() have succeeded; a          *)
(* reservation goes on with the provider's capture().                       *)
Unlock(a) ==
  /\ pc[a] \in {"done", "failed"}
  /\ mutex' = Nobody
  /\ IF pc[a] = "done" /\ call[a] = "snapshot"
     THEN /\ At(a, "capturing")
          /\ captures' = [captures EXCEPT ![mine[a].id] = @ + 1]
          /\ UNCHANGED <<call, mine, now, ending, gone, retired>>
     ELSE /\ Home({a})
          /\ retired' = IF pc[a] = "done" THEN retired \cup ending[a] ELSE retired
          /\ UNCHANGED captures
  /\ UNCHANGED <<disk, stuck, grants, expired>>

(* The close of the lock's descriptor raises, whether or not the lock went: *)
(* the registry keeps the lease, and the caller gets an error.              *)
UnlockFails(a) ==
  /\ pc[a] \in {"done", "failed"}
  /\ stuck' = stuck \cup {ProcessOf[a]}
  /\ mutex' \in {Nobody, ProcessOf[a]}
  /\ Home({a})
  /\ UNCHANGED <<disk, grants, expired, captures, retired>>

-----------------------------------------------------------------------------
(* The provider, or the latest-observation slot, has something to deliver. *)
(* _reauthorize_same_grant() reads the clock anew, then the file.           *)
Obtain(a) ==
  /\ pc[a] \in {"capturing", "reading"}
  /\ At(a, "rechecking")
  /\ now' = [now EXCEPT ![a] = expired]
  /\ gone' = [gone EXCEPT ![a] = mine[a].id \in retired \cup expired]
  /\ UNCHANGED <<disk, locks, grants, expired, call, mine, captures, ending, retired>>

(* It has not, or what was asked for is unavailable, or the result is too large. *)
GiveUp(a) ==
  /\ pc[a] \in {"capturing", "reading", "rechecking"}
  /\ Home({a})
  /\ UNCHANGED <<disk, locks, grants, expired, captures, retired>>

ScopeOf(a) == IF call[a] = "snapshot" THEN "snapshot.read" ELSE "observation.read"

(* Mutant: any grant in force will do. *)
RecheckAnyGrant(a) ==
  /\ pc[a] = "rechecking"
  /\ \E level \in Levels : Allowed(file, ScopeOf(a), level, 0, now[a])
  /\ At(a, "delivering")
  /\ now' = [now EXCEPT ![a] = {}]
  /\ UNCHANGED <<disk, locks, grants, expired, call, mine, history>>

Recheck(a) ==
  /\ pc[a] = "rechecking"
  /\ file.id = mine[a].id
  /\ \E level \in Levels : Allowed(file, ScopeOf(a), level, 0, now[a])
  /\ At(a, "delivering")
  /\ now' = [now EXCEPT ![a] = {}]
  /\ UNCHANGED <<disk, locks, grants, expired, call, mine, history>>

Deliver(a) ==
  /\ pc[a] = "delivering"
  /\ Home({a})
  /\ UNCHANGED <<disk, locks, grants, expired, captures, retired>>

-----------------------------------------------------------------------------
(* The clock reaches the expiry of a grant; it is taken not to go back.    *)
(* Only the expiry of a grant that can still be read matters.               *)
Expire(g) ==
  /\ g \in IdsOf(onDisk)
  /\ expired' = expired \cup {g}
  /\ UNCHANGED <<disk, locks, grants, pc, call, mine, now, history>>

(* A process dies, and the system drops its lock. *)
Crash(p) ==
  /\ Home(ActorsOf(p))
  /\ mutex' = IF mutex \in {p} \cup ActorsOf(p) THEN Nobody ELSE mutex
  /\ stuck' = stuck \ {p}
  /\ UNCHANGED <<disk, grants, expired, captures, retired>>

(* The machine dies and comes back with one of the versions on the disk. *)
PowerLoss ==
  /\ Home(Actors)
  /\ mutex' = Nobody /\ stuck' = {}
  /\ file' \in onDisk
  /\ onDisk' = {file'}
  /\ UNCHANGED <<grants, expired, captures, retired>>

Begin(a) ==
  \/ a \in Agents /\ (BeginSnapshot(a) \/ BeginObservation(a))
  \/ a \in Admins /\ (BeginGrant(a) \/ BeginRevoke(a))

Proceed(a) ==
  \/ Lock(a) \/ LockUnavailable(a)
  \/ Reserve(a) \/ Refuse(a) \/ WriteReservation(a) \/ WriteGrant(a) \/ Remove(a)
  \/ Sync(a) \/ MutationFails(a)
  \/ Unlock(a) \/ UnlockFails(a)
  \/ Obtain(a) \/ GiveUp(a) \/ Recheck(a) \/ Deliver(a)

Next ==
  \/ \E a \in Actors : Begin(a) \/ Proceed(a)
  \/ \E g \in Ids : Expire(g)
  \/ \E p \in Processes : Crash(p)
  \/ PowerLoss

Spec == Init /\ [][Next]_vars

(* Every call of the library and of the provider returns or raises.        *)
FairSpec == Spec /\ \A a \in Actors : WF_vars(Proceed(a))

-----------------------------------------------------------------------------
Places == {"idle", "waiting", "deciding", "writing", "granting", "removing", "syncing", "done",
           "failed", "capturing", "reading", "rechecking", "delivering"}
Calls == {"none", "snapshot", "observation", "grant", "revoke"}

(* Types; a version never counts more attempts than its grant allows.      *)
TypeOK ==
  /\ file \in Versions /\ onDisk \in SUBSET Versions
  /\ \A v \in onDisk \cup {file} : v = NoGrant \/ v.attempts <= terms[v.id].quota
  /\ mutex \in Actors \cup Processes \cup {Nobody} /\ stuck \in SUBSET Processes
  /\ issued \in 0 .. MaxGrants /\ terms \in [Ids -> Terms] /\ expired \in SUBSET Ids
  /\ pc \in [Actors -> Places] /\ call \in [Actors -> Calls]
  /\ mine \in [Actors -> Versions] /\ now \in [Actors -> SUBSET Ids]
  /\ captures \in [Ids -> Nat] /\ retired \in SUBSET Ids
  /\ ending \in [Actors -> SUBSET Ids] /\ gone \in [Actors -> BOOLEAN]

(* The camera is never touched more often under a grant than its quota     *)
(* allows, whatever threads and processes ask, fail or crash, and through   *)
(* a power loss: the attempt is on the disk before capture() is called.     *)
QuotaKept == DirectorySync => \A g \in Ids : captures[g] <= terms[g].quota

(* A grant that was replaced or revoked by a call that succeeded never     *)
(* comes back: no reservation under way writes it again, no power loss      *)
(* restores it.                                                             *)
RetiredStaysRetired == DirectorySync => retired \cap IdsOf(onDisk \cup {file}) = {}

(* Nothing is delivered under a grant that was revoked, replaced or expired *)
(* when the second look at the consent began, though another grant may be   *)
(* in force by then.                                                        *)
DeliveredUnderLiveGrant ==
  DirectorySync => \A a \in Actors : pc[a] = "delivering" => ~gone[a]

(* Every call is answered, or waits for another thread of its process.     *)
(* The lock of the processes never blocks it: its owner may be stuck.       *)
CallsAnswered ==
  \A a \in Actors :
    pc[a] # "idle" ~> \/ pc[a] = "idle"
                      \/ \E b \in ActorsOf(ProcessOf[a]) : b # a /\ mutex = b
=============================================================================
