---------------------------- MODULE SharedCamera ----------------------------
(***************************************************************************)
(* core/file_lock.py and capture/lease.py: the lease of one camera, shared *)
(* by owners of several processes (CameraController and                    *)
(* CameraSnapshotProvider, each with a lease object of its own).           *)
(*                                                                         *)
(* A lease is a byte-range lock of the operating system on a sentinel file *)
(* plus an entry in a registry of the process (_HELD_LEASES).  acquire()   *)
(* and release() are two steps each, since the lock and the registry       *)
(* change one after the other.  An attempt that finds the lock taken, or   *)
(* the file unusable, returns False and changes nothing: it is a stutter.  *)
(* The backend of an owner runs in a worker process of its own, which does *)
(* not inherit the descriptor and may outlive the owner's process.         *)
(***************************************************************************)
EXTENDS Naturals

CONSTANTS
  Leases,        \* lease objects on the same path
  Processes,
  ProcessOf,     \* the process a lease object lives in
  Nobody,        \* None, for the lock and for a registry entry
  MaxOrphans     \* bound of the model: orphans that one owner leaves behind

ASSUME LeaseAssumption ==
  ProcessOf \in [Leases -> Processes] /\ Nobody \notin Leases /\ MaxOrphans \in Nat

VARIABLES
  lockHolder,    \* the lease whose descriptor holds the lock (external)
  registry,      \* per process, _HELD_LEASES[path]
  fd,            \* per lease, _fd is not None
  pc,            \* per lease, the call in progress: "idle", "locked", "closed"
  owner,         \* per lease, its owner: without it, with it, or with a failed release
  device,        \* per lease, its owner has a backend not confirmed closed
  stray,         \* leases whose refused acquire() could not close its descriptor
  orphans,       \* per lease, workers of dead owners that still have the camera (external)
  metOrphan      \* history: per lease, there was an orphan when its backend was made

calls == <<registry, fd, pc, owner>>
use   == <<device, orphans, metOrphan>>
leaseVars == <<lockHolder, calls, stray, use>>

LeaseInit ==
  /\ lockHolder = Nobody
  /\ registry = [p \in Processes |-> Nobody]
  /\ fd = [l \in Leases |-> FALSE]
  /\ pc = [l \in Leases |-> "idle"]
  /\ owner = [l \in Leases |-> "without"]
  /\ device = [l \in Leases |-> FALSE]
  /\ stray = {}
  /\ orphans = [l \in Leases |-> 0]
  /\ metOrphan = [l \in Leases |-> FALSE]

-----------------------------------------------------------------------------
(* _try_os_lock, without waiting. *)
TryOsLock(l) == lockHolder = Nobody /\ lockHolder' = l

(* acquire(), first step: _fd says whether anything is left to do, else the *)
(* descriptor is opened and locked.                                         *)
TakeLock(l) ==
  /\ pc[l] = "idle"
  /\ IF fd[l] THEN /\ owner' = [owner EXCEPT ![l] = "with"]
                   /\ UNCHANGED <<lockHolder, pc>>
              ELSE /\ TryOsLock(l)
                   /\ pc' = [pc EXCEPT ![l] = "locked"]
                   /\ UNCHANGED owner
  /\ UNCHANGED <<registry, fd, stray, use>>

(* An owner asks only when it does not have the lease and never after a    *)
(* release of it failed: _run is one-shot, capture() tests _lease_held.    *)
Acquire(l) == owner[l] = "without" /\ TakeLock(l)

(* acquire(), second step: the registry of the process has the last word.  *)
(* A descriptor that is refused and cannot be closed may keep the lock.     *)
Register(l) ==
  /\ pc[l] = "locked"
  /\ pc' = [pc EXCEPT ![l] = "idle"]
  /\ \/ /\ registry[ProcessOf[l]] = Nobody
        /\ registry' = [registry EXCEPT ![ProcessOf[l]] = l]
        /\ fd' = [fd EXCEPT ![l] = TRUE]
        /\ owner' = [owner EXCEPT ![l] = "with"]
        /\ UNCHANGED <<lockHolder, stray>>
     \/ /\ registry[ProcessOf[l]] # Nobody
        /\ \/ lockHolder' = Nobody /\ UNCHANGED stray
           \/ stray' = stray \cup {l} /\ UNCHANGED lockHolder
        /\ UNCHANGED <<registry, fd, owner>>
  /\ UNCHANGED use

-----------------------------------------------------------------------------
NoOrphan == \A l \in Leases : orphans[l] = 0

(* The owner, between its two calls, creates a backend and closes it. *)
OpenDevice(l) ==
  /\ owner[l] = "with" /\ pc[l] = "idle" /\ ~device[l]
  /\ device' = [device EXCEPT ![l] = TRUE]
  /\ metOrphan' = [metOrphan EXCEPT ![l] = ~NoOrphan]
  /\ UNCHANGED <<lockHolder, calls, stray, orphans>>

CloseDevice(l) ==
  /\ device[l]
  /\ device' = [device EXCEPT ![l] = FALSE]
  /\ metOrphan' = [metOrphan EXCEPT ![l] = FALSE]
  /\ UNCHANGED <<lockHolder, calls, stray, orphans>>

-----------------------------------------------------------------------------
Unlock(l) == IF lockHolder = l THEN Nobody ELSE lockHolder

(* Mutant: the lease is given back with the backend still open. *)
ReleaseEarly(l) ==
  /\ pc[l] = "idle" /\ owner[l] # "without"
  /\ lockHolder' = Unlock(l)
  /\ pc' = [pc EXCEPT ![l] = "closed"]
  /\ UNCHANGED <<registry, fd, owner, stray, use>>

(* release(), os.close() succeeded.  The owner calls it with no backend     *)
(* left.  One that failed is tried again: once by CameraController, at the  *)
(* end of every later capture() by CameraSnapshotProvider.                  *)
Release(l) ==
  /\ pc[l] = "idle" /\ owner[l] # "without" /\ ~device[l]
  /\ lockHolder' = Unlock(l)
  /\ pc' = [pc EXCEPT ![l] = "closed"]
  /\ UNCHANGED <<registry, fd, owner, stray, use>>

(* release(), os.close() raised: _fd and the registry keep their entries,  *)
(* and the system may or may not have dropped the lock.                    *)
ReleaseFails(l) ==
  /\ pc[l] = "idle" /\ owner[l] # "without" /\ ~device[l]
  /\ lockHolder' \in {lockHolder, Unlock(l)}
  /\ owner' = [owner EXCEPT ![l] = "broken"]
  /\ UNCHANGED <<registry, fd, pc, stray, use>>

(* release(), the rest of it. *)
Unregister(l) ==
  /\ pc[l] = "closed"
  /\ pc' = [pc EXCEPT ![l] = "idle"]
  /\ fd' = [fd EXCEPT ![l] = FALSE]
  /\ registry' = [registry EXCEPT ![ProcessOf[l]] = IF @ = l THEN Nobody ELSE @]
  /\ owner' = [owner EXCEPT ![l] = "without"]
  /\ UNCHANGED <<lockHolder, stray, use>>

(* The process dies, at any moment: the system closes its descriptors, and  *)
(* with them goes the lock.  A worker process does not die with its parent: *)
(* it has the camera until it finds out.  The process may start again.     *)
Crash(p) ==
  /\ lockHolder' = IF lockHolder \in {l \in Leases : ProcessOf[l] = p} THEN Nobody
                   ELSE lockHolder
  /\ registry' = [registry EXCEPT ![p] = Nobody]
  /\ fd' = [l \in Leases |-> ProcessOf[l] # p /\ fd[l]]
  /\ pc' = [l \in Leases |-> IF ProcessOf[l] = p THEN "idle" ELSE pc[l]]
  /\ owner' = [l \in Leases |-> IF ProcessOf[l] = p THEN "without" ELSE owner[l]]
  /\ stray' = {l \in stray : ProcessOf[l] # p}
  /\ \E left \in SUBSET {l \in Leases : ProcessOf[l] = p /\ device[l] /\ orphans[l] < MaxOrphans} :
       orphans' = [l \in Leases |-> IF l \in left THEN orphans[l] + 1 ELSE orphans[l]]
  /\ device' = [l \in Leases |-> ProcessOf[l] # p /\ device[l]]
  /\ metOrphan' = [l \in Leases |-> ProcessOf[l] # p /\ metOrphan[l]]

(* An orphan finds the end of its pipe and lets the camera go (CameraWorker *)
(* says when).                                                             *)
OrphanLetsGo(l) ==
  /\ orphans[l] > 0
  /\ orphans' = [orphans EXCEPT ![l] = @ - 1]
  /\ UNCHANGED <<lockHolder, calls, stray, device, metOrphan>>

-----------------------------------------------------------------------------
LeaseCall(l) ==
  Acquire(l) \/ Register(l) \/ Release(l) \/ ReleaseFails(l) \/ Unregister(l)

LeaseNext ==
  \/ \E l \in Leases : LeaseCall(l) \/ OpenDevice(l) \/ CloseDevice(l) \/ OrphanLetsGo(l)
  \/ \E p \in Processes : Crash(p)

LeaseSpec == LeaseInit /\ [][LeaseNext]_leaseVars

-----------------------------------------------------------------------------
LeaseTypeOK ==
  /\ lockHolder \in Leases \cup {Nobody}
  /\ registry \in [Processes -> Leases \cup {Nobody}]
  /\ fd \in [Leases -> BOOLEAN]
  /\ pc \in [Leases -> {"idle", "locked", "closed"}]
  /\ owner \in [Leases -> {"without", "with", "broken"}]
  /\ device \in [Leases -> BOOLEAN]
  /\ stray \subseteq Leases
  /\ orphans \in [Leases -> Nat]
  /\ metOrphan \in [Leases -> BOOLEAN]

(* The lease is held from before a backend is made until its close is      *)
(* confirmed: no two living owners, in one process or in two, ever drive   *)
(* the device together, whatever crashed and whatever failed to release.   *)
(* The worker of a dead owner may overlap with the next owner; but an owner *)
(* that found the camera without an orphan has it to itself until it has    *)
(* closed it, whoever else dies.                                           *)
ExclusiveUse ==
  \A l \in Leases : device[l] =>
    /\ \A m \in Leases : device[m] => m = l
    /\ NoOrphan \/ metOrphan[l]

(* An owner that was told True and has not released really has the lock.   *)
LeaseIsLocked ==
  \A l \in Leases : owner[l] = "with" /\ pc[l] = "idle" => lockHolder = l

(* After a release that failed nobody else in that process gets the lease, *)
(* although the system may have dropped the lock: the registry fails       *)
(* closed.                                                                 *)
FailsClosed ==
  \A l, m \in Leases :
    owner[l] = "broken" /\ ProcessOf[l] = ProcessOf[m] /\ l # m => owner[m] = "without"

(* Whoever holds the lock is alive, and it is inside a call, or registered, *)
(* or the refused descriptor that could not be closed, whose lease has no   *)
(* owner: nothing of the lock survives a process.                          *)
LockAccountedFor ==
  lockHolder # Nobody =>
    \/ pc[lockHolder] = "locked"
    \/ registry[ProcessOf[lockHolder]] = lockHolder
    \/ lockHolder \in stray /\ owner[lockHolder] = "without"
=============================================================================
