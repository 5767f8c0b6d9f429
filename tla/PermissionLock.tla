--------------------------- MODULE PermissionLock ---------------------------
(***************************************************************************)
(* The server of demo 4b (demo4b/src/server.cpp): the allocations table    *)
(* under alloc_mutex, concurrent FreeSharedMemory handlers that hold a     *)
(* lock file with flock while they revoke access, and main's shutdown.     *)
(*                                                                         *)
(* A handler gives up alloc_mutex between its look at the table and its    *)
(* change of it, and works on a copy of the Allocation in between: one     *)
(* action per critical section and per system call on the lock file.       *)
(* access_revoked is written and never read, and left out.                 *)
(***************************************************************************)
EXTENDS Naturals, FiniteSets

CONSTANTS
  Names,     \* shared memory names, "/shm_<uuid>"; also the objects they name
  Inodes,    \* inodes of lock files
  Fds,       \* descriptor numbers
  Handlers,  \* threads that run RequestSharedMemory and FreeSharedMemory
  None       \* no descriptor (-1), no object, no inode

ASSUME LockAssumption ==
  /\ None \notin Names \cup Inodes \cup Fds
  /\ Names \cap Inodes = {}

VARIABLES
  main,         \* main(): "serving", "draining" in Shutdown(), "done"
  allocations,  \* the fd of the Allocation stored for each name, or None
  shm,          \* names linked in /dev/shm
  files,        \* descriptor table: the object each descriptor is open on
  lockfile,     \* directory entries /tmp/./shm_<uuid>.lock
  holder,       \* the descriptor whose flock holds each inode
  revoked,      \* objects with mode 0000
  truncated,    \* objects with size 0
  pc,           \* where each handler is
  alloc         \* its own Allocation, or copy of one, and the name it is for

tableVars == <<allocations, shm, truncated>>
lockVars == <<lockfile, holder>>
serverVars == <<main, tableVars, files, lockVars, revoked, pc, alloc>>

Idle == [shm_name |-> None, fd |-> None, lockfd |-> None]

LockInit ==
  /\ main = "serving"
  /\ allocations = [s \in Names |-> None]
  /\ shm = {} /\ truncated = {} /\ revoked = {}
  /\ files = [d \in Fds |-> None]
  /\ lockfile = [s \in Names |-> None]
  /\ holder = [i \in Inodes |-> None]
  /\ pc = [h \in Handlers |-> "idle"]
  /\ alloc = [h \in Handlers |-> Idle]

IsOpen(x) == \E d \in Fds : files[d] = x

\* A UUID: nothing goes by this name, or ever did as far as anyone can tell.
FreshName(s) ==
  /\ s \notin shm \cup truncated \cup revoked
  /\ ~IsOpen(s)
  /\ lockfile[s] = None
  /\ \A h \in Handlers : alloc[h].shm_name # s

At(h, p) == pc' = [pc EXCEPT ![h] = p]

\* The handler returns OK or CANCELLED; its copy goes with its stack.
Return(h) ==
  /\ At(h, "idle")
  /\ alloc' = [alloc EXCEPT ![h] = Idle]

-----------------------------------------------------------------------------
\* RequestSharedMemory creates and maps an object nobody else knows of yet.
CreateObject(h) ==
  /\ main = "serving"
  /\ pc[h] = "idle"
  /\ \E s \in Names, d \in Fds :
       /\ FreshName(s)
       /\ files[d] = None
       /\ files' = [files EXCEPT ![d] = s]
       /\ shm' = shm \cup {s}
       /\ alloc' = [alloc EXCEPT ![h] = [shm_name |-> s, fd |-> d, lockfd |-> None]]
  /\ At(h, "created")
  /\ UNCHANGED <<main, allocations, truncated, lockVars, revoked>>

\* Any later call of RequestSharedMemory fails: what was done is undone, CANCELLED.
RequestFails(h) ==
  /\ pc[h] = "created"
  /\ files' = [files EXCEPT ![alloc[h].fd] = None]
  /\ shm' = shm \ {alloc[h].shm_name}
  /\ Return(h)
  /\ UNCHANGED <<main, allocations, truncated, lockVars, revoked>>

\* RequestSharedMemory stores the Allocation under alloc_mutex and returns OK.
StoreAllocation(h) ==
  /\ pc[h] = "created"
  /\ allocations' = [allocations EXCEPT ![alloc[h].shm_name] = alloc[h].fd]
  /\ Return(h)
  /\ UNCHANGED <<main, shm, truncated, files, lockVars, revoked>>

-----------------------------------------------------------------------------
\* revokeSharedMemoryAccess finds the name in the table and copies its Allocation.
FindAndCopy(h, s) ==
  /\ main = "serving"
  /\ pc[h] = "idle"
  /\ allocations[s] # None
  /\ alloc' = [alloc EXCEPT ![h] =
                 [shm_name |-> s, fd |-> allocations[s], lockfd |-> None]]
  /\ At(h, "copied")
  /\ UNCHANGED <<main, tableVars, files, lockVars, revoked>>

\* Mutant: one lock file for all names.
OpenOneLockfile(h) ==
  /\ pc[h] = "copied"
  /\ \E d \in Fds, i \in Inodes :
       /\ files[d] = None
       /\ (\E x \in Names : lockfile[x] = i) \/ \A x \in Names : lockfile[x] = None /\ ~IsOpen(i)
       /\ files' = [files EXCEPT ![d] = i]
       /\ lockfile' = [x \in Names |-> i]
       /\ alloc' = [alloc EXCEPT ![h].lockfd = d]
  /\ At(h, "locking")
  /\ UNCHANGED <<main, tableVars, holder, revoked>>

\* acquirePermissionLock opens the lock file, and creates it if there is none.
OpenLockfile(h) ==
  LET s == alloc[h].shm_name IN
  /\ pc[h] = "copied"
  /\ \E d \in Fds, i \in Inodes :
       /\ files[d] = None
       /\ IF lockfile[s] # None THEN i = lockfile[s]
          ELSE ~IsOpen(i) /\ \A x \in Names : lockfile[x] # i
       /\ files' = [files EXCEPT ![d] = i]
       /\ lockfile' = [lockfile EXCEPT ![s] = i]
       /\ alloc' = [alloc EXCEPT ![h].lockfd = d]
  /\ At(h, "locking")
  /\ UNCHANGED <<main, tableVars, holder, revoked>>

\* open() fails: CANCELLED.
OpenLockfileFails(h) ==
  /\ pc[h] = "copied"
  /\ Return(h)
  /\ UNCHANGED <<main, tableVars, files, lockVars, revoked>>

\* flock(LOCK_EX) waits until no other descriptor holds the inode.
Flock(h) ==
  LET d == alloc[h].lockfd IN
  /\ pc[h] = "locking"
  /\ holder[files[d]] = None
  /\ holder' = [holder EXCEPT ![files[d]] = d]
  /\ At(h, "locked")
  /\ UNCHANGED <<main, tableVars, files, lockfile, revoked, alloc>>

\* Mutant: the descriptor of the object is closed in its place.
FlockFailsClosesObject(h) ==
  /\ pc[h] = "locking"
  /\ files' = [files EXCEPT ![alloc[h].fd] = None]
  /\ Return(h)
  /\ UNCHANGED <<main, tableVars, lockVars, revoked>>

\* flock() fails: the descriptor is closed, CANCELLED.
FlockFails(h) ==
  /\ pc[h] = "locking"
  /\ files' = [files EXCEPT ![alloc[h].lockfd] = None]
  /\ Return(h)
  /\ UNCHANGED <<main, tableVars, lockVars, revoked>>

\* fchmod(alloc.fd, 0000) by the copied number, whatever it is open on by now.
Fchmod(h) ==
  /\ pc[h] = "locked"
  /\ files[alloc[h].fd] # None
  /\ revoked' = revoked \cup {files[alloc[h].fd]}
  /\ At(h, "revoked")
  /\ UNCHANGED <<main, tableVars, files, lockVars, alloc>>

\* Mutant: the failure of fchmod() is reported and not acted on.
FchmodFailureIgnored(h) ==
  /\ pc[h] = "locked"
  /\ At(h, "revoked")
  /\ UNCHANGED <<main, tableVars, files, lockVars, revoked, alloc>>

\* fchmod() fails, always so if the descriptor is closed by now.
FchmodFails(h) ==
  /\ pc[h] = "locked"
  /\ At(h, "unlocking")
  /\ UNCHANGED <<main, tableVars, files, lockVars, revoked, alloc>>

\* releasePermissionLock of the copy, up to close() ...
UnlockAndClose(h) ==
  LET d == alloc[h].lockfd IN
  /\ pc[h] = "unlocking"
  /\ holder' = [holder EXCEPT ![files[d]] = None]
  /\ files' = [files EXCEPT ![d] = None]
  /\ At(h, "unlinking")
  /\ UNCHANGED <<main, tableVars, lockfile, revoked, alloc>>

\* ... and its unlink() of the lock file, after which CANCELLED is returned.
UnlinkLockfile(h) ==
  /\ pc[h] = "unlinking"
  /\ lockfile' = [lockfile EXCEPT ![alloc[h].shm_name] = None]
  /\ Return(h)
  /\ UNCHANGED <<main, tableVars, files, holder, revoked>>

\* Mutant: no allocations.erase(it).
FreeKeepsEntry(h) ==
  LET s == alloc[h].shm_name IN
  /\ pc[h] = "revoked"
  /\ allocations[s] # None
  /\ truncated' = truncated \cup {files[allocations[s]]}
  /\ files' = [files EXCEPT ![allocations[s]] = None]
  /\ shm' = shm \ {s}
  /\ Return(h)
  /\ UNCHANGED <<main, allocations, lockVars, revoked>>

\* Mutant: the object is not emptied.
FreeNotTruncated(h) ==
  LET s == alloc[h].shm_name IN
  /\ pc[h] = "revoked"
  /\ allocations[s] # None
  /\ files' = [files EXCEPT ![allocations[s]] = None]
  /\ shm' = shm \ {s}
  /\ allocations' = [allocations EXCEPT ![s] = None]
  /\ Return(h)
  /\ UNCHANGED <<main, truncated, lockVars, revoked>>

\* Back in FreeSharedMemory: the stored Allocation is truncated, closed, unlinked
\* and erased.  Its lockfd is -1, because only the copy has ever had one: the
\* release of the permission lock does nothing here.
FreeStored(h) ==
  LET s == alloc[h].shm_name IN
  /\ pc[h] = "revoked"
  /\ allocations[s] # None
  /\ truncated' = truncated \cup {files[allocations[s]]}
  /\ files' = [files EXCEPT ![allocations[s]] = None]
  /\ shm' = shm \ {s}
  /\ allocations' = [allocations EXCEPT ![s] = None]
  /\ Return(h)
  /\ UNCHANGED <<main, lockVars, revoked>>

\* "Shared memory not found during cleanup": CANCELLED.
FreeNotFound(h) ==
  /\ pc[h] = "revoked"
  /\ allocations[alloc[h].shm_name] = None
  /\ Return(h)
  /\ UNCHANGED <<main, tableVars, files, lockVars, revoked>>

-----------------------------------------------------------------------------
\* SIGINT has set running to 0: main() calls Shutdown(), which takes no new calls.
Shutdown ==
  /\ main = "serving"
  /\ main' = "draining"
  /\ UNCHANGED <<tableVars, files, lockVars, revoked, pc, alloc>>

\* Mutant: cleanupAll() before Shutdown() has waited for the handlers.
CleanupWithoutWaiting ==
  /\ main = "draining"
  /\ main' = "done"
  /\ truncated' = truncated \cup {files[allocations[s]] : s \in {x \in Names : allocations[x] # None}}
  /\ files' = [d \in Fds |-> IF \E s \in Names : allocations[s] = d THEN None ELSE files[d]]
  /\ shm' = shm \ {s \in Names : allocations[s] # None}
  /\ allocations' = [s \in Names |-> None]
  /\ UNCHANGED <<lockVars, revoked, pc, alloc>>

\* Shutdown() returns when every handler has; cleanupAll() empties the table.
CleanupAll ==
  /\ main = "draining"
  /\ \A h \in Handlers : pc[h] = "idle"
  /\ main' = "done"
  /\ truncated' = truncated \cup {files[allocations[s]] : s \in {x \in Names : allocations[x] # None}}
  /\ files' = [d \in Fds |-> IF \E s \in Names : allocations[s] = d THEN None ELSE files[d]]
  /\ shm' = shm \ {s \in Names : allocations[s] # None}
  /\ allocations' = [s \in Names |-> None]
  /\ UNCHANGED <<lockVars, revoked, pc, alloc>>

-----------------------------------------------------------------------------
\* One system call or critical section of a handler that has begun.
HandlerStep(h) ==
  \/ StoreAllocation(h) \/ RequestFails(h)
  \/ OpenLockfile(h) \/ OpenLockfileFails(h)
  \/ Flock(h) \/ FlockFails(h)
  \/ Fchmod(h) \/ FchmodFails(h)
  \/ UnlockAndClose(h) \/ UnlinkLockfile(h)
  \/ FreeStored(h) \/ FreeNotFound(h)

\* The process has exited.
Exited == main = "done" /\ UNCHANGED serverVars

LockNext ==
  \/ \E h \in Handlers : CreateObject(h)
  \/ \E h \in Handlers, s \in Names : FindAndCopy(h, s)
  \/ \E h \in Handlers : HandlerStep(h)
  \/ Shutdown
  \/ CleanupAll
  \/ Exited

LockSpec == LockInit /\ [][LockNext]_serverVars

-----------------------------------------------------------------------------
\* The variables have their types.
LockTypeOK ==
  /\ main \in {"serving", "draining", "done"}
  /\ allocations \in [Names -> Fds \cup {None}]
  /\ shm \in SUBSET Names
  /\ files \in [Fds -> Names \cup Inodes \cup {None}]
  /\ lockfile \in [Names -> Inodes \cup {None}]
  /\ holder \in [Inodes -> Fds \cup {None}]
  /\ revoked \in SUBSET (Names \cup Inodes)
  /\ truncated \in SUBSET Names
  /\ pc \in [Handlers -> {"idle", "created", "copied", "locking", "locked", "revoked",
                          "unlocking", "unlinking"}]
  /\ alloc \in [Handlers -> [shm_name : Names \cup {None}, fd : Fds \cup {None},
                             lockfd : Fds \cup {None}]]

\* Whatever handlers do with stale copies, the table stays true: a stored
\* descriptor is open on the object of that name, the name is linked, and no
\* object is linked but those of the table and of requests still at work.
TableIsTrue ==
  /\ \A s \in Names : allocations[s] # None => files[allocations[s]] = s
  /\ shm = {s \in Names : \/ allocations[s] # None
                          \/ \E h \in Handlers : pc[h] = "created" /\ alloc[h].shm_name = s}

\* "First revoke access to prevent new clients ... Now safely cleanup resources":
\* FreeSharedMemory empties an object only after its mode is 0000.
RevokedBeforeEmptied ==
  [][main' # "done" => truncated' \ truncated \subseteq revoked]_serverVars

\* "All shared memory cleaned up": when main() returns nothing is left in
\* /dev/shm, whichever handlers were running at the signal.
CleanAtExit == main = "done" => shm = {}

\* A lock descriptor is held by a handler that is working, so the lock is
\* released when FreeSharedMemory returns.
LocksReleased ==
  \A i \in Inodes : holder[i] # None =>
    \E h \in Handlers : pc[h] # "idle" /\ alloc[h].lockfd = holder[i]
=============================================================================
