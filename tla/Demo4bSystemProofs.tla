------------------------- MODULE Demo4bSystemProofs -------------------------
(***************************************************************************)
(* What demo 4b's server guarantees for any number of handlers, names,     *)
(* descriptors and lock files: first with clients of any kind, whatever    *)
(* its handlers do with copies of entries that others have freed; then     *)
(* with those of client.cpp, which can rely on more.                       *)
(***************************************************************************)
EXTENDS Demo4bSystem, TLAPS

-----------------------------------------------------------------------------
\*                       The server, with any clients

\* The two parts of TableIsTrue.
TableOpen == \A s \in Names : allocations[s] # None => files[allocations[s]] = s

LinkedNames ==
  shm = {s \in Names : \/ allocations[s] # None
                       \/ \E h \in Handlers : pc[h] = "created" /\ alloc[h].shm_name = s}

\* Where a handler has a lock file open that it may still lock or close.
HasLockfile == {"locking", "locked", "unlocking"}

\* Where a handler goes by the copy it has made of a stored Allocation.
HasCopy == {"copied", "locking", "locked", "revoked"}

\* A handler that is at work has a name and a descriptor for it.
WorkNamed ==
  \A h \in Handlers : pc[h] # "idle" => alloc[h].shm_name \in Names /\ alloc[h].fd \in Fds

\* An object that is not stored yet is its handler's alone.
CreatedIsPrivate ==
  \A h \in Handlers : pc[h] = "created" =>
    /\ files[alloc[h].fd] = alloc[h].shm_name
    /\ allocations[alloc[h].shm_name] = None
    /\ \A g \in Handlers \ {h} : alloc[g].shm_name # alloc[h].shm_name

\* Lock files are open on descriptors of their own.
LockfilesApart ==
  \A h \in Handlers : pc[h] \in HasLockfile =>
    /\ alloc[h].lockfd \in Fds
    /\ files[alloc[h].lockfd] \in Inodes
    /\ \A g \in Handlers \ {h} : pc[g] \in HasLockfile => alloc[g].lockfd # alloc[h].lockfd

\* A copy is of what is stored, or the name is gone for good; and after fchmod
\* what is stored is revoked.
CopyIsCurrent ==
  \A h \in Handlers : pc[h] \in HasCopy =>
    \/ allocations[alloc[h].shm_name] = None
    \/ /\ allocations[alloc[h].shm_name] = alloc[h].fd
       /\ pc[h] = "revoked" => alloc[h].shm_name \in revoked

\* main() returns when no handler is at work and the table is empty.
DoneIsQuiet ==
  main = "done" => \A h \in Handlers : pc[h] = "idle"

DoneIsEmpty ==
  main = "done" => \A s \in Names : allocations[s] = None

LockInv ==
  /\ LockTypeOK /\ TableIsTrue /\ WorkNamed /\ CreatedIsPrivate
  /\ LockfilesApart /\ CopyIsCurrent /\ DoneIsQuiet /\ DoneIsEmpty

-----------------------------------------------------------------------------
\* The invariant holds when the server starts.
LEMMA LockInitInv == LockInit => LockInv
  BY DEF LockInit, LockInv, LockTypeOK, TableIsTrue, WorkNamed, CreatedIsPrivate,
     LockfilesApart, CopyIsCurrent, DoneIsQuiet, DoneIsEmpty, Idle, HasLockfile, HasCopy

\* Every step of every handler keeps it.
LEMMA LockStep == LockInv /\ [LockNext]_serverVars => LockInv'
<1> SUFFICES ASSUME LockInv, [LockNext]_serverVars PROVE LockInv'
  OBVIOUS
<1>0. /\ LockTypeOK /\ TableOpen /\ LinkedNames /\ WorkNamed /\ CreatedIsPrivate
      /\ LockfilesApart /\ CopyIsCurrent /\ DoneIsQuiet /\ DoneIsEmpty
  BY DEF LockInv, TableIsTrue, TableOpen, LinkedNames
<1> USE <1>0, LockAssumption
    DEF LockAssumption, At, Return, Idle, lockVars, tableVars, HasLockfile, HasCopy
<1>1. ASSUME NEW h \in Handlers, CreateObject(h) PROVE LockInv'
  <2>1. LockTypeOK'
    BY <1>1 DEF CreateObject, LockTypeOK
  <2>2. TableOpen'
    BY <1>1 DEF CreateObject, TableOpen
  <2>3. LinkedNames'
    BY <1>1 DEF CreateObject, LockTypeOK, LinkedNames
  <2>4. WorkNamed'
    BY <1>1 DEF CreateObject, LockTypeOK, WorkNamed
  <2>5. CreatedIsPrivate'
    BY <1>1 DEF CreateObject, FreshName, LockTypeOK, CreatedIsPrivate, WorkNamed,
       LinkedNames
  <2>6. LockfilesApart'
    BY <1>1 DEF CreateObject, LockfilesApart
  <2>7. CopyIsCurrent'
    BY <1>1 DEF CreateObject, CopyIsCurrent
  <2>8. DoneIsQuiet' /\ DoneIsEmpty'
    BY <1>1 DEF CreateObject, DoneIsQuiet, DoneIsEmpty
  <2> QED
    BY <2>1, <2>2, <2>3, <2>4, <2>5, <2>6, <2>7, <2>8
    DEF LockInv, TableIsTrue, TableOpen, LinkedNames
<1>2. ASSUME NEW h \in Handlers, RequestFails(h) PROVE LockInv'
  <2>1. LockTypeOK'
    BY <1>2 DEF RequestFails, LockTypeOK
  <2>2. TableOpen'
    BY <1>2 DEF RequestFails, TableOpen, CreatedIsPrivate
  <2>3. LinkedNames'
    BY <1>2 DEF RequestFails, LockTypeOK, LinkedNames, CreatedIsPrivate
  <2>4. WorkNamed'
    BY <1>2 DEF RequestFails, LockTypeOK, WorkNamed
  <2>5. CreatedIsPrivate'
    BY <1>2 DEF RequestFails, LockTypeOK, CreatedIsPrivate, WorkNamed
  <2>6. LockfilesApart'
    BY <1>2 DEF RequestFails, LockTypeOK, LockfilesApart, CreatedIsPrivate
  <2>7. CopyIsCurrent'
    BY <1>2 DEF RequestFails, CopyIsCurrent
  <2>8. DoneIsQuiet' /\ DoneIsEmpty'
    BY <1>2 DEF RequestFails, DoneIsQuiet, DoneIsEmpty
  <2> QED
    BY <2>1, <2>2, <2>3, <2>4, <2>5, <2>6, <2>7, <2>8
    DEF LockInv, TableIsTrue, TableOpen, LinkedNames
<1>3. ASSUME NEW h \in Handlers, StoreAllocation(h) PROVE LockInv'
  <2>1. LockTypeOK'
    BY <1>3 DEF StoreAllocation, LockTypeOK
  <2>2. TableOpen'
    BY <1>3 DEF StoreAllocation, TableOpen, CreatedIsPrivate
  <2>3. LinkedNames'
    BY <1>3 DEF StoreAllocation, LockTypeOK, LinkedNames, WorkNamed
  <2>4. WorkNamed'
    BY <1>3 DEF StoreAllocation, LockTypeOK, WorkNamed
  <2>5. CreatedIsPrivate'
    BY <1>3 DEF StoreAllocation, LockTypeOK, CreatedIsPrivate, WorkNamed
  <2>6. LockfilesApart'
    BY <1>3 DEF StoreAllocation, LockfilesApart
  <2>7. CopyIsCurrent'
    BY <1>3 DEF StoreAllocation, CopyIsCurrent, CreatedIsPrivate
  <2>8. DoneIsQuiet' /\ DoneIsEmpty'
    BY <1>3 DEF StoreAllocation, DoneIsQuiet, DoneIsEmpty
  <2> QED
    BY <2>1, <2>2, <2>3, <2>4, <2>5, <2>6, <2>7, <2>8
    DEF LockInv, TableIsTrue, TableOpen, LinkedNames
<1>4. ASSUME NEW h \in Handlers, NEW s \in Names, FindAndCopy(h, s) PROVE LockInv'
  <2>1. LockTypeOK'
    BY <1>4 DEF FindAndCopy, LockTypeOK
  <2>2. TableOpen'
    BY <1>4 DEF FindAndCopy, TableOpen
  <2>3. LinkedNames'
    BY <1>4 DEF FindAndCopy, LinkedNames
  <2>4. WorkNamed'
    BY <1>4 DEF FindAndCopy, LockTypeOK, WorkNamed
  <2>5. CreatedIsPrivate'
    BY <1>4 DEF FindAndCopy, CreatedIsPrivate
  <2>6. LockfilesApart'
    BY <1>4 DEF FindAndCopy, LockfilesApart
  <2>7. CopyIsCurrent'
    BY <1>4 DEF FindAndCopy, LockTypeOK, CopyIsCurrent
  <2>8. DoneIsQuiet' /\ DoneIsEmpty'
    BY <1>4 DEF FindAndCopy, DoneIsQuiet, DoneIsEmpty
  <2> QED
    BY <2>1, <2>2, <2>3, <2>4, <2>5, <2>6, <2>7, <2>8
    DEF LockInv, TableIsTrue, TableOpen, LinkedNames
<1>5. ASSUME NEW h \in Handlers, OpenLockfile(h) PROVE LockInv'
  <2>1. LockTypeOK'
    BY <1>5 DEF OpenLockfile, LockTypeOK, WorkNamed
  <2>2. TableOpen'
    BY <1>5 DEF OpenLockfile, TableOpen
  <2>3. LinkedNames'
    BY <1>5 DEF OpenLockfile, LinkedNames
  <2>4. WorkNamed'
    BY <1>5 DEF OpenLockfile, WorkNamed
  <2>5. CreatedIsPrivate'
    BY <1>5 DEF OpenLockfile, CreatedIsPrivate, WorkNamed
  <2>6. LockfilesApart'
    BY <1>5 DEF OpenLockfile, LockTypeOK, LockfilesApart
  <2>7. CopyIsCurrent'
    BY <1>5 DEF OpenLockfile, CopyIsCurrent
  <2>8. DoneIsQuiet' /\ DoneIsEmpty'
    BY <1>5 DEF OpenLockfile, DoneIsQuiet, DoneIsEmpty
  <2> QED
    BY <2>1, <2>2, <2>3, <2>4, <2>5, <2>6, <2>7, <2>8
    DEF LockInv, TableIsTrue, TableOpen, LinkedNames
<1>6. ASSUME NEW h \in Handlers, OpenLockfileFails(h) PROVE LockInv'
  <2>1. LockTypeOK' /\ WorkNamed' /\ LockfilesApart'
    BY <1>6 DEF OpenLockfileFails, LockTypeOK, WorkNamed, LockfilesApart
  <2>2. TableOpen' /\ LinkedNames' /\ CreatedIsPrivate'
    BY <1>6 DEF OpenLockfileFails, WorkNamed, TableOpen, LinkedNames, CreatedIsPrivate
  <2>3. CopyIsCurrent' /\ DoneIsQuiet' /\ DoneIsEmpty'
    BY <1>6 DEF OpenLockfileFails, LockTypeOK, CopyIsCurrent, DoneIsQuiet, DoneIsEmpty
  <2> QED BY <2>1, <2>2, <2>3 DEF LockInv, TableIsTrue, TableOpen, LinkedNames
<1>7. ASSUME NEW h \in Handlers, Flock(h) PROVE LockInv'
  <2>1. LockTypeOK' /\ WorkNamed' /\ LockfilesApart'
    BY <1>7 DEF Flock, LockTypeOK, WorkNamed, LockfilesApart
  <2>2. TableOpen' /\ LinkedNames' /\ CreatedIsPrivate'
    BY <1>7 DEF Flock, TableOpen, LinkedNames, CreatedIsPrivate
  <2>3. CopyIsCurrent' /\ DoneIsQuiet' /\ DoneIsEmpty'
    BY <1>7 DEF Flock, CopyIsCurrent, DoneIsQuiet, DoneIsEmpty
  <2> QED BY <2>1, <2>2, <2>3 DEF LockInv, TableIsTrue, TableOpen, LinkedNames
<1>8. ASSUME NEW h \in Handlers, FlockFails(h) PROVE LockInv'
  <2>1. LockTypeOK'
    BY <1>8 DEF FlockFails, LockTypeOK
  <2>2. TableOpen'
    BY <1>8 DEF FlockFails, TableOpen, LockfilesApart
  <2>3. LinkedNames'
    BY <1>8 DEF FlockFails, LinkedNames
  <2>4. WorkNamed'
    BY <1>8 DEF FlockFails, LockTypeOK, WorkNamed
  <2>5. CreatedIsPrivate'
    BY <1>8 DEF FlockFails, CreatedIsPrivate, WorkNamed, LockfilesApart
  <2>6. LockfilesApart'
    BY <1>8 DEF FlockFails, LockTypeOK, LockfilesApart
  <2>7. CopyIsCurrent'
    BY <1>8 DEF FlockFails, LockTypeOK, CopyIsCurrent
  <2>8. DoneIsQuiet' /\ DoneIsEmpty'
    BY <1>8 DEF FlockFails, DoneIsQuiet, DoneIsEmpty
  <2> QED
    BY <2>1, <2>2, <2>3, <2>4, <2>5, <2>6, <2>7, <2>8
    DEF LockInv, TableIsTrue, TableOpen, LinkedNames
<1>9. ASSUME NEW h \in Handlers, Fchmod(h) PROVE LockInv'
  <2>1. LockTypeOK' /\ WorkNamed' /\ LockfilesApart'
    BY <1>9 DEF Fchmod, LockTypeOK, WorkNamed, LockfilesApart
  <2>2. TableOpen' /\ LinkedNames' /\ CreatedIsPrivate'
    BY <1>9 DEF Fchmod, TableOpen, LinkedNames, CreatedIsPrivate
  <2>3. CopyIsCurrent' /\ DoneIsQuiet' /\ DoneIsEmpty'
    BY <1>9 DEF Fchmod, WorkNamed, TableOpen, CopyIsCurrent, DoneIsQuiet, DoneIsEmpty
  <2> QED BY <2>1, <2>2, <2>3 DEF LockInv, TableIsTrue, TableOpen, LinkedNames
<1>10. ASSUME NEW h \in Handlers, FchmodFails(h) PROVE LockInv'
  <2>1. LockTypeOK' /\ WorkNamed' /\ LockfilesApart'
    BY <1>10 DEF FchmodFails, LockTypeOK, WorkNamed, LockfilesApart
  <2>2. TableOpen' /\ LinkedNames' /\ CreatedIsPrivate'
    BY <1>10 DEF FchmodFails, TableOpen, LinkedNames, CreatedIsPrivate
  <2>3. CopyIsCurrent' /\ DoneIsQuiet' /\ DoneIsEmpty'
    BY <1>10 DEF FchmodFails, CopyIsCurrent, DoneIsQuiet, DoneIsEmpty
  <2> QED BY <2>1, <2>2, <2>3 DEF LockInv, TableIsTrue, TableOpen, LinkedNames
<1>11. ASSUME NEW h \in Handlers, UnlockAndClose(h) PROVE LockInv'
  <2>1. LockTypeOK'
    BY <1>11 DEF UnlockAndClose, LockTypeOK
  <2>2. TableOpen'
    BY <1>11 DEF UnlockAndClose, TableOpen, LockfilesApart
  <2>3. LinkedNames'
    BY <1>11 DEF UnlockAndClose, LinkedNames
  <2>4. WorkNamed'
    BY <1>11 DEF UnlockAndClose, WorkNamed
  <2>5. CreatedIsPrivate'
    BY <1>11 DEF UnlockAndClose, LockTypeOK, CreatedIsPrivate, LockfilesApart
  <2>6. LockfilesApart'
    BY <1>11 DEF UnlockAndClose, LockTypeOK, LockfilesApart
  <2>7. CopyIsCurrent'
    BY <1>11 DEF UnlockAndClose, CopyIsCurrent
  <2>8. DoneIsQuiet' /\ DoneIsEmpty'
    BY <1>11 DEF UnlockAndClose, DoneIsQuiet, DoneIsEmpty
  <2> QED
    BY <2>1, <2>2, <2>3, <2>4, <2>5, <2>6, <2>7, <2>8
    DEF LockInv, TableIsTrue, TableOpen, LinkedNames
<1>12. ASSUME NEW h \in Handlers, UnlinkLockfile(h) PROVE LockInv'
  <2>1. LockTypeOK' /\ WorkNamed' /\ LockfilesApart'
    BY <1>12 DEF UnlinkLockfile, LockTypeOK, WorkNamed, LockfilesApart
  <2>2. TableOpen' /\ LinkedNames' /\ CreatedIsPrivate'
    BY <1>12 DEF UnlinkLockfile, WorkNamed, TableOpen, LinkedNames, CreatedIsPrivate
  <2>3. CopyIsCurrent' /\ DoneIsQuiet' /\ DoneIsEmpty'
    BY <1>12 DEF UnlinkLockfile, CopyIsCurrent, DoneIsQuiet, DoneIsEmpty
  <2> QED BY <2>1, <2>2, <2>3 DEF LockInv, TableIsTrue, TableOpen, LinkedNames
<1>13. ASSUME NEW h \in Handlers, FreeStored(h) PROVE LockInv'
  <2>1. LockTypeOK'
    BY <1>13 DEF FreeStored, LockTypeOK, WorkNamed, TableOpen
  <2>2. TableOpen'
    BY <1>13 DEF FreeStored, LockTypeOK, TableOpen, WorkNamed
  <2>3. LinkedNames'
    BY <1>13 DEF FreeStored, LockTypeOK, LinkedNames, CreatedIsPrivate
  <2>4. WorkNamed'
    BY <1>13 DEF FreeStored, LockTypeOK, WorkNamed
  <2>5. CreatedIsPrivate'
    BY <1>13 DEF FreeStored, CreatedIsPrivate, WorkNamed, TableOpen
  <2>6. LockfilesApart'
    BY <1>13 DEF FreeStored, LockfilesApart, WorkNamed, TableOpen
  <2>7. CopyIsCurrent'
    BY <1>13 DEF FreeStored, LockTypeOK, CopyIsCurrent
  <2>8. DoneIsQuiet' /\ DoneIsEmpty'
    BY <1>13 DEF FreeStored, DoneIsQuiet, DoneIsEmpty
  <2> QED
    BY <2>1, <2>2, <2>3, <2>4, <2>5, <2>6, <2>7, <2>8
    DEF LockInv, TableIsTrue, TableOpen, LinkedNames
<1>14. ASSUME NEW h \in Handlers, FreeNotFound(h) PROVE LockInv'
  <2>1. LockTypeOK' /\ WorkNamed' /\ LockfilesApart'
    BY <1>14 DEF FreeNotFound, LockTypeOK, WorkNamed, LockfilesApart
  <2>2. TableOpen' /\ LinkedNames' /\ CreatedIsPrivate'
    BY <1>14 DEF FreeNotFound, WorkNamed, TableOpen, LinkedNames, CreatedIsPrivate
  <2>3. CopyIsCurrent' /\ DoneIsQuiet' /\ DoneIsEmpty'
    BY <1>14 DEF FreeNotFound, LockTypeOK, CopyIsCurrent, DoneIsQuiet, DoneIsEmpty
  <2> QED BY <2>1, <2>2, <2>3 DEF LockInv, TableIsTrue, TableOpen, LinkedNames
<1>15. CASE Shutdown
  BY <1>15
  DEF Shutdown, LockInv, LockTypeOK, TableIsTrue, WorkNamed, CreatedIsPrivate,
      LockfilesApart, CopyIsCurrent, DoneIsQuiet, DoneIsEmpty
<1>16. CASE CleanupAll
  <2>1. LockTypeOK'
    BY <1>16 DEF CleanupAll, LockTypeOK, TableOpen
  <2>2. TableOpen' /\ LinkedNames'
    BY <1>16 DEF CleanupAll, TableOpen, LinkedNames
  <2>3. /\ WorkNamed' /\ CreatedIsPrivate' /\ LockfilesApart' /\ CopyIsCurrent'
        /\ DoneIsQuiet' /\ DoneIsEmpty'
    BY <1>16 DEF CleanupAll, WorkNamed, CreatedIsPrivate, LockfilesApart, CopyIsCurrent,
       DoneIsQuiet, DoneIsEmpty
  <2> QED BY <2>1, <2>2, <2>3 DEF LockInv, TableIsTrue, TableOpen, LinkedNames
<1>17. CASE UNCHANGED serverVars
  BY <1>17
  DEF serverVars, LockInv, LockTypeOK, TableIsTrue, WorkNamed, CreatedIsPrivate,
      LockfilesApart, CopyIsCurrent, DoneIsQuiet, DoneIsEmpty
<1> QED
  BY <1>1, <1>2, <1>3, <1>4, <1>5, <1>6, <1>7, <1>8, <1>9, <1>10, <1>11, <1>12,
     <1>13, <1>14, <1>15, <1>16, <1>17
  DEF LockNext, HandlerStep, Exited

-----------------------------------------------------------------------------
\* The server's invariant: copies that handlers work on are of what is stored, or
\* their name is gone; descriptors in use are distinct.
THEOREM LockInvariant == LockSpec => []LockInv
  BY LockInitInv, LockStep, PTL DEF LockSpec

\* The server's variables keep their types.
THEOREM LockTypeCorrect == LockSpec => []LockTypeOK
<1>1. LockInv => LockTypeOK
  BY DEF LockInv
<1> QED BY <1>1, LockInvariant, PTL

\* However frees and requests overlap, each entry of the table is open on its own
\* object, and what is linked is in the table or still being requested.
THEOREM TableTrue == LockSpec => []TableIsTrue
<1>1. LockInv => TableIsTrue
  BY DEF LockInv
<1> QED BY <1>1, LockInvariant, PTL

\* When main() returns nothing is left in /dev/shm.
THEOREM ExitClean == LockSpec => []CleanAtExit
<1>1. LockInv => CleanAtExit
  BY DEF LockInv, TableIsTrue, DoneIsQuiet, DoneIsEmpty, CleanAtExit
<1> QED BY <1>1, LockInvariant, PTL

\* FreeSharedMemory empties only objects whose mode is 0000, although fchmod() went
\* by the number in a copy of the entry.
THEOREM RevokedFirst == LockSpec => RevokedBeforeEmptied
<1>1. ASSUME LockInv, [LockNext]_serverVars, main' # "done"
      PROVE  truncated' \ truncated \subseteq revoked
  <2>1. ASSUME NEW h \in Handlers, FreeStored(h)
        PROVE  truncated' \ truncated \subseteq revoked
    <3>1. alloc[h].shm_name \in revoked
      BY <1>1, <2>1 DEF LockInv, CopyIsCurrent, HasCopy, FreeStored
    <3>2. files[allocations[alloc[h].shm_name]] = alloc[h].shm_name
      BY <1>1, <2>1 DEF LockInv, WorkNamed, TableIsTrue, FreeStored
    <3> QED BY <2>1, <3>1, <3>2 DEF FreeStored
  <2>2. \/ truncated' = truncated
        \/ \E h \in Handlers : FreeStored(h)
    BY <1>1
    DEF LockNext, HandlerStep, CreateObject, RequestFails, StoreAllocation, FindAndCopy,
        OpenLockfile, OpenLockfileFails, Flock, FlockFails, Fchmod, FchmodFails,
        UnlockAndClose, UnlinkLockfile, FreeNotFound, Shutdown, CleanupAll, Exited,
        serverVars, tableVars
  <2> QED BY <2>1, <2>2
<1>2. LockInv /\ [LockNext]_serverVars
        => [main' # "done" => truncated' \ truncated \subseteq revoked]_serverVars
  BY <1>1
<1> QED BY <1>2, LockInvariant, PTL DEF LockSpec, RevokedBeforeEmptied

-----------------------------------------------------------------------------
\*                  The lock files, with any clients

\* Where a handler holds its lock, if flock() means anything.
HoldsLock == {"locked", "revoked", "unlocking"}

\* What holds a lock file's inode is a descriptor open on it, also after the
\* handler has returned and forgotten the number.
HoldersOpen ==
  \A i \in Inodes : holder[i] # None => holder[i] \in Fds /\ files[holder[i]] = i

\* A handler's lock descriptor is its own, and no waiter's descriptor holds a lock.
LockDescriptors ==
  \A h \in Handlers : pc[h] \in HoldsLock \cup {"locking"} =>
    /\ alloc[h].lockfd \in Fds /\ files[alloc[h].lockfd] \in Inodes
    /\ \A g \in Handlers \ {h} :
         pc[g] \in HoldsLock \cup {"locking"} => alloc[g].lockfd # alloc[h].lockfd
    /\ pc[h] = "locking" => \A i \in Inodes : holder[i] # alloc[h].lockfd

\* Between flock() and releasePermissionLock a handler holds its lock.
LockIsHeld ==
  \A h \in Handlers : pc[h] \in HoldsLock => holder[files[alloc[h].lockfd]] = alloc[h].lockfd

FlockInv == HoldersOpen /\ LockDescriptors /\ LockIsHeld

\* No two handlers are inside the permission lock of one file.
FlockExcludes ==
  \A g, h \in Handlers :
    g # h /\ pc[g] \in HoldsLock /\ pc[h] \in HoldsLock
      => files[alloc[g].lockfd] # files[alloc[h].lockfd]

\* A step that leaves the locks alone, every descriptor that is open on a lock file,
\* and the lock descriptors of the handlers, keeps the invariant.
LEMMA LocksAlone ==
  ASSUME LockInv, FlockInv,
         holder' = holder, \A d \in Fds : files[d] \in Inodes => files'[d] = files[d],
         \A h \in Handlers : pc'[h] \in HoldsLock \cup {"locking"} =>
           /\ alloc'[h].lockfd = alloc[h].lockfd
           /\ pc'[h] = pc[h] \/ (pc[h] \in HoldsLock /\ pc'[h] \in HoldsLock)
  PROVE  FlockInv'
<1>1. HoldersOpen'
  BY DEF FlockInv, HoldersOpen
<1>2. \A h \in Handlers : pc'[h] \in HoldsLock \cup {"locking"} =>
        /\ pc[h] \in HoldsLock \cup {"locking"}
        /\ pc'[h] = "locking" <=> pc[h] = "locking"
        /\ files'[alloc'[h].lockfd] = files[alloc[h].lockfd]
        /\ alloc'[h].lockfd = alloc[h].lockfd
  BY DEF FlockInv, LockDescriptors, HoldsLock
<1>3. LockDescriptors'
  BY <1>2 DEF FlockInv, LockDescriptors
<1>4. LockIsHeld'
  BY <1>2 DEF FlockInv, LockIsHeld, HoldsLock
<1> QED BY <1>1, <1>3, <1>4 DEF FlockInv

\* Every step keeps the locks with who holds them.
LEMMA FlockStep ==
  ASSUME LockInv, FlockInv, [LockNext]_serverVars PROVE FlockInv'
<1>0. /\ LockTypeOK /\ TableOpen /\ WorkNamed /\ CreatedIsPrivate
      /\ HoldersOpen /\ LockDescriptors /\ LockIsHeld
  BY DEF LockInv, FlockInv, TableIsTrue, TableOpen
<1> USE LockAssumption DEF LockAssumption, At, Return, Idle
<1>1. ASSUME NEW h \in Handlers,
             \/ StoreAllocation(h) \/ OpenLockfileFails(h) \/ UnlinkLockfile(h)
             \/ FreeNotFound(h) \/ Fchmod(h) \/ FchmodFails(h)
      PROVE  FlockInv'
  BY <1>0, <1>1, LocksAlone
  DEF StoreAllocation, OpenLockfileFails, UnlinkLockfile, FreeNotFound, Fchmod,
      FchmodFails, LockTypeOK, lockVars, HoldsLock
<1>2. ASSUME NEW h \in Handlers, NEW s \in Names, FindAndCopy(h, s)
      PROVE  FlockInv'
  BY <1>0, <1>2, LocksAlone DEF FindAndCopy, LockTypeOK, lockVars, HoldsLock
<1>3. ASSUME NEW h \in Handlers, CreateObject(h) \/ RequestFails(h)
      PROVE  FlockInv'
  BY <1>0, <1>3, LocksAlone
  DEF CreateObject, RequestFails, CreatedIsPrivate, WorkNamed, LockTypeOK, lockVars,
      HoldsLock
<1>4. ASSUME NEW h \in Handlers, FreeStored(h)
      PROVE  FlockInv'
  BY <1>0, <1>4, LocksAlone
  DEF FreeStored, TableOpen, WorkNamed, LockTypeOK, lockVars, HoldsLock
<1>5. ASSUME NEW h \in Handlers, OpenLockfile(h)
      PROVE  FlockInv'
  <2>1. PICK d \in Fds, i \in Inodes :
          /\ files[d] = None /\ files' = [files EXCEPT ![d] = i]
          /\ alloc' = [alloc EXCEPT ![h].lockfd = d]
    BY <1>5 DEF OpenLockfile
  <2>2. /\ holder' = holder /\ pc[h] = "copied" /\ pc'[h] = "locking"
        /\ \A g \in Handlers \ {h} : pc'[g] = pc[g] /\ alloc'[g] = alloc[g]
        /\ alloc'[h].lockfd = d /\ files'[d] = i
        /\ \A e \in Fds \ {d} : files'[e] = files[e]
    BY <1>0, <1>5, <2>1 DEF OpenLockfile, LockTypeOK
  <2>3. \A j \in Inodes : holder[j] # d
    BY <1>0, <2>1 DEF HoldersOpen
  <2>4. HoldersOpen'
    BY <1>0, <2>2, <2>3 DEF HoldersOpen
  <2>5. \A g \in Handlers : pc[g] \in HoldsLock \cup {"locking"} => alloc[g].lockfd # d
    BY <1>0, <2>1 DEF LockDescriptors
  <2>6. LockDescriptors'
    BY <1>0, <2>2, <2>3, <2>5 DEF LockDescriptors
  <2>7. LockIsHeld'
    BY <1>0, <2>2, <2>5 DEF LockIsHeld, LockDescriptors, HoldsLock
  <2> QED BY <2>4, <2>6, <2>7 DEF FlockInv
<1>6. ASSUME NEW h \in Handlers, Flock(h)
      PROVE  FlockInv'
  <2> DEFINE d == alloc[h].lockfd
             i == files[d]
  <2>1. d \in Fds /\ i \in Inodes /\ pc[h] = "locking" /\ holder[i] = None
    BY <1>0, <1>6 DEF Flock, LockDescriptors
  <2>2. /\ files' = files /\ alloc' = alloc /\ pc'[h] = "locked"
        /\ holder'[i] = d /\ \A j \in Inodes \ {i} : holder'[j] = holder[j]
        /\ \A g \in Handlers \ {h} : pc'[g] = pc[g]
    BY <1>0, <1>6, <2>1 DEF Flock, LockTypeOK
  <2>3. HoldersOpen'
    BY <1>0, <2>1, <2>2 DEF HoldersOpen
  <2>4. LockDescriptors'
    BY <1>0, <2>1, <2>2 DEF LockDescriptors, HoldsLock
  <2>5. \A g \in Handlers : pc[g] \in HoldsLock =>
          files[alloc[g].lockfd] \in Inodes \ {i}
    BY <1>0, <2>1 DEF LockDescriptors, LockIsHeld
  <2>6. LockIsHeld'
    BY <1>0, <2>2, <2>5 DEF LockIsHeld
  <2> QED BY <2>3, <2>4, <2>6 DEF FlockInv
<1>7. ASSUME NEW h \in Handlers, FlockFails(h)
      PROVE  FlockInv'
  <2> DEFINE d == alloc[h].lockfd
  <2>1. d \in Fds /\ pc[h] = "locking" /\ \A i \in Inodes : holder[i] # d
    BY <1>0, <1>7 DEF FlockFails, LockDescriptors
  <2>2. /\ holder' = holder /\ pc'[h] = "idle"
        /\ \A g \in Handlers \ {h} : pc'[g] = pc[g] /\ alloc'[g] = alloc[g]
        /\ \A e \in Fds \ {d} : files'[e] = files[e]
    BY <1>0, <1>7, <2>1 DEF FlockFails, LockTypeOK, lockVars
  <2>3. \A g \in Handlers \ {h} :
          pc[g] \in HoldsLock \cup {"locking"} => alloc[g].lockfd \in Fds \ {d}
    BY <1>0, <2>1 DEF LockDescriptors
  <2>4. HoldersOpen'
    BY <1>0, <2>1, <2>2 DEF HoldersOpen
  <2>5. LockDescriptors'
    BY <1>0, <2>2, <2>3 DEF LockDescriptors, HoldsLock
  <2>6. LockIsHeld'
    BY <1>0, <2>2, <2>3 DEF LockIsHeld, HoldsLock
  <2> QED BY <2>4, <2>5, <2>6 DEF FlockInv
<1>8. ASSUME NEW h \in Handlers, UnlockAndClose(h)
      PROVE  FlockInv'
  <2> DEFINE d == alloc[h].lockfd
             i == files[d]
  <2>1. d \in Fds /\ i \in Inodes /\ pc[h] = "unlocking" /\ holder[i] = d
    BY <1>0, <1>8 DEF UnlockAndClose, LockDescriptors, LockIsHeld, HoldsLock
  <2>2. /\ alloc' = alloc /\ pc'[h] = "unlinking"
        /\ holder'[i] = None /\ \A j \in Inodes \ {i} : holder'[j] = holder[j]
        /\ \A e \in Fds \ {d} : files'[e] = files[e]
        /\ \A g \in Handlers \ {h} : pc'[g] = pc[g]
    BY <1>0, <1>8, <2>1 DEF UnlockAndClose, LockTypeOK
  <2>3. \A g \in Handlers \ {h} :
          pc[g] \in HoldsLock \cup {"locking"} => alloc[g].lockfd \in Fds \ {d}
    BY <1>0, <2>1 DEF LockDescriptors, HoldsLock
  <2>4. \A g \in Handlers \ {h} :
          pc[g] \in HoldsLock => files[alloc[g].lockfd] \in Inodes \ {i}
    BY <1>0, <2>1, <2>3 DEF LockDescriptors, LockIsHeld
  <2>5. HoldersOpen'
    BY <1>0, <2>1, <2>2 DEF HoldersOpen
  <2>6. LockDescriptors'
    BY <1>0, <2>2, <2>3 DEF LockDescriptors, HoldsLock
  <2>7. LockIsHeld'
    BY <1>0, <2>2, <2>3, <2>4 DEF LockIsHeld, HoldsLock
  <2> QED BY <2>5, <2>6, <2>7 DEF FlockInv
<1>9. CASE Shutdown \/ Exited \/ UNCHANGED serverVars
  BY <1>9, LocksAlone DEF Shutdown, Exited, serverVars, lockVars
<1>10. CASE CleanupAll
  BY <1>0, <1>10, LocksAlone DEF CleanupAll, TableOpen, LockTypeOK, lockVars, HoldsLock
<1> QED BY <1>1, <1>2, <1>3, <1>4, <1>5, <1>6, <1>7, <1>8, <1>9, <1>10
        DEF LockNext, HandlerStep

\* What is held is open, and what a handler has locked stays locked, whatever other
\* handlers close by their copies.
THEOREM FlockInvariant == LockSpec => [](LockInv /\ FlockInv)
<1>1. LockInit => FlockInv
  BY DEF LockInit, FlockInv, HoldersOpen, LockDescriptors, LockIsHeld, HoldsLock
<1>2. LockInv /\ FlockInv /\ [LockNext]_serverVars => FlockInv'
  BY FlockStep
<1> QED BY <1>1, <1>2, LockInvariant, PTL DEF LockSpec

\* The permission lock is a lock: two handlers inside it hold different files.
THEOREM LockExcludes == LockSpec => []FlockExcludes
<1>1. FlockInv => FlockExcludes
  BY DEF FlockInv, LockDescriptors, LockIsHeld, FlockExcludes
<1> QED BY <1>1, FlockInvariant, PTL

-----------------------------------------------------------------------------
\*                   The server with the clients of client.cpp

\* Where a handler serves a free, and where its copy still counts.
Freeing == HasCopy \cup {"unlocking", "unlinking"}

ClientTypeOK ==
  /\ client \in [Handlers -> {"requesting", "granted", "mapped", "asleep", "freeing",
                              "freed"} \cup Ended]
  /\ told \in [Handlers -> Names \cup {None}]
  /\ freed_ok \in SUBSET Handlers
  /\ \A c \in Handlers : client[c] \in {"granted", "mapped", "asleep"} => told[c] # None

\* No name is told twice, and a name that was told is linked or was emptied.
ToldApart ==
  /\ \A c \in Handlers : told[c] # None => told[c] \in shm \cup truncated
  /\ \A c, d \in Handlers : c # d /\ told[c] # None => told[c] # told[d]

\* A name that is yet to be told is new.
CreatedIsNew ==
  \A c \in Handlers : pc[c] = "created" =>
    /\ alloc[c].shm_name \notin truncated
    /\ \A d \in Handlers : told[d] # alloc[c].shm_name
    /\ c \notin freed_ok

\* A client frees what it was told, so nobody frees the entry under it.
FreesOwn ==
  \A c \in Handlers :
    /\ pc[c] \in Freeing => alloc[c].shm_name = told[c]
    /\ pc[c] \in HasCopy => allocations[alloc[c].shm_name] # None

\* A handler is at work only while its client waits, or after it was killed.
ClientWaits ==
  \A c \in Handlers :
    /\ client[c] \in {"granted", "mapped", "asleep", "freed", "done", "sigbus"} => pc[c] = "idle"
    /\ client[c] = "requesting" => pc[c] = "created"

\* A client's object is emptied by its own free, before the server's end.
EmptiedByOwnFree ==
  \A c \in Handlers :
    /\ c \in freed_ok => told[c] \in truncated
    /\ told[c] \in truncated /\ main # "done" /\ client[c] \notin {"off", "requesting"}
         => c \in freed_ok
    /\ client[c] = "sigbus" => told[c] \in truncated
    /\ client[c] = "done" => c \notin freed_ok

Demo4bInv ==
  /\ ClientTypeOK /\ ToldApart /\ CreatedIsNew /\ FreesOwn
  /\ ClientWaits /\ EmptiedByOwnFree

-----------------------------------------------------------------------------
\* A step of the system is one of the server, or leaves the server alone.
LEMMA ServerSteps ==
  ASSUME LockInv, Demo4bInv, [Demo4bNext]_demo4bVars PROVE [LockNext]_serverVars
<1>1. ASSUME NEW c \in Handlers, Requests(c) \/ ServerStep(c) PROVE LockNext
  BY <1>1 DEF Requests, ServerStep, RequestReturns, RequestRefused, FreeGoesOn,
              FreeCancelled, FreeReturns, LockNext, HandlerStep
<1>2. ASSUME NEW c \in Handlers, Frees(c) PROVE LockNext
  <2>1. told[c] \in Names
    BY <1>2 DEF Frees, Demo4bInv, ClientTypeOK
  <2> QED BY <1>2, <2>1 DEF Frees, LockNext
<1>3. ASSUME NEW c \in Handlers, ClientStep(c) PROVE UNCHANGED serverVars
  BY <1>3 DEF ClientStep, OpenAndMap, ReadMessage, FreeUnanswered, ReadAgain, Sigbus, ClientEnds
<1> QED BY <1>1, <1>2, <1>3 DEF Demo4bNext, demo4bVars, LockNext

\* The clients' part of the invariant holds at the start.
LEMMA Demo4bInitInv == Demo4bInit => Demo4bInv
  BY DEF Demo4bInit, LockInit, Demo4bInv, ClientTypeOK, ToldApart, CreatedIsNew,
     FreesOwn, ClientWaits, EmptiedByOwnFree, Ended, HasCopy, Freeing

\* Every step of the server and the clients keeps it.
LEMMA Demo4bStep == LockInv /\ Demo4bInv /\ [Demo4bNext]_demo4bVars => Demo4bInv'
<1> SUFFICES ASSUME LockInv, Demo4bInv, [Demo4bNext]_demo4bVars PROVE Demo4bInv'
  OBVIOUS
<1>0. /\ LockTypeOK /\ TableOpen /\ LinkedNames /\ WorkNamed /\ CreatedIsPrivate
      /\ ClientTypeOK /\ ToldApart /\ CreatedIsNew /\ FreesOwn /\ ClientWaits /\ EmptiedByOwnFree
  BY DEF LockInv, Demo4bInv, TableIsTrue, TableOpen, LinkedNames
<1> USE <1>0, LockAssumption
    DEF LockAssumption, At, Return, Idle, serverVars, lockVars, tableVars, HasCopy,
        Freeing, Ended
<1>1. ASSUME NEW c \in Handlers, Requests(c) PROVE Demo4bInv'
  <2>1. ClientTypeOK'
    BY <1>1 DEF Requests, ClientAt, ClientTypeOK
  <2>2. ToldApart'
    BY <1>1 DEF Requests, CreateObject, ToldApart
  <2>3. CreatedIsNew'
    BY <1>1 DEF Requests, CreateObject, FreshName, CreatedIsNew, LockTypeOK, ToldApart
  <2>4. FreesOwn'
    BY <1>1 DEF Requests, CreateObject, FreesOwn
  <2>5. ClientWaits'
    BY <1>1 DEF Requests, ClientAt, CreateObject, ClientWaits, LockTypeOK, ClientTypeOK
  <2>6. EmptiedByOwnFree'
    BY <1>1 DEF Requests, ClientAt, CreateObject, EmptiedByOwnFree, ClientTypeOK
  <2> QED BY <2>1, <2>2, <2>3, <2>4, <2>5, <2>6 DEF Demo4bInv
<1>2. ASSUME NEW c \in Handlers, RequestReturns(c) PROVE Demo4bInv'
  <2>1. ClientTypeOK'
    BY <1>2 DEF RequestReturns, BackAt, ClientAt, StoreAllocation, ClientTypeOK, WorkNamed
  <2>2. ToldApart'
    BY <1>2 DEF RequestReturns, StoreAllocation, ToldApart, LockTypeOK, CreatedIsNew,
       LinkedNames
  <2>3. CreatedIsNew'
    BY <1>2 DEF RequestReturns, StoreAllocation, CreatedIsNew, LockTypeOK,
       CreatedIsPrivate
  <2>4. FreesOwn'
    BY <1>2 DEF RequestReturns, StoreAllocation, FreesOwn, WorkNamed
  <2>5. ClientWaits'
    BY <1>2 DEF RequestReturns, BackAt, ClientAt, StoreAllocation, ClientWaits,
       LockTypeOK, ClientTypeOK
  <2>6. EmptiedByOwnFree'
    BY <1>2 DEF RequestReturns, BackAt, ClientAt, StoreAllocation, EmptiedByOwnFree,
       ClientTypeOK, CreatedIsNew
  <2> QED BY <2>1, <2>2, <2>3, <2>4, <2>5, <2>6 DEF Demo4bInv
<1>3. ASSUME NEW c \in Handlers, RequestRefused(c) PROVE Demo4bInv'
  <2>1. ClientTypeOK'
    BY <1>3 DEF RequestRefused, ClientAt, ClientTypeOK
  <2>2. ToldApart'
    BY <1>3 DEF RequestRefused, RequestFails, ToldApart, CreatedIsNew
  <2>3. CreatedIsNew'
    BY <1>3 DEF RequestRefused, RequestFails, CreatedIsNew, LockTypeOK
  <2>4. FreesOwn'
    BY <1>3 DEF RequestRefused, RequestFails, FreesOwn
  <2>5. ClientWaits'
    BY <1>3 DEF RequestRefused, ClientAt, RequestFails, ClientWaits, ClientTypeOK
  <2>6. EmptiedByOwnFree'
    BY <1>3 DEF RequestRefused, ClientAt, RequestFails, EmptiedByOwnFree
  <2> QED BY <2>1, <2>2, <2>3, <2>4, <2>5, <2>6 DEF Demo4bInv
<1>4. ASSUME NEW c \in Handlers, Frees(c) PROVE Demo4bInv'
  <2>1. ClientTypeOK'
    BY <1>4 DEF Frees, ClientAt, ClientTypeOK
  <2>2. ToldApart'
    BY <1>4 DEF Frees, FindAndCopy, ToldApart
  <2>3. CreatedIsNew'
    BY <1>4 DEF Frees, FindAndCopy, CreatedIsNew
  <2>4. FreesOwn'
    BY <1>4 DEF Frees, FindAndCopy, FreesOwn, LockTypeOK
  <2>5. ClientWaits'
    BY <1>4 DEF Frees, ClientAt, FindAndCopy, ClientWaits, ClientTypeOK
  <2>6. EmptiedByOwnFree'
    BY <1>4 DEF Frees, ClientAt, FindAndCopy, EmptiedByOwnFree
  <2> QED BY <2>1, <2>2, <2>3, <2>4, <2>5, <2>6 DEF Demo4bInv
<1>5. ASSUME NEW c \in Handlers, FreeReturns(c) PROVE Demo4bInv'
  <2>1. /\ told[c] \in Names /\ alloc[c].shm_name = told[c]
        /\ allocations[told[c]] # None /\ files[allocations[told[c]]] = told[c]
    BY <1>5 DEF FreeReturns, FreeStored, WorkNamed, FreesOwn, TableOpen
  <2>2. /\ truncated' = truncated \cup {told[c]} /\ shm' = shm \ {told[c]}
        /\ allocations' = [allocations EXCEPT ![told[c]] = None]
        /\ told' = told /\ freed_ok' = freed_ok \cup {c} /\ main' = main
    BY <1>5, <2>1 DEF FreeReturns, FreeStored
  <2>3. /\ \A d \in Handlers \ {c} :
             pc'[d] = pc[d] /\ alloc'[d] = alloc[d] /\ client'[d] = client[d]
        /\ pc[c] = "revoked" /\ pc'[c] = "idle"
        /\ client'[c] \in {"off", "freed"}
    BY <1>5 DEF FreeReturns, FreeStored, BackAt, ClientAt, LockTypeOK, ClientTypeOK
  <2>4. ClientTypeOK'
    BY <1>5 DEF FreeReturns, BackAt, ClientAt, ClientTypeOK
  <2>5. ToldApart' /\ CreatedIsNew'
    BY <2>2, <2>3 DEF ToldApart, CreatedIsNew
  <2>6. FreesOwn'
    BY <2>1, <2>2, <2>3 DEF FreesOwn, ToldApart
  <2>7. ClientWaits'
    BY <2>3 DEF ClientWaits
  <2>8. EmptiedByOwnFree'
    BY <2>1, <2>2, <2>3 DEF EmptiedByOwnFree, ToldApart
  <2> QED BY <2>4, <2>5, <2>6, <2>7, <2>8 DEF Demo4bInv
<1>6. ASSUME NEW c \in Handlers, FreeGoesOn(c) \/ FreeCancelled(c) PROVE Demo4bInv'
  <2>1. /\ UNCHANGED <<main, allocations, shm, truncated, told, freed_ok>>
        /\ \A d \in Handlers \ {c} : pc'[d] = pc[d] /\ alloc'[d] = alloc[d] /\ client'[d] = client[d]
        /\ pc[c] \notin {"idle", "created"}
        /\ \/ /\ pc'[c] \in Freeing
              /\ pc'[c] \in HasCopy => pc[c] \in HasCopy
              /\ alloc'[c].shm_name = alloc[c].shm_name
              /\ client'[c] = client[c]
           \/ /\ pc'[c] = "idle"
              /\ client'[c] \in {"off", "freed"}
              /\ client[c] = "off" => client'[c] = "off"
    BY <1>6
    DEF FreeGoesOn, FreeCancelled, BackAt, ClientAt, clientVars, LockTypeOK, ClientTypeOK,
        OpenLockfile, OpenLockfileFails, Flock, FlockFails, Fchmod, FchmodFails,
        UnlockAndClose, UnlinkLockfile, FreeNotFound
  <2>2. ClientTypeOK'
    BY <1>6 DEF ClientTypeOK, FreeGoesOn, FreeCancelled, BackAt, ClientAt, clientVars
  <2>3. ToldApart' /\ CreatedIsNew'
    BY <2>1 DEF ToldApart, CreatedIsNew
  <2>4. FreesOwn'
    BY <2>1 DEF FreesOwn, LockTypeOK
  <2>5. ClientWaits'
    BY <2>1 DEF ClientWaits
  <2>6. EmptiedByOwnFree'
    BY <2>1 DEF EmptiedByOwnFree, ClientWaits
  <2> QED BY <2>2, <2>3, <2>4, <2>5, <2>6 DEF Demo4bInv
<1>7. ASSUME NEW c \in Handlers, ClientStep(c) PROVE Demo4bInv'
  <2>1. UNCHANGED <<serverVars, told, freed_ok>>
    BY <1>7 DEF ClientStep, OpenAndMap, ReadMessage, FreeUnanswered, ReadAgain, Sigbus, ClientEnds
  <2>2. PICK p \in {"mapped", "asleep", "freed", "done", "sigbus", "off"} :
          /\ client' = [client EXCEPT ![c] = p]
          /\ p # "off" => client[c] \in {"granted", "mapped", "asleep", "freed"}
          /\ p \in {"mapped", "asleep"} => client[c] \in {"granted", "mapped"}
          /\ p = "done" => told[c] \notin truncated
          /\ p = "sigbus" => told[c] \in truncated
    BY <1>7 DEF ClientStep, ClientAt, OpenAndMap, ReadMessage, FreeUnanswered, ReadAgain, Sigbus, ClientEnds
  <2>3. ClientTypeOK' /\ ToldApart' /\ CreatedIsNew' /\ FreesOwn'
    BY <2>1, <2>2 DEF ClientTypeOK, ToldApart, CreatedIsNew, FreesOwn
  <2>4. ClientWaits'
    BY <2>1, <2>2 DEF ClientWaits
  <2>5. EmptiedByOwnFree'
    BY <2>1, <2>2 DEF EmptiedByOwnFree
  <2> QED BY <2>3, <2>4, <2>5 DEF Demo4bInv
<1>8. CASE Shutdown /\ UNCHANGED clientVars
  BY <1>8
  DEF Shutdown, clientVars, Demo4bInv, ClientTypeOK, ToldApart, CreatedIsNew, FreesOwn,
      ClientWaits, EmptiedByOwnFree
<1>9. CASE CleanupAll /\ UNCHANGED clientVars
  <2>1. shm \cup truncated \subseteq shm' \cup truncated'
    BY <1>9 DEF CleanupAll, TableOpen
  <2>2. \A c \in Handlers : pc'[c] = "idle"
    BY <1>9 DEF CleanupAll
  <2>3. ClientTypeOK' /\ ToldApart'
    BY <1>9, <2>1 DEF clientVars, ClientTypeOK, ToldApart
  <2>4. CreatedIsNew' /\ FreesOwn' /\ ClientWaits'
    BY <1>9 DEF CleanupAll, clientVars, CreatedIsNew, FreesOwn, ClientWaits
  <2>5. EmptiedByOwnFree'
    BY <1>9 DEF CleanupAll, clientVars, EmptiedByOwnFree
  <2> QED BY <2>3, <2>4, <2>5 DEF Demo4bInv
<1>10. CASE UNCHANGED demo4bVars
  BY <1>10 DEF demo4bVars, clientVars, Demo4bInv, ClientTypeOK, ToldApart, CreatedIsNew,
     FreesOwn, ClientWaits, EmptiedByOwnFree
<1> QED
  BY <1>1, <1>2, <1>3, <1>4, <1>5, <1>6, <1>7, <1>8, <1>9, <1>10
  DEF Demo4bNext, ServerStep, Exited, demo4bVars

-----------------------------------------------------------------------------
\* The invariant of demo 4b: names are told once, each client frees its own, and an
\* object is emptied by its own client's free.
THEOREM Demo4bInvariant == Demo4bSpec => [](LockInv /\ Demo4bInv)
<1>1. Demo4bInit => LockInv /\ Demo4bInv
  BY Demo4bInitInv, LockInitInv DEF Demo4bInit
<1>2. LockInv /\ Demo4bInv /\ [Demo4bNext]_demo4bVars => LockInv' /\ Demo4bInv'
  BY Demo4bStep, ServerSteps, LockStep
<1> QED BY <1>1, <1>2, PTL DEF Demo4bSpec

\* Demo 4b as a whole implements its server: PermissionLock allows clients that free
\* any name at any time, and those of client.cpp are some of them.
THEOREM ServerRefined == Demo4bSpec => LockSpec
<1>1. Demo4bInit => LockInit
  BY DEF Demo4bInit
<1>2. LockInv /\ Demo4bInv /\ [Demo4bNext]_demo4bVars => [LockNext]_serverVars
  BY ServerSteps
<1> QED BY <1>1, <1>2, Demo4bInvariant, PTL DEF Demo4bSpec, LockSpec

\* Whoever else requests, frees or dies: the client's second read raises SIGBUS only
\* if its own free was done, and survives only if it was refused.
THEOREM SecondRead == Demo4bSpec => []SecondReadTells
<1>1. LockInv /\ Demo4bInv => SecondReadTells
  BY DEF Demo4bInv, EmptiedByOwnFree, SecondReadTells
<1> QED BY <1>1, Demo4bInvariant, PTL

\* fchmod() by the copied number revokes the access to the object of the call.
THEOREM RevokesOwn == Demo4bSpec => RevokesOwnObject
<1>1. ASSUME LockInv, Demo4bInv, [Demo4bNext]_demo4bVars,
             NEW c \in Handlers, pc[c] = "locked", pc'[c] = "revoked"
      PROVE  alloc[c].shm_name \in revoked'
  <2>1. Fchmod(c)
    BY <1>1, ServerSteps
    DEF LockNext, HandlerStep, CreateObject, RequestFails, StoreAllocation, FindAndCopy,
        OpenLockfile, OpenLockfileFails, Flock, FlockFails, Fchmod, FchmodFails,
        UnlockAndClose, UnlinkLockfile, FreeStored, FreeNotFound, Shutdown, CleanupAll,
        Exited, serverVars, At, Return, LockInv, LockTypeOK
  <2>2. /\ alloc[c].shm_name \in Names
        /\ allocations[alloc[c].shm_name] = alloc[c].fd
        /\ allocations[alloc[c].shm_name] # None
    BY <1>1 DEF LockInv, WorkNamed, CopyIsCurrent, Demo4bInv, FreesOwn, HasCopy
  <2>3. files[alloc[c].fd] = alloc[c].shm_name
    BY <1>1, <2>2 DEF LockInv, TableIsTrue
  <2> QED BY <2>1, <2>3 DEF Fchmod
<1>2. LockInv /\ Demo4bInv /\ [Demo4bNext]_demo4bVars
        => [\A c \in Handlers : pc[c] = "locked" /\ pc'[c] = "revoked"
              => alloc[c].shm_name \in revoked']_demo4bVars
  BY <1>1
<1> QED BY <1>2, Demo4bInvariant, PTL DEF Demo4bSpec, RevokesOwnObject

-----------------------------------------------------------------------------
\*                  Nobody waits for a permission lock

\* No two names have one lock file, and a new object has none yet.
LockfilesDistinct ==
  \A s, t \in Names : s # t /\ lockfile[s] # None => lockfile[s] # lockfile[t]

CreatedHasNone ==
  \A c \in Handlers : pc[c] = "created" => lockfile[alloc[c].shm_name] = None

\* The file a handler locks is still the one in /tmp: only a handler of the same
\* name could have unlinked it.
LocksCurrent ==
  \A c \in Handlers : pc[c] \in HoldsLock \cup {"locking"} =>
    files[alloc[c].lockfd] = lockfile[alloc[c].shm_name]

\* A lock file is held by the handler that frees the name, or the name is gone.
HeldByOwner ==
  \A s \in Names : lockfile[s] # None /\ holder[lockfile[s]] # None =>
    \/ allocations[s] = None
    \/ \E c \in Handlers : pc[c] \in HoldsLock /\ alloc[c].shm_name = s

\* Who comes to flock() finds the lock free.
FlockNeverWaits ==
  \A c \in Handlers : pc[c] = "locking" => holder[files[alloc[c].lockfd]] = None

PathInv ==
  LockfilesDistinct /\ CreatedHasNone /\ LocksCurrent /\ HeldByOwner /\ FlockNeverWaits

\* Handlers that are at work on a name have it to themselves.
LEMMA OwnNames ==
  ASSUME LockInv, Demo4bInv, NEW c \in Handlers, NEW d \in Handlers, c # d,
         pc[c] \in Freeing \cup {"created"}, pc[d] \in Freeing \cup {"created"}
  PROVE  alloc[c].shm_name # alloc[d].shm_name
<1>1. CASE pc[c] = "created" \/ pc[d] = "created"
  BY <1>1 DEF LockInv, CreatedIsPrivate
<1>2. CASE pc[c] \in Freeing /\ pc[d] \in Freeing
  <2>1. told[c] = alloc[c].shm_name /\ told[d] = alloc[d].shm_name /\ told[c] \in Names
    BY <1>2 DEF LockInv, WorkNamed, Demo4bInv, FreesOwn, Freeing, HasCopy
  <2> QED BY <2>1, LockAssumption DEF LockAssumption, Demo4bInv, ToldApart
<1> QED BY <1>1, <1>2

\* A step that changes no lock and no lock file keeps the invariant if handlers go
\* on with the descriptors they have, if who gives up a name erases it, and if a
\* name that comes into the table has no lock file.
LEMMA PathAlone ==
  ASSUME PathInv, lockVars' = lockVars,
         \A s \in Names : allocations[s] = None =>
           allocations'[s] = None \/ lockfile[s] = None,
         \A h \in Handlers : pc'[h] = "created" => lockfile[alloc'[h].shm_name] = None,
         \A h \in Handlers : pc'[h] \in HoldsLock \cup {"locking"} =>
           /\ alloc'[h] = alloc[h] /\ files'[alloc[h].lockfd] = files[alloc[h].lockfd]
           /\ pc'[h] = pc[h] \/ (pc[h] \in HoldsLock /\ pc'[h] \in HoldsLock),
         \A h \in Handlers : pc[h] \in HoldsLock =>
           \/ pc'[h] \in HoldsLock /\ alloc'[h] = alloc[h]
           \/ allocations'[alloc[h].shm_name] = None
  PROVE  PathInv'
<1>1. LockfilesDistinct'
  BY DEF PathInv, LockfilesDistinct, lockVars
<1>2. CreatedHasNone'
  BY DEF CreatedHasNone, lockVars
<1>3. LocksCurrent'
  BY DEF PathInv, LocksCurrent, HoldsLock, lockVars
<1>4. HeldByOwner'
  BY DEF PathInv, HeldByOwner, lockVars
<1>5. FlockNeverWaits'
  BY DEF PathInv, FlockNeverWaits, HoldsLock, lockVars
<1> QED BY <1>1, <1>2, <1>3, <1>4, <1>5 DEF PathInv

\* Each step of the server on behalf of these clients leaves every waiter's lock free.
LEMMA PathStep ==
  ASSUME LockInv, FlockInv, Demo4bInv, PathInv, [LockNext]_serverVars
  PROVE  PathInv'
<1>0. /\ LockTypeOK /\ TableOpen /\ WorkNamed /\ CreatedIsPrivate
      /\ HoldersOpen /\ LockDescriptors /\ LockIsHeld /\ FreesOwn
      /\ LockfilesDistinct /\ CreatedHasNone /\ LocksCurrent /\ HeldByOwner
      /\ FlockNeverWaits
  BY DEF LockInv, FlockInv, Demo4bInv, PathInv, TableIsTrue, TableOpen
<1> USE LockAssumption DEF LockAssumption, At, Return, Idle
<1>1. ASSUME NEW h \in Handlers,
             StoreAllocation(h) \/ OpenLockfileFails(h) \/ FreeNotFound(h)
             \/ Fchmod(h) \/ FchmodFails(h)
      PROVE  PathInv'
  BY <1>0, <1>1, PathAlone
  DEF StoreAllocation, OpenLockfileFails, FreeNotFound, Fchmod, FchmodFails,
      LockTypeOK, CreatedHasNone, tableVars, lockVars, HoldsLock
<1>2. ASSUME NEW h \in Handlers, NEW s \in Names, FindAndCopy(h, s)
      PROVE  PathInv'
  BY <1>0, <1>2, PathAlone
  DEF FindAndCopy, LockTypeOK, CreatedHasNone, tableVars, lockVars, HoldsLock
<1>3. ASSUME NEW h \in Handlers, CreateObject(h) \/ RequestFails(h)
      PROVE  PathInv'
  <2>1. /\ lockVars' = lockVars /\ allocations' = allocations
        /\ \A g \in Handlers \ {h} : pc'[g] = pc[g] /\ alloc'[g] = alloc[g]
        /\ pc[h] \notin HoldsLock /\ pc'[h] \notin HoldsLock \cup {"locking"}
        /\ pc'[h] = "created" => lockfile[alloc'[h].shm_name] = None
    BY <1>0, <1>3
    DEF CreateObject, RequestFails, FreshName, LockTypeOK, tableVars, lockVars, HoldsLock
  <2>2. \A d \in Fds : files[d] \in Inodes => files'[d] = files[d]
    BY <1>0, <1>3 DEF CreateObject, RequestFails, CreatedIsPrivate, WorkNamed, LockTypeOK
  <2> QED BY <1>0, <2>1, <2>2, PathAlone DEF LockDescriptors, CreatedHasNone
<1>4. ASSUME NEW h \in Handlers, FreeStored(h)
      PROVE  PathInv'
  <2>1. \A d \in Fds : files[d] \in Inodes => files'[d] = files[d]
    BY <1>0, <1>4 DEF FreeStored, TableOpen, WorkNamed, LockTypeOK
  <2>2. /\ lockVars' = lockVars /\ pc[h] = "revoked" /\ pc'[h] = "idle"
        /\ allocations'[alloc[h].shm_name] = None
        /\ \A s \in Names : allocations[s] = None => allocations'[s] = None
        /\ \A g \in Handlers \ {h} : pc'[g] = pc[g] /\ alloc'[g] = alloc[g]
    BY <1>0, <1>4 DEF FreeStored, WorkNamed, LockTypeOK, lockVars
  <2> QED BY <1>0, <2>1, <2>2, PathAlone DEF LockDescriptors, CreatedHasNone, HoldsLock
<1>5. ASSUME NEW h \in Handlers, FlockFails(h)
      PROVE  PathInv'
  <2>1. /\ lockVars' = lockVars /\ allocations' = allocations
        /\ pc[h] = "locking" /\ pc'[h] = "idle"
        /\ files' = [files EXCEPT ![alloc[h].lockfd] = None]
        /\ \A g \in Handlers \ {h} : pc'[g] = pc[g] /\ alloc'[g] = alloc[g]
    BY <1>0, <1>5 DEF FlockFails, LockTypeOK, tableVars
  <2>2. \A g \in Handlers \ {h} : pc[g] \in HoldsLock \cup {"locking"} =>
          files'[alloc[g].lockfd] = files[alloc[g].lockfd]
    BY <1>0, <2>1 DEF LockDescriptors, LockTypeOK
  <2> QED BY <1>0, <2>1, <2>2, PathAlone DEF CreatedHasNone, HoldsLock
<1>6. ASSUME NEW h \in Handlers, OpenLockfile(h)
      PROVE  PathInv'
  <2> DEFINE s == alloc[h].shm_name
  <2>1. PICK d \in Fds, i \in Inodes :
          /\ files[d] = None /\ files' = [files EXCEPT ![d] = i]
          /\ IF lockfile[s] # None THEN i = lockfile[s]
             ELSE ~IsOpen(i) /\ \A x \in Names : lockfile[x] # i
          /\ lockfile' = [lockfile EXCEPT ![s] = i]
          /\ alloc' = [alloc EXCEPT ![h].lockfd = d]
    BY <1>6 DEF OpenLockfile
  <2>2. /\ holder' = holder /\ allocations' = allocations
        /\ pc[h] = "copied" /\ pc'[h] = "locking" /\ s \in Names
        /\ \A g \in Handlers \ {h} : pc'[g] = pc[g] /\ alloc'[g] = alloc[g]
        /\ alloc'[h].lockfd = d /\ alloc'[h].shm_name = s
        /\ files'[d] = i /\ \A e \in Fds \ {d} : files'[e] = files[e]
        /\ lockfile'[s] = i /\ \A x \in Names \ {s} : lockfile'[x] = lockfile[x]
    BY <1>0, <1>6, <2>1 DEF OpenLockfile, LockTypeOK, WorkNamed, tableVars
  <2>3. \A g \in Handlers \ {h} : pc[g] \in Freeing \cup {"created"} =>
          alloc[g].shm_name \in Names \ {s}
    BY <1>0, <2>2, OwnNames DEF Freeing, HasCopy, WorkNamed
  <2>4. holder[i] = None
    <3>1. CASE lockfile[s] # None
      <4>1. i = lockfile[s] /\ allocations[s] # None
        BY <1>0, <2>1, <2>2, <3>1 DEF FreesOwn, HasCopy
      <4>2. ~ \E g \in Handlers : pc[g] \in HoldsLock /\ alloc[g].shm_name = s
        BY <2>2, <2>3 DEF HoldsLock, Freeing, HasCopy
      <4> QED BY <1>0, <2>2, <3>1, <4>1, <4>2 DEF HeldByOwner
    <3>2. CASE lockfile[s] = None
      BY <1>0, <2>1, <3>2 DEF IsOpen, HoldersOpen
    <3> QED BY <3>1, <3>2
  <2>5. \A g \in Handlers \ {h} : pc[g] \in HoldsLock \cup {"locking"} =>
          /\ files'[alloc[g].lockfd] = files[alloc[g].lockfd]
          /\ alloc[g].shm_name \in Names \ {s}
    BY <1>0, <2>1, <2>2, <2>3 DEF LockDescriptors, HoldsLock, Freeing, HasCopy
  <2>6. LockfilesDistinct'
    BY <1>0, <2>1, <2>2 DEF LockfilesDistinct
  <2>7. CreatedHasNone'
    BY <1>0, <2>2, <2>3 DEF CreatedHasNone
  <2>8. LocksCurrent'
    BY <1>0, <2>2, <2>5 DEF LocksCurrent, HoldsLock
  <2>9. HeldByOwner'
    BY <1>0, <2>2, <2>4 DEF HeldByOwner, HoldsLock
  <2>10. FlockNeverWaits'
    BY <1>0, <2>2, <2>4, <2>5 DEF FlockNeverWaits
  <2> QED BY <2>6, <2>7, <2>8, <2>9, <2>10 DEF PathInv
<1>7. ASSUME NEW h \in Handlers, Flock(h)
      PROVE  PathInv'
  <2> DEFINE s == alloc[h].shm_name
             i == files[alloc[h].lockfd]
  <2>1. /\ pc[h] = "locking" /\ s \in Names /\ i \in Inodes /\ lockfile[s] = i
    BY <1>0, <1>7 DEF Flock, LockDescriptors, LocksCurrent, WorkNamed
  <2>2. /\ files' = files /\ alloc' = alloc /\ lockfile' = lockfile
        /\ allocations' = allocations /\ pc'[h] = "locked"
        /\ \A j \in Inodes \ {i} : holder'[j] = holder[j]
        /\ \A g \in Handlers \ {h} : pc'[g] = pc[g]
    BY <1>0, <1>7, <2>1 DEF Flock, LockTypeOK, tableVars
  <2>3. \A x \in Names \ {s} : lockfile[x] # i
    BY <1>0, <2>1 DEF LockfilesDistinct
  <2>4. \A g \in Handlers \ {h} : pc[g] = "locking" =>
          files[alloc[g].lockfd] \in Inodes \ {i}
    <3>1. \A g \in Handlers \ {h} : pc[g] = "locking" => alloc[g].shm_name \in Names \ {s}
      BY <1>0, <2>1, OwnNames DEF Freeing, HasCopy, WorkNamed
    <3> QED BY <1>0, <2>3, <3>1 DEF LocksCurrent, LockDescriptors
  <2>5. LockfilesDistinct' /\ CreatedHasNone' /\ LocksCurrent'
    BY <1>0, <2>1, <2>2 DEF LockfilesDistinct, CreatedHasNone, LocksCurrent, HoldsLock
  <2>6. HeldByOwner'
    BY <1>0, <2>1, <2>2, <2>3 DEF HeldByOwner, HoldsLock, LockTypeOK
  <2>7. FlockNeverWaits'
    BY <1>0, <2>2, <2>4 DEF FlockNeverWaits
  <2> QED BY <2>5, <2>6, <2>7 DEF PathInv
<1>8. ASSUME NEW h \in Handlers, UnlockAndClose(h)
      PROVE  PathInv'
  <2> DEFINE s == alloc[h].shm_name
             d == alloc[h].lockfd
             i == files[d]
  <2>1. /\ pc[h] = "unlocking" /\ s \in Names /\ i \in Inodes /\ lockfile[s] = i
        /\ d \in Fds
    BY <1>0, <1>8 DEF UnlockAndClose, LockDescriptors, LocksCurrent, WorkNamed, HoldsLock
  <2>2. /\ alloc' = alloc /\ lockfile' = lockfile /\ allocations' = allocations
        /\ pc'[h] = "unlinking" /\ holder'[i] = None
        /\ \A j \in Inodes \ {i} : holder'[j] = holder[j]
        /\ \A e \in Fds \ {d} : files'[e] = files[e]
        /\ \A g \in Handlers \ {h} : pc'[g] = pc[g]
    BY <1>0, <1>8, <2>1 DEF UnlockAndClose, LockTypeOK, tableVars
  <2>3. \A g \in Handlers \ {h} : pc[g] \in HoldsLock \cup {"locking"} =>
          files'[alloc[g].lockfd] = files[alloc[g].lockfd]
    BY <1>0, <2>1, <2>2 DEF LockDescriptors, HoldsLock
  <2>4. LockfilesDistinct' /\ CreatedHasNone'
    BY <1>0, <2>2 DEF LockfilesDistinct, CreatedHasNone
  <2>5. LocksCurrent'
    BY <1>0, <2>2, <2>3 DEF LocksCurrent, HoldsLock
  <2>6. HeldByOwner'
    BY <1>0, <2>1, <2>2 DEF HeldByOwner, HoldsLock, LockTypeOK
  <2>7. FlockNeverWaits'
    BY <1>0, <2>2, <2>3 DEF FlockNeverWaits, LockDescriptors
  <2> QED BY <2>4, <2>5, <2>6, <2>7 DEF PathInv
<1>9. ASSUME NEW h \in Handlers, UnlinkLockfile(h)
      PROVE  PathInv'
  <2> DEFINE s == alloc[h].shm_name
  <2>1. /\ files' = files /\ holder' = holder /\ allocations' = allocations
        /\ pc[h] = "unlinking" /\ pc'[h] = "idle" /\ s \in Names
        /\ lockfile'[s] = None /\ \A x \in Names \ {s} : lockfile'[x] = lockfile[x]
        /\ \A g \in Handlers \ {h} : pc'[g] = pc[g] /\ alloc'[g] = alloc[g]
    BY <1>0, <1>9 DEF UnlinkLockfile, LockTypeOK, WorkNamed, tableVars
  <2>2. \A g \in Handlers \ {h} : pc[g] \in HoldsLock \cup {"locking", "created"} =>
          alloc[g].shm_name \in Names \ {s}
    BY <1>0, <2>1, OwnNames DEF Freeing, HasCopy, HoldsLock, WorkNamed
  <2>3. LockfilesDistinct'
    BY <1>0, <2>1 DEF LockfilesDistinct
  <2>4. CreatedHasNone' /\ LocksCurrent'
    BY <1>0, <2>1, <2>2 DEF CreatedHasNone, LocksCurrent, HoldsLock
  <2>5. HeldByOwner'
    BY <1>0, <2>1 DEF HeldByOwner, HoldsLock
  <2>6. FlockNeverWaits'
    BY <1>0, <2>1 DEF FlockNeverWaits
  <2> QED BY <2>3, <2>4, <2>5, <2>6 DEF PathInv
<1>10. CASE CleanupAll
  BY <1>0, <1>10, PathAlone DEF CleanupAll, lockVars, HoldsLock
<1>11. CASE Shutdown \/ Exited \/ UNCHANGED serverVars
  BY <1>0, <1>11, PathAlone
  DEF Shutdown, Exited, serverVars, tableVars, lockVars, CreatedHasNone
<1> QED BY <1>1, <1>2, <1>3, <1>4, <1>5, <1>6, <1>7, <1>8, <1>9, <1>10, <1>11
        DEF LockNext, HandlerStep

\* With the clients of client.cpp nobody ever waits in flock(), although a free that
\* is done keeps its lock for ever: who comes to a lock file is the first and only
\* one to free that name.  It is why calls return and Shutdown() ends.
THEOREM NobodyWaits == Demo4bSpec => []FlockNeverWaits
<1>1. Demo4bInit => PathInv
  BY DEF Demo4bInit, LockInit, PathInv, LockfilesDistinct, CreatedHasNone, LocksCurrent,
         HeldByOwner, FlockNeverWaits, HoldsLock
<1>2. LockInv /\ FlockInv /\ Demo4bInv /\ PathInv /\ [Demo4bNext]_demo4bVars => PathInv'
  BY PathStep, ServerSteps
<1>3. PathInv => FlockNeverWaits
  BY DEF PathInv
<1> QED BY <1>1, <1>2, <1>3, FlockInvariant, ServerRefined, Demo4bInvariant, PTL
        DEF Demo4bSpec
=============================================================================
