---------------------------- MODULE Demo4bSystem ----------------------------
(***************************************************************************)
(* Demo 4b as a whole: PermissionLock with the client processes of         *)
(* demo4b/src/client.cpp, which request an object, read it, free it after  *)
(* 20 seconds, and read it again, with a handler for the SIGBUS that this  *)
(* may raise.  A client frees only the name it was given, once: the lock   *)
(* file is then never contended, and the lock that FreeSharedMemory keeps  *)
(* hurts nobody.                                                           *)
(*                                                                         *)
(* Handlers are the threads of the calls: one for each client slot, where  *)
(* processes run one after another.                                        *)
(***************************************************************************)
EXTENDS PermissionLock

VARIABLES
  client,   \* where main() of the client is
  told,     \* the name the reply has brought it
  freed_ok  \* clients whose FreeSharedMemory was answered OK, which they ignore

clientVars == <<client, told, freed_ok>>
demo4bVars == <<serverVars, clientVars>>

Ended == {"off", "done", "sigbus"}

Demo4bInit ==
  /\ LockInit
  /\ client = [c \in Handlers |-> "off"]
  /\ told = [c \in Handlers |-> None]
  /\ freed_ok = {}

ClientAt(c, p) == client' = [client EXCEPT ![c] = p]

\* The client, unless it was killed meanwhile, is back from its call.
BackAt(c, p) == ClientAt(c, IF client[c] = "off" THEN "off" ELSE p)

-----------------------------------------------------------------------------
\* A client starts and its request reaches a handler.
Requests(c) ==
  /\ client[c] \in Ended
  /\ CreateObject(c)
  /\ ClientAt(c, "requesting")
  /\ freed_ok' = freed_ok \ {c}
  /\ UNCHANGED told

\* The reply with the name ...
RequestReturns(c) ==
  /\ StoreAllocation(c)
  /\ told' = [told EXCEPT ![c] = alloc[c].shm_name]
  /\ BackAt(c, "granted")
  /\ UNCHANGED freed_ok

\* ... or CANCELLED, and the client ends.
RequestRefused(c) ==
  /\ RequestFails(c)
  /\ ClientAt(c, "off")
  /\ UNCHANGED <<told, freed_ok>>

\* shm_open(O_RDWR) and mmap.
OpenAndMap(c) ==
  /\ client[c] = "granted"
  /\ told[c] \in shm \ revoked
  /\ ClientAt(c, "mapped")
  /\ UNCHANGED <<serverVars, told, freed_ok>>

\* The first message is printed; 20 seconds pass.
ReadMessage(c) ==
  /\ client[c] = "mapped"
  /\ told[c] \notin truncated
  /\ ClientAt(c, "asleep")
  /\ UNCHANGED <<serverVars, told, freed_ok>>

\* FreeSharedMemory finds the name ...
Frees(c) ==
  /\ client[c] = "asleep"
  /\ FindAndCopy(c, told[c])
  /\ ClientAt(c, "freeing")
  /\ UNCHANGED <<told, freed_ok>>

\* ... or does not, or there is no server: the client goes on all the same.
FreeUnanswered(c) ==
  /\ client[c] = "asleep"
  /\ main # "serving" \/ allocations[told[c]] = None
  /\ ClientAt(c, "freed")
  /\ UNCHANGED <<serverVars, told, freed_ok>>

\* A step of FreeSharedMemory that does not return.
FreeGoesOn(c) ==
  /\ \/ OpenLockfile(c) \/ Flock(c) \/ Fchmod(c)
     \/ FchmodFails(c) \/ UnlockAndClose(c)
  /\ UNCHANGED clientVars

\* FreeSharedMemory returns CANCELLED.
FreeCancelled(c) ==
  /\ OpenLockfileFails(c) \/ FlockFails(c) \/ UnlinkLockfile(c) \/ FreeNotFound(c)
  /\ BackAt(c, "freed")
  /\ UNCHANGED <<told, freed_ok>>

\* FreeSharedMemory returns OK.
FreeReturns(c) ==
  /\ FreeStored(c)
  /\ BackAt(c, "freed")
  /\ freed_ok' = freed_ok \cup {c}
  /\ UNCHANGED told

\* The message can be printed once more.
ReadAgain(c) ==
  /\ client[c] = "freed"
  /\ told[c] \notin truncated
  /\ ClientAt(c, "done")
  /\ UNCHANGED <<serverVars, told, freed_ok>>

\* The object has been emptied: sigbus_handler unmaps, closes and exits.
Sigbus(c) ==
  /\ client[c] \in {"mapped", "freed"}
  /\ told[c] \in truncated
  /\ ClientAt(c, "sigbus")
  /\ UNCHANGED <<serverVars, told, freed_ok>>

\* shm_open or mmap fails, or the client is killed: nobody frees its object.
ClientEnds(c) ==
  /\ client[c] \notin Ended
  /\ ClientAt(c, "off")
  /\ UNCHANGED <<serverVars, told, freed_ok>>

-----------------------------------------------------------------------------
\* One step of the handler of c's call.
ServerStep(c) ==
  \/ RequestReturns(c) \/ RequestRefused(c)
  \/ FreeGoesOn(c) \/ FreeCancelled(c) \/ FreeReturns(c)

ClientStep(c) ==
  \/ OpenAndMap(c) \/ ReadMessage(c) \/ FreeUnanswered(c)
  \/ ReadAgain(c) \/ Sigbus(c) \/ ClientEnds(c)

Demo4bNext ==
  \/ \E c \in Handlers : Requests(c) \/ Frees(c) \/ ServerStep(c) \/ ClientStep(c)
  \/ (Shutdown \/ CleanupAll \/ Exited) /\ UNCHANGED clientVars

\* A handler that has begun goes on.  Its wait in flock() ends by getting the
\* lock: that flock() might fail instead helps nobody.
Proceeds(c) == ServerStep(c) /\ (pc[c] = "locking" => pc'[c] = "locked")

\* The operating system runs gRPC's threads, and main() goes on after Shutdown().
\* Nothing is assumed of the clients.
Demo4bFairness ==
  /\ \A c \in Handlers : WF_demo4bVars(Proceeds(c))
  /\ WF_demo4bVars(CleanupAll /\ UNCHANGED clientVars)

Demo4bSpec == Demo4bInit /\ [][Demo4bNext]_demo4bVars /\ Demo4bFairness

-----------------------------------------------------------------------------
\* Every call of a client returns, also if the client has gone.
CallsReturn == \A c \in Handlers : pc[c] # "idle" ~> pc[c] = "idle"

\* After SIGINT the server ends, with nothing left in /dev/shm.
ShutdownCompletes == main = "draining" ~> main = "done" /\ shm = {}

\* fchmod(), by the copied number of a descriptor that another handler may close,
\* takes away the permissions of the object it is meant for.
RevokesOwnObject ==
  [][\A c \in Handlers :
       pc[c] = "locked" /\ pc'[c] = "revoked" => alloc[c].shm_name \in revoked']_demo4bVars

\* The read after the free tells the client what it has ignored: it survives only
\* if the free was refused, and raises SIGBUS, before the server's end, only if
\* this client's own free was done.  No other client's free empties its object.
SecondReadTells ==
  \A c \in Handlers :
    /\ client[c] = "sigbus" /\ main # "done" => c \in freed_ok
    /\ client[c] = "done" => c \notin freed_ok
=============================================================================
