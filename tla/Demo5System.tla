---------------------------- MODULE Demo5System ----------------------------
(***************************************************************************)
(* Demo 5 as a whole: the gRPC service in front of PinnedMemoryPool        *)
(* (demo5/src/server.cpp, AllocatorServiceImpl) and the client processes   *)
(* that use it (demo5/src/client.cpp).                                     *)
(*                                                                         *)
(* A service handler does one thing to shared state, a pool method under   *)
(* mutex_, so it is one action; the call before it and the reply after it  *)
(* are in flight while anything else happens.  A client can be interrupted *)
(* by its signal handler or killed at every point.  The server can be      *)
(* killed, and a signal makes it refuse calls some time before it empties  *)
(* the pool, or for ever if its handler and a call wait for each other.    *)
(* Names are not reused while anybody refers to them: they are UUIDs.      *)
(***************************************************************************)
EXTENDS PinnedMemoryPool

CONSTANTS
  Clients,       \* slots for client processes; each runs many, one by one
  RequestSizes   \* what they ask for, in segments: parseSize() refuses 0 MB

ASSUME SystemAssumption == RequestSizes \subseteq Nat \ {0}

VARIABLES
  pc,        \* where main() of the client is
  mapped,    \* the object mapped_memory_ maps
  granted,   \* the name the last MemoryReply brought; shm_name_ while it lasts
  call,      \* the RPC in flight of main() and the one of the signal handler
  draining,  \* a signal has made a thread call Shutdown(); cleanup() is to come
  abandoned  \* history: live segments whose client left without freeMemory()

serverVars == <<poolVars, draining>>
clientVars == <<pc, mapped, granted>>
systemVars == <<serverVars, clientVars, call, abandoned>>

Callers == {"main", "handler"}

NoCall == [kind |-> "none", size |-> 0, shm_name |-> NoObject, status |-> "none"]

\* MemoryRequest and MemoryReply, FreeRequest and FreeReply, with the Status.
AllocateCall(n, s, st) ==
  [kind |-> "AllocateMemory", size |-> n, shm_name |-> s, status |-> st]
FreeCall(s, st) ==
  [kind |-> "FreeSharedMemory", size |-> 0, shm_name |-> s, status |-> st]

\* A call is "sent" until one of gRPC's threads takes it, then "running", then has
\* its Status; it is "stopped" if before that it and a signalHandler() wait for
\* each other.
InService == {"running", "stopped"}
OnThread == {"running", "OK", "RESOURCE_EXHAUSTED", "INVALID_ARGUMENT"}
Pending == InService \cup {"sent"}

Waiting == {"requesting", "freeing"}
Running == {"requesting", "granted", "using", "freeing"}

SystemInit ==
  /\ PoolInit
  /\ pc = [c \in Clients |-> "gone"]
  /\ mapped = [c \in Clients |-> NoObject]
  /\ granted = [c \in Clients |-> NoObject]
  /\ call = [c \in Clients |-> [t \in Callers |-> NoCall]]
  /\ draining = FALSE
  /\ abandoned = {}

\* The names in S are left to the server by clients that will not free them.
Abandon(S) == abandoned' = (abandoned \cup S) \cap {m.shm_name : m \in Range(segments')}

\* Nothing but the pool knows s.
UnusedByClients(s) ==
  \A c \in Clients :
    s \notin {granted[c], mapped[c], call[c]["main"].shm_name, call[c]["handler"].shm_name}

Answer(c, t, a) == call' = [call EXCEPT ![c][t] = a]

\* The channel's answer to a call that gets none: UNAVAILABLE.
Unanswered(r) ==
  [r EXCEPT !.status = "UNAVAILABLE",
            !.shm_name = IF r.kind = "FreeSharedMemory" THEN @ ELSE NoObject]

\* The process ends with all the calls it is in.
CallsLost ==
  call' = [c \in Clients |-> [t \in Callers |->
             IF call[c][t].status \in InService THEN Unanswered(call[c][t])
             ELSE call[c][t]]]

-----------------------------------------------------------------------------
\* The server takes a call: none after Shutdown() has begun.
CallArrives(c, t) ==
  /\ phase = "ready" /\ ~draining
  /\ call[c][t].status = "sent"
  /\ Answer(c, t, [call[c][t] EXCEPT !.status = "running"])
  /\ UNCHANGED <<serverVars, clientVars, abandoned>>

\* The service handles r, a call of kind k.
Served(r, k) == r.kind = k /\ r.status = "running"

\* AllocatorServiceImpl::AllocateMemory: the pool grants a segment and the reply
\* carries its name.  A client that has gone will never read it.
ServeAllocateGrants(c) ==
  LET r == call[c]["main"] IN
  /\ Served(r, "AllocateMemory")
  /\ \E m \in NewSegments(r.size) :
       /\ UnusedByClients(m.shm_name)
       /\ AllocateSucceeds(r.size, m)
       /\ Answer(c, "main", AllocateCall(r.size, m.shm_name, "OK"))
       /\ Abandon(IF pc[c] \in Running THEN {} ELSE {m.shm_name})
  /\ UNCHANGED <<clientVars, draining>>

\* AllocateMemory: RESOURCE_EXHAUSTED, for want of buffers or of the OS.
ServeAllocateRefuses(c) ==
  LET r == call[c]["main"] IN
  /\ Served(r, "AllocateMemory")
  /\ AllocateFails(r.size) \/ AllocateRefused(r.size)
  /\ Answer(c, "main", AllocateCall(r.size, NoObject, "RESOURCE_EXHAUSTED"))
  /\ Abandon({})
  /\ UNCHANGED <<clientVars, draining>>

\* AllocateMemory ends the server with SIGSEGV.
ServeAllocateFaults(c) ==
  LET r == call[c]["main"] IN
  /\ Served(r, "AllocateMemory")
  /\ \E m \in NewSegments(r.size) :
       UnusedByClients(m.shm_name) /\ AllocateFaults(r.size, m)
  /\ CallsLost
  /\ draining' = FALSE
  /\ Abandon({})
  /\ UNCHANGED clientVars

\* AllocatorServiceImpl::FreeSharedMemory: OK or INVALID_ARGUMENT.
ServeFree(c, t) ==
  LET r == call[c][t] IN
  /\ Served(r, "FreeSharedMemory")
  /\ \/ /\ DeallocateSucceeds(r.shm_name)
        /\ Answer(c, t, FreeCall(r.shm_name, "OK"))
     \/ /\ DeallocateRefused(r.shm_name)
        /\ Answer(c, t, FreeCall(r.shm_name, "INVALID_ARGUMENT"))
  /\ Abandon({})
  /\ UNCHANGED <<clientVars, draining>>

\* A handler gets mutex_ when main() has emptied the pool to destroy it: nothing is
\* free, and nothing found, or the process dies of it (below).
ServeFromEmptied(c, t) ==
  LET r == call[c][t] IN
  /\ phase = "cleaned" /\ Served(r, r.kind)
  /\ Answer(c, t, IF r.kind = "AllocateMemory"
                  THEN AllocateCall(r.size, NoObject, "RESOURCE_EXHAUSTED")
                  ELSE FreeCall(r.shm_name, "INVALID_ARGUMENT"))
  /\ UNCHANGED <<serverVars, clientVars, abandoned>>

\* Mutant: a channel that notices a shutdown but not a crash.
UnavailableAfterShutdown(c, t) ==
  LET r == call[c][t] IN
  /\ \/ r.status = "sent" /\ phase \in {"new", "cleaned"}
     \/ r.status \in {"OK", "running"} /\ phase = "cleaned"
  /\ Answer(c, t, Unanswered(r))
  /\ UNCHANGED <<serverVars, clientVars, abandoned>>

\* UNAVAILABLE: no server takes the call, or it goes before its answer is sent.
Unavailable(c, t) ==
  LET r == call[c][t] IN
  /\ \/ r.status = "sent" /\ (phase # "ready" \/ draining)
     \/ r.status = "OK" /\ phase # "ready"
     \/ r.status = "running" /\ phase = "cleaned"
  /\ Answer(c, t, Unanswered(r))
  /\ UNCHANGED <<serverVars, clientVars, abandoned>>

\* A call whose client has gone may be cancelled before a handler runs.
Cancelled(c, t) ==
  /\ pc[c] \notin Running
  /\ call[c][t].status = "sent"
  /\ Answer(c, t, NoCall)
  /\ UNCHANGED <<serverVars, clientVars, abandoned>>

-----------------------------------------------------------------------------
\* initialize() of pool and service.  If it fails, no call ever arrives.
ServerStarts ==
  /\ InitializeSucceeds \/ InitializeFails
  /\ Abandon({})
  /\ UNCHANGED <<clientVars, call, draining>>

\* A signal hits main(), or a thread of gRPC's that is in no call: signalHandler()
\* calls Shutdown(), which refuses new calls and waits for the running ones.
ShutdownBegins ==
  /\ phase = "ready" /\ ~draining
  /\ draining' = TRUE
  /\ UNCHANGED <<poolVars, clientVars, call, abandoned>>

\* A signal hits the thread of a call, before, inside or after the pool method: its
\* Shutdown() waits for that call, and the call for signalHandler() to return.  Or it
\* hits main() in the cleanup() of ~PinnedMemoryPool, and the call waits for mutex_.
ShutdownInCall(c, t) ==
  LET r == call[c][t] IN
  /\ phase \in {"ready", "cleaned"}
  /\ r.status \in OnThread
  /\ Answer(c, t, [r EXCEPT !.status = "stopped"])
  /\ draining' = (phase = "ready")
  /\ UNCHANGED <<poolVars, clientVars, abandoned>>

\* cleanup(), when Shutdown() has waited for the running calls; or while they run, from
\* the destructor of g_server, if main() is not the thread that waits in Shutdown().
ServerCleansUp ==
  /\ draining
  /\ Cleanup
  /\ draining' = FALSE
  /\ Abandon({})
  /\ UNCHANGED <<clientVars, call>>

\* The process has ended, and the operator starts another.
ServerRestarts ==
  /\ Restart
  /\ draining' = FALSE
  /\ CallsLost
  /\ Abandon({})
  /\ UNCHANGED clientVars

\* SIGKILL, or the machine's memory is gone: nothing is unlinked.
ServerKilled ==
  /\ phase = "ready"
  /\ phase' = "crashed"
  /\ ProcessGone
  /\ CallsLost
  /\ UNCHANGED shm
  /\ draining' = FALSE
  /\ Abandon({})
  /\ UNCHANGED clientVars

-----------------------------------------------------------------------------
\* A client process starts and sends its AllocateMemory request.  Its slot is
\* free once the calls of the previous one are done with.
Launch(c, n) ==
  /\ pc[c] \in {"gone", "done"}
  /\ \A t \in Callers : call[c][t].status \notin Pending
  /\ pc' = [pc EXCEPT ![c] = "requesting"]
  /\ granted' = [granted EXCEPT ![c] = NoObject]
  /\ call' = [call EXCEPT ![c] = [t \in Callers |->
                IF t = "main" THEN AllocateCall(n, NoObject, "sent") ELSE NoCall]]
  /\ UNCHANGED <<serverVars, mapped, abandoned>>

\* requestMemoryFromServer() returns true.
ReceiveGrant(c) ==
  /\ pc[c] = "requesting"
  /\ call[c]["main"].status = "OK"
  /\ pc' = [pc EXCEPT ![c] = "granted"]
  /\ granted' = [granted EXCEPT ![c] = call[c]["main"].shm_name]
  /\ Answer(c, "main", NoCall)
  /\ UNCHANGED <<serverVars, mapped, abandoned>>

\* The process of c ends in state p; what it had mapped goes with it.
Exit(c, p) ==
  /\ pc' = [pc EXCEPT ![c] = p]
  /\ mapped' = [mapped EXCEPT ![c] = NoObject]

\* Mutant: total_size is not in the reply, and a reply without it is refused.
ReceiveRefusalOfGrant(c) ==
  /\ pc[c] = "requesting"
  /\ call[c]["main"].status \in {"OK", "RESOURCE_EXHAUSTED", "UNAVAILABLE"}
  /\ Exit(c, "gone")
  /\ Answer(c, "main", NoCall)
  /\ UNCHANGED <<serverVars, granted, abandoned>>

\* requestMemoryFromServer() returns false and main() returns 1.
ReceiveRefusal(c) ==
  /\ pc[c] = "requesting"
  /\ call[c]["main"].status \in {"RESOURCE_EXHAUSTED", "UNAVAILABLE"}
  /\ Exit(c, "gone")
  /\ Answer(c, "main", NoCall)
  /\ UNCHANGED <<serverVars, granted, abandoned>>

\* mapSharedMemory() succeeds and is_allocated_ becomes true.
MapSharedMemory(c) ==
  /\ pc[c] = "granted"
  /\ granted[c] \in shm
  /\ pc' = [pc EXCEPT ![c] = "using"]
  /\ mapped' = [mapped EXCEPT ![c] = granted[c]]
  /\ UNCHANGED <<serverVars, granted, call, abandoned>>

\* mapSharedMemory() fails in shm_open, or in mmap and unlinks the name; main()
\* returns 1 and nobody tells the server.
MapSharedMemoryFails(c) ==
  /\ pc[c] = "granted"
  /\ \/ granted[c] \notin shm /\ shm' = shm
     \/ granted[c] \in shm /\ shm' = shm \ {granted[c]}
  /\ Exit(c, "gone")
  /\ UNCHANGED <<phase, processVars, fd, mem, pinned, draining, granted, call>>
  /\ Abandon({granted[c]})

\* Mutant: cleanup() before freeMemoryOnServer(), which then sends no name.
FreeMemoryCleansFirst(c) ==
  /\ pc[c] = "using"
  /\ pc' = [pc EXCEPT ![c] = "freeing"]
  /\ Answer(c, "main", FreeCall(NoObject, "sent"))
  /\ UNCHANGED <<serverVars, mapped, granted, abandoned>>

\* Enter is pressed or a CUDA call fails: freeMemory() calls the server.
FreeMemory(c) ==
  /\ pc[c] = "using"
  /\ pc' = [pc EXCEPT ![c] = "freeing"]
  /\ Answer(c, "main", FreeCall(granted[c], "sent"))
  /\ UNCHANGED <<serverVars, mapped, granted, abandoned>>

\* freeMemory() has its answer, whatever it says, and cleans up; main() returns,
\* or the handler calls exit(0).  A refused segment stays with the server.
FreeMemoryReturns(c, t) ==
  /\ pc[c] \in Running
  /\ call[c][t].kind = "FreeSharedMemory"
  /\ call[c][t].status \in {"OK", "INVALID_ARGUMENT", "UNAVAILABLE"}
  /\ Exit(c, "done")
  /\ Answer(c, t, NoCall)
  /\ UNCHANGED <<serverVars, granted>>
  /\ Abandon(IF call[c][t].status = "UNAVAILABLE" THEN {granted[c]} ELSE {})

\* signalHandler() while isAllocated(): a second freeMemory(), concurrent with
\* the one main() may be in.
SignalFrees(c) ==
  /\ pc[c] \in {"using", "freeing"}
  /\ call[c]["handler"] = NoCall
  /\ Answer(c, "handler", FreeCall(granted[c], "sent"))
  /\ UNCHANGED <<serverVars, clientVars, abandoned>>

\* What a client that ends here leaves with the server.
Leaves(c) ==
  CASE pc[c] = "requesting" -> {call[c]["main"].shm_name}
    [] pc[c] \in {"granted", "using", "freeing"} -> {granted[c]}
    [] OTHER -> {}

\* signalHandler() before is_allocated_ is set: exit(0) and nothing else.
SignalExits(c) ==
  /\ pc[c] \in {"requesting", "granted"}
  /\ Exit(c, "gone")
  /\ UNCHANGED <<serverVars, granted, call>>
  /\ Abandon(Leaves(c))

\* SIGKILL, SIGSEGV, SIGBUS: the client has no handler for these.
Killed(c) ==
  /\ pc[c] \in Running
  /\ Exit(c, "gone")
  /\ UNCHANGED <<serverVars, granted, call>>
  /\ Abandon(Leaves(c))

-----------------------------------------------------------------------------
\* A call of c is answered; a client acts on what it has been answered.
Answered(c) ==
  \/ ServeAllocateGrants(c)
  \/ ServeAllocateRefuses(c)
  \/ ServeAllocateFaults(c)
  \/ \E t \in Callers : \/ CallArrives(c, t)
                       \/ ServeFree(c, t)
                       \/ ServeFromEmptied(c, t)
                       \/ Unavailable(c, t)

Received(c) ==
  \/ ReceiveGrant(c)
  \/ ReceiveRefusal(c)
  \/ \E t \in Callers : FreeMemoryReturns(c, t)

Mapping(c) == MapSharedMemory(c) \/ MapSharedMemoryFails(c)

Interrupted(c) ==
  \/ SignalFrees(c)
  \/ SignalExits(c)
  \/ Killed(c)
  \/ \E t \in Callers : Cancelled(c, t)

ServerLife ==
  \/ ServerStarts
  \/ ShutdownBegins
  \/ \E c \in Clients, t \in Callers : ShutdownInCall(c, t)
  \/ ServerCleansUp
  \/ ServerRestarts
  \/ ServerKilled

SystemNext ==
  \/ ServerLife
  \/ \E c \in Clients :
       \/ \E n \in RequestSizes : Launch(c, n)
       \/ Answered(c)
       \/ Received(c)
       \/ Mapping(c)
       \/ FreeMemory(c)
       \/ Interrupted(c)

SystemSpec == SystemInit /\ [][SystemNext]_systemVars

\* A call and a signalHandler() wait for each other.
CallStopped == \E c \in Clients, t \in Callers : call[c][t].status = "stopped"

\* gRPC's threads take every call that has arrived and go on with it, or its channel
\* reports that there is no server, and a client whose call is answered goes on.  A
\* call that is stopped may hold mutex_, or wait for it with others: nothing is
\* assumed of any call then, nor ever of users, signals, kills or restarts.
Fairness ==
  \A c \in Clients :
    /\ WF_systemVars(Answered(c) /\ ~CallStopped)
    /\ WF_systemVars(Received(c))
    /\ WF_systemVars(Mapping(c))

FairSystemSpec == SystemSpec /\ Fairness

-----------------------------------------------------------------------------
\* The variables have their types.
SystemTypeOK ==
  /\ PoolTypeOK
  /\ pc \in [Clients -> Running \cup {"gone", "done"}]
  /\ mapped \in [Clients -> Names \cup {NoObject}]
  /\ granted \in [Clients -> Names \cup {NoObject}]
  /\ \A c \in Clients : \A t \in Callers :
       /\ call[c][t].kind \in {"none", "AllocateMemory", "FreeSharedMemory"}
       /\ call[c][t].shm_name \in Names \cup {NoObject}
  /\ draining \in BOOLEAN
  /\ abandoned \in SUBSET Names

\* A client through freeMemory() has given its segment back: although it ignores
\* the answer, and main() and the signal handler may both have asked, the server
\* has the segment no more, unless it is shutting down and has refused to hear.
FreedIsGone ==
  \A c \in Clients : pc[c] = "done" /\ granted[c] \in LiveNames =>
    draining /\ granted[c] \in abandoned

\* Every segment the server holds is on its way to a client, held by one, or one
\* whose client was killed, interrupted too early, could not map it, or asked in
\* vain during a shutdown: other refusals, double frees and restarts never lose one.
SegmentsAccountedFor ==
  LiveNames \subseteq
    abandoned
      \cup {call[c]["main"].shm_name : c \in {d \in Clients : pc[d] = "requesting"}}
      \cup {granted[c] : c \in {d \in Clients : pc[d] \in {"granted", "using", "freeing"}}}

\* A client's segment leaves segments_ only by a request of its own, or with the
\* server: nobody else's free, late or repeated, takes it away.
OnlyOwnFrees ==
  [][\A c \in Clients :
       /\ pc[c] = "using" /\ call[c]["handler"] = NoCall
       /\ granted[c] \in LiveNames
       => granted[c] \in LiveNames' \/ phase' # "ready"]_systemVars

\* Nobody waits for ever: each client that has sent a request leaves the call, also
\* when the server dies under it, refuses it while it drains, or never comes back,
\* as long as no signal makes a call and a signalHandler() wait for each other.
CallsReturn ==
  \A c \in Clients : \A p \in Waiting : pc[c] = p ~> pc[c] # p \/ CallStopped

=============================================================================
