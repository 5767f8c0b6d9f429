--------------------------- MODULE ServerLifecycle ---------------------------
(***************************************************************************)
(* The life of demo5's server process (demo5/src/server.cpp): main, gRPC's *)
(* threads inside pool methods, and signalHandler, which runs on top of    *)
(* whatever the thread it interrupts was doing and calls Shutdown() and    *)
(* cleanup() from there.                                                   *)
(*                                                                         *)
(* Of the pool only what a cleanup() at a bad moment can spoil is kept:    *)
(* mutex_, pool_, free_list_ as initialize() leaves it, and the buffers    *)
(* that are allocated.  A signal may hit any thread, and a handler only    *)
(* the other signal: signal() blocks its own.                              *)
(***************************************************************************)
EXTENDS Naturals, Sequences

CONSTANTS
  Workers,     \* gRPC's threads
  Buffers,     \* the NUM_SEGMENTS buffers
  Signals,     \* SIGINT and SIGTERM
  MaxSignals,  \* bound on the signals that are delivered
  None         \* no thread, no buffer

ASSUME LifecycleAssumption ==
  /\ "main" \notin Workers
  /\ None \notin Buffers \cup Workers \cup {"main"}
  /\ MaxSignals \in Nat

Threads == Workers \cup {"main"}

VARIABLES
  mainAt,     \* where main() is
  work,       \* where each of gRPC's threads is
  frames,     \* each thread's signal handlers, the running one last
  mutex,      \* the thread that holds mutex_
  running,    \* running_
  server,     \* server_: "none", "serving", "shut"
  pool,       \* pool_
  free_list,  \* free_list_, what calls take from it left aside
  allocated,  \* buffers from aligned_alloc that have not been given to free
  buffer,     \* the buffer initialize() has in hand
  made,       \* the buffers initialize() has been through
  delivered   \* history: the thread each signal hit and where main() was

memoryVars == <<pool, free_list, allocated>>
initializeVars == <<buffer, made>>
lifecycleVars ==
  <<mainAt, work, frames, mutex, running, server, memoryVars, initializeVars, delivered>>

Frame == [signal : Signals, at : {"shutdown", "waiting", "cleanup", "cleaning"}]

LifecycleInit ==
  /\ mainAt = "start"
  /\ work = [w \in Workers |-> "idle"]
  /\ frames = [t \in Threads |-> <<>>]
  /\ mutex = None /\ running = FALSE /\ server = "none"
  /\ pool = {} /\ free_list = {} /\ allocated = {}
  /\ buffer = None /\ made = {}
  /\ delivered = <<>>

\* t is not interrupted and the process has not ended.
Proceeds(t) == frames[t] = <<>> /\ mainAt # "exited"

-----------------------------------------------------------------------------
\* main(): g_server is set and initialize() begins.
CreateServer ==
  /\ mainAt = "start" /\ Proceeds("main")
  /\ mainAt' = "initialize"
  /\ UNCHANGED <<work, frames, mutex, running, server, memoryVars, initializeVars, delivered>>

\* PinnedMemoryPool::initialize, without mutex_: aligned_alloc, cudaHostRegister
AllocateBuffer(b) ==
  /\ mainAt = "initialize" /\ Proceeds("main")
  /\ b \notin made
  /\ mainAt' = "insert_pool"
  /\ allocated' = allocated \cup {b}
  /\ made' = made \cup {b}
  /\ buffer' = b
  /\ UNCHANGED <<work, frames, mutex, running, server, pool, free_list, delivered>>

\* and the insertions, into sets that a cleanup() may have emptied meanwhile.
InsertIntoPool ==
  /\ mainAt = "insert_pool" /\ Proceeds("main")
  /\ mainAt' = "insert_free"
  /\ pool' = pool \cup {buffer}
  /\ UNCHANGED <<work, frames, mutex, running, server, free_list, allocated, initializeVars,
                 delivered>>

InsertIntoFreeList ==
  /\ mainAt = "insert_free" /\ Proceeds("main")
  /\ mainAt' = "initialize"
  /\ free_list' = free_list \cup {buffer}
  /\ buffer' = None
  /\ UNCHANGED <<work, frames, mutex, running, server, pool, allocated, made, delivered>>

\* aligned_alloc or BuildAndStart() fails: main() returns 1.
InitializeFails ==
  /\ mainAt = "initialize" /\ Proceeds("main")
  /\ mainAt' = "exit"
  /\ UNCHANGED <<work, frames, mutex, running, server, memoryVars, initializeVars, delivered>>

\* BuildAndStart() returns the server, which takes calls from now on.
BuildAndStart ==
  /\ mainAt = "initialize" /\ Proceeds("main")
  /\ made = Buffers
  /\ mainAt' = "listening"
  /\ server' = "serving"
  /\ UNCHANGED <<work, frames, mutex, running, memoryVars, initializeVars, delivered>>

\* running_ = true, whatever a signal has made of it.
SetRunning ==
  /\ mainAt = "listening" /\ Proceeds("main")
  /\ mainAt' = "run"
  /\ running' = TRUE
  /\ UNCHANGED <<work, frames, mutex, server, memoryVars, initializeVars, delivered>>

\* run() sees running_ false between two sleeps; main() returns 0.
LeaveRun ==
  /\ mainAt = "run" /\ Proceeds("main")
  /\ ~running
  /\ mainAt' = "exit"
  /\ UNCHANGED <<work, frames, mutex, running, server, memoryVars, initializeVars, delivered>>

\* Mutant: cleanup() without pool_.clear().
ReleaseBuffersOnly ==
  /\ allocated' = allocated \ pool
  /\ free_list' = {}
  /\ pool' = pool

\* cleanup(): every buffer of pool_ goes to free, and the sets are cleared.
ReleaseBuffers ==
  /\ allocated' = allocated \ pool
  /\ free_list' = {}
  /\ pool' = {}

\* cudaHostRegister fails and initialize() calls cleanup(); main() returns 1.
RegistrationFails(b) ==
  /\ mainAt = "initialize" /\ Proceeds("main")
  /\ b \notin made
  /\ mutex = None
  /\ mainAt' = "failing"
  /\ mutex' = "main"
  /\ allocated' = allocated \cup {b}
  /\ made' = made \cup {b}
  /\ UNCHANGED <<work, frames, running, server, pool, free_list, buffer, delivered>>

FailedInitializeCleansUp ==
  /\ mainAt = "failing" /\ Proceeds("main")
  /\ mainAt' = "exit"
  /\ mutex' = None
  /\ ReleaseBuffers
  /\ UNCHANGED <<work, frames, running, server, initializeVars, delivered>>

\* The destructor of g_server destroys service_; ~PinnedMemoryPool calls cleanup()
DestroyServer ==
  /\ mainAt = "exit" /\ Proceeds("main")
  /\ mutex = None
  /\ mainAt' = "destroy"
  /\ mutex' = "main"
  /\ UNCHANGED <<work, frames, running, server, memoryVars, initializeVars, delivered>>

\* and the pool is gone, while the process lives on.  What a call does with it from
\* here on is undefined; kept is that it goes through mutex_ and finds nothing.
DestroyPool ==
  /\ mainAt = "destroy" /\ Proceeds("main")
  /\ mainAt' = "destroyed"
  /\ mutex' = None
  /\ ReleaseBuffers
  /\ UNCHANGED <<work, frames, running, server, initializeVars, delivered>>

\* ~Server, the last member: if nobody has, it calls Shutdown()
DestroyGrpcServer ==
  /\ mainAt = "destroyed" /\ Proceeds("main")
  /\ mainAt' = "closing"
  /\ server' = IF server = "none" THEN "none" ELSE "shut"
  /\ UNCHANGED <<work, frames, mutex, running, memoryVars, initializeVars, delivered>>

\* and returns when no call is running.
ExitProcess ==
  /\ mainAt = "closing" /\ Proceeds("main")
  /\ \A w \in Workers : work[w] = "idle"
  /\ mainAt' = "exited"
  /\ UNCHANGED <<work, frames, mutex, running, server, memoryVars, initializeVars, delivered>>

-----------------------------------------------------------------------------
\* A call arrives and gRPC's thread w enters the service.
CallArrives(w) ==
  /\ server = "serving" /\ Proceeds(w)
  /\ work[w] = "idle"
  /\ work' = [work EXCEPT ![w] = "calling"]
  /\ UNCHANGED <<mainAt, frames, mutex, running, server, memoryVars, initializeVars, delivered>>

\* Allocate or Deallocate gets mutex_ ...
EnterPool(w) ==
  /\ work[w] = "calling" /\ Proceeds(w)
  /\ mutex = None
  /\ mutex' = w
  /\ work' = [work EXCEPT ![w] = "inside"]
  /\ UNCHANGED <<mainAt, frames, running, server, memoryVars, initializeVars, delivered>>

\* Mutant: a return that does not unlock.
LeavePoolLocked(w) ==
  /\ work[w] = "inside" /\ Proceeds(w)
  /\ work' = [work EXCEPT ![w] = "idle"]
  /\ UNCHANGED <<mainAt, frames, mutex, running, server, memoryVars, initializeVars, delivered>>

\* ... and gives it back; the call is answered.
LeavePool(w) ==
  /\ work[w] = "inside" /\ Proceeds(w)
  /\ mutex' = None
  /\ work' = [work EXCEPT ![w] = "idle"]
  /\ UNCHANGED <<mainAt, frames, running, server, memoryVars, initializeVars, delivered>>

-----------------------------------------------------------------------------
\* Signal s can be delivered to thread t: gRPC's threads exist once the server
\* does, and s is blocked on t while t handles it.
CanDeliver(s, t) ==
  /\ Len(delivered) < MaxSignals
  /\ mainAt # "exited"
  /\ t # "main" => server # "none"
  /\ \A i \in DOMAIN frames[t] : frames[t][i].signal # s
  /\ delivered' = Append(delivered, [to |-> t, main |-> mainAt])

\* signalHandler() before g_server is set does nothing.
SignalIgnored(s, t) ==
  /\ mainAt = "start"
  /\ CanDeliver(s, t)
  /\ UNCHANGED <<mainAt, work, frames, mutex, running, server, memoryVars, initializeVars>>

\* Mutant: a shutdown() without running_ = false.
DeliverKeepsRunning(s, t) ==
  /\ mainAt # "start"
  /\ CanDeliver(s, t)
  /\ frames' = [frames EXCEPT ![t] = Append(@,
       [signal |-> s, at |-> IF server = "none" THEN "cleanup" ELSE "shutdown"])]
  /\ UNCHANGED <<mainAt, work, mutex, running, server, memoryVars, initializeVars>>

\* signalHandler() begins: AllocatorServer::shutdown() clears running_.
Deliver(s, t) ==
  /\ mainAt # "start"
  /\ CanDeliver(s, t)
  /\ running' = FALSE
  /\ frames' = [frames EXCEPT ![t] = Append(@,
       [signal |-> s, at |-> IF server = "none" THEN "cleanup" ELSE "shutdown"])]
  /\ UNCHANGED <<mainAt, work, mutex, server, memoryVars, initializeVars>>

\* The running handler of t is at p; it goes on to q.
HandlerAt(t, p) ==
  /\ mainAt # "exited"
  /\ frames[t] # <<>>
  /\ frames[t][Len(frames[t])].at = p

HandlerTo(t, q) == frames' = [frames EXCEPT ![t][Len(frames[t])].at = q]

\* server_->Shutdown() refuses new calls from now on ...
BeginShutdown(t) ==
  /\ HandlerAt(t, "shutdown") /\ HandlerTo(t, "waiting")
  /\ server' = "shut"
  /\ UNCHANGED <<mainAt, work, mutex, running, memoryVars, initializeVars, delivered>>

\* Mutant: a Shutdown() that does not wait for the calls it finds.
ShutdownReturnsAtOnce(t) ==
  /\ HandlerAt(t, "waiting") /\ HandlerTo(t, "cleanup")
  /\ UNCHANGED <<mainAt, work, mutex, running, server, memoryVars, initializeVars, delivered>>

\* ... and returns when none is running, be it on this very thread.
ShutdownReturns(t) ==
  /\ HandlerAt(t, "waiting") /\ HandlerTo(t, "cleanup")
  /\ \A w \in Workers : work[w] = "idle"
  /\ UNCHANGED <<mainAt, work, mutex, running, server, memoryVars, initializeVars, delivered>>

\* cleanup() waits for mutex_, also when the interrupted thread itself has it.
EnterCleanup(t) ==
  /\ HandlerAt(t, "cleanup") /\ HandlerTo(t, "cleaning")
  /\ mutex = None
  /\ mutex' = t
  /\ UNCHANGED <<mainAt, work, running, server, memoryVars, initializeVars, delivered>>

\* cleanup() is done and the handler returns to what it interrupted.
HandlerReturns(t) ==
  /\ HandlerAt(t, "cleaning")
  /\ frames' = [frames EXCEPT ![t] = SubSeq(@, 1, Len(@) - 1)]
  /\ mutex' = None
  /\ ReleaseBuffers
  /\ UNCHANGED <<mainAt, work, running, server, initializeVars, delivered>>

-----------------------------------------------------------------------------
MainStep ==
  \/ CreateServer
  \/ \E b \in Buffers : AllocateBuffer(b)
  \/ InsertIntoPool
  \/ InsertIntoFreeList
  \/ InitializeFails
  \/ \E b \in Buffers : RegistrationFails(b)
  \/ FailedInitializeCleansUp
  \/ BuildAndStart
  \/ SetRunning
  \/ LeaveRun
  \/ DestroyServer
  \/ DestroyPool
  \/ DestroyGrpcServer
  \/ ExitProcess

WorkerStep(w) == EnterPool(w) \/ LeavePool(w)

HandlerStep(t) ==
  \/ BeginShutdown(t)
  \/ ShutdownReturns(t)
  \/ EnterCleanup(t)
  \/ HandlerReturns(t)

LifecycleNext ==
  \/ MainStep
  \/ \E w \in Workers : CallArrives(w) \/ WorkerStep(w)
  \/ \E t \in Threads : HandlerStep(t)
  \/ \E s \in Signals, t \in Threads : SignalIgnored(s, t) \/ Deliver(s, t)

\* Threads run; nothing is assumed of calls and signals.
LifecycleFairness ==
  /\ WF_lifecycleVars(MainStep)
  /\ \A w \in Workers : WF_lifecycleVars(WorkerStep(w))
  /\ \A t \in Threads : WF_lifecycleVars(HandlerStep(t))

LifecycleSpec == LifecycleInit /\ [][LifecycleNext]_lifecycleVars /\ LifecycleFairness

-----------------------------------------------------------------------------
\* The thread that is in a critical section of mutex_: inside a pool method, in
\* its handler's cleanup(), or in that of initialize() or of the destructor.
InCritical(t) ==
  \/ t \in Workers /\ work[t] = "inside"
  \/ t = "main" /\ mainAt \in {"failing", "destroy"}
  \/ \E i \in DOMAIN frames[t] : frames[t][i].at = "cleaning"

\* The variables have their types, and mutex_ is held by the thread that is in a
\* critical section, by nobody if none is.
LifecycleTypeOK ==
  /\ mainAt \in {"start", "initialize", "insert_pool", "insert_free", "failing", "listening",
                 "run", "exit", "destroy", "destroyed", "closing", "exited"}
  /\ work \in [Workers -> {"idle", "calling", "inside"}]
  /\ frames \in [Threads -> Seq(Frame)]
  /\ mutex \in Threads \cup {None}
  /\ running \in BOOLEAN
  /\ server \in {"none", "serving", "shut"}
  /\ pool \in SUBSET Buffers /\ free_list \in SUBSET Buffers /\ allocated \in SUBSET Buffers
  /\ buffer \in Buffers \cup {None} /\ made \in SUBSET Buffers
  /\ \A t \in Threads : InCritical(t) <=> mutex = t

\* cleanup() runs from handlers, nested handlers and the destructor of g_server,
\* and in between an interrupted initialize() goes on filling pool_: still pool_
\* holds only buffers that are allocated, so none is unregistered or freed twice.
NeverFreedTwice == pool \subseteq allocated

\* No signal was handled before there was a server to shut down.
NoneEarly ==
  \A i \in DOMAIN delivered :
    delivered[i].main \notin {"initialize", "insert_pool", "insert_free"}

\* All signals hit the main thread.
AllOnMain == \A i \in DOMAIN delivered : delivered[i].to = "main"

\* A call that runs inside the pool finds all its buffers, and no freed one in
\* free_list_: cleanup() waits for calls, and new ones are refused.  Two cases are
\* left out, and they are all: a signal came during initialize(), or one hit a thread
\* of gRPC's, which is then in Shutdown() while main() leaves run() and destroys the
\* pool under the calls that Shutdown() waits for.
CallsFindBuffers ==
  NoneEarly => \A w \in Workers :
    work[w] = "inside" =>
      \/ pool = Buffers /\ free_list \subseteq allocated
      \/ ~AllOnMain /\ mainAt \in {"destroyed", "closing"}

\* service_ and the pool are destroyed when no call is in them, if main() is the
\* thread that handles the signals.
ServiceOutlivesCalls ==
  AllOnMain /\ mainAt \in {"exit", "destroy", "destroyed", "closing", "exited"} =>
    \A w \in Workers : work[w] = "idle"

\* One signal that hits main() in run() ends the process, with every buffer
\* released, whatever calls were running.
ShutdownCompletes ==
  delivered = <<[to |-> "main", main |-> "run"]>>
    ~> \/ mainAt = "exited" /\ allocated = {}
       \/ Len(delivered) > 1

\* signalHandler(): "Received signal ..., shutting down...".
SignalEndsServer ==
  (\E i \in DOMAIN delivered : delivered[i].main # "start") ~> mainAt = "exited"
=============================================================================
