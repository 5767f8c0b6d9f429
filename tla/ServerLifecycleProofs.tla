------------------------ MODULE ServerLifecycleProofs ------------------------
(***************************************************************************)
(* What holds of demo5's server for any number of threads, buffers and     *)
(* signals, wherever the signals hit it.                                   *)
(***************************************************************************)
EXTENDS ServerLifecycle, TLAPS

\* What NeverFreedTwice rests on: pool_ holds only buffers that initialize() has
\* been through, and the one in hand is allocated and not yet in pool_, so a
\* cleanup() that interrupts initialize() cannot free it.
BufferInv ==
  /\ NeverFreedTwice
  /\ pool \subseteq made
  /\ mainAt = "insert_pool" => buffer \in made /\ buffer \in allocated \ pool

\* A cleanup() that leaves main() where it is keeps the invariant.
LEMMA ReleaseKeeps ==
  ASSUME BufferInv, ReleaseBuffers, UNCHANGED initializeVars,
         mainAt' = "insert_pool" => mainAt = "insert_pool"
  PROVE  BufferInv'
<1>1. NeverFreedTwice' /\ (pool \subseteq made)'
  BY DEF ReleaseBuffers, NeverFreedTwice
<1>2. ASSUME mainAt' = "insert_pool"
      PROVE  buffer' \in made' /\ buffer' \in allocated' \ pool'
  BY <1>2 DEF BufferInv, ReleaseBuffers, initializeVars
<1> QED BY <1>1, <1>2 DEF BufferInv

\* A step that leaves the buffers alone keeps the invariant.
LEMMA OthersKeep ==
  ASSUME BufferInv, UNCHANGED memoryVars, UNCHANGED initializeVars,
         mainAt' = "insert_pool" => mainAt = "insert_pool"
  PROVE  BufferInv'
BY DEF BufferInv, NeverFreedTwice, memoryVars, initializeVars

\* The invariant holds when the process starts.
LEMMA BufferInvInit == LifecycleInit => BufferInv
BY DEF LifecycleInit, BufferInv, NeverFreedTwice

\* Every step of every thread keeps it.
LEMMA BufferInvNext == BufferInv /\ [LifecycleNext]_lifecycleVars => BufferInv'
<1> SUFFICES ASSUME BufferInv, [LifecycleNext]_lifecycleVars
             PROVE  BufferInv'
  OBVIOUS
<1>1. CASE MainStep
  <2>1. CASE CreateServer
    BY <2>1, OthersKeep DEF CreateServer
  <2>2. ASSUME NEW b \in Buffers, AllocateBuffer(b)
        PROVE  BufferInv'
    BY <2>2 DEF AllocateBuffer, BufferInv, NeverFreedTwice
  <2>3. CASE InsertIntoPool
    BY <2>3 DEF InsertIntoPool, BufferInv, NeverFreedTwice, initializeVars
  <2>4. CASE InsertIntoFreeList
    BY <2>4 DEF InsertIntoFreeList, BufferInv, NeverFreedTwice
  <2>5. CASE InitializeFails
    BY <2>5, OthersKeep DEF InitializeFails
  <2>6. ASSUME NEW b \in Buffers, RegistrationFails(b)
         PROVE  BufferInv'
    BY <2>6 DEF RegistrationFails, BufferInv, NeverFreedTwice
  <2>7. CASE FailedInitializeCleansUp
    BY <2>7, ReleaseKeeps DEF FailedInitializeCleansUp
  <2>8. CASE BuildAndStart
    BY <2>8, OthersKeep DEF BuildAndStart
  <2>9. CASE SetRunning
    BY <2>9, OthersKeep DEF SetRunning
  <2>10. CASE LeaveRun
    BY <2>10, OthersKeep DEF LeaveRun
  <2>11. CASE DestroyServer
    BY <2>11, OthersKeep DEF DestroyServer
  <2>12. CASE DestroyPool
    BY <2>12, ReleaseKeeps DEF DestroyPool
  <2>13. CASE DestroyGrpcServer \/ ExitProcess
    BY <2>13, OthersKeep DEF DestroyGrpcServer, ExitProcess
  <2> QED
    BY <1>1, <2>1, <2>2, <2>3, <2>4, <2>5, <2>6, <2>7, <2>8, <2>9, <2>10, <2>11,
       <2>12, <2>13 DEF MainStep
<1>2. ASSUME NEW w \in Workers, CallArrives(w) \/ WorkerStep(w)
      PROVE  BufferInv'
  BY <1>2, OthersKeep DEF CallArrives, WorkerStep, EnterPool, LeavePool
<1>3. ASSUME NEW t \in Threads, HandlerStep(t)
      PROVE  BufferInv'
  <2>1. CASE BeginShutdown(t) \/ ShutdownReturns(t) \/ EnterCleanup(t)
    BY <2>1, OthersKeep DEF BeginShutdown, ShutdownReturns, EnterCleanup
  <2>2. CASE HandlerReturns(t)
    BY <2>2, ReleaseKeeps DEF HandlerReturns
  <2> QED BY <1>3, <2>1, <2>2 DEF HandlerStep
<1>4. ASSUME NEW s \in Signals, NEW t \in Threads, SignalIgnored(s, t) \/ Deliver(s, t)
      PROVE  BufferInv'
  BY <1>4, OthersKeep DEF SignalIgnored, Deliver
<1>5. CASE UNCHANGED lifecycleVars
  BY <1>5, OthersKeep DEF lifecycleVars, memoryVars, initializeVars
<1> QED BY <1>1, <1>2, <1>3, <1>4, <1>5 DEF LifecycleNext

\* However often and wherever cleanup() runs, it frees and unregisters no buffer
\* of pool_ a second time.
THEOREM FreedOnce == LifecycleSpec => []NeverFreedTwice
<1>1. BufferInv => NeverFreedTwice
  BY DEF BufferInv
<1> QED BY <1>1, BufferInvInit, BufferInvNext, PTL DEF LifecycleSpec

-----------------------------------------------------------------------------
Places == {"start", "initialize", "insert_pool", "insert_free", "failing", "listening",
           "run", "exit", "destroy", "destroyed", "closing", "exited"}

Initializing == mainAt \in {"initialize", "insert_pool", "insert_free"}

\* No call is in the service and none can come.
Quiet == server # "serving" /\ \A w \in Workers : work[w] = "idle"

\* The types the proof needs.
ThreadTypes ==
  /\ mainAt \in Places
  /\ server \in {"none", "serving", "shut"}
  /\ running \in BOOLEAN
  /\ work \in [Workers -> {"idle", "calling", "inside"}]
  /\ frames \in [Threads -> Seq(Frame)]
  /\ delivered \in Seq([to : Threads, main : Places])

\* When there is a server.
ServerShape ==
  /\ mainAt \in {"start", "initialize", "insert_pool", "insert_free", "failing"} =>
       server = "none"
  /\ mainAt \in {"listening", "run"} => server # "none"
  /\ mainAt \in {"closing", "exited"} => server # "serving"
  /\ server = "none" =>
       /\ \A w \in Workers : work[w] = "idle"
       /\ \A w \in Workers : frames[w] = <<>>

\* A handler gets past Shutdown() only when no call is left, and none comes after.
HandlerShape ==
  \A t \in Threads : \A i \in DOMAIN frames[t] :
    /\ frames[t][i].at = "shutdown" => server # "none"
    /\ frames[t][i].at = "waiting" => server = "shut"
    /\ frames[t][i].at \in {"cleanup", "cleaning"} => Quiet

\* Without an early signal nothing interrupts initialize(), which fills both sets,
\* and they stay full until no call is left or main() destroys the pool.
FilledShape ==
  NoneEarly =>
    /\ free_list \subseteq pool
    /\ mainAt \in {"start"} => pool = {} /\ made = {} /\ frames["main"] = <<>>
    /\ Initializing => frames["main"] = <<>>
    /\ mainAt = "initialize" => made \subseteq pool
    /\ mainAt = "insert_pool" => made \subseteq pool \cup {buffer}
    /\ mainAt = "insert_free" => made \subseteq pool /\ buffer \in pool
    /\ ~Quiet /\ mainAt \notin {"destroyed", "closing"} => pool = Buffers

\* With all signals on main(), run() is left only by way of a handler.
OnMainShape ==
  AllOnMain =>
    /\ \A w \in Workers : frames[w] = <<>>
    /\ mainAt = "run" /\ ~running => frames["main"] # <<>> \/ Quiet
    /\ mainAt \in {"exit", "destroy", "destroyed", "closing", "exited"} => Quiet

CallInv ==
  /\ BufferInv
  /\ made \subseteq Buffers
  /\ ThreadTypes
  /\ ServerShape
  /\ HandlerShape
  /\ FilledShape
  /\ OnMainShape

-----------------------------------------------------------------------------
\* An append adds one element at the end.
LEMMA AppendLast ==
  ASSUME NEW S, NEW s \in Seq(S), NEW e \in S
  PROVE  /\ Append(s, e) \in Seq(S)
         /\ DOMAIN Append(s, e) = DOMAIN s \cup {Len(s) + 1}
         /\ \A i \in DOMAIN s : Append(s, e)[i] = s[i]
         /\ Append(s, e)[Len(s) + 1] = e
         /\ Append(s, e) # <<>>
OBVIOUS

\* A sequence that is not empty has a last element.
LEMMA LastIndex ==
  ASSUME NEW S, NEW s \in Seq(S), s # <<>>
  PROVE  Len(s) \in DOMAIN s /\ Len(s) \in Nat \ {0} /\ DOMAIN s = 1 .. Len(s)
OBVIOUS

\* Without its last element, a sequence has the elements before it.
LEMMA PopLast ==
  ASSUME NEW S, NEW s \in Seq(S), s # <<>>
  PROVE  /\ SubSeq(s, 1, Len(s) - 1) \in Seq(S)
         /\ DOMAIN SubSeq(s, 1, Len(s) - 1) \subseteq DOMAIN s
         /\ \A i \in DOMAIN SubSeq(s, 1, Len(s) - 1) : SubSeq(s, 1, Len(s) - 1)[i] = s[i]
OBVIOUS

\* The handler that goes on to q is the last one of its thread; the others stay
\* where they are.
LEMMA HandlerGoesOn ==
  ASSUME ThreadTypes, NEW t \in Threads, NEW p, HandlerAt(t, p),
         NEW q \in {"shutdown", "waiting", "cleanup", "cleaning"}, HandlerTo(t, q)
  PROVE  /\ frames' \in [Threads -> Seq(Frame)]
         /\ \A u \in Threads : frames'[u] = <<>> <=> frames[u] = <<>>
         /\ Len(frames[t]) \in DOMAIN frames[t]
         /\ frames[t][Len(frames[t])].at = p
         /\ \A u \in Threads : \A i \in DOMAIN frames'[u] :
              \/ i \in DOMAIN frames[u] /\ frames'[u][i].at = frames[u][i].at
              \/ frames'[u][i].at = q
<1> DEFINE s == frames[t]
           n == Len(s)
           f == [s[n] EXCEPT !.at = q]
           s2 == [s EXCEPT ![n] = f]
<1>1. s \in Seq(Frame) /\ s # <<>> /\ s[n].at = p
  BY DEF ThreadTypes, HandlerAt
<1>2. n \in DOMAIN s /\ n \in Nat \ {0} /\ DOMAIN s = 1 .. n
  BY <1>1, LastIndex
<1>3. s[n] \in Frame
  BY <1>1, <1>2
<1>4. f \in Frame /\ f.at = q
  BY <1>3 DEF Frame
<1>5. frames' = [frames EXCEPT ![t] = s2]
  BY DEF HandlerTo
<1>6. s2 \in Seq(Frame) /\ DOMAIN s2 = DOMAIN s /\ s2 # <<>>
  <2> HIDE DEF f, s, n
  <2> QED BY <1>1, <1>2, <1>4
<1>7. \A i \in DOMAIN s : s2[i] = IF i = n THEN f ELSE s[i]
  BY <1>1, <1>2
<1>8. frames' \in [Threads -> Seq(Frame)] /\ frames'[t] = s2
      /\ \A u \in Threads \ {t} : frames'[u] = frames[u]
  <2> HIDE DEF s2
  <2> QED BY <1>5, <1>6 DEF ThreadTypes
<1>9. \A u \in Threads : frames'[u] = <<>> <=> frames[u] = <<>>
  BY <1>1, <1>6, <1>8
<1>10. ASSUME NEW u \in Threads, NEW i \in DOMAIN frames'[u]
       PROVE  \/ i \in DOMAIN frames[u] /\ frames'[u][i].at = frames[u][i].at
              \/ frames'[u][i].at = q
  <2>1. CASE u = t
    <3>1. i \in DOMAIN s /\ s2[i] = IF i = n THEN f ELSE s[i]
      BY <2>1, <1>6, <1>7, <1>8, <1>10
    <3> HIDE DEF s2, f, s
    <3>2. frames'[u] = s2 /\ frames[u] = s
      BY <2>1, <1>8 DEF s
    <3> QED BY <3>1, <3>2, <1>4
  <2>2. CASE u # t
    BY <2>2, <1>8, <1>10
  <2> QED BY <2>1, <2>2
<1> QED BY <1>1, <1>2, <1>8, <1>9, <1>10

\* A handler that begins comes on top of those that are interrupted.
LEMMA HandlerBegins ==
  ASSUME ThreadTypes, NEW s \in Signals, NEW t \in Threads, Deliver(s, t)
  PROVE  /\ frames' \in [Threads -> Seq(Frame)]
         /\ frames'[t] # <<>>
         /\ \A u \in Threads : u # t => frames'[u] = frames[u]
         /\ \A u \in Threads : \A i \in DOMAIN frames'[u] :
              \/ i \in DOMAIN frames[u] /\ frames'[u][i].at = frames[u][i].at
              \/ frames'[u][i].at = IF server = "none" THEN "cleanup" ELSE "shutdown"
<1> DEFINE f == [signal |-> s, at |-> IF server = "none" THEN "cleanup" ELSE "shutdown"]
           g == Append(frames[t], f)
<1>1. f \in Frame /\ frames[t] \in Seq(Frame)
  BY DEF Frame, ThreadTypes
<1>2. /\ g \in Seq(Frame)
      /\ DOMAIN g = DOMAIN frames[t] \cup {Len(frames[t]) + 1}
      /\ \A i \in DOMAIN frames[t] : g[i] = frames[t][i]
      /\ g[Len(frames[t]) + 1] = f
      /\ g # <<>>
  <2> HIDE DEF f
  <2> QED BY <1>1, AppendLast
<1>3. frames' = [frames EXCEPT ![t] = g]
  BY DEF Deliver
<1>4. /\ frames' \in [Threads -> Seq(Frame)] /\ frames'[t] = g
      /\ \A u \in Threads : u # t => frames'[u] = frames[u]
  <2> HIDE DEF g
  <2> QED BY <1>2, <1>3 DEF ThreadTypes
<1>5. ASSUME NEW u \in Threads, NEW i \in DOMAIN frames'[u]
      PROVE  \/ i \in DOMAIN frames[u] /\ frames'[u][i].at = frames[u][i].at
             \/ frames'[u][i].at = IF server = "none" THEN "cleanup" ELSE "shutdown"
  <2>1. CASE u = t
    <3>1. (i \in DOMAIN frames[t] /\ g[i] = frames[t][i]) \/ g[i] = f
      <4> HIDE DEF g, f
      <4> QED BY <2>1, <1>2, <1>4, <1>5
    <3> HIDE DEF g
    <3> QED BY <2>1, <3>1, <1>4
  <2>2. CASE u # t
    BY <2>2, <1>4, <1>5
  <2> QED BY <2>1, <2>2
<1> QED BY <1>2, <1>4, <1>5

\* A handler that returns leaves the others as they are.
LEMMA HandlerEnds ==
  ASSUME ThreadTypes, NEW t \in Threads, HandlerReturns(t)
  PROVE  /\ frames' \in [Threads -> Seq(Frame)]
         /\ Len(frames[t]) \in DOMAIN frames[t]
         /\ frames[t][Len(frames[t])].at = "cleaning"
         /\ \A u \in Threads : frames[u] = <<>> => frames'[u] = <<>>
         /\ \A u \in Threads : \A i \in DOMAIN frames'[u] :
              i \in DOMAIN frames[u] /\ frames'[u][i] = frames[u][i]
<1> DEFINE s == frames[t]
           g == SubSeq(s, 1, Len(s) - 1)
<1>1. s \in Seq(Frame) /\ s # <<>> /\ s[Len(s)].at = "cleaning"
  BY DEF ThreadTypes, HandlerReturns, HandlerAt
<1>2. Len(s) \in DOMAIN s
  BY <1>1, LastIndex
<1>3. /\ g \in Seq(Frame)
      /\ DOMAIN g \subseteq DOMAIN s
      /\ \A i \in DOMAIN g : g[i] = s[i]
  <2> HIDE DEF s
  <2> QED BY <1>1, PopLast
<1>4. frames' = [frames EXCEPT ![t] = g]
  BY DEF HandlerReturns
<1>5. /\ frames' \in [Threads -> Seq(Frame)] /\ frames'[t] = g
      /\ \A u \in Threads : u # t => frames'[u] = frames[u]
  <2> HIDE DEF g
  <2> QED BY <1>3, <1>4 DEF ThreadTypes
<1>6. \A u \in Threads : frames[u] = <<>> => frames'[u] = <<>>
  BY <1>1, <1>5
<1>7. \A u \in Threads : \A i \in DOMAIN frames'[u] :
        i \in DOMAIN frames[u] /\ frames'[u][i] = frames[u][i]
  <2> HIDE DEF g
  <2> QED BY <1>3, <1>5
<1> QED BY <1>1, <1>2, <1>5, <1>6, <1>7

\* A signal adds to the history where it hit.
LEMMA HistoryGrows ==
  ASSUME ThreadTypes, NEW s \in Signals, NEW t \in Threads, CanDeliver(s, t)
  PROVE  /\ delivered' \in Seq([to : Threads, main : Places])
         /\ NoneEarly' => NoneEarly /\ mainAt \notin {"initialize", "insert_pool", "insert_free"}
         /\ AllOnMain' => AllOnMain /\ t = "main"
<1> DEFINE d == [to |-> t, main |-> mainAt]
           g == Append(delivered, d)
           H == [to : Threads, main : Places]
<1>1. d \in H /\ delivered \in Seq(H) /\ delivered' = g
  BY DEF ThreadTypes, CanDeliver
<1>2. /\ g \in Seq(H)
      /\ DOMAIN g = DOMAIN delivered \cup {Len(delivered) + 1}
      /\ \A i \in DOMAIN delivered : g[i] = delivered[i]
      /\ g[Len(delivered) + 1] = d
  <2> HIDE DEF d, H
  <2> QED BY <1>1, AppendLast
<1>3. NoneEarly' => NoneEarly /\ mainAt \notin {"initialize", "insert_pool", "insert_free"}
  <2> HIDE DEF g
  <2> QED BY <1>1, <1>2 DEF NoneEarly
<1>4. AllOnMain' => AllOnMain /\ t = "main"
  <2> HIDE DEF g
  <2> QED BY <1>1, <1>2 DEF AllOnMain
<1> QED BY <1>1, <1>2, <1>3, <1>4

\* The invariant without what BufferInvNext says of it already.
CallShapes == ThreadTypes /\ ServerShape /\ HandlerShape /\ FilledShape /\ OnMainShape

\* main() keeps the invariant.
LEMMA MainKeeps == CallInv /\ MainStep => CallShapes'
<1> SUFFICES ASSUME CallInv, MainStep
             PROVE  CallShapes'
  OBVIOUS
<1> USE DEF CallInv, CallShapes
<1>1. CASE CreateServer
  BY <1>1 DEF CreateServer, Proceeds, ThreadTypes, ServerShape, HandlerShape, FilledShape,
     OnMainShape, Places, Quiet, Initializing, NoneEarly, AllOnMain, memoryVars, initializeVars
<1>2. ASSUME NEW b \in Buffers, AllocateBuffer(b)
      PROVE  CallShapes'
  BY <1>2 DEF AllocateBuffer, Proceeds, ThreadTypes, ServerShape, HandlerShape, FilledShape,
     OnMainShape, Places, Quiet, Initializing, NoneEarly, AllOnMain
<1>3. CASE InsertIntoPool
  BY <1>3 DEF InsertIntoPool, Proceeds, ThreadTypes, ServerShape, HandlerShape, FilledShape,
     OnMainShape, Places, Quiet, Initializing, NoneEarly, AllOnMain, initializeVars
<1>4. CASE InsertIntoFreeList
  BY <1>4 DEF InsertIntoFreeList, Proceeds, ThreadTypes, ServerShape, HandlerShape, FilledShape,
     OnMainShape, Places, Quiet, Initializing, NoneEarly, AllOnMain
<1>5. CASE InitializeFails
  BY <1>5 DEF InitializeFails, Proceeds, ThreadTypes, ServerShape, HandlerShape, FilledShape,
     OnMainShape, Places, Quiet, Initializing, NoneEarly, AllOnMain, memoryVars, initializeVars
<1>6. ASSUME NEW b \in Buffers, RegistrationFails(b)
       PROVE  CallShapes'
  BY <1>6 DEF RegistrationFails, Proceeds, ThreadTypes, ServerShape, HandlerShape, FilledShape,
     OnMainShape, Places, Quiet, Initializing, NoneEarly, AllOnMain
<1>7. CASE FailedInitializeCleansUp
  BY <1>7 DEF FailedInitializeCleansUp, ReleaseBuffers, Proceeds, ThreadTypes, ServerShape,
     HandlerShape, FilledShape, OnMainShape, Places, Quiet, Initializing, NoneEarly, AllOnMain,
     initializeVars
<1>8. CASE BuildAndStart
  <2>1. \A t \in Threads : frames[t] = <<>>
    BY <1>8 DEF BuildAndStart, Proceeds, ServerShape, Threads
  <2>2. HandlerShape'
    BY <2>1, <1>8 DEF BuildAndStart, HandlerShape
  <2>3. pool \subseteq Buffers
    BY DEF BufferInv
  <2> QED
    BY <2>1, <2>2, <2>3, <1>8 DEF BuildAndStart, Proceeds, ThreadTypes, ServerShape, FilledShape,
       OnMainShape, Places, Quiet, Initializing, NoneEarly, AllOnMain, memoryVars, initializeVars
<1>9. CASE SetRunning
  BY <1>9 DEF SetRunning, Proceeds, ThreadTypes, ServerShape, HandlerShape, FilledShape,
     OnMainShape, Places, Quiet, Initializing, NoneEarly, AllOnMain, memoryVars, initializeVars
<1>10. CASE LeaveRun
  BY <1>10 DEF LeaveRun, Proceeds, ThreadTypes, ServerShape, HandlerShape, FilledShape,
     OnMainShape, Places, Quiet, Initializing, NoneEarly, AllOnMain, memoryVars, initializeVars
<1>11. CASE DestroyServer
  BY <1>11 DEF DestroyServer, Proceeds, ThreadTypes, ServerShape, HandlerShape, FilledShape,
     OnMainShape, Places, Quiet, Initializing, NoneEarly, AllOnMain, memoryVars, initializeVars
<1>12. CASE DestroyPool
  BY <1>12 DEF DestroyPool, ReleaseBuffers, Proceeds, ThreadTypes, ServerShape, HandlerShape,
     FilledShape, OnMainShape, Places, Quiet, Initializing, NoneEarly, AllOnMain, initializeVars
<1>13. CASE DestroyGrpcServer
  <2>1. /\ UNCHANGED <<work, frames, running, memoryVars, initializeVars, delivered>>
        /\ mainAt = "destroyed" /\ mainAt' = "closing"
        /\ server' \in {"none", "shut"} /\ (server' = "none" <=> server = "none")
        /\ (Quiet => Quiet')
    BY <1>13 DEF DestroyGrpcServer, Quiet
  <2>2. HandlerShape'
    BY <2>1 DEF HandlerShape, ThreadTypes
  <2> QED
    BY <2>1, <2>2 DEF ThreadTypes, ServerShape, FilledShape, OnMainShape, Places, Initializing,
       NoneEarly, AllOnMain, memoryVars, initializeVars
<1>14. CASE ExitProcess
  <2>1. Quiet'
    BY <1>14 DEF ExitProcess, Quiet, ServerShape
  <2> QED
    BY <2>1, <1>14 DEF ExitProcess, Proceeds, ThreadTypes, ServerShape, HandlerShape, FilledShape,
       OnMainShape, Places, Quiet, Initializing, NoneEarly, AllOnMain, memoryVars, initializeVars
<1> QED
  BY <1>1, <1>2, <1>3, <1>4, <1>5, <1>6, <1>7, <1>8, <1>9, <1>10, <1>11, <1>12, <1>13, <1>14
     DEF MainStep

\* gRPC's threads keep the invariant.
LEMMA WorkersKeep ==
  ASSUME CallInv, NEW w \in Workers, CallArrives(w) \/ WorkerStep(w)
  PROVE  CallShapes'
<1> USE DEF CallInv, CallShapes
<1>1. UNCHANGED <<mainAt, frames, running, server, memoryVars, initializeVars, delivered>>
  BY DEF CallArrives, WorkerStep, EnterPool, LeavePool
<1>2. /\ work' \in [Workers -> {"idle", "calling", "inside"}]
      /\ \A v \in Workers : v # w => work'[v] = work[v]
      /\ Quiet => Quiet'
      /\ ~Quiet' => ~Quiet
      /\ server # "none"
  BY DEF CallArrives, WorkerStep, EnterPool, LeavePool, ThreadTypes, ServerShape, Quiet
<1>3. ThreadTypes'
  BY <1>1, <1>2 DEF ThreadTypes
<1>4. ServerShape'
  BY <1>1, <1>2 DEF ServerShape
<1>5. HandlerShape'
  BY <1>1, <1>2 DEF HandlerShape
<1>6. FilledShape'
  BY <1>1, <1>2 DEF FilledShape, NoneEarly, Initializing, memoryVars, initializeVars
<1>7. OnMainShape'
  BY <1>1, <1>2 DEF OnMainShape, AllOnMain
<1> QED BY <1>3, <1>4, <1>5, <1>6, <1>7

\* A handler keeps the invariant while it goes through Shutdown() and up to
\* cleanup().
LEMMA ShutdownKeeps ==
  ASSUME CallInv, NEW t \in Threads,
         BeginShutdown(t) \/ ShutdownReturns(t) \/ EnterCleanup(t)
  PROVE  CallShapes'
<1> USE DEF CallInv, CallShapes
<1>1. UNCHANGED <<mainAt, work, running, memoryVars, initializeVars, delivered>>
  BY DEF BeginShutdown, ShutdownReturns, EnterCleanup
<1>2. /\ server' \in {"none", "serving", "shut"}
      /\ Quiet => Quiet'
      /\ server' = "none" <=> server = "none"
      /\ server = "shut" => server' = "shut"
      /\ server' = "serving" => server = "serving"
      /\ frames' \in [Threads -> Seq(Frame)]
      /\ \A u \in Threads : frames'[u] = <<>> <=> frames[u] = <<>>
      /\ HandlerShape'
  <2>1. CASE BeginShutdown(t)
    <3>1. HandlerAt(t, "shutdown") /\ HandlerTo(t, "waiting") /\ server' = "shut"
      BY <2>1 DEF BeginShutdown
    <3>2. server # "none"
      BY <3>1, HandlerGoesOn DEF HandlerShape
    <3>3. server' = "shut" /\ (Quiet => Quiet')
      BY <1>1, <3>1 DEF Quiet
    <3>4. HandlerShape'
      BY <3>1, <3>2, <3>3, HandlerGoesOn DEF HandlerShape
    <3> QED BY <3>1, <3>2, <3>3, <3>4, HandlerGoesOn
  <2>2. CASE ShutdownReturns(t)
    <3>1. /\ HandlerAt(t, "waiting") /\ HandlerTo(t, "cleanup") /\ server' = server
          /\ \A w \in Workers : work[w] = "idle"
      BY <2>2 DEF ShutdownReturns
    <3>2. server = "shut"
      BY <3>1, HandlerGoesOn DEF HandlerShape
    <3>3. Quiet' /\ server' = "shut"
      BY <1>1, <3>1, <3>2 DEF Quiet
    <3>4. HandlerShape'
      BY <3>1, <3>2, <3>3, HandlerGoesOn DEF HandlerShape
    <3> QED BY <3>1, <3>2, <3>3, <3>4, HandlerGoesOn
  <2>3. CASE EnterCleanup(t)
    <3>1. HandlerAt(t, "cleanup") /\ HandlerTo(t, "cleaning") /\ server' = server
      BY <2>3 DEF EnterCleanup
    <3>2. Quiet
      BY <3>1, HandlerGoesOn DEF HandlerShape
    <3>3. Quiet' /\ server' \in {"none", "serving", "shut"}
      BY <1>1, <3>1, <3>2 DEF Quiet, ThreadTypes
    <3>4. HandlerShape'
      BY <3>1, <3>2, <3>3, HandlerGoesOn DEF HandlerShape
    <3> QED BY <3>1, <3>2, <3>3, <3>4, HandlerGoesOn
  <2> QED BY <2>1, <2>2, <2>3
<1>3. ThreadTypes'
  BY <1>1, <1>2 DEF ThreadTypes
<1>4. ServerShape'
  BY <1>1, <1>2 DEF ServerShape, Threads
<1>5. FilledShape'
  BY <1>1, <1>2 DEF FilledShape, NoneEarly, Initializing, memoryVars, initializeVars, Threads
<1>6. OnMainShape'
  BY <1>1, <1>2 DEF OnMainShape, AllOnMain, Threads
<1> QED BY <1>2, <1>3, <1>4, <1>5, <1>6

\* A handler keeps the invariant when it empties the pool and returns: no call
\* is left then.
LEMMA ReturnKeeps ==
  ASSUME CallInv, NEW t \in Threads, HandlerReturns(t)
  PROVE  CallShapes'
<1> USE DEF CallInv, CallShapes
<1>1. UNCHANGED <<mainAt, work, running, server, initializeVars, delivered>>
  BY DEF HandlerReturns
<1>2. free_list' = {} /\ pool' = {}
  BY DEF HandlerReturns, ReleaseBuffers
<1>3. Quiet /\ Quiet' /\ frames[t] # <<>>
  <2>1. Quiet
    BY HandlerEnds DEF HandlerShape
  <2>2. frames[t] # <<>>
    BY DEF HandlerReturns, HandlerAt
  <2> QED BY <2>1, <2>2, <1>1 DEF Quiet
<1>4. ThreadTypes'
  BY <1>1, HandlerEnds DEF ThreadTypes
<1>5. ServerShape'
  BY <1>1, HandlerEnds DEF ServerShape, Threads
<1>6. HandlerShape'
  BY <1>1, <1>3, HandlerEnds DEF HandlerShape
<1>7. FilledShape'
  <2>1. NoneEarly' => NoneEarly
    BY <1>1 DEF NoneEarly
  <2>2. NoneEarly => frames["main"] = <<>> \/ ~(Initializing \/ mainAt = "start")
    BY DEF FilledShape
  <2>3. Initializing \/ mainAt = "start" => server = "none"
    BY DEF Initializing, ServerShape
  <2>4. NoneEarly => ~(Initializing \/ mainAt = "start")
    BY <1>3, <2>2, <2>3 DEF ServerShape, Threads
  <2> QED BY <1>1, <1>2, <1>3, <2>1, <2>4 DEF FilledShape, Initializing
<1>8. OnMainShape'
  BY <1>1, <1>3, HandlerEnds DEF OnMainShape, AllOnMain, Threads
<1> QED BY <1>4, <1>5, <1>6, <1>7, <1>8

\* A signal keeps the invariant, wherever it hits.
LEMMA SignalsKeep ==
  ASSUME CallInv, NEW s \in Signals, NEW t \in Threads, SignalIgnored(s, t) \/ Deliver(s, t)
  PROVE  CallShapes'
<1> USE DEF CallInv, CallShapes
<1>1. CanDeliver(s, t) /\ UNCHANGED <<mainAt, work, server, memoryVars, initializeVars>>
  BY DEF SignalIgnored, Deliver
<1>2. /\ delivered' \in Seq([to : Threads, main : Places])
      /\ NoneEarly' => NoneEarly /\ ~Initializing
      /\ AllOnMain' => AllOnMain /\ t = "main"
  BY <1>1, HistoryGrows DEF Initializing
<1>3. Quiet' <=> Quiet
  BY <1>1 DEF Quiet
<1>4. CASE SignalIgnored(s, t)
  <2>1. UNCHANGED <<frames, running>>
    BY <1>4 DEF SignalIgnored
  <2> QED
    BY <1>1, <1>2, <1>3, <2>1 DEF ThreadTypes, ServerShape, HandlerShape, FilledShape,
       OnMainShape, Initializing, memoryVars, initializeVars
<1>5. CASE Deliver(s, t)
  <2>1. /\ frames' \in [Threads -> Seq(Frame)]
        /\ frames'[t] # <<>>
        /\ \A u \in Threads : u # t => frames'[u] = frames[u]
        /\ \A u \in Threads : \A i \in DOMAIN frames'[u] :
              \/ i \in DOMAIN frames[u] /\ frames'[u][i].at = frames[u][i].at
              \/ frames'[u][i].at = IF server = "none" THEN "cleanup" ELSE "shutdown"
    BY <1>5, HandlerBegins
  <2>2. running' = FALSE /\ mainAt # "start" /\ (t # "main" => server # "none")
    BY <1>5 DEF Deliver, CanDeliver
  <2>3. ThreadTypes'
    BY <1>1, <1>2, <2>1, <2>2 DEF ThreadTypes
  <2>4. ServerShape'
    BY LifecycleAssumption, <1>1, <2>1, <2>2 DEF ServerShape, Threads, LifecycleAssumption
  <2>5. server = "none" => Quiet
    BY DEF ServerShape, Quiet
  <2>6. HandlerShape'
    BY <1>1, <1>3, <2>1, <2>5 DEF HandlerShape
  <2>7. FilledShape'
    BY <1>1, <1>2, <1>3, <2>2 DEF FilledShape, Initializing, memoryVars, initializeVars
  <2>8. OnMainShape'
    BY LifecycleAssumption, <1>1, <1>2, <1>3, <2>1, <2>2 DEF OnMainShape, Threads,
       LifecycleAssumption
  <2> QED BY <2>3, <2>4, <2>6, <2>7, <2>8
<1> QED BY <1>4, <1>5

\* The invariant holds when the process starts.
LEMMA CallInvInit == LifecycleInit => CallInv
<1> SUFFICES ASSUME LifecycleInit
             PROVE  CallInv
  OBVIOUS
<1>1. BufferInv /\ made \subseteq Buffers
  BY BufferInvInit DEF LifecycleInit
<1>2. ThreadTypes /\ ServerShape /\ HandlerShape
  <2>1. \A t \in Threads : frames[t] = <<>> /\ DOMAIN frames[t] = {}
    BY DEF LifecycleInit
  <2>2. <<>> \in Seq(Frame) /\ <<>> \in Seq([to : Threads, main : Places])
    OBVIOUS
  <2>3. ThreadTypes
    BY <2>2 DEF LifecycleInit, ThreadTypes, Places
  <2> QED BY <2>1, <2>3 DEF LifecycleInit, ServerShape, HandlerShape, Threads
<1>3. FilledShape /\ OnMainShape
  BY DEF LifecycleInit, FilledShape, OnMainShape, Quiet, Initializing, Threads
<1> QED BY <1>1, <1>2, <1>3 DEF CallInv

\* initialize() goes through buffers only.
LEMMA MadeAreBuffers ==
  made \subseteq Buffers /\ [LifecycleNext]_lifecycleVars => made' \subseteq Buffers
BY DEF LifecycleNext, lifecycleVars, initializeVars, MainStep, CreateServer, AllocateBuffer,
   InsertIntoPool, InsertIntoFreeList, InitializeFails, RegistrationFails,
   FailedInitializeCleansUp, BuildAndStart, SetRunning, LeaveRun, DestroyServer, DestroyPool,
   DestroyGrpcServer, ExitProcess, CallArrives, WorkerStep, EnterPool, LeavePool, HandlerStep,
   BeginShutdown, ShutdownReturns, EnterCleanup, HandlerReturns, SignalIgnored, Deliver

\* Every step of every thread keeps it.
LEMMA CallInvNext == CallInv /\ [LifecycleNext]_lifecycleVars => CallInv'
<1> SUFFICES ASSUME CallInv, [LifecycleNext]_lifecycleVars
             PROVE  CallInv'
  OBVIOUS
<1>1. BufferInv' /\ made' \subseteq Buffers
  BY BufferInvNext, MadeAreBuffers DEF CallInv
<1>2. CASE MainStep
  BY <1>1, <1>2, MainKeeps DEF CallInv, CallShapes
<1>3. ASSUME NEW w \in Workers, CallArrives(w) \/ WorkerStep(w)
      PROVE  CallInv'
  BY <1>1, <1>3, WorkersKeep DEF CallInv, CallShapes
<1>4. ASSUME NEW t \in Threads, HandlerStep(t)
      PROVE  CallInv'
  BY <1>1, <1>4, ShutdownKeeps, ReturnKeeps DEF HandlerStep, CallInv, CallShapes
<1>5. ASSUME NEW s \in Signals, NEW t \in Threads, SignalIgnored(s, t) \/ Deliver(s, t)
      PROVE  CallInv'
  BY <1>1, <1>5, SignalsKeep DEF CallInv, CallShapes
<1>6. CASE UNCHANGED lifecycleVars
  BY <1>1, <1>6 DEF lifecycleVars, memoryVars, initializeVars, CallInv, ThreadTypes,
     ServerShape, HandlerShape, FilledShape, OnMainShape, Quiet, Initializing, NoneEarly,
     AllOnMain
<1> QED BY <1>2, <1>3, <1>4, <1>5, <1>6 DEF LifecycleNext

\* A call inside the pool finds every buffer in pool_, and no freed one in
\* free_list_, unless a signal came during initialize(), or one hit a thread of
\* gRPC's and main() has destroyed the pool: any number of calls, signals and
\* nested handlers.
THEOREM BuffersFound == LifecycleSpec => []CallsFindBuffers
<1>1. CallInv => CallsFindBuffers
  BY DEF CallInv, BufferInv, NeverFreedTwice, FilledShape, OnMainShape, Quiet, CallsFindBuffers
<1> QED BY <1>1, CallInvInit, CallInvNext, PTL DEF LifecycleSpec

\* If main() is the thread that handles the signals, service_ and the pool are
\* destroyed only when no call is in them.
THEOREM ServiceOutlives == LifecycleSpec => []ServiceOutlivesCalls
<1>1. CallInv => ServiceOutlivesCalls
  BY DEF CallInv, OnMainShape, Quiet, ServiceOutlivesCalls
<1> QED BY <1>1, CallInvInit, CallInvNext, PTL DEF LifecycleSpec

-----------------------------------------------------------------------------
\* The handlers of t that are inside cleanup().
Cleaning(t) == {i \in DOMAIN frames[t] : frames[t][i].at = "cleaning"}

\* The code of t below its handlers is in a critical section of mutex_.
BaseCritical(t) ==
  \/ t \in Workers /\ work[t] = "inside"
  \/ t = "main" /\ mainAt \in {"failing", "destroy"}

\* What mutual exclusion rests on: one thread, though it has code below and
\* handlers above, is in at most one critical section, so that leaving it leaves
\* them all.
SectionInv ==
  /\ mutex \in Threads \cup {None}
  /\ \A t \in Threads : BaseCritical(t) \/ Cleaning(t) # {} <=> mutex = t
  /\ \A t \in Threads : BaseCritical(t) => Cleaning(t) = {}
  /\ \A t \in Threads : \A i \in Cleaning(t), j \in Cleaning(t) : i = j

\* The values of the other variables.
DataTypes ==
  /\ pool \in SUBSET Buffers /\ free_list \in SUBSET Buffers /\ allocated \in SUBSET Buffers
  /\ buffer \in Buffers \cup {None} /\ made \in SUBSET Buffers
  /\ mainAt \in {"insert_pool", "insert_free"} => buffer \in Buffers

\* A handler that goes on enters no critical section, or just the one of cleanup().
LEMMA CleaningGoesOn ==
  ASSUME ThreadTypes, NEW t \in Threads, NEW p, p # "cleaning", HandlerAt(t, p),
         NEW q \in {"shutdown", "waiting", "cleanup", "cleaning"}, HandlerTo(t, q)
  PROVE  /\ \A u \in Threads \ {t} : Cleaning(u)' = Cleaning(u)
         /\ Cleaning(t)' = IF q = "cleaning" THEN Cleaning(t) \cup {Len(frames[t])}
                                             ELSE Cleaning(t)
<1> DEFINE s == frames[t]
           n == Len(s)
           f == [s[n] EXCEPT !.at = q]
           s2 == [s EXCEPT ![n] = f]
<1>1. s \in Seq(Frame) /\ s # <<>> /\ s[n].at = p
  BY DEF ThreadTypes, HandlerAt
<1>2. n \in DOMAIN s /\ n \in Nat \ {0} /\ DOMAIN s = 1 .. n
  BY <1>1, LastIndex
<1>3. s[n] \in Frame
  BY <1>1, <1>2
<1>4. f.at = q
  BY <1>3 DEF Frame
<1>5. frames' = [frames EXCEPT ![t] = s2]
  BY DEF HandlerTo
<1>6. DOMAIN s2 = DOMAIN s /\ \A i \in DOMAIN s : s2[i] = IF i = n THEN f ELSE s[i]
  BY <1>1, <1>2
<1>7. frames'[t] = s2 /\ \A u \in Threads \ {t} : frames'[u] = frames[u]
  <2> HIDE DEF s2
  <2> QED BY <1>5 DEF ThreadTypes
<1>8. \A u \in Threads \ {t} : Cleaning(u)' = Cleaning(u)
  BY <1>7 DEF Cleaning
<1>9. Cleaning(t)' = {i \in DOMAIN s : s2[i].at = "cleaning"}
  <2> HIDE DEF s2, s
  <2> QED BY <1>6, <1>7 DEF Cleaning
<1>10. Cleaning(t) = {i \in DOMAIN s : s[i].at = "cleaning"}
  BY DEF Cleaning
<1> HIDE DEF s2, s, f, n
<1>11. Cleaning(t)' = IF q = "cleaning" THEN Cleaning(t) \cup {n} ELSE Cleaning(t)
  BY <1>1, <1>2, <1>4, <1>6, <1>9, <1>10
<1> QED BY <1>8, <1>11 DEF n, s

\* A handler that begins is not in cleanup() yet.
LEMMA CleaningBegins ==
  ASSUME ThreadTypes, NEW s \in Signals, NEW t \in Threads, Deliver(s, t)
  PROVE  \A u \in Threads : Cleaning(u)' = Cleaning(u)
<1> DEFINE f == [signal |-> s, at |-> IF server = "none" THEN "cleanup" ELSE "shutdown"]
           g == Append(frames[t], f)
<1>1. f \in Frame /\ f.at # "cleaning" /\ frames[t] \in Seq(Frame)
  BY DEF Frame, ThreadTypes
<1>2. /\ DOMAIN g = DOMAIN frames[t] \cup {Len(frames[t]) + 1}
      /\ \A i \in DOMAIN frames[t] : g[i] = frames[t][i]
      /\ g[Len(frames[t]) + 1] = f
  <2> HIDE DEF f
  <2> QED BY <1>1, AppendLast
<1>3. frames' = [frames EXCEPT ![t] = g]
  BY DEF Deliver
<1>4. frames'[t] = g /\ \A u \in Threads : u # t => frames'[u] = frames[u]
  <2> HIDE DEF g
  <2> QED BY <1>3 DEF ThreadTypes
<1>5. Len(frames[t]) + 1 \notin DOMAIN frames[t]
  BY <1>1
<1> HIDE DEF f, g
<1>6. Cleaning(t)' = Cleaning(t)
  BY <1>1, <1>2, <1>4, <1>5 DEF Cleaning
<1> QED BY <1>4, <1>6 DEF Cleaning

\* A handler that returns leaves its cleanup().
LEMMA CleaningEnds ==
  ASSUME ThreadTypes, NEW t \in Threads, HandlerReturns(t)
  PROVE  /\ \A u \in Threads \ {t} : Cleaning(u)' = Cleaning(u)
         /\ Len(frames[t]) \in Cleaning(t)
         /\ Cleaning(t)' = Cleaning(t) \ {Len(frames[t])}
<1> DEFINE s == frames[t]
           g == SubSeq(s, 1, Len(s) - 1)
<1>1. s \in Seq(Frame) /\ s # <<>> /\ s[Len(s)].at = "cleaning"
  BY DEF ThreadTypes, HandlerReturns, HandlerAt
<1>2. Len(s) \in DOMAIN s /\ Len(s) \in Nat \ {0} /\ DOMAIN s = 1 .. Len(s)
  BY <1>1, LastIndex
<1>3. DOMAIN g = DOMAIN s \ {Len(s)} /\ \A i \in DOMAIN g : g[i] = s[i]
  <2> HIDE DEF s
  <2> QED BY <1>1, <1>2
<1>4. frames' = [frames EXCEPT ![t] = g]
  BY DEF HandlerReturns
<1>5. frames'[t] = g /\ \A u \in Threads : u # t => frames'[u] = frames[u]
  <2> HIDE DEF g
  <2> QED BY <1>4 DEF ThreadTypes
<1> HIDE DEF g
<1>6. Cleaning(t)' = Cleaning(t) \ {Len(frames[t])}
  BY <1>3, <1>5 DEF Cleaning
<1> QED BY <1>1, <1>2, <1>5, <1>6 DEF Cleaning

\* A step that leaves every critical section as it is keeps the invariant.
LEMMA SectionsStay ==
  ASSUME SectionInv, UNCHANGED mutex,
         \A t \in Threads : BaseCritical(t)' = BaseCritical(t) /\ Cleaning(t)' = Cleaning(t)
  PROVE  SectionInv'
BY DEF SectionInv

\* A thread that takes a free mutex_ enters one critical section.
LEMMA SectionEntered ==
  ASSUME SectionInv, mutex = None, NEW t \in Threads, mutex' = t,
         \A u \in Threads \ {t} : BaseCritical(u)' = BaseCritical(u) /\ Cleaning(u)' = Cleaning(u),
         \/ BaseCritical(t)' /\ Cleaning(t)' = Cleaning(t)
         \/ ~BaseCritical(t)' /\ \E n : Cleaning(t)' = Cleaning(t) \cup {n}
  PROVE  SectionInv'
<1>1. None \notin Threads
  BY LifecycleAssumption DEF LifecycleAssumption, Threads
<1>2. \A u \in Threads : ~BaseCritical(u) /\ Cleaning(u) = {}
  BY <1>1 DEF SectionInv
<1> QED BY <1>2 DEF SectionInv

\* The thread that unlocks mutex_ leaves its critical section.
LEMMA SectionLeft ==
  ASSUME SectionInv, NEW t \in Threads, BaseCritical(t) \/ Cleaning(t) # {}, mutex' = None,
         \A u \in Threads \ {t} : BaseCritical(u)' = BaseCritical(u) /\ Cleaning(u)' = Cleaning(u),
         ~BaseCritical(t)', Cleaning(t)' = {}
  PROVE  SectionInv'
<1>1. None \notin Threads
  BY LifecycleAssumption DEF LifecycleAssumption, Threads
<1>2. \A u \in Threads \ {t} : ~BaseCritical(u) /\ Cleaning(u) = {}
  BY DEF SectionInv
<1> QED BY <1>1, <1>2 DEF SectionInv

\* main() keeps mutual exclusion.
LEMMA MainKeepsSections == ThreadTypes /\ SectionInv /\ MainStep => SectionInv'
<1> SUFFICES ASSUME ThreadTypes, SectionInv, MainStep
             PROVE  SectionInv'
  OBVIOUS
<1>1. frames' = frames /\ \A t \in Threads : Cleaning(t)' = Cleaning(t)
  BY DEF MainStep, CreateServer, AllocateBuffer, InsertIntoPool, InsertIntoFreeList,
     InitializeFails, RegistrationFails, FailedInitializeCleansUp, BuildAndStart, SetRunning,
     LeaveRun, DestroyServer, DestroyPool, DestroyGrpcServer, ExitProcess, Cleaning
<1>2. "main" \in Threads /\ "main" \notin Workers
  BY LifecycleAssumption DEF LifecycleAssumption, Threads
<1>3. ASSUME work' = work
      PROVE  \A u \in Threads \ {"main"} : BaseCritical(u)' = BaseCritical(u)
  BY <1>3 DEF BaseCritical
<1>4. CASE \/ CreateServer \/ InsertIntoPool \/ InsertIntoFreeList \/ InitializeFails
           \/ BuildAndStart \/ SetRunning \/ LeaveRun \/ DestroyGrpcServer \/ ExitProcess
           \/ \E b \in Buffers : AllocateBuffer(b)
  <2>1. mutex' = mutex /\ \A t \in Threads : BaseCritical(t)' = BaseCritical(t)
    BY <1>4 DEF CreateServer, AllocateBuffer, InsertIntoPool, InsertIntoFreeList,
       InitializeFails, BuildAndStart, SetRunning, LeaveRun, DestroyGrpcServer, ExitProcess,
       BaseCritical
  <2> QED BY <1>1, <2>1, SectionsStay
<1>5. CASE DestroyServer \/ \E b \in Buffers : RegistrationFails(b)
  <2>1. /\ mutex = None /\ mutex' = "main" /\ work' = work
        /\ BaseCritical("main")'
    BY <1>5 DEF DestroyServer, RegistrationFails, BaseCritical
  <2> QED BY <1>1, <1>2, <1>3, <2>1, SectionEntered
<1>6. CASE FailedInitializeCleansUp \/ DestroyPool
  <2>1. /\ mutex' = None /\ work' = work
        /\ BaseCritical("main") /\ ~BaseCritical("main")' /\ frames["main"] = <<>>
    BY <1>2, <1>6 DEF FailedInitializeCleansUp, DestroyPool, BaseCritical, Proceeds
  <2>2. Cleaning("main")' = {}
    BY <1>1, <1>2, <2>1 DEF Cleaning
  <2> QED BY <1>1, <1>2, <1>3, <2>1, <2>2, SectionLeft
<1> QED BY <1>4, <1>5, <1>6 DEF MainStep

\* gRPC's threads keep mutual exclusion.
LEMMA WorkersKeepSections ==
  ASSUME ThreadTypes, SectionInv, NEW w \in Workers, CallArrives(w) \/ WorkerStep(w)
  PROVE  SectionInv'
<1>1. /\ UNCHANGED <<mainAt, frames>> /\ \A t \in Threads : Cleaning(t)' = Cleaning(t)
      /\ \A v \in Workers \ {w} : work'[v] = work[v]
  BY DEF CallArrives, WorkerStep, EnterPool, LeavePool, ThreadTypes, Cleaning
<1>2. w \in Threads /\ w # "main"
  BY LifecycleAssumption DEF LifecycleAssumption, Threads
<1>3. \A u \in Threads \ {w} : BaseCritical(u)' = BaseCritical(u)
  BY <1>1 DEF BaseCritical
<1>4. CASE CallArrives(w)
  <2>1. mutex' = mutex /\ BaseCritical(w)' = BaseCritical(w)
    BY <1>2, <1>4 DEF CallArrives, BaseCritical, ThreadTypes
  <2> QED BY <1>1, <1>3, <2>1, SectionsStay
<1>5. CASE EnterPool(w)
  <2>1. mutex = None /\ mutex' = w /\ BaseCritical(w)'
    BY <1>5 DEF EnterPool, BaseCritical, ThreadTypes
  <2> QED BY <1>1, <1>2, <1>3, <2>1, SectionEntered
<1>6. CASE LeavePool(w)
  <2>1. mutex' = None /\ BaseCritical(w) /\ ~BaseCritical(w)' /\ frames[w] = <<>>
    BY <1>2, <1>6 DEF LeavePool, BaseCritical, ThreadTypes, Proceeds
  <2>2. Cleaning(w)' = {}
    BY <1>1, <2>1 DEF Cleaning
  <2> QED BY <1>1, <1>2, <1>3, <2>1, <2>2, SectionLeft
<1> QED BY <1>4, <1>5, <1>6 DEF WorkerStep

\* Handlers keep mutual exclusion: one that waits for mutex_ on the very thread
\* that holds it waits on.
LEMMA HandlersKeepSections ==
  ASSUME ThreadTypes, SectionInv, NEW t \in Threads, HandlerStep(t)
  PROVE  SectionInv'
<1>1. UNCHANGED <<mainAt, work>> /\ \A u \in Threads : BaseCritical(u)' = BaseCritical(u)
  BY DEF HandlerStep, BeginShutdown, ShutdownReturns, EnterCleanup, HandlerReturns, BaseCritical
<1>2. CASE BeginShutdown(t)
  <2>1. HandlerAt(t, "shutdown") /\ HandlerTo(t, "waiting") /\ mutex' = mutex
    BY <1>2 DEF BeginShutdown
  <2>2. \A u \in Threads : Cleaning(u)' = Cleaning(u)
    BY <2>1, CleaningGoesOn
  <2> QED BY <1>1, <2>1, <2>2, SectionsStay
<1>3. CASE ShutdownReturns(t)
  <2>1. HandlerAt(t, "waiting") /\ HandlerTo(t, "cleanup") /\ mutex' = mutex
    BY <1>3 DEF ShutdownReturns
  <2>2. \A u \in Threads : Cleaning(u)' = Cleaning(u)
    BY <2>1, CleaningGoesOn
  <2> QED BY <1>1, <2>1, <2>2, SectionsStay
<1>4. CASE EnterCleanup(t)
  <2>1. HandlerAt(t, "cleanup") /\ HandlerTo(t, "cleaning") /\ mutex = None /\ mutex' = t
    BY <1>4 DEF EnterCleanup
  <2>2. /\ \A u \in Threads \ {t} : Cleaning(u)' = Cleaning(u)
        /\ Cleaning(t)' = Cleaning(t) \cup {Len(frames[t])}
    BY <2>1, CleaningGoesOn
  <2>3. ~BaseCritical(t)'
    <3>1. None \notin Threads
      BY LifecycleAssumption DEF LifecycleAssumption, Threads
    <3> QED BY <1>1, <2>1, <3>1 DEF SectionInv
  <2> QED BY <1>1, <2>1, <2>2, <2>3, SectionEntered
<1>5. CASE HandlerReturns(t)
  <2>1. mutex' = None
    BY <1>5 DEF HandlerReturns
  <2>2. /\ \A u \in Threads \ {t} : Cleaning(u)' = Cleaning(u)
        /\ Len(frames[t]) \in Cleaning(t)
        /\ Cleaning(t)' = Cleaning(t) \ {Len(frames[t])}
    BY <1>5, CleaningEnds
  <2>3. Cleaning(t)' = {} /\ ~BaseCritical(t)'
    BY <1>1, <2>2 DEF SectionInv
  <2> QED BY <1>1, <2>1, <2>2, <2>3, SectionLeft
<1> QED BY <1>2, <1>3, <1>4, <1>5 DEF HandlerStep

\* Mutual exclusion and the values hold when the process starts.
LEMMA SectionInvInit == LifecycleInit => SectionInv /\ DataTypes
<1> SUFFICES ASSUME LifecycleInit
             PROVE  SectionInv /\ DataTypes
  OBVIOUS
<1>1. \A t \in Threads : Cleaning(t) = {} /\ ~BaseCritical(t)
  BY DEF LifecycleInit, Cleaning, BaseCritical
<1>2. None \notin Threads /\ mutex = None
  BY LifecycleAssumption DEF LifecycleAssumption, LifecycleInit, Threads
<1>3. DataTypes
  BY DEF LifecycleInit, DataTypes
<1> QED BY <1>1, <1>2, <1>3 DEF SectionInv

\* Every step keeps the values of the buffer sets.
LEMMA DataTypesNext == DataTypes /\ [LifecycleNext]_lifecycleVars => DataTypes'
BY DEF DataTypes, LifecycleNext, lifecycleVars, memoryVars, initializeVars, MainStep,
   CreateServer, AllocateBuffer, InsertIntoPool, InsertIntoFreeList, InitializeFails,
   RegistrationFails, FailedInitializeCleansUp, BuildAndStart, SetRunning, LeaveRun,
   DestroyServer, DestroyPool, DestroyGrpcServer, ExitProcess, ReleaseBuffers, CallArrives,
   WorkerStep, EnterPool, LeavePool, HandlerStep, BeginShutdown, ShutdownReturns, EnterCleanup, HandlerReturns, SignalIgnored,
   Deliver

\* Every step of every thread keeps mutual exclusion.
LEMMA SectionInvNext ==
  ThreadTypes /\ SectionInv /\ [LifecycleNext]_lifecycleVars => SectionInv'
<1> SUFFICES ASSUME ThreadTypes, SectionInv, [LifecycleNext]_lifecycleVars
             PROVE  SectionInv'
  OBVIOUS
<1>1. CASE MainStep
  BY <1>1, MainKeepsSections
<1>2. ASSUME NEW w \in Workers, CallArrives(w) \/ WorkerStep(w)
      PROVE  SectionInv'
  BY <1>2, WorkersKeepSections
<1>3. ASSUME NEW t \in Threads, HandlerStep(t)
      PROVE  SectionInv'
  BY <1>3, HandlersKeepSections
<1>4. ASSUME NEW s \in Signals, NEW t \in Threads, SignalIgnored(s, t) \/ Deliver(s, t)
      PROVE  SectionInv'
  <2>1. mutex' = mutex /\ \A u \in Threads : BaseCritical(u)' = BaseCritical(u)
    BY <1>4 DEF SignalIgnored, Deliver, BaseCritical
  <2>2. \A u \in Threads : Cleaning(u)' = Cleaning(u)
    BY <1>4, CleaningBegins DEF SignalIgnored, Cleaning
  <2> QED BY <2>1, <2>2, SectionsStay
<1>5. CASE UNCHANGED lifecycleVars
  BY <1>5, SectionsStay DEF lifecycleVars, BaseCritical, Cleaning
<1> QED BY <1>1, <1>2, <1>3, <1>4, <1>5 DEF LifecycleNext

\* mutex_ is held by the thread that is in a critical section and by nobody else,
\* although handlers run cleanup() on top of threads that may hold it: for any
\* number of threads, signals and nested handlers.
THEOREM LifecycleInvariant == LifecycleSpec => []LifecycleTypeOK
<1>1. CallInv /\ SectionInv /\ DataTypes => LifecycleTypeOK
  <2> SUFFICES ASSUME CallInv, SectionInv, DataTypes
               PROVE  LifecycleTypeOK
    OBVIOUS
  <2>1. ASSUME NEW t \in Threads
        PROVE  InCritical(t) <=> mutex = t
    BY DEF SectionInv, InCritical, BaseCritical, Cleaning
  <2> QED
    BY <2>1 DEF CallInv, ThreadTypes, Places, SectionInv, DataTypes, LifecycleTypeOK
<1>2. CallInv => ThreadTypes
  BY DEF CallInv
<1> QED
  BY <1>1, <1>2, CallInvInit, CallInvNext, SectionInvInit, SectionInvNext, DataTypesNext,
     PTL DEF LifecycleSpec

-----------------------------------------------------------------------------
\*                       What a shutdown leaves to fairness

\* Every buffer that was allocated is in pool_ or in hand, if there was a server.
ReleaseInv ==
  /\ mainAt = "insert_pool" => allocated \subseteq pool \cup {buffer}
  /\ mainAt \in {"start", "initialize", "insert_free", "listening", "run"} =>
       allocated \subseteq pool
  /\ mainAt \in {"exit", "destroy"} /\ server # "none" => allocated \subseteq pool
  /\ mainAt \in {"destroyed", "closing", "exited"} /\ server # "none" => allocated = {}

\* A server that has come up frees every buffer before its process ends.
AllReleased == mainAt = "exited" /\ server # "none" => allocated = {}

\* The one signal so far hit main() in run().
OneInRun == delivered = <<[to |-> "main", main |-> "run"]>>

\* Then running_ is false for good, and main() goes on only from a handler that has
\* returned; there are no more handlers than there were signals.
StopInv ==
  /\ Len(frames["main"]) <= Len(delivered)
  /\ OneInRun =>
       /\ ~running
       /\ mainAt \in {"run", "exit", "destroy", "destroyed", "closing", "exited"}
       /\ mainAt # "run" => frames["main"] = <<>>

\* After it nobody waits for somebody who waits: gRPC's threads run, a call that wants
\* mutex_ finds it free or with a call that is inside, and cleanup(), in the handler
\* as in the destructor of g_server, finds it free; ~Server finds no call.
ShutdownUnblocked ==
  OneInRun /\ mainAt # "exited" =>
    /\ ~running
    /\ \A w \in Workers : frames[w] = <<>>
    /\ \A w \in Workers : work[w] = "calling" =>
         mutex = None \/ \E v \in Workers : mutex = v /\ work[v] = "inside"
    /\ HandlerAt("main", "cleanup") => mutex = None
    /\ mainAt = "exit" => frames["main"] = <<>> /\ mutex = None
    /\ mainAt = "closing" => frames["main"] = <<>> /\ \A w \in Workers : work[w] = "idle"

\* The running handler of a thread is one of its handlers.
LEMMA RunningHandler ==
  ASSUME ThreadTypes, NEW t \in Threads, NEW p, HandlerAt(t, p)
  PROVE  Len(frames[t]) \in DOMAIN frames[t] /\ frames[t][Len(frames[t])].at = p
<1>1. frames[t] \in Seq(Frame) /\ frames[t] # <<>>
  BY DEF ThreadTypes, HandlerAt
<1>2. Len(frames[t]) \in DOMAIN frames[t]
  BY <1>1, LastIndex
<1> QED BY <1>2 DEF HandlerAt

\* No step loses a buffer that a later cleanup() should free.
LEMMA ReleaseInvNext ==
  ASSUME CallInv, ReleaseInv, [LifecycleNext]_lifecycleVars PROVE ReleaseInv'
<1> USE DEF ReleaseInv
<1>1. CASE MainStep
  <2>1. ASSUME NEW b \in Buffers, AllocateBuffer(b)
        PROVE  ReleaseInv'
    BY <2>1 DEF AllocateBuffer
  <2>2. CASE InsertIntoPool \/ InsertIntoFreeList
    BY <2>2 DEF InsertIntoPool, InsertIntoFreeList, initializeVars
  <2>3. ASSUME NEW b \in Buffers, RegistrationFails(b)
        PROVE  ReleaseInv'
    BY <2>3 DEF RegistrationFails
  <2>4. CASE FailedInitializeCleansUp
    BY <2>4 DEF FailedInitializeCleansUp, CallInv, ServerShape
  <2>5. CASE CreateServer \/ InitializeFails \/ BuildAndStart \/ SetRunning \/ LeaveRun
             \/ DestroyServer \/ DestroyGrpcServer \/ ExitProcess
    BY <2>5
    DEF CreateServer, InitializeFails, BuildAndStart, SetRunning, LeaveRun, DestroyServer,
        DestroyGrpcServer, ExitProcess, memoryVars
  <2>6. CASE DestroyPool
    BY <2>6 DEF DestroyPool, ReleaseBuffers
  <2> QED BY <1>1, <2>1, <2>2, <2>3, <2>4, <2>5, <2>6 DEF MainStep
<1>2. ASSUME NEW w \in Workers, CallArrives(w) \/ WorkerStep(w)
      PROVE  ReleaseInv'
  BY <1>2 DEF CallArrives, WorkerStep, EnterPool, LeavePool, memoryVars, initializeVars
<1>3. ASSUME NEW t \in Threads, HandlerStep(t)
      PROVE  ReleaseInv'
  <2>1. CASE BeginShutdown(t)
    <3>1. server # "none"
      BY <2>1, RunningHandler DEF BeginShutdown, CallInv, HandlerShape
    <3> QED BY <2>1, <3>1 DEF BeginShutdown, memoryVars, initializeVars
  <2>2. CASE ShutdownReturns(t) \/ EnterCleanup(t)
    BY <2>2 DEF ShutdownReturns, EnterCleanup, memoryVars, initializeVars
  <2>3. CASE HandlerReturns(t)
    BY <2>3 DEF HandlerReturns, ReleaseBuffers, initializeVars
  <2> QED BY <1>3, <2>1, <2>2, <2>3 DEF HandlerStep
<1>4. ASSUME NEW s \in Signals, NEW t \in Threads, SignalIgnored(s, t) \/ Deliver(s, t)
      PROVE  ReleaseInv'
  BY <1>4 DEF SignalIgnored, Deliver, memoryVars, initializeVars
<1>5. CASE UNCHANGED lifecycleVars
  BY <1>5 DEF lifecycleVars, memoryVars, initializeVars
<1> QED BY <1>1, <1>2, <1>3, <1>4, <1>5 DEF LifecycleNext

\* Whatever signals come, to whichever threads and during whatever: a server that has
\* come up has freed every buffer when its process ends.
THEOREM BuffersReleased == LifecycleSpec => []AllReleased
<1>1. LifecycleInit => ReleaseInv
  BY DEF LifecycleInit, ReleaseInv
<1>2. CallInv /\ ReleaseInv /\ [LifecycleNext]_lifecycleVars => ReleaseInv'
  BY ReleaseInvNext
<1>3. ReleaseInv => AllReleased
  BY DEF ReleaseInv, AllReleased
<1> QED BY <1>1, <1>2, <1>3, CallInvInit, CallInvNext, PTL DEF LifecycleSpec

\* What a handler's steps make of the number of main()'s handlers.
LEMMA HandlersOfMain ==
  ASSUME ThreadTypes, NEW t \in Threads, HandlerStep(t)
  PROVE  /\ Len(frames'["main"]) <= Len(frames["main"])
         /\ frames["main"] = <<>> => frames'["main"] = <<>>
<1>1. frames["main"] \in Seq(Frame) /\ frames[t] \in Seq(Frame)
  BY DEF ThreadTypes, Threads
<1>2. CASE HandlerReturns(t)
  <2> DEFINE g == SubSeq(frames[t], 1, Len(frames[t]) - 1)
  <2>1. frames[t] # <<>> /\ frames' = [frames EXCEPT ![t] = g]
    BY <1>2 DEF HandlerReturns, HandlerAt
  <2>2. Len(g) <= Len(frames[t])
    BY <1>1, <2>1
  <2>3. frames'["main"] = IF t = "main" THEN g ELSE frames["main"]
    <3> HIDE DEF g
    <3> QED BY <2>1 DEF ThreadTypes, Threads
  <2> QED BY <1>1, <2>1, <2>2, <2>3
<1>3. CASE BeginShutdown(t) \/ ShutdownReturns(t) \/ EnterCleanup(t)
  <2>1. PICK q \in {"waiting", "cleanup", "cleaning"} : HandlerTo(t, q)
    BY <1>3 DEF BeginShutdown, ShutdownReturns, EnterCleanup
  <2>2. frames[t] # <<>>
    BY <1>3 DEF BeginShutdown, ShutdownReturns, EnterCleanup, HandlerAt
  <2> DEFINE n == Len(frames[t])
             f == [frames[t][n] EXCEPT !.at = q]
             g == [frames[t] EXCEPT ![n] = f]
  <2>3. frames' = [frames EXCEPT ![t] = g]
    BY <2>1 DEF HandlerTo
  <2>4. n \in DOMAIN frames[t] /\ DOMAIN frames[t] = 1 .. n /\ n \in Nat
    BY <1>1, <2>2, LastIndex
  <2>5. Len(g) = n
    <3> HIDE DEF f
    <3>1. DOMAIN g = 1 .. n
      BY <2>4
    <3> QED BY <2>4, <3>1
  <2>6. frames'["main"] = IF t = "main" THEN g ELSE frames["main"]
    <3> HIDE DEF g
    <3> QED BY <2>3 DEF ThreadTypes, Threads
  <2> QED BY <1>1, <2>2, <2>5, <2>6
<1> QED BY <1>2, <1>3 DEF HandlerStep

\* A signal adds one handler at most, and is counted.
LEMMA SignalsStop ==
  ASSUME CallInv, StopInv, NEW s \in Signals, NEW t \in Threads,
         SignalIgnored(s, t) \/ Deliver(s, t)
  PROVE  StopInv'
<1> DEFINE d == [to |-> t, main |-> mainAt]
<1>1. /\ frames["main"] \in Seq(Frame) /\ ThreadTypes
      /\ delivered \in Seq([to : Threads, main : Places])
  BY DEF CallInv, ThreadTypes, Threads
<1>2. delivered' = Append(delivered, d) /\ mainAt' = mainAt
  BY DEF SignalIgnored, Deliver, CanDeliver
<1>3. Len(delivered') = Len(delivered) + 1 /\ Len(delivered) \in Nat
      /\ (delivered' = <<[to |-> "main", main |-> "run"]>> => mainAt = "run")
  <2>1. Len(delivered') = Len(delivered) + 1 /\ Len(delivered) \in Nat
    BY <1>1, <1>2
  <2>2. ASSUME delivered' = <<[to |-> "main", main |-> "run"]>>
        PROVE  mainAt = "run"
    <3>1. Len(delivered') = 1
      BY <2>2
    <3>2. delivered'[Len(delivered) + 1] = d
      BY <1>1, <1>2
    <3>3. delivered'[1] = d
      BY <2>1, <3>1, <3>2
    <3>4. delivered'[1] = [to |-> "main", main |-> "run"]
      BY <2>2
    <3> QED BY <3>3, <3>4
  <2> QED BY <2>1, <2>2
<1>4. Len(frames'["main"]) <= Len(frames["main"]) + 1
  <2>1. CASE SignalIgnored(s, t)
    BY <1>1, <2>1 DEF SignalIgnored
  <2>2. CASE Deliver(s, t)
    <3> DEFINE f == [signal |-> s, at |-> IF server = "none" THEN "cleanup" ELSE "shutdown"]
               g == Append(frames[t], f)
    <3>1. frames' = [frames EXCEPT ![t] = g]
      BY <2>2 DEF Deliver
    <3>2. f \in Frame
      BY DEF Frame
    <3>3. frames[t] \in Seq(Frame)
      BY <1>1 DEF ThreadTypes
    <3>4. Len(g) = Len(frames[t]) + 1
      <4> HIDE DEF f
      <4> QED BY <3>2, <3>3
    <3>5. frames'["main"] = IF t = "main" THEN g ELSE frames["main"]
      <4> HIDE DEF g
      <4> QED BY <1>1, <3>1 DEF ThreadTypes, Threads
    <3> QED BY <1>1, <3>4, <3>5
  <2> QED BY <2>1, <2>2
<1>5. Len(frames'["main"]) <= Len(delivered')
  <2>1. Len(frames["main"]) \in Nat /\ Len(frames'["main"]) \in Nat
    <3>1. frames' \in [Threads -> Seq(Frame)]
      BY <1>1, HandlerBegins DEF SignalIgnored, ThreadTypes
    <3> QED BY <1>1, <3>1 DEF Threads
  <2> QED BY <1>3, <1>4, <2>1 DEF StopInv
<1>6. OneInRun' => ~running' /\ mainAt' = "run"
  <2>1. CASE SignalIgnored(s, t)
    BY <1>3, <2>1 DEF SignalIgnored, OneInRun
  <2>2. CASE Deliver(s, t)
    BY <1>2, <1>3, <2>2 DEF Deliver, OneInRun
  <2> QED BY <2>1, <2>2
<1> QED BY <1>5, <1>6 DEF StopInv

\* Nothing starts main() again after the signal.
LEMMA StopInvNext ==
  ASSUME CallInv, StopInv, [LifecycleNext]_lifecycleVars PROVE StopInv'
<1>1. CASE MainStep
  <2>1. frames' = frames /\ delivered' = delivered /\ (running' = running \/ mainAt = "listening")
    BY <1>1
    DEF MainStep, CreateServer, AllocateBuffer, InsertIntoPool, InsertIntoFreeList,
        InitializeFails, RegistrationFails, FailedInitializeCleansUp, BuildAndStart,
        SetRunning, LeaveRun, DestroyServer, DestroyPool, DestroyGrpcServer, ExitProcess
  <2>2. OneInRun => /\ mainAt' \in {"run", "exit", "destroy", "destroyed", "closing", "exited"}
                    /\ frames["main"] = <<>>
    BY <1>1
    DEF MainStep, CreateServer, AllocateBuffer, InsertIntoPool, InsertIntoFreeList,
        InitializeFails, RegistrationFails, FailedInitializeCleansUp, BuildAndStart,
        SetRunning, LeaveRun, DestroyServer, DestroyPool, DestroyGrpcServer, ExitProcess,
        Proceeds, StopInv
  <2> QED BY <2>1, <2>2 DEF StopInv, OneInRun
<1>2. ASSUME NEW w \in Workers, CallArrives(w) \/ WorkerStep(w)
      PROVE  StopInv'
  BY <1>2 DEF CallArrives, WorkerStep, EnterPool, LeavePool, StopInv, OneInRun
<1>3. ASSUME NEW t \in Threads, HandlerStep(t)
      PROVE  StopInv'
  <2>1. UNCHANGED <<mainAt, running, delivered>>
    BY <1>3 DEF HandlerStep, BeginShutdown, ShutdownReturns, EnterCleanup, HandlerReturns
  <2>2. /\ Len(frames'["main"]) <= Len(frames["main"])
        /\ frames["main"] = <<>> => frames'["main"] = <<>>
    BY <1>3, HandlersOfMain DEF CallInv
  <2>3. /\ Len(frames["main"]) \in Nat /\ Len(delivered) \in Nat
        /\ Len(frames'["main"]) \in Nat
    <3>1. frames'["main"] \in Seq(Frame)
      BY <1>3, HandlerGoesOn, HandlerEnds
      DEF CallInv, HandlerStep, BeginShutdown, ShutdownReturns, EnterCleanup, Threads
    <3> QED BY <3>1 DEF CallInv, ThreadTypes, Threads
  <2> QED BY <2>1, <2>2, <2>3 DEF StopInv, OneInRun
<1>4. ASSUME NEW s \in Signals, NEW t \in Threads, SignalIgnored(s, t) \/ Deliver(s, t)
      PROVE  StopInv'
  BY <1>4, SignalsStop
<1>5. CASE UNCHANGED lifecycleVars
  BY <1>5 DEF lifecycleVars, StopInv, OneInRun
<1> QED BY <1>1, <1>2, <1>3, <1>4, <1>5 DEF LifecycleNext

\* One signal that hits main() in run() blocks nobody: what ShutdownCompletes needs
\* besides threads that run.
THEOREM SignalBlocksNobody == LifecycleSpec => []ShutdownUnblocked
<1>1. LifecycleInit => StopInv
  BY DEF LifecycleInit, StopInv, OneInRun, Threads
<1>2. CallInv /\ StopInv /\ [LifecycleNext]_lifecycleVars => StopInv'
  BY StopInvNext
<1>3. CallInv /\ SectionInv /\ StopInv => ShutdownUnblocked
  <2> SUFFICES ASSUME CallInv, SectionInv, StopInv, OneInRun, mainAt # "exited"
               PROVE  ShutdownUnblocked
    BY DEF ShutdownUnblocked
  <2>1. ThreadTypes /\ "main" \in Threads /\ Workers \subseteq Threads /\ "main" \notin Workers
    BY LifecycleAssumption DEF LifecycleAssumption, CallInv, Threads
  <2>2. ~running /\ mainAt \in {"run", "exit", "destroy", "destroyed", "closing"}
        /\ (mainAt # "run" => frames["main"] = <<>>)
    BY DEF StopInv
  <2>3. AllOnMain
    BY DEF OneInRun, AllOnMain
  <2>4. \A w \in Workers : frames[w] = <<>> /\ Cleaning(w) = {}
    <3> SUFFICES ASSUME NEW w \in Workers
                 PROVE  frames[w] = <<>> /\ Cleaning(w) = {}
      OBVIOUS
    <3>1. frames[w] = <<>>
      BY <2>3 DEF CallInv, OnMainShape
    <3>2. DOMAIN frames[w] = {}
      BY <3>1
    <3> QED BY <3>1, <3>2 DEF Cleaning
  <2>5. \A w \in Workers : mutex = w <=> work[w] = "inside"
    BY <2>1, <2>4 DEF SectionInv, BaseCritical
  <2>6. mutex = "main" => mainAt = "destroy" \/ Cleaning("main") # {}
    BY <2>1, <2>2 DEF SectionInv, BaseCritical
  <2>7. Cleaning("main") # {} \/ mainAt \in {"exit", "destroy", "closing"} => Quiet
    BY <2>1, <2>3 DEF CallInv, HandlerShape, OnMainShape, Cleaning
  <2>8. ASSUME NEW w \in Workers, work[w] = "calling"
        PROVE  mutex = None \/ \E v \in Workers : mutex = v /\ work[v] = "inside"
    <3>1. mutex # "main"
      BY <2>6, <2>7, <2>8 DEF Quiet
    <3> QED BY <2>5, <3>1 DEF SectionInv, Threads
  <2>9. ASSUME HandlerAt("main", "cleanup")
        PROVE  mutex = None
    <3>1. /\ frames["main"] \in Seq(Frame) /\ Len(delivered) = 1
          /\ Len(frames["main"]) \in DOMAIN frames["main"]
          /\ frames["main"][Len(frames["main"])].at = "cleanup"
      BY <2>1, <2>9, RunningHandler DEF OneInRun, ThreadTypes
    <3>2. Quiet
      BY <2>1, <3>1 DEF CallInv, HandlerShape
    <3>3. DOMAIN frames["main"] = {Len(frames["main"])}
      BY <3>1 DEF StopInv
    <3>4. Cleaning("main") = {} /\ mainAt = "run"
      BY <2>2, <2>9, <3>1, <3>3 DEF Cleaning, HandlerAt
    <3>5. mutex # "main" /\ \A w \in Workers : mutex # w
      BY <2>5, <2>6, <3>2, <3>4 DEF Quiet
    <3> QED BY <3>5 DEF SectionInv, Threads
  <2>10. ASSUME mainAt = "exit"
         PROVE  frames["main"] = <<>> /\ mutex = None
    <3>1. frames["main"] = <<>> /\ Cleaning("main") = {} /\ Quiet
      BY <2>2, <2>7, <2>10 DEF Cleaning
    <3>2. mutex # "main" /\ \A w \in Workers : mutex # w
      BY <2>5, <2>6, <2>10, <3>1 DEF Quiet
    <3> QED BY <3>1, <3>2 DEF SectionInv, Threads
  <2>11. ASSUME mainAt = "closing"
         PROVE  frames["main"] = <<>> /\ \A w \in Workers : work[w] = "idle"
    BY <2>2, <2>7, <2>11 DEF Quiet
  <2> QED BY <2>2, <2>4, <2>8, <2>9, <2>10, <2>11 DEF ShutdownUnblocked
<1>4. CallInv => ThreadTypes
  BY DEF CallInv
<1> QED
  BY <1>1, <1>2, <1>3, <1>4, CallInvInit, CallInvNext, SectionInvInit, SectionInvNext, PTL
  DEF LifecycleSpec
=============================================================================
