# Verification of memory-demos

TLA+ models of the shared-memory servers and clients in this repository, TLC
configurations that check them on small instances, and TLAPS proofs of what
matters most about each of them for every size of the instance.

Run a check with `tlc -config MCPool.cfg MCPinnedMemoryPool.tla` and a proof with
`tlapm PinnedMemoryPoolProofs.tla`.

## 1. The system

The repository is a series of demos. Each has a server that makes a piece of
host memory and clients that open it by name and copy it to a GPU.

| Component | State | Operations | How it interacts |
|---|---|---|---|
| Demo 5 memory pool: `PinnedMemoryPool`, `MemorySegment` (`demo5/src/server.cpp` 34-248) | `pool_`, `free_list_`, the vector `segments_`; through its objects the names in `/dev/shm`, descriptors, mappings, CUDA registrations | `initialize`, `Allocate`, `Deallocate`, `cleanup` | called by gRPC threads under `mutex_`, by `main` and by the signal handler |
| Demo 5 service: `AllocatorServiceImpl` (251-308) | none of its own | `AllocateMemory`, `FreeSharedMemory` | gRPC calls from clients, one pool method per call |
| Demo 5 server lifecycle: `AllocatorServer`, `signalHandler`, `main` (311-394) | `running_`, `g_server`, the gRPC server | start, serve, shut down on a signal, exit | signal handler against `main` and against the gRPC threads |
| Demo 5 client (`demo5/src/client.cpp`) | `shm_name_`, `shm_fd_`, `mapped_memory_`, `is_allocated_` | `allocateMemory`, `freeMemory`, signal handler, `main` | two gRPC calls; opens the name it was told; signal handler against `main` |
| Demo 4b server (`demo4b/src/server.cpp`) | the `allocations` table, lock files in `/tmp`, object modes | `RequestSharedMemory`, `FreeSharedMemory` with revocation, `cleanupAll` | gRPC threads under `alloc_mutex` and `flock`; `main` shuts down |
| Demo 4b clients (`client.cpp`; `client2.cpp` is a probe) | one mapping | request, use, free, read again | gRPC calls, SIGBUS handler |
| Demo 4a server and client | the `allocations` table, objects named by the clock | `RequestSharedMemory`, `cleanupAll` | gRPC threads, `main`, objects that outlive the server |
| Demos 2 and 3a: two servers, three clients | one named object | create, size, fill, open, copy, unlink | through the object, without any handshake |
| Demo 1: a writer and a reader | one System V segment | create, write, read, destroy | through the segment |

What is hard about each, and what makes it correct:

- **Demo 5 pool.** The code is sequential under its mutex, but `MemorySegment`
  has a destructor that unmaps, closes and unlinks, and no copy or move
  operations, and it lives in a `std::vector`. Growing the vector and erasing
  from its middle run that destructor on objects whose twins live on. So the
  kernel state is changed by sequences of legal calls in a way no single method
  shows. Correct means: buffers are conserved whatever happens, names are
  unique, what `Allocate` has just returned is usable, and (where it holds)
  segments stay intact and nothing is left behind.
- **Demo 5 service and clients.** A grant, a free and their answers are in
  flight while the client gets a signal or dies, or the server shuts down, dies
  or restarts. The signal handler frees concurrently with `main`. Between
  `Shutdown()` and `cleanup()` the server refuses calls and still has its segments.
  Correct means: a freed segment is gone unless the free was refused there, a
  client's segment leaves only by its own request, every segment the server holds
  is accounted for, and no client waits for ever unless its call does.
- **Demo 5 sizes.** Two roundings of a `size_t` to an `int` number of segments,
  in the service and in the pool, must agree at every width.
- **Demo 4b server.** `revokeSharedMemoryAccess` gives up `alloc_mutex` and works
  on a copy of the `Allocation`. Descriptors may be closed and reused meanwhile,
  a lock file may be unlinked under a waiter. Correct means: the table stays
  true, nothing is emptied before access to it is revoked, calls return, locks
  are released, and shutdown leaves nothing.
- **Demo 5 server lifecycle.** The signal handler waits in `Shutdown()` for calls
  and takes `mutex_` in `cleanup()`, on top of whatever the thread it hits was
  doing: filling the pool, running a call, another handler. And while a handler on
  one of gRPC's threads waits, `main` leaves `run()` and destroys the pool. Correct
  means: no buffer is freed twice, and, for signals that come at the right moment or
  hit the right thread, a call finds its buffers, nothing is destroyed under a
  running call, and a shutdown completes.
- **Demo 4b as a whole.** The client ignores the answer to its free and reads
  again; SIGBUS is what tells it. Correct means: that read tells the truth, and
  calls and shutdown end although the server keeps a lock for each free.
- **Demo 4a.** Names are made from the clock, insertions take no mutex, shutdown
  races with both, and objects survive a killed server. Correct means: a name in
  a reply is one caller's and can be opened, and nothing is left at exit unless
  insertions raced.
- **Demos 2 and 3a.** Nothing orders the programs: a client may come before the
  object has a size or a message, a second server may open, resize and later
  unlink the first one's object. Correct means: who saw the message keeps it, a
  server alone keeps its name, and what is linked belongs to somebody.
- **Demo 1.** The first reader destroys the segment under whoever else uses it.
  Correct means: what was found with a message is read with it, and what was read
  is gone.

## 2. Modules

| Module | What it is |
|---|---|
| `BufferLedger` | abstract specification: a set of buffers, free or held in named groups, with `Open`, `Grant`, `Release`, `Close` |
| `PinnedMemoryPool` | the pool, its segment vector and the kernel state |
| `SerialPool` | the pool used with one segment at a time |
| `Demo5System` | service, clients and server life over `PinnedMemoryPool` |
| `SegmentArithmetic` | sizes to segments with the widths of the source |
| `ServerLifecycle` | Demo 5's server process: `main`, gRPC's threads, signal handlers |
| `PermissionLock` | the server of Demo 4b |
| `Demo4bSystem` | that server with the clients of `client.cpp`, with fairness |
| `Demo4aServer` | Demo 4a: handlers, `main`, clients, restarts |
| `NamedObject` | Demos 2 and 3a: both servers and the three clients on one name |
| `SysVSegment` | Demo 1 |
| `EarlyDemos` | the last three side by side |
| `PinnedMemoryPoolProofs`, `SerialPoolProofs`, `Demo5SystemProofs`, `SegmentArithmeticProofs`, `ServerLifecycleProofs`, `NamedObjectProofs` | theorems and proofs of the module in the name |
| `Demo4bSystemProofs` | theorems and proofs of `PermissionLock`, then of `Demo4bSystem` |
| `EarlyDemosProofs` | theorems and proofs of `SysVSegment` and `Demo4aServer`, then of `EarlyDemos`, with those of `NamedObjectProofs` |
| `MCPinnedMemoryPool`, `MCDemo5`, `MCLock`, `MCEarly` | symmetry sets for TLC; `MCDemo5` has a view too |

`Demo5System` EXTENDS the pool and conjoins its actions with the client's side,
so that a service handler is literally a pool action plus an answer; `Demo4bSystem`
does the same with `PermissionLock`. `SerialPool` restricts the next-state relation
of the module it extends. `EarlyDemos` runs one demo at a time, since
Demos 1 to 4a share no object: their state spaces are added, not multiplied.
`PinnedMemoryPool` instantiates `BufferLedger` with a refinement mapping: the free
set is `free_list_`, the groups are the names and buffers of `segments_`.

### PinnedMemoryPool and the code

- `segments` is `segments_`, a sequence of `MemorySegment` records; `capacity` is
  the vector's capacity, with libstdc++'s doubling. `Relocated` is what a growing
  `emplace_back` copies and destroys, `Erase` and `DestroyedByErase` are what
  `erase(it)` copies and destroys, and `Destroy` is `~MemorySegment` on a set of
  objects: by then a range or a number may stand for something else, and it is
  unmapped or closed all the same.
- `shm` is `/dev/shm` (it survives the process), `fd` and `mem` are the server's
  descriptors and address space at the granularity of `SEGMENT_SIZE`, `pinned`
  the ranges registered with CUDA.
- Every return of every method has an action: `AllocateSucceeds`,
  `AllocateRefused` (0 bytes, too few buffers), `AllocateFails` (any of the four
  OS error paths), `AllocateFaults` (SIGSEGV in `initializeMemoryPattern`),
  `DeallocateSucceeds`, `DeallocateRefused`, `Cleanup`, `InitializeSucceeds`,
  `InitializeFails`, and `Restart` for a new process over an old `/dev/shm`.
- A method holds `mutex_` from its first to its last statement, so it is one
  action. The kernel picks any free descriptor and any free range; the error
  paths leave nothing but the buffers they put back, so they are one action.
- `uuid_generate` is a name that nothing refers to. A name that nothing refers to
  any more may come back, which keeps the set of names finite.
- The result of `cudaHostRegister` is ignored by the code, so it may succeed or
  not; it never succeeds on a range that overlaps a registered one.

### Demo5System and the code

- `pc[c]` is where `main` of the client in slot `c` is: `requesting` in the first
  call, `granted` between the reply and `mapSharedMemory`, `using` from
  `is_allocated_ = true`, `freeing` in the second call, `done` after
  `freeMemory()`, `gone` after any other end. A slot runs one process after
  another.
- `call[c]` has one RPC in flight for `main` and one for the signal handler. A call
  is `sent`, `running` from `CallArrives` on, when a thread of gRPC's has taken it, and
  then has its gRPC status, from an action of the service or from `Unavailable` (no
  server takes it, or it goes before its answer does). `CallsLost` answers every call
  the server is in when its process ends.
- A shutdown is `ShutdownBegins` (`Shutdown()`, line 356: `draining`, no call is taken
  any more, those that run go on, `segments_` is as it was) and some time later
  `ServerCleansUp` (`cleanup()`, line 368). The second may come while calls still run,
  from the destructor of `g_server`, when the handler is on a thread of gRPC's; what
  they do after it is `ServeFromEmptied`, or they are lost with the process.
- `ShutdownInCall` is a signal on the thread of a call, or one on `main` in that
  destructor while the call waits for `mutex_`: the call is `stopped`, it and the
  handler wait for each other. The drain then need not end. Only the end of the
  process answers such a call.
- `Cancelled` is a call whose client died before a handler ran; a handler may as
  well run for a client that is dead, and grant to nobody.
- `abandoned` is a history variable: the segments left with the server by clients
  that were killed, were interrupted before `is_allocated_` was set, could not
  map what they were given, or asked in vain, since a draining server refused their
  free. It is what the accounting property compares with.

### ServerLifecycle and the code

- `mainAt` is where `main` is: before `g_server` is set, in the loop of
  `PinnedMemoryPool::initialize` (`initialize`, `insert_pool`, `insert_free`;
  `failing` in the `cleanup` of its error path), between `BuildAndStart` and
  `running_ = true` (`listening`), in `run`, returning with the destructor of
  `g_server` to come (`exit`), in that destructor's `cleanup` (`destroy`), between
  that and the destructor of `server_` (`destroyed`: the pool is gone, `mutex_` is
  given up, the process lives), in the latter, which shuts the server down if nobody
  has and waits for calls (`closing`), and `exited`.
- `frames[t]` are the handlers on top of thread `t`; only the last one runs, and
  the thread itself goes on when there is none. A signal may hit any thread of
  the process, as POSIX has it; a handler is interrupted by the other signal only.
- A handler goes through `shutdown` (`running_` is false already), `waiting` in
  `server_->Shutdown()`, `cleanup` (waiting for `mutex_`) and `cleaning`.
- `delivered` is a history variable: the thread each signal hit, and where `main`
  was. The properties that hold only for signals at good moments say so with it.
- Calls hold `mutex_` and do nothing else here; what they do to the pool is in
  `PinnedMemoryPool`, and what clients see of a shutdown in `Demo5System`.

### PermissionLock and the code

One action per critical section of `alloc_mutex` and per system call on the lock
file. `alloc[h]` is the handler's own `Allocation`: the new one in
`RequestSharedMemory`, the copy in `revokeSharedMemoryAccess`. `FreeStored` is the
second critical section of `FreeSharedMemory`; it passes the stored `Allocation`
to `releasePermissionLock`, whose `lockfd` is -1, so the lock is not released
there. Lock files have inodes of their own, since `unlink` removes a directory
entry and not the lock somebody waits for.

### Demo4bSystem and the code

One handler for each client slot, where processes run one after another. `client[c]`
is where `main` of `client.cpp` is, `told[c]` the name in its reply. A client that
was killed during a call leaves the handler to finish (`BackAt`). `freed_ok` is a
history variable: the client does not look at the result of its free, and
`SecondReadTells` says what the read after it is worth. `Sigbus` is
`sigbus_handler`, on the first read as on the second: `cleanupAll` may have emptied
the object in between.

### Demo4aServer and the code

- `at[c]` is one caller's progress, first its handler's (`creating`, `created`,
  `filled`, `inserting`), then its client's (`granted`, `mapped`).
- The clock only ticks forward; several calls may read the same tick, and `O_EXCL`
  sends them round the loop (`Retry`).
- The insertion at line 104 is two steps. If two overlap, an `unordered_map` is
  written by two threads: `raced` is set, and from then on an insertion may lose
  any entry. A crash is a case of `ServerKilled`, an endless loop one of a handler
  that takes no more steps.
- `Restart` is a new process over the old `/dev/shm`; `started` marks its objects.

### NamedObject and the code

- `linked` is the object named `/my_shared_mem`, `inode` what the objects contain,
  `shm_fd` what each process has open. An object without a name and without a
  descriptor is taken back (`Reclaim`). Mappings need no variable: every program
  keeps its descriptor to its end.
- The sizes of the programs differ and are kept by order: 4 KB, 25 GB, 40 GB.
  Touching what is past the end is SIGBUS (`TouchFaults`, `CopyFaults`);
  `cudaHostRegister` reports it instead.
- `demo3a_server`'s warm-up loop zeroes the first byte of every 4 MB and with it
  the message another server may have put there. `ShmOpenFails` unlinks the name,
  as the `goto cleanup` of that server does.
- `sole`, `orphan`, `promised` and `alone` are history: who opened an object, over
  which one a server was killed, which clients came when the message was there,
  which server is the only one started since.

### SysVSegment and the code

`key` is what `shmget(1234)` finds, `segment` what is in each segment. `IPC_RMID`
takes the key away; the segment is destroyed when the last process detaches
(`Destroys`). Identifiers of processes that still hold them are not used again.

## 3. What the runs show

| Run | Instance | Shows |
|---|---|---|
| `pool_ledger` | 3 buffers, 4 names, 3 descriptors, 4 pages, symmetry | types, conservation, unique names, fresh grants usable, the last element's name unlinked, refinement of `BufferLedger`, through vector growth, OS failures, crash and restart |
| `pool_serial` | 3 buffers, 3 names, 2 descriptors, 5 pages | with one segment at a time no fault, segments intact, nothing left behind, no stale registration |
| `pool_live_names` | as `pool_ledger` | **violated**: a live segment's name can be opened |
| `demo5_system` | 2 clients, 3 buffers, 3 names, 2 descriptors, 2 pages, symmetry, view | freed is gone unless a draining server refused it, segments accounted for, only own frees |
| `demo5_calls_return` | 2 clients, 1 buffer, 1 name, 1 descriptor | every call of a client returns, unless a call and `signalHandler()` wait for each other |
| `sizes` | 10-bit `size_t`, 5-bit `int`, all sizes | grant and reply agree; client sizes are served exactly |
| `lifecycle` | 2 gRPC threads, 2 buffers, 2 signals, 2 deliveries | no buffer freed twice, calls find their buffers but in two named cases, nothing destroyed under a call (if `main` handles the signals), one signal to `main` in `run()` ends the process with every buffer released |
| `lifecycle_signal_lost` | the same | **violated**: a signal that is handled ends the server |
| `demo4b_table` | 3 handlers, 2 names, 2 inodes, 5 descriptors, symmetry | table true, revoked before emptied, clean at exit |
| `demo4b_lock_kept` | 2 handlers | **violated**: the lock is released when a free returns |
| `demo4b_system` | 2 clients, 2 names, 2 inodes, 4 descriptors | calls return, shutdown completes, the right object is revoked, the read after the free tells |
| `early_demos` | Demo 1: 2 writers, 2 readers, 3 segments; Demos 2 and 3a: 2 servers, 1 client, 3 objects; Demo 4a: 3 callers, 3 ticks; symmetry | Demo 1: a message that was found is read, what was read is gone. Demos 2 and 3a: whose the name is, a lone server keeps it, a message that was there stays, who gets SIGBUS. Demo 4a: clean exit unless raced, a name told can be opened and is one caller's |

**Why the bounds are enough.** The vector's behaviours need two elements (first
relocation, erase before the last) and three (a relocation that destroys stale
twins, at capacity 2 to 4): three buffers allow three segments, and one segment
of two or three buffers. Four names leave one for a name that a dead server left
behind. Four pages allow a stale range to be reused by a region of another
length. `Requests` goes one past the buffers there are, so that refusal for want
of buffers happens. Two clients with a second caller each are enough for any
pairwise race on one segment and for a late free of a name somebody else might
have been given; slots are reused, so histories of any number of client processes
are covered. Three buffers let a third `Allocate` come, the first that can fault,
with the slot of a client that was killed used again. The liveness run has one
buffer, name and descriptor: the second client's request is refused or waits for
nothing but an answer, and what its answer is makes no difference to getting one.
The arithmetic keeps the order of the source's widths
(`int` narrower than `size_t`, segments smaller than both, every free count) and
tries every size there is. Two deliveries allow a handler nested in a handler and
handlers on two threads; two buffers a signal between two rounds of `initialize`;
two gRPC threads one that is hit and one that holds `mutex_`. (What was proved of
this module was also checked with three deliveries.) Three handlers allow a holder, a waiter and a newcomer
on one lock file. `demo4b_system` needs two clients: one is the other's environment,
and a slot runs processes again and again.
In `early_demos` two writers and two readers make every pair, and a third segment is
there while the first two are still attached; clients of Demos 2 and 3a never
write, so one of them sees all that two would, and two servers with three objects
allow a name that is taken, reused and lost; three callers allow a race of two
insertions with a third in front of it, and three ticks a restart before and
after which names collide.

**Deadlock** is checked in every run but three: `sizes`, which stops after its one
reply, and the two on `ServerLifecycle`, where threads really do wait for
themselves and where `run()` sleeps when the bound on signals is used up. `PermissionLock` has an explicit `Exited` step for
the process that has ended.

**View.** `demo5_system` compares states without `pinned` and with numbers of buffers in
place of buffers: no guard of `Demo5System` reads what CUDA has registered, and the
guards that read `free_list` compare its size. `pool_ledger` checks conservation on the
buffers themselves.

**Symmetry** is used in runs that check invariants and action properties only;
the runs with liveness properties use none. In `early_demos` it is of the servers and
objects only, since every state is compared under every permutation.

**Fairness.** `demo5_calls_return` assumes weak fairness of three things, for each
client: its call is answered (a gRPC thread takes a call that has arrived and goes
on with it, under a mutex every holder gives up, or the channel reports the server
gone), a client that is answered goes on, and a client with a grant goes on to map
it. The first holds only while no call is `stopped`: one that is may hold `mutex_`,
and the code has no deadline that would end it, so nothing is then assumed of any
call, and `CallsReturn` says "or `CallStopped`". Users, signals, kills and restarts are
free to happen or not. The two runs on `ServerLifecycle`
assume that threads and handlers go on, and nothing of calls and signals.
`demo4b_system` assumes that a handler that has begun goes on, and that `main` goes on after
`Shutdown()`, and nothing of the clients. Waiting in `flock` is a disabled step, so it is not assumed to end,
and a failure of `flock` that would end it is not assumed to come. `early_demos` has no
liveness: nothing in those programs makes anybody come.

## 4. What the runs found

1. `segments_.emplace_back` (`demo5/src/server.cpp:193`): at the second concurrent
   allocation the vector grows, the copied-from segment is destroyed, and the first
   client's name is unlinked, although it was given that name and may not have
   opened it. A client that has mapped it already keeps its mapping.
2. The same, one allocation later (`:195`): the stale twin of the first segment
   unmaps by address, and the address may belong to the region just mapped; the
   pattern is then written to an unmapped page. (`NeverFaults` is violated in
   `PoolSpec` as well; the two are one finding, so only the first has a run.)
3. `initialize` sets `running_ = true` (`:342`) whatever a signal has made of it:
   a signal during `PinnedMemoryPool::initialize` empties the pool, and the server
   then comes up all the same, possibly with a freed buffer in `free_list_`; one
   between `BuildAndStart` and that line leaves a server that runs on with its
   listener closed. A signal that hits a gRPC thread inside a call waits for that
   call to end, which it interrupts.
4. `demo4b/src/server.cpp:253`: the lock descriptor is in a local copy only, so the
   lock is never released after a successful free. A second free of that name that
   waits for it waits for ever, and so does `Shutdown()`.

What holds nevertheless is as telling: with all of 1 and 2 the pool's own books
(`free_list_`, `segments_`, names) are never wrong, what has just been granted is
usable at that moment unless the server faults, and clients get out of their
calls as long as no call and signal handler wait for each other. `SerialPool` and `Demo4bSystem` say under which use each server does what
it is meant to do: one segment at a time, and clients that free only their own
name, which those of `client.cpp` do. `ServerLifecycle` says when a signal does what the message in the
handler promises: when it hits `main` in `run()`.

Met while modelling, where no run is needed to see it or no text of the repository
says otherwise:

- `demo5/src/server.cpp:356` and `:368`: a free that comes while `Shutdown()` waits for
  calls is refused with UNAVAILABLE, and the segment stays in `segments_` until
  `cleanup()`, for ever if the drain hangs as in 3. The client is through
  `freeMemory()` all the same and prints "Memory freed successfully"
  (`client.cpp:103`). `FreedIsGone` says that this is the only way to be through with
  it while the server has the segment.
- A signal on a thread of gRPC's waits in `Shutdown()` with `running_` already false:
  `main` leaves `run()`, destroys the pool and gives up `mutex_`, and a call that waited
  for it goes on in a pool that is emptied, and then destroyed, with the process still
  there because `~Server` waits for that very call. `CallsFindBuffers` says that this
  and a signal during `initialize` are the only ways to such a call.
- `demo4a/src/server.cpp:151` prints "All shared memory cleaned up."; after two
  insertions have overlapped it may not be (`CleanUnlessRaced` says that this is
  the only way).
- The same file calls `request->client_id()`, which its `.proto` does not have.
- `demo3a_client_throughput.cpp` frees `d_data` at its label `cleanup`, which an
  earlier error reaches before the variable is set.
- A client of Demo 1 that attaches before the writer's `strcpy` reads an empty
  segment and then destroys it; those of Demos 2 and 3a that come before
  `ftruncate` die of SIGBUS. `ToldIsRead`, `PromiseKept` and `FaultsExplained`
  say that nothing else of the kind happens while servers are alone.

The arithmetic has an edge no run objects to: `num_buf` is an `int`, so a request
of 2^31 segments or more, which `client.cpp` cannot send, is cut to its low bits
and granted or refused as if it were the rest; `ClientServedExactly` is stated for
the sizes the client can send.

## 5. What is proved

For every set of buffers, names and descriptors and every number of pages, under
`PoolAssumption` (the number of pages is a natural number, the buffers are
finitely many, and "no object" is not a name):

- `PoolInvariant`: `PoolInv == PoolTypeOK /\ BuffersConserved /\ NamesUnique` is an
  invariant of `PoolSpec`. It is inductive as it stands, because the kernel's
  state, which the destructors spoil, occurs in it only as a type. The proof has
  one lemma per idea (`Append` and `Erase` as sets of elements, what a relocation
  leaves of the types) and one step per action. The only delicate actions are
  `AllocateSucceeds`, where the new buffers come from `free_list_` and are
  disjoint from every segment, and `DeallocateSucceeds`, where an index is taken
  out of a sequence and the others move.
- `TypeCorrect`, `Conservation`, `UniqueNames` follow.
- `Refinement`: `PoolSpec => ImplementsLedger`. Initial states map to initial
  states, and each action maps to `Open`, `Grant`, `Release`, `Close` or a stutter.
  Unique names make `Release` take exactly one group out of the mapped set.
- `GrantUsable`: the action property `GrantIsUsable`. A relocated object's name
  differs from the fresh one and, unless the step is `AllocateFaults`, no relocated
  range reaches into the new region.
- `LastUnlinked`: the action property `LastInIsUnlinked`.

For `SerialSpec`, from the same assumption:

- `SerialInvariant`: `SerialInv` adds `SegmentsIntact`, `NothingLeftBehind`,
  `RegistrationsCurrent`, `SerialShape` and `NeverFaults` to `PoolInv`. Here
  the kernel's state matters, and the parts need each other: that `Destroy` on the
  one segment empties the kernel needs `NothingLeftBehind`; that nothing is
  relocated needs `Len(segments) <= 1` from `SerialShape`, and that a new vector is
  not full without being empty; that `cudaHostUnregister` leaves nothing needs
  `RegistrationsCurrent` before the step.
- `Intact`, `NothingLeft`, `Registrations` and `NoFault` follow.

For `SystemSpec`, the service and its clients over the pool, from `PoolAssumption`
and `SystemAssumption` (nobody asks for 0 segments), with any number of clients:

- `SystemInvariant`: `SystemInv == PoolInv /\ ClientsInv`. The pool's half is kept
  because of `PoolOfSystem`: a step of the system is a step of the pool, or the end
  of its process (`PoolKilled`), or a client's `shm_unlink`, which takes a name and
  leaves the process alone (`PoolUnlinked`).
- The clients' half is there because none of the properties is inductive.
  `FreedIsGone` needs that a free answered OK or INVALID_ARGUMENT means the name is
  gone, and one answered UNAVAILABLE the same or that the server is draining:
  `CallFits` says so of each call in flight, and that a free carries the
  name its client was granted. That this stays so while other requests are served
  needs that nobody is granted a name somebody may still ask to free: `ClientsApart`,
  the heart, says that no name is with two clients, counting what dead clients have
  in flight. `CallsFit` ties the calls to where `main` is, so that a handler's
  answer cannot be taken for `main`'s.
- `SystemTypes`, `SystemConserves`, `FreedStaysGone`, `Accounted` and `NoSharing` follow.
- `OwnFrees`: the action property `OnlyOwnFrees`, since a step that takes a name out of
  `segments_` and leaves the server up is a `ServeFree` of that name (`SegmentsChange`),
  and by `ClientsApart` that call is its own client's.
- `SystemRefinement` and `SystemGrantUsable`: `ImplementsLedger` and `GrantIsUsable` hold
  with clients as well, by `PoolOfSystem`. `LastInIsUnlinked` is not claimed here: a
  server that is killed empties `segments_` and unlinks nothing, which is where
  names without an owner in `/dev/shm` come from.
- `CallsAnswerable`: `NobodyStuck`. Whoever waits in a call has its answer, in a form
  `main` can act on, or a call that the server or the channel can answer, or some call
  is stopped (`CallForm` says what a call in flight looks like at each place of `main`,
  `ServiceLives` that a call runs only where there is a process). Of `CallsReturn`
  this is the part without fairness.

For `ArithmeticSpec`, at every width, from `ArithmeticAssumption`: `int` has an even
number of values, `size_t` as many as a multiple of `int`'s times `SEGMENT_SIZE`, a
segment is at least 1 MB, and there are fewer segments than `int` has positive values.
The source's powers of two (2^64, 2^32, 2^22, 2^20) and 2560 segments satisfy all of
it. The widths are given as numbers of values, because the provers know nothing of
exponents.

- `GrantsMatch`: `GrantMatchesReply`. The service rounds up and cuts to `int`; the
  product wraps to `size_t`; the pool rounds that and cuts it again. `RoundedTwice`
  says that the second rounding gives the first one's number back: for a positive one
  because the product does not wrap, for a negative one because the sum that wraps
  wraps by a multiple of `IntValues * SegmentSize`, which the cut to `int` undoes.
- `ClientsServed`: `ClientServedExactly`. No size of `ClientSizes` comes near a width
  (`ClientRounding`), and the quotient rounded up is the least number of segments.

For `LifecycleSpec`, from `LifecycleAssumption` (`main` is not one of gRPC's threads,
and "none" is neither a thread nor a buffer), with any number of threads, buffers,
signals and deliveries:

- `FreedOnce`: `NeverFreedTwice`. It is not inductive: a handler that interrupts
  `initialize` frees what is in `pool_`, and the buffer in hand must not be among
  it. `BufferInv` adds that `pool_` holds only buffers `initialize` has been through
  and that the one in hand is allocated and not in `pool_` yet.
- `BuffersFound`: `CallsFindBuffers`, and `ServiceOutlives`: `ServiceOutlivesCalls`,
  from `CallInv`. Its heart is `HandlerShape`: a handler that is past `Shutdown()`
  implies that no call is left and none can come (`Quiet`), which no later step
  undoes. `FilledShape` says that the sets are full until then or until `main` destroys
  the pool, which are the two places `CallsFindBuffers` tells apart; `OnMainShape` that,
  if all signals hit it, `main` leaves `run()` only after such a handler.
- `LifecycleInvariant`: `LifecycleTypeOK`, mutual exclusion on `mutex_`, from `SectionInv`.
  A thread is a stack of code, so that who holds `mutex_` does not say which frame
  does: `SectionInv` adds that at most one frame of a thread, its own code or one of
  its handlers, is in a critical section, so that leaving it leaves them all.
- `BuffersReleased`: `AllReleased`, from `ReleaseInv`. A server that came up leaves no
  pinned buffer when its process ends, also when a signal came during `initialize`.
- `SignalBlocksNobody`: `ShutdownUnblocked`, from `StopInv`. After one signal that hits
  `main` in `run()`, `running_` is false for good, a call that wants `mutex_` finds it
  free or with a call that runs, `cleanup()` finds it free in the handler and in
  the destructor, and `~Server` finds no call to wait for. Of `ShutdownCompletes` this is the part without fairness.

For `LockSpec`, the server of Demo 4b under any calls, from its assumption on names,
with any number of handlers, names, inodes and descriptors:

- `TableTrue`: `TableIsTrue`, `LockTypeCorrect`, `ExitClean` and `RevokedFirst`, from
  `LockInv`. The table alone is not inductive, because handlers close and open
  descriptors by copies: `CreatedIsPrivate` says that a new object is its
  handler's alone, `LockfilesApart` that lock files have descriptors of their own
  (so that closing one closes no object), and `CopyIsCurrent`, the heart, that a
  copy either still is what is stored or its name is gone for good, since names
  never come back.
- `LockExcludes`: `flock` excludes, whoever calls and whatever is closed by copies of
  descriptor numbers (`FlockExcludes`, from `FlockInv`): a lock's descriptor is the
  handler's own until it closes it (`LockDescriptors`), so nobody else drops the lock.

For `Demo4bSpec`, on top of `LockInv`:

- `ServerRefined`: it implies `LockSpec`, so all of the above holds of it. Of each
  client's step it is shown which step of the server it is, or that it is none.
- `SecondRead` and `RevokesOwn`: `SecondReadTells` and `RevokesOwnObject`. `Demo4bInv`
  adds that names are told once (`ToldApart`), that each client frees its own
  (`FreesOwn`), so that an entry never goes while a copy of it is in use, and that
  an object is emptied by its own client's free (`EmptiedByOwnFree`).
- `NobodyWaits`: `FlockNeverWaits`, from `PathInv`. A free that is done closes no lock
  descriptor, so its lock file stays locked; but a lock file has one name's
  handler only (`LocksCurrent`, `HeldByOwner`), and after it the name is gone. So no
  handler that comes to `flock` ever finds the lock taken.

For Demos 1 to 4a, each from the assumption of its module, for any number of
processes, objects and ticks. The run checks them under `EarlySpec`, which takes
the steps of one of them; `EarlyImplements` says that it implies `SysVSpec`,
`NamedSpec` and `Demo4aSpec`, so that each result holds there, and `EarlyTypes` is the
type correctness of all three:

- `ToldReads` and `ReadGone` (`SysVSpec`), from `SysVInv`: what is found by the key or
  attached is there, which a destruction can take only from nobody.
- `NameAccounted`, `NameStays`, `PromiseHolds` and `FaultsAreExplained` (`NamedSpec`),
  from `NamedInv`. Its heart is `SoleShape`: an object one server alone has opened is
  as that server has left it, sized for its program and without text until it
  writes. `Reclaimed` gives a new object to start from, and `MessageSized` the size a
  client's copy needs. The proof has one lemma per kind of step: a server working
  on its object, a process ending, an opening by either side.
- `LeftClean`, `GrantsOpen` and `GrantsDiffer` (`Demo4aSpec`), from `Demo4aInv`: no two
  callers have one name (`NamesApart`), because what a name stands for is there
  until its server's `main` returns (`ObjectsThere`) and `O_EXCL` refuses it; and the
  table or a handler knows every object (`ObjectsKnown`) as long as no insertions
  have overlapped.

**Only model-checked:** the liveness properties (`CallsReturn` of both systems,
`ShutdownCompletes`): liveness under fairness and `ENABLED` are out of the
prover's reach. What can be proved of them is: that nobody waits for something that
cannot come (`CallsAnswerable`, `NobodyWaits`, `SignalBlocksNobody`) and what holds at the
end (`BuffersReleased`). That the steps which are then possible are taken is fairness,
and stays with TLC. All other properties of the passing runs are theorems. No module
uses RECURSIVE operators, and no property is an induction over data, which would be
out of reach as well. The three violations are counterexamples on an instance and
need no proof.

## 6. What is left out, and why

- Logging, patterns written to memory, CUDA copies and timing: no property is
  about them.
- The server's other descriptors (sockets, files). A stale number can therefore
  close only another segment's descriptor in the model; in the program it can close
  a socket as well.
- A client runs one signal handler at a time, and CUDA failures in its `main` are
  the `FreeMemory` step they lead to. The second `close` of one descriptor in the
  client's `mmap` error path is in a process that is about to end, and has no effect on
  what is modelled.
- gRPC calls fail only when the server goes. A call lost while it lives would be
  a restart of the transport, and no code in `src/` retries.
- The clock of Demo 4a is not set back, and a restart takes longer than a tick: the
  names of a new server are not those of the old one's clients. This is assumed, not
  shown. Reading the clock (line 53) and `shm_open` are one step, so a handler does
  not hold on to an earlier tick's name; `O_EXCL` would refuse it if it were taken.
- A failing `ftruncate` or `shm_unlink` in the free and in the cleanup of Demo 4b's
  server (244-246, 255-257, 296-298, 305-307), after which the code goes on and answers
  OK: `SecondReadTells` and `CleanAtExit` hold when those calls succeed.
- A `/dev/shm` that is full. Its objects are sparse, so that a store could then raise
  SIGBUS in Demos 2 and 3a although the object is long enough; `FaultsExplained`
  takes memory as available.
- Page faults in Demos 2 and 3a are those of the first page and of the warm-up
  loop's last; a copy or a timing loop is one step.
- `access_revoked` in Demo 4b is written and never read.
- In `PinnedMemoryPool` each method is one action, `Cleanup` too; `Demo5System` puts the
  drain before it, and how the server's threads get there, or do not, is
  `ServerLifecycle`. A kill in the middle of a pool method, which leaves half of
  its names in `/dev/shm`, is taken as one before or after it. A signal during
  `initialize` is in `ServerLifecycle` only.
- In `ServerLifecycle` an insertion into a `std::set` is not interrupted halfway (the
  code would then work on a broken tree). What a call does with a destroyed pool is
  undefined; it is taken to go through `mutex_` and find nothing, or to be lost with the
  process. A second `Shutdown()` and `~Server` wait for calls as the first does, which
  is what gRPC documents.
- `demo4b/src/test_server.cpp` is named by no build file and does not compile;
  `client2.cpp` is a probe with a hard-coded name, an endless loop of prints that
  calls no server.

## 7. Plan

Done, by importance:

1. **Pool**: `BufferLedger`, `PinnedMemoryPool`, `SerialPool`, their runs and proofs.
2. **Demo 5 as a system**: `Demo5System`, `SegmentArithmetic`.
3. **Demo 4b server**: `PermissionLock` and its proofs.
4. **Demo 5 lifecycle**: `ServerLifecycle`, its runs and proofs.
5. **Demo 4b as a whole**: `Demo4bSystem`, its refinement of `PermissionLock`, liveness.
6. **Demos 1 to 4a**: `SysVSegment`, `NamedObject`, `Demo4aServer`, their proofs.

7. **Proofs of the rest**: `Demo5SystemProofs`, `SegmentArithmeticProofs`, and
   `EarlyImplements`, which carries the results on Demos 1 to 4a to what the run checks.

Left:

8. **`ServerLifecycle` and `Demo5System`**: a refinement that maps the handler's steps of
   the first to `ShutdownBegins`, `ShutdownInCall` and `ServerCleansUp` of the second.
9. **Demo 4b**: failing `ftruncate` and `shm_unlink`, and a second read that says so.
