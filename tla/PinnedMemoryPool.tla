-------------------------- MODULE PinnedMemoryPool --------------------------
(***************************************************************************)
(* The memory pool of demo5/src/server.cpp: class PinnedMemoryPool, the    *)
(* vector of MemorySegment objects it keeps, and the kernel and CUDA state *)
(* its methods change.                                                     *)
(*                                                                         *)
(* Allocate, Deallocate and cleanup run under mutex_ from their first      *)
(* statement to their last, so each is one action; initialize runs before  *)
(* any other thread exists.  Lengths and addresses are counted in units of *)
(* SEGMENT_SIZE.                                                           *)
(*                                                                         *)
(* MemorySegment declares a destructor and no copy or move operations, so  *)
(* C++ gives it member-wise copies.  Whatever std::vector copies it also   *)
(* destroys, and each destruction unmaps, closes and unlinks by the        *)
(* numbers and the name it finds in the object.                            *)
(***************************************************************************)
EXTENDS Integers, Sequences, FiniteSets, Functions

CONSTANTS
  Buffers,   \* the NUM_SEGMENTS buffers of aligned_alloc
  Names,     \* the names "/shm_<uuid>" can take
  Fds,       \* the descriptor numbers shm_open can return
  NumPages,  \* size of the address space mmap chooses from
  NoObject   \* an unmapped page, a closed descriptor

ASSUME PoolAssumption ==
  /\ NumPages \in Nat
  /\ NoObject \notin Names
  /\ IsFiniteSet(Buffers)

Pages == 0 .. NumPages - 1

\* MemorySegment; length is addr's extent.
MemorySegment == [shm_name : Names, shm_fd : Fds, addr : Pages,
                  length : Nat, buffers : SUBSET Buffers]

VARIABLES
  phase,      \* life of the process around the pool
  pool,       \* pool_
  free_list,  \* free_list_
  segments,   \* segments_, in vector order
  capacity,   \* segments_.capacity()
  shm,        \* the names linked in /dev/shm; they outlive the process
  fd,         \* descriptor table of the server: the object each one has open
  mem,        \* address space of the server: the object each page maps
  pinned      \* the ranges cudaHostRegister registered for segments

processVars == <<pool, free_list, segments, capacity>>
kernelVars == <<shm, fd, mem>>
poolVars == <<phase, processVars, kernelVars, pinned>>

Region(m) == m.addr .. m.addr + m.length - 1

LiveNames == {m.shm_name : m \in Range(segments)}

PoolInit ==
  /\ phase = "new"
  /\ pool = {} /\ free_list = {} /\ segments = <<>> /\ capacity = 0
  /\ shm = {}
  /\ fd = [d \in Fds |-> NoObject]
  /\ mem = [p \in Pages |-> NoObject]
  /\ pinned = {}

-----------------------------------------------------------------------------
\* initialize(): every buffer is allocated, registered and put in both sets.
InitializeSucceeds ==
  /\ phase = "new"
  /\ phase' = "ready"
  /\ pool' = Buffers
  /\ free_list' = Buffers
  /\ UNCHANGED <<segments, capacity, kernelVars, pinned>>

\* initialize(): aligned_alloc or cudaHostRegister fails for one buffer; the
\* ones before it are released by cleanup(), now or in the destructor.
InitializeFails ==
  /\ phase = "new"
  /\ phase' = "cleaned"
  /\ UNCHANGED <<processVars, kernelVars, pinned>>

-----------------------------------------------------------------------------
\* Mutant: a ~MemorySegment that unmaps and closes but does not unlink.
DestroyWithoutUnlink(D, n, f, m) ==
  /\ shm' = n
  /\ fd' = [d \in Fds |-> IF \E x \in D : x.shm_fd = d THEN NoObject ELSE f[d]]
  /\ mem' = [p \in Pages |-> IF \E x \in D : p \in Region(x) THEN NoObject ELSE m[p]]

\* ~MemorySegment for every object in D, in a kernel whose state is (n, f, m):
\* munmap takes whatever the range maps by now, close whatever the number is
\* open on by now, shm_unlink the name.
Destroy(D, n, f, m) ==
  /\ shm' = n \ {x.shm_name : x \in D}
  /\ fd' = [d \in Fds |-> IF \E x \in D : x.shm_fd = d THEN NoObject ELSE f[d]]
  /\ mem' = [p \in Pages |-> IF \E x \in D : p \in Region(x) THEN NoObject ELSE m[p]]

\* emplace_back into a full vector copies the elements to a larger array and
\* destroys the originals.
Relocated == IF Len(segments) < capacity THEN {} ELSE Range(segments)

NextCapacity ==
  IF Len(segments) < capacity THEN capacity
  ELSE IF capacity = 0 THEN 1 ELSE 2 * capacity

\* Mutant: pop_back() in place of erase(it).
EraseLast(s, i) == SubSeq(s, 1, Len(s) - 1)

\* erase(it) copy-assigns each later element one place down and destroys the
\* object in the last place.
Erase(s, i) == [j \in 1 .. Len(s) - 1 |-> IF j < i THEN s[j] ELSE s[j + 1]]

DestroyedByErase(s, i) == {s[Len(s)]}

\* Mutant: a name that only O_EXCL has checked.
NameNotLinked(s) == s \notin shm

\* uuid_generate: a name nobody refers to.  Names no longer referred to may
\* come back, which keeps Names finite over unbounded histories.
FreshName(s) ==
  /\ s \notin shm \cup LiveNames
  /\ s \notin Range(fd) \cup Range(mem)

\* cudaHostRegister on the region of m; its result is not looked at.  A range
\* that overlaps a registered one is refused.
RegisterRegion(m) ==
  LET r == [addr |-> m.addr, length |-> m.length]
      overlaps(q) == Region(q) \cap Region(r) # {}
  IN \/ pinned' = pinned
     \/ /\ \A q \in pinned : ~overlaps(q)
        /\ pinned' = pinned \cup {r}

-----------------------------------------------------------------------------
\* The part of Allocate(n segments) that takes n buffers of free_list_, opens,
\* sizes and maps the object of m, up to segments_.emplace_back.
CanMap(n, m) ==
  /\ phase = "ready"
  /\ n > 0
  /\ m.length = n
  /\ m.buffers \subseteq free_list
  /\ Cardinality(m.buffers) = n
  /\ FreshName(m.shm_name)
  /\ fd[m.shm_fd] = NoObject
  /\ Region(m) \subseteq Pages
  /\ \A p \in Region(m) : mem[p] = NoObject

\* Mutant: segments_.push_back(MemorySegment(...)), whose temporary is destroyed
\* together with the relocated objects.
MapAndPushBack(m) ==
  Destroy(Relocated \cup {m},
          shm \cup {m.shm_name},
          [fd EXCEPT ![m.shm_fd] = m.shm_name],
          [p \in Pages |-> IF p \in Region(m) THEN m.shm_name ELSE mem[p]])

\* The kernel after m is opened and mapped and emplace_back has destroyed the
\* objects it relocated.
MapAndEmplace(m) ==
  Destroy(Relocated,
          shm \cup {m.shm_name},
          [fd EXCEPT ![m.shm_fd] = m.shm_name],
          [p \in Pages |-> IF p \in Region(m) THEN m.shm_name ELSE mem[p]])

\* Mutant: push_back, whose temporary unmaps the region it was given.
ClobberedByTemporary(m) ==
  \E x \in Relocated \cup {m} : Region(x) \cap Region(m) # {}

\* A relocated object's range reaches into the region just mapped.
Clobbered(m) == \E x \in Relocated : Region(x) \cap Region(m) # {}

\* Allocate() returns 0.
AllocateSucceeds(n, m) ==
  /\ CanMap(n, m)
  /\ ~Clobbered(m)
  /\ free_list' = free_list \ m.buffers
  /\ MapAndEmplace(m)
  /\ RegisterRegion(m)
  /\ segments' = Append(segments, m)
  /\ capacity' = NextCapacity
  /\ UNCHANGED <<phase, pool>>

\* Process exit: the kernel drops descriptors and mappings, not the names.
ProcessGone ==
  /\ pool' = {} /\ free_list' = {} /\ segments' = <<>> /\ capacity' = 0
  /\ fd' = [d \in Fds |-> NoObject]
  /\ mem' = [p \in Pages |-> NoObject]
  /\ pinned' = {}

\* Allocate(): initializeMemoryPattern writes to a page that emplace_back has
\* just unmapped, and SIGSEGV ends the server.
AllocateFaults(n, m) ==
  /\ CanMap(n, m)
  /\ Clobbered(m)
  /\ phase' = "crashed"
  /\ shm' = (shm \cup {m.shm_name}) \ {x.shm_name : x \in Relocated}
  /\ ProcessGone

\* Mutant: an error path that forgets to put the buffers back.
PutNothingBack(B) == {}

\* The buffers an error path of Allocate() puts back into free_list_.
PutBack(B) == B

\* Allocate(): shm_open, ftruncate or an mmap fails; what was done is undone
\* and -1 returned.
AllocateFails(n) ==
  /\ phase = "ready"
  /\ n > 0
  /\ \E B \in SUBSET free_list :
       /\ Cardinality(B) = n
       /\ free_list' = (free_list \ B) \cup PutBack(B)
  /\ UNCHANGED <<phase, pool, segments, capacity, kernelVars, pinned>>

\* Allocate() touches nothing: -1 for no bytes at all, else how many buffers are
\* missing.
AllocateRefused(n) ==
  /\ phase = "ready"
  /\ n = 0 \/ n > Cardinality(free_list)
  /\ UNCHANGED poolVars

-----------------------------------------------------------------------------
\* Mutant: the buffers are put back after erase(it), when it stands for the
\* element that moved into the place.
DeallocateErasesFirst(s) ==
  /\ phase = "ready"
  /\ \E i \in DOMAIN segments :
       /\ segments[i].shm_name = s
       /\ pinned' = {r \in pinned : r.addr # segments[i].addr}
       /\ segments' = Erase(segments, i)
       /\ free_list' = free_list \cup
            UNION {segments'[j].buffers : j \in {i} \cap DOMAIN segments'}
       /\ Destroy(DestroyedByErase(segments, i), shm, fd, mem)
  /\ UNCHANGED <<phase, pool, capacity>>

\* Mutant: no cudaHostUnregister.
DeallocateKeepsPinned(s) ==
  /\ phase = "ready"
  /\ \E i \in DOMAIN segments :
       /\ segments[i].shm_name = s
       /\ free_list' = free_list \cup segments[i].buffers
       /\ segments' = Erase(segments, i)
       /\ Destroy(DestroyedByErase(segments, i), shm, fd, mem)
  /\ UNCHANGED <<phase, pool, capacity, pinned>>

\* Deallocate(name) of a segment that exists returns 0.
DeallocateSucceeds(s) ==
  /\ phase = "ready"
  /\ \E i \in DOMAIN segments :
       /\ segments[i].shm_name = s
       /\ pinned' = {r \in pinned : r.addr # segments[i].addr}
       /\ free_list' = free_list \cup segments[i].buffers
       /\ segments' = Erase(segments, i)
       /\ Destroy(DestroyedByErase(segments, i), shm, fd, mem)
  /\ UNCHANGED <<phase, pool, capacity>>

\* Deallocate(name) of a name no segment has returns -1.
DeallocateRefused(s) ==
  /\ phase = "ready"
  /\ s \notin LiveNames
  /\ UNCHANGED poolVars

\* Mutant: cleanup() without free_list_.clear().
CleanupKeepsFreeList ==
  /\ phase = "ready"
  /\ phase' = "cleaned"
  /\ Destroy(Range(segments), shm, fd, mem)
  /\ pool' = {} /\ segments' = <<>>
  /\ UNCHANGED <<free_list, capacity, pinned>>

\* cleanup(), from signalHandler; regions stay registered with CUDA.
Cleanup ==
  /\ phase = "ready"
  /\ phase' = "cleaned"
  /\ Destroy(Range(segments), shm, fd, mem)
  /\ pool' = {} /\ free_list' = {} /\ segments' = <<>>
  /\ UNCHANGED <<capacity, pinned>>

\* The operator starts the server again: a new process, the old /dev/shm.
Restart ==
  /\ phase \in {"cleaned", "crashed"}
  /\ phase' = "new"
  /\ ProcessGone
  /\ UNCHANGED shm

-----------------------------------------------------------------------------
\* The requests Next makes: up to one segment more than there are buffers.
Requests == 0 .. Cardinality(Buffers) + 1

NewSegments(n) ==
  [shm_name : Names, shm_fd : Fds, addr : Pages, length : {n},
   buffers : SUBSET free_list]

PoolNext ==
  \/ InitializeSucceeds
  \/ InitializeFails
  \/ \E n \in Requests : \E m \in NewSegments(n) : AllocateSucceeds(n, m)
  \/ \E n \in Requests : \E m \in NewSegments(n) : AllocateFaults(n, m)
  \/ \E n \in Requests : AllocateFails(n)
  \/ \E n \in Requests : AllocateRefused(n)
  \/ \E s \in Names : DeallocateSucceeds(s)
  \/ \E s \in Names : DeallocateRefused(s)
  \/ Cleanup
  \/ Restart

PoolSpec == PoolInit /\ [][PoolNext]_poolVars

-----------------------------------------------------------------------------
\* The pool's variables have their types, free_list_ stays inside pool_, the
\* vector inside its capacity, and nothing survives in a process that is gone.
PoolTypeOK ==
  /\ phase \in {"new", "ready", "cleaned", "crashed"}
  /\ pool \in SUBSET Buffers
  /\ free_list \in SUBSET pool
  /\ segments \in Seq(MemorySegment)
  /\ capacity \in Nat
  /\ Len(segments) <= capacity
  /\ shm \in SUBSET Names
  /\ fd \in [Fds -> Names \cup {NoObject}]
  /\ mem \in [Pages -> Names \cup {NoObject}]
  /\ pinned \in SUBSET [addr : Pages, length : Nat]
  /\ phase # "ready" => pool = {} /\ segments = <<>>

\* No two segments share a buffer, none holds a free one, and every buffer of
\* pool_ is in free_list_ or in a segment: through vector copies, erasures and
\* error paths, Allocate and Deallocate neither lose a buffer nor give it twice.
BuffersConserved ==
  /\ \A i, j \in DOMAIN segments :
       i # j => segments[i].buffers \cap segments[j].buffers = {}
  /\ \A i \in DOMAIN segments : segments[i].buffers \cap free_list = {}
  /\ pool = free_list \cup UNION {m.buffers : m \in Range(segments)}

\* find_if finds the segment a name was given for: no two segments share one.
NamesUnique ==
  \A i, j \in DOMAIN segments :
    i # j => segments[i].shm_name # segments[j].shm_name

\* Allocate returns 0 only for a name that can be opened and a region that is
\* mapped onto it from end to end, although emplace_back has just run the
\* destructors of every older segment.
GrantIsUsable ==
  [][\A m \in Range(segments') \ Range(segments) :
       m.shm_name \in shm' /\ \A p \in Region(m) : mem'[p] = m.shm_name]_poolVars

\* What Deallocate or cleanup takes out of segments_ goes from /dev/shm as well
\* if it was the last element: only erasing from the middle leaves a name behind.
LastInIsUnlinked ==
  [][\A s \in LiveNames :
       s \in shm' /\ s \notin LiveNames' => s # segments[Len(segments)].shm_name]_poolVars

\* The pool implements the ledger: the groups handed out are the segments.
Ledger == INSTANCE BufferLedger WITH
  free <- free_list,
  held <- {[name |-> m.shm_name, buffers |-> m.buffers] : m \in Range(segments)}

\* Every step of the pool is a step of BufferLedger or none: OS failures, vector
\* growth, the crash and the restart do not show in what callers hold.
ImplementsLedger == Ledger!Spec

\* README: clients use an allocation "under a single shared memory name", which
\* they open some time after the reply.
LiveNamesOpenable == LiveNames \subseteq shm

\* README: Demo 5 "allows for clients to allocate and free memory": Allocate
\* ends in a return, whatever the clients did before.
NeverFaults == phase # "crashed"
=============================================================================
