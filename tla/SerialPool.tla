----------------------------- MODULE SerialPool -----------------------------
(***************************************************************************)
(* PinnedMemoryPool with one client at a time: whoever allocates has freed *)
(* before anybody allocates again.  segments_ then never holds two         *)
(* elements, so std::vector neither relocates nor shifts a MemorySegment,  *)
(* and what the source means each operation to do is what it does.         *)
(***************************************************************************)
EXTENDS PinnedMemoryPool

OneAtATime == Len(segments') <= 1

SerialNext == PoolNext /\ OneAtATime

SerialSpec == PoolInit /\ [][SerialNext]_poolVars

-----------------------------------------------------------------------------
\* The segment handed out can be opened by its name, its descriptor is open on
\* that object, and its region maps that object from end to end.
SegmentsIntact ==
  \A m \in Range(segments) :
    /\ m.shm_name \in shm
    /\ fd[m.shm_fd] = m.shm_name
    /\ \A p \in Region(m) : mem[p] = m.shm_name

\* Deallocate and cleanup take back all that Allocate took: no name, descriptor
\* or mapping is left that no segment owns.
NothingLeftBehind ==
  /\ shm \subseteq LiveNames
  /\ \A d \in Fds : fd[d] # NoObject => \E m \in Range(segments) : m.shm_fd = d
  /\ \A p \in Pages : mem[p] # NoObject => \E m \in Range(segments) : p \in Region(m)

\* While the pool runs, CUDA has no range registered but the region of the live
\* segment, so cudaHostRegister is never refused for an old registration.
RegistrationsCurrent ==
  phase = "ready" =>
    pinned \subseteq {[addr |-> m.addr, length |-> m.length] : m \in Range(segments)}

\* What the inductive invariant adds to these: there is at most one segment, its
\* region lies in the address space and is not empty, and a new process has no
\* registrations.
SerialShape ==
  /\ Len(segments) <= 1
  /\ \A m \in Range(segments) : Region(m) \subseteq Pages /\ m.length > 0
  /\ phase = "new" => pinned = {}
=============================================================================
