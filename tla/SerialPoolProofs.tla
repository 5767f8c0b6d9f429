-------------------------- MODULE SerialPoolProofs --------------------------
(***************************************************************************)
(* With one segment at a time, demo5's pool keeps what it hands out intact *)
(* and leaves nothing behind, for any number of buffers, names,            *)
(* descriptors and pages.                                                  *)
(***************************************************************************)
EXTENDS SerialPool, PinnedMemoryPoolProofs

SerialInv ==
  /\ PoolInv
  /\ SegmentsIntact
  /\ NothingLeftBehind
  /\ RegistrationsCurrent
  /\ SerialShape
  /\ NeverFaults

-----------------------------------------------------------------------------
\* With no segment, nothing is linked, open or mapped.
LEMMA EmptyKernel ==
  ASSUME PoolTypeOK, NothingLeftBehind, segments = <<>>
  PROVE  /\ shm = {}
         /\ \A d \in Fds : fd[d] = NoObject
         /\ \A p \in Pages : mem[p] = NoObject
<1>1. Range(segments) = {}
  BY DEF Range
<1> QED BY <1>1 DEF NothingLeftBehind, LiveNames

\* With no segment after a step that leaves nothing in the kernel, the kernel
\* part of the invariant holds.
LEMMA NothingLeftAtAll ==
  ASSUME segments' = <<>>, shm' = {},
         \A d \in Fds : fd'[d] = NoObject,
         \A p \in Pages : mem'[p] = NoObject
  PROVE  SegmentsIntact' /\ NothingLeftBehind'
<1>1. Range(segments') = {}
  BY DEF Range
<1> QED BY <1>1 DEF SegmentsIntact, NothingLeftBehind, LiveNames

\* Destroying every segment there is empties the kernel.
LEMMA DestroyAll ==
  ASSUME NothingLeftBehind, Destroy(Range(segments), shm, fd, mem)
  PROVE  /\ shm' = {}
         /\ \A d \in Fds : fd'[d] = NoObject
         /\ \A p \in Pages : mem'[p] = NoObject
<1>1. shm' = {}
  BY DEF NothingLeftBehind, LiveNames, Destroy
<1>2. \A d \in Fds : fd'[d] = NoObject
  BY DEF NothingLeftBehind, Destroy
<1>3. \A p \in Pages : mem'[p] = NoObject
  BY DEF NothingLeftBehind, Destroy
<1> QED BY <1>1, <1>2, <1>3

-----------------------------------------------------------------------------
\* The invariant holds when the server starts.
LEMMA SerialInvInit == PoolInit => SerialInv
<1> SUFFICES ASSUME PoolInit PROVE SerialInv
  OBVIOUS
<1>1. Range(segments) = {} /\ Len(segments) = 0
  BY DEF PoolInit, Range
<1> QED BY <1>1, PoolInvInit
        DEF PoolInit, SerialInv, SegmentsIntact, NothingLeftBehind, LiveNames,
            RegistrationsCurrent, SerialShape, NeverFaults

\* Allocate finds segments_ and the kernel empty, and fills both with m.
LEMMA AllocateSerial ==
  ASSUME SerialInv, NEW n \in Requests, NEW m \in NewSegments(n),
         AllocateSucceeds(n, m), OneAtATime
  PROVE  /\ SegmentsIntact' /\ NothingLeftBehind'
         /\ RegistrationsCurrent' /\ SerialShape' /\ NeverFaults'
<1>1. n \in Nat /\ m \in MemorySegment
  BY NewSegmentType DEF SerialInv, PoolInv
<1>2. /\ segments \in Seq(MemorySegment)
      /\ Range(segments') = Range(segments) \cup {m}
      /\ Len(segments') = Len(segments) + 1
  BY <1>1, AppendElements DEF SerialInv, PoolInv, PoolTypeOK, AllocateSucceeds
<1>3. Len(segments) = 0
  BY <1>2 DEF OneAtATime
<1>4. segments = <<>>
  BY <1>2, <1>3
<1>5. Range(segments) = {} /\ Range(segments') = {m} /\ Relocated = {}
  BY <1>2, <1>4 DEF Range, Relocated
<1>6. /\ shm = {}
      /\ \A d \in Fds : fd[d] = NoObject
      /\ \A p \in Pages : mem[p] = NoObject
  BY <1>4, EmptyKernel DEF SerialInv, PoolInv
<1>7. /\ shm' = {m.shm_name}
      /\ \A d \in Fds : fd'[d] = IF d = m.shm_fd THEN m.shm_name ELSE NoObject
      /\ \A p \in Pages : mem'[p] = IF p \in Region(m) THEN m.shm_name ELSE NoObject
  <2>1. fd \in [Fds -> Names \cup {NoObject}]
    BY DEF SerialInv, PoolInv, PoolTypeOK
  <2> QED BY <1>5, <1>6, <2>1 DEF AllocateSucceeds, MapAndEmplace, Destroy
<1>8. Region(m) \subseteq Pages /\ m.shm_fd \in Fds /\ m.length > 0
  BY <1>1 DEF AllocateSucceeds, CanMap, MemorySegment
<1>9. SegmentsIntact'
  <2>1. /\ m.shm_name \in shm'
        /\ fd'[m.shm_fd] = m.shm_name
        /\ \A p \in Region(m) : mem'[p] = m.shm_name
    BY <1>7, <1>8
  <2> QED BY <1>5, <2>1 DEF SegmentsIntact
<1>10. NothingLeftBehind'
  BY <1>5, <1>7 DEF NothingLeftBehind, LiveNames
<1>11. RegistrationsCurrent'
  <2>1. phase = "ready" /\ phase' = "ready"
    BY DEF AllocateSucceeds, CanMap
  <2>2. pinned = {}
    BY <1>5, <2>1 DEF SerialInv, RegistrationsCurrent
  <2>3. pinned' \subseteq {[addr |-> m.addr, length |-> m.length]}
    BY <2>2 DEF AllocateSucceeds, RegisterRegion
  <2> QED BY <1>5, <2>3 DEF RegistrationsCurrent
<1>12. SerialShape'
  <2>1. phase' # "new"
    BY DEF AllocateSucceeds, CanMap
  <2>2. Len(segments') <= 1
    BY DEF OneAtATime
  <2> QED BY <1>5, <1>8, <2>1, <2>2 DEF SerialShape, Region
<1>13. NeverFaults'
  BY DEF AllocateSucceeds, CanMap, NeverFaults
<1> QED BY <1>9, <1>10, <1>11, <1>12, <1>13

\* Deallocate destroys the one segment, and with it everything in the kernel.
LEMMA DeallocateSerial ==
  ASSUME SerialInv, NEW s \in Names, DeallocateSucceeds(s)
  PROVE  /\ SegmentsIntact' /\ NothingLeftBehind'
         /\ RegistrationsCurrent' /\ SerialShape' /\ NeverFaults'
<1>1. PICK i \in DOMAIN segments :
        /\ pinned' = {r \in pinned : r.addr # segments[i].addr}
        /\ segments' = Erase(segments, i)
        /\ Destroy(DestroyedByErase(segments, i), shm, fd, mem)
  BY DEF DeallocateSucceeds
<1>2. segments \in Seq(MemorySegment) /\ Len(segments) <= 1
  BY DEF SerialInv, PoolInv, PoolTypeOK, SerialShape
<1>3. DOMAIN segments = 1 .. Len(segments) /\ Len(segments) \in Nat
  BY <1>2
<1>4. i = 1 /\ Len(segments) = 1 /\ DOMAIN segments = {1}
  BY <1>2, <1>3
<1>5. /\ segments' \in Seq(MemorySegment)
      /\ Len(segments') = 0
  BY <1>1, <1>2, <1>4, EraseElements
<1>6. segments' = <<>> /\ Range(segments') = {}
  BY <1>5 DEF Range
<1>7. DestroyedByErase(segments, i) = Range(segments)
  BY <1>4 DEF DestroyedByErase, Range
<1>8. SegmentsIntact' /\ NothingLeftBehind'
  BY <1>1, <1>6, <1>7, DestroyAll, NothingLeftAtAll DEF SerialInv
<1>9. phase = "ready" /\ phase' = "ready"
  BY DEF DeallocateSucceeds
<1>10. pinned' = {}
  <2>1. pinned \subseteq {[addr |-> x.addr, length |-> x.length] : x \in {segments[1]}}
    BY <1>4, <1>9 DEF SerialInv, RegistrationsCurrent, Range
  <2>2. \A r \in pinned : r.addr = segments[1].addr
    BY <2>1
  <2> QED BY <1>1, <1>4, <2>2
<1>11. RegistrationsCurrent' /\ SerialShape'
  BY <1>5, <1>6, <1>10 DEF RegistrationsCurrent, SerialShape
<1>12. NeverFaults'
  BY <1>9 DEF NeverFaults
<1> QED BY <1>8, <1>11, <1>12

\* A page of a live segment is mapped, so no new region reaches into one.
LEMMA NoClobber ==
  ASSUME SerialInv, NEW n \in Requests, NEW m \in NewSegments(n)
  PROVE  ~AllocateFaults(n, m)
<1> SUFFICES ASSUME AllocateFaults(n, m) PROVE FALSE
  OBVIOUS
<1>1. PICK x \in Range(segments) : Region(x) \cap Region(m) # {}
  BY RelocatedElements DEF AllocateFaults, Clobbered
<1> PICK p : p \in Region(x) /\ p \in Region(m)
  BY <1>1
<1>2. mem[p] = x.shm_name
  BY DEF SerialInv, SegmentsIntact
<1>3. mem[p] = NoObject
  BY DEF AllocateFaults, CanMap
<1>4. x.shm_name \in Names
  <2>1. x \in MemorySegment
    BY DEF SerialInv, PoolInv, PoolTypeOK, Range
  <2> QED BY <2>1 DEF MemorySegment
<1> QED BY <1>2, <1>3, <1>4, PoolAssumption

\* SerialInv holds over every step of the serial use.
LEMMA SerialInvStep == SerialInv /\ [SerialNext]_poolVars => SerialInv'
<1> SUFFICES ASSUME SerialInv, [SerialNext]_poolVars
             PROVE  SerialInv'
  OBVIOUS
<1>1. PoolInv'
  BY PoolInvStep DEF SerialInv, SerialNext
<1>2. ASSUME UNCHANGED poolVars
      PROVE  SerialInv'
  <2>1. UNCHANGED <<phase, segments, shm, fd, mem, pinned>>
    BY <1>2 DEF poolVars, processVars, kernelVars
  <2> QED BY <1>1, <2>1
      DEF SerialInv, SegmentsIntact, NothingLeftBehind, LiveNames,
          RegistrationsCurrent, SerialShape, NeverFaults
<1>3. ASSUME segments = <<>>, segments' = <<>>, UNCHANGED <<shm, fd, mem>>,
             pinned' = {} \/ (pinned' = pinned /\ phase # "ready" /\ phase' = "cleaned"),
             phase' # "crashed"
      PROVE  SerialInv'
  <2>1. SegmentsIntact' /\ NothingLeftBehind'
    BY <1>3, EmptyKernel, NothingLeftAtAll DEF SerialInv, PoolInv
  <2>2. Range(segments') = {} /\ Len(segments') = 0
    BY <1>3 DEF Range
  <2>3. RegistrationsCurrent' /\ SerialShape'
    BY <1>3, <2>2 DEF RegistrationsCurrent, SerialShape
  <2> QED BY <1>1, <1>3, <2>1, <2>3 DEF SerialInv, NeverFaults
<1>4. CASE InitializeSucceeds
  BY <1>3, <1>4
  DEF InitializeSucceeds, SerialInv, SerialShape, PoolInv, PoolTypeOK, kernelVars
<1>5. CASE InitializeFails
  BY <1>3, <1>5
  DEF InitializeFails, SerialInv, PoolInv, PoolTypeOK, processVars, kernelVars
<1>6. ASSUME NEW n \in Requests, NEW m \in NewSegments(n),
             AllocateSucceeds(n, m), OneAtATime
      PROVE  SerialInv'
  BY <1>1, <1>6, AllocateSerial DEF SerialInv
<1>7. ASSUME NEW n \in Requests, AllocateFails(n) \/ AllocateRefused(n)
      PROVE  SerialInv'
  BY <1>2, <1>7, AllocateFailsUnchanged DEF AllocateRefused
<1>8. ASSUME NEW s \in Names, DeallocateSucceeds(s)
      PROVE  SerialInv'
  BY <1>1, <1>8, DeallocateSerial DEF SerialInv
<1>9. ASSUME NEW s \in Names, DeallocateRefused(s)
      PROVE  SerialInv'
  BY <1>2, <1>9 DEF DeallocateRefused
<1>10. CASE Cleanup
  <2>1. SegmentsIntact' /\ NothingLeftBehind'
    BY <1>10, DestroyAll, NothingLeftAtAll DEF Cleanup, SerialInv
  <2>2. Range(segments') = {} /\ Len(segments') = 0
    BY <1>10 DEF Cleanup, Range
  <2>3. RegistrationsCurrent' /\ SerialShape'
    BY <1>10, <2>2 DEF Cleanup, RegistrationsCurrent, SerialShape
  <2> QED BY <1>1, <1>10, <2>1, <2>3 DEF Cleanup, SerialInv, NeverFaults
<1>11. CASE Restart
  <2>1. segments = <<>>
    BY <1>11 DEF Restart, SerialInv, PoolInv, PoolTypeOK
  <2>2. shm' = {}
    BY <1>11, <2>1, EmptyKernel DEF Restart, SerialInv, PoolInv
  <2>3. SegmentsIntact' /\ NothingLeftBehind'
    BY <1>11, <2>2, NothingLeftAtAll DEF Restart, ProcessGone
  <2>4. Range(segments') = {} /\ Len(segments') = 0
    BY <1>11 DEF Restart, ProcessGone, Range
  <2>5. RegistrationsCurrent' /\ SerialShape'
    BY <1>11, <2>4 DEF Restart, ProcessGone, RegistrationsCurrent, SerialShape
  <2> QED BY <1>1, <1>11, <2>3, <2>5 DEF Restart, SerialInv, NeverFaults
<1> QED BY <1>2, <1>4, <1>5, <1>6, <1>7, <1>8, <1>9, <1>10, <1>11, NoClobber
        DEF SerialNext, PoolNext

-----------------------------------------------------------------------------
\* SerialInv holds in every reachable state of the serial use.
THEOREM SerialInvariant == SerialSpec => []SerialInv
BY SerialInvInit, SerialInvStep, PTL DEF SerialSpec

\* A segment handed out can be opened, and its region maps it to the last page.
THEOREM Intact == SerialSpec => []SegmentsIntact
<1>1. SerialInv => SegmentsIntact
  BY DEF SerialInv
<1> QED BY <1>1, SerialInvariant, PTL

\* Freeing takes back every name, descriptor and mapping Allocate took.
THEOREM NothingLeft == SerialSpec => []NothingLeftBehind
<1>1. SerialInv => NothingLeftBehind
  BY DEF SerialInv
<1> QED BY <1>1, SerialInvariant, PTL

\* No stale registration is left to refuse a later cudaHostRegister.
THEOREM Registrations == SerialSpec => []RegistrationsCurrent
<1>1. SerialInv => RegistrationsCurrent
  BY DEF SerialInv
<1> QED BY <1>1, SerialInvariant, PTL

\* Allocate never writes through a stale address: the fault that vector growth can
\* cause (see NeverFaults in PinnedMemoryPool) needs a second live segment.
THEOREM NoFault == SerialSpec => []NeverFaults
<1>1. SerialInv => NeverFaults
  BY DEF SerialInv
<1> QED BY <1>1, SerialInvariant, PTL
=============================================================================
