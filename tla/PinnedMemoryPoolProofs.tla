----------------------- MODULE PinnedMemoryPoolProofs -----------------------
(***************************************************************************)
(* What demo5's pool guarantees for any number of buffers, names,          *)
(* descriptors and pages.  PoolInv is inductive as it stands: the kernel's *)
(* state, which destructors spoil, appears in it only as a type.           *)
(***************************************************************************)
EXTENDS PinnedMemoryPool, FiniteSetTheorems, TLAPS

PoolInv == PoolTypeOK /\ BuffersConserved /\ NamesUnique

-----------------------------------------------------------------------------
\* Appending keeps the elements and adds one at the end.
LEMMA AppendElements ==
  ASSUME NEW S, NEW s \in Seq(S), NEW e \in S
  PROVE  /\ Append(s, e) \in Seq(S)
         /\ Len(Append(s, e)) = Len(s) + 1
         /\ DOMAIN Append(s, e) = DOMAIN s \cup {Len(s) + 1}
         /\ \A j \in DOMAIN s : Append(s, e)[j] = s[j]
         /\ Append(s, e)[Len(s) + 1] = e
         /\ Range(Append(s, e)) = Range(s) \cup {e}
<1>1. /\ Append(s, e) \in Seq(S)
      /\ Len(Append(s, e)) = Len(s) + 1
      /\ DOMAIN Append(s, e) = 1 .. Len(s) + 1
      /\ DOMAIN s = 1 .. Len(s)
      /\ \A j \in 1 .. Len(s) : Append(s, e)[j] = s[j]
      /\ Append(s, e)[Len(s) + 1] = e
  OBVIOUS
<1>2. DOMAIN Append(s, e) = DOMAIN s \cup {Len(s) + 1}
  BY <1>1
<1>3. Range(Append(s, e)) = Range(s) \cup {e}
  BY <1>1, <1>2 DEF Range
<1> QED BY <1>1, <1>2, <1>3

\* Erase(s, i) is the sequence without its i-th element.
LEMMA EraseElements ==
  ASSUME NEW S, NEW s \in Seq(S), NEW i \in DOMAIN s
  PROVE  /\ Erase(s, i) \in Seq(S)
         /\ Len(Erase(s, i)) = Len(s) - 1
         /\ DOMAIN Erase(s, i) = 1 .. Len(s) - 1
         /\ \A j \in DOMAIN Erase(s, i) :
              Erase(s, i)[j] = s[IF j < i THEN j ELSE j + 1]
         /\ Range(Erase(s, i)) = {s[j] : j \in DOMAIN s \ {i}}
<1> DEFINE t == Erase(s, i)
<1>1. /\ Len(s) \in Nat
      /\ DOMAIN s = 1 .. Len(s)
      /\ \A j \in 1 .. Len(s) : s[j] \in S
  OBVIOUS
<1>2. /\ DOMAIN t = 1 .. Len(s) - 1
      /\ \A j \in DOMAIN t : t[j] = s[IF j < i THEN j ELSE j + 1]
  BY <1>1 DEF Erase
<1>3. t \in [1 .. Len(s) - 1 -> S]
  BY <1>1 DEF Erase
<1>4. t \in Seq(S) /\ Len(t) = Len(s) - 1
  <2>1. Len(s) - 1 \in Nat
    BY <1>1
  <2>2. \A n \in Nat : t \in [1 .. n -> S] => t \in Seq(S) /\ Len(t) = n
    <3> HIDE DEF t
    <3> QED OBVIOUS
  <2> QED BY <2>1, <2>2, <1>3
<1>5. ASSUME NEW j \in DOMAIN s \ {i}
      PROVE  \E k \in DOMAIN t : t[k] = s[j]
  <2>1. CASE j < i
    BY <2>1, <1>1, <1>2
  <2>2. CASE j > i
    <3>1. j - 1 \in DOMAIN t /\ ~(j - 1 < i) /\ (j - 1) + 1 = j
      BY <2>2, <1>1, <1>2
    <3> QED BY <3>1, <1>2
  <2> QED BY <2>1, <2>2, <1>1
<1>6. ASSUME NEW k \in DOMAIN t
      PROVE  \E j \in DOMAIN s \ {i} : t[k] = s[j]
  <2>1. (IF k < i THEN k ELSE k + 1) \in DOMAIN s \ {i}
    BY <1>1, <1>2
  <2> QED BY <2>1, <1>2
<1>7. Range(t) = {s[j] : j \in DOMAIN s \ {i}}
  BY <1>5, <1>6 DEF Range
<1> QED BY <1>2, <1>4, <1>7

\* The kernel's tables keep their types through any destruction.
LEMMA DestroyType ==
  ASSUME NEW D, NEW n \in SUBSET Names,
         NEW f \in [Fds -> Names \cup {NoObject}],
         NEW m \in [Pages -> Names \cup {NoObject}],
         Destroy(D, n, f, m)
  PROVE  /\ shm' \in SUBSET Names
         /\ fd' \in [Fds -> Names \cup {NoObject}]
         /\ mem' \in [Pages -> Names \cup {NoObject}]
BY DEF Destroy

\* A request is a natural number, and what Allocate may add is a segment.
LEMMA NewSegmentType ==
  ASSUME PoolTypeOK, NEW n \in Requests, NEW m \in NewSegments(n)
  PROVE  /\ n \in Nat
         /\ m \in MemorySegment
         /\ m.length = n
         /\ m.buffers \subseteq free_list
<1>1. Cardinality(Buffers) \in Nat
  BY PoolAssumption, FS_CardinalityType
<1>2. n \in Nat
  BY <1>1 DEF Requests
<1>3. free_list \subseteq Buffers
  BY DEF PoolTypeOK
<1> QED BY <1>2, <1>3 DEF NewSegments, MemorySegment

\* What relocation destroys are elements of the vector, all of them or none.
LEMMA RelocatedElements ==
  /\ Relocated \subseteq Range(segments)
  /\ Relocated # {} => Relocated = Range(segments)
BY DEF Relocated

-----------------------------------------------------------------------------
\* The invariant holds when the server starts.
LEMMA PoolInvInit == PoolInit => PoolInv
<1> SUFFICES ASSUME PoolInit PROVE PoolInv
  OBVIOUS
<1>1. segments = <<>> /\ DOMAIN segments = {} /\ Range(segments) = {}
  BY DEF PoolInit, Range
<1>2. PoolTypeOK
  BY <1>1 DEF PoolInit, PoolTypeOK
<1>3. BuffersConserved /\ NamesUnique
  BY <1>1 DEF PoolInit, BuffersConserved, NamesUnique
<1> QED BY <1>2, <1>3 DEF PoolInv

\* The empty pool satisfies the invariant whatever the kernel's state is.
LEMMA EmptyPoolInv ==
  ASSUME pool' = {}, free_list' = {}, segments' = <<>>, capacity' \in Nat,
         phase' \in {"new", "ready", "cleaned", "crashed"},
         shm' \in SUBSET Names,
         fd' \in [Fds -> Names \cup {NoObject}],
         mem' \in [Pages -> Names \cup {NoObject}],
         pinned' \in SUBSET [addr : Pages, length : Nat]
  PROVE  PoolInv'
<1>1. segments' = <<>> /\ DOMAIN segments' = {} /\ Range(segments') = {}
  BY DEF Range
<1>2. PoolTypeOK'
  BY <1>1 DEF PoolTypeOK
<1>3. BuffersConserved' /\ NamesUnique'
  BY <1>1 DEF BuffersConserved, NamesUnique
<1> QED BY <1>2, <1>3 DEF PoolInv

\* A successful Allocate moves m.buffers from free_list_ to a segment with a
\* name no other segment has.
LEMMA AllocateSucceedsInv ==
  ASSUME PoolInv, NEW n \in Requests, NEW m \in NewSegments(n),
         AllocateSucceeds(n, m)
  PROVE  PoolInv'
<1> USE DEF PoolInv
<1>1. n \in Nat /\ m \in MemorySegment /\ m.buffers \subseteq free_list
  BY NewSegmentType
<1>2. /\ segments \in Seq(MemorySegment)
      /\ DOMAIN segments = 1 .. Len(segments)
      /\ Len(segments) \in Nat
      /\ segments' = Append(segments, m)
  BY DEF PoolTypeOK, AllocateSucceeds
<1>3. /\ segments' \in Seq(MemorySegment)
      /\ Len(segments') = Len(segments) + 1
      /\ DOMAIN segments' = DOMAIN segments \cup {Len(segments) + 1}
      /\ \A j \in DOMAIN segments : segments'[j] = segments[j]
      /\ segments'[Len(segments) + 1] = m
      /\ Range(segments') = Range(segments) \cup {m}
  BY <1>1, <1>2, AppendElements
<1>4. PoolTypeOK'
  <2>1. capacity' \in Nat /\ Len(segments') <= capacity'
    BY <1>2, <1>3 DEF PoolTypeOK, AllocateSucceeds, NextCapacity
  <2>2. /\ shm' \in SUBSET Names
        /\ fd' \in [Fds -> Names \cup {NoObject}]
        /\ mem' \in [Pages -> Names \cup {NoObject}]
    <3>1. /\ shm \cup {m.shm_name} \in SUBSET Names
          /\ [fd EXCEPT ![m.shm_fd] = m.shm_name] \in [Fds -> Names \cup {NoObject}]
          /\ [p \in Pages |-> IF p \in Region(m) THEN m.shm_name ELSE mem[p]]
               \in [Pages -> Names \cup {NoObject}]
      BY <1>1 DEF PoolTypeOK, MemorySegment
    <3> QED BY <3>1, DestroyType DEF AllocateSucceeds, MapAndEmplace
  <2>3. pinned' \in SUBSET [addr : Pages, length : Nat]
    <3>1. [addr |-> m.addr, length |-> m.length] \in [addr : Pages, length : Nat]
      BY <1>1 DEF MemorySegment
    <3> QED BY <3>1 DEF PoolTypeOK, AllocateSucceeds, RegisterRegion
  <2> QED BY <1>3, <2>1, <2>2, <2>3
        DEF PoolTypeOK, AllocateSucceeds, CanMap
<1>5. BuffersConserved'
  <2>1. free_list' = free_list \ m.buffers /\ pool' = pool
    BY DEF AllocateSucceeds
  <2>2. \A i \in DOMAIN segments : segments[i].buffers \cap m.buffers = {}
    BY <1>1 DEF BuffersConserved
  <2>3. ASSUME NEW i \in DOMAIN segments', NEW j \in DOMAIN segments', i # j
        PROVE  segments'[i].buffers \cap segments'[j].buffers = {}
    BY <1>3, <2>2, <2>3 DEF BuffersConserved
  <2>4. \A i \in DOMAIN segments' : segments'[i].buffers \cap free_list' = {}
    BY <1>3, <2>1 DEF BuffersConserved
  <2>5. UNION {x.buffers : x \in Range(segments')}
          = m.buffers \cup UNION {x.buffers : x \in Range(segments)}
    BY <1>3
  <2>6. pool' = free_list' \cup UNION {x.buffers : x \in Range(segments')}
    BY <1>1, <2>1, <2>5 DEF BuffersConserved
  <2> QED BY <2>3, <2>4, <2>6 DEF BuffersConserved
<1>6. NamesUnique'
  <2>1. \A i \in DOMAIN segments : segments[i].shm_name # m.shm_name
    BY DEF AllocateSucceeds, CanMap, FreshName, LiveNames, Range
  <2> QED BY <1>3, <2>1 DEF NamesUnique
<1> QED BY <1>4, <1>5, <1>6
\* Deallocate removes one segment and returns exactly its buffers.
LEMMA DeallocateSucceedsInv ==
  ASSUME PoolInv, NEW s \in Names, DeallocateSucceeds(s)
  PROVE  PoolInv'
<1> USE DEF PoolInv
<1>1. PICK i \in DOMAIN segments :
        /\ segments[i].shm_name = s
        /\ pinned' = {r \in pinned : r.addr # segments[i].addr}
        /\ free_list' = free_list \cup segments[i].buffers
        /\ segments' = Erase(segments, i)
        /\ Destroy(DestroyedByErase(segments, i), shm, fd, mem)
  BY DEF DeallocateSucceeds
<1>2. /\ segments \in Seq(MemorySegment)
      /\ DOMAIN segments = 1 .. Len(segments)
      /\ Len(segments) \in Nat
  BY DEF PoolTypeOK
<1>3. /\ segments' \in Seq(MemorySegment)
      /\ Len(segments') = Len(segments) - 1
      /\ DOMAIN segments' = 1 .. Len(segments) - 1
      /\ \A j \in DOMAIN segments' :
           segments'[j] = segments[IF j < i THEN j ELSE j + 1]
      /\ Range(segments') = {segments[j] : j \in DOMAIN segments \ {i}}
  BY <1>1, <1>2, EraseElements
<1>4. PoolTypeOK'
  <2>1. segments[i].buffers \subseteq pool
    BY <1>1 DEF BuffersConserved, Range
  <2>2. /\ shm' \in SUBSET Names
        /\ fd' \in [Fds -> Names \cup {NoObject}]
        /\ mem' \in [Pages -> Names \cup {NoObject}]
    BY <1>1, DestroyType DEF PoolTypeOK
  <2>3. Len(segments') <= capacity'
    BY <1>2, <1>3 DEF PoolTypeOK, DeallocateSucceeds
  <2> QED BY <1>1, <1>3, <2>1, <2>2, <2>3 DEF PoolTypeOK, DeallocateSucceeds
<1>5. ASSUME NEW j \in DOMAIN segments'
      PROVE  \E k \in DOMAIN segments \ {i} :
               k = (IF j < i THEN j ELSE j + 1) /\ segments'[j] = segments[k]
  BY <1>2, <1>3
<1>6. ASSUME NEW j \in DOMAIN segments', NEW k \in DOMAIN segments', j # k
      PROVE  \E a, b \in DOMAIN segments \ {i} :
               a # b /\ segments'[j] = segments[a] /\ segments'[k] = segments[b]
  <2> DEFINE from(l) == IF l < i THEN l ELSE l + 1
  <2>1. from(j) # from(k)
    BY <1>2, <1>3, <1>6
  <2>2. from(j) \in DOMAIN segments \ {i} /\ segments'[j] = segments[from(j)]
    BY <1>5
  <2>3. from(k) \in DOMAIN segments \ {i} /\ segments'[k] = segments[from(k)]
    BY <1>5
  <2> HIDE DEF from
  <2> QED BY <2>1, <2>2, <2>3
<1>7. BuffersConserved'
  <2>1. \A j, k \in DOMAIN segments' :
          j # k => segments'[j].buffers \cap segments'[k].buffers = {}
    BY <1>6 DEF BuffersConserved
  <2>2. ASSUME NEW j \in DOMAIN segments'
        PROVE  segments'[j].buffers \cap free_list' = {}
    <3>1. PICK k \in DOMAIN segments \ {i} : segments'[j] = segments[k]
      BY <1>5
    <3>2. segments[k].buffers \cap segments[i].buffers = {}
      BY DEF BuffersConserved
    <3>3. segments[k].buffers \cap free_list = {}
      BY DEF BuffersConserved
    <3> QED BY <1>1, <3>1, <3>2, <3>3
  <2>3. UNION {x.buffers : x \in Range(segments)}
          = segments[i].buffers \cup UNION {x.buffers : x \in Range(segments')}
    <3>1. Range(segments) = Range(segments') \cup {segments[i]}
      BY <1>3 DEF Range
    <3> QED BY <3>1
  <2>4. pool' = free_list' \cup UNION {x.buffers : x \in Range(segments')}
    BY <1>1, <2>3 DEF BuffersConserved, DeallocateSucceeds
  <2> QED BY <2>1, <2>2, <2>4 DEF BuffersConserved
<1>8. NamesUnique'
  BY <1>6 DEF NamesUnique
<1> QED BY <1>4, <1>7, <1>8

\* A failed Allocate puts back what it took.
LEMMA AllocateFailsUnchanged ==
  ASSUME NEW n, AllocateFails(n)
  PROVE  UNCHANGED poolVars
BY DEF AllocateFails, PutBack, poolVars, processVars, kernelVars

\* The invariant holds over every step of the pool.
LEMMA PoolInvStep == PoolInv /\ [PoolNext]_poolVars => PoolInv'
<1> SUFFICES ASSUME PoolInv, [PoolNext]_poolVars
             PROVE  PoolInv'
  OBVIOUS
<1>1. ASSUME UNCHANGED poolVars
      PROVE  PoolInv'
  <2>1. UNCHANGED <<phase, pool, free_list, segments, capacity, shm, fd, mem, pinned>>
    BY <1>1 DEF poolVars, processVars, kernelVars
  <2> QED BY <2>1 DEF PoolInv, PoolTypeOK, BuffersConserved, NamesUnique
<1>2. CASE InitializeSucceeds
  <2>1. segments = <<>> /\ segments' = <<>>
    BY <1>2 DEF InitializeSucceeds, PoolInv, PoolTypeOK
  <2>2. DOMAIN segments' = {} /\ Range(segments') = {}
    BY <2>1 DEF Range
  <2>3. PoolTypeOK'
    BY <1>2, <2>1 DEF InitializeSucceeds, PoolInv, PoolTypeOK, kernelVars
  <2>4. BuffersConserved' /\ NamesUnique'
    BY <1>2, <2>1, <2>2 DEF InitializeSucceeds, BuffersConserved, NamesUnique
  <2> QED BY <2>3, <2>4 DEF PoolInv
<1>3. CASE InitializeFails
  BY <1>3, EmptyPoolInv
  DEF InitializeFails, PoolInv, PoolTypeOK, processVars, kernelVars
<1>4. ASSUME NEW n \in Requests, NEW m \in NewSegments(n), AllocateSucceeds(n, m)
      PROVE  PoolInv'
  BY <1>4, AllocateSucceedsInv
<1>5. ASSUME NEW n \in Requests, NEW m \in NewSegments(n), AllocateFaults(n, m)
      PROVE  PoolInv'
  <2>1. m.shm_name \in Names
    BY DEF NewSegments
  <2>2. shm' \in SUBSET Names
    BY <1>5, <2>1 DEF AllocateFaults, PoolInv, PoolTypeOK
  <2> QED BY <1>5, <2>2, EmptyPoolInv DEF AllocateFaults, ProcessGone
<1>6. ASSUME NEW n \in Requests, AllocateFails(n) \/ AllocateRefused(n)
      PROVE  PoolInv'
  BY <1>1, <1>6, AllocateFailsUnchanged DEF AllocateRefused
<1>7. ASSUME NEW s \in Names, DeallocateSucceeds(s)
      PROVE  PoolInv'
  BY <1>7, DeallocateSucceedsInv
<1>8. ASSUME NEW s \in Names, DeallocateRefused(s)
      PROVE  PoolInv'
  BY <1>1, <1>8 DEF DeallocateRefused
<1>9. CASE Cleanup
  <2>1. /\ shm' \in SUBSET Names
        /\ fd' \in [Fds -> Names \cup {NoObject}]
        /\ mem' \in [Pages -> Names \cup {NoObject}]
    BY <1>9, DestroyType DEF Cleanup, PoolInv, PoolTypeOK
  <2> QED BY <1>9, <2>1, EmptyPoolInv DEF Cleanup, PoolInv, PoolTypeOK
<1>10. CASE Restart
  BY <1>10, EmptyPoolInv DEF Restart, ProcessGone, PoolInv, PoolTypeOK
<1> QED BY <1>1, <1>2, <1>3, <1>4, <1>5, <1>6, <1>7, <1>8, <1>9, <1>10
        DEF PoolNext

-----------------------------------------------------------------------------
\* PoolInv holds in every reachable state of the pool.
THEOREM PoolInvariant == PoolSpec => []PoolInv
BY PoolInvInit, PoolInvStep, PTL DEF PoolSpec

\* The variables of the pool keep their types, free_list_ lies in pool_, the
\* vector within its capacity.
THEOREM TypeCorrect == PoolSpec => []PoolTypeOK
<1>1. PoolInv => PoolTypeOK
  BY DEF PoolInv
<1> QED BY <1>1, PoolInvariant, PTL

\* Allocate and Deallocate never lose a buffer and never give one twice.
THEOREM Conservation == PoolSpec => []BuffersConserved
<1>1. PoolInv => BuffersConserved
  BY DEF PoolInv
<1> QED BY <1>1, PoolInvariant, PTL

\* Deallocate's search by name can find only one segment.
THEOREM UniqueNames == PoolSpec => []NamesUnique
<1>1. PoolInv => NamesUnique
  BY DEF PoolInv
<1> QED BY <1>1, PoolInvariant, PTL
-----------------------------------------------------------------------------
\* What is handed out, as the ledger sees it.
HeldGroup(m) == [name |-> m.shm_name, buffers |-> m.buffers]

Held(s) == {HeldGroup(m) : m \in Range(s)}

\* The pool starts as the ledger does.
LEMMA LedgerInit == PoolInit => Ledger!Init
<1> SUFFICES ASSUME PoolInit PROVE Ledger!Init
  OBVIOUS
<1>1. Range(segments) = {}
  BY DEF PoolInit, Range
<1> QED BY <1>1 DEF PoolInit, Ledger!Init

\* A successful Allocate grants m's buffers under m's name.
LEMMA AllocateGrants ==
  ASSUME PoolInv, NEW n \in Requests, NEW m \in NewSegments(n),
         AllocateSucceeds(n, m)
  PROVE  \E s \in Names, B \in SUBSET Buffers : Ledger!Grant(s, B)
<1>1. n \in Nat /\ m \in MemorySegment /\ m.buffers \subseteq free_list
  BY NewSegmentType DEF PoolInv
<1>2. Range(segments') = Range(segments) \cup {m}
  BY <1>1, AppendElements DEF PoolInv, PoolTypeOK, AllocateSucceeds
<1>3. m.buffers # {}
  <2>1. Cardinality(m.buffers) = n /\ n > 0
    BY DEF AllocateSucceeds, CanMap
  <2>2. Cardinality({}) = 0
    BY FS_EmptySet
  <2> QED BY <1>1, <2>1, <2>2
<1>4. m.shm_name \notin {h.name : h \in Held(segments)}
  BY DEF AllocateSucceeds, CanMap, FreshName, LiveNames, Held, HeldGroup
<1>5. Held(segments') = Held(segments) \cup {HeldGroup(m)}
  BY <1>2 DEF Held
<1>6. Ledger!Grant(m.shm_name, m.buffers)
  BY <1>1, <1>3, <1>4, <1>5
  DEF Ledger!Grant, Ledger!HeldNames, Held, HeldGroup, AllocateSucceeds
<1>7. m.shm_name \in Names /\ m.buffers \in SUBSET Buffers
  BY <1>1 DEF MemorySegment
<1> QED BY <1>6, <1>7

\* A successful Deallocate releases the group of that name, and no other.
LEMMA DeallocateReleases ==
  ASSUME PoolInv, NEW s \in Names, DeallocateSucceeds(s)
  PROVE  \E h \in Held(segments) : Ledger!Release(h)
<1>1. PICK i \in DOMAIN segments :
        /\ free_list' = free_list \cup segments[i].buffers
        /\ segments' = Erase(segments, i)
  BY DEF DeallocateSucceeds
<1>2. Range(segments') = {segments[j] : j \in DOMAIN segments \ {i}}
  BY <1>1, EraseElements DEF PoolInv, PoolTypeOK
<1>3. \A j \in DOMAIN segments \ {i} : segments[j].shm_name # segments[i].shm_name
  BY DEF PoolInv, NamesUnique
<1>4. Held(segments') = Held(segments) \ {HeldGroup(segments[i])}
  <2>1. Range(segments) = Range(segments') \cup {segments[i]}
    BY <1>2 DEF Range
  <2>2. HeldGroup(segments[i]) \notin Held(segments')
    BY <1>2, <1>3 DEF Held, HeldGroup
  <2> QED BY <2>1, <2>2 DEF Held
<1>5. PICK h \in Held(segments) : h = HeldGroup(segments[i])
  BY DEF Held, Range
<1>6. Ledger!Release(h)
  BY <1>1, <1>4, <1>5 DEF Ledger!Release, Held, HeldGroup, DeallocateSucceeds
<1> QED BY <1>6

\* Every step of the pool is a step of the ledger or leaves it unchanged.
LEMMA LedgerStep ==
  PoolInv /\ [PoolNext]_poolVars => [Ledger!Next]_(Ledger!ledgerVars)
<1> SUFFICES ASSUME PoolInv, [PoolNext]_poolVars
             PROVE  [Ledger!Next]_(Ledger!ledgerVars)
  OBVIOUS
<1>1. ASSUME UNCHANGED <<pool, free_list, segments>>
      PROVE  UNCHANGED Ledger!ledgerVars
  BY <1>1 DEF Ledger!ledgerVars
<1>2. ASSUME UNCHANGED poolVars
      PROVE  UNCHANGED Ledger!ledgerVars
  BY <1>1, <1>2 DEF poolVars, processVars
<1>3. ASSUME segments' = <<>>
      PROVE  Held(segments') = {}
  BY <1>3 DEF Held, Range
<1>4. CASE InitializeSucceeds
  <2>1. pool = {} /\ segments = <<>> /\ segments' = <<>>
    BY <1>4 DEF InitializeSucceeds, PoolInv, PoolTypeOK
  <2>2. Held(segments) = {} /\ Held(segments') = {}
    BY <2>1, <1>3
  <2>3. Ledger!Open
    BY <1>4, <2>1, <2>2 DEF Ledger!Open, InitializeSucceeds, Held, HeldGroup
  <2> QED BY <2>3 DEF Ledger!Next
<1>5. CASE InitializeFails
  BY <1>5, <1>1 DEF InitializeFails, processVars
<1>6. ASSUME NEW n \in Requests, NEW m \in NewSegments(n), AllocateSucceeds(n, m)
      PROVE  Ledger!Next
  BY <1>6, AllocateGrants DEF Ledger!Next
<1>7. ASSUME NEW n \in Requests, NEW m \in NewSegments(n), AllocateFaults(n, m)
      PROVE  Ledger!Next
  <2>1. Ledger!Close
    BY <1>7, <1>3 DEF AllocateFaults, ProcessGone, Ledger!Close, Held, HeldGroup
  <2> QED BY <2>1 DEF Ledger!Next
<1>8. ASSUME NEW n \in Requests, AllocateFails(n) \/ AllocateRefused(n)
      PROVE  UNCHANGED Ledger!ledgerVars
  BY <1>2, <1>8, AllocateFailsUnchanged DEF AllocateRefused
<1>9. ASSUME NEW s \in Names, DeallocateSucceeds(s)
      PROVE  Ledger!Next
  BY <1>9, DeallocateReleases DEF Ledger!Next, Held, HeldGroup
<1>10. ASSUME NEW s \in Names, DeallocateRefused(s)
       PROVE  UNCHANGED Ledger!ledgerVars
  BY <1>2, <1>10 DEF DeallocateRefused
<1>11. CASE Cleanup
  <2>1. Ledger!Close
    BY <1>11, <1>3 DEF Cleanup, Ledger!Close, Held, HeldGroup
  <2> QED BY <2>1 DEF Ledger!Next
<1>12. CASE Restart
  <2>1. Ledger!Close
    BY <1>12, <1>3 DEF Restart, ProcessGone, Ledger!Close, Held, HeldGroup
  <2> QED BY <2>1 DEF Ledger!Next
<1> QED BY <1>2, <1>4, <1>5, <1>6, <1>7, <1>8, <1>9, <1>10, <1>11, <1>12
        DEF PoolNext

\* The pool, with its vector copies, failures, crash and restart, implements the
\* ledger of buffer groups.
THEOREM Refinement == PoolSpec => ImplementsLedger
BY LedgerInit, LedgerStep, PoolInvariant, PTL
DEF PoolSpec, ImplementsLedger, Ledger!Spec
-----------------------------------------------------------------------------
\* Only a successful Allocate adds an element to segments_.
LEMMA OnlyAllocateAdds ==
  ASSUME PoolInv, [PoolNext]_poolVars,
         NEW m \in Range(segments'), m \notin Range(segments)
  PROVE  \E n \in Requests : \E x \in NewSegments(n) :
           AllocateSucceeds(n, x) /\ x = m
<1>1. ~(UNCHANGED poolVars)
  BY DEF poolVars, processVars
<1>2. ~(segments' = <<>>)
  BY DEF Range
<1>3. ASSUME NEW s \in Names, DeallocateSucceeds(s)
      PROVE  FALSE
  <2>1. PICK i \in DOMAIN segments : segments' = Erase(segments, i)
    BY <1>3 DEF DeallocateSucceeds
  <2>2. Range(segments') = {segments[j] : j \in DOMAIN segments \ {i}}
    BY <2>1, EraseElements DEF PoolInv, PoolTypeOK
  <2>3. Range(segments') \subseteq Range(segments)
    BY <2>2 DEF Range
  <2> QED BY <2>3
<1>4. \A n : ~AllocateFails(n) /\ ~AllocateRefused(n)
  BY <1>1, AllocateFailsUnchanged DEF AllocateRefused
<1>5. \A s : ~DeallocateRefused(s)
  BY <1>1 DEF DeallocateRefused
<1>6. ~InitializeSucceeds /\ ~InitializeFails
  BY DEF InitializeSucceeds, InitializeFails, processVars
<1>7. ~Cleanup /\ ~Restart
  BY <1>2 DEF Cleanup, Restart, ProcessGone
<1>8. \A n, x : ~AllocateFaults(n, x)
  BY <1>2 DEF AllocateFaults, ProcessGone
<1>9. PICK n \in Requests : \E x \in NewSegments(n) : AllocateSucceeds(n, x)
  BY <1>1, <1>3, <1>4, <1>5, <1>6, <1>7, <1>8 DEF PoolNext
<1> PICK x \in NewSegments(n) : AllocateSucceeds(n, x)
  BY <1>9
<1>10. x \in MemorySegment
  BY NewSegmentType DEF PoolInv
<1>11. Range(segments') = Range(segments) \cup {x}
  BY <1>10, AppendElements DEF PoolInv, PoolTypeOK, AllocateSucceeds
<1> QED BY <1>11

\* What one step of the pool guarantees for a segment it hands out.
LEMMA GrantStep ==
  ASSUME PoolInv, [PoolNext]_poolVars,
         NEW m \in Range(segments') \ Range(segments)
  PROVE  m.shm_name \in shm' /\ \A p \in Region(m) : mem'[p] = m.shm_name
<1>1. \E n \in Requests : AllocateSucceeds(n, m)
  BY OnlyAllocateAdds
<1> PICK n \in Requests : AllocateSucceeds(n, m)
  BY <1>1
<1>2. /\ m.shm_name \notin {y.shm_name : y \in Relocated}
      /\ \A y \in Relocated : Region(y) \cap Region(m) = {}
      /\ Region(m) \subseteq Pages
  BY RelocatedElements
  DEF AllocateSucceeds, CanMap, FreshName, LiveNames, Clobbered
<1>3. /\ shm' = (shm \cup {m.shm_name}) \ {y.shm_name : y \in Relocated}
      /\ mem' = [p \in Pages |->
                   IF \E y \in Relocated : p \in Region(y) THEN NoObject
                   ELSE [q \in Pages |-> IF q \in Region(m) THEN m.shm_name
                                         ELSE mem[q]][p]]
  BY DEF AllocateSucceeds, MapAndEmplace, Destroy
<1>4. m.shm_name \in shm'
  BY <1>2, <1>3
<1>5. ASSUME NEW p \in Region(m)
      PROVE  mem'[p] = m.shm_name
  <2>1. p \in Pages /\ ~\E y \in Relocated : p \in Region(y)
    BY <1>2
  <2> QED BY <1>3, <2>1
<1> QED BY <1>4, <1>5

\* Whatever emplace_back destroys, the segment Allocate has just returned can be
\* opened and is mapped from end to end.
THEOREM GrantUsable == PoolSpec => GrantIsUsable
<1>1. PoolInv /\ [PoolNext]_poolVars =>
        [\A m \in Range(segments') \ Range(segments) :
           m.shm_name \in shm' /\ \A p \in Region(m) : mem'[p] = m.shm_name]_poolVars
  BY GrantStep
<1> QED BY <1>1, PoolInvariant, PTL DEF PoolSpec, GrantIsUsable

\* A step that takes the last element out of segments_ unlinks its name.
LEMMA LastUnlinkedStep ==
  ASSUME PoolInv, [PoolNext]_poolVars,
         NEW s \in LiveNames, s \in shm', s \notin LiveNames'
  PROVE  s # segments[Len(segments)].shm_name
<1>1. segments' # segments
  BY DEF LiveNames
<1>2. ~(UNCHANGED poolVars)
  BY <1>1 DEF poolVars, processVars
<1>3. segments # <<>>
  BY DEF LiveNames, Range
<1>4. \A n : ~AllocateFails(n) /\ ~AllocateRefused(n)
  BY <1>2, AllocateFailsUnchanged DEF AllocateRefused
<1>5. \A x : ~DeallocateRefused(x)
  BY <1>2 DEF DeallocateRefused
<1>6. ~InitializeSucceeds /\ ~InitializeFails
  BY <1>1 DEF InitializeSucceeds, InitializeFails, processVars
<1>7. ~Restart
  BY <1>3 DEF Restart, PoolInv, PoolTypeOK
<1>8. ~Cleanup
  BY DEF Cleanup, Destroy, LiveNames
<1>9. \A n \in Requests : \A m \in NewSegments(n) : ~AllocateFaults(n, m)
  <2> SUFFICES ASSUME NEW n \in Requests, NEW m \in NewSegments(n),
                      AllocateFaults(n, m)
               PROVE  FALSE
    OBVIOUS
  <2>1. Relocated = Range(segments)
    BY RelocatedElements DEF AllocateFaults, Clobbered
  <2> QED BY <2>1 DEF AllocateFaults, LiveNames
<1>10. \A n \in Requests : \A m \in NewSegments(n) : ~AllocateSucceeds(n, m)
  <2> SUFFICES ASSUME NEW n \in Requests, NEW m \in NewSegments(n),
                      AllocateSucceeds(n, m)
               PROVE  FALSE
    OBVIOUS
  <2>1. Range(segments') = Range(segments) \cup {m}
    BY NewSegmentType, AppendElements DEF AllocateSucceeds, PoolInv, PoolTypeOK
  <2> QED BY <2>1 DEF LiveNames
<1>11. PICK x \in Names : DeallocateSucceeds(x)
  BY <1>2, <1>4, <1>5, <1>6, <1>7, <1>8, <1>9, <1>10 DEF PoolNext
<1>12. shm' = shm \ {segments[Len(segments)].shm_name}
  BY <1>11 DEF DeallocateSucceeds, Destroy, DestroyedByErase
<1> QED BY <1>12

\* Deallocate of the last segment, and cleanup of all, leave no name behind.
THEOREM LastUnlinked == PoolSpec => LastInIsUnlinked
<1>1. PoolInv /\ [PoolNext]_poolVars =>
        [\A s \in LiveNames :
           s \in shm' /\ s \notin LiveNames'
             => s # segments[Len(segments)].shm_name]_poolVars
  BY LastUnlinkedStep
<1> QED BY <1>1, PoolInvariant, PTL DEF PoolSpec, LastInIsUnlinked
=============================================================================
