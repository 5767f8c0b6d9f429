------------------------- MODULE Demo5SystemProofs -------------------------
(***************************************************************************)
(* What demo5 guarantees for any number of clients, buffers and names.     *)
(* The pool keeps its invariant under clients that unlink its names and    *)
(* under kills of the server; the rest follows from who may refer to a     *)
(* name: a granted name is referred to by one client, and what that client *)
(* may still have in flight about it is fixed by where its main() is.      *)
(***************************************************************************)
EXTENDS Demo5System, PinnedMemoryPoolProofs

Statuses ==
  {"none", "sent", "running", "stopped", "OK", "RESOURCE_EXHAUSTED", "INVALID_ARGUMENT",
   "UNAVAILABLE"}

RpcCall == [kind : {"none", "AllocateMemory", "FreeSharedMemory"}, size : Nat,
            shm_name : Names \cup {NoObject}, status : Statuses]

ClientTypes ==
  /\ pc \in [Clients -> Running \cup {"gone", "done"}]
  /\ mapped \in [Clients -> Names \cup {NoObject}]
  /\ granted \in [Clients -> Names \cup {NoObject}]
  /\ call \in [Clients -> [Callers -> RpcCall]]
  /\ draining \in BOOLEAN
  /\ abandoned \in SUBSET Names

\* The calls a client may have in flight, by where its main() is.
CallsFit(c) ==
  /\ pc[c] = "requesting" =>
       call[c]["main"].kind = "AllocateMemory" /\ call[c]["handler"] = NoCall
  /\ pc[c] = "granted" => call[c]["main"] = NoCall /\ call[c]["handler"] = NoCall
  /\ pc[c] = "using" => call[c]["main"] = NoCall
  /\ pc[c] = "freeing" => call[c]["main"].kind = "FreeSharedMemory"
  /\ call[c]["handler"].kind # "AllocateMemory"

\* What a call of c carries: a request to free names what c was granted, and once it
\* is answered the server has no segment of that name, unless it is one that refuses
\* calls before its cleanup().
CallFits(c, t) ==
  LET r == call[c][t] IN
  /\ r.kind = "none" => r = NoCall
  /\ r.kind = "AllocateMemory" /\ r.status \notin {"OK", "stopped"} => r.shm_name = NoObject
  /\ r.kind = "FreeSharedMemory" /\ pc[c] \in Running => r.shm_name = granted[c]
  /\ r.kind = "FreeSharedMemory" /\ r.shm_name \in LiveNames =>
       /\ r.status \notin {"OK", "INVALID_ARGUMENT"}
       /\ r.status = "UNAVAILABLE" => draining

ClientFits(c) ==
  /\ CallsFit(c)
  /\ \A t \in Callers : CallFits(c, t)
  /\ pc[c] = "done" /\ granted[c] \in LiveNames => draining /\ granted[c] \in abandoned

\* The names client c refers to.
Refs(c) ==
  {granted[c], mapped[c], call[c]["main"].shm_name, call[c]["handler"].shm_name}

\* No name is with two clients.
ClientsApart ==
  \A c, d \in Clients : c # d => Refs(c) \cap Refs(d) \subseteq {NoObject}

ClientsInv ==
  /\ ClientTypes
  /\ \A c \in Clients : ClientFits(c)
  /\ ClientsApart
  /\ \A s \in LiveNames : s \in abandoned \/ \E c \in Clients : s \in Leaves(c)

SystemInv == PoolInv /\ ClientsInv

-----------------------------------------------------------------------------
\* A request the pool can serve is one of Requests: it has no more buffers than
\* Buffers to give.
LEMMA MappedRequest ==
  ASSUME PoolTypeOK, NEW n \in Nat, NEW m, CanMap(n, m)
  PROVE  n \in Requests
<1>1. m.buffers \subseteq Buffers
  BY DEF CanMap, PoolTypeOK
<1>2. /\ Cardinality(Buffers) \in Nat
      /\ Cardinality(m.buffers) <= Cardinality(Buffers)
  BY <1>1, PoolAssumption, FS_Subset, FS_CardinalityType
<1>3. Cardinality(m.buffers) = n
  BY DEF CanMap
<1> QED BY <1>2, <1>3 DEF Requests

\* SIGKILL takes the pool's process and leaves /dev/shm.
PoolKilled ==
  /\ phase = "ready" /\ phase' = "crashed"
  /\ ProcessGone
  /\ shm' = shm

\* shm_unlink in a client takes a name and leaves the process.
PoolUnlinked ==
  /\ shm' \subseteq shm
  /\ UNCHANGED <<phase, processVars, fd, mem, pinned>>

\* To the pool, a step of the system is a step of its own, its end, or the loss
\* of a name.
LEMMA PoolOfSystem ==
  ASSUME PoolTypeOK, ClientTypes, [SystemNext]_systemVars
  PROVE  [PoolNext]_poolVars \/ PoolKilled \/ PoolUnlinked
<1>1. CASE UNCHANGED systemVars
  BY <1>1 DEF systemVars, serverVars
<1>2. CASE ServerStarts \/ ServerCleansUp \/ ServerRestarts
  BY <1>2 DEF ServerStarts, ServerCleansUp, ServerRestarts, PoolNext
<1>3. CASE ServerKilled
  BY <1>3 DEF ServerKilled, PoolKilled
<1>4. ASSUME NEW c \in Clients, NEW n \in RequestSizes, Launch(c, n)
      PROVE  UNCHANGED poolVars
  BY <1>4 DEF Launch, serverVars
<1>5. ASSUME NEW c \in Clients
      PROVE  call[c]["main"].size \in Nat
  BY <1>5 DEF ClientTypes, RpcCall, Callers
<1>6. ASSUME NEW c \in Clients, ServeAllocateGrants(c)
      PROVE  PoolNext
  <2>1. PICK n \in Nat : \E m \in NewSegments(n) : AllocateSucceeds(n, m)
    BY <1>5, <1>6 DEF ServeAllocateGrants
  <2>2. n \in Requests
    BY <2>1, MappedRequest DEF AllocateSucceeds
  <2> QED BY <2>1, <2>2 DEF PoolNext
<1>7. ASSUME NEW c \in Clients, ServeAllocateFaults(c)
      PROVE  PoolNext
  <2>1. PICK n \in Nat : \E m \in NewSegments(n) : AllocateFaults(n, m)
    BY <1>5, <1>7 DEF ServeAllocateFaults
  <2>2. n \in Requests
    BY <2>1, MappedRequest DEF AllocateFaults
  <2> QED BY <2>1, <2>2 DEF PoolNext
<1>8. ASSUME NEW c \in Clients, ServeAllocateRefuses(c)
      PROVE  UNCHANGED poolVars
  BY <1>8, AllocateFailsUnchanged DEF ServeAllocateRefuses, AllocateRefused
<1>9. ASSUME NEW c \in Clients, NEW t \in Callers, ServeFree(c, t)
      PROVE  PoolNext \/ UNCHANGED poolVars
  <2>1. CASE DeallocateSucceeds(call[c][t].shm_name)
    <3>1. PICK i \in DOMAIN segments : segments[i].shm_name = call[c][t].shm_name
      BY <2>1 DEF DeallocateSucceeds
    <3>2. segments[i] \in MemorySegment
      BY DEF PoolTypeOK
    <3>3. call[c][t].shm_name \in Names
      BY <3>1, <3>2 DEF MemorySegment
    <3> QED BY <2>1, <3>3 DEF PoolNext
  <2>2. CASE DeallocateRefused(call[c][t].shm_name)
    BY <2>2 DEF DeallocateRefused
  <2> QED BY <1>9, <2>1, <2>2 DEF ServeFree
<1>10. ASSUME NEW c \in Clients, NEW t \in Callers,
              \/ CallArrives(c, t) \/ ServeFromEmptied(c, t) \/ Unavailable(c, t)
              \/ Cancelled(c, t) \/ FreeMemoryReturns(c, t)
       PROVE  UNCHANGED poolVars
  BY <1>10 DEF CallArrives, ServeFromEmptied, Unavailable, Cancelled,
               FreeMemoryReturns, serverVars
<1>11. ASSUME NEW c \in Clients,
              \/ ReceiveGrant(c) \/ ReceiveRefusal(c) \/ MapSharedMemory(c)
              \/ FreeMemory(c) \/ SignalFrees(c) \/ SignalExits(c) \/ Killed(c)
       PROVE  UNCHANGED poolVars
  BY <1>11 DEF ReceiveGrant, ReceiveRefusal, MapSharedMemory, FreeMemory,
               SignalFrees, SignalExits, Killed, serverVars
<1>12. ASSUME NEW c \in Clients, MapSharedMemoryFails(c)
       PROVE  PoolUnlinked
  BY <1>12 DEF MapSharedMemoryFails, PoolUnlinked
<1>13. CASE ShutdownBegins \/ \E c \in Clients, t \in Callers : ShutdownInCall(c, t)
  BY <1>13 DEF ShutdownBegins, ShutdownInCall
<1> QED BY <1>1, <1>2, <1>3, <1>4, <1>6, <1>7, <1>8, <1>9, <1>10, <1>11, <1>12, <1>13
        DEF SystemNext, ServerLife, Answered, Received, Mapping, Interrupted

\* The pool keeps its invariant over all of these.
LEMMA PoolInvKept ==
  ASSUME PoolInv, [PoolNext]_poolVars \/ PoolKilled \/ PoolUnlinked
  PROVE  PoolInv'
<1>1. CASE [PoolNext]_poolVars
  BY <1>1, PoolInvStep
<1>2. CASE PoolKilled
  BY <1>2, EmptyPoolInv DEF PoolKilled, ProcessGone, PoolInv, PoolTypeOK
<1>3. CASE PoolUnlinked
  BY <1>3 DEF PoolUnlinked, processVars, PoolInv, PoolTypeOK, BuffersConserved,
              NamesUnique
<1> QED BY <1>1, <1>2, <1>3

-----------------------------------------------------------------------------
\* The names of the segments are Names, and none are left once the pool is not
\* ready.
LEMMA LiveNamesType ==
  ASSUME PoolTypeOK
  PROVE  LiveNames \subseteq Names /\ (phase # "ready" => LiveNames = {})
<1>1. \A m \in Range(segments) : m \in MemorySegment
  BY DEF PoolTypeOK, Range
<1>2. phase # "ready" => Range(segments) = {}
  BY DEF PoolTypeOK, Range
<1> QED BY <1>1, <1>2 DEF LiveNames, MemorySegment

\* Nothing is known of a name that is no object's.
LEMMA NoObjectIsNoName == NoObject \notin Names
BY PoolAssumption

\* Abandon(S) keeps the history among the live names.
LEMMA AbandonGives ==
  ASSUME NEW S, Abandon(S)
  PROVE  abandoned' = (abandoned \cup S) \cap LiveNames'
BY DEF Abandon, LiveNames

\* An answer changes one call and keeps the others.
LEMMA AnswerGives ==
  ASSUME ClientTypes, NEW c \in Clients, NEW t \in Callers, NEW a \in RpcCall,
         Answer(c, t, a)
  PROVE  /\ call' \in [Clients -> [Callers -> RpcCall]]
         /\ call'[c][t] = a
         /\ \A u \in Callers \ {t} : call'[c][u] = call[c][u]
         /\ \A d \in Clients \ {c} : call'[d] = call[d]
BY DEF ClientTypes, Answer

\* What the process of c may change of its own state in one step.
OthersKeep(c) ==
  \A d \in Clients \ {c} :
    /\ pc'[d] = pc[d] /\ mapped'[d] = mapped[d] /\ granted'[d] = granted[d]
    /\ call'[d] = call[d]

\* While a segment is live, a server that refuses calls goes on refusing them, and
\* what is abandoned stays so.
DrainKept ==
  \A s \in LiveNames' : (draining => draining') /\ (s \in abandoned => s \in abandoned')

\* A client that is not part of a step stays as it fits, if names come back to
\* life only when nobody refers to them.
LEMMA OtherFits ==
  ASSUME ClientTypes, NEW d \in Clients, ClientFits(d),
         pc'[d] = pc[d], granted'[d] = granted[d], call'[d] = call[d],
         \A s \in LiveNames' \ LiveNames : UnusedByClients(s), DrainKept
  PROVE  ClientFits(d)'
<1>1. CallsFit(d)'
  BY DEF ClientFits, CallsFit
<1>2. ASSUME NEW s \in Refs(d), s \notin LiveNames
      PROVE  s \notin LiveNames'
  BY <1>2 DEF UnusedByClients, Refs
<1>3. ASSUME NEW t \in Callers
      PROVE  CallFits(d, t)'
  <2>1. CallFits(d, t)
    BY DEF ClientFits
  <2>2. call[d][t].shm_name \in Refs(d)
    BY DEF Refs, Callers
  <2> QED BY <1>2, <2>1, <2>2 DEF CallFits, DrainKept
<1>4. pc'[d] = "done" /\ granted'[d] \in LiveNames' => draining' /\ granted'[d] \in abandoned'
  BY <1>2 DEF ClientFits, Refs, DrainKept
<1> QED BY <1>1, <1>3, <1>4 DEF ClientFits

\* A step of one client, or of the service on its behalf, keeps the invariant if
\* that client still fits, if its new names and the pool's are nobody's, and if
\* no live name it answered for is dropped.
LEMMA LocalStep ==
  ASSUME ClientsInv, ClientTypes', NEW c \in Clients, OthersKeep(c),
         ClientFits(c)', DrainKept,
         \A s \in LiveNames' \ LiveNames : UnusedByClients(s),
         \A s \in Refs(c)' : s \in Refs(c) \cup {NoObject} \/ UnusedByClients(s),
         \A s \in LiveNames' : \/ s \in abandoned' \cup Leaves(c)'
                              \/ s \in LiveNames \ (abandoned \cup Leaves(c))
  PROVE  ClientsInv'
<1>1. ASSUME NEW d \in Clients \ {c}
      PROVE  ClientFits(d)' /\ Refs(d)' = Refs(d) /\ Leaves(d)' = Leaves(d)
  <2>1. ClientFits(d)'
    BY OtherFits DEF ClientsInv, OthersKeep
  <2>2. Refs(d)' = Refs(d)
    BY DEF OthersKeep, Refs
  <2>3. Leaves(d)' = Leaves(d)
    BY DEF OthersKeep, Leaves
  <2> QED BY <2>1, <2>2, <2>3
<1>2. ASSUME NEW d \in Clients \ {c}
      PROVE  Refs(c)' \cap Refs(d)' \subseteq {NoObject}
  <2>1. Refs(d)' = Refs(d)
    BY <1>1
  <2>2. \A s \in Refs(d) : ~UnusedByClients(s)
    BY DEF UnusedByClients, Refs
  <2>3. Refs(c) \cap Refs(d) \subseteq {NoObject}
    BY DEF ClientsInv, ClientsApart
  <2> QED BY <2>1, <2>2, <2>3
<1>3. ClientsApart'
  <2>1. ASSUME NEW d \in Clients, NEW e \in Clients, d # e
        PROVE  Refs(d)' \cap Refs(e)' \subseteq {NoObject}
    <3>1. CASE d = c
      BY <1>2, <2>1, <3>1
    <3>2. CASE e = c
      BY <1>2, <2>1, <3>2
    <3>3. CASE d # c /\ e # c
      BY <1>1, <2>1, <3>3 DEF ClientsInv, ClientsApart
    <3> QED BY <3>1, <3>2, <3>3
  <2> QED BY <2>1 DEF ClientsApart
<1>4. ASSUME NEW s \in LiveNames'
      PROVE  s \in abandoned' \/ \E d \in Clients : s \in Leaves(d)'
  <2>1. CASE s \in abandoned' \cup Leaves(c)'
    BY <2>1
  <2>2. CASE s \in LiveNames \ (abandoned \cup Leaves(c))
    <3>1. PICK d \in Clients : s \in Leaves(d)
      BY <2>2 DEF ClientsInv
    <3>2. d # c
      BY <2>2, <3>1
    <3> QED BY <1>1, <3>1, <3>2
  <2> QED BY <2>1, <2>2
<1>5. \A d \in Clients : ClientFits(d)'
  BY <1>1
<1> QED BY <1>3, <1>4, <1>5 DEF ClientsInv

\* A step of the server alone, which makes no name live, keeps the invariant.
LEMMA ServerStep ==
  ASSUME ClientsInv, UNCHANGED <<clientVars, call>>, LiveNames' \subseteq LiveNames,
         draining' \in BOOLEAN, abandoned' \subseteq Names, DrainKept
  PROVE  ClientsInv'
<1>1. \A s \in LiveNames' : s \in abandoned => s \in abandoned'
  BY DEF DrainKept
<1>2. /\ pc' = pc /\ mapped' = mapped /\ granted' = granted /\ call' = call
  BY DEF clientVars
<1>3. ClientTypes'
  BY <1>2 DEF ClientsInv, ClientTypes
<1>4. \A d \in Clients : ClientFits(d)'
  BY <1>2, OtherFits DEF ClientsInv
<1>5. \A d \in Clients : Refs(d)' = Refs(d) /\ Leaves(d)' = Leaves(d)
  BY <1>2 DEF Refs, Leaves
<1>6. ClientsApart'
  BY <1>5 DEF ClientsInv, ClientsApart
<1>7. \A s \in LiveNames' : s \in abandoned' \/ \E d \in Clients : s \in Leaves(d)'
  BY <1>1, <1>5 DEF ClientsInv
<1> QED BY <1>3, <1>4, <1>6, <1>7 DEF ClientsInv

-----------------------------------------------------------------------------
\* A successful Allocate makes one name live.
LEMMA AllocateLive ==
  ASSUME PoolTypeOK, NEW n \in Nat, NEW m \in NewSegments(n), AllocateSucceeds(n, m)
  PROVE  LiveNames' = LiveNames \cup {m.shm_name} /\ m.shm_name \in Names
<1>1. n \in Requests
  BY MappedRequest DEF AllocateSucceeds
<1>2. m \in MemorySegment
  BY <1>1, NewSegmentType
<1>3. Range(segments') = Range(segments) \cup {m}
  BY <1>2, AppendElements DEF PoolTypeOK, AllocateSucceeds
<1> QED BY <1>2, <1>3 DEF LiveNames, MemorySegment

\* A successful Deallocate takes exactly the name it was given.
LEMMA DeallocateLive ==
  ASSUME PoolInv, NEW s, DeallocateSucceeds(s)
  PROVE  LiveNames' = LiveNames \ {s}
<1>1. PICK i \in DOMAIN segments :
        segments[i].shm_name = s /\ segments' = Erase(segments, i)
  BY DEF DeallocateSucceeds
<1>2. Range(segments') = {segments[j] : j \in DOMAIN segments \ {i}}
  BY <1>1, EraseElements DEF PoolInv, PoolTypeOK
<1>3. \A j \in DOMAIN segments \ {i} : segments[j].shm_name # s
  BY <1>1 DEF PoolInv, NamesUnique
<1>4. Range(segments) = Range(segments') \cup {segments[i]}
  BY <1>2 DEF Range
<1> QED BY <1>1, <1>2, <1>3, <1>4 DEF LiveNames

\* The shapes of the two messages.
LEMMA CallTypes ==
  ASSUME NEW s \in Names \cup {NoObject}, NEW st \in Statuses, NEW n \in Nat
  PROVE  /\ AllocateCall(n, s, st) \in RpcCall
         /\ FreeCall(s, st) \in RpcCall
         /\ NoCall \in RpcCall
BY DEF AllocateCall, FreeCall, NoCall, RpcCall, Statuses

\* What the invariant says of one client, for the lemmas below.
LEMMA ClientFacts ==
  ASSUME ClientsInv, NEW c \in Clients
  PROVE  /\ CallsFit(c) /\ CallFits(c, "main") /\ CallFits(c, "handler")
         /\ pc[c] = "done" /\ granted[c] \in LiveNames => draining /\ granted[c] \in abandoned
         /\ granted[c] \in Names \cup {NoObject}
         /\ call[c]["main"] \in RpcCall /\ call[c]["handler"] \in RpcCall
BY DEF ClientsInv, ClientFits, ClientTypes, Callers

\* A grant reaches only the client whose request is in flight: it is waiting, and
\* accounts for the name, or it is gone, and the name is abandoned.
LEMMA ServeAllocateGrantsInv ==
  ASSUME SystemInv, NEW c \in Clients, ServeAllocateGrants(c)
  PROVE  ClientsInv'
<1> USE DEF SystemInv
<1> DEFINE r == call[c]["main"]
<1>1. /\ r \in RpcCall /\ r.kind = "AllocateMemory" /\ r.status = "running"
      /\ r.shm_name = NoObject
      /\ r.size \in Nat
  BY ClientFacts DEF ServeAllocateGrants, Served, CallFits, RpcCall
<1>2. PICK m \in NewSegments(r.size) :
        /\ UnusedByClients(m.shm_name)
        /\ AllocateSucceeds(r.size, m)
        /\ Answer(c, "main", AllocateCall(r.size, m.shm_name, "OK"))
        /\ Abandon(IF pc[c] \in Running THEN {} ELSE {m.shm_name})
  BY DEF ServeAllocateGrants
<1> DEFINE s == m.shm_name
           a == AllocateCall(r.size, s, "OK")
<1>3. LiveNames' = LiveNames \cup {s} /\ s \in Names
  BY <1>1, <1>2, AllocateLive DEF PoolInv
<1>4. a \in RpcCall
  BY <1>1, <1>3, CallTypes DEF Statuses
<1>5. a.kind = "AllocateMemory" /\ a.status = "OK" /\ a.shm_name = s
  BY DEF AllocateCall
<1> HIDE DEF r, s, a
<1>6. /\ call' \in [Clients -> [Callers -> RpcCall]]
      /\ call'[c]["main"] = a
      /\ call'[c]["handler"] = call[c]["handler"]
      /\ \A d \in Clients \ {c} : call'[d] = call[d]
  BY <1>2, <1>4, AnswerGives DEF ClientsInv, Callers, a, r, s
<1>7. pc' = pc /\ mapped' = mapped /\ granted' = granted /\ draining' = draining
  BY DEF ServeAllocateGrants, clientVars
<1>8. abandoned' = (abandoned \cup (IF pc[c] \in Running THEN {} ELSE {s})) \cap LiveNames'
  BY <1>2, AbandonGives DEF s
<1>9. ClientTypes'
  BY <1>3, <1>6, <1>7, <1>8 DEF ClientsInv, ClientTypes
<1>10. OthersKeep(c)
  BY <1>6, <1>7 DEF OthersKeep
<1>11. pc[c] \in Running => pc[c] = "requesting"
  BY <1>1, ClientFacts DEF CallsFit, Running, NoCall, r
<1>12. granted[c] # s /\ call[c]["handler"].shm_name # s
  BY <1>2 DEF UnusedByClients, s
<1>13. ClientFits(c)'
  <2>1. CallsFit(c)'
    BY <1>1, <1>5, <1>6, <1>7, <1>11, ClientFacts DEF CallsFit, NoCall, Running, r
  <2>2. CallFits(c, "main")'
    BY <1>5, <1>6 DEF CallFits
  <2>3. CallFits(c, "handler")'
    BY <1>3, <1>6, <1>7, <1>12, ClientFacts DEF CallFits
  <2>4. pc'[c] = "done" /\ granted'[c] \in LiveNames' => draining' /\ granted'[c] \in abandoned'
    BY <1>3, <1>7, <1>8, <1>12, ClientFacts
  <2> QED BY <2>1, <2>2, <2>3, <2>4 DEF ClientFits, Callers
<1>14. \A x \in LiveNames' \ LiveNames : UnusedByClients(x)
  BY <1>2, <1>3 DEF s
<1>15. \A x \in Refs(c)' : x \in Refs(c) \/ UnusedByClients(x)
  BY <1>2, <1>5, <1>6, <1>7 DEF Refs, s
<1>16. \A x \in LiveNames' : \/ x \in abandoned' \cup Leaves(c)'
                             \/ x \in LiveNames \ (abandoned \cup Leaves(c))
  <2>1. CASE pc[c] \in Running
    <3>1. Leaves(c)' = {s} /\ Leaves(c) = {NoObject}
      BY <1>1, <1>5, <1>6, <1>7, <1>11, <2>1 DEF Leaves, r
    <3>2. NoObject \notin LiveNames'
      BY <1>3, LiveNamesType, NoObjectIsNoName DEF PoolInv
    <3> QED BY <1>3, <1>8, <2>1, <3>1, <3>2
  <2>2. CASE pc[c] \notin Running
    <3>1. Leaves(c)' = {} /\ Leaves(c) = {}
      BY <1>7, <2>2 DEF Leaves, Running
    <3> QED BY <1>3, <1>8, <2>2, <3>1
  <2> QED BY <2>1, <2>2
<1>17. DrainKept
  BY <1>7, <1>8 DEF DrainKept
<1> QED BY <1>9, <1>10, <1>13, <1>14, <1>15, <1>16, <1>17, LocalStep

\* A step that changes one call of c and makes no name live keeps the invariant
\* if the new call fits and keeps what a waiting client accounts for.
LEMMA AnswerStep ==
  ASSUME ClientsInv, PoolTypeOK', NEW c \in Clients, NEW t \in Callers,
         NEW a \in RpcCall, Answer(c, t, a), UNCHANGED clientVars,
         LiveNames' \subseteq LiveNames,
         abandoned' \subseteq Names, draining' \in BOOLEAN, DrainKept,
         CallsFit(c)', CallFits(c, t)',
         a.shm_name \in {granted[c], call[c][t].shm_name, NoObject},
         pc[c] = "requesting" /\ t = "main" =>
           a.shm_name = call[c][t].shm_name \/ call[c][t].shm_name \notin LiveNames'
  PROVE  ClientsInv'
<1>1. /\ call' \in [Clients -> [Callers -> RpcCall]]
      /\ call'[c][t] = a
      /\ \A u \in Callers \ {t} : call'[c][u] = call[c][u]
      /\ \A d \in Clients \ {c} : call'[d] = call[d]
  BY AnswerGives DEF ClientsInv
<1>2. pc' = pc /\ mapped' = mapped /\ granted' = granted
  BY DEF clientVars
<1>3. ClientTypes'
  BY <1>1, <1>2 DEF ClientsInv, ClientTypes
<1>4. OthersKeep(c)
  BY <1>1, <1>2 DEF OthersKeep
<1>5. ClientFits(c)'
  <2>1. ASSUME NEW u \in Callers \ {t}
        PROVE  CallFits(c, u)'
    <3>1. CallFits(c, u)
      BY DEF ClientsInv, ClientFits
    <3> QED BY <1>1, <1>2, <3>1 DEF CallFits, DrainKept
  <2>2. pc'[c] = "done" /\ granted'[c] \in LiveNames' => draining' /\ granted'[c] \in abandoned'
    BY <1>2, ClientFacts DEF DrainKept
  <2> QED BY <2>1, <2>2 DEF ClientFits
<1>6. \A x \in Refs(c)' : x \in Refs(c) \cup {NoObject}
  <2>1. \A u \in Callers : call'[c][u].shm_name \in Refs(c) \cup {NoObject}
    <3>1. call'[c][t].shm_name \in Refs(c) \cup {NoObject}
      BY <1>1 DEF Refs, Callers
    <3>2. \A u \in Callers \ {t} : call'[c][u].shm_name \in Refs(c)
      BY <1>1 DEF Refs, Callers
    <3> QED BY <3>1, <3>2
  <2> QED BY <1>2, <2>1 DEF Refs, Callers
<1>7. \A x \in LiveNames' \cap Leaves(c) : x \in Leaves(c)'
  <2>1. CASE pc[c] = "requesting"
    <3>1. Leaves(c) = {call[c]["main"].shm_name}
          /\ Leaves(c)' = {call'[c]["main"].shm_name}
      BY <1>2, <2>1 DEF Leaves
    <3>2. CASE t = "main"
      BY <1>1, <2>1, <3>1, <3>2
    <3>3. CASE t # "main"
      BY <1>1, <3>1, <3>3 DEF Callers
    <3> QED BY <3>2, <3>3
  <2>2. CASE pc[c] # "requesting"
    BY <1>2, <2>2 DEF Leaves
  <2> QED BY <2>1, <2>2
<1>8. \A x \in LiveNames' : \/ x \in abandoned' \cup Leaves(c)'
                            \/ x \in LiveNames \ (abandoned \cup Leaves(c))
  BY <1>7 DEF DrainKept
<1> QED BY <1>3, <1>4, <1>5, <1>6, <1>8, LocalStep

\* A refusal leaves the pool and the names as they are.
LEMMA ServeAllocateRefusesInv ==
  ASSUME SystemInv, NEW c \in Clients, ServeAllocateRefuses(c)
  PROVE  ClientsInv'
<1> DEFINE r == call[c]["main"]
           a == AllocateCall(r.size, NoObject, "RESOURCE_EXHAUSTED")
<1>1. /\ r \in RpcCall /\ r.kind = "AllocateMemory" /\ r.shm_name = NoObject
      /\ r.size \in Nat
  BY ClientFacts DEF SystemInv, ServeAllocateRefuses, Served, CallFits, RpcCall
<1>2. a \in RpcCall
  BY <1>1, CallTypes DEF Statuses
<1>3. a.kind = "AllocateMemory" /\ a.shm_name = NoObject
  BY DEF AllocateCall
<1>4. Answer(c, "main", a) /\ Abandon({}) /\ UNCHANGED <<clientVars, draining>>
  BY DEF ServeAllocateRefuses
<1> HIDE DEF a
<1>5. UNCHANGED poolVars
  BY AllocateFailsUnchanged DEF ServeAllocateRefuses, AllocateRefused
<1>6. PoolTypeOK' /\ LiveNames' = LiveNames
  BY <1>5 DEF poolVars, processVars, kernelVars, LiveNames, SystemInv, PoolInv,
              PoolTypeOK
<1>7. abandoned' \subseteq Names /\ draining' \in BOOLEAN /\ DrainKept
  BY <1>4, AbandonGives DEF SystemInv, ClientsInv, ClientTypes, DrainKept
<1>8. /\ call'[c]["main"] = a
      /\ call'[c]["handler"] = call[c]["handler"]
  BY <1>2, <1>4, AnswerGives DEF SystemInv, ClientsInv, Callers
<1>9. CallsFit(c)'
  BY <1>1, <1>3, <1>4, <1>8, ClientFacts
  DEF CallsFit, clientVars, SystemInv, NoCall
<1>10. CallFits(c, "main")'
  BY <1>3, <1>8 DEF CallFits
<1> QED BY <1>1, <1>2, <1>3, <1>4, <1>6, <1>7, <1>9, <1>10, AnswerStep
        DEF SystemInv, Callers

\* Freed or refused, the name of an answered request is not the server's.
LEMMA ServeFreeInv ==
  ASSUME SystemInv, PoolInv', NEW c \in Clients, NEW t \in Callers, ServeFree(c, t)
  PROVE  ClientsInv'
<1> DEFINE s == call[c][t].shm_name
<1>1. /\ call[c][t] \in RpcCall /\ call[c][t].kind = "FreeSharedMemory"
      /\ CallFits(c, t) /\ s \in Names \cup {NoObject}
  BY DEF SystemInv, ClientsInv, ClientFits, ClientTypes, ServeFree, Served, RpcCall
<1>2. LiveNames' = LiveNames \ {s}
  <2>1. CASE DeallocateSucceeds(s)
    BY <2>1, DeallocateLive DEF SystemInv
  <2>2. CASE DeallocateRefused(s)
    BY <2>2 DEF DeallocateRefused, poolVars, processVars, LiveNames
  <2> QED BY <2>1, <2>2 DEF ServeFree
<1>3. PICK st \in {"OK", "INVALID_ARGUMENT"} : Answer(c, t, FreeCall(s, st))
  BY DEF ServeFree
<1> DEFINE a == FreeCall(s, st)
<1>4. a \in RpcCall
  BY <1>1, CallTypes DEF Statuses
<1>5. a.kind = "FreeSharedMemory" /\ a.status = st /\ a.shm_name = s
  BY DEF FreeCall
<1>6. Answer(c, t, a) /\ Abandon({}) /\ UNCHANGED <<clientVars, draining>>
  BY <1>3 DEF ServeFree
<1> HIDE DEF a
<1>7. abandoned' \subseteq Names /\ draining' \in BOOLEAN /\ DrainKept
  BY <1>6, AbandonGives DEF SystemInv, ClientsInv, ClientTypes, DrainKept
<1>8. /\ call'[c][t] = a
      /\ \A u \in Callers \ {t} : call'[c][u] = call[c][u]
  BY <1>4, <1>6, AnswerGives DEF SystemInv, ClientsInv
<1>9. pc' = pc /\ granted' = granted
  BY <1>6 DEF clientVars
<1>10. CallsFit(c)'
  <2>1. CASE t = "main"
    <3>1. call'[c]["main"] = a /\ call'[c]["handler"] = call[c]["handler"]
      BY <1>8, <2>1 DEF Callers
    <3> QED BY <1>1, <1>5, <1>9, <2>1, <3>1, ClientFacts
            DEF CallsFit, SystemInv, NoCall
  <2>2. CASE t = "handler"
    <3>1. call'[c]["handler"] = a /\ call'[c]["main"] = call[c]["main"]
      BY <1>8, <2>2 DEF Callers
    <3> QED BY <1>1, <1>5, <1>9, <2>2, <3>1, ClientFacts
            DEF CallsFit, SystemInv, NoCall
  <2> QED BY <2>1, <2>2 DEF Callers
<1>11. CallFits(c, t)'
  BY <1>1, <1>2, <1>5, <1>8, <1>9 DEF CallFits
<1>12. PoolTypeOK' /\ ClientsInv
  BY DEF PoolInv, SystemInv
<1>13. LiveNames' \subseteq LiveNames
  BY <1>2
<1> QED BY <1>4, <1>5, <1>6, <1>7, <1>10, <1>11, <1>12, <1>13, AnswerStep

\* A call whose kind and name do not change, and whose status says nothing of the name,
\* fits as before.
LEMMA SameCallStep ==
  ASSUME SystemInv, PoolTypeOK', LiveNames' = LiveNames, NEW c \in Clients, NEW t \in Callers,
         call[c][t].status \notin {"none", "UNAVAILABLE"},
         NEW st \in {"running", "stopped"},
         call[c][t].status \in {"OK", "stopped"} => st = "stopped",
         Answer(c, t, [call[c][t] EXCEPT !.status = st]),
         UNCHANGED <<clientVars, abandoned>>, draining' \in BOOLEAN, DrainKept
  PROVE  ClientsInv'
<1> DEFINE r == call[c][t]
           a == [r EXCEPT !.status = st]
<1>1. r \in RpcCall /\ CallFits(c, t)
  BY DEF SystemInv, ClientsInv, ClientFits, ClientTypes
<1>2. /\ a \in RpcCall
      /\ a.kind = r.kind /\ a.status = st /\ a.shm_name = r.shm_name
  BY <1>1 DEF RpcCall, Statuses
<1>3. r.kind # "none"
  BY <1>1 DEF CallFits, NoCall
<1> HIDE DEF a
<1>4. /\ call'[c][t] = a
      /\ \A u \in Callers \ {t} : call'[c][u] = call[c][u]
  BY <1>2, AnswerGives DEF SystemInv, ClientsInv, a
<1>5. pc' = pc /\ granted' = granted
  BY DEF clientVars
<1>6. CallsFit(c)'
  <2>1. CASE t = "main"
    <3>1. call'[c]["main"] = a /\ call'[c]["handler"] = call[c]["handler"]
      BY <1>4, <2>1 DEF Callers
    <3> QED BY <1>2, <1>3, <1>5, <2>1, <3>1, ClientFacts DEF CallsFit, SystemInv, NoCall
  <2>2. CASE t = "handler"
    <3>1. call'[c]["handler"] = a /\ call'[c]["main"] = call[c]["main"]
      BY <1>4, <2>2 DEF Callers
    <3> QED BY <1>2, <1>3, <1>5, <2>2, <3>1, ClientFacts DEF CallsFit, SystemInv, NoCall
  <2> QED BY <2>1, <2>2 DEF Callers
<1>7. CallFits(c, t)'
  BY <1>1, <1>2, <1>3, <1>4, <1>5 DEF CallFits
<1>8. abandoned' \subseteq Names /\ Answer(c, t, a)
  BY DEF SystemInv, ClientsInv, ClientTypes, a
<1> QED BY <1>2, <1>6, <1>7, <1>8, AnswerStep DEF SystemInv

\* Steps that leave the whole pool alone leave its names alone.
LEMMA PoolUnchanged ==
  ASSUME SystemInv, UNCHANGED poolVars
  PROVE  LiveNames' = LiveNames /\ PoolTypeOK'
BY DEF poolVars, processVars, kernelVars, LiveNames, SystemInv, PoolInv, PoolTypeOK

\* A call that a thread takes, or that a signal stops, carries what it carried.
LEMMA TakenInv ==
  ASSUME SystemInv, NEW c \in Clients, NEW t \in Callers,
         CallArrives(c, t) \/ ShutdownInCall(c, t)
  PROVE  ClientsInv'
<1>1. UNCHANGED <<poolVars, clientVars, abandoned>>
  BY DEF CallArrives, ShutdownInCall, serverVars
<1>2. LiveNames' = LiveNames /\ PoolTypeOK'
  BY <1>1, PoolUnchanged
<1>3. draining' \in BOOLEAN /\ (phase = "ready" /\ draining => draining')
  BY DEF CallArrives, ShutdownInCall, serverVars, SystemInv, ClientsInv, ClientTypes
<1>4. DrainKept
  BY <1>1, <1>2, <1>3, LiveNamesType DEF DrainKept, SystemInv, PoolInv
<1>5. CASE CallArrives(c, t)
  BY <1>1, <1>2, <1>3, <1>4, <1>5, SameCallStep DEF CallArrives
<1>6. CASE ShutdownInCall(c, t)
  BY <1>1, <1>2, <1>3, <1>4, <1>6, SameCallStep DEF ShutdownInCall, OnThread
<1> QED BY <1>5, <1>6

\* What the channel says of a call keeps its kind, and the name of a request to free.
LEMMA UnansweredGives ==
  ASSUME NEW r \in RpcCall
  PROVE  /\ Unanswered(r) \in RpcCall
         /\ Unanswered(r).kind = r.kind /\ Unanswered(r).size = r.size
         /\ Unanswered(r).status = "UNAVAILABLE"
         /\ Unanswered(r).shm_name =
              (IF r.kind = "FreeSharedMemory" THEN r.shm_name ELSE NoObject)
BY DEF Unanswered, RpcCall, Statuses

\* A refused request to free may leave its segment live only while the server drains;
\* once it is down none is, so an answer that is lost is nobody's loss.
LEMMA UnavailableInv ==
  ASSUME SystemInv, NEW c \in Clients, NEW t \in Callers, Unavailable(c, t)
  PROVE  ClientsInv'
<1> DEFINE r == call[c][t]
           a == Unanswered(r)
<1>1. r \in RpcCall /\ CallFits(c, t) /\ r.status \in {"sent", "OK", "running"}
  BY DEF SystemInv, ClientsInv, ClientFits, ClientTypes, Unavailable
<1>2. r.kind # "none"
  BY <1>1 DEF CallFits, NoCall
<1>3. /\ a \in RpcCall
      /\ a.kind = r.kind /\ a.status = "UNAVAILABLE"
      /\ a.shm_name = (IF r.kind = "FreeSharedMemory" THEN r.shm_name ELSE NoObject)
  BY <1>1, UnansweredGives
<1>4. Answer(c, t, a) /\ UNCHANGED <<clientVars, poolVars, draining, abandoned>>
  BY DEF Unavailable, serverVars
<1> HIDE DEF a
<1>5. LiveNames' = LiveNames /\ PoolTypeOK'
  BY <1>4, PoolUnchanged
<1>6. LiveNames # {} => phase = "ready" /\ r.status = "sent" /\ draining
  <2>1. LiveNames # {} => phase = "ready"
    BY LiveNamesType DEF SystemInv, PoolInv
  <2> QED BY <2>1 DEF Unavailable
<1>7. /\ call'[c][t] = a
      /\ \A u \in Callers \ {t} : call'[c][u] = call[c][u]
  BY <1>3, <1>4, AnswerGives DEF SystemInv, ClientsInv
<1>8. pc' = pc /\ granted' = granted
  BY <1>4 DEF clientVars
<1>9. CallsFit(c)'
  <2>1. CASE t = "main"
    <3>1. call'[c]["main"] = a /\ call'[c]["handler"] = call[c]["handler"]
      BY <1>7, <2>1 DEF Callers
    <3> QED BY <1>2, <1>3, <1>8, <2>1, <3>1, ClientFacts
            DEF CallsFit, SystemInv, NoCall
  <2>2. CASE t = "handler"
    <3>1. call'[c]["handler"] = a /\ call'[c]["main"] = call[c]["main"]
      BY <1>7, <2>2 DEF Callers
    <3> QED BY <1>2, <1>3, <1>8, <2>2, <3>1, ClientFacts
            DEF CallsFit, SystemInv, NoCall
  <2> QED BY <2>1, <2>2 DEF Callers
<1>10. CallFits(c, t)'
  <2>1. LiveNames' # {} => draining'
    BY <1>4, <1>5, <1>6
  <2> QED BY <1>1, <1>2, <1>3, <1>7, <1>8, <2>1 DEF CallFits
<1>11. a.shm_name \in {granted[c], call[c][t].shm_name, NoObject}
  BY <1>3
<1>12. a.shm_name = call[c][t].shm_name \/ call[c][t].shm_name \notin LiveNames'
  BY <1>1, <1>2, <1>3, <1>5, <1>6 DEF CallFits, RpcCall
<1>13. abandoned' \subseteq Names /\ draining' \in BOOLEAN /\ DrainKept
  BY <1>4 DEF SystemInv, ClientsInv, ClientTypes, DrainKept
<1> QED BY <1>3, <1>4, <1>5, <1>9, <1>10, <1>11, <1>12, <1>13, AnswerStep DEF SystemInv

\* What a handler that comes too late says is true: no segment is live.
LEMMA ServeFromEmptiedInv ==
  ASSUME SystemInv, NEW c \in Clients, NEW t \in Callers, ServeFromEmptied(c, t)
  PROVE  ClientsInv'
<1> DEFINE r == call[c][t]
           a == IF r.kind = "AllocateMemory"
                THEN AllocateCall(r.size, NoObject, "RESOURCE_EXHAUSTED")
                ELSE FreeCall(r.shm_name, "INVALID_ARGUMENT")
<1>1. r \in RpcCall /\ CallFits(c, t) /\ r.status = "running" /\ r.kind # "none"
  BY DEF SystemInv, ClientsInv, ClientFits, ClientTypes, ServeFromEmptied, Served,
         CallFits, NoCall
<1>2. r.size \in Nat /\ r.shm_name \in Names \cup {NoObject}
      /\ r.kind \in {"AllocateMemory", "FreeSharedMemory"}
  BY <1>1 DEF RpcCall
<1>3. a \in RpcCall /\ a.kind = r.kind
      /\ a.shm_name = (IF r.kind = "AllocateMemory" THEN NoObject ELSE r.shm_name)
      /\ a.status = (IF r.kind = "AllocateMemory" THEN "RESOURCE_EXHAUSTED"
                      ELSE "INVALID_ARGUMENT")
  <2>1. /\ AllocateCall(r.size, NoObject, "RESOURCE_EXHAUSTED") \in RpcCall
        /\ FreeCall(r.shm_name, "INVALID_ARGUMENT") \in RpcCall
    BY <1>2, CallTypes DEF Statuses
  <2> QED BY <1>2, <2>1 DEF AllocateCall, FreeCall
<1>4. Answer(c, t, a) /\ UNCHANGED <<clientVars, poolVars, draining, abandoned>>
  BY DEF ServeFromEmptied, serverVars
<1> HIDE DEF a
<1>5. LiveNames' = {} /\ PoolTypeOK'
  <2>1. LiveNames = {}
    BY LiveNamesType DEF SystemInv, PoolInv, ServeFromEmptied
  <2> QED BY <1>4, <2>1, PoolUnchanged
<1>6. /\ call'[c][t] = a
      /\ \A u \in Callers \ {t} : call'[c][u] = call[c][u]
  BY <1>3, <1>4, AnswerGives DEF SystemInv, ClientsInv
<1>7. pc' = pc /\ granted' = granted
  BY <1>4 DEF clientVars
<1>8. CallsFit(c)'
  <2>1. CASE t = "main"
    <3>1. call'[c]["main"] = a /\ call'[c]["handler"] = call[c]["handler"]
      BY <1>6, <2>1 DEF Callers
    <3> QED BY <1>1, <1>3, <1>7, <2>1, <3>1, ClientFacts DEF CallsFit, SystemInv, NoCall
  <2>2. CASE t = "handler"
    <3>1. call'[c]["handler"] = a /\ call'[c]["main"] = call[c]["main"]
      BY <1>6, <2>2 DEF Callers
    <3> QED BY <1>1, <1>3, <1>7, <2>2, <3>1, ClientFacts DEF CallsFit, SystemInv, NoCall
  <2> QED BY <2>1, <2>2 DEF Callers
<1>9. CallFits(c, t)'
  BY <1>1, <1>2, <1>3, <1>5, <1>6, <1>7 DEF CallFits
<1>10. a.shm_name \in {granted[c], call[c][t].shm_name, NoObject}
  BY <1>3
<1>11. /\ LiveNames' \subseteq LiveNames /\ call[c][t].shm_name \notin LiveNames'
       /\ abandoned' \subseteq Names /\ draining' \in BOOLEAN /\ DrainKept
  BY <1>4, <1>5 DEF SystemInv, ClientsInv, ClientTypes, DrainKept
<1> QED BY <1>3, <1>4, <1>5, <1>8, <1>9, <1>10, <1>11, AnswerStep DEF SystemInv

\* A cancelled call was nobody's any more.
LEMMA CancelledInv ==
  ASSUME SystemInv, NEW c \in Clients, NEW t \in Callers, Cancelled(c, t)
  PROVE  ClientsInv'
<1>1. Answer(c, t, NoCall) /\ UNCHANGED <<clientVars, poolVars, draining, abandoned>>
  BY DEF Cancelled, serverVars
<1>2. NoCall \in RpcCall
  BY CallTypes DEF Statuses
<1>3. LiveNames' = LiveNames /\ PoolTypeOK'
  BY <1>1, PoolUnchanged
<1>4. /\ call'[c][t] = NoCall
      /\ \A u \in Callers \ {t} : call'[c][u] = call[c][u]
  BY <1>1, <1>2, AnswerGives DEF SystemInv, ClientsInv
<1>5. pc'[c] \notin Running
  BY <1>1 DEF Cancelled, clientVars
<1>6. CallsFit(c)'
  <2>1. call'[c]["handler"].kind # "AllocateMemory"
    BY <1>4, ClientFacts DEF SystemInv, CallsFit, NoCall, Callers
  <2> QED BY <1>5, <2>1 DEF CallsFit, Running
<1>7. CallFits(c, t)'
  BY <1>4 DEF CallFits, NoCall
<1>8. NoCall.shm_name = NoObject /\ pc[c] # "requesting"
  BY DEF NoCall, Cancelled, Running
<1>9. abandoned' \subseteq Names /\ draining' \in BOOLEAN /\ DrainKept
  BY <1>1 DEF SystemInv, ClientsInv, ClientTypes, DrainKept
<1> QED BY <1>1, <1>2, <1>3, <1>6, <1>7, <1>8, <1>9, AnswerStep DEF SystemInv

\* The signal handler asks for the name its client was granted.
LEMMA SignalFreesInv ==
  ASSUME SystemInv, NEW c \in Clients, SignalFrees(c)
  PROVE  ClientsInv'
<1> DEFINE a == FreeCall(granted[c], "sent")
<1>1. Answer(c, "handler", a) /\ UNCHANGED <<clientVars, poolVars, draining, abandoned>>
  BY DEF SignalFrees, serverVars
<1>2. a \in RpcCall
  BY CallTypes, ClientFacts DEF SystemInv, Statuses
<1>3. a.kind = "FreeSharedMemory" /\ a.status = "sent" /\ a.shm_name = granted[c]
  BY DEF FreeCall
<1> HIDE DEF a
<1>4. LiveNames' = LiveNames /\ PoolTypeOK'
  BY <1>1, PoolUnchanged
<1>5. call'[c]["handler"] = a /\ call'[c]["main"] = call[c]["main"]
  BY <1>1, <1>2, AnswerGives DEF SystemInv, ClientsInv, Callers
<1>6. pc' = pc /\ granted' = granted
  BY <1>1 DEF clientVars
<1>7. CallsFit(c)'
  BY <1>3, <1>5, <1>6, ClientFacts DEF CallsFit, SystemInv, SignalFrees
<1>8. CallFits(c, "handler")'
  BY <1>3, <1>5, <1>6 DEF CallFits
<1>9. abandoned' \subseteq Names /\ draining' \in BOOLEAN /\ DrainKept
  BY <1>1 DEF SystemInv, ClientsInv, ClientTypes, DrainKept
<1> QED BY <1>1, <1>2, <1>3, <1>4, <1>7, <1>8, <1>9, AnswerStep
        DEF SystemInv, Callers

-----------------------------------------------------------------------------
\* A client that ends keeps the invariant if the live names it leaves are counted
\* as abandoned and, when it ends through freeMemory(), its own is not live or was
\* refused by a server that drains.
LEMMA ExitStep ==
  ASSUME ClientsInv, NEW c \in Clients, NEW p \in {"gone", "done"}, Exit(c, p),
         granted' = granted,
         call' = call \/ \E t \in Callers : Answer(c, t, NoCall),
         LiveNames' = LiveNames, draining' = draining,
         abandoned' \subseteq Names, abandoned \cap LiveNames \subseteq abandoned',
         Leaves(c) \cap LiveNames \subseteq abandoned',
         p = "done" /\ granted[c] \in LiveNames => draining /\ granted[c] \in abandoned'
  PROVE  ClientsInv'
<1>1. NoCall \in RpcCall
  BY CallTypes DEF Statuses
<1>2. /\ call' \in [Clients -> [Callers -> RpcCall]]
      /\ \A u \in Callers : call'[c][u] = call[c][u] \/ call'[c][u] = NoCall
      /\ \A d \in Clients \ {c} : call'[d] = call[d]
  <2>1. CASE call' = call
    BY <2>1 DEF ClientsInv, ClientTypes
  <2>2. ASSUME NEW t \in Callers, Answer(c, t, NoCall)
        PROVE  /\ call' \in [Clients -> [Callers -> RpcCall]]
               /\ \A u \in Callers : call'[c][u] = call[c][u] \/ call'[c][u] = NoCall
               /\ \A d \in Clients \ {c} : call'[d] = call[d]
    BY <1>1, <2>2, AnswerGives DEF ClientsInv
  <2> QED BY <2>1, <2>2
<1>3. /\ pc' \in [Clients -> Running \cup {"gone", "done"}]
      /\ pc'[c] = p
      /\ mapped' \in [Clients -> Names \cup {NoObject}]
      /\ mapped'[c] = NoObject
      /\ \A d \in Clients \ {c} : pc'[d] = pc[d] /\ mapped'[d] = mapped[d]
  BY DEF Exit, ClientsInv, ClientTypes
<1>4. ClientTypes'
  BY <1>2, <1>3 DEF ClientsInv, ClientTypes
<1>5. OthersKeep(c)
  BY <1>2, <1>3 DEF OthersKeep
<1>6. ClientFits(c)'
  <2>1. CallsFit(c)'
    <3>1. call'[c]["handler"].kind # "AllocateMemory"
      BY <1>2, ClientFacts DEF CallsFit, NoCall, Callers
    <3> QED BY <1>3, <3>1 DEF CallsFit
  <2>2. ASSUME NEW u \in Callers
        PROVE  CallFits(c, u)'
    <3>1. CallFits(c, u)
      BY DEF ClientsInv, ClientFits
    <3>2. pc'[c] \notin Running
      BY <1>3 DEF Running
    <3>3. CASE call'[c][u] = NoCall
      BY <3>3 DEF CallFits, NoCall
    <3>4. CASE call'[c][u] = call[c][u]
      BY <3>1, <3>2, <3>4 DEF CallFits
    <3> QED BY <1>2, <3>3, <3>4
  <2>3. pc'[c] = "done" /\ granted'[c] \in LiveNames' => draining' /\ granted'[c] \in abandoned'
    BY <1>3
  <2> QED BY <2>1, <2>2, <2>3 DEF ClientFits
<1>7. \A x \in Refs(c)' : x \in Refs(c) \cup {NoObject}
  <2>1. \A u \in Callers : call'[c][u].shm_name \in Refs(c) \cup {NoObject}
    BY <1>2 DEF Refs, Callers, NoCall
  <2> QED BY <1>3, <2>1 DEF Refs, Callers
<1>8. \A x \in LiveNames' : \/ x \in abandoned' \cup Leaves(c)'
                            \/ x \in LiveNames \ (abandoned \cup Leaves(c))
  OBVIOUS
<1>9. DrainKept
  BY DEF DrainKept
<1> QED BY <1>4, <1>5, <1>6, <1>7, <1>8, <1>9, LocalStep

\* A refused request has left no name behind.
LEMMA ReceiveRefusalInv ==
  ASSUME SystemInv, NEW c \in Clients, ReceiveRefusal(c)
  PROVE  ClientsInv'
<1>1. call[c]["main"].shm_name = NoObject /\ Leaves(c) = {NoObject}
  BY ClientFacts DEF SystemInv, ReceiveRefusal, CallsFit, CallFits, Leaves
<1>2. NoObject \notin LiveNames
  BY LiveNamesType, NoObjectIsNoName DEF SystemInv, PoolInv
<1>3. LiveNames' = LiveNames /\ draining' = draining /\ abandoned' = abandoned
  BY PoolUnchanged DEF ReceiveRefusal, serverVars
<1>4. abandoned' \subseteq Names
  BY <1>3 DEF SystemInv, ClientsInv, ClientTypes
<1>5. /\ Exit(c, "gone") /\ granted' = granted /\ Answer(c, "main", NoCall)
  BY DEF ReceiveRefusal
<1> QED BY <1>1, <1>2, <1>3, <1>4, <1>5, ExitStep DEF SystemInv, Callers

\* A client that cannot map its object leaves the segment to the server.
LEMMA MapSharedMemoryFailsInv ==
  ASSUME SystemInv, NEW c \in Clients, MapSharedMemoryFails(c)
  PROVE  ClientsInv'
<1>1. LiveNames' = LiveNames
  BY DEF MapSharedMemoryFails, processVars, LiveNames
<1>2. Leaves(c) = {granted[c]}
  BY DEF MapSharedMemoryFails, Leaves
<1>3. Abandon({granted[c]})
  BY DEF MapSharedMemoryFails
<1>4. abandoned' = (abandoned \cup {granted[c]}) \cap LiveNames
  BY <1>1, <1>3, AbandonGives
<1>5. LiveNames \subseteq Names
  BY LiveNamesType DEF SystemInv, PoolInv
<1>6. /\ Exit(c, "gone")
      /\ granted' = granted /\ call' = call /\ draining' = draining
  BY DEF MapSharedMemoryFails
<1> QED BY <1>1, <1>2, <1>4, <1>5, <1>6, ExitStep DEF SystemInv

\* A client that was interrupted before it could ask, or killed, leaves what it
\* was granted to the server.
LEMMA EndsInv ==
  ASSUME SystemInv, NEW c \in Clients, SignalExits(c) \/ Killed(c)
  PROVE  ClientsInv'
<1>1. LiveNames' = LiveNames /\ draining' = draining
  BY PoolUnchanged DEF SignalExits, Killed, serverVars
<1>2. Abandon(Leaves(c))
  BY DEF SignalExits, Killed
<1>3. abandoned' = (abandoned \cup Leaves(c)) \cap LiveNames
  BY <1>1, <1>2, AbandonGives
<1>4. LiveNames \subseteq Names
  BY LiveNamesType DEF SystemInv, PoolInv
<1>5. Exit(c, "gone") /\ granted' = granted /\ call' = call
  BY DEF SignalExits, Killed
<1> QED BY <1>1, <1>3, <1>4, <1>5, ExitStep DEF SystemInv

\* Whatever the answer says, the name a client has asked to free is not live, unless
\* the server drains and the client has been refused.
LEMMA FreeMemoryReturnsInv ==
  ASSUME SystemInv, NEW c \in Clients, NEW t \in Callers, FreeMemoryReturns(c, t)
  PROVE  ClientsInv'
<1> DEFINE S == IF call[c][t].status = "UNAVAILABLE" THEN {granted[c]} ELSE {}
<1>1. CallFits(c, t) /\ ClientTypes
  BY DEF SystemInv, ClientsInv, ClientFits
<1>2. granted[c] \in LiveNames => draining /\ granted[c] \in S
  BY <1>1 DEF CallFits, FreeMemoryReturns
<1>3. Leaves(c) = {granted[c]}
  <2>1. pc[c] # "requesting"
    BY ClientFacts DEF SystemInv, CallsFit, FreeMemoryReturns, NoCall, Callers
  <2> QED BY <2>1 DEF Leaves, FreeMemoryReturns, Running
<1>4. LiveNames' = LiveNames /\ draining' = draining
  BY PoolUnchanged DEF FreeMemoryReturns, serverVars
<1>5. abandoned' = (abandoned \cup S) \cap LiveNames
  BY <1>4, AbandonGives DEF FreeMemoryReturns
<1>6. abandoned' \subseteq Names
  BY <1>5, LiveNamesType DEF SystemInv, PoolInv
<1>7. Exit(c, "done") /\ granted' = granted /\ Answer(c, t, NoCall)
  BY DEF FreeMemoryReturns
<1> HIDE DEF S
<1> QED BY <1>2, <1>3, <1>4, <1>5, <1>6, <1>7, ExitStep DEF SystemInv

-----------------------------------------------------------------------------
\* A new client knows no name.
LEMMA LaunchInv ==
  ASSUME SystemInv, NEW c \in Clients, NEW n \in RequestSizes, Launch(c, n)
  PROVE  ClientsInv'
<1> DEFINE a == AllocateCall(n, NoObject, "sent")
           k == [t \in Callers |-> IF t = "main" THEN a ELSE NoCall]
<1>1. n \in Nat
  BY SystemAssumption
<1>2. /\ a \in RpcCall /\ NoCall \in RpcCall
      /\ a.kind = "AllocateMemory" /\ a.status = "sent" /\ a.shm_name = NoObject
  BY <1>1, CallTypes DEF Statuses, AllocateCall
<1> HIDE DEF a
<1>3. /\ k \in [Callers -> RpcCall]
      /\ k["main"] = a /\ k["handler"] = NoCall
  BY <1>2 DEF Callers
<1>4. call' = [call EXCEPT ![c] = k]
  BY DEF Launch, a
<1> HIDE DEF k
<1>5. /\ call' \in [Clients -> [Callers -> RpcCall]]
      /\ call'[c]["main"] = a /\ call'[c]["handler"] = NoCall
      /\ \A d \in Clients \ {c} : call'[d] = call[d]
  BY <1>3, <1>4 DEF SystemInv, ClientsInv, ClientTypes
<1>6. /\ pc' \in [Clients -> Running \cup {"gone", "done"}]
      /\ granted' \in [Clients -> Names \cup {NoObject}]
      /\ pc'[c] = "requesting" /\ granted'[c] = NoObject
      /\ \A d \in Clients \ {c} : pc'[d] = pc[d] /\ granted'[d] = granted[d]
      /\ mapped' = mapped /\ abandoned' = abandoned
  BY DEF Launch, SystemInv, ClientsInv, ClientTypes, Running
<1>7. LiveNames' = LiveNames /\ DrainKept /\ draining' \in BOOLEAN
  BY PoolUnchanged
  DEF Launch, serverVars, DrainKept, SystemInv, ClientsInv, ClientTypes
<1>8. ClientTypes'
  BY <1>5, <1>6, <1>7 DEF SystemInv, ClientsInv, ClientTypes
<1>9. OthersKeep(c)
  BY <1>5, <1>6 DEF OthersKeep
<1>10. ClientFits(c)'
  <2>1. CallsFit(c)'
    BY <1>2, <1>5, <1>6 DEF CallsFit, NoCall
  <2>2. CallFits(c, "main")' /\ CallFits(c, "handler")'
    BY <1>2, <1>5 DEF CallFits, NoCall
  <2> QED BY <1>6, <2>1, <2>2 DEF ClientFits, Callers
<1>11. \A x \in Refs(c)' : x \in Refs(c) \cup {NoObject}
  BY <1>2, <1>5, <1>6 DEF Refs, NoCall
<1>12. Leaves(c) = {}
  BY DEF Launch, Leaves
<1>13. \A x \in LiveNames' : \/ x \in abandoned' \cup Leaves(c)'
                             \/ x \in LiveNames \ (abandoned \cup Leaves(c))
  BY <1>6, <1>7, <1>12
<1> QED BY <1>7, <1>8, <1>9, <1>10, <1>11, <1>13, LocalStep DEF SystemInv

\* The name moves from the reply to shm_name_.
LEMMA ReceiveGrantInv ==
  ASSUME SystemInv, NEW c \in Clients, ReceiveGrant(c)
  PROVE  ClientsInv'
<1> DEFINE s == call[c]["main"].shm_name
<1>1. NoCall \in RpcCall /\ s \in Names \cup {NoObject}
  BY CallTypes, ClientFacts DEF Statuses, SystemInv, RpcCall
<1>2. call[c]["handler"] = NoCall
  BY ClientFacts DEF SystemInv, ReceiveGrant, CallsFit
<1>3. /\ call' \in [Clients -> [Callers -> RpcCall]]
      /\ call'[c]["main"] = NoCall /\ call'[c]["handler"] = NoCall
      /\ \A d \in Clients \ {c} : call'[d] = call[d]
  BY <1>1, <1>2, AnswerGives DEF SystemInv, ClientsInv, ReceiveGrant, Callers
<1>4. /\ pc' \in [Clients -> Running \cup {"gone", "done"}]
      /\ granted' \in [Clients -> Names \cup {NoObject}]
      /\ pc'[c] = "granted" /\ granted'[c] = s
      /\ \A d \in Clients \ {c} : pc'[d] = pc[d] /\ granted'[d] = granted[d]
      /\ mapped' = mapped /\ abandoned' = abandoned
  BY <1>1 DEF ReceiveGrant, SystemInv, ClientsInv, ClientTypes, Running
<1>5. LiveNames' = LiveNames /\ DrainKept /\ draining' \in BOOLEAN
  BY PoolUnchanged
  DEF ReceiveGrant, serverVars, DrainKept, SystemInv, ClientsInv, ClientTypes
<1>6. ClientTypes'
  BY <1>3, <1>4, <1>5 DEF SystemInv, ClientsInv, ClientTypes
<1>7. OthersKeep(c)
  BY <1>3, <1>4 DEF OthersKeep
<1>8. ClientFits(c)'
  BY <1>3, <1>4 DEF ClientFits, CallsFit, CallFits, NoCall, Callers
<1>9. \A x \in Refs(c)' : x \in Refs(c) \cup {NoObject}
  BY <1>3, <1>4 DEF Refs, NoCall
<1>10. Leaves(c) = {s} /\ Leaves(c)' = {s}
  BY <1>4 DEF ReceiveGrant, Leaves
<1>11. \A x \in LiveNames' : \/ x \in abandoned' \cup Leaves(c)'
                             \/ x \in LiveNames \ (abandoned \cup Leaves(c))
  BY <1>4, <1>5, <1>10
<1> QED BY <1>5, <1>6, <1>7, <1>8, <1>9, <1>11, LocalStep DEF SystemInv

\* The client maps the object of the name it was granted.
LEMMA MapSharedMemoryInv ==
  ASSUME SystemInv, NEW c \in Clients, MapSharedMemory(c)
  PROVE  ClientsInv'
<1>1. call[c]["main"] = NoCall /\ call[c]["handler"] = NoCall
  BY ClientFacts DEF SystemInv, MapSharedMemory, CallsFit
<1>2. granted[c] \in Names \cup {NoObject}
  BY ClientFacts DEF SystemInv
<1>3. /\ pc' \in [Clients -> Running \cup {"gone", "done"}]
      /\ mapped' \in [Clients -> Names \cup {NoObject}]
      /\ pc'[c] = "using" /\ mapped'[c] = granted[c]
      /\ \A d \in Clients \ {c} : pc'[d] = pc[d] /\ mapped'[d] = mapped[d]
      /\ granted' = granted /\ call' = call /\ abandoned' = abandoned
  BY <1>2 DEF MapSharedMemory, SystemInv, ClientsInv, ClientTypes, Running
<1>4. LiveNames' = LiveNames /\ DrainKept /\ draining' \in BOOLEAN
  BY PoolUnchanged
  DEF MapSharedMemory, serverVars, DrainKept, SystemInv, ClientsInv, ClientTypes
<1>5. ClientTypes'
  BY <1>3, <1>4 DEF SystemInv, ClientsInv, ClientTypes
<1>6. OthersKeep(c)
  BY <1>3 DEF OthersKeep
<1>7. ClientFits(c)'
  BY <1>1, <1>3 DEF ClientFits, CallsFit, CallFits, NoCall, Callers
<1>8. \A x \in Refs(c)' : x \in Refs(c)
  BY <1>3 DEF Refs
<1>9. Leaves(c) = {granted[c]} /\ Leaves(c)' = {granted[c]}
  BY <1>3 DEF MapSharedMemory, Leaves
<1>10. \A x \in LiveNames' : \/ x \in abandoned' \cup Leaves(c)'
                             \/ x \in LiveNames \ (abandoned \cup Leaves(c))
  BY <1>3, <1>4, <1>9
<1> QED BY <1>4, <1>5, <1>6, <1>7, <1>8, <1>10, LocalStep DEF SystemInv

\* main() asks for the name its client was granted.
LEMMA FreeMemoryInv ==
  ASSUME SystemInv, NEW c \in Clients, FreeMemory(c)
  PROVE  ClientsInv'
<1> DEFINE a == FreeCall(granted[c], "sent")
<1>1. a \in RpcCall
  BY CallTypes, ClientFacts DEF SystemInv, Statuses
<1>2. a.kind = "FreeSharedMemory" /\ a.status = "sent" /\ a.shm_name = granted[c]
  BY DEF FreeCall
<1>3. Answer(c, "main", a)
  BY DEF FreeMemory
<1> HIDE DEF a
<1>4. /\ call' \in [Clients -> [Callers -> RpcCall]]
      /\ call'[c]["main"] = a /\ call'[c]["handler"] = call[c]["handler"]
      /\ \A d \in Clients \ {c} : call'[d] = call[d]
  BY <1>1, <1>3, AnswerGives DEF SystemInv, ClientsInv, Callers
<1>5. /\ pc' \in [Clients -> Running \cup {"gone", "done"}]
      /\ pc'[c] = "freeing"
      /\ \A d \in Clients \ {c} : pc'[d] = pc[d]
      /\ mapped' = mapped /\ granted' = granted /\ abandoned' = abandoned
  BY DEF FreeMemory, SystemInv, ClientsInv, ClientTypes, Running
<1>6. LiveNames' = LiveNames /\ DrainKept /\ draining' \in BOOLEAN
  BY PoolUnchanged
  DEF FreeMemory, serverVars, DrainKept, SystemInv, ClientsInv, ClientTypes
<1>7. ClientTypes'
  BY <1>4, <1>5, <1>6 DEF SystemInv, ClientsInv, ClientTypes
<1>8. OthersKeep(c)
  BY <1>4, <1>5 DEF OthersKeep
<1>9. ClientFits(c)'
  <2>1. CallsFit(c)'
    BY <1>2, <1>4, <1>5, ClientFacts DEF CallsFit, SystemInv
  <2>2. CallFits(c, "main")'
    BY <1>2, <1>4, <1>5 DEF CallFits
  <2>3. CallFits(c, "handler")'
    <3>1. CallFits(c, "handler") /\ pc[c] \in Running
      BY ClientFacts DEF SystemInv, FreeMemory, Running
    <3> QED BY <1>4, <1>5, <1>6, <3>1 DEF CallFits, DrainKept
  <2> QED BY <1>5, <2>1, <2>2, <2>3 DEF ClientFits, Callers
<1>10. \A x \in Refs(c)' : x \in Refs(c)
  BY <1>2, <1>4, <1>5 DEF Refs
<1>11. Leaves(c) = {granted[c]} /\ Leaves(c)' = {granted[c]}
  BY <1>5 DEF FreeMemory, Leaves
<1>12. \A x \in LiveNames' : \/ x \in abandoned' \cup Leaves(c)'
                             \/ x \in LiveNames \ (abandoned \cup Leaves(c))
  BY <1>5, <1>6, <1>11
<1> QED BY <1>6, <1>7, <1>8, <1>9, <1>10, <1>12, LocalStep DEF SystemInv

\* The end of the process leaves no name live, and gives up the calls it is in.
LEMMA CallsLostInv ==
  ASSUME ClientsInv, LiveNames' = {}, CallsLost, UNCHANGED clientVars,
         draining' \in BOOLEAN, Abandon({})
  PROVE  ClientsInv'
<1>1. pc' = pc /\ mapped' = mapped /\ granted' = granted /\ abandoned' = {}
  BY AbandonGives DEF clientVars
<1>2. ASSUME NEW c \in Clients, NEW t \in Callers
      PROVE  /\ call'[c][t] \in RpcCall
             /\ call[c][t] = NoCall => call'[c][t] = NoCall
             /\ call'[c][t].kind = call[c][t].kind
             /\ call'[c][t].shm_name \in {call[c][t].shm_name, NoObject}
             /\ CallFits(c, t)'
  <2>1. /\ call[c][t] \in RpcCall /\ CallFits(c, t)
        /\ call'[c][t] = IF call[c][t].status \in InService THEN Unanswered(call[c][t])
                         ELSE call[c][t]
    BY DEF ClientsInv, ClientTypes, ClientFits, CallsLost
  <2>2. CASE call[c][t].status \in InService
    BY <1>1, <2>1, <2>2, UnansweredGives DEF CallFits, NoCall, InService
  <2>3. CASE call[c][t].status \notin InService
    BY <1>1, <2>1, <2>3 DEF CallFits, NoCall
  <2> QED BY <2>2, <2>3
<1>3. ClientTypes'
  <2>1. call' \in [Clients -> [Callers -> RpcCall]]
    BY <1>2 DEF CallsLost
  <2> QED BY <1>1, <2>1 DEF ClientsInv, ClientTypes
<1>4. ASSUME NEW c \in Clients
      PROVE  ClientFits(c)' /\ Refs(c)' \subseteq Refs(c) \cup {NoObject}
  <2>1. CallsFit(c)'
    BY <1>1, <1>2, ClientFacts DEF CallsFit, Callers
  <2>2. ClientFits(c)'
    BY <1>2, <2>1 DEF ClientFits
  <2>3. Refs(c)' \subseteq Refs(c) \cup {NoObject}
    BY <1>1, <1>2 DEF Refs, Callers
  <2> QED BY <2>2, <2>3
<1>5. ClientsApart'
  <2>1. ASSUME NEW c \in Clients, NEW d \in Clients, c # d
        PROVE  Refs(c)' \cap Refs(d)' \subseteq {NoObject}
    BY <1>4, <2>1 DEF ClientsInv, ClientsApart
  <2> QED BY <2>1 DEF ClientsApart
<1> QED BY <1>3, <1>4, <1>5 DEF ClientsInv

\* The server's own life makes no name live: initialize() starts with none, and
\* every end of the process leaves none.
LEMMA ServerInv ==
  ASSUME SystemInv, PoolInv',
         ServerLife \/ \E c \in Clients : ServeAllocateFaults(c)
  PROVE  ClientsInv'
<1>1. segments' = <<>> => LiveNames' = {}
  BY DEF LiveNames, Range
<1>2. segments' = segments => LiveNames' = LiveNames
  BY DEF LiveNames
<1>3. draining \in BOOLEAN /\ abandoned \subseteq Names
  BY DEF SystemInv, ClientsInv, ClientTypes
<1>4. CASE ServerStarts
  <2>1. segments' = segments
    BY <1>4 DEF ServerStarts, InitializeSucceeds, InitializeFails, processVars
  <2>2. abandoned' = abandoned \cap LiveNames'
    BY <1>4, AbandonGives DEF ServerStarts
  <2> QED BY <1>2, <1>3, <1>4, <2>1, <2>2, ServerStep DEF ServerStarts, DrainKept, SystemInv
<1>5. CASE ShutdownBegins
  <2>1. /\ UNCHANGED poolVars /\ UNCHANGED <<clientVars, call>>
        /\ draining' = TRUE /\ abandoned' = abandoned
    BY <1>5 DEF ShutdownBegins
  <2>2. LiveNames' = LiveNames
    BY <2>1, PoolUnchanged
  <2> QED BY <1>3, <2>1, <2>2, ServerStep DEF DrainKept, SystemInv
<1>6. CASE \E c \in Clients, t \in Callers : ShutdownInCall(c, t)
  BY <1>6, TakenInv
<1>7. CASE ServerCleansUp
  <2>1. LiveNames' = {} /\ UNCHANGED <<clientVars, call>> /\ draining' = FALSE
    BY <1>1, <1>7 DEF ServerCleansUp, Cleanup
  <2>2. abandoned' \subseteq Names
    BY <1>3, <1>7, AbandonGives DEF ServerCleansUp
  <2> QED BY <2>1, <2>2, ServerStep DEF DrainKept, SystemInv
<1>8. CASE ServerRestarts
  BY <1>1, <1>8, CallsLostInv DEF ServerRestarts, Restart, ProcessGone, SystemInv
<1>9. CASE ServerKilled
  BY <1>1, <1>9, CallsLostInv DEF ServerKilled, ProcessGone, SystemInv
<1>10. ASSUME NEW c \in Clients, ServeAllocateFaults(c)
       PROVE  ClientsInv'
  BY <1>1, <1>10, CallsLostInv DEF ServeAllocateFaults, AllocateFaults, ProcessGone, SystemInv
<1> QED BY <1>4, <1>5, <1>6, <1>7, <1>8, <1>9, <1>10 DEF ServerLife

-----------------------------------------------------------------------------
\* The system starts with no names.
LEMMA SystemInvInit == SystemInit => SystemInv
<1> SUFFICES ASSUME SystemInit PROVE SystemInv
  OBVIOUS
<1>1. PoolInv
  BY PoolInvInit DEF SystemInit
<1>2. LiveNames = {}
  BY DEF SystemInit, PoolInit, LiveNames, Range
<1>3. NoCall \in RpcCall
  BY CallTypes DEF Statuses
<1>4. /\ pc = [c \in Clients |-> "gone"]
      /\ mapped = [c \in Clients |-> NoObject]
      /\ granted = [c \in Clients |-> NoObject]
      /\ call = [c \in Clients |-> [t \in Callers |-> NoCall]]
      /\ draining = FALSE /\ abandoned = {}
  BY DEF SystemInit
<1>5. ClientTypes
  BY <1>3, <1>4 DEF ClientTypes
<1>6. ASSUME NEW c \in Clients
      PROVE  ClientFits(c) /\ Refs(c) = {NoObject}
  BY <1>4 DEF ClientFits, CallsFit, CallFits, NoCall, Refs, Callers
<1>7. ClientsApart
  BY <1>6 DEF ClientsApart
<1> QED BY <1>1, <1>2, <1>5, <1>6, <1>7 DEF SystemInv, ClientsInv

\* The invariant holds over every step of the system.
LEMMA SystemInvStep == SystemInv /\ [SystemNext]_systemVars => SystemInv'
<1> SUFFICES ASSUME SystemInv, [SystemNext]_systemVars
             PROVE  SystemInv'
  OBVIOUS
<1>1. PoolInv'
  BY PoolOfSystem, PoolInvKept DEF SystemInv, PoolInv, ClientsInv
<1>2. CASE UNCHANGED systemVars
  <2>1. /\ pc' = pc /\ mapped' = mapped /\ granted' = granted /\ call' = call
        /\ draining' = draining /\ abandoned' = abandoned /\ LiveNames' = LiveNames
    BY <1>2 DEF systemVars, clientVars, serverVars, poolVars, processVars, LiveNames
  <2>2. /\ ClientTypes' /\ ClientsApart'
        /\ \A c \in Clients : ClientFits(c)' /\ Leaves(c)' = Leaves(c)
    BY <2>1 DEF SystemInv, ClientsInv, ClientTypes, ClientsApart, Refs, ClientFits,
                CallsFit, CallFits, Leaves
  <2> QED BY <1>1, <2>1, <2>2 DEF SystemInv, ClientsInv
<1>3. CASE ServerLife
  BY <1>1, <1>3, ServerInv DEF SystemInv
<1>4. ASSUME NEW c \in Clients, NEW n \in RequestSizes, Launch(c, n)
      PROVE  ClientsInv'
  BY <1>4, LaunchInv
<1>5. ASSUME NEW c \in Clients, Answered(c)
      PROVE  ClientsInv'
  BY <1>1, <1>5, ServeAllocateGrantsInv, ServeAllocateRefusesInv, ServerInv,
     ServeFreeInv, TakenInv, ServeFromEmptiedInv, UnavailableInv
  DEF Answered
<1>6. ASSUME NEW c \in Clients, Received(c) \/ Mapping(c) \/ FreeMemory(c)
      PROVE  ClientsInv'
  BY <1>6, ReceiveGrantInv, ReceiveRefusalInv, FreeMemoryReturnsInv,
     MapSharedMemoryInv, MapSharedMemoryFailsInv, FreeMemoryInv
  DEF Received, Mapping
<1>7. ASSUME NEW c \in Clients, Interrupted(c)
      PROVE  ClientsInv'
  BY <1>7, SignalFreesInv, EndsInv, CancelledInv DEF Interrupted
<1> QED BY <1>1, <1>2, <1>3, <1>4, <1>5, <1>6, <1>7 DEF SystemNext, SystemInv

\* The invariant of the whole system: the pool's, and how every client's calls,
\* names and mapping fit together.
THEOREM SystemInvariant == SystemSpec => []SystemInv
BY SystemInvInit, SystemInvStep, PTL DEF SystemSpec

\* The variables of the service, its clients and the pool keep their types.
THEOREM SystemTypes == SystemSpec => []SystemTypeOK
<1>1. SystemInv => SystemTypeOK
  BY DEF SystemInv, PoolInv, ClientsInv, ClientTypes, SystemTypeOK, RpcCall
<1> QED BY <1>1, SystemInvariant, PTL

\* With clients that are killed and a server that dies under them, buffers are
\* still neither lost nor given twice.
THEOREM SystemConserves == SystemSpec => [](BuffersConserved /\ NamesUnique)
<1>1. SystemInv => BuffersConserved /\ NamesUnique
  BY DEF SystemInv, PoolInv
<1> QED BY <1>1, SystemInvariant, PTL

\* A client through freeMemory() has given its segment back, although it never
\* looks at the answer, and main() and the signal handler may both have asked: what
\* a server that drains has refused to take back is counted as abandoned.
THEOREM FreedStaysGone == SystemSpec => []FreedIsGone
<1>1. SystemInv => FreedIsGone
  BY DEF SystemInv, ClientsInv, ClientFits, FreedIsGone
<1> QED BY <1>1, SystemInvariant, PTL

\* Every segment is a client's, on its way to one, or was abandoned by one that
\* ended without freeMemory(), or was refused by a server that drains.
THEOREM Accounted == SystemSpec => []SegmentsAccountedFor
<1>1. SystemInv => SegmentsAccountedFor
  <2> SUFFICES ASSUME SystemInv, NEW s \in LiveNames,
                      s \notin abandoned, NEW c \in Clients, s \in Leaves(c)
               PROVE  \/ pc[c] = "requesting" /\ s = call[c]["main"].shm_name
                      \/ /\ pc[c] \in {"granted", "using", "freeing"}
                         /\ s = granted[c]
    BY DEF SystemInv, ClientsInv, SegmentsAccountedFor
  <2> QED BY DEF Leaves
<1> QED BY <1>1, SystemInvariant, PTL

\* No object is granted to, mapped by or asked for by two clients.
THEOREM NoSharing == SystemSpec => []ClientsApart
<1>1. SystemInv => ClientsApart
  BY DEF SystemInv, ClientsInv
<1> QED BY <1>1, SystemInvariant, PTL

-----------------------------------------------------------------------------
\*                          Nobody is stuck in a call

\* A request asks for something, and an answer is one of those the service, or the
\* channel, gives to a request of its kind.
CallForm(r) ==
  \/ r = NoCall
  \/ /\ r.kind = "AllocateMemory" /\ r.size \in Nat \ {0}
     /\ r.status \in Pending \cup {"OK", "RESOURCE_EXHAUSTED", "UNAVAILABLE"}
  \/ /\ r.kind = "FreeSharedMemory"
     /\ r.status \in Pending \cup {"OK", "INVALID_ARGUMENT", "UNAVAILABLE"}

CallsFormed == \A c \in Clients : \A t \in Callers : CallForm(call[c][t])

\* A call is in the service only of a process that has served and not ended.
ServiceLives ==
  \A c \in Clients : \A t \in Callers :
    call[c][t].status \in InService => phase \in {"ready", "cleaned"}

\* The answer main() of c waits for is there, and main() has a branch for it.
Heard(c) ==
  LET r == call[c]["main"] IN
  \/ /\ pc[c] = "requesting" /\ r.kind = "AllocateMemory"
     /\ r.status \in {"OK", "RESOURCE_EXHAUSTED", "UNAVAILABLE"}
  \/ /\ pc[c] = "freeing" /\ r.kind = "FreeSharedMemory"
     /\ r.status \in {"OK", "INVALID_ARGUMENT", "UNAVAILABLE"}

\* Something will be said of r: the server takes it, refuses it or has gone; or handles
\* it in an emptied pool; or it is to free, or for more buffers than there are, or
\* the buffers can be taken.
Answerable(r) ==
  \/ r.status = "sent"
  \/ /\ r.status = "running"
     /\ \/ phase = "cleaned"
        \/ /\ phase = "ready"
           /\ \/ r.kind = "FreeSharedMemory"
              \/ /\ r.kind = "AllocateMemory"
                 /\ \/ r.size > Cardinality(free_list)
                    \/ /\ r.size > 0
                       /\ \E B \in SUBSET free_list : Cardinality(B) = r.size

NobodyStuck ==
  \A c \in Clients :
    pc[c] \in Waiting => Heard(c) \/ Answerable(call[c]["main"]) \/ CallStopped

\* A finite set has a subset of every size up to its own.
LEMMA SubsetOfSize ==
  ASSUME NEW S, IsFiniteSet(S), NEW n \in Nat, n <= Cardinality(S)
  PROVE  \E B \in SUBSET S : Cardinality(B) = n
<1> DEFINE N == Cardinality(S)
<1>1. N \in Nat /\ ExistsBijection(1 .. N, S)
  BY FS_CardinalityType
<1>2. PICK f \in Bijection(1 .. N, S) : TRUE
  BY <1>1 DEF ExistsBijection
<1> DEFINE B == {f[i] : i \in 1 .. n}
           g == [i \in 1 .. n |-> f[i]]
<1> HIDE DEF N
<1>3. 1 .. n \subseteq 1 .. N
  BY <1>1 DEF N
<1>4. f \in [1 .. N -> S] /\ \A i, j \in 1 .. N : f[i] = f[j] => i = j
  BY <1>2 DEF Bijection, Injection, IsInjective
<1>5. B \in SUBSET S
  BY <1>3, <1>4
<1>6. g \in Bijection(1 .. n, B)
  BY <1>3, <1>4 DEF Bijection, Injection, IsInjective, Surjection
<1>7. IsFiniteSet(1 .. n) /\ Cardinality(1 .. n) = n
  BY FS_Interval
<1>8. ExistsBijection(1 .. n, B)
  BY <1>6 DEF ExistsBijection
<1>9. Cardinality(B) = n
  <2> HIDE DEF B, g
  <2> QED BY <1>7, <1>8, FS_Bijection
<1> QED BY <1>5, <1>9

\* An answer of a good form keeps the forms.
LEMMA AnswerFormed ==
  ASSUME ClientTypes, CallsFormed, NEW c \in Clients, NEW t \in Callers, NEW a,
         CallForm(a), Answer(c, t, a)
  PROVE  CallsFormed'
<1>1. ASSUME NEW d \in Clients, NEW u \in Callers
      PROVE  call'[d][u] = a \/ call'[d][u] = call[d][u]
  BY DEF ClientTypes, Answer
<1>2. \A d \in Clients, u \in Callers : CallForm(call[d][u])
  BY DEF CallsFormed
<1>3. \A d \in Clients, u \in Callers : CallForm(call'[d][u])
  BY <1>1, <1>2
<1> QED BY <1>3 DEF CallsFormed, CallForm

\* A call that is not answered yet keeps its form wherever the server takes it.
LEMMA StatusFormed ==
  ASSUME NEW r \in RpcCall, CallForm(r), r.status # "none", NEW st \in Pending
  PROVE  CallForm([r EXCEPT !.status = st])
<1>1. r # NoCall
  BY DEF NoCall
<1> QED BY <1>1 DEF CallForm, RpcCall

\* So does one whose connection breaks before its answer.
LEMMA UnansweredFormed ==
  ASSUME NEW r \in RpcCall, CallForm(r), r.status # "none"
  PROVE  CallForm(Unanswered(r))
<1>1. r # NoCall
  BY DEF NoCall
<1> HIDE DEF NoCall
<1> QED BY <1>1, UnansweredGives DEF CallForm

\* So do all of them when the server is gone.
LEMMA CallsLostFormed ==
  ASSUME ClientTypes, CallsFormed, CallsLost
  PROVE  CallsFormed'
<1>1. ASSUME NEW c \in Clients, NEW t \in Callers
      PROVE  CallForm(call'[c][t])
  <2>1. call[c][t] \in RpcCall /\ CallForm(call[c][t])
    BY DEF ClientTypes, CallsFormed
  <2>2. call[c][t].status \in InService => CallForm(Unanswered(call[c][t]))
    BY <2>1, UnansweredFormed DEF InService
  <2> QED BY <2>1, <2>2 DEF CallsLost
<1> QED BY <1>1 DEF CallsFormed, CallForm

\* Every answer the service gives, and the channel's, has a good form.
LEMMA AnsweredFormed ==
  ASSUME ClientTypes, CallsFormed, NEW c \in Clients, Answered(c)
  PROVE  CallsFormed'
<1> DEFINE r == call[c]["main"]
<1>1. \A t \in Callers : call[c][t] \in RpcCall /\ CallForm(call[c][t])
  BY DEF CallsFormed, ClientTypes
<1>2. CASE ServeAllocateGrants(c)
  <2>1. PICK m : Answer(c, "main", AllocateCall(r.size, m.shm_name, "OK"))
    BY <1>2 DEF ServeAllocateGrants
  <2>2. CallForm(AllocateCall(r.size, m.shm_name, "OK"))
    BY <1>1, <1>2 DEF ServeAllocateGrants, Served, CallForm, AllocateCall, NoCall, Callers
  <2> QED BY <2>1, <2>2, AnswerFormed DEF Callers
<1>3. CASE ServeAllocateRefuses(c)
  <2>1. CallForm(AllocateCall(r.size, NoObject, "RESOURCE_EXHAUSTED"))
    BY <1>1, <1>3 DEF ServeAllocateRefuses, Served, CallForm, AllocateCall, NoCall, Callers
  <2> QED BY <1>3, <2>1, AnswerFormed DEF ServeAllocateRefuses, Callers
<1>4. CASE ServeAllocateFaults(c)
  BY <1>4, CallsLostFormed DEF ServeAllocateFaults
<1>5. ASSUME NEW t \in Callers, ServeFree(c, t)
      PROVE  CallsFormed'
  <2>1. PICK st \in {"OK", "INVALID_ARGUMENT"} :
          Answer(c, t, FreeCall(call[c][t].shm_name, st))
    BY <1>5 DEF ServeFree
  <2>2. CallForm(FreeCall(call[c][t].shm_name, st))
    BY DEF CallForm, FreeCall
  <2> QED BY <2>1, <2>2, AnswerFormed
<1>6. ASSUME NEW t \in Callers, Unavailable(c, t)
      PROVE  CallsFormed'
  <2>1. CallForm(Unanswered(call[c][t]))
    BY <1>1, <1>6, UnansweredFormed DEF Unavailable
  <2> QED BY <1>6, <2>1, AnswerFormed DEF Unavailable
<1>7. ASSUME NEW t \in Callers, ServeFromEmptied(c, t)
      PROVE  CallsFormed'
  <2> DEFINE q == call[c][t]
  <2>1. q.status = "running" /\ CallForm(q)
    BY <1>1, <1>7 DEF ServeFromEmptied, Served
  <2>2. CASE q.kind = "AllocateMemory"
    <3>1. CallForm(AllocateCall(q.size, NoObject, "RESOURCE_EXHAUSTED"))
      BY <2>1, <2>2 DEF CallForm, AllocateCall, NoCall
    <3> QED BY <1>7, <2>2, <3>1, AnswerFormed DEF ServeFromEmptied
  <2>3. CASE q.kind # "AllocateMemory"
    <3>1. CallForm(FreeCall(q.shm_name, "INVALID_ARGUMENT"))
      BY DEF CallForm, FreeCall
    <3> QED BY <1>7, <2>3, <3>1, AnswerFormed DEF ServeFromEmptied
  <2> QED BY <2>2, <2>3
<1>8. ASSUME NEW t \in Callers, CallArrives(c, t)
      PROVE  CallsFormed'
  BY <1>1, <1>8, StatusFormed, AnswerFormed DEF CallArrives, Pending, InService
<1> QED BY <1>2, <1>3, <1>4, <1>5, <1>6, <1>7, <1>8 DEF Answered

\* The forms are kept by every step: clients send good requests and take answers.
LEMMA FormedStep ==
  ASSUME ClientTypes, CallsFormed, [SystemNext]_systemVars
  PROVE  CallsFormed'
<1>1. CASE UNCHANGED call
  BY <1>1 DEF CallsFormed
<1>2. CallForm(NoCall)
  BY DEF CallForm
<1>3. ASSUME NEW c \in Clients, NEW n \in RequestSizes, Launch(c, n)
      PROVE  CallsFormed'
  <2>1. CallForm(AllocateCall(n, NoObject, "sent"))
    BY SystemAssumption DEF CallForm, AllocateCall, Pending
  <2>2. \A d \in Clients, u \in Callers :
          call'[d][u] \in {call[d][u], NoCall, AllocateCall(n, NoObject, "sent")}
    BY <1>3 DEF ClientTypes, Launch
  <2>3. \A d \in Clients, u \in Callers : CallForm(call'[d][u])
    BY <1>2, <2>1, <2>2 DEF CallsFormed
  <2> QED BY <2>3 DEF CallsFormed, CallForm
<1>4. ASSUME NEW c \in Clients, Received(c)
      PROVE  CallsFormed'
  BY <1>2, <1>4, AnswerFormed
  DEF Received, ReceiveGrant, ReceiveRefusal, FreeMemoryReturns, Callers
<1>5. ASSUME NEW c \in Clients, FreeMemory(c) \/ SignalFrees(c)
      PROVE  CallsFormed'
  <2>1. CallForm(FreeCall(granted[c], "sent"))
    BY DEF CallForm, FreeCall, Pending
  <2> QED BY <1>5, <2>1, AnswerFormed DEF FreeMemory, SignalFrees, Callers
<1>6. ASSUME NEW c \in Clients, NEW t \in Callers, Cancelled(c, t)
      PROVE  CallsFormed'
  BY <1>2, <1>6, AnswerFormed DEF Cancelled
<1>7. ASSUME NEW c \in Clients, Mapping(c) \/ SignalExits(c) \/ Killed(c)
      PROVE  UNCHANGED call
  BY <1>7 DEF Mapping, MapSharedMemory, MapSharedMemoryFails, SignalExits, Killed
<1>8. CASE ServerStarts \/ ShutdownBegins \/ ServerCleansUp \/ UNCHANGED systemVars
  BY <1>1, <1>8 DEF ServerStarts, ShutdownBegins, ServerCleansUp, systemVars
<1>9. CASE ServerRestarts \/ ServerKilled
  BY <1>9, CallsLostFormed DEF ServerRestarts, ServerKilled
<1>10. ASSUME NEW c \in Clients, NEW t \in Callers, ShutdownInCall(c, t)
       PROVE  CallsFormed'
  <2>1. call[c][t] \in RpcCall /\ CallForm(call[c][t]) /\ call[c][t].status # "none"
    BY <1>10 DEF CallsFormed, ClientTypes, ShutdownInCall, OnThread
  <2> QED BY <1>10, <2>1, StatusFormed, AnswerFormed DEF ShutdownInCall, Pending, InService
<1> QED BY <1>1, <1>3, <1>4, <1>5, <1>6, <1>7, <1>8, <1>9, <1>10, AnsweredFormed
        DEF SystemNext, ServerLife, Interrupted

\* Calls come into the service of a server that is up, and when its process ends
\* none is left there.
LEMMA ServiceStep ==
  ASSUME ClientTypes, ServiceLives, [SystemNext]_systemVars
  PROVE  ServiceLives'
<1>1. ASSUME NEW c \in Clients, NEW t \in Callers, NEW a,
             Answer(c, t, a), phase' = phase,
             a.status \in InService => phase \in {"ready", "cleaned"}
      PROVE  ServiceLives'
  <2>1. \A d \in Clients, u \in Callers : call'[d][u] = a \/ call'[d][u] = call[d][u]
    BY <1>1 DEF ClientTypes, Answer
  <2> QED BY <1>1, <2>1 DEF ServiceLives
<1>2. CASE CallsLost
  <2>1. ASSUME NEW c \in Clients, NEW t \in Callers
        PROVE  call'[c][t].status \notin InService
    <3>1. call[c][t] \in RpcCall
      BY DEF ClientTypes
    <3>2. Unanswered(call[c][t]).status = "UNAVAILABLE"
      BY <3>1, UnansweredGives
    <3> QED BY <1>2, <3>2 DEF CallsLost, InService
  <2> QED BY <2>1 DEF ServiceLives
<1>3. CASE call' = call /\ (phase' = phase \/ phase' \in {"ready", "cleaned"})
  BY <1>3 DEF ServiceLives
<1>4. CASE UNCHANGED systemVars
  BY <1>3, <1>4 DEF systemVars, serverVars, poolVars
<1>5. CASE ServerLife
  <2>1. CASE ServerStarts \/ ShutdownBegins \/ ServerCleansUp
    BY <1>3, <2>1 DEF ServerStarts, ShutdownBegins, ServerCleansUp, InitializeSucceeds,
                      InitializeFails, Cleanup, poolVars
  <2>2. CASE ServerRestarts \/ ServerKilled
    BY <1>2, <2>2 DEF ServerRestarts, ServerKilled
  <2>3. ASSUME NEW c \in Clients, NEW t \in Callers, ShutdownInCall(c, t)
        PROVE  ServiceLives'
    BY <1>1, <2>3 DEF ShutdownInCall, poolVars
  <2> QED BY <1>5, <2>1, <2>2, <2>3 DEF ServerLife
<1>6. ASSUME NEW c \in Clients, NEW n \in RequestSizes, Launch(c, n)
      PROVE  ServiceLives'
  <2>1. \A d \in Clients, u \in Callers :
          call'[d][u] \in {call[d][u], NoCall, AllocateCall(n, NoObject, "sent")}
    BY <1>6 DEF ClientTypes, Launch
  <2>2. phase' = phase
    BY <1>6 DEF Launch, serverVars, poolVars
  <2> QED BY <2>1, <2>2 DEF ServiceLives, NoCall, AllocateCall, InService
<1>7. ASSUME NEW c \in Clients, Answered(c)
      PROVE  ServiceLives'
  <2>1. CASE ServeAllocateGrants(c)
    BY <1>1, <2>1 DEF ServeAllocateGrants, AllocateSucceeds, AllocateCall, InService, Callers
  <2>2. CASE ServeAllocateRefuses(c)
    BY <1>1, <2>2 DEF ServeAllocateRefuses, AllocateFails, AllocateRefused, AllocateCall,
                      InService, Callers, poolVars
  <2>3. CASE ServeAllocateFaults(c)
    BY <1>2, <2>3 DEF ServeAllocateFaults
  <2>4. ASSUME NEW t \in Callers, ServeFree(c, t)
        PROVE  ServiceLives'
    BY <1>1, <2>4 DEF ServeFree, DeallocateSucceeds, DeallocateRefused, FreeCall, InService,
                      poolVars
  <2>5. ASSUME NEW t \in Callers, CallArrives(c, t)
        PROVE  ServiceLives'
    BY <1>1, <2>5 DEF CallArrives, serverVars, poolVars
  <2>6. ASSUME NEW t \in Callers, ServeFromEmptied(c, t)
        PROVE  ServiceLives'
    BY <1>1, <2>6 DEF ServeFromEmptied, serverVars, poolVars
  <2>7. ASSUME NEW t \in Callers, Unavailable(c, t)
        PROVE  ServiceLives'
    <3>1. Unanswered(call[c][t]).status = "UNAVAILABLE"
      BY UnansweredGives DEF ClientTypes
    <3> QED BY <1>1, <2>7, <3>1 DEF Unavailable, InService, serverVars, poolVars
  <2> QED BY <1>7, <2>1, <2>2, <2>3, <2>4, <2>5, <2>6, <2>7 DEF Answered
<1>8. ASSUME NEW c \in Clients, Received(c) \/ FreeMemory(c) \/ Interrupted(c) \/ Mapping(c)
      PROVE  ServiceLives'
  <2>1. CASE Received(c)
    BY <1>1, <2>1 DEF Received, ReceiveGrant, ReceiveRefusal, FreeMemoryReturns, NoCall,
                      InService, Callers, serverVars, poolVars
  <2>2. CASE FreeMemory(c)
    BY <1>1, <2>2 DEF FreeMemory, FreeCall, InService, Callers, serverVars, poolVars
  <2>3. CASE SignalExits(c) \/ Killed(c) \/ Mapping(c)
    BY <1>3, <2>3 DEF SignalExits, Killed, Mapping, MapSharedMemory, MapSharedMemoryFails,
                      serverVars, poolVars
  <2>4. CASE SignalFrees(c) \/ \E t \in Callers : Cancelled(c, t)
    BY <1>1, <2>4 DEF SignalFrees, Cancelled, FreeCall, NoCall, InService, Callers, serverVars,
                      poolVars
  <2> QED BY <1>8, <2>1, <2>2, <2>3, <2>4 DEF Interrupted
<1> QED BY <1>4, <1>5, <1>6, <1>7, <1>8 DEF SystemNext

\* A client that waits in a call has an answer its main() can act on, or a call
\* that the server can take or answer, or the channel if there is no server, unless a
\* call and a signalHandler() wait for each other: what CallsReturn rests on besides
\* fairness.
THEOREM CallsAnswerable == SystemSpec => []NobodyStuck
<1>1. SystemInit => CallsFormed /\ ServiceLives
  BY DEF SystemInit, CallsFormed, CallForm, ServiceLives, NoCall, InService
<1>2. SystemInv /\ CallsFormed /\ ServiceLives /\ [SystemNext]_systemVars =>
        CallsFormed' /\ ServiceLives'
  BY FormedStep, ServiceStep DEF SystemInv, ClientsInv
<1>3. SystemInv /\ CallsFormed /\ ServiceLives => NobodyStuck
  <2> SUFFICES ASSUME SystemInv, CallsFormed, ServiceLives, NEW c \in Clients,
                      pc[c] \in Waiting, ~Heard(c), ~CallStopped
               PROVE  Answerable(call[c]["main"])
    BY DEF NobodyStuck
  <2> DEFINE r == call[c]["main"]
  <2>1. CallForm(r) /\ CallsFit(c) /\ r.status # "stopped"
    BY ClientFacts DEF CallsFormed, Callers, CallStopped, SystemInv
  <2>2. /\ r.status \in {"sent", "running"}
        /\ \/ r.kind = "FreeSharedMemory"
           \/ r.kind = "AllocateMemory" /\ r.size \in Nat \ {0}
    BY <2>1 DEF CallForm, CallsFit, Heard, Waiting, NoCall, Pending, InService
  <2>3. r.status = "running" => phase \in {"ready", "cleaned"}
    BY DEF ServiceLives, Callers, InService
  <2>4. IsFiniteSet(free_list) /\ Cardinality(free_list) \in Nat
    BY PoolAssumption, FS_Subset, FS_CardinalityType
    DEF SystemInv, PoolInv, PoolTypeOK
  <2>5. ASSUME r.size \in Nat \ {0}, ~(r.size > Cardinality(free_list))
        PROVE  \E B \in SUBSET free_list : Cardinality(B) = r.size
    BY <2>4, <2>5, SubsetOfSize
  <2> QED BY <2>2, <2>3, <2>5 DEF Answerable
<1> QED BY <1>1, <1>2, <1>3, SystemInvariant, PTL DEF SystemSpec

-----------------------------------------------------------------------------
\* Only four kinds of step reach segments_: a grant, a free, the end of the
\* process, and its start.
LEMMA SegmentsChange ==
  ASSUME SystemInv, [SystemNext]_systemVars, segments' # segments
  PROVE  \/ \E c \in Clients : ServeAllocateGrants(c)
         \/ \E c \in Clients, t \in Callers : ServeFree(c, t)
         \/ phase' # "ready"
<1>1. ~(UNCHANGED poolVars)
  BY DEF poolVars, processVars
<1>2. ~(UNCHANGED systemVars) /\ ~ShutdownBegins
  BY <1>1 DEF systemVars, serverVars, ShutdownBegins
<1>3. CASE ServerLife
  <2>1. ~ServerStarts \/ phase' # "ready"
    BY DEF ServerStarts, InitializeSucceeds, InitializeFails
  <2>2. ServerCleansUp \/ ServerRestarts \/ ServerKilled => phase' # "ready"
    BY DEF ServerCleansUp, ServerRestarts, ServerKilled, Cleanup, Restart
  <2>3. ~(\E c \in Clients, t \in Callers : ShutdownInCall(c, t))
    BY <1>1 DEF ShutdownInCall
  <2> QED BY <1>2, <1>3, <2>1, <2>2, <2>3 DEF ServerLife
<1>4. ASSUME NEW c \in Clients, NEW n \in RequestSizes
      PROVE  ~Launch(c, n)
  BY <1>1 DEF Launch, serverVars
<1>5. ASSUME NEW c \in Clients, Answered(c)
      PROVE  \/ ServeAllocateGrants(c) \/ phase' # "ready"
             \/ \E t \in Callers : ServeFree(c, t)
  <2>1. ~ServeAllocateRefuses(c)
    BY AllocateFailsUnchanged
    DEF ServeAllocateRefuses, AllocateRefused, poolVars, processVars
  <2>2. \A t \in Callers : ~Unavailable(c, t) /\ ~CallArrives(c, t) /\ ~ServeFromEmptied(c, t)
    BY <1>1 DEF Unavailable, CallArrives, ServeFromEmptied, serverVars
  <2>3. ServeAllocateFaults(c) => phase' # "ready"
    BY DEF ServeAllocateFaults, AllocateFaults
  <2> QED BY <1>5, <2>1, <2>2, <2>3 DEF Answered
<1>6. ASSUME NEW c \in Clients
      PROVE  ~Received(c) /\ ~Mapping(c) /\ ~FreeMemory(c) /\ ~Interrupted(c)
  <2>1. ~Received(c)
    BY <1>1 DEF Received, ReceiveGrant, ReceiveRefusal, FreeMemoryReturns, serverVars
  <2>2. ~Mapping(c) /\ ~FreeMemory(c)
    BY <1>1 DEF Mapping, MapSharedMemory, MapSharedMemoryFails, FreeMemory, serverVars,
                processVars
  <2>3. ~Interrupted(c)
    BY <1>1 DEF Interrupted, SignalFrees, SignalExits, Killed, Cancelled, serverVars
  <2> QED BY <2>1, <2>2, <2>3
<1> QED BY <1>2, <1>3, <1>4, <1>5, <1>6 DEF SystemNext

\* A segment in use leaves segments_ by a request of its own client, or with the
\* server.
LEMMA OwnFreesStep ==
  ASSUME SystemInv, [SystemNext]_systemVars, NEW c \in Clients,
         pc[c] = "using", call[c]["handler"] = NoCall, granted[c] \in LiveNames
  PROVE  granted[c] \in LiveNames' \/ phase' # "ready"
<1>1. CASE segments' = segments
  BY <1>1 DEF LiveNames
<1>2. ASSUME NEW d \in Clients, ServeAllocateGrants(d)
      PROVE  granted[c] \in LiveNames'
  <2>1. call[d]["main"].size \in Nat
    BY ClientFacts DEF SystemInv, RpcCall
  <2>2. PICK m \in NewSegments(call[d]["main"].size) :
          AllocateSucceeds(call[d]["main"].size, m)
    BY <1>2 DEF ServeAllocateGrants
  <2> QED BY <2>1, <2>2, AllocateLive DEF SystemInv, PoolInv
<1>3. ASSUME NEW d \in Clients, NEW t \in Callers, ServeFree(d, t)
      PROVE  granted[c] \in LiveNames'
  <2> DEFINE s == call[d][t].shm_name
  <2>1. granted[c] # NoObject
    BY LiveNamesType, NoObjectIsNoName DEF SystemInv, PoolInv
  <2>2. s # granted[c]
    <3>1. CASE d = c
      BY <1>3, <3>1, ClientFacts DEF ServeFree, Served, SystemInv, CallsFit, NoCall, Callers
    <3>2. CASE d # c
      <4>1. Refs(c) \cap Refs(d) \subseteq {NoObject}
        BY <3>2 DEF SystemInv, ClientsInv, ClientsApart
      <4>2. granted[c] \in Refs(c) /\ s \in Refs(d)
        BY DEF Refs, Callers
      <4> QED BY <2>1, <4>1, <4>2
    <3> QED BY <3>1, <3>2
  <2>3. CASE DeallocateSucceeds(s)
    BY <2>2, <2>3, DeallocateLive DEF SystemInv
  <2>4. CASE DeallocateRefused(s)
    BY <2>4 DEF DeallocateRefused, poolVars, processVars, LiveNames
  <2> QED BY <1>3, <2>3, <2>4 DEF ServeFree
<1> QED BY <1>1, <1>2, <1>3, SegmentsChange

\* Nobody else's free, late or repeated, takes a client's segment away.
THEOREM OwnFrees == SystemSpec => OnlyOwnFrees
<1>1. SystemInv /\ [SystemNext]_systemVars =>
        [\A c \in Clients :
           /\ pc[c] = "using" /\ call[c]["handler"] = NoCall
           /\ granted[c] \in LiveNames
           => granted[c] \in LiveNames' \/ phase' # "ready"]_systemVars
  BY OwnFreesStep
<1> QED BY <1>1, SystemInvariant, PTL DEF SystemSpec, OnlyOwnFrees

\* What Allocate returns to a client can be opened and is mapped from end to end,
\* whatever clients do in between.
THEOREM SystemGrantUsable == SystemSpec => GrantIsUsable
<1>1. SystemInv /\ [SystemNext]_systemVars =>
        [\A m \in Range(segments') \ Range(segments) :
           m.shm_name \in shm' /\ \A p \in Region(m) : mem'[p] = m.shm_name]_poolVars
  <2> SUFFICES ASSUME SystemInv, [SystemNext]_systemVars,
                      NEW m \in Range(segments') \ Range(segments)
               PROVE  m.shm_name \in shm' /\ \A p \in Region(m) : mem'[p] = m.shm_name
    OBVIOUS
  <2>1. ~PoolKilled /\ ~PoolUnlinked
    BY DEF PoolKilled, ProcessGone, PoolUnlinked, processVars, Range
  <2>2. [PoolNext]_poolVars
    BY <2>1, PoolOfSystem DEF SystemInv, PoolInv, ClientsInv
  <2> QED BY <2>2, GrantStep DEF SystemInv
<1> QED BY <1>1, SystemInvariant, PTL DEF SystemSpec, GrantIsUsable

\* To the callers of the service the pool is a ledger of buffer groups: kills of
\* the server close it, and what clients do to /dev/shm does not show.
THEOREM SystemRefinement == SystemSpec => ImplementsLedger
<1>1. SystemInit => Ledger!Init
  BY LedgerInit DEF SystemInit
<1>2. SystemInv /\ [SystemNext]_systemVars => [Ledger!Next]_(Ledger!ledgerVars)
  <2> SUFFICES ASSUME SystemInv, [SystemNext]_systemVars
               PROVE  [Ledger!Next]_(Ledger!ledgerVars)
    OBVIOUS
  <2>1. CASE [PoolNext]_poolVars
    BY <2>1, LedgerStep DEF SystemInv
  <2>2. CASE PoolKilled
    <3>1. Range(segments') = {}
      BY <2>2 DEF PoolKilled, ProcessGone, Range
    <3>2. Ledger!Close
      BY <2>2, <3>1 DEF PoolKilled, ProcessGone, Ledger!Close
    <3> QED BY <3>2 DEF Ledger!Next
  <2>3. CASE PoolUnlinked
    BY <2>3 DEF PoolUnlinked, processVars, Ledger!ledgerVars
  <2> QED BY <2>1, <2>2, <2>3, PoolOfSystem DEF SystemInv, PoolInv, ClientsInv
<1> QED BY <1>1, <1>2, SystemInvariant, PTL
        DEF SystemSpec, ImplementsLedger, Ledger!Spec
=============================================================================
