------------------------- MODULE NamedObjectProofs -------------------------
(***************************************************************************)
(* What the programs of demos 2 and 3a can rely on, for any number of      *)
(* servers and clients, started and killed in any order.                   *)
(***************************************************************************)
EXTENDS NamedObject, TLAPS

\* A process is up as long as it is at some step of its program, and only such a one
\* holds a promise.
UpShape ==
  /\ \A p \in Processes : IsUp(p) <=> step[p] \notin {"off", "SIGBUS"}
  /\ \A c \in promised : IsUp(c)

\* What nobody can reach is as good as new.
Reclaimed ==
  \A o \in Objects :
    o # linked /\ (\A p \in Processes : shm_fd[p] # o) => inode[o] = EmptyInode

\* A server that is alone is the only one that is up.
AloneIsUp ==
  \A s \in alone : IsUp(s) /\ \A r \in Servers : IsUp(r) => r = s

\* An object has a size before it has a message.
MessageSized ==
  /\ \A o \in Objects : inode[o].text = "MESSAGE" => inode[o].size > 0
  /\ \A s \in Servers :
       step[s] \in {"sized", "mapped", "touching", "waiting"} => inode[shm_fd[s]].size > 0

\* An object that one server alone has opened is as that server has left it.
SoleShape ==
  \A s \in Servers :
    IsUp(s) /\ inode[shm_fd[s]].sole =>
      /\ \A r \in Servers : shm_fd[r] = shm_fd[s] => r = s
      /\ step[s] # "waiting" => inode[shm_fd[s]].text = ""
      /\ step[s] # "opened" => inode[shm_fd[s]].size = SIZE[prog[s]]

NamedInv ==
  /\ NamedTypeOK /\ UpShape /\ Reclaimed /\ NameHasServer /\ AloneIsUp /\ NameKept
  /\ MessageSized /\ SoleShape /\ PromiseKept

-----------------------------------------------------------------------------
\* The sizes are those of three kinds of objects.
LEMMA SizeRange == \A g \in ServerPrograms \cup ClientPrograms : SIZE[g] \in 1 .. 3
  BY DEF SIZE, ServerPrograms, ClientPrograms

\* The values of the fields of an object.
LEMMA InodeFields ==
  /\ EmptyInode \in Inodes
  /\ EmptyInode.size = 0 /\ EmptyInode.text = "" /\ EmptyInode.sole = TRUE
  /\ \A i \in Inodes :
       i.size \in 0 .. 3 /\ i.text \in {"", "MESSAGE"} /\ i.sole \in BOOLEAN /\ i.orphan \in BOOLEAN
<1>1. EmptyInode \in Inodes
  BY DEF EmptyInode, Inodes
<1>2. EmptyInode.size = 0 /\ EmptyInode.text = "" /\ EmptyInode.sole = TRUE
  BY DEF EmptyInode
<1>3. ASSUME NEW i \in Inodes
      PROVE  i.size \in 0 .. 3 /\ i.text \in {"", "MESSAGE"} /\ i.sole \in BOOLEAN /\ i.orphan \in BOOLEAN
  BY DEF Inodes
<1> QED BY <1>1, <1>2, <1>3

\* The invariant holds when no program has been started.
LEMMA NamedInitInv == NamedInit => NamedInv
<1> SUFFICES ASSUME NamedInit PROVE NamedInv
  OBVIOUS
<1> USE NamedAssumption, InodeFields DEF NamedAssumption, NamedInit, IsUp
<1>1. NamedTypeOK
  BY DEF NamedTypeOK
<1>2. UpShape /\ Reclaimed
  BY DEF UpShape, Reclaimed
<1>3. NameHasServer /\ AloneIsUp /\ NameKept
  BY DEF NameHasServer, AloneIsUp, NameKept
<1>4. MessageSized /\ SoleShape /\ PromiseKept
  BY DEF MessageSized, SoleShape, PromiseKept, Processes
<1> QED BY <1>1, <1>2, <1>3, <1>4 DEF NamedInv

\* The parts of the invariant, and what they say of one process.
LEMMA InvParts ==
  ASSUME NamedInv
  PROVE  /\ NamedTypeOK /\ UpShape /\ Reclaimed /\ NameHasServer /\ AloneIsUp /\ NameKept
         /\ MessageSized /\ SoleShape /\ PromiseKept
         /\ \A p \in Processes :
              /\ shm_fd[p] \in Objects \cup {Nobody} 
              /\ IsUp(p) <=> shm_fd[p] # Nobody
              /\ IsUp(p) => prog[p] \in ServerPrograms \cup ClientPrograms
              /\ IsUp(p) => SIZE[prog[p]] \in 1 .. 3
  BY SizeRange DEF NamedInv, NamedTypeOK, IsUp

-----------------------------------------------------------------------------
\* A server goes on and changes nothing but its object, which has its size then.
LEMMA ServerWorks ==
  ASSUME NamedInv,
         NEW s \in Servers, NEW there \in {"sized", "mapped", "touching", "waiting"},
         step[s] \in {"opened", "sized", "mapped", "touching"}, Goto(s, there),
         UNCHANGED <<linked, prog, shm_fd, historyVars>>,
         NEW o, o = shm_fd[s],
         inode' \in [Objects -> Inodes], \A q \in Objects \ {o} : inode'[q] = inode[q],
         inode'[o].sole = inode[o].sole, inode'[o].orphan = inode[o].orphan,
         inode'[o].size > 0, inode[o].sole => inode'[o].size = SIZE[prog[s]],
         there # "waiting" => inode'[o].text \in {"", inode[o].text}
  PROVE  NamedInv'
<1> USE NamedAssumption DEF NamedAssumption, Processes
<1>1. IsUp(s) /\ o \in Objects
  BY InvParts DEF UpShape
<1>2. /\ \A q \in Processes \ {s} : step'[q] = step[q]
      /\ step'[s] = there /\ step' \in [Processes -> ServerSteps \cup ClientSteps \cup {"off", "SIGBUS"}]
  BY InvParts DEF NamedTypeOK, Goto, ServerSteps
<1>3. linked' = linked /\ prog' = prog /\ shm_fd' = shm_fd /\ promised' = promised /\ alone' = alone
  BY DEF historyVars
<1>e. \A q \in Objects :
        /\ inode'[q].sole = inode[q].sole /\ inode'[q].orphan = inode[q].orphan
        /\ q # o => inode'[q].size = inode[q].size /\ inode'[q].text = inode[q].text
  OBVIOUS
<1>p. \A q \in Processes : IsUp(q) => shm_fd[q] \in Objects
  BY InvParts
<1>4. NamedTypeOK' /\ UpShape'
  <2>1. NamedTypeOK /\ UpShape
    BY InvParts
  <2>2. NamedTypeOK'
    BY <2>1, <1>2, <1>3 DEF NamedTypeOK, IsUp
  <2>3. UpShape'
    BY <2>1, <1>1, <1>2, <1>3 DEF UpShape, IsUp
  <2> QED BY <2>2, <2>3
<1>5. Reclaimed'
  BY InvParts, <1>1 DEF Reclaimed
<1>n. NameHasServer'
  BY InvParts DEF NameHasServer, NamedTypeOK
<1>u. \A q : IsUp(q)' = IsUp(q)
  BY DEF IsUp
<1>a. AloneIsUp'
  BY InvParts, <1>3, <1>u DEF AloneIsUp
<1>6. NameKept'
  BY InvParts, <1>3 DEF NameKept
<1>7. MessageSized'
  <2>1. \A q \in Objects : inode'[q].text = "MESSAGE" => inode'[q].size > 0
    BY InvParts DEF MessageSized
  <2>2. ASSUME NEW r \in Servers, step'[r] \in {"sized", "mapped", "touching", "waiting"}
        PROVE  inode'[shm_fd'[r]].size > 0
    <3>1. CASE r = s
      BY <3>1
    <3>2. CASE r # s
      <4>1. shm_fd[r] \in Objects /\ inode[shm_fd[r]].size > 0
        BY <3>2, <2>2, <1>2, InvParts DEF MessageSized, UpShape
      <4> QED BY <4>1
    <3> QED BY <3>2
  <2> QED BY <2>1, <2>2 DEF MessageSized
<1>8. SoleShape'
  <2>1. ASSUME NEW r \in Servers, IsUp(r)', inode'[shm_fd'[r]].sole
        PROVE  /\ \A t \in Servers : shm_fd'[t] = shm_fd'[r] => t = r
               /\ step'[r] # "waiting" => inode'[shm_fd'[r]].text = ""
               /\ step'[r] # "opened" => inode'[shm_fd'[r]].size = SIZE[prog'[r]]
    <3>1. IsUp(r) /\ shm_fd'[r] = shm_fd[r] /\ shm_fd[r] \in Objects
      BY <2>1, <1>u, <1>p
    <3>2. inode[shm_fd[r]].sole
      BY <2>1, <3>1
    <3>3. \A t \in Servers : shm_fd[t] = shm_fd[r] => t = r
      BY <3>1, <3>2, InvParts DEF SoleShape
    <3>4. CASE r = s
      BY <3>2, <3>3, <3>4, <1>1, <1>2, InvParts DEF SoleShape
    <3>5. CASE r # s
      <4>1. shm_fd[r] # o /\ step'[r] = step[r]
        BY <3>3, <3>5, <1>2
      <4>2. /\ step[r] # "waiting" => inode[shm_fd[r]].text = ""
            /\ step[r] # "opened" => inode[shm_fd[r]].size = SIZE[prog[r]]
        BY <3>1, <3>2, InvParts DEF SoleShape
      <4> QED BY <3>1, <3>3, <4>1, <4>2, <1>e
    <3> QED BY <3>4, <3>5
  <2> QED BY <2>1 DEF SoleShape
<1>9. PromiseKept'
  <2>1. \A c \in promised : inode[shm_fd[c]].sole => shm_fd[c] # o
    BY <1>1, InvParts DEF PromiseKept, SoleShape
  <2> QED
    <3>1. ASSUME NEW c \in promised, inode'[shm_fd[c]].sole
          PROVE  inode'[shm_fd[c]].size > 0 /\ inode'[shm_fd[c]].text = "MESSAGE"
      <4>1. c \in Processes /\ IsUp(c)
        BY InvParts DEF UpShape, NamedTypeOK
      <4>2. shm_fd[c] \in Objects
        BY <4>1, <1>p
      <4>3. inode[shm_fd[c]].sole
        BY <3>1, <4>2
      <4> QED BY <4>2, <4>3, <2>1, InvParts DEF PromiseKept
    <3> QED BY <3>1, <1>3 DEF PromiseKept
<1> QED BY <1>4, <1>5, <1>n, <1>a, <1>6, <1>7, <1>8, <1>9 DEF NamedInv

\* A process ends, and its object goes if nobody else has it.
LEMMA EndKeeps ==
  ASSUME NamedInv,
         NEW p \in Processes, IsUp(p), NEW how \in {"off", "SIGBUS"}, Ends(p, how),
         NEW files \in [Objects -> Inodes], Reclaim(files),
         \A o \in Objects : /\ files[o].size = inode[o].size /\ files[o].text = inode[o].text
                            /\ files[o].sole = inode[o].sole /\ (inode[o].orphan => files[o].orphan),
         \/ linked' = Nobody /\ p \in Servers
         \/ linked' = linked /\ (p \in Servers => files[shm_fd[p]].orphan)
  PROVE  NamedInv'
<1> USE NamedAssumption DEF NamedAssumption
<1>1. /\ \A q \in Processes \ {p} : step'[q] = step[q] /\ shm_fd'[q] = shm_fd[q] /\ prog'[q] = prog[q]
      /\ step'[p] = how /\ shm_fd'[p] = Nobody /\ prog'[p] = "none"
      /\ promised' = promised \ {p} /\ alone' = alone \ {p}
  BY InvParts DEF NamedTypeOK, Ends, Goto
<1>2. /\ \A o \in Objects : o = linked' \/ (\E q \in Processes : shm_fd'[q] = o) => inode'[o] = files[o]
      /\ \A o \in Objects : inode'[o] \in {files[o], EmptyInode}
      /\ \A o \in Objects : o # linked' /\ (\A q \in Processes : shm_fd'[q] # o) => inode'[o] = EmptyInode
      /\ inode' \in [Objects -> Inodes]
  BY InodeFields DEF Reclaim
<1>3. NamedTypeOK'
  <2>1. /\ step' \in [Processes -> ServerSteps \cup ClientSteps \cup {"off", "SIGBUS"}]
        /\ prog' \in [Processes -> ServerPrograms \cup ClientPrograms \cup {"none"}]
        /\ shm_fd' \in [Processes -> Objects \cup {Nobody}]
    BY InvParts DEF NamedTypeOK, Ends, Goto
  <2> QED
    BY <1>1, <1>2, <2>1, InvParts DEF NamedTypeOK, IsUp
<1>4. UpShape' /\ Reclaimed'
  BY <1>1, <1>2, InvParts DEF UpShape, Reclaimed, IsUp, NamedTypeOK, Processes
<1>5. NameHasServer'
  BY <1>1, <1>2, InvParts DEF NameHasServer, NamedTypeOK, Processes
<1>6. AloneIsUp' /\ NameKept'
  BY <1>1, InvParts DEF AloneIsUp, NameKept, NamedTypeOK, IsUp, Processes
<1>7. ASSUME NEW q \in Processes \ {p}, IsUp(q)
      PROVE  /\ shm_fd'[q] = shm_fd[q] /\ shm_fd[q] \in Objects /\ step'[q] = step[q] /\ prog'[q] = prog[q]
             /\ inode'[shm_fd[q]].size = inode[shm_fd[q]].size
             /\ inode'[shm_fd[q]].text = inode[shm_fd[q]].text
             /\ inode'[shm_fd[q]].sole = inode[shm_fd[q]].sole
  <2>1. shm_fd[q] \in Objects /\ shm_fd'[q] = shm_fd[q]
    BY <1>1, <1>7, InvParts
  <2>2. inode'[shm_fd[q]] = files[shm_fd[q]]
    BY <1>2, <2>1
  <2>3. /\ inode'[shm_fd[q]].size = inode[shm_fd[q]].size
        /\ inode'[shm_fd[q]].text = inode[shm_fd[q]].text
        /\ inode'[shm_fd[q]].sole = inode[shm_fd[q]].sole
    BY <2>1, <2>2
  <2> QED BY <1>1, <2>1, <2>3
<1>8. \A q \in Processes : IsUp(q)' => q # p /\ IsUp(q)
  BY <1>1 DEF IsUp
<1>9. MessageSized'
  <2>1. ASSUME NEW o \in Objects, inode'[o].text = "MESSAGE"
        PROVE  inode'[o].size > 0
    <3>1. inode'[o] = files[o] \/ inode'[o] = EmptyInode
      BY <1>2
    <3>2. inode'[o] = files[o]
      BY <2>1, <3>1, InodeFields
    <3>3. inode[o].text = "MESSAGE" => inode[o].size > 0
      BY InvParts DEF MessageSized
    <3> QED BY <2>1, <3>2, <3>3
  <2>2. \A s \in Servers : step'[s] \in {"sized", "mapped", "touching", "waiting"} =>
          inode'[shm_fd'[s]].size > 0
    BY <1>1, <1>7, InvParts DEF MessageSized, UpShape, Processes
  <2> QED BY <2>1, <2>2 DEF MessageSized
<1>10. SoleShape'
  <2>1. ASSUME NEW s \in Servers, IsUp(s)', inode'[shm_fd'[s]].sole
        PROVE  /\ \A r \in Servers : shm_fd'[r] = shm_fd'[s] => r = s
               /\ step'[s] # "waiting" => inode'[shm_fd'[s]].text = ""
               /\ step'[s] # "opened" => inode'[shm_fd'[s]].size = SIZE[prog'[s]]
    <3>1. s \in Processes \ {p} /\ IsUp(s)
      BY <2>1, <1>8 DEF Processes
    <3>2. inode[shm_fd[s]].sole
      BY <2>1, <3>1, <1>7
    <3>3. \A r \in Servers : shm_fd'[r] = shm_fd'[s] => shm_fd[r] = shm_fd[s]
      BY <3>1, <1>1, <1>7 DEF Processes
    <3>4. /\ \A r \in Servers : shm_fd[r] = shm_fd[s] => r = s
          /\ step[s] # "waiting" => inode[shm_fd[s]].text = ""
          /\ step[s] # "opened" => inode[shm_fd[s]].size = SIZE[prog[s]]
      BY <3>1, <3>2, InvParts DEF SoleShape
    <3> QED BY <3>1, <3>3, <3>4, <1>7
  <2> QED BY <2>1 DEF SoleShape
<1>11. PromiseKept'
  BY <1>1, <1>7, InvParts DEF PromiseKept, UpShape, NamedTypeOK, Processes
<1> QED BY <1>3, <1>4, <1>5, <1>6, <1>9, <1>10, <1>11 DEF NamedInv

\* A client goes on over its mapping and changes nothing else.
LEMMA ClientWorks ==
  ASSUME NamedInv, NEW c \in Clients, NEW there \in {"mapped", "registered", "copied"},
         step[c] \notin {"off", "SIGBUS"}, Goto(c, there),
         UNCHANGED <<linked, inode, prog, shm_fd, historyVars>>
  PROVE  NamedInv'
<1> USE NamedAssumption DEF NamedAssumption
<1>1. /\ \A q \in Processes \ {c} : step'[q] = step[q]
      /\ step'[c] = there /\ step' \in [Processes -> ServerSteps \cup ClientSteps \cup {"off", "SIGBUS"}]
  BY InvParts DEF NamedTypeOK, Goto, ClientSteps, Processes
<1>2. /\ linked' = linked /\ inode' = inode /\ prog' = prog /\ shm_fd' = shm_fd
      /\ promised' = promised /\ alone' = alone
  BY DEF historyVars
<1>3. \A s \in Servers : step'[s] = step[s]
  BY <1>1 DEF Processes
<1>4. NamedTypeOK' /\ UpShape'
  BY <1>1, <1>2, InvParts DEF NamedTypeOK, UpShape, IsUp
<1>5. Reclaimed' /\ NameHasServer' /\ AloneIsUp' /\ NameKept' /\ PromiseKept'
  BY <1>2, InvParts DEF Reclaimed, NameHasServer, AloneIsUp, NameKept, PromiseKept, IsUp
<1>6. MessageSized'
  BY <1>3, InvParts DEF MessageSized
<1>7. SoleShape'
  <2>1. ASSUME NEW s \in Servers, IsUp(s)', inode'[shm_fd'[s]].sole
        PROVE  /\ \A r \in Servers : shm_fd'[r] = shm_fd'[s] => r = s
               /\ step'[s] # "waiting" => inode'[shm_fd'[s]].text = ""
               /\ step'[s] # "opened" => inode'[shm_fd'[s]].size = SIZE[prog'[s]]
    <3>1. IsUp(s) /\ inode[shm_fd[s]].sole
      BY <2>1 DEF IsUp
    <3>2. /\ \A r \in Servers : shm_fd[r] = shm_fd[s] => r = s
          /\ step[s] # "waiting" => inode[shm_fd[s]].text = ""
          /\ step[s] # "opened" => inode[shm_fd[s]].size = SIZE[prog[s]]
      BY <3>1, InvParts DEF SoleShape
    <3> QED BY <3>2, <1>3
  <2> QED BY <2>1 DEF SoleShape
<1> QED BY <1>4, <1>5, <1>6, <1>7 DEF NamedInv

\* A client opens what is linked.
LEMMA ClientOpensKeeps ==
  ASSUME NamedInv, NEW c \in Clients, NEW g \in ClientPrograms, ClientOpens(c, g)
  PROVE  NamedInv'
<1> USE NamedAssumption DEF NamedAssumption
<1>1. /\ \A q \in Processes \ {c} : step'[q] = step[q] /\ shm_fd'[q] = shm_fd[q] /\ prog'[q] = prog[q]
      /\ step'[c] = "opened" /\ shm_fd'[c] = linked /\ prog'[c] = g
      /\ linked # Nobody /\ linked \in Objects /\ ~IsUp(c)
      /\ linked' = linked /\ inode' = inode /\ alone' = alone
  BY InvParts DEF NamedTypeOK, ClientOpens, Goto, Processes
<1>2. \A s \in Servers : step'[s] = step[s] /\ shm_fd'[s] = shm_fd[s] /\ prog'[s] = prog[s] /\ IsUp(s)' = IsUp(s)
  BY <1>1 DEF Processes, IsUp
<1>3. g # "none"
  BY DEF ClientPrograms
<1>4. NamedTypeOK'
  <2>1. /\ step' \in [Processes -> ServerSteps \cup ClientSteps \cup {"off", "SIGBUS"}]
        /\ prog' \in [Processes -> ServerPrograms \cup ClientPrograms \cup {"none"}]
        /\ shm_fd' \in [Processes -> Objects \cup {Nobody}]
        /\ promised' \subseteq Clients
    BY InvParts DEF NamedTypeOK, ClientOpens, Goto, ClientSteps
  <2> QED BY <1>1, <1>3, <2>1, InvParts DEF NamedTypeOK, IsUp
<1>5. UpShape'
  BY <1>1, <1>3, InvParts DEF UpShape, IsUp, ClientOpens
<1>6. Reclaimed'
  BY <1>1, InvParts DEF Reclaimed
<1>7. NameHasServer' /\ AloneIsUp' /\ NameKept'
  BY <1>1, <1>2, InvParts DEF NameHasServer, AloneIsUp, NameKept, NamedTypeOK
<1>8. MessageSized'
  BY <1>1, <1>2, InvParts DEF MessageSized
<1>s. SoleShape'
  <2>1. ASSUME NEW s \in Servers, IsUp(s)', inode'[shm_fd'[s]].sole
        PROVE  /\ \A r \in Servers : shm_fd'[r] = shm_fd'[s] => r = s
               /\ step'[s] # "waiting" => inode'[shm_fd'[s]].text = ""
               /\ step'[s] # "opened" => inode'[shm_fd'[s]].size = SIZE[prog'[s]]
    <3>1. IsUp(s) /\ inode[shm_fd[s]].sole
      BY <2>1, <1>1, <1>2
    <3>2. /\ \A r \in Servers : shm_fd[r] = shm_fd[s] => r = s
          /\ step[s] # "waiting" => inode[shm_fd[s]].text = ""
          /\ step[s] # "opened" => inode[shm_fd[s]].size = SIZE[prog[s]]
      BY <3>1, InvParts DEF SoleShape
    <3> QED BY <3>2, <1>1, <1>2
  <2> QED BY <2>1 DEF SoleShape
<1>9. PromiseKept'
  <2>1. \A d \in promised : d # c /\ d \in Processes
    BY <1>1, InvParts DEF UpShape, NamedTypeOK, Processes
  <2>2. promised' = promised \/ (promised' = promised \cup {c} /\ inode[linked].text = "MESSAGE")
    <3>1. promised' = IF inode[linked].text = "MESSAGE" THEN promised \cup {c} ELSE promised
      BY DEF ClientOpens
    <3> QED BY <3>1
  <2>3. inode[linked].text = "MESSAGE" => inode[linked].size > 0
    BY <1>1, InvParts DEF MessageSized
  <2> QED BY <2>1, <2>2, <2>3, <1>1, InvParts DEF PromiseKept
<1> QED BY <1>4, <1>5, <1>6, <1>7, <1>8, <1>s, <1>9 DEF NamedInv

\* A server that cannot open the object takes the name away all the same.
LEMMA OpenFailsKeeps ==
  ASSUME NamedInv, NEW s \in Servers, ShmOpenFails(s)
  PROVE  NamedInv'
<1> USE NamedAssumption DEF NamedAssumption
<1>1. /\ linked' = Nobody /\ alone' = {} /\ promised' = promised
      /\ prog' = prog /\ step' = step /\ shm_fd' = shm_fd
  BY DEF ShmOpenFails, processVars
<1>2. /\ \A o \in Objects : (\E q \in Processes : shm_fd[q] = o) => inode'[o] = inode[o]
      /\ \A o \in Objects : inode'[o] \in {inode[o], EmptyInode}
      /\ \A o \in Objects : (\A q \in Processes : shm_fd[q] # o) => inode'[o] = EmptyInode
      /\ inode' \in [Objects -> Inodes]
  BY <1>1, InodeFields, InvParts DEF ShmOpenFails, Reclaim, NamedTypeOK
<1>3. \A q \in Processes : IsUp(q) => inode'[shm_fd[q]] = inode[shm_fd[q]]
  BY <1>2, InvParts
<1>4. NamedTypeOK' /\ UpShape' /\ Reclaimed'
  BY <1>1, <1>2, InvParts DEF NamedTypeOK, UpShape, Reclaimed, IsUp
<1>5. NameHasServer' /\ AloneIsUp' /\ NameKept'
  BY <1>1 DEF NameHasServer, AloneIsUp, NameKept
<1>6. MessageSized'
  <2>1. \A o \in Objects : inode'[o].text = "MESSAGE" => inode'[o].size > 0
    BY <1>2, InodeFields, InvParts DEF MessageSized
  <2>2. \A r \in Servers : step[r] \in {"sized", "mapped", "touching", "waiting"} =>
          inode'[shm_fd[r]].size > 0
    BY <1>3, InvParts DEF MessageSized, UpShape, Processes
  <2> QED BY <1>1, <2>1, <2>2 DEF MessageSized
<1>7. SoleShape'
  BY <1>1, <1>3, InvParts DEF SoleShape, IsUp, Processes
<1>8. PromiseKept'
  <2>1. \A c \in promised : inode'[shm_fd[c]] = inode[shm_fd[c]]
    BY <1>3, InvParts DEF UpShape, NamedTypeOK, Processes
  <2> QED BY <1>1, <2>1, InvParts DEF PromiseKept
<1> QED BY <1>4, <1>5, <1>6, <1>7, <1>8 DEF NamedInv

\* A server opens the object of that name, or makes one.
LEMMA ShmOpenKeeps ==
  ASSUME NamedInv, NEW s \in Servers, NEW g \in ServerPrograms, ShmOpen(s, g)
  PROVE  NamedInv'
<1> USE NamedAssumption DEF NamedAssumption
<1>0. PICK o \in Objects :
        /\ IF linked # Nobody THEN o = linked ELSE \A p \in Processes : shm_fd[p] # o
        /\ linked' = o
        /\ inode' = [inode EXCEPT ![o].sole = (linked = Nobody)]
        /\ shm_fd' = [shm_fd EXCEPT ![s] = o]
  BY DEF ShmOpen
<1>1. /\ \A q \in Processes \ {s} : step'[q] = step[q] /\ shm_fd'[q] = shm_fd[q] /\ prog'[q] = prog[q]
      /\ step'[s] = "opened" /\ shm_fd'[s] = o /\ prog'[s] = g /\ promised' = promised
      /\ alone' = IF \E r \in Servers : IsUp(r) THEN {} ELSE {s}
      /\ ~IsUp(s) /\ linked' = o /\ s \in Processes
  BY <1>0, InvParts DEF NamedTypeOK, ShmOpen, Goto, Processes
<1>2. /\ inode' \in [Objects -> Inodes]
      /\ \A q \in Objects \ {o} : inode'[q] = inode[q]
      /\ inode'[o].size = inode[o].size /\ inode'[o].text = inode[o].text
      /\ inode'[o].sole = (linked = Nobody)
  <2>1. inode \in [Objects -> Inodes] /\ (linked = Nobody) \in BOOLEAN
    BY InvParts DEF NamedTypeOK
  <2>2. inode[o] \in Inodes
    BY <2>1
  <2>3. /\ \A q \in Objects \ {o} : inode'[q] = inode[q]
        /\ inode'[o] = [inode[o] EXCEPT !.sole = (linked = Nobody)]
    BY <1>0, <2>1
  <2>4. inode'[o] \in Inodes
    BY <2>2, <2>3 DEF Inodes
  <2>5. inode' \in [Objects -> Inodes]
    BY <1>0, <2>1, <2>4
  <2> QED BY <2>3, <2>5
<1>3. /\ linked # Nobody => o = linked
      /\ linked = Nobody => (\A p \in Processes : shm_fd[p] # o) /\ inode[o] = EmptyInode
  BY <1>0, InvParts DEF Reclaimed
<1>4. NamedTypeOK'
  <2>1. /\ step' \in [Processes -> ServerSteps \cup ClientSteps \cup {"off", "SIGBUS"}]
        /\ prog' \in [Processes -> ServerPrograms \cup ClientPrograms \cup {"none"}]
        /\ shm_fd' \in [Processes -> Objects \cup {Nobody}]
    BY <1>0, InvParts DEF NamedTypeOK, ShmOpen, Goto, ServerSteps
  <2>2. g # "none"
    BY DEF ServerPrograms
  <2> QED BY <1>1, <1>2, <2>1, <2>2, InvParts DEF NamedTypeOK, IsUp
<1>5. \A q \in Processes : IsUp(q)' <=> (q = s \/ IsUp(q))
  BY <1>1 DEF IsUp, ServerPrograms
<1>6. UpShape'
  BY <1>1, <1>5, InvParts DEF UpShape, NamedTypeOK, Processes
<1>7. Reclaimed' /\ NameHasServer'
  BY <1>1, <1>2, <1>3, InvParts DEF Reclaimed, NameHasServer
<1>8. AloneIsUp' /\ NameKept'
  BY <1>1, <1>5 DEF AloneIsUp, NameKept, Processes
<1>9. \A q \in Objects : inode'[q].size = inode[q].size /\ inode'[q].text = inode[q].text
  BY <1>2
<1>10. MessageSized'
  <2>1. \A q \in Objects : inode'[q].text = "MESSAGE" => inode'[q].size > 0
    BY <1>9, InvParts DEF MessageSized
  <2>2. ASSUME NEW r \in Servers, step'[r] \in {"sized", "mapped", "touching", "waiting"}
        PROVE  inode'[shm_fd'[r]].size > 0
    <3>1. r # s /\ step'[r] = step[r] /\ shm_fd'[r] = shm_fd[r]
      BY <2>2, <1>1 DEF Processes
    <3>2. shm_fd[r] \in Objects
      BY <2>2, <3>1, InvParts DEF UpShape, Processes
    <3> QED BY <2>2, <3>1, <3>2, <1>9, InvParts DEF MessageSized
  <2> QED BY <2>1, <2>2 DEF MessageSized
<1>11. ASSUME NEW q \in Processes \ {s}, IsUp(q), inode'[shm_fd'[q]].sole
       PROVE  shm_fd'[q] = shm_fd[q] /\ shm_fd[q] # o /\ inode'[shm_fd[q]] = inode[shm_fd[q]]
  <2>1. shm_fd'[q] = shm_fd[q] /\ shm_fd[q] \in Objects
    BY <1>1, <1>11, InvParts
  <2>2. shm_fd[q] # o
    BY <2>1, <1>11, <1>2, <1>3
  <2> QED BY <2>1, <2>2, <1>2
<1>12. SoleShape'
  <2>1. ASSUME NEW r \in Servers, IsUp(r)', inode'[shm_fd'[r]].sole
        PROVE  /\ \A t \in Servers : shm_fd'[t] = shm_fd'[r] => t = r
               /\ step'[r] # "waiting" => inode'[shm_fd'[r]].text = ""
               /\ step'[r] # "opened" => inode'[shm_fd'[r]].size = SIZE[prog'[r]]
    <3>1. CASE r = s
      <4>1. linked = Nobody /\ inode'[o].text = ""
        BY <2>1, <3>1, <1>1, <1>2, <1>3, InodeFields
      <4> QED BY <3>1, <4>1, <1>1, <1>3 DEF Processes
    <3>2. CASE r # s
      <4>1. r \in Processes \ {s} /\ IsUp(r)
        BY <2>1, <3>2, <1>5 DEF Processes
      <4>2. shm_fd'[r] = shm_fd[r] /\ shm_fd[r] # o /\ inode'[shm_fd[r]] = inode[shm_fd[r]]
        BY <4>1, <2>1, <1>11
      <4>3. \A t \in Servers : shm_fd'[t] = shm_fd'[r] => shm_fd[t] = shm_fd[r]
        BY <4>2, <1>1 DEF Processes
      <4>4. /\ \A t \in Servers : shm_fd[t] = shm_fd[r] => t = r
            /\ step[r] # "waiting" => inode[shm_fd[r]].text = ""
            /\ step[r] # "opened" => inode[shm_fd[r]].size = SIZE[prog[r]]
        BY <4>1, <4>2, <2>1, InvParts DEF SoleShape
      <4> QED BY <4>1, <4>2, <4>3, <4>4, <1>1
    <3> QED BY <3>1, <3>2
  <2> QED BY <2>1 DEF SoleShape
<1>13. PromiseKept'
  <2>1. \A c \in promised : c \in Processes \ {s} /\ IsUp(c)
    BY InvParts DEF UpShape, NamedTypeOK, Processes
  <2>2. ASSUME NEW c \in promised, inode'[shm_fd'[c]].sole
        PROVE  inode'[shm_fd'[c]].size > 0 /\ inode'[shm_fd'[c]].text = "MESSAGE"
    BY <2>1, <2>2, <1>11, InvParts DEF PromiseKept
  <2> QED BY <2>2, <1>1 DEF PromiseKept
<1> QED BY <1>4, <1>6, <1>7, <1>8, <1>10, <1>12, <1>13 DEF NamedInv

-----------------------------------------------------------------------------
\* Every step of every program keeps the invariant.
LEMMA NamedStep == NamedInv /\ [NamedNext]_namedVars => NamedInv'
<1> SUFFICES ASSUME NamedInv, [NamedNext]_namedVars PROVE NamedInv'
  OBVIOUS
<1> USE NamedAssumption DEF NamedAssumption
<1>1. ASSUME NEW s \in Servers, Ftruncate(s) PROVE NamedInv'
  <2>1. IsUp(s) /\ shm_fd[s] \in Objects /\ SIZE[prog[s]] \in 1 .. 3
    BY <1>1, InvParts DEF UpShape, Ftruncate, Processes
  <2>2. /\ inode' \in [Objects -> Inodes]
        /\ \A q \in Objects \ {shm_fd[s]} : inode'[q] = inode[q]
        /\ inode'[shm_fd[s]].size = SIZE[prog[s]] /\ inode'[shm_fd[s]].text = inode[shm_fd[s]].text
        /\ inode'[shm_fd[s]].sole = inode[shm_fd[s]].sole
        /\ inode'[shm_fd[s]].orphan = inode[shm_fd[s]].orphan
    <3>1. inode \in [Objects -> Inodes]
      BY InvParts DEF NamedTypeOK
    <3>2. inode[shm_fd[s]] \in Inodes
      BY <2>1, <3>1
    <3>3. /\ \A q \in Objects \ {shm_fd[s]} : inode'[q] = inode[q]
          /\ inode'[shm_fd[s]] = [inode[shm_fd[s]] EXCEPT !.size = SIZE[prog[s]]]
      BY <1>1, <2>1, <3>1 DEF Ftruncate
    <3>n. PICK n \in 0 .. 3 : n = SIZE[prog[s]]
      BY <2>1
    <3>4. inode'[shm_fd[s]] \in Inodes
      <4>1. inode'[shm_fd[s]] = [inode[shm_fd[s]] EXCEPT !.size = n]
        BY <3>n, <3>3
      <4> QED BY <4>1, <3>2 DEF Inodes
    <3>5. inode' \in [Objects -> Inodes]
      BY <1>1, <3>1, <3>4 DEF Ftruncate
    <3> QED BY <3>3, <3>5
  <2>3. /\ inode'[shm_fd[s]].size > 0 /\ Goto(s, "sized") /\ step[s] = "opened"
        /\ UNCHANGED <<linked, prog, shm_fd, historyVars>>
    BY <1>1, <2>1, <2>2 DEF Ftruncate
  <2> QED BY <2>2, <2>3, ServerWorks
<1>2. ASSUME NEW s \in Servers, MapObject(s) PROVE NamedInv'
  <2>1. IsUp(s) /\ shm_fd[s] \in Objects
    BY <1>2, InvParts DEF UpShape, MapObject, Processes
  <2>2. /\ inode' \in [Objects -> Inodes]
        /\ \A q \in Objects \ {shm_fd[s]} : inode'[q] = inode[q]
        /\ inode'[shm_fd[s]].size = inode[shm_fd[s]].size
        /\ inode'[shm_fd[s]].text \in {"", inode[shm_fd[s]].text}
        /\ inode'[shm_fd[s]].sole = inode[shm_fd[s]].sole
        /\ inode'[shm_fd[s]].orphan = inode[shm_fd[s]].orphan
    <3>1. inode \in [Objects -> Inodes]
      BY InvParts DEF NamedTypeOK
    <3>2. inode[shm_fd[s]] \in Inodes
      BY <2>1, <3>1
    <3>3. /\ \A q \in Objects \ {shm_fd[s]} : inode'[q] = inode[q]
          /\ inode'[shm_fd[s]] \in {inode[shm_fd[s]], [inode[shm_fd[s]] EXCEPT !.text = ""]}
      BY <1>2, <3>1 DEF MapObject
    <3>4. inode'[shm_fd[s]] \in Inodes
      BY <3>2, <3>3 DEF Inodes
    <3>5. inode' \in [Objects -> Inodes]
      BY <1>2, <3>1, <3>4 DEF MapObject
    <3> QED BY <3>2, <3>3, <3>5 DEF Inodes
  <2>3. /\ inode[shm_fd[s]].size > 0
        /\ inode[shm_fd[s]].sole => inode[shm_fd[s]].size = SIZE[prog[s]]
    BY <1>2, <2>1, InvParts DEF MapObject, MessageSized, SoleShape
  <2>4. PICK there \in {"mapped", "touching"} : Goto(s, there)
    BY <1>2 DEF MapObject
  <2>5. step[s] = "sized" /\ UNCHANGED <<linked, prog, shm_fd, historyVars>>
    BY <1>2 DEF MapObject
  <2>6. /\ inode'[shm_fd[s]].size > 0
        /\ inode[shm_fd[s]].sole => inode'[shm_fd[s]].size = SIZE[prog[s]]
    BY <2>2, <2>3
  <2>7. there \in {"sized", "mapped", "touching", "waiting"}
        /\ step[s] \in {"opened", "sized", "mapped", "touching"}
    BY <2>4, <2>5
  <2> QED BY <2>2, <2>4, <2>5, <2>6, <2>7, ServerWorks
<1>3. ASSUME NEW s \in Servers, WriteMessage(s) PROVE NamedInv'
  <2>1. IsUp(s) /\ shm_fd[s] \in Objects
    BY <1>3, InvParts DEF UpShape, WriteMessage, Processes
  <2>2. /\ inode' \in [Objects -> Inodes]
        /\ \A q \in Objects \ {shm_fd[s]} : inode'[q] = inode[q]
        /\ inode'[shm_fd[s]].size = inode[shm_fd[s]].size
        /\ inode'[shm_fd[s]].sole = inode[shm_fd[s]].sole
        /\ inode'[shm_fd[s]].orphan = inode[shm_fd[s]].orphan
    <3>1. inode \in [Objects -> Inodes]
      BY InvParts DEF NamedTypeOK
    <3>2. inode[shm_fd[s]] \in Inodes
      BY <2>1, <3>1
    <3>3. /\ \A q \in Objects \ {shm_fd[s]} : inode'[q] = inode[q]
          /\ inode'[shm_fd[s]] = [inode[shm_fd[s]] EXCEPT !.text = "MESSAGE"]
      BY <1>3, <2>1, <3>1 DEF WriteMessage
    <3>4. inode'[shm_fd[s]] \in Inodes
      BY <3>2, <3>3 DEF Inodes
    <3>5. inode' \in [Objects -> Inodes]
      BY <1>3, <3>1, <3>4 DEF WriteMessage
    <3> QED BY <3>3, <3>5
  <2>3. /\ inode[shm_fd[s]].size > 0
        /\ inode[shm_fd[s]].sole => inode[shm_fd[s]].size = SIZE[prog[s]]
    BY <1>3, <2>1, InvParts DEF WriteMessage, MessageSized, SoleShape
  <2> QED BY <1>3, <2>2, <2>3, ServerWorks DEF WriteMessage
<1>4. ASSUME NEW s \in Servers, IsUp(s), Leave(s) PROVE NamedInv'
  BY <1>4, EndKeeps, InvParts DEF Leave, NamedTypeOK, Processes
<1>5. ASSUME NEW p \in Processes, IsUp(p), NEW how \in {"off", "SIGBUS"}, Dies(p, how) PROVE NamedInv'
  <2>1. inode \in [Objects -> Inodes] /\ shm_fd[p] \in Objects
    BY <1>5, InvParts DEF NamedTypeOK
  <2>2. Ends(p, how) /\ linked' = linked
    BY <1>5 DEF Dies
  <2>3. CASE p \in Servers
    <3> DEFINE files == [inode EXCEPT ![shm_fd[p]].orphan = TRUE]
    <3>1. inode[shm_fd[p]] \in Inodes
      BY <2>1
    <3>2. /\ \A q \in Objects \ {shm_fd[p]} : files[q] = inode[q]
          /\ files[shm_fd[p]] = [inode[shm_fd[p]] EXCEPT !.orphan = TRUE]
          /\ DOMAIN files = Objects /\ files = [q \in Objects |-> files[q]]
      BY <2>1
    <3>3. Reclaim(files)
      BY <1>5, <2>3 DEF Dies
    <3> HIDE DEF files
    <3>4. files[shm_fd[p]] \in Inodes /\ files[shm_fd[p]].orphan
      BY <3>1, <3>2 DEF Inodes
    <3>5. files \in [Objects -> Inodes]
      BY <2>1, <3>2, <3>4
    <3>6. \A o \in Objects :
            /\ files[o].size = inode[o].size /\ files[o].text = inode[o].text
            /\ files[o].sole = inode[o].sole /\ (inode[o].orphan => files[o].orphan)
      <4>1. LET i == inode[shm_fd[p]]  f == files[shm_fd[p]]
            IN  f.size = i.size /\ f.text = i.text /\ f.sole = i.sole
        BY <3>1, <3>2 DEF Inodes
      <4> QED BY <3>2, <3>4, <4>1
    <3>7. linked' = linked /\ (p \in Servers => files[shm_fd[p]].orphan)
      BY <2>2, <3>4
    <3> QED BY <1>5, <2>2, <3>3, <3>5, <3>6, <3>7, EndKeeps
  <2>4. CASE p \notin Servers
    <3>1. Reclaim(inode)
      BY <1>5, <2>4 DEF Dies
    <3> QED BY <1>5, <2>1, <2>2, <2>4, <3>1, EndKeeps
  <2> QED BY <2>3, <2>4
<1>6. ASSUME NEW c \in Clients, ClientEnds(c) PROVE NamedInv'
  BY <1>6, EndKeeps, InvParts DEF ClientEnds, NamedTypeOK, Processes
<1>7. ASSUME NEW c \in Clients, ClientMaps(c) \/ Register(c) \/ CopyToGpu(c) PROVE NamedInv'
  BY <1>7, ClientWorks DEF ClientMaps, Register, CopyToGpu, AboutToCopy
<1>8. ASSUME NEW s \in Servers, TouchFaults(s) PROVE NamedInv'
  BY <1>8, <1>5, InvParts DEF TouchFaults, UpShape, Processes
<1>9. ASSUME NEW c \in Clients, CopyFaults(c) PROVE NamedInv'
  BY <1>9, <1>5, InvParts DEF CopyFaults, AboutToCopy, UpShape, Processes
<1>10. ASSUME NEW s \in Servers, ServerFails(s) \/ PressEnter(s) PROVE NamedInv'
  BY <1>10, <1>4, InvParts DEF ServerFails, PressEnter, UpShape, Processes
<1>11. ASSUME NEW s \in Servers, Killed(s) PROVE NamedInv'
  BY <1>11, <1>5 DEF Killed, Processes
<1>12. CASE UNCHANGED namedVars
  BY <1>12 DEF namedVars, processVars, historyVars, NamedInv, NamedTypeOK, UpShape,
     Reclaimed, NameHasServer, AloneIsUp, NameKept, MessageSized, SoleShape,
     PromiseKept, IsUp
<1> QED
  BY <1>1, <1>2, <1>3, <1>6, <1>7, <1>8, <1>9, <1>10, <1>11, <1>12,
     ShmOpenKeeps, OpenFailsKeeps, ClientOpensKeeps
  DEF NamedNext

\* The invariant holds at every moment, whatever is started and killed when.
THEOREM NamedInvariant == NamedSpec => []NamedInv
  BY NamedInitInv, NamedStep, PTL DEF NamedSpec

\* What is linked belongs to a server that is up or was left by one that was killed.
THEOREM NameAccounted == NamedSpec => []NameHasServer
  BY NamedInvariant, InvParts, PTL

\* A server's object keeps its name while no other server is started.
THEOREM NameStays == NamedSpec => []NameKept
  BY NamedInvariant, InvParts, PTL

\* A message that was there when a client opened the object is there for as long as the
\* client has it, over an object that one server alone has opened.
THEOREM PromiseHolds == NamedSpec => []PromiseKept
  BY NamedInvariant, InvParts, PTL

\* Whom a signal can hit over an object that one server alone has opened.
THEOREM FaultsAreExplained == NamedSpec => FaultsExplained
<1> DEFINE Explained ==
      \A p \in Processes : IsUp(p) /\ inode[shm_fd[p]].sole /\ step'[p] = "SIGBUS" => p \in Clients \ promised
<1>1. ASSUME NamedInv, NamedNext PROVE Explained
  <2> SUFFICES ASSUME NEW p \in Processes, IsUp(p), inode[shm_fd[p]].sole, step'[p] = "SIGBUS"
               PROVE  p \in Clients \ promised
    OBVIOUS
  <2> USE NamedAssumption DEF NamedAssumption
  <2>1. step[p] # "SIGBUS"
    BY <1>1, InvParts DEF UpShape
  <2>2. step \in [Processes -> ServerSteps \cup ClientSteps \cup {"off", "SIGBUS"}]
    BY <1>1, InvParts DEF NamedTypeOK
  <2>3. \A q \in Processes : \A there : Goto(q, there) => p # q \/ there = "SIGBUS"
    BY <2>2 DEF Goto
  <2>4. ASSUME NEW s \in Servers, TouchFaults(s), s = p PROVE FALSE
    <3>1. inode[shm_fd[s]].size = SIZE[prog[s]] /\ SIZE[prog[s]] \in 1 .. 3
      BY <1>1, <2>4, InvParts DEF TouchFaults, SoleShape
    <3> QED BY <2>4, <3>1 DEF TouchFaults
  <2>5. ASSUME NEW c \in Clients, CopyFaults(c), c = p PROVE p \in Clients \ promised
    <3>1. inode[shm_fd[p]].size = 0
      BY <2>5 DEF CopyFaults
    <3>2. p \in promised => inode[shm_fd[p]].size > 0
      BY <1>1, InvParts DEF PromiseKept
    <3> QED BY <2>5, <3>1, <3>2
  <2>6. \A q \in Processes : \A there : Goto(q, there) /\ q # p => step'[p] = step[p]
    BY DEF Goto
  <2>7. \/ \E s \in Servers : TouchFaults(s) /\ s = p
        \/ \E c \in Clients : CopyFaults(c) /\ c = p
    <3>1. \A q \in Processes : \A there : Goto(q, there) => q = p /\ there = "SIGBUS"
      BY <2>1, <2>3, <2>6
    <3>2. ~(step' = step)
      BY <2>1
    <3>3. ASSUME NEW s \in Servers,
                 \/ \E g \in ServerPrograms : ShmOpen(s, g)
                 \/ ShmOpenFails(s) \/ Ftruncate(s) \/ MapObject(s) \/ WriteMessage(s)
          PROVE  FALSE
      BY <3>1, <3>2, <3>3
      DEF ShmOpen, ShmOpenFails, Ftruncate, MapObject, WriteMessage, processVars, Processes
    <3>4. ASSUME NEW s \in Servers, ServerFails(s) \/ PressEnter(s) \/ Killed(s) PROVE FALSE
      BY <3>1, <3>4 DEF ServerFails, PressEnter, Killed, Leave, Dies, Ends, Processes
    <3>5. ASSUME NEW c \in Clients,
                 \/ \E g \in ClientPrograms : ClientOpens(c, g)
                 \/ ClientMaps(c) \/ Register(c) \/ CopyToGpu(c) \/ ClientEnds(c)
          PROVE  FALSE
      BY <3>1, <3>5 DEF ClientOpens, ClientMaps, Register, CopyToGpu, ClientEnds, Ends, Processes
    <3>6. \A q \in Processes : TouchFaults(q) \/ CopyFaults(q) => q = p
      BY <3>1 DEF TouchFaults, CopyFaults, Dies, Ends
    <3> QED BY <1>1, <3>3, <3>4, <3>5, <3>6 DEF NamedNext, Processes
  <2> QED BY <2>4, <2>5, <2>7
<1>2. ASSUME NamedInv, UNCHANGED namedVars PROVE Explained
  BY <1>2, InvParts DEF namedVars, processVars, UpShape
<1>3. NamedInv /\ [NamedNext]_namedVars => [Explained]_namedVars
  BY <1>1
<1> QED BY <1>3, NamedInvariant, PTL DEF NamedSpec, FaultsExplained
=============================================================================
