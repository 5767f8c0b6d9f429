---------------------------- MODULE NamedObject ----------------------------
(***************************************************************************)
(* Demos 2 and 3a: servers and clients that meet at one object,            *)
(* /my_shared_mem, with no handshake (demo2_server.cpp, demo2_client.cpp,  *)
(* demo3a_server.cpp, demo3a_client_register_time.cpp and                  *)
(* demo3a_client_throughput.cpp).  Any of the programs may be started at   *)
(* any moment, also a second server while the first is there.              *)
(*                                                                         *)
(* Touching a page past the end of the object is SIGBUS, which no program  *)
(* handles.  The message is on the first page.                             *)
(***************************************************************************)
EXTENDS Naturals

CONSTANTS
  Servers, Clients,  \* slots for processes; each runs many, one by one
  Objects,           \* inodes of /dev/shm
  Nobody             \* no object

ASSUME NamedAssumption == Nobody \notin Objects /\ Servers \cap Clients = {}

ServerPrograms == {"demo2_server", "demo3a_server"}
ClientPrograms == {"demo2_client", "register_time", "throughput"}

\* SIZE of each program, 4 KB, 25 GB and 40 GB, by order.
SIZE == [demo2_server |-> 1, demo2_client |-> 1, throughput |-> 2,
         demo3a_server |-> 3, register_time |-> 3]

VARIABLES
  linked,   \* the object that is called /my_shared_mem
  inode,    \* of each object its size, the text at its start, and two marks of
            \* history: one server and no other has opened it; one was killed over it
  prog,     \* the program each process runs, or "none"
  step,     \* where it is
  shm_fd,   \* the object it has open
  promised, \* history: clients that have opened an object with its message there
  alone     \* history: servers since whose start no other has been started

processVars == <<prog, step, shm_fd>>
historyVars == <<promised, alone>>
namedVars == <<linked, inode, processVars, historyVars>>

Processes == Servers \cup Clients
ServerSteps == {"opened", "sized", "mapped", "touching", "waiting"}
ClientSteps == {"opened", "mapped", "registered", "copied"}

IsUp(p) == prog[p] # "none"

Inodes == [size : 0 .. 3, text : {"", "MESSAGE"}, sole : BOOLEAN, orphan : BOOLEAN]
EmptyInode == [size |-> 0, text |-> "", sole |-> TRUE, orphan |-> FALSE]

NamedInit ==
  /\ linked = Nobody
  /\ inode = [o \in Objects |-> EmptyInode]
  /\ prog = [p \in Processes |-> "none"]
  /\ step = [p \in Processes |-> "off"]
  /\ shm_fd = [p \in Processes |-> Nobody]
  /\ promised = {} /\ alone = {}

Goto(p, there) == step' = [step EXCEPT ![p] = there]

\* The process ends and its descriptor is closed.
Ends(p, how) ==
  /\ Goto(p, how)
  /\ promised' = promised \ {p} /\ alone' = alone \ {p}
  /\ prog' = [prog EXCEPT ![p] = "none"]
  /\ shm_fd' = [shm_fd EXCEPT ![p] = Nobody]

\* The kernel takes back an object with no name that nobody has open.
Reclaim(files) ==
  inode' = [o \in Objects |->
    IF o # linked' /\ \A p \in Processes : shm_fd'[p] # o THEN EmptyInode ELSE files[o]]

-----------------------------------------------------------------------------
\* shm_open(O_CREAT) of a server: the object of that name, or a new one.
ShmOpen(s, g) ==
  /\ ~IsUp(s)
  /\ \E o \in Objects :
       /\ IF linked # Nobody THEN o = linked ELSE \A p \in Processes : shm_fd[p] # o
       /\ linked' = o
       /\ inode' = [inode EXCEPT ![o].sole = (linked = Nobody)]
       /\ shm_fd' = [shm_fd EXCEPT ![s] = o]
  /\ prog' = [prog EXCEPT ![s] = g]
  /\ Goto(s, "opened")
  /\ alone' = IF \E r \in Servers : IsUp(r) THEN {} ELSE {s}
  /\ UNCHANGED promised

\* demo3a_server unlinks the name even if it could not open it.
ShmOpenFails(s) ==
  /\ ~IsUp(s)
  /\ linked' = Nobody
  /\ alone' = {}
  /\ UNCHANGED <<processVars, promised>>
  /\ Reclaim(inode)

Ftruncate(s) ==
  /\ step[s] = "opened"
  /\ inode' = [inode EXCEPT ![shm_fd[s]].size = SIZE[prog[s]]]
  /\ Goto(s, "sized")
  /\ UNCHANGED <<linked, prog, shm_fd, historyVars>>

\* Mutant: a server that closes its object and forgets the name.
LeaveOnly(s) ==
  /\ Ends(s, "off")
  /\ UNCHANGED linked
  /\ Reclaim(inode)

\* Mutant: the object is emptied first, as the server of demo 4b does.
LeaveEmptied(s) ==
  /\ linked' = Nobody
  /\ Ends(s, "off")
  /\ Reclaim([inode EXCEPT ![shm_fd[s]].size = 0])

\* A server closes its object and unlinks the name, whoever's that is by now.
Leave(s) ==
  /\ linked' = Nobody
  /\ Ends(s, "off")
  /\ Reclaim(inode)

\* ftruncate, aligned_alloc, cudaHostRegister or mmap fails.
ServerFails(s) == step[s] \in {"opened", "sized"} /\ Leave(s)

\* Mutant: the name is unlinked as soon as the object is mapped.
MapAndUnlink(s) ==
  /\ step[s] = "sized"
  /\ linked' = Nobody
  /\ IF prog[s] = "demo2_server" THEN Goto(s, "mapped") /\ UNCHANGED inode
     ELSE Goto(s, "touching") /\ inode' = [inode EXCEPT ![shm_fd[s]].text = ""]
  /\ UNCHANGED <<prog, shm_fd, historyVars>>

\* mmap.  demo3a_server goes on to zero the first byte of every 4 MB, of which the
\* first is the message's.
MapObject(s) ==
  /\ step[s] = "sized"
  /\ IF prog[s] = "demo2_server" THEN Goto(s, "mapped") /\ UNCHANGED inode
     ELSE Goto(s, "touching") /\ inode' = [inode EXCEPT ![shm_fd[s]].text = ""]
  /\ UNCHANGED <<linked, prog, shm_fd, historyVars>>

\* The process is ended by a signal: nothing is unlinked.
Dies(p, how) ==
  /\ Ends(p, how)
  /\ UNCHANGED linked
  /\ Reclaim(IF p \in Servers THEN [inode EXCEPT ![shm_fd[p]].orphan = TRUE] ELSE inode)

\* The object has been cut short under the warm-up loop.
TouchFaults(s) ==
  /\ step[s] = "touching"
  /\ inode[shm_fd[s]].size < SIZE[prog[s]]
  /\ Dies(s, "SIGBUS")

\* strcpy of the message.
WriteMessage(s) ==
  /\ step[s] \in {"mapped", "touching"}
  /\ inode' = [inode EXCEPT ![shm_fd[s]].text = "MESSAGE"]
  /\ Goto(s, "waiting")
  /\ UNCHANGED <<linked, prog, shm_fd, historyVars>>

\* Enter has been pressed.
PressEnter(s) == step[s] = "waiting" /\ Leave(s)

Killed(s) == IsUp(s) /\ Dies(s, "off")

-----------------------------------------------------------------------------
\* shm_open of a client; if there is no object it ends.
ClientOpens(c, g) ==
  /\ ~IsUp(c)
  /\ linked # Nobody
  /\ prog' = [prog EXCEPT ![c] = g]
  /\ shm_fd' = [shm_fd EXCEPT ![c] = linked]
  /\ Goto(c, "opened")
  /\ promised' = IF inode[linked].text = "MESSAGE" THEN promised \cup {c} ELSE promised
  /\ UNCHANGED <<linked, inode, alone>>

\* mmap, which takes any size.
ClientMaps(c) ==
  /\ step[c] = "opened"
  /\ Goto(c, "mapped")
  /\ UNCHANGED <<linked, inode, prog, shm_fd, historyVars>>

\* cudaHostRegister pins every page, and takes no page that is not there.
Register(c) ==
  /\ step[c] = "mapped" /\ prog[c] # "demo2_client"
  /\ inode[shm_fd[c]].size >= SIZE[prog[c]]
  /\ Goto(c, "registered")
  /\ UNCHANGED <<linked, inode, prog, shm_fd, historyVars>>

\* demo2_client copies straight from its mapping, throughput once it is pinned.
AboutToCopy(c) ==
  \/ step[c] = "mapped" /\ prog[c] = "demo2_client"
  \/ step[c] = "registered" /\ prog[c] = "throughput"

CopyToGpu(c) ==
  /\ AboutToCopy(c)
  /\ inode[shm_fd[c]].size > 0
  /\ Goto(c, "copied")
  /\ UNCHANGED <<linked, inode, prog, shm_fd, historyVars>>

\* The object has no page yet.
CopyFaults(c) ==
  /\ AboutToCopy(c)
  /\ inode[shm_fd[c]].size = 0
  /\ Dies(c, "SIGBUS")

\* The message is printed, the registration has been timed, a call has failed, or the
\* client was killed.
ClientEnds(c) ==
  /\ IsUp(c)
  /\ Ends(c, "off")
  /\ UNCHANGED linked
  /\ Reclaim(inode)

-----------------------------------------------------------------------------
NamedNext ==
  \/ \E s \in Servers :
       \/ \E g \in ServerPrograms : ShmOpen(s, g)
       \/ ShmOpenFails(s)
       \/ Ftruncate(s) \/ ServerFails(s) \/ MapObject(s)
       \/ TouchFaults(s) \/ WriteMessage(s) \/ PressEnter(s)
       \/ Killed(s)
  \/ \E c \in Clients :
       \/ \E g \in ClientPrograms : ClientOpens(c, g)
       \/ ClientMaps(c) \/ Register(c)
       \/ CopyToGpu(c) \/ CopyFaults(c) \/ ClientEnds(c)

NamedSpec == NamedInit /\ [][NamedNext]_namedVars

-----------------------------------------------------------------------------
\* The variables have their types.
NamedTypeOK ==
  /\ linked \in Objects \cup {Nobody}
  /\ inode \in [Objects -> Inodes]
  /\ prog \in [Processes -> ServerPrograms \cup ClientPrograms \cup {"none"}]
  /\ step \in [Processes -> ServerSteps \cup ClientSteps \cup {"off", "SIGBUS"}]
  /\ shm_fd \in [Processes -> Objects \cup {Nobody}]
  /\ \A p \in Processes : IsUp(p) <=> shm_fd[p] # Nobody
  /\ promised \in SUBSET Clients /\ alone \in SUBSET Servers

\* Every way out of a server unlinks the name: what is linked belongs to a server
\* that is up, or was left by one that was killed.
NameHasServer ==
  linked # Nobody => inode[linked].orphan \/ \E s \in Servers : shm_fd[s] = linked

\* While a server is there its object can be opened by name, as long as nobody
\* starts another server of either demo: that one's end would unlink it.
NameKept == \A s \in alone : linked = shm_fd[s]

\* A client that opens the object once the message is in it finds the message at
\* any later time, though the server may end, unlink the name and be followed by
\* others: unless a second server opens the same object.
PromiseKept ==
  \A c \in promised :
    inode[shm_fd[c]].sole =>
      inode[shm_fd[c]].size > 0 /\ inode[shm_fd[c]].text = "MESSAGE"

\* SIGBUS, over an object that one server made and no other opened, hits only a
\* client that has opened it before the message was there.
FaultsExplained ==
  [][\A p \in Processes :
       IsUp(p) /\ inode[shm_fd[p]].sole /\ step'[p] = "SIGBUS" =>
         p \in Clients \ promised]_namedVars
=============================================================================
