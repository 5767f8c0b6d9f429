---------------------------- MODULE Demo4aServer ----------------------------
(***************************************************************************)
(* Demo 4a (demo4a/src/server.cpp, client.cpp): gRPC handlers that create  *)
(* an object named after the clock, fill it, and insert it into the        *)
(* allocations table; main()'s shutdown; clients that open what the reply  *)
(* names.                                                                  *)
(*                                                                         *)
(* The insertion does not take alloc_mutex.  Two that overlap are a data   *)
(* race on an unordered_map: from then on the table may lose any entry.    *)
(* That it crashes the server is a case of ServerKilled, that it sends a   *)
(* handler round in circles one of a handler that takes no more steps.     *)
(***************************************************************************)
EXTENDS Naturals

CONSTANTS
  Callers,    \* client processes, each with the gRPC thread of its call
  MaxClock,   \* the bound on the clock
  None        \* no name

ASSUME Demo4aAssumption == MaxClock \in Nat \ {0} /\ None \notin 1 .. MaxClock

VARIABLES
  main,         \* main(): "serving", "draining" in Shutdown(), "done", "killed"
  clock,        \* system_clock, in ticks
  object,       \* /dev/shm: what /shm_<tick> is, "absent", "created" or "filled"
  allocations,  \* the names in the table
  at,           \* where each caller is, first in the handler, then in the client
  shm_name,     \* the name it works with
  started,      \* history: when this server process started
  raced         \* history: two of its insertions have overlapped

demo4aVars == <<main, clock, object, allocations, at, shm_name, started, raced>>

Times == 1 .. MaxClock

\* Where a handler is, and where a client is that has its reply.
InHandler == {"creating", "created", "filled", "inserting"}
InClient == {"granted", "mapped"}

Demo4aInit ==
  /\ main = "serving"
  /\ clock = 1 /\ started = 1
  /\ object = [t \in Times |-> "absent"]
  /\ allocations = {}
  /\ at = [c \in Callers |-> "idle"]
  /\ shm_name = [c \in Callers |-> None]
  /\ raced = FALSE

Tick ==
  /\ clock < MaxClock
  /\ clock' = clock + 1
  /\ UNCHANGED <<main, object, allocations, at, shm_name, started, raced>>

-----------------------------------------------------------------------------
\* c is at p, with name s.
Goes(c, p, s) ==
  /\ at' = [at EXCEPT ![c] = p]
  /\ shm_name' = [shm_name EXCEPT ![c] = s]

\* A client calls and its handler begins.
CallArrives(c) ==
  /\ main = "serving"
  /\ at[c] = "idle"
  /\ Goes(c, "creating", None)
  /\ UNCHANGED <<main, clock, object, allocations, started, raced>>

\* Mutant: shm_open without O_EXCL.
CreateShared(c) ==
  /\ at[c] = "creating"
  /\ object' = [object EXCEPT ![clock] = "created"]
  /\ Goes(c, "created", clock)
  /\ UNCHANGED <<main, clock, allocations, started, raced>>

\* generate_unique_shm_name and shm_open(O_CREAT | O_EXCL).
CreateObject(c) ==
  /\ at[c] = "creating"
  /\ object[clock] = "absent"
  /\ object' = [object EXCEPT ![clock] = "created"]
  /\ Goes(c, "created", clock)
  /\ UNCHANGED <<main, clock, allocations, started, raced>>

\* EEXIST: once more round the loop.
Retry(c) ==
  /\ at[c] = "creating"
  /\ object[clock] # "absent"
  /\ UNCHANGED demo4aVars

\* Mutant: the handler goes on to its reply.
RequestFailsUnseen(c) ==
  /\ at[c] \in {"creating", "created"}
  /\ object' = [t \in Times |-> IF t = shm_name[c] THEN "absent" ELSE object[t]]
  /\ Goes(c, "granted", shm_name[c])
  /\ UNCHANGED <<main, clock, allocations, started, raced>>

\* shm_open fails otherwise, or a later call does and what was done is undone.
RequestFails(c) ==
  /\ at[c] \in {"creating", "created"}
  /\ object' = [t \in Times |-> IF t = shm_name[c] THEN "absent" ELSE object[t]]
  /\ Goes(c, "idle", None)
  /\ UNCHANGED <<main, clock, allocations, started, raced>>

\* Mutant: the message is left for later.
FillLater(c) ==
  /\ at[c] = "created"
  /\ Goes(c, "filled", shm_name[c])
  /\ UNCHANGED <<main, clock, object, allocations, started, raced>>

\* ftruncate, mmap and strcpy of the message.
Fill(c) ==
  /\ at[c] = "created"
  /\ object' = [object EXCEPT ![shm_name[c]] = "filled"]
  /\ Goes(c, "filled", shm_name[c])
  /\ UNCHANGED <<main, clock, allocations, started, raced>>

\* allocations[shm_name] = ... begins, whoever else is at it.
BeginInsert(c) ==
  /\ at[c] = "filled"
  /\ raced' = (raced \/ \E d \in Callers : at[d] = "inserting")
  /\ Goes(c, "inserting", shm_name[c])
  /\ UNCHANGED <<main, clock, object, allocations, started>>

\* ... and ends, with the entry in the table if no two have overlapped.  The reply
\* carries the name.
EndInsert(c) ==
  /\ at[c] = "inserting"
  /\ IF raced THEN allocations' \in SUBSET (allocations \cup {shm_name[c]})
     ELSE allocations' = allocations \cup {shm_name[c]}
  /\ Goes(c, "granted", shm_name[c])
  /\ UNCHANGED <<main, clock, object, started, raced>>

\* The client maps the object of its name, if there is one ...
OpenAndMap(c) ==
  /\ at[c] = "granted"
  /\ object[shm_name[c]] # "absent"
  /\ Goes(c, "mapped", shm_name[c])
  /\ UNCHANGED <<main, clock, object, allocations, started, raced>>

\* ... and ends: shm_open or mmap has failed, or it has printed the message.
CallerEnds(c) ==
  /\ at[c] \in InClient
  /\ Goes(c, "idle", None)
  /\ UNCHANGED <<main, clock, object, allocations, started, raced>>

-----------------------------------------------------------------------------
\* SIGINT has set running to 0 and main() calls Shutdown().
Shutdown ==
  /\ main = "serving"
  /\ main' = "draining"
  /\ UNCHANGED <<clock, object, allocations, at, shm_name, started, raced>>

\* Mutant: cleanupAll() does not wait for Shutdown().
CleanupAtOnce ==
  /\ main = "draining"
  /\ main' = "done"
  /\ object' = [t \in Times |-> IF t \in allocations THEN "absent" ELSE object[t]]
  /\ allocations' = {}
  /\ UNCHANGED <<clock, at, shm_name, started, raced>>

\* Shutdown() returns when the handlers have; cleanupAll() unlinks what it finds.
CleanupAll ==
  /\ main = "draining"
  /\ \A c \in Callers : at[c] \notin InHandler
  /\ main' = "done"
  /\ object' = [t \in Times |-> IF t \in allocations THEN "absent" ELSE object[t]]
  /\ allocations' = {}
  /\ UNCHANGED <<clock, at, shm_name, started, raced>>

\* Any other signal ends the process: its calls fail and its objects stay.
ServerKilled ==
  /\ main \in {"serving", "draining"}
  /\ main' = "killed"
  /\ allocations' = {}
  /\ at' = [c \in Callers |-> IF at[c] \in InHandler THEN "idle" ELSE at[c]]
  /\ shm_name' = [c \in Callers |-> IF at[c] \in InHandler THEN None ELSE shm_name[c]]
  /\ UNCHANGED <<clock, object, started, raced>>

\* The server is started again, which takes longer than a tick.
Restart ==
  /\ main \in {"done", "killed"}
  /\ clock < MaxClock
  /\ main' = "serving"
  /\ clock' = clock + 1 /\ started' = clock + 1
  /\ raced' = FALSE
  /\ UNCHANGED <<object, allocations, at, shm_name>>

\* Nobody starts it again.
StaysDown == main \in {"done", "killed"} /\ UNCHANGED demo4aVars

Demo4aNext ==
  \/ Tick
  \/ \E c \in Callers :
       \/ CallArrives(c)
       \/ CreateObject(c) \/ Retry(c) \/ RequestFails(c)
       \/ Fill(c) \/ BeginInsert(c) \/ EndInsert(c)
       \/ OpenAndMap(c) \/ CallerEnds(c)
  \/ Shutdown
  \/ CleanupAll
  \/ ServerKilled
  \/ Restart
  \/ StaysDown

Demo4aSpec == Demo4aInit /\ [][Demo4aNext]_demo4aVars

-----------------------------------------------------------------------------
\* The variables have their types.
Demo4aTypeOK ==
  /\ main \in {"serving", "draining", "done", "killed"}
  /\ clock \in Times /\ started \in 1 .. clock
  /\ object \in [Times -> {"absent", "created", "filled"}]
  /\ allocations \in SUBSET Times
  /\ at \in [Callers -> InHandler \cup InClient \cup {"idle"}]
  /\ shm_name \in [Callers -> Times \cup {None}]
  /\ \A c \in Callers : at[c] \in {"idle", "creating"} <=> shm_name[c] = None
  /\ raced \in BOOLEAN

\* "All shared memory cleaned up": whatever the requests that were running at the
\* signal, nothing this server made is left when main() returns, unless two
\* insertions into the unguarded table have overlapped.
CleanUnlessRaced ==
  main = "done" /\ ~raced => \A t \in started .. MaxClock : object[t] = "absent"

\* A name in a reply can be opened and has its message until the server's main()
\* returns, also after the table has lost it, and when the server is killed.
GrantOpenable ==
  \A c \in Callers :
    at[c] = "granted" /\ main # "done" /\ shm_name[c] >= started =>
      object[shm_name[c]] = "filled"

\* The clock may give two handlers one name: no two clients are told the same.
GrantsApart ==
  \A c, d \in Callers :
    c # d /\ at[c] \in InClient /\ at[d] \in InClient => shm_name[c] # shm_name[d]
=============================================================================
