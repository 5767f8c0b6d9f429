---------------------------- MODULE SysVSegment ----------------------------
(***************************************************************************)
(* Demo 1 (demo1_server.cpp, demo1_client.cpp): writers and readers of the *)
(* System V segment with key 1234, started in any order and number.        *)
(***************************************************************************)

CONSTANTS
  Writers, Readers,  \* slots for processes; each runs many, one by one
  Ids,               \* segment identifiers
  NoId               \* no segment

ASSUME SysVAssumption == NoId \notin Ids /\ Writers \cap Readers = {}

VARIABLES
  key,      \* the segment that key 1234 finds
  segment,  \* of each segment what is written there, "", "MESSAGE", or "absent"
  stage,    \* where each process is
  id,       \* the segment it has found
  told      \* history: readers that found a segment with the message in it

sysVVars == <<key, segment, stage, id, told>>

Users == Writers \cup Readers
Attached == {p \in Users : stage[p] \in {"attached", "used"}}

SysVInit ==
  /\ key = NoId
  /\ segment = [i \in Ids |-> "absent"]
  /\ stage = [p \in Users |-> "off"]
  /\ id = [p \in Users |-> NoId]
  /\ told = {}

\* Process p goes to its next stage.
To(p, there) == stage' = [stage EXCEPT ![p] = there]

\* Process p ends; what it leaves behind is remembered of a reader that is done.
Off(p) ==
  /\ To(p, "off")
  /\ id' = [id EXCEPT ![p] = NoId]

\* A segment without a key goes when nobody is attached to it.
Destroys ==
  segment' = [i \in Ids |->
    IF i # key' /\ \A p \in Attached' : id[p] # i THEN "absent" ELSE segment[i]]

-----------------------------------------------------------------------------
\* Mutant: the writer clears what it finds.
WriterClears(w) ==
  /\ stage[w] = "off"
  /\ \E i \in Ids :
       /\ IF key # NoId THEN i = key ELSE segment[i] = "absent" /\ \A p \in Users : id[p] # i
       /\ segment' = [segment EXCEPT ![i] = ""]
       /\ key' = i
       /\ id' = [id EXCEPT ![w] = i]
  /\ To(w, "found")
  /\ UNCHANGED told

\* The writer's shmget(IPC_CREAT): identifiers are not used again.
WriterShmget(w) ==
  /\ stage[w] = "off"
  /\ \E i \in Ids :
       /\ IF key # NoId THEN i = key /\ UNCHANGED segment
          ELSE /\ segment[i] = "absent" /\ \A p \in Users : id[p] # i
               /\ segment' = [segment EXCEPT ![i] = ""]
       /\ key' = i
       /\ id' = [id EXCEPT ![w] = i]
  /\ To(w, "found")
  /\ UNCHANGED told

\* The reader's shmget; without a segment it ends.
ReaderShmget(r) ==
  /\ stage[r] \in {"off", "done"}
  /\ key # NoId
  /\ id' = [id EXCEPT ![r] = key]
  /\ told' = IF segment[key] = "MESSAGE" THEN told \cup {r} ELSE told \ {r}
  /\ To(r, "found")
  /\ UNCHANGED <<key, segment>>

\* shmat, also of a segment that has lost its key and has somebody attached.
Shmat(p) ==
  /\ stage[p] = "found"
  /\ segment[id[p]] # "absent"
  /\ To(p, "attached")
  /\ UNCHANGED <<key, segment, id, told>>

\* strcpy, or the reader's print.
Use(p) ==
  /\ stage[p] = "attached"
  /\ segment' = IF p \in Writers THEN [segment EXCEPT ![id[p]] = "MESSAGE"] ELSE segment
  /\ To(p, "used")
  /\ UNCHANGED <<key, id, told>>

\* shmdt; the writer ends.
Shmdt(p) ==
  /\ stage[p] = "used"
  /\ IF p \in Writers THEN Off(p) ELSE To(p, "detached") /\ UNCHANGED id
  /\ UNCHANGED <<key, told>>
  /\ Destroys

\* Mutant: the reader ends without shmctl.
NoRmid(r) ==
  /\ stage[r] = "detached"
  /\ To(r, "done")
  /\ UNCHANGED <<key, segment, id, told>>

\* shmctl(IPC_RMID) takes the key from the segment, if it is still there.
Rmid(r) ==
  /\ stage[r] = "detached"
  /\ key' = IF key = id[r] THEN NoId ELSE key
  /\ To(r, "done")
  /\ UNCHANGED <<id, told>>
  /\ Destroys

\* The process is killed, or a call fails: shmat does if the segment is gone.
UserEnds(p) ==
  /\ stage[p] \notin {"off", "done"}
  /\ Off(p)
  /\ UNCHANGED <<key, told>>
  /\ Destroys

SysVNext ==
  \/ \E w \in Writers : WriterShmget(w)
  \/ \E r \in Readers : ReaderShmget(r) \/ Rmid(r)
  \/ \E p \in Users : Shmat(p) \/ Use(p) \/ Shmdt(p) \/ UserEnds(p)

SysVSpec == SysVInit /\ [][SysVNext]_sysVVars

-----------------------------------------------------------------------------
\* The variables have their types.
SysVTypeOK ==
  /\ key \in Ids \cup {NoId}
  /\ segment \in [Ids -> {"absent", "", "MESSAGE"}]
  /\ stage \in [Users -> {"off", "found", "attached", "used", "detached", "done"}]
  /\ id \in [Users -> Ids \cup {NoId}]
  /\ told \in SUBSET Readers

\* A reader that finds the segment after the message is in it reads the message,
\* or nothing if other readers destroy the segment before it is attached; one that
\* comes earlier may read an empty segment, and destroys it under the writer.
ToldIsRead ==
  \A r \in told : r \in Attached => segment[id[r]] = "MESSAGE"

\* What a reader has read is never found again, and is gone as soon as nobody is
\* attached to it, whoever was killed or came in between.
ReadIsGone ==
  \A r \in Readers :
    stage[r] = "done" =>
      /\ key # id[r]
      /\ segment[id[r]] = "absent" \/ \E p \in Attached : id[p] = id[r]
=============================================================================
