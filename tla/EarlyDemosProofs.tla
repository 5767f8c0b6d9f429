-------------------------- MODULE EarlyDemosProofs --------------------------
(***************************************************************************)
(* What the programs of demos 1 to 4a can rely on, for any number of       *)
(* processes, segments and objects, however long the clock runs: demo 1,   *)
(* demo 4a, and the three together (demos 2 and 3a have NamedObjectProofs).*)
(***************************************************************************)
EXTENDS EarlyDemos, NamedObjectProofs

-----------------------------------------------------------------------------
\*                                 Demo 1

\* Who has found a segment knows its identifier; who is attached keeps it there;
\* what the key finds is there.
SysVShape ==
  /\ \A p \in Users : stage[p] # "off" => id[p] \in Ids
  /\ \A p \in Attached : segment[id[p]] # "absent"
  /\ key # NoId => segment[key] # "absent"

\* The message a reader was told of stays until the segment goes.
ToldStays ==
  \A r \in told : stage[r] # "off" => segment[id[r]] \in {"MESSAGE", "absent"}

SysVInv == SysVTypeOK /\ SysVShape /\ ToldStays /\ ReadIsGone

-----------------------------------------------------------------------------
\* Destroys keeps what has the key or somebody attached, and makes the rest absent.
LEMMA DestroysKeeps ==
  ASSUME SysVTypeOK, Destroys, key' \in Ids \cup {NoId}
  PROVE  /\ segment' \in [Ids -> {"absent", "", "MESSAGE"}]
         /\ \A i \in Ids : segment'[i] = segment[i] \/ segment'[i] = "absent"
         /\ \A i \in Ids : (i = key' \/ \E p \in Attached' : id[p] = i) => segment'[i] = segment[i]
         /\ \A i \in Ids : i # key' /\ (\A p \in Attached' : id[p] # i) => segment'[i] = "absent"
  BY DEF Destroys, SysVTypeOK

\* The invariant holds when there is no segment.
LEMMA SysVInitInv == SysVInit => SysVInv
  BY DEF SysVInit, SysVInv, SysVTypeOK, SysVShape, ToldStays, ReadIsGone, Attached, Users

\* Every step of every process keeps it.
LEMMA SysVStep == SysVInv /\ [SysVNext]_sysVVars => SysVInv'
<1> SUFFICES ASSUME SysVInv, [SysVNext]_sysVVars PROVE SysVInv'
  OBVIOUS
<1> USE SysVAssumption DEF SysVAssumption, SysVInv
<1>0. Readers \subseteq Users /\ Writers \subseteq Users /\ Attached \subseteq Users
  BY DEF Users, Attached
<1>1. ASSUME NEW w \in Writers, WriterShmget(w) PROVE SysVInv'
  <2>1. PICK i \in Ids :
          /\ IF key # NoId THEN i = key /\ UNCHANGED segment
             ELSE /\ segment[i] = "absent" /\ \A q \in Users : id[q] # i
                  /\ segment' = [segment EXCEPT ![i] = ""]
          /\ key' = i
          /\ id' = [id EXCEPT ![w] = i]
    BY <1>1 DEF WriterShmget
  <2>2. stage[w] = "off" /\ stage' = [stage EXCEPT ![w] = "found"] /\ told' = told
    BY <1>1 DEF WriterShmget, To
  <2>3. SysVTypeOK'
    BY <2>1, <2>2 DEF SysVTypeOK
  <2>4. Attached' = Attached /\ w \notin Attached
    BY <2>2 DEF Attached
  <2>5. \A q \in Users \ {w} : id'[q] = id[q] /\ stage'[q] = stage[q]
    BY <2>1, <2>2 DEF SysVTypeOK
  <2>6. \A q \in Users \ {w} :
          stage[q] # "off" => id[q] \in Ids /\ segment'[id[q]] = segment[id[q]]
    BY <2>1 DEF SysVTypeOK, SysVShape
  <2>7. SysVShape'
    <3>1. \A q \in Attached : q \in Users \ {w} /\ stage[q] # "off"
      BY <2>4 DEF Attached
    <3>2. \A q \in Attached' : segment'[id'[q]] # "absent"
      BY <2>4, <2>5, <2>6, <3>1 DEF SysVShape
    <3>3. \A q \in Users : stage'[q] # "off" => id'[q] \in Ids
      BY <2>1, <2>5, <2>6 DEF SysVTypeOK
    <3>4. segment'[key'] # "absent"
      BY <2>1 DEF SysVTypeOK, SysVShape
    <3> QED BY <3>2, <3>3, <3>4 DEF SysVShape
  <2>9. ToldStays'
    <3>1. told \subseteq Users \ {w}
      BY <1>0 DEF SysVTypeOK
    <3> QED BY <2>2, <2>5, <2>6, <3>1 DEF ToldStays
  <2>8. ReadIsGone'
    <3>1. \A r \in Readers : r \in Users \ {w}
      BY <1>0
    <3>2. ASSUME NEW r \in Readers, stage[r] = "done" PROVE key' # id[r]
      BY <2>1, <3>1, <3>2 DEF ReadIsGone
    <3>3. \A q \in Attached : q \in Users \ {w}
      BY <1>0, <2>4
    <3> QED BY <2>4, <2>5, <2>6, <3>1, <3>2, <3>3 DEF ReadIsGone
  <2> QED BY <2>3, <2>7, <2>8, <2>9
<1>2. ASSUME NEW r \in Readers, ReaderShmget(r) PROVE SysVInv'
  <2>1. SysVTypeOK'
    BY <1>2 DEF ReaderShmget, To, SysVTypeOK
  <2>2. SysVShape'
    BY <1>2 DEF ReaderShmget, To, SysVTypeOK, SysVShape, Attached
  <2>3. ToldStays'
    BY <1>2 DEF ReaderShmget, To, SysVTypeOK, ToldStays, Users
  <2>4. ReadIsGone'
    BY <1>2 DEF ReaderShmget, To, SysVTypeOK, ReadIsGone, Attached, Users
  <2> QED BY <2>1, <2>2, <2>3, <2>4
<1>3. ASSUME NEW r \in Readers, Rmid(r) PROVE SysVInv'
  <2>1. key' \in Ids \cup {NoId}
    BY <1>3 DEF Rmid, SysVTypeOK
  <2>2. SysVTypeOK'
    BY <1>3, DestroysKeeps DEF Rmid, To, SysVTypeOK
  <2>3. Attached' = Attached /\ id' = id
    BY <1>3 DEF Rmid, To, Attached
  <2>4. \A q \in Users : stage[q] # "off" => id[q] \in Ids
    BY DEF SysVShape
  <2>5. stage[r] = "detached" /\ \A q \in Users \ {r} : stage'[q] = stage[q]
    BY <1>3 DEF Rmid, To
  <2>6. /\ \A i \in Ids : segment'[i] = segment[i] \/ segment'[i] = "absent"
        /\ \A i \in Ids : (i = key' \/ \E q \in Attached : id[q] = i) => segment'[i] = segment[i]
        /\ \A i \in Ids : i # key' /\ (\A q \in Attached : id[q] # i) => segment'[i] = "absent"
    BY <1>3, <2>1, <2>3, DestroysKeeps DEF Rmid
  <2>7. key' \in {key, NoId} /\ key' # id[r]
    BY <1>0, <1>3, <2>4 DEF Rmid
  <2>8. SysVShape'
    <3>1. \A q \in Attached : id[q] \in Ids
      BY <2>4 DEF Attached
    <3>2. \A q \in Attached' : segment'[id'[q]] # "absent"
      BY <2>3, <2>6, <3>1 DEF SysVShape
    <3>3. key' # NoId => segment'[key'] # "absent"
      BY <2>1, <2>6, <2>7 DEF SysVShape
    <3>4. \A q \in Users : stage'[q] # "off" => id'[q] \in Ids
      BY <2>3, <2>4, <2>5
    <3> QED BY <3>2, <3>3, <3>4 DEF SysVShape
  <2>9. ToldStays'
    BY <1>0, <1>3, <2>4, <2>5, <2>6 DEF Rmid, SysVTypeOK, ToldStays
  <2>10. ReadIsGone'
    <3> SUFFICES ASSUME NEW q \in Readers, stage'[q] = "done"
                 PROVE  /\ key' # id'[q]
                        /\ segment'[id'[q]] = "absent" \/ \E x \in Attached' : id'[x] = id'[q]
      BY DEF ReadIsGone
    <3>1. id[q] \in Ids
      BY <1>0, <2>4, <2>5
    <3>2. key' # id[q]
      BY <1>0, <2>5, <2>7, <3>1 DEF ReadIsGone
    <3> QED BY <2>3, <2>6, <3>1, <3>2
  <2> QED BY <2>2, <2>8, <2>9, <2>10
<1>4. ASSUME NEW p \in Users, Shmat(p) PROVE SysVInv'
  <2>1. SysVTypeOK' /\ UNCHANGED <<key, segment, id, told>>
    BY <1>4 DEF Shmat, To, SysVTypeOK
  <2>2. Attached' = Attached \cup {p} /\ segment[id[p]] # "absent"
    BY <1>4 DEF Shmat, To, SysVTypeOK, Attached
  <2>3. \A q \in Users : (stage'[q] = "off" <=> stage[q] = "off")
                         /\ (stage'[q] = "done" <=> stage[q] = "done")
    BY <1>4 DEF Shmat, To
  <2>4. SysVShape'
    BY <2>1, <2>2, <2>3 DEF SysVShape
  <2>5. ToldStays'
    BY <1>0, <2>1, <2>3 DEF SysVTypeOK, ToldStays
  <2>6. ReadIsGone'
    BY <1>0, <2>1, <2>2, <2>3 DEF ReadIsGone
  <2> QED BY <2>1, <2>4, <2>5, <2>6
<1>5. ASSUME NEW p \in Users, Use(p) PROVE SysVInv'
  <2>1. p \in Attached /\ id[p] \in Ids
    BY <1>5 DEF Use, SysVShape, Attached
  <2>2. SysVTypeOK' /\ UNCHANGED <<key, id, told>>
    BY <1>5 DEF Use, To, SysVTypeOK
  <2>3. Attached' = Attached
    BY <1>5 DEF Use, To, Attached
  <2>4. /\ \A i \in Ids : segment'[i] = segment[i] \/ segment'[i] = "MESSAGE"
        /\ \A i \in Ids \ {id[p]} : segment'[i] = segment[i]
    BY <1>5 DEF Use
  <2>5. \A q \in Users : (stage'[q] = "off" <=> stage[q] = "off")
                         /\ (stage'[q] = "done" <=> stage[q] = "done")
    BY <1>5 DEF Use, To
  <2>6. \A q \in Users : stage[q] # "off" => id[q] \in Ids
    BY DEF SysVShape
  <2>7. SysVShape'
    <3>1. \A q \in Attached : id[q] \in Ids
      BY <2>6 DEF Attached
    <3> QED BY <2>2, <2>3, <2>4, <2>5, <3>1 DEF SysVTypeOK, SysVShape
  <2>8. ToldStays'
    BY <1>0, <2>2, <2>4, <2>5, <2>6 DEF SysVTypeOK, ToldStays
  <2>9. ReadIsGone'
    <3> SUFFICES ASSUME NEW r \in Readers, stage'[r] = "done"
                 PROVE  /\ key' # id'[r]
                        /\ segment'[id'[r]] = "absent" \/ \E q \in Attached' : id'[q] = id'[r]
      BY DEF ReadIsGone
    <3>1. stage[r] = "done" /\ id[r] \in Ids
      BY <1>0, <2>5, <2>6
    <3> QED BY <2>1, <2>2, <2>3, <2>4, <3>1 DEF ReadIsGone
  <2> QED BY <2>2, <2>7, <2>8, <2>9
<1>6. ASSUME NEW p \in Users, Shmdt(p) \/ UserEnds(p) PROVE SysVInv'
  <2>1. key' = key /\ told' = told /\ Destroys
    BY <1>6 DEF Shmdt, UserEnds
  <2>2. PICK there \in {"off", "detached"} :
          /\ stage' = [stage EXCEPT ![p] = there]
          /\ id' = IF there = "off" THEN [id EXCEPT ![p] = NoId] ELSE id
          /\ stage[p] \notin {"off", "done"}
    BY <1>6 DEF Shmdt, UserEnds, To, Off
  <2>3. key' \in Ids \cup {NoId}
    BY <2>1 DEF SysVTypeOK
  <2>4. SysVTypeOK'
    BY <2>1, <2>2, DestroysKeeps DEF SysVTypeOK
  <2>5. Attached' = Attached \ {p} /\ \A q \in Users \ {p} : id'[q] = id[q] /\ stage'[q] = stage[q]
    BY <2>2 DEF SysVTypeOK, Attached
  <2>6. /\ \A i \in Ids : segment'[i] = segment[i] \/ segment'[i] = "absent"
        /\ \A i \in Ids : (i = key \/ \E q \in Attached' : id[q] = i) => segment'[i] = segment[i]
        /\ \A i \in Ids : i # key /\ (\A q \in Attached' : id[q] # i) => segment'[i] = "absent"
    BY <2>1, <2>3, DestroysKeeps
  <2>7. \A q \in Users : stage[q] # "off" => id[q] \in Ids
    BY DEF SysVShape
  <2>8. SysVShape'
    <3>1. \A q \in Users : stage'[q] # "off" => id'[q] \in Ids /\ stage[q] # "off" /\ id'[q] = id[q]
      BY <2>2, <2>7 DEF SysVTypeOK
    <3>2. \A q \in Attached' : q \in Attached /\ id[q] \in Ids /\ id'[q] = id[q]
      BY <2>5, <2>7 DEF Attached
    <3>3. \A q \in Attached' : segment'[id'[q]] # "absent"
      BY <2>6, <3>2 DEF SysVShape
    <3> QED BY <2>1, <2>3, <2>6, <3>1, <3>3 DEF SysVShape
  <2>9. ToldStays'
    <3>1. \A q \in Users : stage'[q] # "off" => id[q] \in Ids /\ stage[q] # "off" /\ id'[q] = id[q]
      BY <2>2, <2>7 DEF SysVTypeOK
    <3> QED BY <1>0, <2>1, <2>6, <3>1 DEF SysVTypeOK, ToldStays
  <2>10. ReadIsGone'
    <3> SUFFICES ASSUME NEW r \in Readers, stage'[r] = "done"
                 PROVE  /\ key' # id'[r]
                        /\ segment'[id'[r]] = "absent" \/ \E q \in Attached' : id'[q] = id'[r]
      BY DEF ReadIsGone
    <3>1. r # p /\ stage[r] = "done" /\ id[r] \in Ids /\ id'[r] = id[r]
      BY <1>0, <2>2, <2>7
    <3>2. \A q \in Attached' : q \in Users \ {p} /\ id'[q] = id[q]
      BY <1>0, <2>5
    <3> QED BY <2>1, <2>6, <3>1, <3>2 DEF ReadIsGone
  <2> QED BY <2>4, <2>8, <2>9, <2>10
<1>7. CASE UNCHANGED sysVVars
  BY <1>7 DEF sysVVars, SysVTypeOK, SysVShape, ToldStays, ReadIsGone, Attached
<1> QED BY <1>1, <1>2, <1>3, <1>4, <1>5, <1>6, <1>7 DEF SysVNext

-----------------------------------------------------------------------------
\* However many writers and readers come, in whatever order: the variables keep
\* their types, and a segment that is found or attached is there.
THEOREM SysVInvariant == SysVSpec => []SysVInv
  BY SysVInitInv, SysVStep, PTL DEF SysVSpec

\* A reader that finds the segment with the message in it reads the message, or
\* fails to attach: no other process of demo 1 can change that.
THEOREM ToldReads == SysVSpec => []ToldIsRead
<1>1. SysVInv => ToldIsRead
  BY DEF SysVInv, SysVShape, ToldStays, ToldIsRead, Attached
<1> QED BY <1>1, SysVInvariant, PTL

\* A segment that a reader has destroyed is never found by the key again, and is
\* gone unless somebody is attached.
THEOREM ReadGone == SysVSpec => []ReadIsGone
<1>1. SysVInv => ReadIsGone
  BY DEF SysVInv
<1> QED BY <1>1, SysVInvariant, PTL

-----------------------------------------------------------------------------
\*                                 Demo 4a

\* A handler has an object of its own from its creation to the insertion.
Holding == {"created", "filled", "inserting"}

\* Handlers run in a server that is up, and a table that is not in use is empty.
HandlersUp ==
  /\ \A c \in Callers : at[c] \in InHandler => main \in {"serving", "draining"}
  /\ main \in {"done", "killed"} => allocations = {}

\* Names and objects are of this tick or an earlier one, a handler's since the start.
NamesPast ==
  /\ \A c \in Callers : shm_name[c] # None => shm_name[c] \in 1 .. clock
  /\ \A c \in Callers : at[c] \in Holding => shm_name[c] \in started .. clock
  /\ \A t \in Times : t > clock => object[t] = "absent"

\* No two callers have one name.
NamesApart ==
  \A c, d \in Callers : c # d /\ shm_name[c] # None => shm_name[c] # shm_name[d]

\* A handler's object is there, and a client's until it is cleaned up.
ObjectsThere ==
  /\ \A c \in Callers : at[c] = "created" => object[shm_name[c]] # "absent"
  /\ \A c \in Callers : at[c] \in {"filled", "inserting"} => object[shm_name[c]] = "filled"
  /\ \A c \in Callers :
       at[c] \in InClient =>
         main = "done" \/ shm_name[c] < started \/ object[shm_name[c]] = "filled"

\* Of an object this server has made, the table or a handler knows, if none of its
\* insertions have overlapped.
ObjectsKnown ==
  main # "killed" /\ ~raced =>
    \A t \in started .. MaxClock :
      \/ object[t] = "absent" \/ t \in allocations
      \/ \E c \in Callers : at[c] \in Holding /\ shm_name[c] = t

Demo4aInv ==
  /\ Demo4aTypeOK /\ HandlersUp /\ NamesPast /\ NamesApart /\ ObjectsThere /\ ObjectsKnown

-----------------------------------------------------------------------------
\* The invariant holds when the server starts.
LEMMA Demo4aInitInv == Demo4aInit => Demo4aInv
<1> SUFFICES ASSUME Demo4aInit PROVE Demo4aInv
  OBVIOUS
<1> USE Demo4aAssumption DEF Demo4aAssumption, Demo4aInit, Times
<1>1. Demo4aTypeOK
  <2>1. clock \in Times /\ started \in 1 .. clock
    OBVIOUS
  <2>2. /\ object \in [Times -> {"absent", "created", "filled"}] /\ allocations \in SUBSET Times
        /\ at \in [Callers -> InHandler \cup InClient \cup {"idle"}]
        /\ shm_name \in [Callers -> Times \cup {None}]
    OBVIOUS
  <2> QED BY <2>1 DEF Demo4aTypeOK
<1>2. HandlersUp /\ NamesPast /\ NamesApart /\ ObjectsThere
  BY DEF HandlersUp, NamesPast, NamesApart, ObjectsThere, InClient, Holding
<1>3. ObjectsKnown
  BY DEF ObjectsKnown
<1> QED BY <1>1, <1>2, <1>3 DEF Demo4aInv

\* Every step of the server and its clients keeps it.
LEMMA Demo4aStep == Demo4aInv /\ [Demo4aNext]_demo4aVars => Demo4aInv'
<1> SUFFICES ASSUME Demo4aInv, [Demo4aNext]_demo4aVars PROVE Demo4aInv'
  OBVIOUS
<1>0. Demo4aTypeOK /\ HandlersUp /\ NamesPast /\ NamesApart /\ ObjectsThere /\ ObjectsKnown
  BY DEF Demo4aInv
<1> USE <1>0, Demo4aAssumption DEF Demo4aAssumption, Times, InHandler, InClient, Holding
<1>1. ASSUME Tick
      PROVE  Demo4aInv'
  <2>1. Demo4aTypeOK'
    BY <1>1 DEF Tick, Demo4aTypeOK
  <2>2. HandlersUp'
    BY <1>1 DEF Tick, HandlersUp
  <2>3. NamesPast'
    BY <1>1 DEF Tick, Demo4aTypeOK, NamesPast
  <2>4. NamesApart'
    BY <1>1 DEF Tick, NamesApart
  <2>5. ObjectsThere'
    BY <1>1 DEF Tick, ObjectsThere
  <2>6. ObjectsKnown'
    BY <1>1 DEF Tick, ObjectsKnown
  <2> QED BY <2>1, <2>2, <2>3, <2>4, <2>5, <2>6 DEF Demo4aInv
<1>2. ASSUME NEW c \in Callers, CallArrives(c)
      PROVE  Demo4aInv'
  <2>1. Demo4aTypeOK'
    BY <1>2 DEF CallArrives, Goes, Demo4aTypeOK
  <2>2. HandlersUp'
    BY <1>2 DEF CallArrives, HandlersUp
  <2>3. NamesPast'
    BY <1>2 DEF CallArrives, Goes, NamesPast
  <2>4. NamesApart'
    BY <1>2 DEF CallArrives, Goes, NamesApart
  <2>5. ObjectsThere'
    BY <1>2 DEF CallArrives, Goes, ObjectsThere
  <2>6. ObjectsKnown'
    BY <1>2 DEF CallArrives, Goes, ObjectsKnown
  <2> QED BY <2>1, <2>2, <2>3, <2>4, <2>5, <2>6 DEF Demo4aInv
<1>3. ASSUME NEW c \in Callers, CreateObject(c)
      PROVE  Demo4aInv'
  <2>1. Demo4aTypeOK'
    BY <1>3 DEF CreateObject, Goes, Demo4aTypeOK
  <2>2. HandlersUp'
    BY <1>3 DEF CreateObject, HandlersUp
  <2>3. NamesPast'
    BY <1>3 DEF CreateObject, Goes, Demo4aTypeOK, NamesPast
  <2>4. NamesApart'
    BY <1>3 DEF CreateObject, Goes, Demo4aTypeOK, NamesApart, ObjectsThere, HandlersUp
  <2>5. ObjectsThere'
    BY <1>3 DEF CreateObject, Goes, Demo4aTypeOK, ObjectsThere
  <2>6. ObjectsKnown'
    BY <1>3 DEF CreateObject, Goes, Demo4aTypeOK, ObjectsKnown
  <2> QED BY <2>1, <2>2, <2>3, <2>4, <2>5, <2>6 DEF Demo4aInv
<1>4. ASSUME NEW c \in Callers, RequestFails(c)
      PROVE  Demo4aInv'
  <2>1. Demo4aTypeOK'
    BY <1>4 DEF RequestFails, Goes, Demo4aTypeOK
  <2>2. HandlersUp'
    BY <1>4 DEF RequestFails, HandlersUp
  <2>3. NamesPast'
    BY <1>4 DEF RequestFails, Goes, Demo4aTypeOK, NamesPast
  <2>4. NamesApart'
    BY <1>4 DEF RequestFails, Goes, NamesApart
  <2>5. ObjectsThere'
    BY <1>4 DEF RequestFails, Goes, Demo4aTypeOK, ObjectsThere, NamesApart
  <2>6. ObjectsKnown'
    BY <1>4 DEF RequestFails, Goes, Demo4aTypeOK, ObjectsKnown
  <2> QED BY <2>1, <2>2, <2>3, <2>4, <2>5, <2>6 DEF Demo4aInv
<1>5. ASSUME NEW c \in Callers, Fill(c)
      PROVE  Demo4aInv'
  <2>1. Demo4aTypeOK'
    BY <1>5 DEF Fill, Goes, Demo4aTypeOK
  <2>2. HandlersUp'
    BY <1>5 DEF Fill, HandlersUp
  <2>3. NamesPast'
    BY <1>5 DEF Fill, Goes, Demo4aTypeOK, NamesPast
  <2>4. NamesApart'
    BY <1>5 DEF Fill, Goes, NamesApart
  <2>5. ObjectsThere'
    BY <1>5 DEF Fill, Goes, Demo4aTypeOK, ObjectsThere
  <2>6. ObjectsKnown'
    BY <1>5 DEF Fill, Goes, ObjectsKnown
  <2> QED BY <2>1, <2>2, <2>3, <2>4, <2>5, <2>6 DEF Demo4aInv
<1>6. ASSUME NEW c \in Callers, BeginInsert(c)
      PROVE  Demo4aInv'
  <2>1. Demo4aTypeOK'
    BY <1>6 DEF BeginInsert, Goes, Demo4aTypeOK
  <2>2. HandlersUp'
    BY <1>6 DEF BeginInsert, HandlersUp
  <2>3. NamesPast'
    BY <1>6 DEF BeginInsert, Goes, NamesPast
  <2>4. NamesApart'
    BY <1>6 DEF BeginInsert, Goes, NamesApart
  <2>5. ObjectsThere'
    BY <1>6 DEF BeginInsert, Goes, ObjectsThere
  <2>6. ObjectsKnown'
    BY <1>6 DEF BeginInsert, Goes, Demo4aTypeOK, ObjectsKnown
  <2> QED BY <2>1, <2>2, <2>3, <2>4, <2>5, <2>6 DEF Demo4aInv
<1>7. ASSUME NEW c \in Callers, EndInsert(c)
      PROVE  Demo4aInv'
  <2>1. Demo4aTypeOK'
    <3>1. shm_name[c] \in Times
      BY <1>7 DEF EndInsert, Demo4aTypeOK
    <3>2. allocations' \subseteq allocations \cup {shm_name[c]}
      BY <1>7 DEF EndInsert
    <3>3. allocations' \in SUBSET Times
      BY <3>1, <3>2 DEF Demo4aTypeOK
    <3> QED BY <1>7, <3>3 DEF EndInsert, Goes, Demo4aTypeOK
  <2>2. HandlersUp'
    BY <1>7 DEF EndInsert, HandlersUp
  <2>3. NamesPast'
    BY <1>7 DEF EndInsert, Goes, NamesPast
  <2>4. NamesApart'
    BY <1>7 DEF EndInsert, Goes, NamesApart
  <2>5. ObjectsThere'
    BY <1>7 DEF EndInsert, Goes, ObjectsThere
  <2>6. ObjectsKnown'
    BY <1>7 DEF EndInsert, Goes, ObjectsKnown
  <2> QED BY <2>1, <2>2, <2>3, <2>4, <2>5, <2>6 DEF Demo4aInv
<1>8. ASSUME NEW c \in Callers, OpenAndMap(c)
      PROVE  Demo4aInv'
  <2>1. Demo4aTypeOK'
    BY <1>8 DEF OpenAndMap, Goes, Demo4aTypeOK
  <2>2. HandlersUp'
    BY <1>8 DEF OpenAndMap, Goes, HandlersUp
  <2>3. NamesPast'
    BY <1>8 DEF OpenAndMap, Goes, NamesPast
  <2>4. NamesApart'
    BY <1>8 DEF OpenAndMap, Goes, NamesApart
  <2>5. ObjectsThere'
    BY <1>8 DEF OpenAndMap, Goes, ObjectsThere
  <2>6. ObjectsKnown'
    BY <1>8 DEF OpenAndMap, Goes, ObjectsKnown
  <2> QED BY <2>1, <2>2, <2>3, <2>4, <2>5, <2>6 DEF Demo4aInv
<1>9. ASSUME NEW c \in Callers, CallerEnds(c)
      PROVE  Demo4aInv'
  <2>1. Demo4aTypeOK'
    BY <1>9 DEF CallerEnds, Goes, Demo4aTypeOK
  <2>2. HandlersUp'
    BY <1>9 DEF CallerEnds, Goes, HandlersUp
  <2>3. NamesPast'
    BY <1>9 DEF CallerEnds, Goes, NamesPast
  <2>4. NamesApart'
    BY <1>9 DEF CallerEnds, Goes, NamesApart
  <2>5. ObjectsThere'
    BY <1>9 DEF CallerEnds, Goes, Demo4aTypeOK, ObjectsThere
  <2>6. ObjectsKnown'
    BY <1>9 DEF CallerEnds, Goes, ObjectsKnown
  <2> QED BY <2>1, <2>2, <2>3, <2>4, <2>5, <2>6 DEF Demo4aInv
<1>10. ASSUME Shutdown
      PROVE  Demo4aInv'
  <2>1. Demo4aTypeOK'
    BY <1>10 DEF Shutdown, Demo4aTypeOK
  <2>2. HandlersUp'
    BY <1>10 DEF Shutdown, HandlersUp
  <2>3. NamesPast'
    BY <1>10 DEF Shutdown, NamesPast
  <2>4. NamesApart'
    BY <1>10 DEF Shutdown, NamesApart
  <2>5. ObjectsThere'
    BY <1>10 DEF Shutdown, ObjectsThere
  <2>6. ObjectsKnown'
    BY <1>10 DEF Shutdown, ObjectsKnown
  <2> QED BY <2>1, <2>2, <2>3, <2>4, <2>5, <2>6 DEF Demo4aInv
<1>11. ASSUME CleanupAll
      PROVE  Demo4aInv'
  <2>1. Demo4aTypeOK'
    BY <1>11 DEF CleanupAll, Demo4aTypeOK
  <2>2. HandlersUp'
    BY <1>11 DEF CleanupAll, HandlersUp
  <2>3. NamesPast'
    BY <1>11 DEF CleanupAll, NamesPast
  <2>4. NamesApart'
    BY <1>11 DEF CleanupAll, NamesApart
  <2>5. ObjectsThere'
    BY <1>11 DEF CleanupAll, ObjectsThere
  <2>6. ObjectsKnown'
    BY <1>11 DEF CleanupAll, Demo4aTypeOK, ObjectsKnown
  <2> QED BY <2>1, <2>2, <2>3, <2>4, <2>5, <2>6 DEF Demo4aInv
<1>12. ASSUME ServerKilled
      PROVE  Demo4aInv'
  <2>1. Demo4aTypeOK'
    BY <1>12 DEF ServerKilled, Demo4aTypeOK
  <2>2. HandlersUp'
    BY <1>12 DEF ServerKilled, HandlersUp
  <2>3. NamesPast'
    BY <1>12 DEF ServerKilled, NamesPast
  <2>4. NamesApart'
    BY <1>12 DEF ServerKilled, NamesApart
  <2>5. ObjectsThere'
    BY <1>12 DEF ServerKilled, ObjectsThere
  <2>6. ObjectsKnown'
    BY <1>12 DEF ServerKilled, ObjectsKnown
  <2> QED BY <2>1, <2>2, <2>3, <2>4, <2>5, <2>6 DEF Demo4aInv
<1>13. ASSUME Restart
      PROVE  Demo4aInv'
  <2>1. Demo4aTypeOK'
    <3>1. clock' \in Times /\ started' \in 1 .. clock'
      BY <1>13 DEF Restart, Demo4aTypeOK
    <3> QED BY <1>13, <3>1 DEF Restart, Demo4aTypeOK
  <2>2. HandlersUp'
    BY <1>13 DEF Restart, HandlersUp
  <2>3. NamesPast'
    BY <1>13 DEF Restart, Demo4aTypeOK, NamesPast, HandlersUp
  <2>4. NamesApart'
    BY <1>13 DEF Restart, NamesApart
  <2>5. ObjectsThere'
    BY <1>13 DEF Restart, Demo4aTypeOK, ObjectsThere, NamesPast
  <2>6. ObjectsKnown'
    BY <1>13 DEF Restart, Demo4aTypeOK, ObjectsKnown, NamesPast
  <2> QED BY <2>1, <2>2, <2>3, <2>4, <2>5, <2>6 DEF Demo4aInv
<1>14. CASE UNCHANGED demo4aVars
  BY <1>14
  DEF demo4aVars, Demo4aInv, Demo4aTypeOK, HandlersUp, NamesPast, NamesApart, ObjectsThere, ObjectsKnown
<1> QED
  BY <1>1, <1>2, <1>3, <1>4, <1>5, <1>6, <1>7, <1>8, <1>9, <1>10, <1>11, <1>12,
     <1>13, <1>14
  DEF Demo4aNext, Retry, StaysDown

\* The invariant holds at every moment.
THEOREM Demo4aInvariant == Demo4aSpec => []Demo4aInv
  BY Demo4aInitInv, Demo4aStep, PTL DEF Demo4aSpec

\* When main() has returned, nothing this server made is left, unless insertions raced.
THEOREM LeftClean == Demo4aSpec => []CleanUnlessRaced
<1>1. Demo4aInv => CleanUnlessRaced
  BY DEF Demo4aInv, HandlersUp, ObjectsKnown, CleanUnlessRaced, Holding, InHandler
<1> QED BY <1>1, Demo4aInvariant, PTL

\* A name in a reply can be opened, and has its message, until main() returns.
THEOREM GrantsOpen == Demo4aSpec => []GrantOpenable
<1>1. Demo4aInv => GrantOpenable
  BY DEF Demo4aInv, Demo4aTypeOK, ObjectsThere, GrantOpenable, InClient, Times
<1> QED BY <1>1, Demo4aInvariant, PTL

\* No two clients are told one name.
THEOREM GrantsDiffer == Demo4aSpec => []GrantsApart
<1>1. Demo4aInv => GrantsApart
  BY DEF Demo4aInv, Demo4aTypeOK, NamesApart, GrantsApart, InClient
<1> QED BY <1>1, Demo4aInvariant, PTL

-----------------------------------------------------------------------------
\*                            The three together

\* The demos share nothing: together each behaves as it does alone, so that all
\* that is proved of it holds there.
THEOREM EarlyImplements == EarlySpec => SysVSpec /\ NamedSpec /\ Demo4aSpec
<1>1. EarlyInit => SysVInit /\ NamedInit /\ Demo4aInit
  BY DEF EarlyInit
<1>2. [EarlyNext]_<<sysVVars, namedVars, demo4aVars>>
        => [SysVNext]_sysVVars /\ [NamedNext]_namedVars /\ [Demo4aNext]_demo4aVars
  BY DEF EarlyNext
<1> QED BY <1>1, <1>2, PTL DEF EarlySpec, SysVSpec, NamedSpec, Demo4aSpec

\* The variables of the three have their types.
THEOREM EarlyTypes == EarlySpec => []EarlyTypeOK
<1>1. SysVInv /\ NamedInv /\ Demo4aInv => EarlyTypeOK
  BY DEF SysVInv, NamedInv, Demo4aInv, EarlyTypeOK
<1> QED BY <1>1, EarlyImplements, SysVInvariant, NamedInvariant, Demo4aInvariant, PTL
=============================================================================
