---------------------------- MODULE BufferLedger ----------------------------
(***************************************************************************)
(* What demo5's memory pool promises to its callers, without saying how:   *)
(* a fixed set of buffers, each one either free or held under exactly one  *)
(* name, handed out in non-empty groups and returned a whole group at a    *)
(* time.  PinnedMemoryPool (demo5/src/server.cpp) is shown to implement    *)
(* this specification.                                                     *)
(***************************************************************************)

CONSTANTS
  Buffers,   \* the buffers initialize() allocates and pins
  Names      \* the shared memory names Allocate() can generate

VARIABLES
  pool,      \* the buffers of the running pool; {} when it is not running
  free,      \* those no group holds
  held       \* the groups handed out: records [name, buffers]

ledgerVars == <<pool, free, held>>

Group == [name : Names, buffers : SUBSET Buffers]

HeldNames == {h.name : h \in held}

Init ==
  /\ pool = {}
  /\ free = {}
  /\ held = {}

\* The pool comes up with every buffer free.
Open ==
  /\ pool = {}
  /\ held = {}
  /\ pool' = Buffers
  /\ free' = Buffers
  /\ held' = {}

\* A non-empty group of free buffers is handed out under an unused name.
Grant(s, B) ==
  /\ s \notin HeldNames
  /\ B # {}
  /\ B \subseteq free
  /\ free' = free \ B
  /\ held' = held \cup {[name |-> s, buffers |-> B]}
  /\ pool' = pool

\* A whole group comes back.
Release(h) ==
  /\ held' = held \ {h}
  /\ free' = free \cup h.buffers
  /\ pool' = pool

\* The pool goes away, with whatever was handed out.
Close ==
  /\ pool' = {}
  /\ free' = {}
  /\ held' = {}

Next ==
  \/ Open
  \/ \E s \in Names, B \in SUBSET Buffers : Grant(s, B)
  \/ \E h \in held : Release(h)
  \/ Close

Spec == Init /\ [][Next]_ledgerVars

-----------------------------------------------------------------------------

LedgerTypeOK ==
  /\ pool \in SUBSET Buffers
  /\ free \in SUBSET pool
  /\ held \in SUBSET Group

\* Every buffer of the pool is free or in a group, never both, and no buffer
\* is in two groups: the promise mutex_, free_list_ and segments_ exist for.
Conservation ==
  /\ pool = free \cup UNION {h.buffers : h \in held}
  /\ \A h \in held : h.buffers \cap free = {} /\ h.buffers # {}
  /\ \A g, h \in held : g # h => g.buffers \cap h.buffers = {}

\* A name stands for one group, so FreeSharedMemory(name) is unambiguous.
NamesIdentifyGroups ==
  \A g, h \in held : g.name = h.name => g = h

LedgerInv == LedgerTypeOK /\ Conservation /\ NamesIdentifyGroups
=============================================================================
