------------------------------ MODULE MCDemo5 ------------------------------
\* Demo5System for TLC: sets of model values, what is symmetric, and a view.
EXTENDS Demo5System, TLC

SystemSymmetry ==
  Permutations(Clients) \cup Permutations(Names) \cup Permutations(Fds)

\* All but pinned and which buffers are where: no guard of this system depends on
\* what CUDA has registered, and one free buffer is as good as another.
SystemView ==
  <<phase, pool, Cardinality(free_list),
    [i \in DOMAIN segments |-> [segments[i] EXCEPT !.buffers = Cardinality(@)]],
    capacity, kernelVars, draining, clientVars, call, abandoned>>
=============================================================================
