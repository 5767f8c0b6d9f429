------------------------------- MODULE MCLock -------------------------------
\* PermissionLock for TLC: sets of model values, and what is symmetric.
EXTENDS PermissionLock, TLC

LockSymmetry ==
  Permutations(Names) \cup Permutations(Inodes) \cup Permutations(Fds)
    \cup Permutations(Handlers)
=============================================================================
