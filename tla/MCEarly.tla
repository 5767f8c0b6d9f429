------------------------------ MODULE MCEarly ------------------------------
\* EarlyDemos for TLC: sets of model values, and what is symmetric.  The largest of
\* the three decides, because every state is compared under every permutation.
EXTENDS EarlyDemos, TLC

EarlySymmetry == Permutations(Servers) \cup Permutations(Objects)
=============================================================================
