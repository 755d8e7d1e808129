-------------------------- MODULE MCRenewalLifecycle --------------------------
EXTENDS RenewalsHistory, TLC

Symmetry == Permutations(Licenses) \cup Permutations(Items)
            \cup Permutations(Users)
=============================================================================
