---- MODULE MCPageScript ----
EXTENDS PageScript, FiniteSets, TLC
Perms == Permutations(Templates)
====
