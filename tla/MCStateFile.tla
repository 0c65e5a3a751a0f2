---- MODULE MCStateFile ----
EXTENDS StateFile, TLC
CONSTANTS c1, c2, c3, r1
MCChanges == {c1, c2, c3}
MCReads == {r1}
MCAlike == Permutations(MCChanges)
====
