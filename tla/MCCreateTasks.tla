--------------------------- MODULE MCCreateTasks ---------------------------
(* CreateTasks for TLC, and its powers of two compared with those of 2.    *)
EXTENDS CreateTasks

ASSUME PowersOfTwo == \A n \in 1..64 : PowerOfTwo(n) <=> \E e \in 0..6 : n = 2 ^ e
=============================================================================
