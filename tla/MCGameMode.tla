----------------------------- MODULE MCGameMode -----------------------------
EXTENDS GameMode, TLC
CONSTANTS a, b, pa, pb, pc

\* Each client is a process of its own.
OwnProcess(c) == IF c = a THEN pa ELSE pb
=============================================================================
