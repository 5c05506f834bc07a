---------------------------- MODULE MCChatMemory ----------------------------
\* Instances of ChatMemory for TLC.
EXTENDS ChatMemory, TLC

CONSTANTS r1, r2, r3, r4

Symmetry == Permutations({r1, r2, r3, r4})
=============================================================================
