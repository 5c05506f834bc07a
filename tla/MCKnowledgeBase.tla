-------------------------- MODULE MCKnowledgeBase --------------------------
\* Instances of KnowledgeBase for TLC.
EXTENDS KnowledgeBase, TLC

CONSTANTS q1, q2, q3, q4

Symmetry == Permutations(Request)
============================================================================
