--------------------------- MODULE MCConfirmation ---------------------------
\* Instances of Confirmation for TLC: a question and two confirmations.
EXTENDS Confirmation, TLC

CONSTANTS r1, r2, r3

Same == Permutations({r1, r2, r3})
=============================================================================
