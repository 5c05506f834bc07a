--------------------------- MODULE MCChatStream ---------------------------
\* Instances of ChatStream for TLC: one request each, since requests share
\* nothing but the crashes (the theorems are about every set of requests).
EXTENDS ChatStream

CONSTANT r1
===========================================================================
