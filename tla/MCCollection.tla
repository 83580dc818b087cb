--------------------------- MODULE MCCollection ---------------------------
\* TLC instances of Collection.
EXTENDS Collection

CONSTANTS w1, w2
============================================================================
