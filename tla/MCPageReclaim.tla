--------------------------- MODULE MCPageReclaim ---------------------------
EXTENDS PageReclaim, TLC
=============================================================================
