---------------------------- MODULE MCTsunamiRing -----------------------------
EXTENDS TsunamiRing
=============================================================================
