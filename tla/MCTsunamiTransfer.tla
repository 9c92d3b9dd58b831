-------------------------- MODULE MCTsunamiTransfer ---------------------------
EXTENDS TsunamiTransfer
=============================================================================
