-------------------------------- MODULE MCUrft --------------------------------
EXTENDS Urft
=============================================================================
