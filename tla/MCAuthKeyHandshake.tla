------------------------- MODULE MCAuthKeyHandshake -------------------------
EXTENDS AuthKeyHandshake
=============================================================================
