----------------------------- MODULE MCModelCall -----------------------------
EXTENDS ModelCall
=============================================================================
