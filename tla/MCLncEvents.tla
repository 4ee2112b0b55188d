---------------------------- MODULE MCLncEvents ----------------------------
EXTENDS LncEvents
=============================================================================
