------------------------------ MODULE MCLncLog ------------------------------
EXTENDS LncLog
=============================================================================
