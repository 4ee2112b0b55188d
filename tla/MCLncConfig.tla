---------------------------- MODULE MCLncConfig ----------------------------
(* Two limits, of which the boot checks one. *)
EXTENDS LncConfig
=============================================================================
