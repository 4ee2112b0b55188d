--------------------------- MODULE MCLncWatchdog ---------------------------
(* The watchdog with short periods. *)
EXTENDS LncWatchdog
=============================================================================
