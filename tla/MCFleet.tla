------------------------------ MODULE MCFleet ------------------------------
(* Small fleets: the serials are interchangeable. *)
EXTENDS Fleet, TLC

FleetSymmetry == Permutations(Combat)
=============================================================================
