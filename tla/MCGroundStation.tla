-------------------------- MODULE MCGroundStation --------------------------
(* A week of 3: with 5 the record of 2 is still in it, with 6 no longer. *)
EXTENDS GroundStation

Asked == { [list |-> "meas", from |-> 0, to |-> 9], [list |-> "events", from |-> 2, to |-> 5] }

\* many records; saves while the server starts; clients of a server
Split ==
    { [adds |-> 4, saves |-> 0, starts |-> 0, asks |-> 0],
      [adds |-> 2, saves |-> 2, starts |-> 2, asks |-> 0],
      [adds |-> 2, saves |-> 1, starts |-> 1, asks |-> 2] }
=============================================================================
