--------------------------- MODULE CommandChannel ---------------------------
(***************************************************************************)
(* What the serial line promises to whoever sends commands: while the two  *)
(* sides are in step, every command is executed once and in order.  What   *)
(* puts them out of step, and what brings them back, is for the detailed   *)
(* specification to say; out of step, commands get lost or mixed up.  A    *)
(* reset of the board forgets the commands on their way.                   *)
(***************************************************************************)
EXTENDS Naturals, Sequences

CONSTANT Commands

VARIABLES
    sent,           \* how many commands were sent
    owed,           \* commands sent and not executed yet
    executed,       \* commands executed
    broken,         \* the sides are out of step
    resets          \* resets of the board

vars == <<sent, owed, executed, broken, resets>>

Init == sent = 0 /\ owed = <<>> /\ executed = <<>> /\ broken = FALSE /\ resets = 0

Submit ==
    /\ ~broken
    /\ sent' = sent + 1
    /\ \E c \in Commands : owed' = Append(owed, c)
    /\ UNCHANGED <<executed, broken, resets>>

Execute ==
    /\ ~broken
    /\ owed # <<>>
    /\ executed' = Append(executed, Head(owed))
    /\ owed' = Tail(owed)
    /\ UNCHANGED <<sent, broken, resets>>

\* Out of step, or about to be: nothing is owed, and some frame or other may
\* be executed.
Break ==
    /\ broken \/ broken'
    /\ broken' \in BOOLEAN
    /\ sent' \in {sent, sent + 1}
    /\ owed' = <<>>
    /\ \/ UNCHANGED executed
       \/ Len(executed') = Len(executed) + 1 /\ SubSeq(executed', 1, Len(executed)) = executed
    /\ UNCHANGED resets

BoardReset ==
    /\ owed' = <<>>
    /\ broken' \in BOOLEAN
    /\ resets' = resets + 1
    /\ UNCHANGED <<sent, executed>>

Next == Submit \/ Execute \/ Break \/ BoardReset

Spec == Init /\ [][Next]_vars
=============================================================================
