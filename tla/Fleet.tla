------------------------------- MODULE Fleet -------------------------------
(***************************************************************************)
(* The fleet management program (src/fleet): submarines that are assigned  *)
(* missions, combat submarines that are associated into groups, and        *)
(* messages between submarines of a group.  One action per menu operation  *)
(* that changes state; each runs to completion, the program has one        *)
(* thread.  Names, mission details and message texts are left out: no      *)
(* condition of the code reads them.                                       *)
(*                                                                         *)
(* Beside some definitions stands a variant with a plausible fault, named  *)
(* for the fault; nothing uses it, and the properties reject it.           *)
(***************************************************************************)
EXTENDS Naturals, Sequences

CONSTANTS
    Combat,         \* the serials that may be added as combat submarines
    Research,       \* the serials that may be added as research submarines
    INBOX_N         \* bound of the model on the messages in one inbox

ASSUME SerialsAssumption == Combat \cap Research = {} /\ INBOX_N \in Nat

Serials == Combat \cup Research

VARIABLES
    subs,           \* Fleet::subs_: the serials added so far
    onMission,      \* onMission_ of each submarine
    partners,       \* partners_ of each combat submarine (no duplicates)
    inbox           \* inbox_ of each submarine: who sent the messages

vars == <<subs, onMission, partners, inbox>>

Init ==
    /\ subs = {}
    /\ onMission = {}
    /\ partners = [c \in Combat |-> {}]
    /\ inbox = [s \in Serials |-> <<>>]

isAvailable(s) == s \notin onMission
sharesMissionWith(c, s) == s \in partners[c]

\* 1: an unused serial only
Add(s) ==
    /\ s \notin subs
    /\ subs' = subs \cup {s}
    /\ UNCHANGED <<onMission, partners, inbox>>

AssignUnknown(s) ==
    /\ onMission' = onMission \cup {s}
    /\ UNCHANGED <<subs, partners, inbox>>

\* 4: assignMission sets the flag, on a mission or not; the partners of an
\* earlier mission stay
Assign(s) ==
    /\ s \in subs
    /\ onMission' = onMission \cup {s}
    /\ UNCHANGED <<subs, partners, inbox>>

DetachedOneSided(s) == [c \in Combat |-> IF c = s THEN {} ELSE partners[c]]

\* 6: clearMissionDetails of a combat submarine erases it from the list of
\* each partner and then clears its own
Detached(s) == [c \in Combat |-> IF c = s THEN {} ELSE partners[c] \ {s}]

EndMission(s) ==
    /\ s \in subs
    /\ onMission' = onMission \ {s}
    /\ partners' = Detached(s)
    /\ UNCHANGED <<subs, inbox>>

LinkedToFirstOnly(a, b) ==
    [c \in Combat |-> IF c = a THEN partners[c] \cup {b}
                      ELSE IF c = b THEN partners[c] \cup {a} ELSE partners[c]]

\* addPartner of every member of a's group with b: both lists, never itself
Linked(a, b) ==
    LET group == partners[a] \cup {a}
    IN  [c \in Combat |-> IF c = b THEN partners[c] \cup (group \ {b})
                          ELSE IF c \in group THEN partners[c] \cup {b}
                          ELSE partners[c]]

AssociateAvailable(a, b) ==
    /\ {a, b} \subseteq subs
    /\ a # b
    /\ ~isAvailable(a)
    /\ partners' = Linked(a, b)
    /\ UNCHANGED <<subs, onMission, inbox>>

\* 7
Associate(a, b) ==
    /\ {a, b} \subseteq subs
    /\ a # b
    /\ ~isAvailable(a) /\ ~isAvailable(b)
    /\ partners' = Linked(a, b)
    /\ UNCHANGED <<subs, onMission, inbox>>

\* 8: the recipient may be any submarine, the sender's own list decides
SendMessage(c, to) ==
    /\ {c, to} \subseteq subs
    /\ c # to
    /\ ~isAvailable(c) /\ ~isAvailable(to)
    /\ sharesMissionWith(c, to)
    /\ Len(inbox[to]) < INBOX_N                              \* bound
    /\ inbox' = [inbox EXCEPT ![to] = Append(@, c)]
    /\ UNCHANGED <<subs, onMission, partners>>

Next ==
    \/ \E s \in Serials : Add(s) \/ Assign(s) \/ EndMission(s)
    \/ \E a, b \in Combat : Associate(a, b)
    \/ \E c \in Combat, s \in Serials : SendMessage(c, s)

Spec == Init /\ [][Next]_vars

----------------------------------------------------------------------------
(* Properties *)

\* Types of the state.
TypeOK ==
    /\ subs \subseteq Serials
    /\ onMission \subseteq subs
    /\ partners \in [Combat -> SUBSET Combat]
    /\ inbox \in [Serials -> Seq(Combat)]

\* The partner lists are two-sided after every sequence of associations and
\* ended missions, and nobody is its own partner.
PartnersSymmetric ==
    \A a, b \in Combat : b \in partners[a] => a # b /\ a \in partners[b]

\* Only submarines on a mission have partners or are one: EndMission leaves
\* no reference to an available submarine behind.
PartnersOnMission ==
    \A a \in Combat : partners[a] # {} => {a} \cup partners[a] \subseteq onMission

\* A message can be answered: the recipient of a new message has the sender in
\* its own partner list, although the code looks at the sender's list only.
AnswerPossible ==
    [][ \A s \in Serials : inbox'[s] # inbox[s] =>
            s \in Combat /\ sharesMissionWith(s, inbox'[s][Len(inbox'[s])]) ]_vars

\* "Missions the fleet manages modelled as the partners_ full mesh": whoever
\* shares a partner is a partner.  Not so once two groups are associated.
FullMesh ==
    \A a, b, c \in Combat :
        b \in partners[a] /\ c \in partners[b] /\ a # c => c \in partners[a]

\* b is new to a's group: it has no partners, or a is one of them.
Joining(a, b) == partners[b] = {} \/ b \in partners[a]

\* Groups that are full meshes stay so when a newcomer joins one (the second
\* submarine of the association) and when a submarine leaves; so only a second
\* submarine with a group of its own can break them.
MeshPreserved ==
    [][ FullMesh /\ ( \/ \E s \in Serials : EndMission(s)
                     \/ \E a, b \in Combat : Associate(a, b) /\ Joining(a, b) )
        => FullMesh' ]_vars
=============================================================================
