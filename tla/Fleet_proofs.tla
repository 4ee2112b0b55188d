---------------------------- MODULE Fleet_proofs ----------------------------
(***************************************************************************)
(* Proofs about Fleet for every set of submarines: the partner lists are   *)
(* two-sided and free of available submarines whatever the operator does,  *)
(* and newcomers and leavers keep groups that are full meshes.             *)
(***************************************************************************)
EXTENDS Fleet, TLAPS

\* The three invariants are inductive together: that an ended mission leaves
\* no reference behind needs the lists to be two-sided.
IInv == TypeOK /\ PartnersSymmetric /\ PartnersOnMission

\* An empty fleet has empty lists.
LEMMA InitIInv == Init => IInv
  BY SerialsAssumption DEF Init, IInv, TypeOK, PartnersSymmetric, PartnersOnMission, Serials

\* What clearMissionDetails does to the partner lists.
LEMMA EndMissionIInv ==
    ASSUME IInv, NEW s \in Serials, EndMission(s)
    PROVE  IInv'
<1> USE DEF IInv
<1>1. partners' = [c \in Combat |-> IF c = s THEN {} ELSE partners[c] \ {s}]
  BY DEF EndMission, Detached
<1>2. TypeOK'
  BY <1>1 DEF TypeOK, EndMission
<1>3. PartnersSymmetric'
  BY <1>1 DEF PartnersSymmetric, TypeOK
<1>4. PartnersOnMission'
  BY <1>1 DEF PartnersOnMission, PartnersSymmetric, TypeOK, EndMission
<1>5. QED
  BY <1>2, <1>3, <1>4

\* What an association does to the partner lists.
LEMMA AssociateIInv ==
    ASSUME IInv, NEW a \in Combat, NEW b \in Combat, Associate(a, b)
    PROVE  IInv'
<1> USE DEF IInv
<1> DEFINE group == partners[a] \cup {a}
<1>1. a # b /\ a \in onMission /\ b \in onMission /\ group \subseteq Combat
  BY DEF Associate, isAvailable, TypeOK
<1>2. partners' = [c \in Combat |-> IF c = b THEN partners[c] \cup (group \ {b})
                                    ELSE IF c \in group THEN partners[c] \cup {b}
                                    ELSE partners[c]]
  BY DEF Associate, Linked
<1>3. TypeOK'
  BY <1>1, <1>2 DEF TypeOK, Associate
<1>4. PartnersSymmetric'
  BY <1>1, <1>2 DEF PartnersSymmetric, TypeOK
<1>5. group \subseteq onMission
  BY <1>1 DEF PartnersOnMission
<1>6. PartnersOnMission'
  BY <1>1, <1>2, <1>5 DEF PartnersOnMission, TypeOK, Associate
<1>7. QED
  BY <1>3, <1>4, <1>6

\* Every menu operation keeps the lists consistent.
LEMMA NextIInv == IInv /\ [Next]_vars => IInv'
<1> SUFFICES ASSUME IInv, [Next]_vars PROVE IInv'
  OBVIOUS
<1> USE DEF IInv
<1>1. CASE \E s \in Serials : Add(s) \/ Assign(s)
  BY <1>1 DEF Add, Assign, TypeOK, PartnersSymmetric, PartnersOnMission
<1>2. CASE \E s \in Serials : EndMission(s)
  BY <1>2, EndMissionIInv
<1>3. CASE \E a, b \in Combat : Associate(a, b)
  BY <1>3, AssociateIInv
<1>4. CASE \E c \in Combat, s \in Serials : SendMessage(c, s)
  BY <1>4 DEF SendMessage, TypeOK, PartnersSymmetric, PartnersOnMission
<1>5. CASE UNCHANGED vars
  BY <1>5 DEF vars, TypeOK, PartnersSymmetric, PartnersOnMission
<1>6. QED
  BY <1>1, <1>2, <1>3, <1>4, <1>5 DEF Next

\* After every sequence of menu operations the partner lists are well typed,
\* two-sided, and name only submarines that are on a mission.
THEOREM PartnersConsistent == Spec => [](TypeOK /\ PartnersSymmetric /\ PartnersOnMission)
<1>1. IInv => TypeOK /\ PartnersSymmetric /\ PartnersOnMission
  BY DEF IInv
<1>2. QED
  BY <1>1, InitIInv, NextIInv, PTL DEF Spec

\* Types of the state, in all behaviours.
THEOREM TypeInvariant == Spec => []TypeOK
BY PartnersConsistent, PTL

\* Only members on a mission have partners, for every set of serial numbers.
THEOREM PartnersServe == Spec => []PartnersOnMission
BY PartnersConsistent, PTL

\* Whoever receives a message can answer it.
THEOREM MessagesAnswerable == Spec => AnswerPossible
<1>1. IInv /\ [Next]_vars =>
      [\A s \in Serials : inbox'[s] # inbox[s] =>
          s \in Combat /\ sharesMissionWith(s, inbox'[s][Len(inbox'[s])])]_vars
  <2> SUFFICES ASSUME IInv, [Next]_vars, NEW s \in Serials, inbox'[s] # inbox[s]
               PROVE  s \in Combat /\ sharesMissionWith(s, inbox'[s][Len(inbox'[s])])
    OBVIOUS
  <2>1. PICK c \in Combat, to \in Serials : SendMessage(c, to)
    BY DEF Next, vars, Add, Assign, EndMission, Associate
  <2>2. s = to /\ inbox'[s] = Append(inbox[s], c)
    BY <2>1 DEF SendMessage, IInv, TypeOK
  <2>3. inbox'[s][Len(inbox'[s])] = c
    BY <2>2 DEF IInv, TypeOK
  <2>4. s \in partners[c]
    BY <2>1, <2>2 DEF SendMessage, sharesMissionWith
  <2>5. s \in Combat /\ c \in partners[s]
    BY <2>4 DEF IInv, TypeOK, PartnersSymmetric
  <2>6. QED
    BY <2>3, <2>5 DEF sharesMissionWith
<1>2. QED
  BY <1>1, InitIInv, NextIInv, PTL DEF Spec, AnswerPossible

----------------------------------------------------------------------------
(* Groups that newcomers join *)

\* Joining a group keeps it a mesh: the newcomer gets exactly the list of the
\* group, and every member gets the newcomer.
LEMMA JoinMesh ==
    ASSUME IInv, FullMesh, NEW a \in Combat, NEW b \in Combat, Associate(a, b), Joining(a, b)
    PROVE  FullMesh'
<1> USE DEF IInv
<1> DEFINE group == partners[a] \cup {a}
<1>1. a # b /\ partners \in [Combat -> SUBSET Combat]
  BY DEF Associate, TypeOK
<1>2. \A c \in Combat : partners'[c] = IF c = b THEN partners[c] \cup (group \ {b})
                                       ELSE IF c \in group THEN partners[c] \cup {b}
                                       ELSE partners[c]
  BY DEF Associate, Linked
<1>3. CASE b \in partners[a]
  <2>1. group \ {b} \subseteq partners[b]
    BY <1>1, <1>3 DEF FullMesh, PartnersSymmetric
  <2>2. \A c \in group \ {b} : b \in partners[c]
    BY <1>1, <2>1 DEF PartnersSymmetric
  <2>3. ASSUME NEW c \in Combat
        PROVE  partners'[c] = partners[c]
    <3>1. CASE c = b
      <4>1. partners'[c] = partners[c] \cup (group \ {b})
        BY <1>2, <3>1
      <4>2. QED
        BY <2>1, <3>1, <4>1
    <3>2. CASE c # b /\ c \in group
      <4>1. partners'[c] = partners[c] \cup {b}
        BY <1>2, <3>2
      <4>2. QED
        BY <2>2, <3>2, <4>1
    <3>3. CASE c # b /\ c \notin group
      BY <1>2, <3>3
    <3>4. QED
      BY <3>1, <3>2, <3>3
  <2>4. QED
    BY <2>3 DEF FullMesh
<1>4. CASE partners[b] = {}
  <2>1. partners'[b] = group /\ b \notin group
    BY <1>1, <1>2, <1>4 DEF PartnersSymmetric
  <2>2. ASSUME NEW c \in group
        PROVE  partners'[c] = (group \ {c}) \cup {b}
    <3>1. c \in Combat /\ c # b /\ partners'[c] = partners[c] \cup {b}
      BY <1>1, <1>2, <2>1
    <3>2. partners[c] \subseteq group \ {c}
      BY <1>1, <3>1 DEF FullMesh, PartnersSymmetric
    <3>3. group \ {c} \subseteq partners[c]
      BY <1>1, <3>1 DEF FullMesh, PartnersSymmetric
    <3>4. QED
      BY <3>1, <3>2, <3>3
  <2>3. \A c \in Combat \ (group \cup {b}) :
           partners'[c] = partners[c] /\ partners[c] \cap (group \cup {b}) = {}
    BY <1>1, <1>2, <1>4 DEF FullMesh, PartnersSymmetric
  <2>4. QED
    BY <1>1, <2>1, <2>2, <2>3 DEF FullMesh
<1>5. QED
  BY <1>3, <1>4 DEF Joining

\* Newcomers and leavers keep the full meshes of every fleet.
THEOREM MeshesStay == Spec => MeshPreserved
<1> DEFINE Kept == \/ \E s \in Serials : EndMission(s)
                   \/ \E a, b \in Combat : Associate(a, b) /\ Joining(a, b)
<1>1. IInv => [FullMesh /\ Kept => FullMesh']_vars
  <2> SUFFICES ASSUME IInv, FullMesh, Kept PROVE FullMesh'
    OBVIOUS
  <2>1. CASE \E s \in Serials : EndMission(s)
    BY <2>1 DEF EndMission, Detached, FullMesh, IInv, TypeOK
  <2>2. CASE \E a, b \in Combat : Associate(a, b) /\ Joining(a, b)
    BY <2>2, JoinMesh
  <2>3. QED
    BY <2>1, <2>2
<1>2. QED
  BY <1>1, InitIInv, NextIInv, PTL DEF Spec, MeshPreserved
=============================================================================
