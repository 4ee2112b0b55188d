SPECIFICATION Spec
CONSTANTS
    Combat = {c1, c2, c3, c4}
    Research = {r1}
    INBOX_N = 1
SYMMETRY FleetSymmetry
INVARIANTS
    TypeOK
    PartnersSymmetric
    PartnersOnMission
PROPERTIES
    AnswerPossible
    MeshPreserved
