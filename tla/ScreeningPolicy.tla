--------------------------- MODULE ScreeningPolicy ---------------------------
(***************************************************************************)
(* What the screening rules promise about one volunteer, without checks,   *)
(* convictions or paperwork: why they are blocked from serving, if they    *)
(* are, and the roles they hold.  An automatic disqualification is the end *)
(* of the line; a block for a Not Clear check is the only one that is ever *)
(* lifted; leaving the process ends every role in the same breath.         *)
(***************************************************************************)
CONSTANT Role

VARIABLES block, roles

pvars == <<block, roles>>

Block == {"none", "crc_not_clear", "withdrawn", "disqualified"}

PInit == block = "none" /\ roles \in SUBSET Role

NotClear ==
    /\ block # "disqualified"
    /\ block' = "crc_not_clear"
    /\ UNCHANGED roles

Lift ==
    /\ block = "crc_not_clear"
    /\ block' = "none"
    /\ UNCHANGED roles

Withdraw ==
    /\ block # "disqualified"
    /\ block' = "withdrawn"
    /\ roles' = {}

Disqualify ==
    /\ block' = "disqualified"
    /\ roles' = {}

Assign ==
    /\ block # "disqualified"
    /\ \E r \in Role : roles' = roles \cup {r}
    /\ UNCHANGED block

End ==
    /\ roles' \in SUBSET roles
    /\ UNCHANGED block

PNext == NotClear \/ Lift \/ Withdraw \/ Disqualify \/ Assign \/ End

PSpec == PInit /\ [][PNext]_pvars
===============================================================================
