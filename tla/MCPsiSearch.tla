----------------------------- MODULE MCPsiSearch -----------------------------
(* Instances of PsiSearch. *)
EXTENDS PsiSearch

CONSTANTS p1, zero, five

Broken == {zero}
Reserved == {five}

(* Two programs of one PID, of two PIDs, one of them reserved, and a PID    *)
(* that is no PMT's.                                                       *)
MixedPats == {<<p1, p1>>, <<five, p1>>, <<zero>>}

(* A good program and one whose PID is 0.                                   *)
BrokenPats == {<<zero, p1>>}

AllSchemes == {"programs", "both", "nit"}
OnlyPrograms == {"programs"}
=============================================================================
