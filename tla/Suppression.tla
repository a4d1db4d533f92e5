----------------------------- MODULE Suppression -----------------------------
(***************************************************************************)
(* What estimateMoves (Kinematics.cpp) makes of the signed flow of each     *)
(* move: a retraction and the extrusion behind it lay nothing down.         *)
(***************************************************************************)
EXTENDS Integers, FiniteSetsExt

\* The flag in front of the k-th move: the last signed flow before it retracts.
\* A travel's flow is 0.
RetractedBefore(flows, k) ==
    LET signed == {j \in 1 .. (k - 1) : flows[j] # 0}
    IN  signed # {} /\ flows[Max(signed)] < 0

Samples(flows) ==
    [k \in DOMAIN flows |->
        IF flows[k] < 0 \/ RetractedBefore(flows, k) THEN 0 ELSE flows[k]]
=============================================================================
