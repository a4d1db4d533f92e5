--------------------------- MODULE OneSaveRegister ---------------------------
(***************************************************************************)
(* What is left of the register of ProfileRegister where the file system    *)
(* may let a save down (`trouble`: the disk is full, the move fails).  It   *)
(* is less than the header promises: such a save may leave a list that      *)
(* ends early, down to none at all.  But what is kept still comes of one    *)
(* save, from its first printer on; it is never a mixture of two saves, and *)
(* a save that is not let down, though it may be killed, is the register's. *)
(***************************************************************************)
EXTENDS ProfileRegister

VARIABLE trouble

oneSaveVars == <<memory, kept, trouble>>

OneSaveInit == RegisterInit /\ trouble = FALSE

\* Trouble comes, and is over when the next save begins.
Trouble == trouble' \in BOOLEAN /\ UNCHANGED registerVars

\* What is kept is cut off behind any printer.
SaveBadly ==
    /\ trouble
    /\ \E n \in 0 .. Len(Storable(memory)) : kept' = SubSeq(Storable(memory), 1, n)
    /\ UNCHANGED <<memory, trouble>>

OneSaveNext == (RegisterNext /\ UNCHANGED trouble) \/ Trouble \/ SaveBadly

OneSaveSpec == OneSaveInit /\ [][OneSaveNext]_oneSaveVars
=============================================================================
