--------------------------- MODULE ProfileRegister ---------------------------
(***************************************************************************)
(* What the profile store promises its user: profiles edited in memory,     *)
(* kept from one run of the program to the next.  "An interrupted save      *)
(* cannot destroy existing profiles" (ProfileStore.hpp:71) or "leave the    *)
(* user with a truncated profiles file" (ProfileStore.cpp:332): a save      *)
(* replaces what is kept in one step or not at all, and a crash costs no    *)
(* more than the edits since the last save.                                *)
(***************************************************************************)
EXTENDS Naturals, Sequences

CONSTANT Storable(_)    \* what of the profiles in memory can be kept

VARIABLES memory, kept

registerVars == <<memory, kept>>

RegisterInit == memory = <<>> /\ kept = <<>>

\* Whatever the user does to them.
Edit == UNCHANGED kept

Save == kept' = Storable(memory) /\ UNCHANGED memory

Restart == memory' = kept /\ UNCHANGED kept

RegisterNext == Edit \/ Save \/ Restart

RegisterSpec == RegisterInit /\ [][RegisterNext]_registerVars
=============================================================================
