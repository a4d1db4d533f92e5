----------------------------- MODULE FlowSeconds -----------------------------
(* What the analyser hands to the planner and to the lookups (Model.hpp): a     *)
(* bucket's end in time and in filament, its average and its highest flow.      *)
EXTENDS Integers, Sequences

FlowSecond == [time : Nat, averageFlow : Nat, maxFlow : Nat, usedFilament : Nat]
=============================================================================
