------------------------------ MODULE Firmware ------------------------------
(***************************************************************************)
(* The printer the G-code is written for, as far as the rewriter's promises *)
(* mention it: modal feedrate, position, nozzle target, pressure advance,   *)
(* and the last motion it carried out.  External: nothing under src/        *)
(* implements it; it is what the rewriter assumes of its output's reader.   *)
(***************************************************************************)
EXTENDS GcodeText

Motions == {"none", "extrude", "retract", "travel"}

Motion == [op : Motions, feed : Int, length : Int, filament : Int]

Machine == [feed : Int, pos : Int, target : Int, advance : Int, last : Motion]

NeverSet == -1      \* a target or an advance nobody has asked for yet

IdleMachine ==
    [feed |-> 0, pos |-> 0, target |-> NeverSet, advance |-> NeverSet,
     last |-> [op |-> "none", feed |-> 0, length |-> 0, filament |-> 0]]

AbsDiff(a, b) == IF a < b THEN b - a ELSE a - b

MotionOf(m, line) ==
    LET e == Word(line, "E", 0)
        x == Word(line, "X", m.pos)
    IN  [op |-> IF e > 0 /\ Has(line, "X") THEN "extrude"
                ELSE IF e < 0 THEN "retract"
                ELSE "travel",
         feed |-> Word(line, "F", m.feed),
         length |-> AbsDiff(x, m.pos),
         filament |-> e]

\* One line of G-code; comments and markers do nothing.
Execute(m, line) ==
    CASE line.kind \in {"move", "arc"} ->
             [m EXCEPT !.feed = Word(line, "F", m.feed),
                       !.pos = Word(line, "X", m.pos),
                       !.last = MotionOf(m, line)]
      [] line.kind \in {"temp", "macro"} ->
             [m EXCEPT !.target = Word(line, "S", m.target)]
      [] line.kind = "advance" ->
             [m EXCEPT !.advance = Word(line, "S", m.advance)]
      [] OTHER -> m
=============================================================================
