--------------------------- MODULE MCProfileStore ---------------------------
(* Printers that share a name or have none, with no, one and two filaments,   *)
(* braces in their names and macros, numbers of more digits than are printed. *)
EXTENDS ProfileStore, Functions

Fil(name, lowFlow) == [name |-> name, type |-> "PETG", lowFlow |-> lowFlow]
Prt(name, macro, speed, filaments) ==
    [name |-> name, rise |-> 7, startMacro |-> macro, maxVelocity |-> speed,
     filaments |-> filaments]

Edited == Prt("A", "open{", 255, <<Fil("F", 3), Fil("", 4)>>)
Braced == Prt("close}", "M1", 0, <<Fil("open{", 100)>>)
Nameless == Prt("", "M1", 0, <<>>)
MCBackslashTails == {"dir\\"}
Windows == Prt("dir\\", "M1", 250, <<Fil("F", 3)>>)
Another == Prt("B", "M1", 250, <<>>)

MCPrinters == {Edited, Braced, Nameless}

\* Up to `n` printers, as the user enters them or as they are loaded, with the
\* scalar that is written last or without it.
Lists(entered, n) ==
    LET loaded == UNION {Range(Storable(<<printer>>)) : printer \in entered}
        cut == {[printer EXCEPT !.maxVelocity = 0] : printer \in loaded}
    IN  {list \in UNION {[1 .. k -> entered \cup loaded \cup cut] : k \in 0 .. n} :
            IsInjective([i \in DOMAIN list |-> list[i].name])}

MCMemories ==
    Lists({Edited, Braced}, 2) \cup {<<Nameless>>, <<Nameless, Braced>>}

WindowsPrinters == {Windows, Another}
WindowsMemories == Lists(WindowsPrinters, 2)
=============================================================================
