------------------------------ MODULE GcodeText ------------------------------
(***************************************************************************)
(* The text layer the scanner and the rewriter share (GcodeText.cpp).      *)
(*                                                                         *)
(* A line is a record: what its prefix says it is, the numeric words of    *)
(* the command part, and the text that no word is read from (the trailing  *)
(* comment of a command, the value of a textual marker).                   *)
(*                                                                         *)
(* Every number is an integer count of HALVES of the last printed digit:   *)
(* half a mm/min for feedrates, half of 0.1 C for temperatures.  An even   *)
(* value prints as itself and an odd one is a tie, so a value that goes    *)
(* through text comes back rounded, exactly as the program's do.           *)
(***************************************************************************)
EXTENDS Integers

\* X stands for the X and Y words together: the plane is modelled by one axis.
\* V is the number behind the colon or equals sign of a marker comment.
Letters == {"X", "Z", "E", "F", "S", "V"}

Kinds == {"move", "arc", "temp", "advance", "height", "zheight", "width", "type",
          "end", "header", "macro", "stamp", "M82", "M83", "G90", "G91", "G92", "other",
          "printer_settings_id", "filament_settings_id", "filament_type",
          "estimate"}

IsLine(line) ==
    /\ DOMAIN line = {"kind", "words", "text"}
    /\ line.kind \in Kinds
    /\ DOMAIN line.words \subseteq Letters
    /\ \A letter \in DOMAIN line.words : line.words[letter] \in Int
    /\ line.text \in STRING

\* word(line, letter): a word is looked for in the command part only.
Has(line, letter) == letter \in DOMAIN line.words
Word(line, letter, default) ==
    IF Has(line, letter) THEN line.words[letter] ELSE default

\* Prints "LETTER number" at the end of a command line.  A line that carries a
\* trailing comment takes the word into the comment, where no reader finds it.
AppendWord(line, letter, value) ==
    IF line.text # "" THEN line
    ELSE [line EXCEPT !.words = [c \in DOMAIN @ \cup {letter} |->
                                     IF c = letter THEN value ELSE @[c]]]

IsMove(line) == line.kind = "move"

\* Mutant of IsExtrudingMove: whatever pushes filament counts.
IsPushingMove(line) == IsMove(line) /\ Word(line, "E", 0) > 0

\* Unretractions and primes push filament as well, but do not travel.
IsExtrudingMove(line) ==
    /\ IsMove(line)
    /\ Word(line, "E", 0) > 0
    /\ Has(line, "X")

\* formatNumber: std::to_chars rounds an exact tie to the even digit.
FormatNumber(value) ==
    IF value % 2 = 0 THEN value
    ELSE IF (value \div 2) % 2 = 0 THEN value - 1
    ELSE value + 1

\* std::round: ties go away from zero.
Round(value) ==
    IF value % 2 = 0 THEN value
    ELSE IF value > 0 THEN value + 1
    ELSE value - 1
=============================================================================
