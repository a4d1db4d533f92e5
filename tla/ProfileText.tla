----------------------------- MODULE ProfileText -----------------------------
(***************************************************************************)
(* The text of profiles.json (ProfileStore.cpp): what toJson writes, and    *)
(* what fromJson makes of a text, whole or cut off at any point.            *)
(*                                                                         *)
(* A text is a sequence of tokens: brackets, keys (each with its colon),    *)
(* strings and numbers.  Of a string the reader notices more than its       *)
(* spelling: whether it ends in a backslash, which toJson doubles and       *)
(* matchBrace then takes for the escape of the closing quote, and whether   *)
(* it holds a brace.  Of the scalars of a printer and of a filament those   *)
(* are kept that show their order and their types.                          *)
(***************************************************************************)
EXTENDS Naturals, FiniteSets, SequencesExt, FiniteSetsExt

CONSTANTS
    BackslashTails,     \* the strings that end in a backslash
    Opening,            \* the strings that hold a {
    Closing,            \* the strings that hold a }
    Digits              \* 6: the significant digits an ostream prints

ASSUME TextAssumption ==
    /\ Opening \cap Closing = {}
    /\ "" \notin BackslashTails \cup Opening \cup Closing
    /\ Digits \in Nat \ {0}

SavedFilament == [name : STRING, type : STRING, lowFlow : Nat]
SavedPrinter == [name : STRING, rise : Nat, startMacro : STRING, maxVelocity : Nat,
                 filaments : Seq(SavedFilament)]

DefaultFilament == [name |-> "", type |-> "PLA", lowFlow |-> 1]
DefaultPrinter == [name |-> "", rise |-> 5, startMacro |-> "PRINT_START",
                   maxVelocity |-> 0, filaments |-> <<>>]

-----------------------------------------------------------------------------
(***************************************************************************)
(* Writing                                                                 *)
(***************************************************************************)

\* 10 ^ d.  That of Digits is the first number of more digits than are printed.
TenTo[d \in 0 .. Digits] == IF d = 0 THEN 1 ELSE 10 * TenTo[d - 1]

\* operator<< of a double: the value rounded to Digits significant digits.
Printed(n) ==
    LET Unit[m \in 0 .. n] == IF m < TenTo[Digits] THEN 1 ELSE 10 * Unit[m \div 10]
        unit == Unit[n]
        rest == n % unit
        down == n - rest
    IN  IF 2 * rest < unit \/ (2 * rest = unit /\ (down \div unit) % 2 = 0)
        THEN down ELSE down + unit

Mark(bracket) == [is |-> "mark", text |-> bracket]
Key(name) == [is |-> "key", text |-> name]

\* quote() escapes quotes, backslashes, newlines, returns and tabs and drops every
\* other character below 0x20: the strings of the model hold none of those.
Quote(string) == [is |-> "string", text |-> string]
Num(n) == [is |-> "number", text |-> Printed(n)]

FilamentText(f) ==
    <<Mark("{"), Key("name"), Quote(f.name), Key("type"), Quote(f.type),
      Key("lowFlow"), Num(f.lowFlow), Mark("}")>>

\* Mutant of PrinterText: a scalar is written behind the filaments.
ScalarBehindFilaments(p) ==
    <<Mark("{"), Key("name"), Quote(p.name), Key("rise"), Num(p.rise),
      Key("startMacro"), Quote(p.startMacro), Key("filaments"), Mark("[")>>
        \o FlattenSeq([j \in DOMAIN p.filaments |-> FilamentText(p.filaments[j])])
        \o <<Mark("]"), Key("maxVelocity"), Num(p.maxVelocity), Mark("}")>>

PrinterText(p) ==
    <<Mark("{"), Key("name"), Quote(p.name), Key("rise"), Num(p.rise),
      Key("startMacro"), Quote(p.startMacro), Key("maxVelocity"), Num(p.maxVelocity),
      Key("filaments"), Mark("[")>>
        \o FlattenSeq([j \in DOMAIN p.filaments |-> FilamentText(p.filaments[j])])
        \o <<Mark("]"), Mark("}")>>

ToJson(list) ==
    <<Mark("{"), Key("printers"), Mark("[")>>
        \o FlattenSeq([i \in DOMAIN list |-> PrinterText(list[i])])
        \o <<Mark("]"), Mark("}")>>

-----------------------------------------------------------------------------
(***************************************************************************)
(* Reading.  A position of 0 is npos.                                      *)
(***************************************************************************)

FirstOf(positions) == IF positions = {} THEN 0 ELSE Min(positions)

IsMark(token, bracket) == token.is = "mark" /\ token.text = bracket

\* The brace a character search meets in a token.
Brace(token) ==
    IF token.is = "mark" THEN token.text
    ELSE IF token.is = "string" /\ token.text \in Opening THEN "{"
    ELSE IF token.is = "string" /\ token.text \in Closing THEN "}" ELSE ""

\* The quote in front of the value, or the key, that is spelled like the key:
\* the search knows no difference.  The value is behind the next colon.
Spelled(token, key) == token.is \in {"key", "string"} /\ token.text = key

KeyAt(text, key, from, to) ==
    LET at == FirstOf({i \in from .. Len(text) : Spelled(text[i], key)})
        colon == FirstOf({i \in at .. Len(text) : text[i].is = "key"})
    IN  IF at = 0 \/ at >= to \/ colon \in {0, Len(text)} THEN 0 ELSE colon + 1

\* The closing quote of such a string does not end it for matchBrace.
EscapesQuote(token) == token.is = "string" /\ token.text \in BackslashTails

\* Brackets of the text count outside of quotes, those of a string where the
\* search takes its inside for the outside.
Counts(inString, token) == IF token.is = "string" THEN inString ELSE ~inString

\* The bracket that brings the depth back to 0.  A search that starts at a brace
\* inside a string meets the string's closing quote first.
MatchBrace(text, open) ==
    LET bracket == Brace(text[open])
        close == IF bracket = "{" THEN "}" ELSE "]"
        quotes == {i \in open .. Len(text) : EscapesQuote(text[i])}
                      \cup (IF text[open].is = "string" THEN {open} ELSE {})
        toggles == IF text[open].is = "string" /\ EscapesQuote(text[open])
                   THEN quotes \ {open} ELSE quotes
        InString(i) == Cardinality({j \in toggles : j < i}) % 2 = 1
        counted == {i \in open .. Len(text) :
                       i = open \/ Counts(InString(i), text[i])}
        opens == {i \in counted : Brace(text[i]) = bracket}
        closes == {i \in counted : Brace(text[i]) = close}
    IN  FirstOf({i \in closes : Cardinality({j \in closes : j <= i})
                                     = Cardinality({j \in opens : j <= i})})

\* A printer's scalars end where its filaments begin.
ScalarsEnd(filamentsAt, close) == IF filamentsAt = 0 THEN close ELSE filamentsAt

\* readStr and readNum: a key that is missing, or has a value of another type,
\* leaves the default.
Read(text, key, type, default, from, to) ==
    LET at == KeyAt(text, key, from, to)
    IN  IF at = 0 \/ text[at].is # type THEN default ELSE text[at].text

FilamentAt(text, from, to) ==
    [name |-> Read(text, "name", "string", DefaultFilament.name, from, to),
     type |-> Read(text, "type", "string", DefaultFilament.type, from, to),
     lowFlow |-> Read(text, "lowFlow", "number", DefaultFilament.lowFlow, from, to)]

\* Where the objects of the list that opens `at` begin and end.  One whose brace
\* is never closed ends the list; a list whose bracket is never closed goes on to
\* the end of the text.
Objects(text, at) ==
    LET matched == MatchBrace(text, at)
        end == IF matched = 0 THEN Len(text) + 1 ELSE matched
        from[cursor \in 1 .. (Len(text) + 1)] ==
            LET open == FirstOf({i \in cursor .. Len(text) : Brace(text[i]) = "{"})
                close == MatchBrace(text, open)
            IN  IF open = 0 \/ open >= end THEN <<>>
                ELSE IF close = 0 THEN <<>>
                ELSE <<[open |-> open, close |-> close]>> \o from[close + 1]
    IN  from[at + 1]

\* What has no name is left out.
Named(things) ==
    FlattenSeq([i \in DOMAIN things |->
                   IF things[i].name = "" THEN <<>> ELSE <<things[i]>>])

FilamentsAt(text, at) ==
    LET places == Objects(text, at)
    IN  Named([i \in DOMAIN places |-> FilamentAt(text, places[i].open, places[i].close)])

PrinterAt(text, from, to) ==
    LET filamentsAt == KeyAt(text, "filaments", from, to)
        end == ScalarsEnd(filamentsAt, to)
        Scalar(key, type) == Read(text, key, type, DefaultPrinter[key], from, end)
    IN  [name |-> Scalar("name", "string"),
         rise |-> Scalar("rise", "number"),
         startMacro |-> Scalar("startMacro", "string"),
         maxVelocity |-> Scalar("maxVelocity", "number"),
         filaments |-> IF filamentsAt # 0 /\ IsMark(text[filamentsAt], "[")
                       THEN FilamentsAt(text, filamentsAt) ELSE <<>>]

FromJson(text) ==
    LET printersAt == KeyAt(text, "printers", 1, Len(text) + 1)
        places == Objects(text, printersAt)
    IN  IF printersAt = 0 THEN <<>>
        ELSE IF ~IsMark(text[printersAt], "[") THEN <<>>
        ELSE Named([i \in DOMAIN places |->
                       PrinterAt(text, places[i].open, places[i].close)])

\* A printer as profiles.json can hold it: what has no name is not read, and
\* numbers have the digits that are printed.
Storable(list) ==
    LET OfFilament(f) == [f EXCEPT !.lowFlow = Printed(@)]
        OfPrinter(p) ==
            [p EXCEPT !.rise = Printed(@), !.maxVelocity = Printed(@),
                      !.filaments = LET named == Named(p.filaments)
                                    IN  [j \in DOMAIN named |-> OfFilament(named[j])]]
        named == Named(list)
    IN  [i \in DOMAIN named |-> OfPrinter(named[i])]
=============================================================================
