-------------------------------- MODULE WebUI --------------------------------
(***************************************************************************)
(* What the web UI makes of a request (WebUI.cpp): its form fields, the      *)
(* settings read from them, the printer limits written over a copy of the   *)
(* estimator's config.json, and the status of the answer.                   *)
(*                                                                         *)
(* Names and values of a form are sequences of characters, because a form   *)
(* that is cut off ends in the middle of one.  config.json is a sequence of *)
(* tokens: keys with their colons, numbers and brackets.                    *)
(***************************************************************************)
EXTENDS Integers, FiniteSets, SequencesExt, FiniteSetsExt, TLC

CONSTANTS
    NumberOf(_),    \* std::stod: the number a value spells, or NotANumber
    NotANumber

-----------------------------------------------------------------------------
(***************************************************************************)
(* Form fields                                                             *)
(***************************************************************************)

\* Mutant of Fields: the part behind the last & is left out.
FieldsButTheLast(body) ==
    LET amps == {i \in DOMAIN body : body[i] = "&"}
        starts == {start \in {1} \cup {i + 1 : i \in amps} :
                      \E amp \in amps : amp >= start}
        Piece(start) == SubSeq(body, start, Min({i \in amps : i >= start}) - 1)
        Equal(piece) == {i \in DOMAIN piece : piece[i] = "="}
        Name(piece) == SubSeq(piece, 1, Min(Equal(piece)) - 1)
        pairs == {start \in starts : Equal(Piece(start)) # {}}
    IN  [name \in {Name(Piece(start)) : start \in pairs} |->
            LET piece == Piece(Max({start \in pairs : Name(Piece(start)) = name}))
            IN  SubSeq(piece, Min(Equal(piece)) + 1, Len(piece))]

\* parseFields: the pieces between the & that have a = , the first of which ends
\* the name; of two with one name the later stays.
Fields(body) ==
    LET amps == {i \in DOMAIN body : body[i] = "&"}
        Piece(start) ==
            SubSeq(body, start, Min({Len(body) + 1} \cup {i \in amps : i >= start}) - 1)
        Equal(piece) == {i \in DOMAIN piece : piece[i] = "="}
        Name(piece) == SubSeq(piece, 1, Min(Equal(piece)) - 1)
        pairs == {start \in {1} \cup {i + 1 : i \in amps} : Equal(Piece(start)) # {}}
    IN  [name \in {Name(Piece(start)) : start \in pairs} |->
            LET piece == Piece(Max({start \in pairs : Name(Piece(start)) = name}))
            IN  SubSeq(piece, Min(Equal(piece)) + 1, Len(piece))]

\* Request::field and Request::number.
Field(fields, name) == IF name \in DOMAIN fields THEN fields[name] ELSE <<>>

Number(fields, name, fallback) ==
    LET value == Field(fields, name)
    IN  IF value = <<>> \/ NumberOf(value) = NotANumber THEN fallback ELSE NumberOf(value)

\* readSettings, of which the printer limits are kept.  0 leaves the limit alone.
Settings(fields) ==
    [maxVelocity |-> Number(fields, <<"v">>, 0),
     maxAcceleration |-> Number(fields, <<"a">>, 0),
     zVelocity |-> Number(fields, <<"z">>, 0)]

-----------------------------------------------------------------------------
(***************************************************************************)
(* The estimator's configuration                                           *)
(***************************************************************************)

Key(name) == [is |-> "key", text |-> name]
Num(n) == [is |-> "number", text |-> n]
Mark(bracket) == [is |-> "mark", text |-> bracket]

\* A position of 0 is npos.
FirstFrom(json, token, from) ==
    LET at == {i \in from .. Len(json) : json[i].is = token.is /\ json[i].text = token.text}
    IN  IF at = {} THEN 0 ELSE Min(at)

\* Only what stands in front of the move_checkers is top level.
OverrideConfigValue(json, key, value) ==
    LET checkers == FirstFrom(json, Key("move_checkers"), 1)
        at == FirstFrom(json, Key(key), 1)
    IN  IF value <= 0 \/ at = 0 \/ (checkers # 0 /\ at > checkers) THEN json
        ELSE [json EXCEPT ![at + 1] = Num(value)]

\* The bracket that closes the object that opens at `open`.
CloseOf(json, open) ==
    LET Count(bracket, i) ==
            Cardinality({j \in open .. i : json[j].is = "mark" /\ json[j].text = bracket})
        closes == {i \in open .. Len(json) : Count("{", i) = Count("}", i)}
    IN  IF closes = {} THEN 0 ELSE Min(closes)

\* Within the named object.
OverrideNestedValue(json, section, key, value) ==
    LET sectionAt == FirstFrom(json, Key(section), 1)
        open == FirstFrom(json, Mark("{"), sectionAt)
        close == CloseOf(json, open)
        at == FirstFrom(json, Key(key), open)
    IN  IF value <= 0 \/ sectionAt = 0 \/ open = 0 THEN json
        ELSE IF close = 0 \/ at = 0 \/ at > close THEN json
        ELSE [json EXCEPT ![at + 1] = Num(value)]

OverridesPrinterLimits(s) == s.maxVelocity > 0 \/ s.maxAcceleration > 0 \/ s.zVelocity > 0

\* The configuration the estimator is run with.
ConfigFor(json, s) ==
    IF ~OverridesPrinterLimits(s) THEN json
    ELSE LET velocity == OverrideConfigValue(json, "max_velocity", s.maxVelocity)
             both == OverrideConfigValue(velocity, "max_acceleration", s.maxAcceleration)
         IN  OverrideNestedValue(both, "axis_limiter", "max_velocity", s.zVelocity)

\* config.json as the estimator writes it: a limit of 0 is not there, and the
\* checkers, which have limits of their own, are last.
Entry(name, n) == IF n = 0 THEN <<>> ELSE <<Key(name), Num(n)>>
ConfigText(values) ==
    LET Checker(checker) ==
            <<Mark("{"), Key(checker.name), Mark("{")>>
                \o Entry("max_velocity", checker.velocity) \o <<Mark("}"), Mark("}")>>
    IN  <<Mark("{")>> \o Entry("max_velocity", values.maxVelocity)
            \o Entry("max_acceleration", values.maxAcceleration)
            \o <<Key("move_checkers"), Mark("[")>>
            \o FlattenSeq([i \in DOMAIN values.checkers |-> Checker(values.checkers[i])])
            \o <<Mark("]"), Mark("}")>>

-----------------------------------------------------------------------------

\* The statuses a request may be answered with: what a job reports is in
\* ProcessJobs, an exception is answered with a 500.
Statuses(request) ==
    IF request.path \in {"/", "/index.html", "/api/version", "/api/browse"} THEN {200}
    ELSE IF request.path \notin {"/api/analyze", "/api/process"} THEN {404}
    ELSE IF Field(request.fields, <<"p">>) = <<>> THEN {400}
    ELSE {200, 400, 500}
=============================================================================
