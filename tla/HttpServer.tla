----------------------------- MODULE HttpServer -----------------------------
(***************************************************************************)
(* The server behind the web UI (HttpServer.cpp): one thread accepts, one   *)
(* per connection reads a request to its end, hands it to the web UI and    *)
(* sends the answer.  What a client has sent arrives in pieces of any size; *)
(* a client may send nothing more, or go away, at any point.                *)
(*                                                                         *)
(* On the wire is a sequence of units: the request line, further header     *)
(* lines, the two line ends that close the header, and the characters of    *)
(* the body.  `raw` is what has been received; the body is what of it stands *)
(* behind the header.                                                      *)
(***************************************************************************)
EXTENDS WebUI

CONSTANTS
    Connections,
    Requests(_),    \* what the client of a connection may send
    MaxBody,        \* kMaxBody
    BufferSize,     \* the size of recv's buffer
    Configs         \* the limits in the estimator's config.json

ASSUME ServerAssumption == MaxBody \in Nat /\ BufferSize \in Nat \ {0}

VARIABLES
    sent,           \* what the client of each connection means to send
    wire,           \* the part of it that has not been received
    client,         \* it is sending, has gone quiet, or is gone
    stage,          \* where the connection's thread stands
    raw,            \* what has been received
    request,        \* the request handed to the handler
    answer          \* the status it was answered with, or 0

serverVars == <<sent, wire, client, stage, raw, request, answer>>

HeaderLine == [is : {"length", "header"}, value : Nat]

\* A client sends header lines and text.
ASSUME RequestsAreText ==
    \A c \in Connections : \A r \in Requests(c) :
        r.headers \in Seq(HeaderLine) /\ r.query \in Seq(STRING) /\ r.body \in Seq(STRING)

\* The estimator writes limits, 0 for one that it does not set, and every checker once.
ASSUME ConfigsAreWritten ==
    \A values \in Configs :
        LET checkers == values.checkers
        IN  /\ values.maxVelocity \in Nat /\ values.maxAcceleration \in Nat
            /\ checkers \in Seq([name : STRING, velocity : Nat])
            /\ \A i, j \in DOMAIN checkers : checkers[i].name = checkers[j].name => i = j

Line(target) == [is |-> "line", value |-> target]
Length(n) == [is |-> "length", value |-> n]
Other == [is |-> "header", value |-> 0]
LineEnd == [is |-> "end", value |-> 0]
Char(c) == [is |-> "char", value |-> c]

\* A client's request: the target, its query behind the ?, header lines and body.
OnTheWire(r) ==
    <<Line([path |-> r.path, query |-> r.query])>> \o r.headers
        \o <<LineEnd, LineEnd>> \o [i \in DOMAIN r.body |-> Char(r.body[i])]

\* What Fields makes of every part of a form, evaluated once.
Parsed ==
    LET requests == UNION {Requests(c) : c \in Connections}
        Parts(text) == {SubSeq(text, 1, n) : n \in 0 .. Len(text)}
    IN  [text \in UNION {Parts(r.body) \cup Parts(r.query) : r \in requests}
            |-> Fields(text)]

NoRequest == [path |-> "none", body |-> <<>>, fields |-> <<>>]

ServerInit ==
    /\ sent \in {f \in [Connections -> UNION {Requests(c) : c \in Connections}] :
                    \A c \in Connections : f[c] \in Requests(c)}
    /\ wire = [c \in Connections |-> OnTheWire(sent[c])]
    /\ client = [c \in Connections |-> "sending"]
    /\ stage = [c \in Connections |-> "connecting"]
    /\ raw = [c \in Connections |-> <<>>]
    /\ request = [c \in Connections |-> NoRequest]
    /\ answer = [c \in Connections |-> 0]

-----------------------------------------------------------------------------

GoTo(c, place) == stage' = [stage EXCEPT ![c] = place]

\* Clients are quiet or gone at any point, some from the start.
ClientStops(c) ==
    /\ client[c] = "sending"
    /\ \E how \in {"quiet", "gone"} : client' = [client EXCEPT ![c] = how]
    /\ UNCHANGED <<sent, wire, stage, raw, request, answer>>

\* Mutant of FreeToAccept: one thread for all.
FreeToAcceptAlone(c) == \A d \in Connections : stage[d] \in {"connecting", "closed"}

\* The accepting thread does nothing but accept.
FreeToAccept(c) == TRUE

Accept(c) ==
    /\ stage[c] = "connecting" /\ FreeToAccept(c)
    /\ GoTo(c, "head")
    /\ UNCHANGED <<sent, wire, client, raw, request, answer>>

\* recv: between one unit and a full buffer of what the client has sent.
Pieces(c) ==
    IF client[c] = "sending"
    THEN {SubSeq(wire[c], 1, n) : n \in 1 .. Min({BufferSize, Len(wire[c])})} ELSE {}

Receive(c, piece) ==
    /\ raw' = [raw EXCEPT ![c] = @ \o piece]
    /\ wire' = [wire EXCEPT ![c] = SubSeq(@, Len(piece) + 1, Len(@))]

\* Mutant of QuietTooLong: the receive timeout is not set.
NeverQuietTooLong(c) == FALSE

\* SO_RCVTIMEO has passed without anything to receive.
QuietTooLong(c) == client[c] = "quiet" \/ (client[c] = "sending" /\ wire[c] = <<>>)

\* recv returns 0 or an error.
ReceivesNothing(c) == client[c] = "gone" \/ QuietTooLong(c)

\* The place of the two line ends in a row, or 0.
HeaderEnd(text) ==
    LET ends == {i \in 1 .. Len(text) - 1 : text[i].is = "end" /\ text[i + 1].is = "end"}
    IN  IF ends = {} THEN 0 ELSE Min(ends)

\* What to do next when this has been received.
Waiting(text) ==
    IF HeaderEnd(text) # 0 THEN "body" ELSE IF Len(text) > MaxBody THEN "closed" ELSE "head"

\* One turn of the loop that waits for the end of the header.
ReadHead(c) ==
    /\ stage[c] = "head"
    /\ \E piece \in Pieces(c) :
          /\ Receive(c, piece)
          /\ GoTo(c, Waiting(raw[c] \o piece))
    /\ UNCHANGED <<sent, client, request, answer>>

HeadEnds(c) ==
    /\ stage[c] = "head"
    /\ ReceivesNothing(c)
    /\ GoTo(c, "closed")
    /\ UNCHANGED <<sent, wire, client, raw, request, answer>>

\* Of several Content-Length headers the first.
ContentLength(text) ==
    LET lengths == {i \in 1 .. HeaderEnd(text) : text[i].is = "length"}
    IN  IF lengths = {} THEN 0 ELSE Min({text[Min(lengths)].value, MaxBody})

Body(text) == SubSeq(text, HeaderEnd(text) + 2, Len(text))

BodyMissing(text) == Len(Body(text)) < ContentLength(text)

ReadBody(c) ==
    /\ stage[c] = "body" /\ BodyMissing(raw[c])
    /\ \E piece \in Pieces(c) : Receive(c, piece)
    /\ UNCHANGED <<sent, client, stage, request, answer>>

\* Mutant of Taken: what came with the header is not cut to the length.
TakenWhole(text) == Body(text)

\* What is not announced is left out.
Taken(text) == SubSeq(Body(text), 1, Min({ContentLength(text), Len(Body(text))}))

\* The body has come, or as much of it as will: nobody asks which.  The query
\* goes over the form.
Assemble(c) ==
    /\ stage[c] = "body"
    /\ ~BodyMissing(raw[c]) \/ ReceivesNothing(c)
    /\ LET units == Taken(raw[c])
           body == [i \in DOMAIN units |-> units[i].value]
           target == raw[c][1].value
       IN  request' = [request EXCEPT ![c] =
                          [path |-> target.path, body |-> body,
                           fields |-> Parsed[target.query] @@ Parsed[body]]]
    /\ GoTo(c, "handling")
    /\ UNCHANGED <<sent, wire, client, raw, answer>>

Handle(c) ==
    /\ stage[c] = "handling"
    /\ \E status \in Statuses(request[c]) : answer' = [answer EXCEPT ![c] = status]
    /\ GoTo(c, "sending")
    /\ UNCHANGED <<sent, wire, client, raw, request>>

\* sendAll, whose outcome is not looked at.
Send(c) ==
    /\ stage[c] = "sending"
    /\ GoTo(c, "closed")
    /\ UNCHANGED <<sent, wire, client, raw, request, answer>>

ServeStep(c) ==
    Accept(c) \/ ReadHead(c) \/ ReadBody(c) \/ Handle(c) \/ Send(c)
        \/ (Assemble(c) /\ ~BodyMissing(raw[c]))

GiveUp(c) == HeadEnds(c) \/ (Assemble(c) /\ BodyMissing(raw[c]))

ServerNext == \E c \in Connections : ServeStep(c) \/ GiveUp(c) \/ ClientStops(c)

\* Threads run, what a client sends arrives, handlers return, and an answer finds
\* room on its way.  That a silence ends is not assumed.
ServerSpec ==
    /\ ServerInit /\ [][ServerNext]_serverVars
    /\ \A c \in Connections : WF_serverVars(ServeStep(c))

-----------------------------------------------------------------------------
(***************************************************************************)
(* Properties                                                              *)
(***************************************************************************)

Handled(c) == request[c] # NoRequest

\* What of the body the client has announced and the server admits.
Announced(r) ==
    LET lengths == {i \in DOMAIN r.headers : r.headers[i].is = "length"}
    IN  IF lengths = {} THEN <<>>
        ELSE SubSeq(r.body, 1, Min({r.headers[Min(lengths)].value, MaxBody, Len(r.body)}))

\* The handler sees the announced body and nothing else, in whatever pieces it
\* came, and a part of it only from a client that stopped in the middle of it.
RequestIsWhole ==
    \A c \in Connections :
        Handled(c) =>
            /\ request[c].path = sent[c].path
            /\ IsPrefix(request[c].body, Announced(sent[c]))
            /\ client[c] = "sending" => request[c].body = Announced(sent[c])

\* What a form asks for, written over the limits of a configuration that has them.
Amended(values, asked) ==
    LET Or(new, old) == IF new > 0 /\ old > 0 THEN new ELSE old
        axis == {i \in DOMAIN values.checkers : values.checkers[i].name = "axis_limiter"}
    IN  [maxVelocity |-> Or(asked.maxVelocity, values.maxVelocity),
         maxAcceleration |-> Or(asked.maxAcceleration, values.maxAcceleration),
         checkers |-> [i \in DOMAIN values.checkers |->
                          IF i \in axis
                          THEN [values.checkers[i] EXCEPT !.velocity = Or(asked.zVelocity, @)]
                          ELSE values.checkers[i]]]

\* "leaving everything else -- notably move_checkers -- untouched": of a form that
\* has arrived whole every limit goes where it belongs in the configuration, and
\* nowhere else, although the checkers have keys of the same names.
LimitsGoWhereTheyBelong ==
    \A c \in Connections :
        stage[c] = "handling" /\ request[c].body = sent[c].body =>
            LET s == Settings(request[c].fields)
            IN  \A values \in Configs :
                    ConfigFor(ConfigText(values), s) = ConfigText(Amended(values, sent[c].asked))

\* A request that announces no more than it has, behind a header that is read.
Wellformed(r) ==
    /\ Len(r.headers) + 3 <= MaxBody
    /\ \A i \in DOMAIN r.headers :
          r.headers[i].is = "length" => r.headers[i].value <= Len(r.body)

\* Whoever sends a whole request is answered, however many others keep their
\* connections open and silent, for ever.
EveryRequestIsAnswered ==
    \A c \in Connections :
        client[c] = "sending" /\ Wellformed(sent[c])
            ~> answer[c] # 0 \/ client[c] # "sending"

\* A silent connection is closed in the end, because a receive times out.
QuietConnectionsEnd ==
    (\A c \in Connections : WF_serverVars(GiveUp(c)))
        => \A c \in Connections : <>(stage[c] = "closed")
=============================================================================
