---------------------------- MODULE MCHttpServer ----------------------------
(* One client posts a form, with a length that is right, too long or missing;    *)
(* the other only asks for a page, with a header that is short or too long.    *)
EXTENDS HttpServer

CONSTANTS first, second

\* One digit and two digits; anything else spells no number.
MCNumberOf(value) ==
    CASE value = <<"2">> -> 2 [] value = <<"2", "5">> -> 25 [] value = <<"7">> -> 7
      [] OTHER -> NotANumber

Nothing == [maxVelocity |-> 0, maxAcceleration |-> 0, zVelocity |-> 0]

Post(n, query, body, asked) ==
    [path |-> "/api/analyze", query |-> query, headers |-> <<Length(n)>>,
     body |-> body, asked |-> asked]

Velocities == <<"p", "=", "f", "&", "v", "=", "2", "5">>
Overridden == <<"z", "=", "2", "5", "&", "z", "=", "2">>
Asked(v, z) == [Nothing EXCEPT !.maxVelocity = v, !.zVelocity = z]

Forms ==
    {Post(8, <<>>, Velocities, Asked(25, 0)),
     Post(8, <<"v", "=", "7">>, Overridden, Asked(7, 2)),
     Post(12, <<>>, <<"v", "=", "x">>, Asked(0, 0)),
     [Post(0, <<"a", "=", "7">>, <<"v">>, [Nothing EXCEPT !.maxAcceleration = 7])
         EXCEPT !.headers = <<>>]}

Page(path, headers) ==
    [path |-> path, query |-> <<>>, headers |-> headers, body |-> <<>>, asked |-> Nothing]

Pages == {Page("/", <<>>), Page("/favicon.ico", [i \in 1 .. 9 |-> Other])}

MCRequests(c) == IF c = first THEN Forms ELSE Pages

Checker(name, velocity) == [name |-> name, velocity |-> velocity]

MCConfigs ==
    {[maxVelocity |-> 300, maxAcceleration |-> 5,
      checkers |-> <<Checker("axis_limiter", 15), Checker("extruder_limiter", 75)>>],
     [maxVelocity |-> 0, maxAcceleration |-> 5,
      checkers |-> <<Checker("extruder_limiter", 75), Checker("axis_limiter", 15)>>],
     [maxVelocity |-> 300, maxAcceleration |-> 0,
      checkers |-> <<Checker("axis_limiter", 0), Checker("extruder_limiter", 75)>>]}
=============================================================================
