-------------------------- MODULE MCSubprocessRunner --------------------------
(* Two concurrent runs over pipes of one chunk: children that write nothing,   *)
(* that overfill stderr, and that fill both pipes.                             *)
EXTENDS SubprocessRunner

Output(out, err) == [s \in Streams |-> IF s = "out" THEN out ELSE err]
MCOutputs == {Output(0, 0), Output(1, 2), Output(2, 1)}
OneChunk == {Output(1, 0)}
=============================================================================
