----------------------------- MODULE ProcessJobs -----------------------------
(***************************************************************************)
(* The jobs that turn one G-code file into another: runProcess of the       *)
(* command line (main.cpp), which a slicer calls on its own output, and the *)
(* web UI's /api/analyze and /api/process (WebUI.cpp), a thread for each     *)
(* connection.                                                             *)
(* They share nothing but the directory the file is in, which none of them  *)
(* locks: every job reads the file three times and writes its output at the *)
(* end.                                                                    *)
(*                                                                         *)
(* A file's content is what it was made from: how often the tool has        *)
(* rewritten it, by whom, whether it has the header line behind which the    *)
(* rewriter puts its stamp, whether it is complete, and whether the rewrite  *)
(* read the very content that had been scanned and estimated.               *)
(***************************************************************************)
EXTENDS Integers, FiniteSets

CONSTANTS
    CliJobs,        \* runs of the command line
    WebJobs,        \* requests to /api/analyze and /api/process
    Limit           \* 1000: the numbers tried for an output name stop below it

ASSUME JobsAssumption ==
    /\ CliJobs \cap WebJobs = {} /\ IsFiniteSet(CliJobs \cup WebJobs)
    /\ {"slicer", "nobody"} \cap (CliJobs \cup WebJobs) = {}
    /\ Limit \in Nat /\ Limit >= 3

Jobs == CliJobs \cup WebJobs

\* Output names: 1 is stem + suffix, n > 1 is stem + suffix + "-n".
Numbers == 1 .. (Limit - 1)
Input == 0
Names == {Input} \cup Numbers

Content == [by : Jobs \cup {"slicer"}, runs : Nat, header : BOOLEAN, whole : BOOLEAN,
            consistent : BOOLEAN]
Absent == [by |-> "nobody", runs |-> 0, header |-> FALSE, whole |-> FALSE,
           consistent |-> FALSE]
Sliced(header) == [by |-> "slicer", runs |-> 0, header |-> header, whole |-> TRUE,
                   consistent |-> TRUE]

VARIABLES
    files,          \* the contents of the directory
    link,           \* the output name that is a hard link to the input, or Input
    pc,             \* where each job stands
    seen,           \* the contents of the input a job has read
    number,         \* the output name: --out's, or where a web job has arrived
    scratch,        \* the job's scratch directory exists
    staged,         \* the file in it, or Absent
    outcome,        \* what the job reported
    before          \* the jobs that had succeeded when a web job chose its name

jobVars == <<files, link, pc, seen, number, scratch, staged, outcome, before>>

Stages == {"called", "scanned", "extracted", "estimated", "naming", "named",
           "rewritten", "copying", "ended"}
Outcomes == {"none", "refused", "failed", "succeeded", "crashed"}

\* The output names that exist already may be anything the slicer or an earlier
\* job left there.  A command without --out has the input's name.
JobsInit ==
    /\ link \in Names
    /\ \E header \in BOOLEAN :
          files \in {f \in [Names -> {Sliced(header), Absent}] :
                       /\ f[Input] = Sliced(header)
                       /\ link # Input => f[link] = Absent}
    /\ pc = [j \in Jobs |-> "called"]
    /\ seen = [j \in Jobs |-> {}]
    /\ number \in {n \in [Jobs -> Names] : \A j \in WebJobs : n[j] = Input}
    /\ scratch = [j \in Jobs |-> FALSE]
    /\ staged = [j \in Jobs |-> Absent]
    /\ outcome = [j \in Jobs |-> "none"]
    /\ before = [j \in Jobs |-> {}]

\* The file behind a name.
Behind(name) == IF name = link THEN Input ELSE name
Exists(name) == files[Behind(name)] # Absent

-----------------------------------------------------------------------------

GoTo(j, stage) == pc' = [pc EXCEPT ![j] = stage]

End(j, what) ==
    /\ GoTo(j, "ended")
    /\ outcome' = [outcome EXCEPT ![j] = what]

\* remove_all: whatever is in the scratch directory goes with it.
Clean(j) ==
    /\ scratch' = [scratch EXCEPT ![j] = FALSE]
    /\ staged' = [staged EXCEPT ![j] = Absent]

\* Mutant of CleanOnError: the return in the middle forgets the scratch directory.
CleanOnErrorForgotten(j) == UNCHANGED <<scratch, staged>>

CleanOnError(j) == Clean(j)

SeeInput(j) == seen' = [seen EXCEPT ![j] = @ \cup {files[Input]}]

\* Mutant of Accepts: the stamp is not looked for.
AcceptsStamped(content) == TRUE

\* A rewritten file carries the stamp if it has the line "; HEADER_BLOCK_START",
\* which no scan asks for.  The line stands at the front of the file, so an
\* incomplete output is stamped as well.
Stamped(content) == content.header /\ content.runs > 0

\* The scan refuses what carries the tool's stamp.
Accepts(content) == ~Stamped(content)

\* First reading.  A job may be refused before it, for want of a file or an
\* estimator, and any file for its modes or its markers.
Scan(j) ==
    /\ pc[j] = "called"
    /\ SeeInput(j)
    /\ \/ Accepts(files[Input]) /\ GoTo(j, "scanned") /\ UNCHANGED outcome
       \/ End(j, "refused")
    /\ UNCHANGED <<files, link, number, scratch, staged, before>>

\* Second reading: the body goes to a scratch file, and with it a printer
\* configuration if the request amends it.
Extract(j) ==
    /\ pc[j] = "scanned"
    /\ SeeInput(j)
    /\ scratch' = [scratch EXCEPT ![j] = TRUE]
    /\ GoTo(j, "extracted")
    /\ UNCHANGED <<files, link, number, staged, outcome, before>>

\* The estimator runs; the web handler removes its scratch file right behind it.
Estimate(j) ==
    /\ pc[j] = "extracted"
    /\ GoTo(j, "estimated")
    /\ IF j \in WebJobs THEN Clean(j) ELSE UNCHANGED <<scratch, staged>>
    /\ UNCHANGED <<files, link, seen, number, outcome, before>>

EstimateFails(j) ==
    /\ pc[j] = "extracted"
    /\ End(j, "failed")
    /\ CleanOnError(j)
    /\ UNCHANGED <<files, link, seen, number, before>>

\* The dump is parsed, analysed and planned.
Plan(j) ==
    /\ pc[j] = "estimated"
    /\ GoTo(j, IF j \in WebJobs THEN "naming" ELSE "named")
    /\ before' = [before EXCEPT ![j] = {k \in Jobs : outcome[k] = "succeeded"}]
    /\ UNCHANGED <<files, link, seen, number, scratch, staged, outcome>>

\* /api/analyze is answered from the plan.
Analyze(j) ==
    /\ j \in WebJobs /\ pc[j] = "estimated"
    /\ End(j, "succeeded")
    /\ UNCHANGED <<files, link, seen, number, scratch, staged, before>>

PlanFails(j) ==
    /\ pc[j] = "estimated"
    /\ End(j, "failed")
    /\ CleanOnError(j)
    /\ UNCHANGED <<files, link, seen, number, before>>

\* The first name is compared with the input.
RefuseSuffix(j) ==
    /\ pc[j] = "naming" /\ number[j] = Input
    /\ link = 1
    /\ End(j, "refused")
    /\ UNCHANGED <<files, link, seen, number, scratch, staged, before>>

FirstName(j) ==
    /\ pc[j] = "naming" /\ number[j] = Input
    /\ link # 1
    /\ number' = [number EXCEPT ![j] = 1]
    /\ UNCHANGED <<files, link, pc, seen, scratch, staged, outcome, before>>

\* Mutant of TryNext: the loop's condition is tested once only.
TryNextOnce(n) == n = 1 /\ Exists(n)

\* exists(candidate) && n < 1000: the last name is taken without a look at it.
TryNext(n) == Exists(n) /\ n + 1 < Limit

\* One turn of the loop.  Between two turns, and between the last one and the
\* copy, other jobs run.
ProbeName(j) ==
    /\ pc[j] = "naming" /\ number[j] # Input
    /\ IF TryNext(number[j])
       THEN number' = [number EXCEPT ![j] = @ + 1] /\ UNCHANGED pc
       ELSE GoTo(j, "named") /\ UNCHANGED number
    /\ UNCHANGED <<files, link, seen, scratch, staged, outcome, before>>

\* Third reading: the file is rewritten into the scratch directory.  Nobody looks
\* at the stream, so a full disk truncates the output without a word.
Rewrite(j) ==
    /\ pc[j] = "named"
    /\ SeeInput(j)
    /\ scratch' = [scratch EXCEPT ![j] = TRUE]
    /\ \E complete \in BOOLEAN :
          staged' = [staged EXCEPT ![j] =
                        [by |-> j, runs |-> files[Input].runs + 1,
                         header |-> files[Input].header,
                         whole |-> complete /\ files[Input].whole,
                         consistent |-> seen'[j] = {files[Input]}]]
    /\ GoTo(j, "rewritten")
    /\ UNCHANGED <<files, link, number, outcome, before>>

RewriteFails(j) ==
    /\ pc[j] = "named"
    /\ SeeInput(j)
    /\ End(j, "failed")
    /\ CleanOnError(j)
    /\ UNCHANGED <<files, link, number, before>>

\* Without --out the command line overwrites its input.
Target(j) == Behind(number[j])

\* copy_file with overwrite_existing: the target is truncated, then filled.
BeginCopy(j) ==
    /\ pc[j] = "rewritten"
    /\ files' = [files EXCEPT ![Target(j)] = [staged[j] EXCEPT !.whole = FALSE]]
    /\ GoTo(j, "copying")
    /\ UNCHANGED <<link, seen, number, scratch, staged, outcome, before>>

EndCopy(j) ==
    /\ pc[j] = "copying"
    /\ files' = [files EXCEPT ![Target(j)] = staged[j]]
    /\ End(j, "succeeded")
    /\ Clean(j)
    /\ UNCHANGED <<link, seen, number, before>>

\* The target cannot be written or filled.  The web handler hands the same ec to
\* remove_all before it looks at it, and so reports a success.
CopyFails(j) ==
    /\ pc[j] \in {"rewritten", "copying"}
    /\ End(j, IF j \in WebJobs THEN "succeeded" ELSE "failed")
    /\ Clean(j)
    /\ UNCHANGED <<files, link, seen, number, before>>

\* A process is killed: everything stays as it is.  The web jobs share one.
Crash(dead) ==
    /\ \E j \in dead : pc[j] # "ended"
    /\ pc' = [j \in Jobs |-> IF j \in dead THEN "ended" ELSE pc[j]]
    /\ outcome' = [j \in Jobs |-> IF j \in dead /\ pc[j] # "ended"
                                  THEN "crashed" ELSE outcome[j]]
    /\ UNCHANGED <<files, link, seen, number, scratch, staged, before>>

CrashCli == \E j \in CliJobs : Crash({j})
CrashServer == Crash(WebJobs)

JobStep(j) ==
    \/ Scan(j) \/ Extract(j) \/ Estimate(j) \/ EstimateFails(j)
    \/ Plan(j) \/ PlanFails(j) \/ Analyze(j)
    \/ RefuseSuffix(j) \/ FirstName(j) \/ ProbeName(j)
    \/ Rewrite(j) \/ RewriteFails(j)
    \/ BeginCopy(j) \/ EndCopy(j) \/ CopyFails(j)

JobsNext == (\E j \in Jobs : JobStep(j)) \/ CrashCli \/ CrashServer

JobsSpec == JobsInit /\ [][JobsNext]_jobVars

-----------------------------------------------------------------------------
(***************************************************************************)
(* Properties                                                              *)
(***************************************************************************)

\* "The original is never modified": whatever the directory holds, links to the
\* input included, no request to the web UI writes to the input.  Excepted is a
\* link under the last name, the one that is taken without a look.
WebKeepsInput ==
    [][(files'[Input] # files[Input] /\ link # Limit - 1)
          => files'[Input].by \in CliJobs]_jobVars

\* Every job that was not killed has removed its scratch directory, on whichever
\* of its returns it left.
ScratchRemoved ==
    \A j \in Jobs : outcome[j] \in {"refused", "failed", "succeeded"} => ~scratch[j]

\* "The output is marked so it cannot be processed twice": no file is rewritten
\* twice, to its end, by a job that read one and the same content three times.
NeverProcessedTwice ==
    \A name \in Names :
        files[name].consistent /\ files[name].whole => files[name].runs <= 1

\* What the code keeps of it: the stamp stops the second hook that runs on a file
\* with a header block, in any interleaving.  (Other files are not stamped, and a
\* job whose input is replaced behind its scan is not stopped.)
StampedRunsOnce ==
    \A name \in Names :
        files[name].consistent /\ files[name].header => files[name].runs <= 1

\* A web job that starts to look for a name when another has succeeded settles on
\* another name than that of the other's output, until the numbers run out.
SecondRunIsNumbered ==
    \A j, k \in WebJobs :
        j \in before[k] /\ pc[k] = "named" /\ files[number[j]].by = j
            => number[k] # number[j] \/ number[k] = Limit - 1

\* "Never clobber a previous run": what a web job writes to is not the output of
\* another one.
NeverClobbers ==
    [][\A name \in Numbers :
          /\ files'[name] # files[name]
          /\ {files[name].by, files'[name].by} \subseteq WebJobs
          => files'[name].by = files[name].by]_jobVars
=============================================================================
