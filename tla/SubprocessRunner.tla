--------------------------- MODULE SubprocessRunner ---------------------------
(***************************************************************************)
(* SubprocessRunner::run (platform/SubprocessRunner.cpp): one run of the    *)
(* external estimator per thread.  The web server gives every connection a  *)
(* thread, so several runs proceed at once and share one handle table.      *)
(*                                                                         *)
(* CreateProcess hands the child EVERY inheritable handle the process holds *)
(* at that moment, the write ends of the other runs' pipes among them.  The *)
(* reader of a pipe sees its end when the last write end is closed, in this *)
(* process and in every child.  Until SetHandleInformation has been called   *)
(* the read ends can be inherited too, by a child that never reads from       *)
(* them; they are left out, since nothing in run() waits for a read end to    *)
(* be closed.                                                              *)
(*                                                                         *)
(* Output is counted in chunks, and a pipe holds PipeCap of them.  The      *)
(* child is external: it writes what it has to write, blocks on a full      *)
(* pipe, may close its ends before it exits, and may crash.                 *)
(***************************************************************************)
EXTENDS Naturals, FiniteSets

CONSTANTS
    Runs,           \* threads inside run()
    PipeCap,        \* chunks a pipe holds
    Outputs         \* what a child may have to write: chunks per stream

Streams == {"out", "err"}

ASSUME RunnerAssumption ==
    IsFiniteSet(Runs) /\ PipeCap \in Nat \ {0} /\ Outputs \subseteq [Streams -> Nat]

Pipes == Runs \X Streams

VARIABLES
    pc,             \* where each thread is
    writeEnds,      \* the pipes whose write end this process holds
    inherited,      \* the pipes whose write end a run's child holds
    child,          \* each run's child: none, running, exited
    left,           \* the chunks the child has still to write
    wrote,          \* the chunks it has written
    pipe,           \* the chunks in each pipe
    captured,       \* the chunks appended to result.stdOut and result.stdErr
    reading,        \* the streams a drain loop of the run still reads
    result          \* what run() returned

parentVars == <<pc, writeEnds, captured, reading, result>>
runnerVars == <<parentVars, inherited, child, left, wrote, pipe>>

RunnerInit ==
    /\ pc = [r \in Runs |-> "called"]
    /\ writeEnds = {}
    /\ inherited = [r \in Runs |-> {}]
    /\ child = [r \in Runs |-> "none"]
    /\ \E output \in [Runs -> Outputs] : left = [p \in Pipes |-> output[p[1]][p[2]]]
    /\ wrote = [p \in Pipes |-> 0]
    /\ pipe = [p \in Pipes |-> 0]
    /\ captured = [p \in Pipes |-> 0]
    /\ reading = [r \in Runs |-> {}]
    /\ result = [r \in Runs |-> "none"]

Return(r, what) ==
    /\ pc' = [pc EXCEPT ![r] = "returned"]
    /\ result' = [result EXCEPT ![r] = what]

\* What Handle's destructors leave open.
Released(r) == writeEnds \ ({r} \X Streams)

\* Two calls of CreatePipe: another run's child may be started between them, and
\* either may fail.
CreatePipe(r) ==
    /\ pc[r] \in {"called", "piping"}
    /\ \/ /\ pc' = [pc EXCEPT ![r] = IF pc[r] = "called" THEN "piping" ELSE "launching"]
          /\ writeEnds' = writeEnds \cup {<<r, IF pc[r] = "called" THEN "out" ELSE "err">>}
          /\ UNCHANGED result
       \/ Return(r, "launchFailed") /\ writeEnds' = Released(r)
    /\ UNCHANGED <<inherited, child, left, wrote, pipe, captured, reading>>

\* CreateProcessW with bInheritHandles = TRUE.
Launch(r) ==
    /\ pc[r] = "launching"
    /\ pc' = [pc EXCEPT ![r] = "closing"]
    /\ child' = [child EXCEPT ![r] = "running"]
    /\ inherited' = [inherited EXCEPT ![r] = writeEnds]
    /\ UNCHANGED <<writeEnds, left, wrote, pipe, captured, reading, result>>

\* The executable could not be started.
LaunchFails(r) ==
    /\ pc[r] = "launching"
    /\ Return(r, "launchFailed")
    /\ writeEnds' = Released(r)
    /\ UNCHANGED <<inherited, child, left, wrote, pipe, captured, reading>>

\* outWrite.reset(), then errWrite.reset().
Kept(p) == writeEnds \ {p}

CloseWriteEnd(r) ==
    /\ pc[r] = "closing"
    /\ LET first == <<r, "out">> \in writeEnds
           p == IF first THEN <<r, "out">> ELSE <<r, "err">>
       IN  /\ writeEnds' = Kept(p)
           /\ IF first /\ <<r, "out">> \notin Kept(p)
              THEN UNCHANGED <<pc, reading>>
              ELSE /\ pc' = [pc EXCEPT ![r] = "draining"]
                   /\ reading' = [reading EXCEPT ![r] = Streams]
    /\ UNCHANGED <<inherited, child, left, wrote, pipe, captured, result>>

\* Mutant of Active: one thread reads stdout to its end before stderr.
ActiveInOrder(r) == IF "out" \in reading[r] THEN {"out"} ELSE reading[r]

\* A thread per stream: the caller drains stdout, errThread drains stderr.
Active(r) == reading[r]

\* ReadFile returns what is there.
ReadSome(r, s) ==
    /\ pc[r] = "draining" /\ s \in Active(r)
    /\ pipe[<<r, s>>] > 0
    /\ captured' = [captured EXCEPT ![<<r, s>>] = @ + pipe[<<r, s>>]]
    /\ pipe' = [pipe EXCEPT ![<<r, s>>] = 0]
    /\ UNCHANGED <<pc, writeEnds, inherited, child, left, wrote, reading, result>>

Writable(p) == p \in writeEnds \/ \E c \in Runs : p \in inherited[c]

\* ReadFile fails: the pipe is empty and nobody can write to it any more.
ReadEnd(r, s) ==
    /\ pc[r] = "draining" /\ s \in Active(r)
    /\ pipe[<<r, s>>] = 0 /\ ~Writable(<<r, s>>)
    /\ reading' = [reading EXCEPT ![r] = @ \ {s}]
    /\ UNCHANGED <<pc, writeEnds, inherited, child, left, wrote, pipe, captured, result>>

\* Mutant of Drained: errThread is not joined.
DrainedOutOnly(r) == "out" \notin reading[r]

\* The caller has left its loop and errThread has been joined.
Drained(r) == reading[r] = {}

JoinDrains(r) ==
    /\ pc[r] = "draining" /\ Drained(r)
    /\ pc' = [pc EXCEPT ![r] = "waiting"]
    /\ UNCHANGED <<writeEnds, inherited, child, left, wrote, pipe, captured, reading, result>>

Signalled(r) == child[r] = "exited"

WaitEnds(r) ==
    /\ pc[r] = "waiting" /\ Signalled(r)
    /\ Return(r, "exitCode")
    /\ UNCHANGED <<writeEnds, inherited, child, left, wrote, pipe, captured, reading>>

\* WAIT_TIMEOUT: the child is terminated.
WaitTimesOut(r) ==
    /\ pc[r] = "waiting" /\ child[r] = "running"
    /\ Return(r, "timedOut")
    /\ child' = [child EXCEPT ![r] = "exited"]
    /\ inherited' = [inherited EXCEPT ![r] = {}]
    /\ UNCHANGED <<writeEnds, left, wrote, pipe, captured, reading>>

-----------------------------------------------------------------------------
(***************************************************************************)
(* The child.                                                              *)
(***************************************************************************)

\* Through the handle it was given as stdout or stderr; a full pipe blocks it.
ChildWrites(r, s) ==
    /\ child[r] = "running" /\ <<r, s>> \in inherited[r]
    /\ left[<<r, s>>] > 0 /\ pipe[<<r, s>>] < PipeCap
    /\ left' = [left EXCEPT ![<<r, s>>] = @ - 1]
    /\ wrote' = [wrote EXCEPT ![<<r, s>>] = @ + 1]
    /\ pipe' = [pipe EXCEPT ![<<r, s>>] = @ + 1]
    /\ UNCHANGED <<parentVars, inherited, child>>

HasWritten(r) == \A s \in Streams : left[<<r, s>>] = 0

\* Its own streams only: of the other handles it knows nothing.
ChildCloses(r) ==
    /\ child[r] = "running" /\ HasWritten(r)
    /\ inherited[r] \cap ({r} \X Streams) # {}
    /\ inherited' = [inherited EXCEPT ![r] = @ \ ({r} \X Streams)]
    /\ UNCHANGED <<parentVars, child, left, wrote, pipe>>

Ends(r) ==
    /\ child[r] = "running"
    /\ child' = [child EXCEPT ![r] = "exited"]
    /\ inherited' = [inherited EXCEPT ![r] = {}]
    /\ UNCHANGED <<parentVars, left, wrote, pipe>>

ChildExits(r) == HasWritten(r) /\ Ends(r)
ChildCrashes(r) == ~HasWritten(r) /\ Ends(r)

-----------------------------------------------------------------------------

\* The steps of the calling thread, and of errThread.
Caller(r) ==
    \/ CreatePipe(r) \/ Launch(r) \/ LaunchFails(r) \/ CloseWriteEnd(r)
    \/ ReadSome(r, "out") \/ ReadEnd(r, "out")
    \/ JoinDrains(r) \/ WaitEnds(r) \/ WaitTimesOut(r)
ErrThread(r) == ReadSome(r, "err") \/ ReadEnd(r, "err")
Child(r) == ChildExits(r) \/ \E s \in Streams : ChildWrites(r, s)

RunnerNext ==
    \E r \in Runs :
        Caller(r) \/ ErrThread(r) \/ Child(r) \/ ChildCloses(r) \/ ChildCrashes(r)

\* The threads of this process are scheduled and its waits expire; of a child
\* nothing is assumed.
RunnerSpec ==
    /\ RunnerInit /\ [][RunnerNext]_runnerVars
    /\ \A r \in Runs : WF_runnerVars(Caller(r)) /\ WF_runnerVars(ErrThread(r))

\* A child that can go on writing does, and exits when it has written it all.
LiveChildSpec == RunnerSpec /\ \A r \in Runs : WF_runnerVars(Child(r))

-----------------------------------------------------------------------------
(***************************************************************************)
(* Properties                                                              *)
(***************************************************************************)

\* A run that returns an exit code returns it of a child that has exited, with
\* every chunk the child wrote to either stream: the dump the parser is given is
\* never cut short by the runner.
ReturnsWholeOutput ==
    \A r \in Runs : result[r] = "exitCode" =>
        /\ child[r] = "exited"
        /\ \A s \in Streams : captured[<<r, s>>] = wrote[<<r, s>>]

\* Whatever a child writes, and whichever of the other runs' handles it holds,
\* every run returns as long as children that can go on do: neither a full
\* stderr pipe nor the write ends that concurrent runs leak into each other's
\* children lock the runs up.
EveryRunReturns == \A r \in Runs : (pc[r] = "called") ~> (pc[r] = "returned")

\* "timeout": a run returns whatever its child does.
TimeoutEndsRun == \A r \in Runs : (pc[r] = "draining") ~> (pc[r] = "returned")
=============================================================================
