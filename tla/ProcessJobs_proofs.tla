--------------------------- MODULE ProcessJobs_proofs ---------------------------
(***************************************************************************)
(* For any number of commands and requests on one directory: every job that *)
(* is answered has cleaned up behind itself, a stamp stops a second run     *)
(* over one content, and the web UI leaves its input alone.                 *)
(***************************************************************************)
EXTENDS ProcessJobs, TLAPS

Working == {"rewritten", "copying"}
Accepted == {"scanned", "extracted", "estimated", "naming", "named"}

JobsTypeOK ==
    /\ files \in [Names -> Content \cup {Absent}]
    /\ link \in Names
    /\ pc \in [Jobs -> Stages]
    /\ seen \in [Jobs -> SUBSET (Content \cup {Absent})]
    /\ number \in [Jobs -> Names]
    /\ scratch \in [Jobs -> BOOLEAN]
    /\ staged \in [Jobs -> Content \cup {Absent}]
    /\ outcome \in [Jobs -> Outcomes]

\* A scratch directory is only there while its job still has a return to come
\* that removes it.
ScratchHeld ==
    \A j \in Jobs :
        /\ outcome[j] \in {"refused", "failed", "succeeded"} => pc[j] = "ended" /\ ~scratch[j]
        /\ pc[j] \in {"called", "scanned", "naming"} => ~scratch[j]
        /\ j \in WebJobs /\ pc[j] = "estimated" => ~scratch[j]

\* What was scanned and accepted is among what the job has read.
AcceptedSeen ==
    \A j \in Jobs : pc[j] \in Accepted => \E c \in seen[j] : Accepts(c)

OnceIfConsistent(content) == content.consistent /\ content.header => content.runs <= 1

\* What a job is about to copy is its own rewrite.
StagedIsOwn ==
    \A j \in Jobs : pc[j] \in Working =>
        /\ staged[j].by = j
        /\ staged[j].runs >= 1
        /\ OnceIfConsistent(staged[j])

\* The input is always there, so a web job settles on a link to it only where it
\* no longer looks.
NameIsFree ==
    \A j \in WebJobs : pc[j] \in Working \cup {"named"} =>
        /\ number[j] # Input
        /\ number[j] = link => link = Limit - 1

InputExists == files[Input] # Absent

JobsInv ==
    /\ JobsTypeOK
    /\ ScratchHeld
    /\ AcceptedSeen
    /\ StagedIsOwn
    /\ NameIsFree
    /\ InputExists
    /\ StampedRunsOnce

LEMMA InitialJobs == JobsInit => JobsInv
<1> SUFFICES ASSUME JobsInit PROVE JobsInv
    OBVIOUS
<1> USE JobsAssumption DEF JobsInit
<1>2. PICK header \in BOOLEAN :
          /\ files \in [Names -> {Sliced(header), Absent}]
          /\ files[Input] = Sliced(header)
    OBVIOUS
<1> DEFINE sliced == Sliced(header)
<1>1. sliced \in Content /\ sliced # Absent /\ sliced.runs = 0 /\ ~Absent.consistent
    BY DEF Sliced, Content, Absent
<1> HIDE DEF sliced
<1>7. files \in [Names -> {sliced, Absent}] /\ files[Input] = sliced
    BY <1>2 DEF sliced
<1>3. JobsTypeOK
    BY <1>1, <1>7 DEF JobsTypeOK, Stages, Outcomes
<1>4. StampedRunsOnce
    BY <1>1, <1>7 DEF StampedRunsOnce
<1>5. InputExists
    BY <1>1, <1>7 DEF InputExists
<1>6. ScratchHeld /\ AcceptedSeen /\ StagedIsOwn /\ NameIsFree
    BY DEF ScratchHeld, AcceptedSeen, StagedIsOwn, NameIsFree, Accepted, Working, Jobs
<1> QED
    BY <1>3, <1>4, <1>5, <1>6 DEF JobsInv

\* The steps that leave the directory as it is.
LEMMA QuietStep ==
    ASSUME JobsInv, NEW j \in Jobs,
           \/ Scan(j) \/ Extract(j) \/ Estimate(j) \/ EstimateFails(j)
           \/ Plan(j) \/ PlanFails(j) \/ Analyze(j)
           \/ RefuseSuffix(j) \/ FirstName(j) \/ ProbeName(j)
           \/ RewriteFails(j) \/ CopyFails(j)
    PROVE  JobsInv'
<1> USE JobsAssumption DEF Jobs, Input
<1>1. JobsTypeOK /\ ScratchHeld /\ AcceptedSeen /\ StagedIsOwn /\ NameIsFree
      /\ InputExists /\ StampedRunsOnce
    BY DEF JobsInv
<1>2. files[Input] \in Content \cup {Absent}
    BY <1>1 DEF JobsTypeOK, Names
<1> DEFINE Step == \/ Scan(j) \/ Extract(j) \/ Estimate(j) \/ EstimateFails(j)
                   \/ Plan(j) \/ PlanFails(j) \/ Analyze(j)
                   \/ RefuseSuffix(j) \/ FirstName(j) \/ ProbeName(j)
                   \/ RewriteFails(j) \/ CopyFails(j)
<1>3. files' = files /\ link' = link
    BY DEF Scan, Extract, Estimate, EstimateFails, Plan, PlanFails, Analyze, RefuseSuffix,
           FirstName, ProbeName, RewriteFails, CopyFails
<1>4. ASSUME Scan(j) PROVE JobsInv'
  <2>1. JobsTypeOK'
    BY <1>1, <1>2, <1>4 DEF JobsTypeOK, Scan, SeeInput, GoTo, End, Stages, Outcomes
  <2>2. ScratchHeld' /\ StagedIsOwn' /\ NameIsFree'
    BY <1>1, <1>4 DEF JobsTypeOK, ScratchHeld, StagedIsOwn, NameIsFree, Working, OnceIfConsistent,
                      Scan, SeeInput, GoTo, End
  <2>3. AcceptedSeen'
    BY <1>1, <1>4 DEF JobsTypeOK, AcceptedSeen, Accepted, Accepts, Scan, SeeInput, GoTo, End
  <2> QED
    BY <1>1, <1>3, <2>1, <2>2, <2>3 DEF JobsInv, InputExists, StampedRunsOnce
<1>5. ASSUME Extract(j) \/ RewriteFails(j) PROVE JobsInv'
  <2>1. JobsTypeOK'
    <3>1. CASE Extract(j)
        BY <1>1, <1>2, <3>1 DEF JobsTypeOK, Extract, SeeInput, GoTo, Stages
    <3>2. CASE RewriteFails(j)
        BY <1>1, <1>2, <3>2 DEF JobsTypeOK, RewriteFails, SeeInput, GoTo, End, CleanOnError, Clean,
                                Stages, Outcomes
    <3> QED
        BY <1>5, <3>1, <3>2
  <2>2. ScratchHeld'
    BY <1>1, <1>5 DEF JobsTypeOK, ScratchHeld, Extract, RewriteFails, SeeInput, GoTo, End,
                      CleanOnError, Clean
  <2>3. StagedIsOwn' /\ NameIsFree'
    BY <1>1, <1>5 DEF JobsTypeOK, StagedIsOwn, NameIsFree, Working, OnceIfConsistent,
                      Extract, RewriteFails, SeeInput, GoTo, End, CleanOnError, Clean
  <2>4. AcceptedSeen'
    BY <1>1, <1>5 DEF JobsTypeOK, AcceptedSeen, Accepted, Extract, RewriteFails, SeeInput, GoTo, End
  <2> QED
    BY <1>1, <1>3, <2>1, <2>2, <2>3, <2>4 DEF JobsInv, InputExists, StampedRunsOnce
<1>6. ASSUME Estimate(j) \/ EstimateFails(j) \/ PlanFails(j) \/ CopyFails(j) PROVE JobsInv'
  <2>1. JobsTypeOK'
    BY <1>1, <1>6 DEF JobsTypeOK, Estimate, EstimateFails, PlanFails, CopyFails, GoTo, End,
                      CleanOnError, Clean, Stages, Outcomes
  <2>2. ScratchHeld'
    BY <1>1, <1>6 DEF JobsTypeOK, ScratchHeld, Estimate, EstimateFails, PlanFails, CopyFails,
                      GoTo, End, CleanOnError, Clean
  <2>3. StagedIsOwn' /\ NameIsFree'
    BY <1>1, <1>6 DEF JobsTypeOK, StagedIsOwn, NameIsFree, Working, OnceIfConsistent,
                      Estimate, EstimateFails, PlanFails, CopyFails, GoTo, End, CleanOnError, Clean
  <2>4. AcceptedSeen'
    BY <1>1, <1>6 DEF JobsTypeOK, AcceptedSeen, Accepted, Estimate, EstimateFails, PlanFails,
                      CopyFails, GoTo, End
  <2> QED
    BY <1>1, <1>3, <2>1, <2>2, <2>3, <2>4 DEF JobsInv, InputExists, StampedRunsOnce
<1>7. ASSUME Plan(j) \/ Analyze(j) \/ RefuseSuffix(j) PROVE JobsInv'
  <2>1. JobsTypeOK'
    BY <1>1, <1>7 DEF JobsTypeOK, Plan, Analyze, RefuseSuffix, GoTo, End, Stages, Outcomes
  <2>2. ScratchHeld'
    BY <1>1, <1>7 DEF JobsTypeOK, ScratchHeld, Plan, Analyze, RefuseSuffix, GoTo, End
  <2>3. StagedIsOwn' /\ NameIsFree'
    BY <1>1, <1>7 DEF JobsTypeOK, StagedIsOwn, NameIsFree, Working, OnceIfConsistent,
                      Plan, Analyze, RefuseSuffix, GoTo, End
  <2>4. AcceptedSeen'
    BY <1>1, <1>7 DEF JobsTypeOK, AcceptedSeen, Accepted, Plan, Analyze, RefuseSuffix, GoTo, End
  <2> QED
    BY <1>1, <1>3, <2>1, <2>2, <2>3, <2>4 DEF JobsInv, InputExists, StampedRunsOnce
<1>8. ASSUME FirstName(j) \/ ProbeName(j) PROVE JobsInv'
  <2>1. JobsTypeOK'
    BY <1>1, <1>8 DEF JobsTypeOK, FirstName, ProbeName, TryNext, Names, Numbers, GoTo, Stages
  <2>2. ScratchHeld' /\ StagedIsOwn' /\ AcceptedSeen'
    BY <1>1, <1>8 DEF JobsTypeOK, ScratchHeld, StagedIsOwn, AcceptedSeen, Accepted, Working,
                      OnceIfConsistent, FirstName, ProbeName, GoTo
  <2>3. NameIsFree'
    <3>1. ASSUME pc[j] = "naming", number[j] # Input, ~TryNext(number[j]), number[j] = link
          PROVE  link = Limit - 1
        BY <1>1, <3>1 DEF JobsTypeOK, TryNext, Exists, Behind, InputExists, Names, Numbers
    <3> QED
        BY <1>1, <1>8, <3>1 DEF JobsTypeOK, NameIsFree, Working, FirstName, ProbeName, GoTo
  <2> QED
    BY <1>1, <1>3, <2>1, <2>2, <2>3 DEF JobsInv, InputExists, StampedRunsOnce
<1> QED
    BY <1>4, <1>5, <1>6, <1>7, <1>8

LEMMA RewriteStep ==
    ASSUME JobsInv, NEW j \in Jobs, Rewrite(j)
    PROVE  JobsInv'
<1> USE JobsAssumption DEF Jobs, Input
<1>1. JobsTypeOK /\ ScratchHeld /\ AcceptedSeen /\ StagedIsOwn /\ NameIsFree
      /\ InputExists /\ StampedRunsOnce
    BY DEF JobsInv
<1> DEFINE read == files[Input]
<1>2. read \in Content \cup {Absent}
    BY <1>1 DEF JobsTypeOK, Names
<1>3. read.runs \in Nat /\ read.header \in BOOLEAN
  <2> HIDE DEF read
  <2>1. CASE read = Absent
    BY <2>1 DEF Absent
  <2>2. CASE read \in Content
    BY <2>2 DEF Content
  <2> QED
    BY <1>2, <2>1, <2>2
<1>4. PICK complete \in BOOLEAN :
          staged' = [staged EXCEPT ![j] =
              [by |-> j, runs |-> read.runs + 1, header |-> read.header,
               whole |-> complete /\ read.whole, consistent |-> seen'[j] = {read}]]
    BY DEF Rewrite
<1> DEFINE new == [by |-> j, runs |-> read.runs + 1, header |-> read.header,
                   whole |-> complete /\ read.whole, consistent |-> seen'[j] = {read}]
<1>5. new \in Content
  <2>1. (complete /\ read.whole) \in BOOLEAN /\ (seen'[j] = {read}) \in BOOLEAN
    BY Zenon
  <2> QED
    BY <1>3, <2>1 DEF Content
<1>6. OnceIfConsistent(new)
  <2> SUFFICES ASSUME new.consistent, new.header PROVE new.runs <= 1
    BY DEF OnceIfConsistent
  <2>3. seen'[j] = {read} /\ read.header
    OBVIOUS
  <2>1. seen'[j] = seen[j] \cup {read}
    BY <1>1 DEF Rewrite, SeeInput, JobsTypeOK
  <2>2. \E c \in seen[j] : Accepts(c)
    BY <1>1 DEF AcceptedSeen, Accepted, Rewrite
  <2> QED
    <3>2. Accepts(read)
        BY <2>1, <2>2, <2>3, Zenon
    <3>1. read.runs = 0
        BY <1>3, <2>3, <3>2 DEF Accepts, Stamped
    <3> QED
        BY <3>1
<1> HIDE DEF new
<1>7. staged' = [staged EXCEPT ![j] = new]
    BY <1>4 DEF new
<1>8. new.by = j /\ new.runs >= 1
    BY <1>3 DEF new
<1>9. JobsTypeOK'
    BY <1>1, <1>2, <1>5, <1>7 DEF JobsTypeOK, Rewrite, SeeInput, GoTo, Stages
<1>10. ScratchHeld' /\ AcceptedSeen' /\ NameIsFree'
    BY <1>1 DEF JobsTypeOK, ScratchHeld, AcceptedSeen, NameIsFree, Accepted, Working, Rewrite,
                SeeInput, GoTo
<1>11. StagedIsOwn'
    BY <1>1, <1>6, <1>7, <1>8 DEF JobsTypeOK, StagedIsOwn, Working, OnceIfConsistent, Rewrite, GoTo
<1> QED
    BY <1>1, <1>9, <1>10, <1>11 DEF JobsInv, InputExists, StampedRunsOnce, Rewrite

\* What a copy leaves at its target, half-way and at its end.
LEMMA Copied ==
    ASSUME JobsInv, NEW j \in Jobs, pc[j] \in Working,
           NEW content, content \in {staged[j], [staged[j] EXCEPT !.whole = FALSE]}
    PROVE  /\ content \in Content \cup {Absent}
           /\ content # Absent
           /\ content.by = j
           /\ OnceIfConsistent(content)
<1>1. staged[j] \in Content \cup {Absent}
    BY DEF JobsInv, JobsTypeOK
<1>2. staged[j].by = j /\ staged[j].runs >= 1 /\ OnceIfConsistent(staged[j])
    BY DEF JobsInv, StagedIsOwn
<1>3. staged[j] # Absent
    BY <1>2 DEF Absent
<1>4. staged[j] \in Content
    BY <1>1, <1>3
<1> SUFFICES ASSUME content = [staged[j] EXCEPT !.whole = FALSE]
             PROVE  /\ content \in Content
                    /\ content.by = j
                    /\ content.runs >= 1
                    /\ OnceIfConsistent(content)
    BY <1>2, <1>3, <1>4 DEF Absent
<1>5. content = [by |-> staged[j].by, runs |-> staged[j].runs, header |-> staged[j].header,
                 whole |-> FALSE, consistent |-> staged[j].consistent]
    BY <1>4 DEF Content
<1>6. /\ content.by = j /\ content.runs = staged[j].runs /\ content.header = staged[j].header
      /\ content.consistent = staged[j].consistent
    BY <1>2, <1>5
<1> QED
    BY <1>2, <1>4, <1>5, <1>6 DEF Content, OnceIfConsistent

LEMMA TargetIsName ==
    ASSUME JobsInv, NEW j \in Jobs
    PROVE  Target(j) \in Names
BY DEF JobsInv, JobsTypeOK, Target, Behind, Names

LEMMA CopyStep ==
    ASSUME JobsInv, NEW j \in Jobs, BeginCopy(j) \/ EndCopy(j)
    PROVE  JobsInv'
<1> USE JobsAssumption DEF Jobs
<1>1. JobsTypeOK /\ ScratchHeld /\ AcceptedSeen /\ StagedIsOwn /\ NameIsFree
      /\ InputExists /\ StampedRunsOnce
    BY DEF JobsInv
<1>2. pc[j] \in Working
    BY DEF BeginCopy, EndCopy, Working
<1>3. PICK content \in {staged[j], [staged[j] EXCEPT !.whole = FALSE]} :
          files' = [files EXCEPT ![Target(j)] = content]
    BY DEF BeginCopy, EndCopy
<1>4. content \in Content \cup {Absent} /\ content # Absent /\ OnceIfConsistent(content)
    BY <1>2, <1>3, Copied
<1>5. Target(j) \in Names
    BY TargetIsName
<1>6. files' \in [Names -> Content \cup {Absent}]
    BY <1>1, <1>3, <1>4 DEF JobsTypeOK
<1>7. StampedRunsOnce' /\ InputExists'
    BY <1>1, <1>3, <1>4, <1>5 DEF JobsTypeOK, StampedRunsOnce, InputExists, OnceIfConsistent, Names
<1>8. JobsTypeOK'
    BY <1>1, <1>6 DEF JobsTypeOK, BeginCopy, EndCopy, GoTo, End, Clean, Stages, Outcomes
<1>9. ScratchHeld' /\ AcceptedSeen' /\ NameIsFree'
    BY <1>1 DEF JobsTypeOK, ScratchHeld, AcceptedSeen, NameIsFree, Accepted, Working,
                BeginCopy, EndCopy, GoTo, End, Clean
<1>10. StagedIsOwn'
    BY <1>1 DEF JobsTypeOK, StagedIsOwn, Working, OnceIfConsistent, BeginCopy, EndCopy, GoTo, End, Clean
<1> QED
    BY <1>7, <1>8, <1>9, <1>10 DEF JobsInv

LEMMA CrashStep ==
    ASSUME JobsInv, NEW dead, Crash(dead)
    PROVE  JobsInv'
<1> USE DEF Crash
<1>1. JobsTypeOK'
    BY DEF JobsInv, JobsTypeOK, Stages, Outcomes
<1>2. ScratchHeld' /\ AcceptedSeen'
    BY DEF JobsInv, JobsTypeOK, ScratchHeld, AcceptedSeen, Accepted
<1>3. StagedIsOwn' /\ NameIsFree'
    BY DEF JobsInv, JobsTypeOK, StagedIsOwn, NameIsFree, Working, OnceIfConsistent, Jobs
<1> QED
    BY <1>1, <1>2, <1>3 DEF JobsInv, InputExists, StampedRunsOnce

LEMMA EveryJobStep == JobsInv /\ [JobsNext]_jobVars => JobsInv'
<1> SUFFICES ASSUME JobsInv, [JobsNext]_jobVars PROVE JobsInv'
    OBVIOUS
<1>1. CASE \E j \in Jobs : JobStep(j)
    BY <1>1, QuietStep, RewriteStep, CopyStep DEF JobStep
<1>2. CASE CrashCli \/ CrashServer
    BY <1>2, CrashStep DEF CrashCli, CrashServer
<1>3. CASE UNCHANGED jobVars
    BY <1>3 DEF jobVars, JobsInv, JobsTypeOK, ScratchHeld, AcceptedSeen, StagedIsOwn, NameIsFree,
                InputExists, StampedRunsOnce, OnceIfConsistent
<1> QED
    BY <1>1, <1>2, <1>3 DEF JobsNext

LEMMA JobsInvariant == JobsSpec => []JobsInv
BY InitialJobs, EveryJobStep, PTL DEF JobsSpec

\* Every job that was not killed has removed its scratch directory on whichever of
\* its returns it left, in any number of jobs.
THEOREM JobsCleanUp == JobsSpec => []ScratchRemoved
<1>1. JobsInv => ScratchRemoved
    BY DEF JobsInv, ScratchHeld, ScratchRemoved
<1> QED
    BY <1>1, JobsInvariant, PTL

\* A file with a header block is stamped, and the stamp stops a second run over one
\* and the same content, in any number of jobs and any interleaving.
THEOREM StampStopsSecondRun == JobsSpec => []StampedRunsOnce
<1>1. JobsInv => StampedRunsOnce
    BY DEF JobsInv
<1> QED
    BY <1>1, JobsInvariant, PTL

\* No request to the web UI writes to its input, links under a name it looks at
\* included.
THEOREM OriginalIsKept == JobsSpec => WebKeepsInput
<1>1. ASSUME JobsInv, [JobsNext]_jobVars, files'[Input] # files[Input], link # Limit - 1
      PROVE  files'[Input].by \in CliJobs
  <2>1. PICK j \in Jobs : BeginCopy(j) \/ EndCopy(j)
    BY <1>1 DEF JobsNext, JobStep, jobVars, CrashCli, CrashServer, Crash, Scan, Extract, Estimate,
                EstimateFails, Plan, PlanFails, Analyze, RefuseSuffix, FirstName, ProbeName,
                Rewrite, RewriteFails, CopyFails
  <2>2. PICK content \in {staged[j], [staged[j] EXCEPT !.whole = FALSE]} :
            files' = [files EXCEPT ![Target(j)] = content]
    BY <2>1 DEF BeginCopy, EndCopy
  <2>3. pc[j] \in Working
    BY <2>1 DEF BeginCopy, EndCopy, Working
  <2>4. Target(j) = Input /\ files'[Input] = content
    BY <1>1, <2>2 DEF JobsInv, JobsTypeOK, Names
  <2>5. content.by = j
    BY <1>1, <2>2, <2>3, Copied
  <2>6. j \notin WebJobs
    BY <1>1, <2>3, <2>4 DEF JobsInv, NameIsFree, Target, Behind
  <2> QED
    BY <2>4, <2>5, <2>6 DEF Jobs
<1> QED
    BY <1>1, JobsInvariant, PTL DEF JobsSpec, WebKeepsInput

-----------------------------------------------------------------------------
(***************************************************************************)
(* The numbering of the outputs.  Whoever had succeeded when a web job       *)
(* began to look for its name does nothing any more, so its output, if it is *)
(* there at all, is there when the other probes its name.                   *)
(***************************************************************************)

BeforeIsOver ==
    /\ before \in [Jobs -> SUBSET Jobs]
    /\ \A k \in Jobs : \A j \in before[k] : outcome[j] = "succeeded"

NumberInv == JobsInv /\ BeforeIsOver /\ SecondRunIsNumbered

LEMMA InitialNumbers == JobsInit => BeforeIsOver /\ SecondRunIsNumbered
BY DEF JobsInit, BeforeIsOver, SecondRunIsNumbered, Jobs

\* A job that has been answered takes no further step.
LEMMA AnsweredIsOver ==
    ASSUME JobsInv, NEW j \in Jobs, outcome[j] = "succeeded"
    PROVE  pc[j] = "ended" /\ ~JobStep(j)
<1>1. pc[j] = "ended"
    BY DEF JobsInv, ScratchHeld
<1> QED
    BY <1>1 DEF JobStep, Scan, Extract, Estimate, EstimateFails, Plan, PlanFails, Analyze, RefuseSuffix,
                FirstName, ProbeName, Rewrite, RewriteFails, BeginCopy, EndCopy, CopyFails

\* Answers stay, and so does who had been answered before.
LEMMA BeforeStep ==
    ASSUME JobsInv, BeforeIsOver, [JobsNext]_jobVars
    PROVE  BeforeIsOver'
<1> USE DEF JobsInv, JobsTypeOK
<1>1. ASSUME NEW j \in Jobs, outcome[j] = "succeeded" PROVE outcome'[j] = "succeeded"
  <2>1. pc[j] = "ended" /\ ~JobStep(j)
    BY <1>1, AnsweredIsOver
  <2>2. ASSUME NEW i \in Jobs, i # j, JobStep(i) PROVE outcome'[j] = outcome[j]
    BY <2>2 DEF JobStep, Scan, Extract, Estimate, EstimateFails, Plan, PlanFails, Analyze, RefuseSuffix,
                FirstName, ProbeName, Rewrite, RewriteFails, BeginCopy, EndCopy, CopyFails, End
  <2>3. CASE CrashCli \/ CrashServer
    BY <1>1, <2>1, <2>3 DEF CrashCli, CrashServer, Crash
  <2> QED
    BY <1>1, <2>1, <2>2, <2>3 DEF JobsNext, jobVars
<1>2. CASE \E k \in Jobs : Plan(k)
  <2>1. PICK k \in Jobs : Plan(k)
    BY <1>2
  <2>2. before' = [before EXCEPT ![k] = {i \in Jobs : outcome[i] = "succeeded"}]
    BY <2>1 DEF Plan
  <2> QED
    BY <1>1, <2>2 DEF BeforeIsOver
<1>3. CASE before' = before
  BY <1>1, <1>3 DEF BeforeIsOver
<1> QED
  BY <1>2, <1>3 DEF JobsNext, JobStep, jobVars, CrashCli, CrashServer, Crash, Scan, Extract, Estimate,
                    EstimateFails, PlanFails, Analyze, RefuseSuffix, FirstName, ProbeName,
                    Rewrite, RewriteFails, BeginCopy, EndCopy, CopyFails

\* A name that is settled on below the last is a name without a file.
LEMMA SettledNameIsFree ==
    ASSUME JobsInv, NEW k \in WebJobs, ProbeName(k), pc'[k] = "named",
           number[k] # Limit - 1
    PROVE  files[number[k]] = Absent /\ number'[k] = number[k]
<1>1. number[k] \in Numbers /\ k \in Jobs
  BY DEF JobsInv, JobsTypeOK, ProbeName, Names, Jobs
<1>2. ~TryNext(number[k])
  BY DEF ProbeName, GoTo
<1>3. ~Exists(number[k])
  BY <1>1, <1>2, JobsAssumption DEF TryNext, Numbers
<1> QED
  BY <1>1, <1>2, <1>3 DEF Exists, Behind, JobsInv, InputExists, ProbeName

LEMMA NumberStep ==
    ASSUME NumberInv, [JobsNext]_jobVars
    PROVE  SecondRunIsNumbered'
<1> USE DEF NumberInv
<1> SUFFICES ASSUME NEW j \in WebJobs, NEW k \in WebJobs,
                    j \in before'[k], pc'[k] = "named", files'[number'[j]].by = j
             PROVE  number'[k] # number'[j] \/ number'[k] = Limit - 1
  BY DEF SecondRunIsNumbered
<1>1. j \in Jobs /\ k \in Jobs /\ pc \in [Jobs -> Stages] /\ number \in [Jobs -> Names]
      /\ files \in [Names -> Content \cup {Absent}] /\ before \in [Jobs -> SUBSET Jobs]
  BY DEF Jobs, JobsInv, JobsTypeOK, BeforeIsOver
<1>2. j # "nobody"
  BY <1>1, JobsAssumption DEF Jobs
<1>3. ~Plan(k)
  BY <1>1 DEF Plan, GoTo
<1>4. before'[k] = before[k]
  BY <1>1, <1>3 DEF JobsNext, JobStep, jobVars, CrashCli, CrashServer, Crash, Scan, Extract, Estimate,
                    EstimateFails, Plan, PlanFails, Analyze, RefuseSuffix, FirstName, ProbeName,
                    Rewrite, RewriteFails, BeginCopy, EndCopy, CopyFails
<1>5. outcome[j] = "succeeded"
  BY <1>1, <1>4 DEF BeforeIsOver
<1>6. pc[j] = "ended" /\ ~JobStep(j)
  BY <1>1, <1>5, AnsweredIsOver DEF NumberInv
<1>7. number'[j] = number[j]
  BY <1>1, <1>6 DEF JobsNext, JobStep, jobVars, CrashCli, CrashServer, Crash, Scan, Extract, Estimate,
                    EstimateFails, Plan, PlanFails, Analyze, RefuseSuffix, FirstName, ProbeName,
                    Rewrite, RewriteFails, BeginCopy, EndCopy, CopyFails
<1>8. files[number[j]].by = j
  <2>1. CASE \E i \in Jobs : BeginCopy(i) \/ EndCopy(i)
    <3>1. PICK i \in Jobs : BeginCopy(i) \/ EndCopy(i)
      BY <2>1
    <3>2. i # j /\ pc[i] \in Working
      BY <1>6, <3>1 DEF JobStep, BeginCopy, EndCopy, Working
    <3>3. PICK content \in {staged[i], [staged[i] EXCEPT !.whole = FALSE]} :
              files' = [files EXCEPT ![Target(i)] = content]
      BY <3>1 DEF BeginCopy, EndCopy
    <3>4. content.by = i
      BY <3>2, <3>3, Copied
    <3>5. number[j] # Target(i)
      BY <1>1, <1>7, <3>2, <3>3, <3>4, TargetIsName
    <3> QED
      BY <1>1, <1>7, <3>3, <3>5
  <2>2. CASE files' = files
    BY <1>7, <2>2
  <2> QED
    BY <2>1, <2>2 DEF JobsNext, JobStep, jobVars, CrashCli, CrashServer, Crash, Scan, Extract, Estimate,
                      EstimateFails, Plan, PlanFails, Analyze, RefuseSuffix, FirstName, ProbeName,
                      Rewrite, RewriteFails, CopyFails
<1>9. CASE pc[k] = "named"
  <2>1. number'[k] = number[k]
    BY <1>1, <1>9 DEF JobsNext, JobStep, jobVars, CrashCli, CrashServer, Crash, Scan, Extract, Estimate,
                      EstimateFails, Plan, PlanFails, Analyze, RefuseSuffix, FirstName, ProbeName,
                      Rewrite, RewriteFails, BeginCopy, EndCopy, CopyFails
  <2>2. number[k] # number[j] \/ number[k] = Limit - 1
    BY <1>4, <1>8, <1>9 DEF SecondRunIsNumbered
  <2> QED
    BY <1>7, <2>1, <2>2
<1>10. CASE pc[k] # "named"
  <2>1. ProbeName(k)
    BY <1>1, <1>3, <1>10 DEF JobsNext, JobStep, jobVars, CrashCli, CrashServer, Crash, Scan, Extract,
                      Estimate, EstimateFails, Plan, PlanFails, Analyze, RefuseSuffix, FirstName, ProbeName,
                      Rewrite, RewriteFails, BeginCopy, EndCopy, CopyFails, GoTo, End
  <2>2. CASE number[k] = Limit - 1
    <3>1. ~TryNext(number[k])
      BY <2>2, JobsAssumption DEF TryNext
    <3> QED
      BY <2>1, <2>2, <3>1 DEF ProbeName
  <2>3. CASE number[k] # Limit - 1
    <3>1. files[number[k]] = Absent /\ number'[k] = number[k]
      BY <2>1, <2>3, SettledNameIsFree
    <3>2. number[k] # number[j]
      BY <1>2, <1>8, <3>1 DEF Absent
    <3> QED
      BY <1>7, <3>1, <3>2
  <2> QED
    BY <2>2, <2>3
<1> QED
  BY <1>9, <1>10

\* Two runs on one file leave two outputs: a web job that starts to look for a name
\* when another has succeeded settles on another name, until the numbers run out.
THEOREM SecondRunGetsItsOwnName == JobsSpec => []SecondRunIsNumbered
<1>1. JobsInv /\ BeforeIsOver /\ SecondRunIsNumbered /\ [JobsNext]_jobVars
        => BeforeIsOver' /\ SecondRunIsNumbered'
  BY BeforeStep, NumberStep DEF NumberInv
<1> QED
  BY <1>1, InitialNumbers, JobsInvariant, PTL DEF JobsSpec
=============================================================================
