----------------------------- MODULE MCEstimators -----------------------------
(* The two ways to time a print, one at a time: in the process, for a print or  *)
(* a body, or with the external estimator, for two jobs at once.                *)
EXTENDS MCInProcessEstimator, MCSubprocessRunner

VARIABLE estimator

NoPrint == ExtractorInit /\ MotionInit /\ moves = <<>>

NoRuns ==
    /\ pc = [r \in Runs |-> "returned"] /\ result = [r \in Runs |-> "none"]
    /\ child = [r \in Runs |-> "none"] /\ reading = [r \in Runs |-> {}]
    /\ writeEnds = {} /\ inherited = [r \in Runs |-> {}]
    /\ left = [p \in Pipes |-> 0] /\ wrote = left /\ pipe = left /\ captured = left

MCInit ==
    \/ estimator = "inProcess" /\ EstimatorInit /\ NoRuns
    \/ estimator = "external" /\ NoPrint /\ RunnerInit

MCNext ==
    /\ UNCHANGED estimator
    /\ \/ estimator = "inProcess" /\ EstimatorNext /\ UNCHANGED runnerVars
       \/ estimator = "external" /\ RunnerNext /\ UNCHANGED estimatorVars

\* The fairness of LiveChildSpec.
MCSpec ==
    /\ MCInit /\ [][MCNext]_<<estimator, estimatorVars, runnerVars>>
    /\ \A r \in Runs :
          /\ WF_runnerVars(Caller(r)) /\ WF_runnerVars(ErrThread(r))
          /\ WF_runnerVars(Child(r))
===============================================================================
