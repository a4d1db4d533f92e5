----------------------------- MODULE MCProcessJobs -----------------------------
(* A command onto the input or onto the first output name and two web requests,   *)
(* three names of which the last is the one that is taken unseen.                 *)
EXTENDS ProcessJobs

MCJobsInit == JobsInit /\ \A j \in CliJobs : number[j] \in {Input, 1}

MCJobsSpec == MCJobsInit /\ [][JobsNext]_jobVars
===============================================================================
