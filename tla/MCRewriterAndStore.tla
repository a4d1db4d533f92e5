-------------------------- MODULE MCRewriterAndStore --------------------------
(* What a job leaves behind: its output, line by line, and the file of profiles. *)
(* They share no state; one is at rest while the other moves.                    *)
EXTENDS MCGcodeRewriter, MCProfileStore

VARIABLE part

NoFile ==
    /\ MCInit
    /\ <<scan, plan, options>> = CHOOSE call \in CapJob.scans \X CapJob.plans \X CapJob.options : TRUE

BothInit ==
    \/ part = "rewriter" /\ MCInit /\ StoreInit
    \/ part = "store" /\ NoFile /\ StoreInit

BothNext ==
    /\ UNCHANGED part
    /\ \/ part = "rewriter" /\ MCNext /\ ExtractWritten /\ UNCHANGED storeVars
       \/ part = "store" /\ StoreNext /\ UNCHANGED comparedVars

BothSpec == BothInit /\ [][BothNext]_<<part, comparedVars, storeVars>>
===============================================================================
