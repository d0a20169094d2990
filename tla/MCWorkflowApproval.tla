------------------------- MODULE MCWorkflowApproval -------------------------
(***************************************************************************)
(* WorkflowApproval with two risk managers and an auditor, an award that   *)
(* needs a risk manager, a settlement that needs an auditor, and a small   *)
(* award that stays below its threshold.                                   *)
(***************************************************************************)
EXTENDS WorkflowApproval, TLC

CONSTANTS r1, r2, ana, bo, aud, award, settle, small, k1, s1, s2

MCRequests == {r1, r2}
MCSymmetry == Permutations({r1, r2}) \cup Permutations({s1, s2})
MCActors == {ana, bo, aud}
MCRoles == [a \in MCActors |-> IF a = aud THEN {"auditor"} ELSE {"risk_manager"}]
MCPayloads == {award, settle, small}
MCTypeOf == [p \in MCPayloads |-> IF p = settle THEN "settle" ELSE "award"]
MCAmount == [p \in MCPayloads |-> IF p = small THEN 1 ELSE 2]
MCMutationTypes == {"award", "settle"}
MCThreshold == [m \in MCMutationTypes |-> 1]
MCLifetime == [m \in MCMutationTypes |-> IF m = "settle" THEN 0 ELSE 1]
MCPolicy == [m \in MCMutationTypes |->
               IF m = "settle" THEN {"auditor"} ELSE {"risk_manager"}]
=============================================================================
