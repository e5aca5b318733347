-------------------------- MODULE MCTensionRunner --------------------------
(***************************************************************************)
(* Small lives for TLC: a few steps, one external cost, one QA evidence.  *)
(***************************************************************************)
EXTENDS TensionRunner

MCOrganTypes == RunnerTypes \cup {"validation"}
MCNone == {}
MCCauses == {"complete", "budget_exhausted", "identity_loss", "effect_failure",
             "stalled", "unsafe_scope"}
MCAxes == {"steps", "tool_calls", "test_runs"}
MCLimit == [steps |-> 4, tool_calls |-> 3]
MCLimitByHand == [steps |-> 5, tool_calls |-> 3]
MCCosts == {[a \in MCAxes |-> IF a = "tool_calls" THEN 2 ELSE 0]}
MCQaIds == {"evidence_a"}
MCQaCost == [id \in MCQaIds |-> [a \in MCAxes |-> IF a = "test_runs" THEN 1 ELSE 0]]
MCLossAmounts == {0, 2}
MCOneLoss == {2}

=============================================================================
