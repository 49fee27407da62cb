------------------------- MODULE MCApprovalWorkflow -------------------------
EXTENDS ApprovalWorkflow

(* Bound: every request is for a command.  The re-check may deny a command *)
(* or a write alike, and nothing else here depends on the tool.            *)
OneTool == \A r \in Present : requests[r].tool = "run_command"
=============================================================================
