---------------------- MODULE MCConversationApprovals ----------------------
(* Small instances of ConversationApprovals for TLC.                       *)
EXTENDS ConversationApprovals, TLC

CONSTANTS w1, w2, t1, g1, k1, e1, f1, f2

MCFinding(kinds, parts, restart, changes) ==
  [workflow |-> w1, key |-> k1, kinds |-> kinds, parts |-> parts,
   restart |-> restart, changes |-> changes]

(* Two findings with one noise key: two runs that fail the same way. *)
MCFindings ==
  f1 :> MCFinding({"improve"}, 1, FALSE, TRUE)
  @@ f2 :> MCFinding({"steer", "improve"}, 0, FALSE, TRUE)

MCProposal(action, target, extra) ==
  [action |-> action, target |-> target, extra |-> extra]
MCProposals ==
  {MCProposal("workflow_create", w2, TRUE),
   MCProposal("agent_update", g1, FALSE), MCProposal("workflow_execution", w1, FALSE),
   MCProposal("tool_execution", t1, FALSE)}
=============================================================================
