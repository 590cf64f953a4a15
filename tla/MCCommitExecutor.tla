-------------------------- MODULE MCCommitExecutor --------------------------
(* Instances of CommitExecutor for TLC. *)
EXTENDS CommitExecutor

CONSTANTS e1, e2, a, b, c, d

do(op, src, dst) == [op |-> op, src |-> src, dst |-> dst]

\* Two runs of one plan, as two runners of one task start them.
MCSamePlan ==
  [e \in Exec |-> <<do("move", a, b), do("copy", c, d), do("delete", c, NoPath)>>]

\* A plan with an operation the executor lacks, one with an empty path.
MCOddPlans ==
  [e \in Exec |-> IF e = e1 THEN <<do("rename", a, b), do("write", b, NoPath)>>
                            ELSE <<do("copy", a, NoPath)>>]

full == [traced |-> TRUE, ops |-> {"move", "copy", "rename", "delete", "write"},
         risk_ceiling |-> "critical", audit_required |-> TRUE]

MCRequests ==
  {[token |-> full, commit |-> "valid"], [token |-> NoToken, commit |-> "valid"]}

\* A token that does not fit in one way or another, and a commit that does not.
MCOddRequests ==
  {[token |-> t, commit |-> "valid"] :
     t \in {[full EXCEPT !.traced = FALSE],
            [full EXCEPT !.risk_ceiling = "low"],
            [full EXCEPT !.audit_required = FALSE],
            [full EXCEPT !.ops = {"rename", "copy", "write"}]}}
  \cup {[token |-> NoToken, commit |-> k] : k \in {"valid", "invalid", "other"}}

\* The policy in the repository, and a stricter one.
MCShipped == {[mandatory_permission_tokens |-> FALSE, allow_legacy_execution |-> TRUE]}
MCPolicies ==
  MCShipped \cup {[mandatory_permission_tokens |-> TRUE,  allow_legacy_execution |-> TRUE],
                  [mandatory_permission_tokens |-> FALSE, allow_legacy_execution |-> FALSE]}

MCOpen   == {[blocked |-> {}, allowed |-> Path]}
MCAccess == MCOpen \cup {[blocked |-> {b}, allowed |-> Path],
                         [blocked |-> {}, allowed |-> Path \ {c}]}
MCOddAccess == {[blocked |-> {}, allowed |-> Place]}

\* The codes whose triggers policy/triggers/trigger-registry.json lacks.
MCDrifting ==
  {"REFUSE_PERMISSION_TOKEN_MISSING", "REFUSE_LEGACY_EXECUTION_DISABLED",
   "REFUSE_PLAN_COMMIT_MISMATCH", "REFUSE_PERMISSION_TOKEN_TRACE",
   "REFUSE_PERMISSION_TOKEN_EXPIRED", "REFUSE_PERMISSION_TOKEN_RISK",
   "REFUSE_PERMISSION_TOKEN_AUDIT", "REFUSE_ACCESS_POLICY_DENIED",
   "REFUSE_UNIMPLEMENTED_ACTION"}
=============================================================================
