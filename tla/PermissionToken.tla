-------------------------- MODULE PermissionToken --------------------------
(***************************************************************************)
(* The decision of core/kernel/permissionTokenValidator.ts: may this token *)
(* authorise this operation now? Revocation and expiry are facts of the    *)
(* moment, so the caller passes them in.                                   *)
(***************************************************************************)
EXTENDS Naturals, Sequences

Operation == {"list", "search", "stat", "open", "copy", "create", "rename",
              "move", "write", "delete"}
RiskLevel == {"low", "medium", "high", "critical"}

resolveRisk(op) ==
  CASE op \in {"list", "search", "stat", "open"} -> "low"
    [] op \in {"copy", "create", "rename"}       -> "medium"
    [] op \in {"move", "write"}                  -> "high"
    [] OTHER                                     -> "critical"

riskRank == [low |-> 1, medium |-> 2, high |-> 3, critical |-> 4]

\* traced: the token names the trace it is used in. ops: the operations that
\* any of its granted aliases stands for.
Token == [traced: BOOLEAN, ops: SUBSET Operation, risk_ceiling: RiskLevel,
          audit_required: BOOLEAN]

\* The order in which the validator looks for a reason to refuse.
TokenOrder ==
  <<"REFUSE_PERMISSION_TOKEN_TRACE", "REFUSE_PERMISSION_TOKEN_REVOKED",
    "REFUSE_PERMISSION_TOKEN_EXPIRED", "REFUSE_PERMISSION_TOKEN_SCOPE",
    "REFUSE_PERMISSION_TOKEN_RISK", "REFUSE_PERMISSION_TOKEN_AUDIT">>

TokenRefusal == {TokenOrder[k] : k \in 1..6}

\* The reasons there are.
TokenGrounds(token, op, revoked, expired) ==
  {c \in TokenRefusal :
     \/ c = "REFUSE_PERMISSION_TOKEN_TRACE"   /\ ~token.traced
     \/ c = "REFUSE_PERMISSION_TOKEN_REVOKED" /\ revoked
     \/ c = "REFUSE_PERMISSION_TOKEN_EXPIRED" /\ expired
     \/ c = "REFUSE_PERMISSION_TOKEN_SCOPE"   /\ op \notin token.ops
     \/ /\ c = "REFUSE_PERMISSION_TOKEN_RISK"
        /\ riskRank[resolveRisk(op)] > riskRank[token.risk_ceiling]
     \/ c = "REFUSE_PERMISSION_TOKEN_AUDIT"   /\ ~token.audit_required}

\* The first member of order that is one of the grounds.
FirstOf(order, grounds) ==
  order[CHOOSE k \in DOMAIN order :
          /\ order[k] \in grounds
          /\ \A j \in 1..(k - 1) : order[j] \notin grounds]
============================================================================
