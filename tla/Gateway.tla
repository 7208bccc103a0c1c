------------------------------- MODULE Gateway -------------------------------
(***************************************************************************)
(* The two parts of the gateway that hand work to a goroutine of their own  *)
(* through a bounded channel, without waiting for room in it: the hub of    *)
(* the WebSockets (WebSocketHub) and the audit log with the shutdown of the *)
(* process (AuditLog).  They share no state: a behaviour follows one of     *)
(* them.                                                                    *)
(***************************************************************************)
EXTENDS WebSocketHub, AuditLog

VARIABLE side      \* which of the two is followed: "hub" or "audit"

allVars == <<side, vars, auditVars>>

GatewayInit == Init /\ AuditInit /\ side \in {"hub", "audit"}

GatewayNext ==
  \/ side = "hub" /\ Next /\ UNCHANGED <<side, auditVars>>
  \/ side = "audit" /\ AuditNext /\ UNCHANGED <<side, vars>>

(* Of the part that is not followed no fair action is ever enabled. *)
GatewaySpec == GatewayInit /\ [][GatewayNext]_allVars /\ Fairness /\ AuditFairness
=============================================================================
