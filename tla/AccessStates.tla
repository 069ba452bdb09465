---------------------------- MODULE AccessStates ----------------------------
(***************************************************************************)
(* The access states the control plane assigns to a Secure Connect         *)
(* session, their restriction order, and the risk-adaptive transition      *)
(* rules.  The endpoint agent keeps the same order, so the definitions are *)
(* shared by the modules of the control plane and by those of the agent.   *)
(***************************************************************************)
EXTENDS Naturals

SessionStates == {"healthy", "elevated", "restricted", "quarantined", "terminated"}

\* States in which the endpoint still holds a usable tunnel.
LiveStates == {"healthy", "elevated", "restricted"}

RestrictionRank ==
    [healthy |-> 0, elevated |-> 1, restricted |-> 2, quarantined |-> 3, terminated |-> 4]

IsRelaxation(current, target) == RestrictionRank[target] < RestrictionRank[current]

\* The endpoint command that announces a state: _STATE_TO_COMMAND.
CommandFor(state) ==
    CASE state = "restricted"  -> "restrict"
      [] state = "quarantined" -> "quarantine"
      [] state = "terminated"  -> "terminate"
      [] OTHER                 -> "none"

\* check_transition: a terminated session is final, and relaxing needs an
\* operator's confirmation or the one automatic exception, elevated to healthy
\* once the cooldown has elapsed.
TransitionAllowed(current, target, confirmed, cooled) ==
    /\ current # "terminated"
    /\ \/ ~IsRelaxation(current, target)
       \/ confirmed
       \/ current = "elevated" /\ target = "healthy" /\ cooled

\* The risk actions a profile may name for a severity; "observe" asks for
\* no state and is not an input of the modules that apply risk signals.
RiskActions == {"step_up_auth", "restrict_to_safe_cidrs", "quarantine", "terminate"}

\* plan_risk_target: restricting to an empty set of safe CIDRs would leave the
\* endpoint without routes, so it escalates to quarantine.
PlanRiskTarget(action, hasSafeCidrs) ==
    CASE action = "step_up_auth"           -> "elevated"
      [] action = "restrict_to_safe_cidrs" -> IF hasSafeCidrs THEN "restricted" ELSE "quarantined"
      [] action = "quarantine"             -> "quarantined"
      [] action = "terminate"              -> "terminated"

\* Which closing states of a risk transition also revoke the session's keys.
ClosesAccess(target) == target \in {"quarantined", "terminated"}
=============================================================================
