------------------------------ MODULE MCAlerts ------------------------------
(* The instance of Alerts that TLC checks. *)
EXTENDS Alerts
CONSTANTS n1, ops, team, prod

(* Operations has two rules for the alert; the team one for its nodes, one for *)
(* the alerts of its environment (which none has), and one that is off.        *)
TwoRulesForOps ==
    LET To(c, on, events, env, least) ==
            [on |-> on, channel |-> c, events |-> events, env |-> env, least |-> least]
    IN  {To(ops, TRUE, {"anomaly_critical"}, Unset, "critical"),
         To(ops, TRUE, Event, Unset, "info"),
         To(team, TRUE, {"node_offline"}, Unset, "info"),
         To(team, TRUE, Event, prod, "warning"),
         To(team, FALSE, Event, Unset, "info")}
=============================================================================
