------------------------------ MODULE MCAutoban ------------------------------
(* The home back end and a cluster; both own the group of the first rule and *)
(* of the feeds, the second rule bans everywhere. *)
EXTENDS Autoban, TLC

CONSTANTS cluster, homeHost, clusterHost, prod, scanner, listed

Urls == cluster :> {clusterHost}
AtFirst == cluster :> clusterHost
NoRails == (clusterHost :> {}) @@ (homeHost :> {})
Groups == (clusterHost :> {prod}) @@ (homeHost :> {prod})
LadderOfTwo == <<"temp", "forever">>
OnProd == [on |-> TRUE, ttl |-> "temp", names |-> {prod}]
Broadcast == [on |-> TRUE, ttl |-> "temp", names |-> {}]
RuleForms == {OnProd, Broadcast, [OnProd EXCEPT !.on = FALSE], [Broadcast EXCEPT !.on = FALSE]}
TwoOrNone == {<<OnProd, Broadcast>>, <<NoRule, NoRule>>}
Requests == <<{scanner}, {scanner, listed}>>
=============================================================================
