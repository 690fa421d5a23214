------------------------------- MODULE MCFleet -------------------------------
(* A cluster of its own, and the home back end registered once more. *)
EXTENDS Fleet, TLC

CONSTANTS cluster, twin, homeHost, clusterHost, prod, ip, trusted

Urls == (cluster :> {clusterHost, homeHost}) @@ (twin :> {homeHost})
AtFirst == (cluster :> clusterHost) @@ (twin :> Unset)
(* What the rails of the home back end let no one ban. *)
Rails == (clusterHost :> {}) @@ (homeHost :> {trusted})
OneOrBoth == {{ip}, {ip, trusted}}
Groups == (clusterHost :> {prod}) @@ (homeHost :> {})
=============================================================================
