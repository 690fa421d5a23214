-------------------------- MODULE MCDenylistStore --------------------------
(***************************************************************************)
(* Instances of DenylistStore for TLC.                                     *)
(***************************************************************************)
EXTENDS DenylistStore, TLC

CONSTANTS ingress, cf, prod, stale, none, p1

(* prod is a configured group.  stale is no group at all; or it is the env of *)
(* the edge target, and a group for as long as that target is registered.     *)
ProdIsIngress == (prod :> {ingress})
NoEnvs == [t \in Target |-> none]
EdgeIsStale == [t \in Target |-> IF t = cf THEN stale ELSE none]

(* The group of the controller, and one target attached by its id. *)
RoutesTwo == {[group |-> prod], [group |-> stale],
              [groups |-> {}, targets |-> {cf}, all |-> FALSE]}

RoutesWide == {[group |-> prod], [group |-> stale]}

(* A network, a host of it, and one next to them that covers address 4, which *)
(* is allowlisted; then one of each address family.                           *)
NestedNets == {{1, 2}, {2}, {3, 4}}
BothFamilies == {{1}, {6}}
SecondFamily == {{6}}
=============================================================================
