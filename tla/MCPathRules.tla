----------------------------- MODULE MCPathRules -----------------------------
(* An ingress target in the group "prod" and a VM with a pull agent. *)
EXTENDS PathRules, TLC

CONSTANTS ingress, vm, prod, scan, probe, admin

ProdIsIngress == prod :> {ingress}
NoEnvs == [t \in {ingress, vm} |-> NoGroup]
Backends == (ingress :> "ingress-cm") @@ (vm :> "nginx-file")

OnProd == [groups |-> {prod}, targets |-> {}, all |-> FALSE]
OnBoth == [groups |-> {}, targets |-> {ingress, vm}, all |-> FALSE]
TwoAttachments == {OnProd, OnBoth}

(* No document yet; one written before rules had attachments; and one with a *)
(* seeded rule, the agents switched off. *)
Legacy == [id |-> 1, name |-> Custom, pat |-> {scan}, on |-> TRUE,
           route |-> [group |-> NoGroup]]
WithSeed == [id |-> 1, name |-> SeedName, pat |-> {scan, probe}, on |-> TRUE, route |-> OnBoth]
Documents == {Blank, [Blank EXCEPT !.rules = {Legacy}],
              [Blank EXCEPT !.rules = {WithSeed}, !.off = {"nginx-file"}]}

(* path_seed, once with a pattern that is refused, and path_seed_autoban for *)
(* two rules of one name.                                                    *)
OneOrTwo == {{{scan}}, {{scan, admin}}, {{scan}, {probe}}}
=============================================================================
