---------------------------- MODULE MCCloudflare ----------------------------
(* The instance of Cloudflare that TLC checks. *)
EXTENDS Cloudflare
CONSTANTS c1, c2, l1, l2, d1, d2, t1, t2, p
MCWants == {[cidrs |-> {c1}, patterns |-> {p}], [cidrs |-> {c2}, patterns |-> {}]}
MCFirst == {[token |-> t1, mode |-> "ip-list", list |-> l1, desc |-> d1],
            [token |-> Unset, mode |-> "access-rules", list |-> l1, desc |-> d1]}
MCSaves == {[token |-> t2, mode |-> "ip-list", list |-> l1, desc |-> d1],
            [token |-> t2, mode |-> "access-rules", list |-> l1, desc |-> d1],
            [token |-> Unset, mode |-> "ip-list", list |-> l2, desc |-> d1],
            [token |-> Unset, mode |-> "ip-list", list |-> l1, desc |-> d2]}
MCGlobals == {[token |-> t1, list |-> l2, desc |-> d2]}
=============================================================================
