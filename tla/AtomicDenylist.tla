--------------------------- MODULE AtomicDenylist ---------------------------
(***************************************************************************)
(* What the denylist promises its callers: a set of entries that every     *)
(* operation changes in one step.  Nothing is said of targets, locks,      *)
(* rendering or failures; DenylistStore is shown to implement this.        *)
(***************************************************************************)
EXTENDS Naturals

CONSTANTS Cidr, Ttl, Route

VARIABLES now, entries

Entry == [cidr : Cidr, ts : Nat, ttl : Ttl, route : Route]

Live(S, at) == {e \in S : e.ttl = 0 \/ e.ts + e.ttl > at}

Init == now = 0 /\ entries = {}

(* A ban of the networks C replaces the entries of exactly these networks.   *)
(* `at` is the moment the ban was taken, not later than the one it is seen.  *)
Put(C, ttl, at, routes) ==
    /\ at <= now
    /\ entries' = {e \in entries : e.cidr \notin C}
                      \cup {[cidr |-> c, ts |-> at, ttl |-> ttl, route |-> routes[c]] : c \in C}
    /\ UNCHANGED now

(* A release removes the entries of the networks C and no other. *)
Drop(C) ==
    /\ entries' = {e \in entries : e.cidr \notin C}
    /\ UNCHANGED now

(* Expiry removes what had expired at some moment that is past. *)
Expire(at) ==
    /\ at <= now
    /\ entries' = Live(entries, at)
    /\ UNCHANGED now

Tick == now' = now + 1 /\ UNCHANGED entries

Next ==
    \/ \E C \in SUBSET Cidr, ttl \in Ttl, at \in 0..now :
          \E routes \in [C -> Route] : Put(C, ttl, at, routes)
    \/ \E C \in SUBSET Cidr : Drop(C)
    \/ \E at \in 0..now : Expire(at)
    \/ Tick

Spec == Init /\ [][Next]_<<now, entries>>
=============================================================================
