--------------------------- MODULE DenylistStore ---------------------------
(***************************************************************************)
(* The denylist of the blocklist API: store.py over storage.py, rendered   *)
(* to the enforcement targets by enforce.py.                               *)
(*                                                                         *)
(* Every operation runs under the process's `_lock`, in the same order:    *)
(* load the entries, change them, plan what each target must enforce, read *)
(* the targets again and apply the plan to each of them, read the outcome, *)
(* and only then save.  One operation is therefore several steps here, one *)
(* per point where the clock, the registry, a remote target, a failure or  *)
(* another process can come in between.                                    *)
(*                                                                         *)
(* A network is the set of addresses it covers, so `collapse`, which keeps *)
(* the coverage and only changes its spelling, is a union.                 *)
(***************************************************************************)
EXTENDS Routing, Naturals

CONSTANTS
    Proc,         \* processes that serve this store (two during a rollout)
    Cidr,         \* networks; each is a set of addresses
    V6,           \* the networks of the second address family
    Allowlist,    \* addresses that must not be banned: ALLOWLIST, Cloudflare's, private
    Ttl,          \* lifetimes requests carry; 0 is permanent
    Routes,       \* attachments requests carry
    Configured,   \* the targets of BAN_TARGETS, which no registry read loses
    Enrolled,     \* the targets that may be enrolled at start
    Dormant,      \* those that may not be ready at start (Cloudflare without a token)
    Faults,       \* the kinds of fault a run allows
    MaxTime,      \* bound on the clock
    MaxRequests,  \* bound on the requests of clients
    MaxFaults     \* bound on the faults

FaultKinds == {"crash", "save", "torn", "down", "wipe", "registry", "token", "read"}

ASSUME StoreAssumption ==
    /\ V6 \subseteq Cidr
    /\ Ttl \subseteq Nat
    /\ Routes \subseteq Route
    /\ Configured \subseteq Enrolled
    /\ Enrolled \subseteq Target
    /\ Dormant \subseteq Target
    /\ Faults \subseteq FaultKinds
    /\ MaxTime \in Nat /\ MaxRequests \in Nat /\ MaxFaults \in Nat

VARIABLES
    now,       \* the clock, in seconds
    store,     \* entries.json
    audit,     \* audit.json: the last event of each network
    live,      \* the addresses each target enforces
    targets,   \* the ids targets() returns
    ready,     \* the targets _target_ready accepts
    up,        \* the targets that answer
    pc,        \* where each process is in the operation that holds its lock
    job,       \* the data of that operation
    todo,      \* the targets apply() has still to visit
    err,       \* _last_errors of each process
    requests,  \* requests taken so far
    faults     \* faults so far

external == <<targets, ready, up>>
vars == <<now, store, audit, live, targets, ready, up, pc, job, todo, err,
          requests, faults>>

Addr == UNION Cidr
Entry == [cidr : Cidr, ts : Nat, ttl : Ttl, route : Routes]

NoEvent == [action |-> "none", targets |-> {}, failed |-> {}]
Event == [action : {"none", "block", "unblock", "expire"},
          targets : SUBSET Target, failed : SUBSET Target]

(***************************************************************************)
(* The change an operation makes to the entries it has loaded.             *)
(***************************************************************************)
Active(S, at) == {e \in S : e.ttl = 0 \/ e.ts + e.ttl > at}

Without(S, C) == {e \in S : e.cidr \notin C}

Change(op, C, ttl, routes, scope) ==
    [op |-> op, cidrs |-> C, at |-> now, ttl |-> ttl, routes |-> routes,
     scope |-> scope]

(* Mutant: a ban stores the instant it ends in the place of its lifetime. *)
Effect_StoresDeadline(S, ch) ==
    CASE ch.op = "block" ->
            Without(S, ch.cidrs) \cup
            {[cidr |-> c, ts |-> ch.at, ttl |-> ch.at + ch.ttl, route |-> ch.routes[c]] :
                c \in ch.cidrs}
      [] ch.op = "unblock" -> Without(S, ch.cidrs)
      [] OTHER -> Active(S, ch.at)

Effect(S, ch) ==
    CASE ch.op = "block" ->
            Without(S, ch.cidrs) \cup
            {[cidr |-> c, ts |-> ch.at, ttl |-> ch.ttl, route |-> ch.routes[c]] :
                c \in ch.cidrs}
      [] ch.op = "unblock" -> Without(S, ch.cidrs)
      [] OTHER -> Active(S, ch.at)

(***************************************************************************)
(* What a target is to enforce.  collapse() raises on a set of networks of *)
(* both address families.                                                  *)
(***************************************************************************)
RoutedTo(S, t, ids) == {e \in S : t \in EntryTargets(e.route, ids)}

Coverage(S) == UNION {e.cidr : e \in S}

Collapsible(S) == \/ \A e \in S : e.cidr \in V6
                  \/ \A e \in S : e.cidr \notin V6

PlanFor(S, ids) ==
    [t \in Target |-> IF t \in ids THEN Coverage(RoutedTo(S, t, ids)) ELSE {}]

NoJob == [change |-> [op |-> "none"], work |-> {}, plan |-> [t \in Target |-> {}],
          whole |-> TRUE]

Init ==
    /\ now = 0
    /\ store = {}
    /\ audit = [c \in Cidr |-> NoEvent]
    /\ live = [t \in Target |-> {}]
    /\ targets \in {T \in SUBSET Enrolled : Configured \subseteq T}
    /\ ready \in {Target \ D : D \in SUBSET Dormant}
    /\ up = Target
    /\ pc = [p \in Proc |-> "idle"]
    /\ job = [p \in Proc |-> NoJob]
    /\ todo = [p \in Proc |-> {}]
    /\ err = [p \in Proc |-> [t \in Target |-> "unknown"]]
    /\ requests = 0
    /\ faults = 0

Fault(kind) ==
    /\ kind \in Faults
    /\ faults < MaxFaults
    /\ faults' = faults + 1

(* One call of targets().  A registry that cannot be read drops its targets *)
(* from the answer, and the call succeeds (_enrolled_nodes, _env_targets,    *)
(* _cf_targets return [] on an exception).                                   *)
ReadTargets(seen) ==
    \/ seen = targets /\ UNCHANGED faults
    \/ seen = targets \cap Configured /\ seen # targets /\ Fault("read")

(***************************************************************************)
(* The first half of an operation, up to the plan of _render: load, change *)
(* and route.  A target whose networks cannot be collapsed makes _render   *)
(* raise before anything is applied.                                       *)
(***************************************************************************)
(* Mutant: the active set is not collapsed as a whole after the render. *)
Plan_NoFinalCollapse(p, ch, seen) ==
    LET work == Effect(store, ch)
        act == Active(work, now)
    IN  \/ /\ \A t \in seen : Collapsible(RoutedTo(act, t, seen))
           /\ pc' = [pc EXCEPT ![p] = "planned"]
           /\ job' = [job EXCEPT ![p] = [change |-> ch, work |-> work,
                                         plan |-> PlanFor(act, seen),
                                         whole |-> TRUE]]
        \/ /\ \E t \in seen : ~Collapsible(RoutedTo(act, t, seen))
           /\ UNCHANGED <<pc, job>>

Plan(p, ch, seen) ==
    LET work == Effect(store, ch)
        act == Active(work, now)
    IN  \/ /\ \A t \in seen : Collapsible(RoutedTo(act, t, seen))
           /\ pc' = [pc EXCEPT ![p] = "planned"]
           /\ job' = [job EXCEPT ![p] = [change |-> ch, work |-> work,
                                         plan |-> PlanFor(act, seen),
                                         whole |-> Collapsible(act)]]
        \/ /\ \E t \in seen : ~Collapsible(RoutedTo(act, t, seen))
           /\ UNCHANGED <<pc, job>>

Begin(p, ch) ==
    /\ pc[p] = "idle"
    /\ \E seen \in SUBSET targets : ReadTargets(seen) /\ Plan(p, ch, seen)
    /\ UNCHANGED <<now, store, audit, live, external, todo, err>>

Request ==
    /\ requests < MaxRequests
    /\ requests' = requests + 1

(* validate: a network that overlaps one of them is refused, or skipped by a  *)
(* bulk request, with force too; one that is too wide passes with force.      *)
(* Mutant: only a network inside the allowlist is refused.                    *)
Valid_NotInside == {c \in Cidr : ~(c \subseteq Allowlist)}
Valid == {c \in Cidr : c \cap Allowlist = {}}

Block(p, c, ttl, g) ==
    /\ Request
    /\ c \in Valid
    /\ [group |-> g] \in Routes
    /\ Begin(p, Change("block", {c}, ttl, [x \in {c} |-> [group |-> g]], g))

BlockMany(p, C, ttl, routes) ==
    /\ Request
    /\ C # {} /\ C \subseteq Valid
    /\ Begin(p, Change("block", C, ttl, routes, NoGroup))

Unblock(p, c) ==
    /\ Request
    /\ \E e \in store : e.cidr = c
    /\ Begin(p, Change("unblock", {c}, 0, <<>>, NoGroup))

ClearAll(p) ==
    /\ Request
    /\ store # {}
    /\ Begin(p, Change("unblock", {e.cidr : e \in store}, 0, <<>>, NoGroup))

Prune(p) ==
    /\ Active(store, now) # store
    /\ Begin(p, Change("expire", {e.cidr : e \in store \ Active(store, now)},
                       0, <<>>, NoGroup))
    /\ UNCHANGED requests

(* Mutant: a resync returns early when the denylist is empty. *)
Resync_SkipsEmpty(p) ==
    \/ store = {} /\ UNCHANGED vars
    \/ /\ store # {}
       /\ Begin(p, Change("resync", {}, 0, <<>>, NoGroup))
       /\ UNCHANGED requests

Resync(p) ==
    /\ Begin(p, Change("resync", {}, 0, <<>>, NoGroup))
    /\ UNCHANGED requests

(***************************************************************************)
(* enforce.apply: read the targets again, then visit each.                 *)
(***************************************************************************)
OpenTargets(p) ==
    /\ pc[p] = "planned"
    /\ pc' = [pc EXCEPT ![p] = "applying"]
    /\ \E seen \in SUBSET targets : ReadTargets(seen) /\ todo' = [todo EXCEPT ![p] = seen]
    /\ UNCHANGED <<now, store, audit, live, external, job, err, requests>>

(* Mutant: an adapter that adds the missing addresses and removes none. *)
Push_OnlyAdds(p, t) ==
    live' = [live EXCEPT ![t] = @ \cup job[p].plan[t]]

Push(p, t) ==
    live' = [live EXCEPT ![t] = job[p].plan[t]]

(* Mutant: the failure of a target is swallowed. *)
Visit_SwallowsError(p, t) ==
    /\ err' = [err EXCEPT ![p][t] = "ok"]
    /\ IF t \in ready /\ t \in up THEN Push(p, t) ELSE UNCHANGED live

Visit(p, t) ==
    \/ /\ t \notin ready                                \* dormant: skipped
       /\ err' = [err EXCEPT ![p][t] = "ok"]
       /\ UNCHANGED live
    \/ /\ t \in ready /\ t \in up
       /\ err' = [err EXCEPT ![p][t] = "ok"]
       /\ Push(p, t)
    \/ /\ t \in ready /\ t \notin up                    \* the failure is isolated
       /\ err' = [err EXCEPT ![p][t] = "error"]
       /\ UNCHANGED live

ApplyTo(p, t) ==
    /\ pc[p] = "applying"
    /\ t \in todo[p]
    /\ todo' = [todo EXCEPT ![p] = @ \ {t}]
    /\ Visit(p, t)
    /\ UNCHANGED <<now, store, audit, external, pc, job, requests, faults>>

(***************************************************************************)
(* The second half of an operation: the outcome of the render, then the    *)
(* save.                                                                   *)
(***************************************************************************)
Done(p) == pc[p] = "applying" /\ todo[p] = {}

Release(p) ==
    /\ pc' = [pc EXCEPT ![p] = "idle"]
    /\ job' = [job EXCEPT ![p] = NoJob]

Saves(p) == job[p].change.op # "resync"

(* Mutant: the outcome does not look at the errors of the apply. *)
EnfResult_NoErrors(p, seen) ==
    [action |-> job[p].change.op, failed |-> {},
     targets |-> ResolveGroup(job[p].change.scope, seen) \cap ready]

(* _enf_result: the ready targets of the ban's group, and those that failed. *)
EnfResult(p, seen) ==
    LET tids == ResolveGroup(job[p].change.scope, seen) \cap ready
    IN  [action |-> job[p].change.op, targets |-> tids,
         failed |-> {t \in tids : err[p][t] = "error"}]

(* Mutant: the entries are merged into those that are stored. *)
Save_Merges(p) ==
    /\ Done(p) /\ job[p].whole /\ Saves(p)
    /\ \E seen \in SUBSET targets :
          /\ ReadTargets(seen)
          /\ audit' = [c \in Cidr |-> IF c \in job[p].change.cidrs
                                      THEN EnfResult(p, seen) ELSE audit[c]]
    /\ store' = store \cup job[p].work
    /\ Release(p)
    /\ UNCHANGED <<now, live, external, todo, err, requests>>

Save(p) ==
    /\ Done(p) /\ job[p].whole /\ Saves(p)
    /\ \E seen \in SUBSET targets :
          /\ ReadTargets(seen)
          /\ audit' = [c \in Cidr |-> IF c \in job[p].change.cidrs
                                      THEN EnfResult(p, seen) ELSE audit[c]]
    /\ store' = job[p].work
    /\ Release(p)
    /\ UNCHANGED <<now, live, external, todo, err, requests>>

SaveFails(p) ==
    /\ Done(p) /\ job[p].whole /\ Saves(p)
    /\ Fault("save")
    /\ Release(p)
    /\ UNCHANGED <<now, store, audit, live, external, todo, err, requests>>

(* The file back end replaces entries.json, then audit.json: the second write *)
(* fails, or the process dies between the two.                               *)
SaveTorn(p) ==
    /\ Done(p) /\ job[p].whole /\ Saves(p)
    /\ Fault("torn")
    /\ store' = job[p].work
    /\ err' \in {err, [err EXCEPT ![p] = [t \in Target |-> "unknown"]]}
    /\ Release(p)
    /\ UNCHANGED <<now, audit, live, external, todo, requests>>

(* A render that ends without a save: resync, and a change whose active      *)
(* entries cannot be collapsed as a whole, which raises after the targets    *)
(* were applied.                                                             *)
EndUnsaved(p) ==
    /\ Done(p)
    /\ ~Saves(p) \/ ~job[p].whole
    /\ Release(p)
    /\ UNCHANGED <<now, store, audit, live, external, todo, err, requests, faults>>

(* The process dies, whatever it was doing, and starts again. *)
Crash(p) ==
    /\ Fault("crash")
    /\ Release(p)
    /\ todo' = [todo EXCEPT ![p] = {}]
    /\ err' = [err EXCEPT ![p] = [t \in Target |-> "unknown"]]
    /\ UNCHANGED <<now, store, audit, live, external, requests>>

(***************************************************************************)
(* The world around the service.                                           *)
(***************************************************************************)
Tick ==
    /\ now < MaxTime
    /\ now' = now + 1
    /\ UNCHANGED <<store, audit, live, external, pc, job, todo, err, requests, faults>>

GoDown(t) ==
    /\ t \in up
    /\ Fault("down")
    /\ up' = up \ {t}
    /\ UNCHANGED <<now, store, audit, live, targets, ready, pc, job, todo, err, requests>>

ComeUp(t) ==
    /\ t \notin up
    /\ up' = up \cup {t}
    /\ UNCHANGED <<now, store, audit, live, targets, ready, pc, job, todo, err,
                   requests, faults>>

(* The managed section of a target is overwritten from outside. *)
Wipe(t) ==
    /\ live[t] # {}
    /\ Fault("wipe")
    /\ live' = [live EXCEPT ![t] = {}]
    /\ UNCHANGED <<now, store, audit, external, pc, job, todo, err, requests>>

(* A target is enrolled or removed; nothing is rendered for it here. *)
ChangeRegistry(t) ==
    /\ t \notin Configured
    /\ Fault("registry")
    /\ targets' = IF t \in targets THEN targets \ {t} ELSE targets \cup {t}
    /\ UNCHANGED <<now, store, audit, live, ready, up, pc, job, todo, err, requests>>

(* The token of a target can no longer be decrypted; setting it again is no   *)
(* fault.                                                                    *)
ChangeToken(t) ==
    /\ "token" \in Faults
    /\ IF t \in ready THEN Fault("token") ELSE UNCHANGED faults
    /\ ready' = IF t \in ready THEN ready \ {t} ELSE ready \cup {t}
    /\ UNCHANGED <<now, store, audit, live, targets, up, pc, job, todo, err, requests>>

Environment ==
    \/ Tick
    \/ \E t \in Target : \/ GoDown(t) \/ ComeUp(t) \/ Wipe(t)
                         \/ ChangeRegistry(t) \/ ChangeToken(t)

Client(p) ==
    \/ \E c \in Cidr, ttl \in Ttl, g \in Group \cup {NoGroup} : Block(p, c, ttl, g)
    \/ \E C \in SUBSET Cidr, ttl \in Ttl :
          \E routes \in [C -> Routes] : BlockMany(p, C, ttl, routes)
    \/ \E c \in Cidr : Unblock(p, c)
    \/ ClearAll(p)

Work(p) ==
    \/ OpenTargets(p)
    \/ \E t \in Target : ApplyTo(p, t)
    \/ Save(p)
    \/ SaveFails(p)
    \/ SaveTorn(p)
    \/ EndUnsaved(p)

Process(p) == Client(p) \/ Prune(p) \/ Resync(p) \/ Work(p) \/ Crash(p)

Next == Environment \/ \E p \in Proc : Process(p)

Spec == Init /\ [][Next]_vars

(***************************************************************************)
(* An operation that holds the lock goes on; the prune and resync loops    *)
(* come round; a target that is down comes up again.  Nothing obliges a    *)
(* client to ask, the clock to advance or a fault to happen.  Prune shares *)
(* the lock with a resync that runs again and again, but both loops sleep  *)
(* between two rounds, so prune gets the lock whenever it keeps asking.    *)
(***************************************************************************)
Fairness ==
    /\ \A p \in Proc : /\ WF_vars(OpenTargets(p))
                       /\ \A t \in Target : WF_vars(ApplyTo(p, t))
                       /\ WF_vars(Save(p) \/ SaveFails(p) \/ SaveTorn(p) \/ EndUnsaved(p))
                       /\ SF_vars(Prune(p))
                       /\ WF_vars(Resync(p))
    /\ \A t \in Target : WF_vars(ComeUp(t))

FairSpec == Spec /\ Fairness

-----------------------------------------------------------------------------
(***************************************************************************)
(* Properties.                                                             *)
(***************************************************************************)
TypeOK ==
    /\ now \in Nat
    /\ store \subseteq Entry
    /\ audit \in [Cidr -> Event]
    /\ live \in [Target -> SUBSET Addr]
    /\ targets \subseteq Target
    /\ ready \subseteq Target
    /\ up \subseteq Target
    /\ pc \in [Proc -> {"idle", "planned", "applying"}]
    /\ \A p \in Proc : /\ job[p].work \subseteq Entry
                       /\ job[p].plan \in [Target -> SUBSET Addr]
                       /\ job[p].whole \in BOOLEAN
    /\ todo \in [Proc -> SUBSET Target]
    /\ err \in [Proc -> [Target -> {"unknown", "ok", "error"}]]
    /\ requests \in 0..MaxRequests
    /\ faults \in 0..MaxFaults

(* With one process, every operation on entries.json is atomic whatever      *)
(* fails, crashes or is skipped on the way: nothing another operation saved  *)
(* is lost, nothing it removed comes back, and a permanent ban leaves only   *)
(* by a release or a new ban of the same network (`_lock` in store.py).      *)
Abs == INSTANCE AtomicDenylist WITH entries <- store, Route <- Routes
AtomicStore == Abs!Spec

(* What was saved can be rendered again: the active entries are never of     *)
(* both address families, on which _render would raise at every resync.      *)
SavedRenders == Collapsible(Active(store, now))

(* A target whose last apply is on record as good (`_last_errors[id]` is     *)
(* None after an apply) enforces every active entry routed to it and nothing *)
(* that is not in the denylist; while an operation holds the lock, that of   *)
(* the entries it is about to save counts once the target was applied.       *)
Matches(S, t) ==
    /\ Coverage(RoutedTo(Active(S, now), t, targets)) \subseteq live[t]
    /\ live[t] \subseteq Coverage(RoutedTo(S, t, targets))

AppliedMatchesStore ==
    \A p \in Proc, t \in targets \cap ready :
        err[p][t] = "ok" =>
            \/ Matches(store, t)
            \/ pc[p] = "applying" /\ t \notin todo[p] /\ Matches(job[p].work, t)

(* "Never blocks an allowlisted IP, or any CIDR covering one": no target ever *)
(* enforces such an address, whatever is banned in bulk or by force, merged   *)
(* with other networks, rendered again after a crash, or half saved.          *)
AllowlistSpared == \A t \in Target : live[t] \cap Allowlist = {}

(* What the audit log says was applied stays applied: a ban that is on       *)
(* record as enforced on a target is enforced there until an operation       *)
(* changes its entry or it expires, whatever other operations do meanwhile   *)
(* and however many of them fail on this target.                             *)
RecordedOn(c, t) ==
    /\ t \in audit[c].targets \ audit[c].failed
    /\ t \in targets \cap ready

BanHonoured ==
    \A e \in Active(store, now), t \in Target :
        /\ audit[e.cidr].action = "block"
        /\ RecordedOn(e.cidr, t)
        /\ t \in EntryTargets(e.route, targets)
        => \/ e.cidr \subseteq live[t]
           \/ \E p \in Proc : pc[p] # "idle" /\ e \notin job[p].work

(* A release, or an expiry, that is on record as applied to a target is not  *)
(* undone there: what the target still enforces of that network belongs to   *)
(* another entry, of the store or of the operation in flight.  (It may also  *)
(* belong to an overlapping network whose own last change is not on record   *)
(* as applied to this target.)                                               *)
ReleaseHonoured ==
    \A c \in Cidr, t \in Target :
        /\ audit[c].action \in {"unblock", "expire"}
        /\ RecordedOn(c, t)
        /\ \A d \in Cidr : d \cap c = {} \/ audit[d] = NoEvent \/ RecordedOn(d, t)
        => live[t] \cap c \subseteq
             Coverage(RoutedTo(store \cup UNION {job[p].work : p \in Proc}, t, targets))

(* Once clients and faults have stopped, every ready target ends up          *)
(* enforcing exactly the active entries routed to it, and the expired ones   *)
(* have left the store: resync and prune repair every interrupted operation, *)
(* failed apply, failed save, wiped section and stale registry read.         *)
Converged ==
    /\ Active(store, now) = store
    /\ \A t \in targets \cap ready : live[t] = Coverage(RoutedTo(store, t, targets))

Converges == <>[]Converged
=============================================================================
