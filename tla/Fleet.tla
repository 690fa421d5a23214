-------------------------------- MODULE Fleet --------------------------------
(***************************************************************************)
(* The fleet of blocklist APIs the dashboard writes to (backend            *)
(* main.py): the registry of back ends and the one the dashboard points    *)
(* at, the routing of a write to the back ends that own its groups, and    *)
(* the write itself, which calls one back end after the other.             *)
(*                                                                         *)
(* Handlers that write are coroutines that block the event loop, so they   *)
(* run one at a time: the writer "loop".  Threads, such as the executor of *)
(* auto-bans, are writers of their own.  A back end is an id of the        *)
(* registry; its denylist belongs to the host its URL names.               *)
(***************************************************************************)
EXTENDS FiniteSets, Integers

CONSTANTS
    Home,         \* HOME_BID: the back end of the environment, never registered
    Backend,      \* ids that can be registered
    Preset,       \* the host each of them is registered with when a run starts
    HomeHost,     \* the host of BLOCKLIST_API_URL
    Host,
    At,           \* the hosts each id may be registered with
    Name,         \* groups and targets a write can name
    Owns,         \* the names each host reports in /targets
    Ip,
    Batches,      \* the addresses operators and their threads name in one write
    Refuses,      \* the addresses the safety rails of each host refuse to ban
    Unset,
    Writer,       \* the event loop and the threads that write
    MaxRequests,  \* bound on the writes of operators
    MaxChanges,   \* bound on the changes of the registry and the settings
    MaxFaults,    \* bound on the failures of back ends
    MaxEvents     \* bound on the three together

ASSUME FleetAssumption ==
    /\ Home \notin Backend
    /\ HomeHost \in Host /\ Unset \notin Host
    /\ At \in [Backend -> SUBSET Host] /\ Preset \in [Backend -> Host \cup {Unset}]
    /\ Owns \in [Host -> SUBSET Name] /\ Refuses \in [Host -> SUBSET Ip]
    /\ Batches \subseteq SUBSET Ip
    /\ "loop" \in Writer
    /\ {MaxRequests, MaxChanges, MaxFaults, MaxEvents} \subseteq Nat

VARIABLES
    reg,       \* ingress_apis.items: URL and token, None for an id that is not there
    active,    \* ingress_apis.active
    override,  \* blocklist_api_override
    config,    \* config.BLOCKLIST_API_URL and _TOKEN; a token is named by its host
    hand,      \* the URLs operators typed into the settings or replaced in the registry
    up,        \* the hosts that answer
    index,     \* _ti_cache: what the ids owned that answered /targets, Unset when it is old
    bans,      \* the denylist of each host
    job,       \* the write each writer is making
    kept,      \* where an address is banned for ever by a broadcast that was answered
               \* ok and did not report it as skipped
    freed,     \* where an answered release has removed an address
    requests, changes, faults

registry == <<reg, active, override, config, hand, changes>>
answers == <<kept, freed>>
writing == <<index, job, answers, requests>>
vars == <<registry, up, faults, bans, writing>>

Id == Backend \cup {Home}
None == [host |-> Unset, token |-> Unset]
HostOf(b) == IF b = Home THEN HomeHost ELSE reg[b].host
Registered == {b \in Backend : reg[b] # None}

(* _backends: the registry, and HOME unless its URL is registered too. *)
Fleet ==
    Registered \cup {b \in {Home} : \A c \in Registered : HostOf(c) # HomeHost}

Keyed == {Home} \cup {b \in Registered : reg[b].token = reg[b].host}
Answering == {b \in Fleet \cap Keyed : HostOf(b) \in up}

(* "fed" bans outlast a number of refreshes of the feeds; see Autoban. *)
Lifetime == {"none", "temp", "fed1", "fed2", "forever"}
(* The calls that ban: /block of one address, /block_bulk of some. *)
Banning == {"block", "bulk"}
Idle == [op |-> "none", ips |-> {}, ttl |-> "none", all |-> FALSE, hosts |-> {},
         left |-> {}, missed |-> FALSE, skipped |-> {}, raced |-> {}]
Busy(w) == job[w].op # "none"
Env == [url |-> HomeHost, token |-> HomeHost]
NoOverride == [url |-> Unset, token |-> Unset]

(* _apply_blocklist_override, when the process starts. *)
Applied(o) == [f \in {"url", "token"} |-> IF o[f] = Unset THEN Env[f] ELSE o[f]]

Init ==
    /\ reg = [b \in Backend |-> [host |-> Preset[b], token |-> Preset[b]]]
    /\ active = Unset
    /\ override = NoOverride /\ config = Env
    /\ hand = {}
    /\ up = Host
    /\ index = Unset
    /\ bans = [h \in Host |-> [i \in Ip |-> "none"]]
    /\ job = [w \in Writer |-> Idle]
    /\ kept = [i \in Ip |-> {}] /\ freed = [i \in Ip |-> {}]
    /\ requests = 0 /\ changes = 0 /\ faults = 0

-----------------------------------------------------------------------------
(* The registry and the settings, handled by the event loop.               *)
Within == requests + changes + faults < MaxEvents

Change ==
    /\ ~Busy("loop")
    /\ changes < MaxChanges /\ Within
    /\ changes' = changes + 1
    /\ UNCHANGED <<up, faults, bans, writing>>

(* An id that is registered again gets the new URL and, when none is given, *)
(* keeps its token; the dashboard stays on the URL it has.                  *)
Register(b, h, token) ==
    /\ Change
    /\ reg' = [reg EXCEPT ![b] = [host |-> h, token |-> IF token THEN h ELSE @.token]]
    /\ hand' = hand \cup ({reg[b].host} \ {h, Unset})
    /\ UNCHANGED <<active, override, config>>

(* _set_active_backend; an entry without a token leaves the last one. *)
Point(b) ==
    LET With(c) == [url |-> reg[b].host,
                    token |-> IF reg[b].token = Unset THEN c.token ELSE reg[b].token]
    IN  /\ override' = With(override)
        /\ config' = With(config)

Activate(b) ==
    /\ Change
    /\ b \in Registered
    /\ active' = b
    /\ Point(b)
    /\ UNCHANGED <<reg, hand>>

Drop(b) ==
    /\ Change
    /\ b \in Registered
    /\ reg' = [reg EXCEPT ![b] = None]
    /\ UNCHANGED hand

(* Mutants: the override of a deleted back end stays; so does everything. *)
Unregister_KeepsOverride(b) ==
    /\ Drop(b)
    /\ active' = Unset /\ config' = Env /\ UNCHANGED override
Unregister_Strands(b) ==
    /\ Drop(b)
    /\ UNCHANGED <<active, override, config>>
Unregister(b) ==
    /\ Drop(b)
    /\ IF active # b
       THEN UNCHANGED <<active, override, config>>
       ELSE \/ \E c \in Registered \ {b} : active' = c /\ Point(c)
            \/ /\ Registered = {b}
               /\ active' = Unset /\ override' = NoOverride /\ config' = Env

(* api_blocklist_config_set: a blank URL means the environment's, a blank  *)
(* token the one in use.                                                   *)
Configure(url, token) ==
    /\ Change
    /\ override' = [url |-> url, token |-> IF token = Unset THEN override.token ELSE token]
    /\ config' = [url |-> IF url = Unset THEN Env.url ELSE url,
                  token |-> IF token = Unset THEN config.token ELSE token]
    /\ hand' = hand \cup {url}
    /\ UNCHANGED <<reg, active>>

-----------------------------------------------------------------------------
(* Routing: the ids a write with these names goes to, and the index it     *)
(* leaves.  Ids are dropped that left the fleet since the index was built. *)
Seen ==
    IF index # Unset THEN index
    ELSE UNION {{<<b, n>> : n \in Owns[HostOf(b)]} : b \in Answering}
Owners(names) == {b \in Fleet : \E n \in names : <<b, n>> \in Seen}
Route(names) ==
    IF names = {} THEN Fleet
    ELSE IF Owners(names) = {} /\ Cardinality(Fleet) <= 1 THEN Fleet ELSE Owners(names)
Looked(names) == index' = IF names = {} THEN index ELSE Seen

(* _write_fanout.  A write that starts takes back what was answered before. *)
(* URLs and tokens are read once; a call without the token is refused.      *)
Start(w, op, ips, ttl, names, ids) ==
    LET to == ids \cap Fleet
        new == [op |-> op, ips |-> ips, ttl |-> ttl, all |-> names = {},
                hosts |-> {HostOf(b) : b \in Fleet},
                left |-> {HostOf(b) : b \in to \cap Keyed},
                missed |-> to = {} \/ ~(to \subseteq Keyed),
                skipped |-> {},
                raced |-> UNION {job[u].ips : u \in Writer \ {w}}]
    IN  /\ ~Busy(w)
        /\ job' = [v \in Writer |-> CASE v = w -> new
                                        [] v # w /\ Busy(v) -> [job[v] EXCEPT !.raced = @ \cup ips]
                                        [] OTHER -> Idle]
        /\ kept' = [i \in Ip |-> IF i \in ips THEN {} ELSE kept[i]]
        /\ freed' = [i \in Ip |-> IF i \in ips /\ op \in Banning THEN {} ELSE freed[i]]
        /\ UNCHANGED <<registry, up, faults, bans>>

Skips(w, h) == IF job[w].op \in Banning THEN job[w].ips \cap Refuses[h] ELSE {}
Effect(w, h) ==
    [bans EXCEPT ![h] = [i \in Ip |->
        IF i \notin job[w].ips \ Skips(w, h) THEN @[i]
        ELSE IF job[w].op \in Banning THEN job[w].ttl ELSE "none"]]

Fault == faults < MaxFaults /\ Within /\ faults' = faults + 1

Called(w, h, missed, skipped) ==
    /\ h \in job[w].left
    /\ job' = [job EXCEPT ![w].left = @ \ {h}, ![w].missed = @ \/ missed,
                          ![w].skipped = @ \cup skipped]
    /\ UNCHANGED <<registry, up, index, answers, requests>>

(* Of a /block it refuses a back end says so with an error; of a /block_bulk *)
(* it leaves the address out, reports it, and answers ok.                    *)
Call(w, h) ==
    /\ h \in up
    /\ Called(w, h, job[w].op = "block" /\ Skips(w, h) # {}, Skips(w, h))
    /\ bans' = Effect(w, h)
    /\ UNCHANGED faults

CallFails(w, h) ==
    /\ h \notin up
    /\ Called(w, h, TRUE, {})
    /\ UNCHANGED <<bans, faults>>

(* The call times out after the back end has done what it asked for. *)
AnswerLost(w, h) ==
    /\ h \in up
    /\ Fault
    /\ Called(w, h, TRUE, {})
    /\ bans' = Effect(w, h)

(* Mutant: a write is a success when any back end took it. *)
Ok_Any(j) == j.left = {}
Ok(j) == ~j.missed

Answer(w) ==
    LET j == job[w]
        sure == IF Ok(j) THEN j.ips \ (j.raced \cup j.skipped) ELSE {}
    IN  /\ Busy(w) /\ j.left = {}
        /\ job' = [job EXCEPT ![w] = Idle]
        /\ kept' = [i \in Ip |->
              IF i \in sure /\ j.op \in Banning /\ j.all /\ j.ttl = "forever"
              THEN j.hosts ELSE kept[i]]
        /\ freed' = [i \in Ip |-> IF i \in sure /\ j.op = "unblock" THEN j.hosts ELSE freed[i]]
        /\ UNCHANGED <<registry, up, faults, bans, index, requests>>

(* The handlers that write.  unblock_all is an unblock of everything. *)
Request == requests < MaxRequests /\ Within /\ requests' = requests + 1

Block(op, ips, ttl, names) ==
    /\ Request
    /\ op = "block" => Cardinality(ips) = 1
    /\ Start("loop", op, ips, ttl, names, Route(names))
    /\ Looked(names)

(* Mutant: a release is sent to the back end the dashboard points at. *)
Unblock_Active(ips) ==
    /\ Request
    /\ Start("loop", "unblock", ips, "none", {}, {b \in Fleet : HostOf(b) = config.url})
    /\ UNCHANGED index
Unblock(ips) ==
    /\ Request
    /\ Start("loop", "unblock", ips, "none", {}, Fleet)
    /\ UNCHANGED index

(* A thread bans: the executor, or a refresh of the feeds an operator asks    *)
(* for, which is served by a thread of the pool.                              *)
ThreadBlock(w, ips, ttl, names) ==
    /\ w # "loop"
    /\ Request
    /\ Start(w, "bulk", ips, ttl, names, Route(names))
    /\ Looked(names)

-----------------------------------------------------------------------------
(* The world: hosts fail and recover, bans end, the index ages, the        *)
(* dashboard restarts.                                                     *)
GoDown(h) ==
    /\ h \in up
    /\ Fault
    /\ up' = up \ {h}
    /\ UNCHANGED <<registry, bans, writing>>

ComeUp(h) ==
    /\ h \notin up
    /\ up' = up \cup {h}
    /\ UNCHANGED <<registry, faults, bans, writing>>

Expire(h, i) ==
    /\ bans[h][i] = "temp"
    /\ bans' = [bans EXCEPT ![h][i] = "none"]
    /\ UNCHANGED <<registry, up, faults, writing>>

IndexAges ==
    /\ index # Unset
    /\ index' = Unset
    /\ UNCHANGED <<registry, up, faults, bans, job, answers, requests>>

Restart ==
    /\ Fault
    /\ config' = Applied(override)
    /\ index' = Unset
    /\ job' = [w \in Writer |-> Idle]
    /\ UNCHANGED <<reg, active, override, hand, changes, up, bans, answers, requests>>

Administer ==
    \/ \E b \in Backend : Activate(b) \/ Unregister(b) \/ \E h \in At[b], t \in BOOLEAN : Register(b, h, t)
    \/ \E u, t \in Host \cup {Unset} : Configure(u, t)

Operate ==
    \E ips \in Batches :
        \/ Unblock(ips)
        \/ \E ttl \in {"temp", "forever"}, names \in SUBSET Name :
              \/ \E op \in Banning : Block(op, ips, ttl, names)
              \/ \E w \in Writer : ThreadBlock(w, ips, ttl, names)

Serve(w) == Answer(w) \/ \E h \in Host : Call(w, h) \/ CallFails(w, h)
Environment ==
    \/ \E w \in Writer, h \in Host : AnswerLost(w, h)
    \/ \E h \in Host : GoDown(h) \/ ComeUp(h) \/ \E i \in Ip : Expire(h, i)
    \/ IndexAges

Next ==
    \/ Administer
    \/ Operate
    \/ \E w \in Writer : Serve(w)
    \/ Environment
    \/ Restart

Spec == Init /\ [][Next]_vars

-----------------------------------------------------------------------------
TypeOK ==
    /\ reg \in [Backend -> [host : Host \cup {Unset}, token : Host \cup {Unset}]]
    /\ active \in Registered \cup {Unset}
    /\ override \in [url : Host \cup {Unset}, token : Host \cup {Unset}]
    /\ config \in [url : Host, token : Host]
    /\ hand \subseteq Host \cup {Unset} /\ up \subseteq Host
    /\ index = Unset \/ index \subseteq (Id \X Name)
    /\ bans \in [Host -> [Ip -> Lifetime]]
    /\ job \in [Writer -> [op : Banning \cup {"none", "unblock"}, ips : SUBSET Ip,
                           ttl : Lifetime, all : BOOLEAN, hosts : SUBSET Host,
                           left : SUBSET Host, missed : BOOLEAN, skipped : SUBSET Ip,
                           raced : SUBSET Ip]]
    /\ kept \in [Ip -> SUBSET Host] /\ freed \in [Ip -> SUBSET Host]
    /\ {requests, changes, faults} \subseteq Nat

(* What the dashboard was pointed at live is what it points at after a       *)
(* restart, whatever was activated, deleted and typed in before              *)
(* (_set_active_backend mirrors into the override read at the next start).   *)
RestartKeeps == config = Applied(override)

(* Deleting back ends, the active one too, never leaves the dashboard on the *)
(* URL of one that is gone, unless an operator has typed that URL in, or     *)
(* registered its id again with another (the dashboard is not moved then).   *)
NotStranded ==
    config.url \in {HomeHost} \cup {HostOf(b) : b \in Registered} \cup hand

(* A release that was answered ok holds on every back end of the fleet,      *)
(* until somebody bans the address again: also when a ban of it had reached  *)
(* a part of the fleet only, or its answer was lost.                         *)
UnblockIsEverywhere == \A i \in Ip, h \in Host : h \in freed[i] => bans[h][i] = "none"

(* A ban for ever that names no group and was answered ok holds on every     *)
(* back end that was in the fleet, whichever were refused, failed or raced   *)
(* in between: of all its addresses but those the answer reports as skipped. *)
(* (An ok says nothing of a skipped one: store.py:224, main.py:1286.)        *)
BroadcastIsEverywhere == \A i \in Ip, h \in Host : h \in kept[i] => bans[h][i] = "forever"
=============================================================================
