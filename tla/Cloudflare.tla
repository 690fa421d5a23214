------------------------------ MODULE Cloudflare ------------------------------
(***************************************************************************)
(* One Cloudflare target: how its bans and its path rule are brought to    *)
(* the edge, request by request (blocklist-api/app/cloudflare.py), under   *)
(* the lock of the store; meanwhile its configuration is edited            *)
(* (cf_targets.py, environments.py, settings.py), and the edge changes by  *)
(* other hands.                                                            *)
(*                                                                         *)
(* A failed reconcile is recorded and the bans are stored all the same     *)
(* (enforce.apply), so a reconcile ends in one way for the store.  The     *)
(* items of a list are taken on by Cloudflare and carried out later.       *)
(***************************************************************************)
EXTENDS FiniteSets, Integers

CONSTANTS
    Cidr,
    Pattern,     \* the path patterns routed to the target
    Wants,       \* the bans and patterns the store may bring to the target
    List,        \* names of IP lists
    Desc,        \* descriptions of our WAF rules
    Token,
    Unset,
    First,       \* the configurations a run may start with
    Saves,       \* those an operator may save; no token means a blank one
    Globals,     \* the settings CF_API_TOKEN, CF_LIST_NAME and CF_RULE_DESC
    Theirs,      \* the addresses somebody else blocks, by access rules of their own
    MaxApplies,  \* bound on the operations of the store
    MaxChanges,  \* bound on the edits of the configuration
    MaxFaults    \* bound on lost requests, restarts and edits of the edge

ASSUME CloudflareAssumption ==
    /\ Unset \notin Token /\ \A s \in SUBSET Cidr : s # Unset
    /\ "theirs" \notin Desc
    /\ Wants \subseteq [cidrs : SUBSET Cidr, patterns : SUBSET Pattern]
    /\ First \cup Saves \subseteq [token : Token \cup {Unset}, mode : {"ip-list", "access-rules"},
                                  list : List, desc : Desc]
    /\ Globals \subseteq [token : Token \cup {Unset}, list : List, desc : Desc]
    /\ Theirs \subseteq Cidr
    /\ {MaxApplies, MaxChanges, MaxFaults} \subseteq Nat

VARIABLES
    conf,       \* the target's entry in the registry
    listed,     \* it has one
    legacy,     \* the Cloudflare part of its environment, while the target goes by it
    global,     \* the settings a target without a token of its own goes by
    plain,      \* the store is a ConfigMap and there is no SECRET_KEY
    opens,      \* the SECRET_KEY of the process opens the token on record
    edgePaths,  \* CF_EDGE_PATHS
    cache,      \* _resolved[tid]
    want,       \* the bans and the patterns that are stored for the target
    valid,      \* the tokens Cloudflare takes
    edge,       \* the objects at Cloudflare
    job,        \* the reconcile in progress
    sure,       \* the bans were brought to the edge, and nobody touched it since
    used,       \* the modes, lists and descriptions reconciles have worked with
    applies, changes, faults

config == <<conf, listed, legacy, global, plain, opens, edgePaths, valid, changes>>
vars == <<config, cache, want, edge, job, sure, used, applies, faults>>

Mode == {"ip-list", "access-rules"}
Config == [token : Token \cup {Unset}, mode : Mode, list : List, desc : Desc]
Global == [token : Token \cup {Unset}, list : List, desc : Desc]
Way == [mode : Mode, list : List, desc : Desc]
WayOf(c) == [mode |-> c.mode, list |-> c.list, desc |-> c.desc]
Desired == [cidrs : SUBSET Cidr, patterns : SUBSET Pattern]
Nothing == [cidrs |-> {}, patterns |-> {}]
WafRule == [desc : Desc \cup {"theirs"}, list : List]
AccessRule == [value : Cidr, tag : {"ours", "theirs"}]
Idle == [pc |-> "idle"]

(* What the edge blocks for us. *)
Tagged_All == edge.access  \* mutant: every access rule of the zone is ours
Tagged == {r \in edge.access : r.tag = "ours"}
Blocked ==
    {r.value : r \in {a \in edge.access : a.tag = "ours"}}
        \cup UNION {edge.lists[r.list] : r \in {w \in edge.waf : edge.lists[w.list] # Unset}}

(* Whether all reconciles have worked with one mode, one list, one description. *)
OneMode == \A u, v \in used : u.mode = v.mode
OneList == \A u, v \in used : u.list = v.list
OneDesc == \A u, v \in used : u.desc = v.desc

Blank(c) == [c EXCEPT !.token = Unset]

(* The target is registered, with or without a token, or it is still to come   *)
(* out of its environment.  A plain store registers no token.                  *)
Init ==
    /\ plain \in BOOLEAN /\ opens = TRUE
    /\ \E c \in First :
          \/ conf = c /\ listed = TRUE /\ legacy = Unset
          \/ conf = Blank(c) /\ listed = FALSE /\ legacy = c /\ c.token # Unset
    /\ plain => conf.token = Unset
    /\ global \in Globals
    /\ edgePaths \in BOOLEAN
    /\ cache = Unset
    /\ want = Nothing
    /\ valid = {c.token : c \in {conf, legacy, global} \ {Unset}} \ {Unset}
    /\ edge \in [lists : {[l \in List |-> Unset]}, pending : {[l \in List |-> Unset]},
                 waf : {{}} \cup {{[desc |-> "theirs", list |-> conf.list]}},
                 access : {{[value |-> c, tag |-> "theirs"] : c \in Theirs}},
                 path : {[d \in Desc |-> {}]}]
    /\ job = Idle
    /\ sure = FALSE /\ used = {}
    /\ applies = 0 /\ changes = 0 /\ faults = 0

-----------------------------------------------------------------------------
(* migrate_from_envs, wherever targets are listed: once, the configuration of   *)
(* the environment becomes the target, without its token where that would be    *)
(* stored in plaintext.                                                         *)
ToMigrate == ~listed /\ legacy # Unset
Migrated ==
    IF ToMigrate
    THEN /\ conf' = IF plain THEN Blank(legacy) ELSE legacy
         /\ listed' = TRUE
         /\ legacy' = IF plain THEN legacy ELSE Unset
    ELSE UNCHANGED <<conf, listed, legacy>>

ListTargets ==
    /\ ToMigrate
    /\ Migrated
    /\ UNCHANGED <<global, plain, opens, edgePaths, valid, changes, cache, want, edge, job,
                   sure, used, applies, faults>>

(* _cfg: the registry's entry if it has a token, else the environment's, else   *)
(* the settings, always in the mode of the target.  A sealed token that does    *)
(* not open raises, and a target that is not there is not asked: as if there    *)
(* were no token.                                                               *)
Live ==
    CASE ToMigrate -> legacy
      [] ~ToMigrate /\ conf.token # Unset -> conf
      [] ~ToMigrate /\ conf.token = Unset /\ legacy # Unset -> [legacy EXCEPT !.mode = conf.mode]
      [] OTHER -> [token |-> global.token, mode |-> conf.mode,
                   list |-> global.list, desc |-> global.desc]
Locked == ~opens /\ (conf.token # Unset \/ legacy # Unset)
Cfg == IF Locked \/ (~listed /\ ~ToMigrate) THEN Blank(Live) ELSE Live

(* _resolve: the cached configuration serves as long as the token is the same. *)
(* Mutant: it serves always.                                                   *)
Resolved_Stale == IF cache # Unset THEN cache ELSE Cfg
Resolved == IF cache # Unset /\ cache.token = Cfg.token THEN cache ELSE Cfg

(* enforce.apply and _cf_apply: a target without a token is skipped. *)
Begin(new) ==
    /\ job = Idle
    /\ IF Cfg.token = Unset
       THEN want' = new /\ UNCHANGED job
       ELSE /\ job' = [pc |-> IF Resolved.mode = "ip-list" THEN "list" ELSE "read",
                       c |-> Resolved, new |-> new, add |-> {}, del |-> {}, alone |-> TRUE]
            /\ UNCHANGED want
    /\ used' = IF Cfg.token = Unset THEN used ELSE used \cup {WayOf(Resolved)}
    /\ sure' = FALSE
    /\ Migrated
    /\ UNCHANGED <<global, plain, opens, edgePaths, valid, changes, cache, edge, faults>>

Apply(new) ==
    /\ applies < MaxApplies
    /\ applies' = applies + 1
    /\ Begin(new)

Resync == Begin(want) /\ UNCHANGED applies

(* What the request of each step leaves at the edge; of the items Cloudflare   *)
(* says that it will, and the code does not ask again ("async op; we don't     *)
(* poll").  Mutant of Found: the rule is looked up by its expression only.     *)
Found_ByExpr == {r \in edge.waf : r.list = job.c.list}
Found == {r \in edge.waf : r.desc = job.c.desc \/ r.list = job.c.list}

After(cidr) ==
    CASE job.pc = "list" ->
            [edge EXCEPT !.lists[job.c.list] = IF @ = Unset THEN {} ELSE @]
      [] job.pc = "rule" ->
            IF Found # {} THEN edge
            ELSE [edge EXCEPT !.waf = @ \cup {[desc |-> job.c.desc, list |-> job.c.list]}]
      [] job.pc = "items" -> [edge EXCEPT !.pending[job.c.list] = job.new.cidrs]
      [] job.pc = "read" -> edge
      [] job.pc = "add" -> [edge EXCEPT !.access = @ \cup {[value |-> cidr, tag |-> "ours"]}]
      [] job.pc = "del" -> [edge EXCEPT !.access = {r \in @ : r \notin Tagged \/ r.value # cidr}]
      [] job.pc = "paths" -> [edge EXCEPT !.path[job.c.desc] = job.new.patterns]

(* The end of a reconcile, well or not; with CF_EDGE_PATHS the path rule      *)
(* comes after the bans, and its configuration is resolved again.             *)
End(brought) ==
    /\ job' = Idle
    /\ want' = job.new
    /\ sure' = (brought /\ job.alone)
    /\ UNCHANGED used

BansDone ==
    IF edgePaths
    THEN /\ job' = [job EXCEPT !.pc = "paths", !.c = Resolved']
         /\ used' = used \cup {WayOf(Resolved')}
         /\ sure' = job.alone
         /\ UNCHANGED want
    ELSE End(TRUE)

GoOn(next) == job' = next /\ UNCHANGED <<want, sure, used>>

(* _sync_access_rules: what is missing is added, what is too much deleted, by  *)
(* the rules read at the start.  Mutant: nothing is ever too much.             *)
Surplus_None == {}
Surplus == {r.value : r \in Tagged} \ job.new.cidrs
Missing == job.new.cidrs \ {r.value : r \in Tagged}

Access(j) ==
    CASE j.add # {} -> GoOn([j EXCEPT !.pc = "add"])
      [] j.add = {} /\ j.del # {} -> GoOn([j EXCEPT !.pc = "del"])
      [] OTHER -> BansDone

Pending == CASE job.pc = "add" -> job.add [] job.pc = "del" -> job.del [] OTHER -> {Unset}

(* The list named for the items has gone, or the rule to delete has. *)
Vanished(cidr) ==
    \/ job.pc = "items" /\ edge.lists[job.c.list] = Unset
    \/ job.pc = "del" /\ [value |-> cidr, tag |-> "ours"] \notin edge.access

Requested(cidr) ==
    /\ job # Idle /\ cidr \in Pending
    /\ job.c.token \in valid /\ ~Vanished(cidr)
    /\ edge' = After(cidr)
    /\ UNCHANGED <<config, applies>>

Answered(cidr) ==
    /\ Requested(cidr)
    /\ cache' = IF job.pc \in {"rule", "read", "paths"} THEN job.c ELSE cache
    /\ CASE job.pc = "list" -> GoOn([job EXCEPT !.pc = "rule"])
         [] job.pc = "rule" -> GoOn([job EXCEPT !.pc = "items"])
         [] job.pc = "items" -> BansDone
         [] job.pc = "read" -> Access([job EXCEPT !.add = Missing, !.del = Surplus])
         [] job.pc \in {"add", "del"} ->
               Access([job EXCEPT !.add = @ \ {cidr}, !.del = @ \ {cidr}])
         [] job.pc = "paths" -> End(sure)
    /\ UNCHANGED faults

Fault == faults < MaxFaults /\ faults' = faults + 1
Failed == End(job.pc = "paths" /\ sure)

(* A request is done and its answer lost; refused; or it never arrives.  A     *)
(* configuration resolved before the failing request has been cached.          *)
AnswerLost(cidr) ==
    /\ Requested(cidr)
    /\ Fault
    /\ Failed
    /\ UNCHANGED cache

Refused ==
    /\ job # Idle
    /\ \/ UNCHANGED faults /\ (job.c.token \notin valid \/ \E x \in Pending : Vanished(x))
       \/ Fault
    /\ Failed
    /\ \/ UNCHANGED cache
       \/ job.pc \in {"read", "paths"} /\ cache' = job.c
    /\ UNCHANGED <<config, edge, applies>>

(* Cloudflare carries out the items it took on last. *)
Settle(l) ==
    /\ edge.pending[l] # Unset
    /\ edge' = [edge EXCEPT !.lists[l] = edge.pending[l], !.pending[l] = Unset]
    /\ UNCHANGED <<config, cache, want, job, sure, used, applies, faults>>

-----------------------------------------------------------------------------
(* Edits, handled by the event loop beside a reconcile of the resync thread.   *)
Change ==
    /\ changes < MaxChanges
    /\ changes' = changes + 1
    /\ UNCHANGED <<plain, want, edge, job, sure, used, applies, faults>>

(* seal: a token is sealed with the present key, and refused where there is none *)
(* and the store is open.                                                        *)
OpensNow(token) == opens \/ token # Unset
Refusal(token) == plain /\ token # Unset

(* cf_targets.upsert: a blank token keeps the one on record.  The resync the   *)
(* handler asks for waits for the lock.  Mutant: a blank token is stored.      *)
Kept_Blank(token) == IF token = Unset THEN "" ELSE token
Kept(token) == IF token = Unset THEN conf.token ELSE token

SaveTarget(c) ==
    /\ ~ToMigrate /\ ~Refusal(c.token)
    /\ Change
    /\ conf' = [c EXCEPT !.token = Kept(c.token)]
    /\ listed' = TRUE
    /\ opens' = OpensNow(c.token)
    /\ UNCHANGED <<legacy, global, edgePaths, valid, cache>>

(* cf_targets.delete: the entry goes, and with it what tied it to its          *)
(* environment.                                                                *)
LoseTarget ==
    /\ listed
    /\ Change
    /\ conf' = Blank(conf)
    /\ listed' = FALSE
    /\ legacy' = Unset
    /\ UNCHANGED <<global, opens, edgePaths, valid, cache>>

(* The API is started with another SECRET_KEY: what one of two keys sealed the *)
(* other does not open, and the token comes back with its key.                 *)
Rekey ==
    /\ ~plain
    /\ changes < MaxChanges
    /\ changes' = changes + 1
    /\ opens' = ~opens
    /\ cache' = Unset
    /\ job' = Idle
    /\ sure' = (sure /\ job = Idle)
    /\ UNCHANGED <<conf, listed, legacy, global, plain, edgePaths, valid, want, edge, used,
                   applies, faults>>

(* environments.upsert, and its handler drops the cache.  After the migration   *)
(* it reaches a target that came without its token only.                        *)
SaveEnvironment(c) ==
    /\ ~Refusal(c.token)
    /\ Change
    /\ cache' = Unset
    /\ IF legacy = Unset THEN UNCHANGED <<legacy, opens>>
       ELSE /\ legacy' = [c EXCEPT !.token = IF @ = Unset THEN legacy.token ELSE @]
            /\ opens' = OpensNow(c.token)
    /\ UNCHANGED <<conf, listed, global, edgePaths, valid>>

(* environments.delete: the cache stays. *)
LoseEnvironment ==
    /\ legacy # Unset
    /\ Change
    /\ legacy' = Unset
    /\ UNCHANGED <<conf, listed, global, opens, edgePaths, valid, cache>>

(* settings.set_many: the cache is dropped.  The token of the settings is the   *)
(* deployment's own.                                                            *)
SaveSettings(on, g) ==
    /\ Change
    /\ edgePaths' = on
    /\ global' = [g EXCEPT !.token = global.token]
    /\ cache' = Unset
    /\ UNCHANGED <<conf, listed, legacy, opens, valid>>

(* The token is rolled at Cloudflare: the old one is void at once. *)
Roll(token) ==
    /\ token \notin valid
    /\ Change
    /\ valid' = {token}
    /\ UNCHANGED <<conf, listed, legacy, global, opens, edgePaths, cache>>

(* Somebody deletes our objects in the Cloudflare console. *)
Tamper ==
    /\ Fault
    /\ \/ edge' = [edge EXCEPT !.waf = {r \in @ : r.desc = "theirs"}]
       \/ edge' = [edge EXCEPT !.lists = [l \in List |-> Unset],
                               !.pending = [l \in List |-> Unset]]
       \/ edge' = [edge EXCEPT !.access = @ \ Tagged]
       \/ edge' = [edge EXCEPT !.path = [d \in Desc |-> {}]]
    /\ sure' = FALSE
    /\ job' = IF job = Idle THEN Idle ELSE [job EXCEPT !.alone = FALSE]
    /\ UNCHANGED <<config, cache, want, used, applies>>

Restart ==
    /\ Fault
    /\ cache' = Unset
    /\ job' = Idle
    /\ sure' = (sure /\ job = Idle)
    /\ UNCHANGED <<config, want, edge, used, applies>>

Next ==
    \/ \E new \in Wants : Apply(new)
    \/ Resync
    \/ \E c \in Cidr \cup {Unset} : Answered(c) \/ AnswerLost(c)
    \/ Refused
    \/ \E l \in List : Settle(l)
    \/ ListTargets
    \/ \E c \in Saves : SaveTarget(c) \/ SaveEnvironment(c)
    \/ \E t \in Token : Roll(t)
    \/ \E on \in BOOLEAN, g \in Globals : SaveSettings(on, g)
    \/ LoseTarget
    \/ LoseEnvironment
    \/ Rekey
    \/ Tamper
    \/ Restart

(* Requests end within 20 seconds, the resync thread runs for ever, and       *)
(* Cloudflare carries out what it took on.                                    *)
Fairness ==
    /\ WF_vars(Resync)
    /\ WF_vars(Refused \/ \E c \in Cidr \cup {Unset} : Answered(c))
    /\ \A l \in List : WF_vars(Settle(l))

Spec == Init /\ [][Next]_vars /\ Fairness

-----------------------------------------------------------------------------
TypeOK ==
    /\ conf \in Config /\ legacy \in Config \cup {Unset} /\ global \in Global
    /\ {listed, plain, opens, edgePaths} \subseteq BOOLEAN
    /\ cache \in Config \cup {Unset}
    /\ want \in Desired
    /\ valid \subseteq Token
    /\ edge \in [lists : [List -> (SUBSET Cidr) \cup {Unset}],
                 pending : [List -> (SUBSET Cidr) \cup {Unset}], waf : SUBSET WafRule,
                 access : SUBSET AccessRule, path : [Desc -> SUBSET Pattern]]
    /\ job = Idle \/ job \in [pc : {"list", "rule", "items", "read", "add", "del", "paths"},
                              c : Config, new : Desired, add : SUBSET Cidr, del : SUBSET Cidr,
                              alone : BOOLEAN]
    /\ sure \in BOOLEAN /\ used \subseteq Way
    /\ {applies, changes, faults} \subseteq Nat

(* The access rules of others stay, whatever is banned, released and resynced  *)
(* over lost answers and stale reads (only what carries TAG is ours).          *)
OthersKept == {[value |-> c, tag |-> "theirs"] : c \in Theirs} \subseteq edge.access

(* At most one WAF rule is made for the bans, though answers get lost and the  *)
(* cache is dropped ("never duplicated"): as long as the reconciles, over all  *)
(* edits and whichever of registry, environment and settings they went by,     *)
(* have worked with one list or with one description.  With two of both the    *)
(* rule is not found again and a second one is made.                           *)
OneRule ==
    OneList \/ OneDesc => Cardinality({r \in edge.waf : r.desc # "theirs"}) <= 1

(* Bans that were brought to the edge block exactly what they are, once        *)
(* Cloudflare has carried out what it took on: also when the path rule fails   *)
(* after them, and as long as the reconciles work with one mode and one list.  *)
BroughtIsBlocked ==
    sure /\ OneMode /\ OneList /\ (\A l \in List : edge.pending[l] = Unset) =>
        Blocked = IF job # Idle THEN job.new.cidrs ELSE want.cidrs

(* While there is a token Cloudflare takes, and the reconciles work with one   *)
(* mode and one list, the edge comes to block exactly the stored bans; and     *)
(* with one description, to have exactly the stored path rule while that is    *)
(* asked for: after tokens were rolled, requests lost in the middle of a       *)
(* reconcile, objects deleted, restarts, and a key that was changed and        *)
(* changed back.                                                               *)
Converges ==
    /\ <>[](Cfg.token \in valid /\ OneMode /\ OneList) => <>[](Blocked = want.cidrs)
    /\ <>[](Cfg.token \in valid /\ edgePaths /\ OneDesc) =>
          <>[](UNION {edge.path[d] : d \in Desc} = want.patterns)
=============================================================================
