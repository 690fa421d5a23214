------------------------- MODULE Cloudflare_proofs -------------------------
(***************************************************************************)
(* Theorems about Cloudflare, for every value of its constants.            *)
(***************************************************************************)
EXTENDS Cloudflare, FiniteSetTheorems, TLAPS

-----------------------------------------------------------------------------
(* The inductive invariant.                                                *)
Busy == job # Idle

Edge == [lists : [List -> (SUBSET Cidr) \cup {Unset}],
         pending : [List -> (SUBSET Cidr) \cup {Unset}], waf : SUBSET WafRule,
         access : SUBSET AccessRule, path : [Desc -> SUBSET Pattern]]
Job == [pc : {"list", "rule", "items", "read", "add", "del", "paths"},
        c : Config, new : Desired, add : SUBSET Cidr, del : SUBSET Cidr, alone : BOOLEAN]

(* What an edge blocks once Cloudflare has carried out what it took on. *)
ValuesOf(e) == {r.value : r \in {a \in e.access : a.tag = "ours"}}
Coming(e, l) == IF e.pending[l] # Unset THEN e.pending[l] ELSE e.lists[l]
Soon(e) ==
    ValuesOf(e)
        \cup UNION {Coming(e, r.list) : r \in {w \in e.waf : Coming(e, w.list) # Unset}}

(* What we have at an edge was put there by a reconcile that worked so. *)
Placed(e, ways) ==
    /\ \A r \in e.waf : r.desc # "theirs" =>
          \E u \in ways : u.mode = "ip-list" /\ u.list = r.list /\ u.desc = r.desc
    /\ \A l \in List : e.lists[l] # Unset => \E u \in ways : u.mode = "ip-list" /\ u.list = l
    /\ \A l \in List : e.pending[l] # Unset => e.lists[l] # Unset
    /\ ValuesOf(e) # {} => \E u \in ways : u.mode = "access-rules"

(* Two WAF rules of ours are the same one. *)
Single(e) == \A r, s \in e.waf : r.desc # "theirs" /\ s.desc # "theirs" => r = s

EdgeOK == Placed(edge, used) /\ (OneList \/ OneDesc => Single(edge))

(* A reconcile goes through the requests of the mode it began with. *)
WorksOK == Busy =>
    /\ WayOf(job.c) \in used
    /\ job.pc \in {"list", "rule", "items"} => job.c.mode = "ip-list"
    /\ job.pc \in {"read", "add", "del"} => job.c.mode = "access-rules"

(* How far a reconcile is that nobody interfered with. *)
ProgressOK == Busy /\ job.alone =>
    /\ job.pc = "items" /\ OneList => \E r \in edge.waf : r.list = job.c.list
    /\ job.pc \in {"add", "del"} =>
          /\ job.add \subseteq job.new.cidrs /\ job.del \cap job.new.cidrs = {}
          /\ ValuesOf(edge) = (job.new.cidrs \ job.add) \cup job.del

SureOK == sure =>
    /\ Busy => job.pc = "paths"
    /\ OneMode /\ OneList => Soon(edge) = IF Busy THEN job.new.cidrs ELSE want.cidrs

Inv == TypeOK /\ OthersKept /\ EdgeOK /\ WorksOK /\ ProgressOK /\ SureOK

-----------------------------------------------------------------------------
(* Facts about any state of the edge.                                      *)
LEMMA SoonByList ==
    ASSUME NEW e \in Edge, NEW l \in List, ValuesOf(e) = {}, Coming(e, l) # Unset,
           \A k \in List : k # l => Coming(e, k) = Unset,
           \E r \in e.waf : r.list = l
    PROVE  Soon(e) = Coming(e, l)
<1>1. \A r \in e.waf : r.list \in List
  BY DEF Edge, WafRule
<1>2. \A r \in e.waf : Coming(e, r.list) # Unset => r.list = l
  BY <1>1
<1> QED BY <1>2 DEF Soon

LEMMA SoonByRules ==
    ASSUME NEW e \in Edge, \A l \in List : Coming(e, l) = Unset
    PROVE  Soon(e) = ValuesOf(e)
<1>1. \A r \in e.waf : r.list \in List
  BY DEF Edge, WafRule
<1> QED BY <1>1 DEF Soon

LEMMA SoonSame ==
    ASSUME NEW e \in Edge, NEW f \in Edge, e.waf = f.waf, ValuesOf(e) = ValuesOf(f),
           \A l \in List : Coming(e, l) = Coming(f, l)
    PROVE  Soon(e) = Soon(f)
<1>1. \A r \in e.waf : r.list \in List
  BY DEF Edge, WafRule
<1>2. \A r \in e.waf : Coming(e, r.list) = Coming(f, r.list)
  BY <1>1
<1> QED BY <1>2 DEF Soon

LEMMA SoonIsBlocked ==
    ASSUME edge \in Edge, \A l \in List : edge.pending[l] = Unset
    PROVE  Soon(edge) = Blocked
<1>1. \A r \in edge.waf : r.list \in List
  BY DEF Edge, WafRule
<1>2. \A r \in edge.waf : Coming(edge, r.list) = edge.lists[r.list]
  BY <1>1 DEF Coming
<1> QED BY <1>2 DEF Soon, Blocked, ValuesOf

LEMMA NotComing ==
    ASSUME NEW e, NEW ways, Placed(e, ways), NEW l \in List, e.lists[l] = Unset
    PROVE  Coming(e, l) = Unset
BY DEF Placed, Coming

LEMMA PlacedGrows ==
    ASSUME NEW e, NEW ways, NEW more, ways \subseteq more, Placed(e, ways)
    PROVE  Placed(e, more)
BY DEF Placed

LEMMA WayType == ASSUME NEW c \in Config PROVE WayOf(c) \in Way
BY DEF WayOf, Way, Config

LEMMA OneGrows ==
    ASSUME used \subseteq used'
    PROVE  (OneMode' => OneMode) /\ (OneList' => OneList) /\ (OneDesc' => OneDesc)
BY DEF OneMode, OneList, OneDesc

-----------------------------------------------------------------------------
(* The request of each step of a reconcile. *)
LEMMA BusyJob == TypeOK /\ Busy => job \in Job /\ edge \in Edge
BY DEF TypeOK, Busy, Job, Edge

LEMMA IdleNotBusy == ~(Idle \in Job)
BY DEF Idle, Job

LEMMA ListRequest ==
    ASSUME TypeOK, Busy, NEW cidr, edge' = After(cidr), job.pc = "list"
    PROVE  /\ edge' \in Edge /\ edge'.waf = edge.waf /\ edge'.access = edge.access
           /\ edge'.pending = edge.pending
           /\ \A l \in List : l # job.c.list => edge'.lists[l] = edge.lists[l]
           /\ \A l \in List : edge.lists[l] # Unset => edge'.lists[l] # Unset
<1> DEFINE L == job.c.list
           lists == [edge.lists EXCEPT ![L] = IF @ = Unset THEN {} ELSE @]
<1>1. edge' = [edge EXCEPT !.lists = lists]
  BY BusyJob DEF After, Edge
<1>2. lists \in [List -> (SUBSET Cidr) \cup {Unset}]
  BY BusyJob DEF Edge
<1>3. \A l \in List : l # L => lists[l] = edge.lists[l]
  BY BusyJob DEF Edge
<1>4. \A l \in List : edge.lists[l] # Unset => lists[l] # Unset
  BY BusyJob DEF Edge
<1> HIDE DEF lists
<1> QED BY <1>1, <1>2, <1>3, <1>4, BusyJob DEF Edge

LEMMA RuleRequest ==
    ASSUME TypeOK, Busy, NEW cidr, edge' = After(cidr), job.pc = "rule"
    PROVE  /\ edge' \in Edge /\ edge'.lists = edge.lists /\ edge'.access = edge.access
           /\ edge'.pending = edge.pending
           /\ edge'.waf = IF Found # {} THEN edge.waf
                          ELSE edge.waf \cup {[desc |-> job.c.desc, list |-> job.c.list]}
<1> DEFINE waf == IF Found # {} THEN edge.waf
                  ELSE edge.waf \cup {[desc |-> job.c.desc, list |-> job.c.list]}
<1>1. edge' = [edge EXCEPT !.waf = waf]
  BY BusyJob DEF After, Edge
<1>2. waf \in SUBSET WafRule
  BY BusyJob DEF Edge, WafRule, Job, Config
<1> HIDE DEF waf
<1>3. /\ edge' \in Edge /\ edge'.lists = edge.lists /\ edge'.access = edge.access
      /\ edge'.pending = edge.pending /\ edge'.waf = waf
  BY <1>1, <1>2, BusyJob DEF Edge
<1> QED BY <1>3 DEF waf

LEMMA ItemsRequest ==
    ASSUME TypeOK, Busy, NEW cidr, edge' = After(cidr), job.pc = "items"
    PROVE  /\ edge' \in Edge /\ edge'.waf = edge.waf /\ edge'.access = edge.access
           /\ edge'.lists = edge.lists
           /\ edge'.pending[job.c.list] = job.new.cidrs
           /\ \A l \in List : l # job.c.list => edge'.pending[l] = edge.pending[l]
<1> DEFINE L == job.c.list
           pending == [edge.pending EXCEPT ![L] = job.new.cidrs]
<1>1. edge' = [edge EXCEPT !.pending = pending]
  BY BusyJob DEF After, Edge
<1>2. L \in List /\ job.new.cidrs \in SUBSET Cidr
  BY BusyJob DEF Job, Config, Desired
<1>3. /\ pending \in [List -> (SUBSET Cidr) \cup {Unset}]
      /\ pending[L] = job.new.cidrs
      /\ \A l \in List : l # L => pending[l] = edge.pending[l]
  BY <1>2, BusyJob DEF Edge
<1> HIDE DEF pending
<1> QED BY <1>1, <1>3, BusyJob DEF Edge

LEMMA AccessRequest ==
    ASSUME TypeOK, Busy, NEW cidr \in Pending, edge' = After(cidr), job.pc \in {"add", "del"}
    PROVE  /\ edge' \in Edge /\ edge'.lists = edge.lists /\ edge'.waf = edge.waf
           /\ edge'.pending = edge.pending
           /\ {r \in edge'.access : r.tag = "theirs"} = {r \in edge.access : r.tag = "theirs"}
           /\ job.pc = "add" => ValuesOf(edge') = ValuesOf(edge) \cup {cidr}
           /\ job.pc = "del" => ValuesOf(edge') = ValuesOf(edge) \ {cidr}
<1>0. job.pc = "add" => cidr \in Cidr
  BY BusyJob DEF Pending, Job
<1>1. CASE job.pc = "add"
  <2> DEFINE access == edge.access \cup {[value |-> cidr, tag |-> "ours"]}
  <2>1. edge' = [edge EXCEPT !.access = access]
    BY <1>1, BusyJob DEF After, Edge
  <2>2. access \in SUBSET AccessRule
    BY <1>0, <1>1, BusyJob DEF Edge, AccessRule
  <2>3. {r.value : r \in {a \in access : a.tag = "ours"}} = ValuesOf(edge) \cup {cidr}
    <3> DEFINE q == [value |-> cidr, tag |-> "ours"]
    <3>1. q.value = cidr /\ q.tag = "ours" /\ access = edge.access \cup {q}
      OBVIOUS
    <3> HIDE DEF q, access
    <3> QED BY <3>1, SMT DEF ValuesOf
  <2>4. {r \in access : r.tag = "theirs"} = {r \in edge.access : r.tag = "theirs"}
    OBVIOUS
  <2> HIDE DEF access
  <2>5. /\ edge' \in Edge /\ edge'.lists = edge.lists /\ edge'.waf = edge.waf
        /\ edge'.pending = edge.pending
        /\ edge'.access = access
    BY <2>1, <2>2, BusyJob DEF Edge
  <2> QED BY <1>1, <2>3, <2>4, <2>5 DEF ValuesOf
<1>2. CASE job.pc = "del"
  <2> DEFINE access == {r \in edge.access : r \notin Tagged \/ r.value # cidr}
  <2>1. edge' = [edge EXCEPT !.access = access]
    BY <1>2, BusyJob DEF After, Edge
  <2>2. access \in SUBSET AccessRule
    BY BusyJob DEF Edge
  <2>3. {r.value : r \in {a \in access : a.tag = "ours"}} = ValuesOf(edge) \ {cidr}
    BY DEF ValuesOf, Tagged
  <2>4. {r \in access : r.tag = "theirs"} = {r \in edge.access : r.tag = "theirs"}
    BY DEF Tagged
  <2> HIDE DEF access
  <2>5. /\ edge' \in Edge /\ edge'.lists = edge.lists /\ edge'.waf = edge.waf
        /\ edge'.pending = edge.pending
        /\ edge'.access = access
    BY <2>1, <2>2, BusyJob DEF Edge
  <2> QED BY <1>2, <2>3, <2>4, <2>5 DEF ValuesOf
<1> QED BY <1>1, <1>2

LEMMA OtherRequest ==
    ASSUME TypeOK, Busy, NEW cidr, edge' = After(cidr), job.pc \in {"read", "paths"}
    PROVE  /\ edge' \in Edge /\ edge'.lists = edge.lists /\ edge'.waf = edge.waf
           /\ edge'.access = edge.access /\ edge'.pending = edge.pending
<1>1. CASE job.pc = "read"
  <2>1. edge' = edge
    BY <1>1 DEF After
  <2> QED BY <2>1, BusyJob
<1>2. CASE job.pc = "paths"
  <2> DEFINE path == [edge.path EXCEPT ![job.c.desc] = job.new.patterns]
  <2>1. edge' = [edge EXCEPT !.path = path]
    BY <1>2, BusyJob DEF After, Edge
  <2>2. path \in [Desc -> SUBSET Pattern]
    BY BusyJob DEF Job, Desired, Edge
  <2> HIDE DEF path
  <2> QED BY <2>1, <2>2, BusyJob DEF Edge
<1> QED BY <1>1, <1>2

-----------------------------------------------------------------------------
(* A request leaves the edge as the invariant wants it. *)
EdgeKept ==
    /\ edge' \in Edge /\ OthersKept'
    /\ Placed(edge', used) /\ (OneList \/ OneDesc => Single(edge'))

LEMMA RequestKeeps ==
    ASSUME Inv, Busy, NEW cidr, Requested(cidr)
    PROVE  EdgeKept /\ (job.pc = "paths" => Soon(edge') = Soon(edge))
<1>0. /\ TypeOK /\ edge' = After(cidr) /\ cidr \in Pending /\ ~Vanished(cidr)
      /\ job \in Job /\ edge \in Edge /\ Placed(edge, used)
      /\ OneList \/ OneDesc => Single(edge)
  BY BusyJob DEF Inv, Requested, EdgeOK
<1> DEFINE way == WayOf(job.c)
<1>w. way \in used /\ way.mode = job.c.mode /\ way.list = job.c.list /\ way.desc = job.c.desc
  BY DEF Inv, WorksOK, WayOf
<1> HIDE DEF way
<1>1. CASE job.pc = "list"
  <2>1. /\ edge' \in Edge /\ edge'.waf = edge.waf /\ edge'.access = edge.access
        /\ edge'.pending = edge.pending
        /\ \A l \in List : l # job.c.list => edge'.lists[l] = edge.lists[l]
        /\ \A l \in List : edge.lists[l] # Unset => edge'.lists[l] # Unset
    BY <1>0, <1>1, ListRequest
  <2>2. job.c.mode = "ip-list"
    BY <1>1 DEF Inv, WorksOK
  <2>3. Placed(edge', used)
    BY <1>0, <1>w, <2>1, <2>2 DEF Placed, ValuesOf
  <2> QED BY <1>0, <1>1, <2>1, <2>3 DEF Inv, OthersKept, Single, EdgeKept
<1>2. CASE job.pc = "rule"
  <2> DEFINE new == [desc |-> job.c.desc, list |-> job.c.list]
  <2>1. /\ edge' \in Edge /\ edge'.lists = edge.lists /\ edge'.access = edge.access
        /\ edge'.pending = edge.pending
        /\ edge'.waf = IF Found # {} THEN edge.waf ELSE edge.waf \cup {new}
    BY <1>0, <1>2, RuleRequest
  <2>2. job.c.mode = "ip-list"
    BY <1>2 DEF Inv, WorksOK
  <2>3. OthersKept'
    BY <2>1 DEF Inv, OthersKept
  <2>4. new.desc = job.c.desc /\ new.list = job.c.list
    OBVIOUS
  <2> HIDE DEF new
  <2>5. Placed(edge', used)
    BY <1>0, <1>w, <2>1, <2>2, <2>4 DEF Placed, ValuesOf
  <2>6. ASSUME OneList \/ OneDesc PROVE Single(edge')
    <3>1. CASE Found # {}
      BY <1>0, <2>1, <2>6, <3>1 DEF Single
    <3>2. CASE Found = {}
      <4>1. \A r \in edge.waf : r.desc # job.c.desc /\ r.list # job.c.list
        BY <3>2 DEF Found
      <4>2. ASSUME NEW r \in edge.waf, r.desc # "theirs" PROVE FALSE
        <5>1. PICK u \in used : u.list = r.list /\ u.desc = r.desc
          BY <1>0, <4>2 DEF Placed
        <5>2. u.list = way.list \/ u.desc = way.desc
          BY <1>w, <2>6 DEF OneList, OneDesc
        <5> QED BY <1>w, <4>1, <5>1, <5>2
      <4> QED BY <2>1, <3>2, <4>2 DEF Single
    <3> QED BY <3>1, <3>2
  <2> QED BY <1>2, <2>1, <2>3, <2>5, <2>6 DEF EdgeKept
<1>3. CASE job.pc = "items"
  <2>1. /\ edge' \in Edge /\ edge'.waf = edge.waf /\ edge'.access = edge.access
        /\ edge'.lists = edge.lists
        /\ \A l \in List : l # job.c.list => edge'.pending[l] = edge.pending[l]
    BY <1>0, <1>3, ItemsRequest
  <2>2. edge.lists[job.c.list] # Unset
    BY <1>0, <1>3 DEF Vanished
  <2>3. Placed(edge', used)
    BY <1>0, <2>1, <2>2 DEF Placed, ValuesOf
  <2> QED BY <1>0, <1>3, <2>1, <2>3 DEF Inv, OthersKept, Single, EdgeKept
<1>4. CASE job.pc \in {"add", "del"}
  <2>1. /\ edge' \in Edge /\ edge'.lists = edge.lists /\ edge'.waf = edge.waf
        /\ edge'.pending = edge.pending
        /\ {r \in edge'.access : r.tag = "theirs"} = {r \in edge.access : r.tag = "theirs"}
    BY <1>0, <1>4, AccessRequest
  <2>2. job.c.mode = "access-rules"
    BY <1>4 DEF Inv, WorksOK
  <2>3. OthersKept'
    <3> SUFFICES ASSUME NEW c \in Theirs
                 PROVE  [value |-> c, tag |-> "theirs"] \in edge'.access
      BY DEF OthersKept
    <3>1. [value |-> c, tag |-> "theirs"] \in {r \in edge.access : r.tag = "theirs"}
      BY DEF Inv, OthersKept
    <3> QED BY <2>1, <3>1
  <2>4. Placed(edge', used)
    BY <1>0, <1>w, <2>1, <2>2 DEF Placed
  <2> QED BY <1>0, <1>4, <2>1, <2>3, <2>4 DEF Single, EdgeKept
<1>5. CASE job.pc \in {"read", "paths"}
  <2>1. /\ edge' \in Edge /\ edge'.lists = edge.lists /\ edge'.waf = edge.waf
        /\ edge'.access = edge.access /\ edge'.pending = edge.pending
    BY <1>0, <1>5, OtherRequest
  <2>2. Soon(edge') = Soon(edge)
    BY <1>0, <2>1, SoonSame DEF ValuesOf, Coming
  <2>3. Placed(edge', used)
    BY <1>0, <2>1 DEF Placed, ValuesOf
  <2> QED BY <1>0, <2>1, <2>2, <2>3 DEF Inv, OthersKept, Single, EdgeKept
<1> QED BY <1>0, <1>1, <1>2, <1>3, <1>4, <1>5 DEF Job

-----------------------------------------------------------------------------
(* How a reconcile goes on or ends, whatever the request was. *)
Quiet == UNCHANGED config /\ {applies', faults'} \subseteq Nat /\ cache' \in {cache, job.c}

LEMMA CacheType ==
    ASSUME Inv, Busy, Quiet
    PROVE  cache' \in Config \cup {Unset}
BY BusyJob DEF Inv, TypeOK, Quiet, Job

LEMMA GoesOn ==
    ASSUME Inv, Busy, Quiet, EdgeKept, NEW next \in Job, GoOn(next), job.pc # "paths",
           next.c = job.c, next.new = job.new, next.alone = job.alone, next.pc # "paths",
           next.pc \in {"list", "rule", "items"} => job.c.mode = "ip-list",
           next.pc \in {"read", "add", "del"} => job.c.mode = "access-rules",
           ProgressOK'
    PROVE  Inv'
<1>0. job' = next /\ used' = used /\ sure' = sure /\ want' = want
  BY DEF GoOn
<1>1. TypeOK'
  BY <1>0, CacheType DEF Inv, TypeOK, Quiet, config, EdgeKept, Edge, Job
<1>2. SureOK'
  BY <1>0 DEF Inv, SureOK
<1>3. WorksOK'
  BY <1>0 DEF Inv, WorksOK
<1>4. EdgeOK' /\ OthersKept'
  BY <1>0 DEF EdgeKept, EdgeOK, OneList, OneDesc
<1> QED BY <1>1, <1>2, <1>3, <1>4 DEF Inv

LEMMA Ends ==
    ASSUME Inv, Busy, Quiet, EdgeKept, NEW b \in BOOLEAN, End(b),
           b /\ job.alone /\ OneMode /\ OneList => Soon(edge') = job.new.cidrs
    PROVE  Inv'
<1>0. job' = Idle /\ ~Busy' /\ used' = used /\ want' = job.new
  BY DEF End, Busy
<1>1. sure' = (b /\ job.alone)
  BY DEF End
<1>2. job.new \in Desired /\ job.alone \in BOOLEAN
  BY BusyJob DEF Inv, Job
<1>3. sure' \in BOOLEAN
  BY <1>1, <1>2
<1>4. TypeOK'
  BY <1>0, <1>2, <1>3, CacheType DEF Inv, TypeOK, Quiet, config, EdgeKept, Edge
<1>5. WorksOK' /\ ProgressOK'
  BY <1>0 DEF WorksOK, ProgressOK
<1>6. SureOK'
  BY <1>0, <1>1, <1>2 DEF SureOK, OneMode, OneList
<1>7. EdgeOK' /\ OthersKept'
  BY <1>0 DEF EdgeKept, EdgeOK, OneList, OneDesc
<1> QED BY <1>4, <1>5, <1>6, <1>7 DEF Inv

LEMMA BlankType == ASSUME NEW c \in Config PROVE Blank(c) \in Config
BY DEF Blank, Config

LEMMA CfgType ==
    ASSUME TypeOK
    PROVE  Cfg \in Config /\ Resolved \in Config
<1>0. conf \in Config /\ (legacy # Unset => legacy \in Config) /\ global \in Global
      /\ (cache # Unset => cache \in Config)
  BY DEF TypeOK
<1> DEFINE env == [legacy EXCEPT !.mode = conf.mode]
           own == [token |-> global.token, mode |-> conf.mode,
                   list |-> global.list, desc |-> global.desc]
<1>1. legacy # Unset => env \in Config
  BY <1>0 DEF Config
<1>2. own \in Config
  BY <1>0 DEF Config, Global
<1>3. \/ Live = legacy /\ legacy # Unset
      \/ Live = conf
      \/ Live = env /\ legacy # Unset
      \/ Live = own
  BY DEF Live, ToMigrate
<1> HIDE DEF env, own
<1>4. Live \in Config
  BY <1>0, <1>1, <1>2, <1>3
<1>5. Cfg \in Config
  BY <1>4, BlankType DEF Cfg
<1> QED BY <1>0, <1>5 DEF Resolved

LEMMA BansAreDone ==
    ASSUME Inv, Busy, Quiet, EdgeKept, BansDone,
           job.alone /\ OneMode /\ OneList => Soon(edge') = job.new.cidrs
    PROVE  Inv'
<1>1. CASE ~edgePaths
  BY <1>1, Ends DEF BansDone
<1>2. CASE edgePaths
  <2>0. UNCHANGED config /\ job \in Job /\ UNCHANGED want /\ TypeOK
    BY <1>2, BusyJob DEF Inv, Quiet, BansDone
  <2> DEFINE c == Resolved'
             next == [job EXCEPT !.pc = "paths", !.c = c]
  <2>1. c \in Config
    <3>1. Cfg' = Cfg
      BY <2>0 DEF Cfg, Live, ToMigrate, Locked, config
    <3>2. Cfg' \in Config
      BY <2>0, <3>1, CfgType
    <3> QED BY <3>2, CacheType DEF Resolved
  <2> HIDE DEF c
  <2>2. /\ next \in Job /\ next.pc = "paths" /\ next.c = c
        /\ next.new = job.new /\ next.alone = job.alone
    BY <2>0, <2>1 DEF Job
  <2> HIDE DEF next
  <2>3. job' = next /\ sure' = job.alone /\ used' = used \cup {WayOf(c)}
    BY <1>2 DEF BansDone, c, next
  <2>4. Busy'
    BY <2>2, <2>3, IdleNotBusy DEF Busy
  <2>5. TypeOK'
    <3>1. job.alone \in BOOLEAN
      BY <2>0 DEF Job
    <3>2. used' \subseteq Way
      BY <2>0, <2>1, <2>3, WayType DEF TypeOK
    <3> QED BY <2>0, <2>2, <2>3, <3>1, <3>2, CacheType
            DEF Inv, TypeOK, Quiet, config, EdgeKept, Edge, Job
  <2>6. WorksOK' /\ ProgressOK'
    BY <2>2, <2>3 DEF WorksOK, ProgressOK
  <2>7. (OneMode' => OneMode) /\ (OneList' => OneList) /\ (OneDesc' => OneDesc)
    BY <2>3, OneGrows
  <2>8. SureOK'
    BY <2>2, <2>3, <2>4, <2>7 DEF SureOK
  <2>9. EdgeOK' /\ OthersKept'
    <3>1. Placed(edge', used')
      BY <2>3, PlacedGrows DEF EdgeKept
    <3> QED BY <2>7, <3>1 DEF EdgeKept, EdgeOK
  <2> QED BY <2>5, <2>6, <2>8, <2>9 DEF Inv
<1> QED BY <1>1, <1>2

-----------------------------------------------------------------------------
(* The requests of a reconcile, answered, lost or refused. *)
(* In one mode, what the reconcile does not use is not at the edge. *)
LEMMA OtherModeEmpty ==
    ASSUME Inv, Busy, EdgeKept, OneMode
    PROVE  /\ job.c.mode = "access-rules" => \A l \in List : Coming(edge', l) = Unset
           /\ job.c.mode = "ip-list" => ValuesOf(edge') = {}
           /\ job.c.mode = "ip-list" /\ OneList =>
                 \A l \in List : l # job.c.list => Coming(edge', l) = Unset
<1> DEFINE way == WayOf(job.c)
<1>0. way \in used /\ way.mode = job.c.mode /\ way.list = job.c.list
  BY DEF Inv, WorksOK, WayOf
<1> HIDE DEF way
<1>1. \A u \in used : u.mode = job.c.mode /\ (OneList => u.list = job.c.list)
  BY <1>0 DEF OneMode, OneList
<1>2. ASSUME job.c.mode = "access-rules", NEW l \in List PROVE Coming(edge', l) = Unset
  <2>1. edge'.lists[l] = Unset
    BY <1>1, <1>2 DEF EdgeKept, Placed
  <2> QED BY <2>1, NotComing DEF EdgeKept
<1>3. ASSUME job.c.mode = "ip-list" PROVE ValuesOf(edge') = {}
  BY <1>1, <1>3 DEF EdgeKept, Placed
<1>4. ASSUME job.c.mode = "ip-list", OneList, NEW l \in List, l # job.c.list
      PROVE  Coming(edge', l) = Unset
  <2>1. edge'.lists[l] = Unset
    BY <1>1, <1>4 DEF EdgeKept, Placed
  <2> QED BY <2>1, NotComing DEF EdgeKept
<1> QED BY <1>2, <1>3, <1>4

LEMMA AccessKeeps ==
    ASSUME Inv, Busy, Quiet, EdgeKept, job.pc \in {"read", "add", "del"},
           NEW j \in Job, j.c = job.c, j.new = job.new, j.alone = job.alone,
           Access(j),
           job.alone =>
              /\ j.add \subseteq job.new.cidrs /\ j.del \cap job.new.cidrs = {}
              /\ ValuesOf(edge') = (job.new.cidrs \ j.add) \cup j.del
    PROVE  Inv'
<1>0. job \in Job /\ TypeOK /\ job.c.mode = "access-rules"
  BY BusyJob DEF Inv, WorksOK
<1>1. ASSUME NEW pc \in {"add", "del"}, GoOn([j EXCEPT !.pc = pc])
      PROVE  Inv'
  <2> DEFINE next == [j EXCEPT !.pc = pc]
  <2>1. /\ next \in Job /\ next.pc = pc /\ next.c = j.c /\ next.new = j.new
        /\ next.alone = j.alone /\ next.add = j.add /\ next.del = j.del
    BY DEF Job
  <2> HIDE DEF next
  <2>2. GoOn(next) /\ job' = next
    BY <1>1 DEF GoOn, next
  <2>3. ProgressOK'
    BY <1>0, <2>1, <2>2 DEF ProgressOK
  <2> QED BY <1>0, <2>1, <2>2, <2>3, GoesOn
<1>2. ASSUME j.add = {}, j.del = {}, BansDone
      PROVE  Inv'
  <2>1. job.alone /\ OneMode /\ OneList => Soon(edge') = job.new.cidrs
    <3> SUFFICES ASSUME job.alone, OneMode PROVE Soon(edge') = job.new.cidrs
      OBVIOUS
    <3>1. edge' \in Edge /\ \A l \in List : Coming(edge', l) = Unset
      BY <1>0, OtherModeEmpty DEF EdgeKept
    <3>2. Soon(edge') = ValuesOf(edge')
      BY <3>1, SoonByRules
    <3> QED BY <1>2, <3>2
  <2> QED BY <1>2, <2>1, BansAreDone
<1> QED BY <1>1, <1>2 DEF Access

LEMMA AnsweredKeeps ==
    ASSUME Inv, NEW cidr, Answered(cidr)
    PROVE  Inv'
<1>0. /\ Requested(cidr) /\ Busy /\ UNCHANGED config
      /\ job \in Job /\ edge \in Edge /\ TypeOK /\ cidr \in Pending /\ edge' = After(cidr)
      /\ job.c \in Config /\ job.new \in Desired
  BY BusyJob DEF Inv, Answered, Requested, Busy, Job
<1>1. Quiet
  BY <1>0 DEF Quiet, Answered, Requested, Inv, TypeOK
<1>2. EdgeKept /\ (job.pc = "paths" => Soon(edge') = Soon(edge))
  BY <1>0, RequestKeeps
<1>3. CASE job.pc = "list"
  <2> DEFINE next == [job EXCEPT !.pc = "rule"]
  <2>1. /\ next \in Job /\ next.pc = "rule" /\ next.c = job.c /\ next.new = job.new
        /\ next.alone = job.alone
    BY <1>0 DEF Job
  <2>2. GoOn(next)
    BY <1>3 DEF Answered
  <2> HIDE DEF next
  <2>3. ProgressOK'
    BY <2>1, <2>2 DEF ProgressOK, GoOn
  <2> QED BY <1>0, <1>1, <1>2, <1>3, <2>1, <2>2, <2>3, GoesOn DEF Inv, WorksOK
<1>4. CASE job.pc = "rule"
  <2> DEFINE next == [job EXCEPT !.pc = "items"]
  <2>1. /\ next \in Job /\ next.pc = "items" /\ next.c = job.c /\ next.new = job.new
        /\ next.alone = job.alone
    BY <1>0 DEF Job
  <2>2. GoOn(next)
    BY <1>4 DEF Answered
  <2> HIDE DEF next
  <2>3. ASSUME OneList PROVE \E r \in edge'.waf : r.list = job.c.list
    <3> DEFINE new == [desc |-> job.c.desc, list |-> job.c.list]
    <3>1. edge'.waf = IF Found # {} THEN edge.waf ELSE edge.waf \cup {new}
      BY <1>0, <1>4, RuleRequest
    <3>2. new.list = job.c.list
      OBVIOUS
    <3> HIDE DEF new
    <3>3. CASE Found = {}
      BY <3>1, <3>2, <3>3
    <3>4. CASE Found # {}
      <4>1. PICK r \in edge.waf : r.desc = job.c.desc \/ r.list = job.c.list
        BY <3>4 DEF Found
      <4>2. job.c.desc # "theirs" /\ WayOf(job.c) \in used /\ WayOf(job.c).list = job.c.list
        BY <1>0, CloudflareAssumption DEF Inv, WorksOK, WayOf, Config
      <4>3. r.list = job.c.list
        BY <2>3, <4>1, <4>2 DEF Inv, EdgeOK, Placed, OneList
      <4> QED BY <3>1, <3>4, <4>3
    <3> QED BY <3>3, <3>4
  <2>4. ProgressOK'
    BY <2>1, <2>2, <2>3 DEF ProgressOK, GoOn, OneList
  <2> QED BY <1>0, <1>1, <1>2, <1>4, <2>1, <2>2, <2>4, GoesOn DEF Inv, WorksOK
<1>5. CASE job.pc = "items"
  <2>1. BansDone
    BY <1>5 DEF Answered
  <2>2. /\ edge' \in Edge /\ edge'.waf = edge.waf
        /\ edge'.pending[job.c.list] = job.new.cidrs
    BY <1>0, <1>5, ItemsRequest
  <2>3. job.alone /\ OneMode /\ OneList => Soon(edge') = job.new.cidrs
    <3> SUFFICES ASSUME job.alone, OneMode, OneList PROVE Soon(edge') = job.new.cidrs
      OBVIOUS
    <3>1. job.c.mode = "ip-list" /\ job.c.list \in List
      BY <1>0, <1>5 DEF Inv, WorksOK, Config
    <3>2. \E r \in edge'.waf : r.list = job.c.list
      BY <1>0, <1>5, <2>2 DEF Inv, ProgressOK
    <3>3. /\ ValuesOf(edge') = {}
          /\ \A k \in List : k # job.c.list => Coming(edge', k) = Unset
      BY <1>0, <1>2, <3>1, OtherModeEmpty
    <3>4. job.new.cidrs # Unset
      BY <1>0, CloudflareAssumption DEF Desired
    <3>5. Coming(edge', job.c.list) = job.new.cidrs
      BY <2>2, <3>4 DEF Coming
    <3> QED BY <2>2, <3>1, <3>2, <3>3, <3>4, <3>5, SoonByList
  <2> QED BY <1>0, <1>1, <1>2, <2>1, <2>3, BansAreDone
<1>6. CASE job.pc = "read"
  <2> DEFINE missing == Missing
             surplus == Surplus
             j == [job EXCEPT !.add = missing, !.del = surplus]
  <2>1. missing \subseteq Cidr /\ surplus \subseteq Cidr /\ ValuesOf(edge) \subseteq Cidr
    BY <1>0 DEF Missing, Surplus, Desired, Tagged, ValuesOf, Edge, AccessRule
  <2>2. missing = job.new.cidrs \ ValuesOf(edge) /\ surplus = ValuesOf(edge) \ job.new.cidrs
    BY DEF Missing, Surplus, Tagged, ValuesOf
  <2>3. Access(j)
    BY <1>6 DEF Answered
  <2> HIDE DEF missing, surplus
  <2>4. /\ j \in Job /\ j.c = job.c /\ j.new = job.new /\ j.alone = job.alone
        /\ j.add = missing /\ j.del = surplus
    BY <1>0, <2>1 DEF Job
  <2> HIDE DEF j
  <2>5. ValuesOf(edge') = ValuesOf(edge)
    BY <1>0, <1>6, OtherRequest DEF ValuesOf
  <2>6. /\ j.add \subseteq job.new.cidrs /\ j.del \cap job.new.cidrs = {}
        /\ ValuesOf(edge') = (job.new.cidrs \ j.add) \cup j.del
    BY <2>2, <2>4, <2>5
  <2> QED BY <1>0, <1>1, <1>2, <1>6, <2>3, <2>4, <2>6, AccessKeeps
<1>7. CASE job.pc \in {"add", "del"}
  <2> DEFINE add == job.add \ {cidr}
             del == job.del \ {cidr}
             j == [job EXCEPT !.add = add, !.del = del]
  <2>1. Access(j)
    BY <1>7 DEF Answered
  <2>2. add \subseteq Cidr /\ del \subseteq Cidr
    BY <1>0 DEF Job
  <2> HIDE DEF add, del
  <2>3. /\ j \in Job /\ j.c = job.c /\ j.new = job.new /\ j.alone = job.alone
        /\ j.add = add /\ j.del = del
    BY <1>0, <2>2 DEF Job
  <2> HIDE DEF j
  <2>4. /\ job.pc = "add" => ValuesOf(edge') = ValuesOf(edge) \cup {cidr}
        /\ job.pc = "del" => ValuesOf(edge') = ValuesOf(edge) \ {cidr}
    BY <1>0, <1>7, AccessRequest
  <2>5. job.alone =>
              /\ j.add \subseteq job.new.cidrs /\ j.del \cap job.new.cidrs = {}
              /\ ValuesOf(edge') = (job.new.cidrs \ j.add) \cup j.del
    <3> SUFFICES ASSUME job.alone
                 PROVE  /\ add \subseteq job.new.cidrs /\ del \cap job.new.cidrs = {}
                        /\ ValuesOf(edge') = (job.new.cidrs \ add) \cup del
      BY <2>3
    <3>1. /\ job.add \subseteq job.new.cidrs /\ job.del \cap job.new.cidrs = {}
          /\ ValuesOf(edge) = (job.new.cidrs \ job.add) \cup job.del
      BY <1>0, <1>7 DEF Inv, ProgressOK
    <3>2. job.pc = "add" => cidr \in job.add
      BY <1>0 DEF Pending
    <3>3. job.pc = "del" => cidr \in job.del
      BY <1>0 DEF Pending
    <3>4. CASE job.pc = "add"
      BY <2>4, <3>1, <3>2, <3>4 DEF add, del
    <3>5. CASE job.pc = "del"
      BY <2>4, <3>1, <3>3, <3>5 DEF add, del
    <3> QED BY <1>7, <3>4, <3>5
  <2> QED BY <1>0, <1>1, <1>2, <1>7, <2>1, <2>3, <2>5, AccessKeeps
<1>8. CASE job.pc = "paths"
  <2>1. End(sure) /\ sure \in BOOLEAN
    BY <1>0, <1>8 DEF Answered, TypeOK
  <2>2. sure /\ OneMode /\ OneList => Soon(edge') = job.new.cidrs
    BY <1>0, <1>2, <1>8 DEF Inv, SureOK
  <2> QED BY <1>0, <1>1, <1>2, <2>1, <2>2, Ends
<1> QED BY <1>0, <1>3, <1>4, <1>5, <1>6, <1>7, <1>8 DEF Job

LEMMA FailureKeeps ==
    ASSUME Inv, Busy, Quiet, EdgeKept, Failed,
           job.pc = "paths" => Soon(edge') = Soon(edge)
    PROVE  Inv'
<1> DEFINE b == job.pc = "paths" /\ sure
<1>1. End(b) /\ b \in BOOLEAN
  BY DEF Failed
<1>2. b /\ OneMode /\ OneList => Soon(edge') = job.new.cidrs
  BY DEF Inv, SureOK
<1> HIDE DEF b
<1> QED BY <1>1, <1>2, Ends

LEMMA AnswerLostKeeps ==
    ASSUME Inv, NEW cidr, AnswerLost(cidr)
    PROVE  Inv'
<1>1. Requested(cidr) /\ Busy /\ Failed
  BY DEF AnswerLost, Requested, Busy
<1>2. Quiet
  BY CloudflareAssumption DEF Inv, TypeOK, AnswerLost, Requested, Fault, Quiet
<1>3. EdgeKept /\ (job.pc = "paths" => Soon(edge') = Soon(edge))
  BY <1>1, RequestKeeps
<1> QED BY <1>1, <1>2, <1>3, FailureKeeps

LEMMA RefusedKeeps ==
    ASSUME Inv, Refused
    PROVE  Inv'
<1>1. Busy /\ Failed /\ edge' = edge
  BY DEF Refused, Busy
<1>2. Quiet
  BY CloudflareAssumption DEF Inv, TypeOK, Refused, Fault, Quiet
<1>3. EdgeKept
  BY <1>1, BusyJob DEF Inv, EdgeKept, OthersKept, EdgeOK
<1> QED BY <1>1, <1>2, <1>3, FailureKeeps

-----------------------------------------------------------------------------
(* A reconcile begins. *)
LEMMA MigrationType ==
    ASSUME TypeOK, Migrated
    PROVE  conf' \in Config /\ legacy' \in Config \cup {Unset} /\ listed' \in BOOLEAN
<1>1. CASE ToMigrate
  <2>1. legacy \in Config
    BY <1>1 DEF TypeOK, ToMigrate
  <2> QED BY <1>1, <2>1, BlankType DEF TypeOK, Migrated
<1>2. CASE ~ToMigrate
  BY <1>2 DEF TypeOK, Migrated
<1> QED BY <1>1, <1>2

LEMMA BeginKeeps ==
    ASSUME Inv, NEW new \in Desired, Begin(new), applies' \in Nat
    PROVE  Inv'
<1>1. /\ Migrated
      /\ UNCHANGED <<global, plain, opens, edgePaths, valid, changes, cache, edge, faults>>
      /\ job = Idle /\ ~Busy /\ ~sure' /\ sure' \in BOOLEAN /\ edge \in Edge /\ TypeOK
  BY DEF Begin, Busy, Inv, TypeOK, Edge
<1>2. conf' \in Config /\ legacy' \in Config \cup {Unset} /\ listed' \in BOOLEAN
  BY <1>1, MigrationType
<1> DEFINE c == Resolved
           pc == IF c.mode = "ip-list" THEN "list" ELSE "read"
           next == [pc |-> pc, c |-> c, new |-> new, add |-> {}, del |-> {}, alone |-> TRUE]
<1>3. c \in Config /\ WayOf(c) \in Way
  BY <1>1, CfgType, WayType
<1>4. used \subseteq used' /\ used' \subseteq Way
  BY <1>1, <1>3 DEF Begin, TypeOK
<1>5. OthersKept' /\ EdgeOK' /\ SureOK'
  <2>1. Placed(edge', used')
    BY <1>1, <1>4, PlacedGrows DEF Inv, EdgeOK
  <2>2. OneList' \/ OneDesc' => Single(edge')
    BY <1>1, <1>4, OneGrows DEF Inv, EdgeOK
  <2>3. OthersKept' /\ SureOK'
    BY <1>1 DEF Inv, OthersKept, SureOK
  <2> QED BY <2>1, <2>2, <2>3 DEF EdgeOK
<1>6. CASE Cfg.token = Unset
  <2>1. want' = new /\ job' = Idle /\ ~Busy'
    BY <1>1, <1>6 DEF Begin, Busy
  <2>2. TypeOK'
    BY <1>1, <1>2, <1>4, <2>1 DEF TypeOK, Edge
  <2>3. WorksOK' /\ ProgressOK'
    BY <2>1 DEF WorksOK, ProgressOK
  <2> QED BY <1>5, <2>2, <2>3 DEF Inv
<1>7. CASE Cfg.token # Unset
  <2>1. job' = next /\ want' = want /\ WayOf(c) \in used'
    BY <1>7 DEF Begin
  <2> HIDE DEF c
  <2>2. c.mode \in Mode
    BY <1>3 DEF Config
  <2>3. next \in Job /\ next.c = c /\ next.pc = pc
    BY <1>3 DEF Job
  <2>4. \/ pc = "list" /\ c.mode = "ip-list"
        \/ pc = "read" /\ c.mode = "access-rules"
    BY <2>2 DEF Mode
  <2> HIDE DEF next, pc
  <2>5. TypeOK'
    BY <1>1, <1>2, <1>4, <2>1, <2>3 DEF TypeOK, Edge, Job
  <2>6. WorksOK' /\ ProgressOK'
    BY <2>1, <2>3, <2>4 DEF WorksOK, ProgressOK
  <2> QED BY <1>5, <2>5, <2>6 DEF Inv
<1> QED BY <1>6, <1>7

-----------------------------------------------------------------------------
(* Cloudflare carries out what it took on. *)
LEMMA SettleKeeps ==
    ASSUME Inv, NEW l \in List, Settle(l)
    PROVE  Inv'
<1> DEFINE lists == [edge.lists EXCEPT ![l] = edge.pending[l]]
           pending == [edge.pending EXCEPT ![l] = Unset]
<1>0. /\ TypeOK /\ edge \in Edge /\ edge.pending[l] # Unset
      /\ UNCHANGED <<config, cache, want, job, sure, used, applies, faults>>
  BY DEF Inv, TypeOK, Edge, Settle
<1>1. edge' = [edge EXCEPT !.lists = lists, !.pending = pending]
  BY <1>0 DEF Settle, Edge
<1>2. /\ lists \in [List -> (SUBSET Cidr) \cup {Unset}]
      /\ lists[l] = edge.pending[l]
      /\ \A k \in List : k # l => lists[k] = edge.lists[k]
  BY <1>0 DEF Edge
<1>3. /\ pending \in [List -> (SUBSET Cidr) \cup {Unset}]
      /\ pending[l] = Unset
      /\ \A k \in List : k # l => pending[k] = edge.pending[k]
  BY <1>0 DEF Edge
<1> HIDE DEF lists, pending
<1>4. /\ edge' \in Edge /\ edge'.waf = edge.waf /\ edge'.access = edge.access
      /\ edge'.lists = lists /\ edge'.pending = pending
  BY <1>0, <1>1, <1>2, <1>3 DEF Edge
<1>5. ValuesOf(edge') = ValuesOf(edge) /\ Busy' = Busy
  BY <1>0, <1>4 DEF ValuesOf, Busy
<1>6. \A k \in List : Coming(edge', k) = Coming(edge, k)
  BY <1>0, <1>2, <1>3, <1>4 DEF Coming
<1>7. Soon(edge') = Soon(edge)
  BY <1>0, <1>4, <1>5, <1>6, SoonSame
<1>8. Placed(edge', used)
  BY <1>0, <1>2, <1>3, <1>4, <1>5 DEF Inv, EdgeOK, Placed
<1>9. TypeOK'
  BY <1>0, <1>4 DEF TypeOK, config, Edge
<1>10. OthersKept' /\ EdgeOK'
  BY <1>0, <1>4, <1>8 DEF Inv, OthersKept, EdgeOK, Single, OneList, OneDesc
<1>11. WorksOK' /\ ProgressOK'
  BY <1>0, <1>4, <1>5 DEF Inv, WorksOK, ProgressOK, Busy, OneList
<1>12. SureOK'
  BY <1>0, <1>5, <1>7 DEF Inv, SureOK, OneMode, OneList
<1> QED BY <1>9, <1>10, <1>11, <1>12 DEF Inv

-----------------------------------------------------------------------------
(* Edits of the configuration, a migration alone, and a process that starts   *)
(* again.                                                                     *)
LEMMA EditKeeps ==
    ASSUME Inv, TypeOK', UNCHANGED <<want, edge, used>>,
           \/ UNCHANGED <<job, sure>>
           \/ job' = Idle /\ sure' = (sure /\ job = Idle)
    PROVE  Inv'
<1>1. OthersKept' /\ EdgeOK'
  BY DEF Inv, OthersKept, EdgeOK, OneList, OneDesc
<1>2. (Busy' => Busy /\ job' = job) /\ (sure' => sure /\ job' = job)
  <2>1. sure \in BOOLEAN /\ sure' \in BOOLEAN
    BY DEF Inv, TypeOK
  <2>2. CASE UNCHANGED <<job, sure>>
    BY <2>2 DEF Busy
  <2>3. CASE job' = Idle /\ sure' = (sure /\ job = Idle)
    <3>1. sure' => sure /\ job = Idle
      BY <2>1, <2>3
    <3> QED BY <2>3, <3>1 DEF Busy
  <2> QED BY <2>2, <2>3
<1>3. WorksOK' /\ ProgressOK'
  BY <1>2 DEF Inv, WorksOK, ProgressOK, OneList
<1>4. SureOK'
  <2>1. sure' => (Busy' <=> Busy)
    BY <1>2 DEF Busy
  <2> QED BY <1>2, <2>1 DEF Inv, SureOK, OneMode, OneList
<1> QED BY <1>1, <1>3, <1>4 DEF Inv

LEMMA SavedType ==
    ASSUME NEW c \in Saves, NEW t \in Token \cup {Unset}
    PROVE  [c EXCEPT !.token = t] \in Config
<1>1. c \in Config
  BY CloudflareAssumption DEF Config, Mode
<1> QED BY <1>1 DEF Config

LEMMA SaveTargetKeeps ==
    ASSUME Inv, NEW c \in Saves, SaveTarget(c)
    PROVE  Inv'
<1> DEFINE d == [c EXCEPT !.token = Kept(c.token)]
<1>0. TypeOK /\ c \in Config
  BY CloudflareAssumption DEF Inv, Config, Mode
<1>1. Kept(c.token) \in Token \cup {Unset}
  BY <1>0 DEF Kept, TypeOK, Config
<1>2. d \in Config
  BY <1>1, SavedType
<1>3. conf' = d
  BY DEF SaveTarget
<1> HIDE DEF d
<1>4. TypeOK'
  BY <1>0, <1>2, <1>3, CloudflareAssumption DEF TypeOK, SaveTarget, Change, OpensNow
<1> QED BY <1>4, EditKeeps DEF SaveTarget, Change

LEMMA SaveEnvironmentKeeps ==
    ASSUME Inv, NEW c \in Saves, SaveEnvironment(c)
    PROVE  Inv'
<1> DEFINE t == IF c.token = Unset THEN legacy.token ELSE c.token
           d == [c EXCEPT !.token = t]
<1>0. TypeOK /\ c \in Config
  BY CloudflareAssumption DEF Inv, Config, Mode
<1>1. CASE legacy = Unset
  <2>1. TypeOK'
    BY <1>0, <1>1, CloudflareAssumption DEF TypeOK, SaveEnvironment, Change
  <2> QED BY <1>1, <2>1, EditKeeps DEF SaveEnvironment, Change
<1>2. CASE legacy # Unset
  <2>1. t \in Token \cup {Unset}
    BY <1>0, <1>2 DEF TypeOK, Config
  <2>2. legacy' = d
    BY <1>0, <1>2 DEF SaveEnvironment, Config
  <2>3. d \in Config
    BY <2>1, SavedType
  <2> HIDE DEF d, t
  <2>4. TypeOK'
    BY <1>0, <1>2, <2>2, <2>3, CloudflareAssumption DEF TypeOK, SaveEnvironment, Change, OpensNow
  <2> QED BY <1>2, <2>4, EditKeeps DEF SaveEnvironment, Change
<1> QED BY <1>1, <1>2

LEMMA OtherEditsKeep ==
    ASSUME Inv,
           \/ LoseTarget \/ LoseEnvironment \/ Rekey \/ Restart \/ ListTargets
           \/ \E t \in Token : Roll(t)
           \/ \E on \in BOOLEAN, g \in Globals : SaveSettings(on, g)
    PROVE  Inv'
<1>0. TypeOK
  BY DEF Inv
<1>1. CASE LoseTarget
  <2>1. conf' \in Config
    BY <1>0, <1>1, BlankType DEF TypeOK, LoseTarget
  <2>2. listed' \in BOOLEAN /\ legacy' \in Config \cup {Unset} /\ changes' \in Nat
    <3>1. listed' = FALSE /\ legacy' = Unset /\ changes' = changes + 1
      BY <1>1 DEF LoseTarget, Change
    <3>2. listed' \in BOOLEAN
      BY <3>1, Zenon
    <3>3. changes' \in Nat
      BY <1>0, <3>1 DEF TypeOK
    <3> QED BY <3>1, <3>2, <3>3
  <2>3. UNCHANGED <<global, plain, opens, edgePaths, valid, cache, want, edge, job, sure, used,
                    applies, faults>>
    BY <1>1 DEF LoseTarget, Change
  <2>4. TypeOK'
    BY <1>0, <2>1, <2>2, <2>3 DEF TypeOK
  <2> QED BY <1>1, <2>4, EditKeeps DEF LoseTarget, Change
<1>2. CASE Rekey
  <2>1. TypeOK'
    BY <1>0, <1>2, CloudflareAssumption DEF TypeOK, Rekey
  <2> QED BY <1>2, <2>1, EditKeeps DEF Rekey
<1>3. CASE Restart
  <2>1. TypeOK'
    BY <1>0, <1>3, CloudflareAssumption DEF TypeOK, Restart, Fault, config
  <2> QED BY <1>3, <2>1, EditKeeps DEF Restart, config
<1>4. CASE ListTargets
  <2>1. conf' \in Config /\ legacy' \in Config \cup {Unset} /\ listed' \in BOOLEAN
    BY <1>0, <1>4, MigrationType DEF ListTargets
  <2>2. TypeOK'
    BY <1>0, <1>4, <2>1 DEF TypeOK, ListTargets
  <2> QED BY <1>4, <2>2, EditKeeps DEF ListTargets
<1>5. ASSUME NEW t \in Token, Roll(t) PROVE Inv'
  <2>1. TypeOK'
    BY <1>0, <1>5, CloudflareAssumption DEF TypeOK, Roll, Change
  <2> QED BY <1>5, <2>1, EditKeeps DEF Roll, Change
<1>6. ASSUME NEW on \in BOOLEAN, NEW g \in Globals, SaveSettings(on, g) PROVE Inv'
  <2> DEFINE h == [g EXCEPT !.token = global.token]
  <2>1. g \in Global
    BY CloudflareAssumption DEF Global
  <2>2. h \in Global
    BY <1>0, <2>1 DEF TypeOK, Global
  <2>3. global' = h
    BY <1>6 DEF SaveSettings
  <2> HIDE DEF h
  <2>4. TypeOK'
    BY <1>0, <1>6, <2>2, <2>3, CloudflareAssumption DEF TypeOK, SaveSettings, Change
  <2> QED BY <1>6, <2>4, EditKeeps DEF SaveSettings, Change
<1>7. CASE LoseEnvironment
  <2>1. TypeOK'
    BY <1>0, <1>7, CloudflareAssumption DEF TypeOK, LoseEnvironment, Change
  <2> QED BY <1>7, <2>1, EditKeeps DEF LoseEnvironment, Change
<1> QED BY <1>1, <1>2, <1>3, <1>4, <1>5, <1>6, <1>7

LEMMA TamperKeeps ==
    ASSUME Inv, Tamper
    PROVE  Inv'
<1>0. /\ TypeOK /\ edge \in Edge /\ ~sure' /\ sure' \in BOOLEAN
      /\ UNCHANGED <<config, cache, want, used, applies>> /\ faults' \in Nat
  <2>1. /\ sure' = FALSE /\ UNCHANGED <<config, cache, want, used, applies>>
        /\ faults' = faults + 1
    BY DEF Tamper, Fault
  <2>2. TypeOK
    BY DEF Inv
  <2>3. edge \in Edge
    BY <2>2 DEF TypeOK, Edge
  <2>4. faults \in Nat
    BY <2>2 DEF TypeOK, Edge
  <2>5. ~sure' /\ sure' \in BOOLEAN
    BY <2>1
  <2>6. faults' \in Nat
    BY <2>1, <2>4
  <2> QED BY <2>1, <2>2, <2>3, <2>5, <2>6
<1>1. /\ job' = Idle \/ (job' \in Job /\ job'.c = job.c /\ job'.pc = job.pc)
      /\ Busy' => Busy /\ ~job'.alone
  <2>1. CASE job = Idle
    BY <2>1 DEF Tamper, Busy
  <2>2. CASE job # Idle
    <3> DEFINE next == [job EXCEPT !.alone = FALSE]
    <3>1. job \in Job
      BY <1>0, <2>2, BusyJob DEF Busy
    <3>2. next \in Job /\ next.c = job.c /\ next.pc = job.pc /\ ~next.alone
      BY <3>1 DEF Job
    <3>3. job' = next
      BY <2>2 DEF Tamper
    <3> HIDE DEF next
    <3> QED BY <2>2, <3>2, <3>3 DEF Busy
  <2> QED BY <2>1, <2>2
<1>2. /\ edge' \in Edge
      /\ {r \in edge.access : r.tag = "theirs"} \subseteq edge'.access
      /\ edge'.waf \subseteq edge.waf
      /\ \/ edge'.lists = edge.lists /\ edge'.pending = edge.pending
         \/ \A l \in List : edge'.lists[l] = Unset /\ edge'.pending[l] = Unset
      /\ ValuesOf(edge') \subseteq ValuesOf(edge)
  <2>1. CASE edge' = [edge EXCEPT !.waf = {r \in @ : r.desc = "theirs"}]
    BY <1>0, <2>1 DEF Edge, ValuesOf
  <2>2. CASE edge' = [edge EXCEPT !.lists = [l \in List |-> Unset],
                                  !.pending = [l \in List |-> Unset]]
    <3> DEFINE lists == [l \in List |-> Unset]
    <3>1. edge' = [edge EXCEPT !.lists = lists, !.pending = lists]
      BY <2>2
    <3>2. lists \in [List -> (SUBSET Cidr) \cup {Unset}] /\ \A l \in List : lists[l] = Unset
      OBVIOUS
    <3> HIDE DEF lists
    <3> QED BY <1>0, <3>1, <3>2 DEF Edge, ValuesOf
  <2>3. CASE edge' = [edge EXCEPT !.access = @ \ Tagged]
    <3> DEFINE access == edge.access \ Tagged
    <3>1. edge' = [edge EXCEPT !.access = access]
      BY <1>0, <2>3 DEF Edge
    <3>2. /\ access \in SUBSET AccessRule
          /\ {r \in edge.access : r.tag = "theirs"} \subseteq access
          /\ {r.value : r \in {a \in access : a.tag = "ours"}} \subseteq ValuesOf(edge)
      BY <1>0 DEF Edge, Tagged, ValuesOf
    <3> HIDE DEF access
    <3> QED BY <1>0, <3>1, <3>2 DEF Edge, ValuesOf
  <2>4. CASE edge' = [edge EXCEPT !.path = [d \in Desc |-> {}]]
    <3> DEFINE path == [d \in Desc |-> {}]
    <3>1. edge' = [edge EXCEPT !.path = path]
      BY <2>4
    <3>2. path \in [Desc -> SUBSET Pattern]
      OBVIOUS
    <3> HIDE DEF path
    <3> QED BY <1>0, <3>1, <3>2 DEF Edge, ValuesOf
  <2> QED BY <2>1, <2>2, <2>3, <2>4 DEF Tamper
<1>3. TypeOK'
  BY <1>0, <1>1, <1>2 DEF TypeOK, config, Edge, Job
<1>4. OthersKept'
  <2> SUFFICES ASSUME NEW c \in Theirs
               PROVE  [value |-> c, tag |-> "theirs"] \in edge'.access
    BY DEF OthersKept
  <2>1. [value |-> c, tag |-> "theirs"] \in {r \in edge.access : r.tag = "theirs"}
    BY DEF Inv, OthersKept
  <2> QED BY <1>2, <2>1
<1>5. WorksOK' /\ ProgressOK' /\ SureOK'
  BY <1>0, <1>1 DEF Inv, WorksOK, ProgressOK, SureOK, Busy
<1>6. Placed(edge', used)
  BY <1>2 DEF Inv, EdgeOK, Placed
<1>7. EdgeOK'
  BY <1>0, <1>2, <1>6 DEF Inv, EdgeOK, Single, OneList, OneDesc
<1> QED BY <1>3, <1>4, <1>5, <1>7 DEF Inv

-----------------------------------------------------------------------------
LEMMA InitInv == Init => Inv
<1> SUFFICES ASSUME Init PROVE Inv
  OBVIOUS
<1>1. PICK c \in First : \/ conf = c /\ listed = TRUE /\ legacy = Unset
                         \/ conf = Blank(c) /\ listed = FALSE /\ legacy = c
  BY DEF Init
<1>2. c \in Config
  BY CloudflareAssumption DEF Config, Mode
<1>3. /\ conf \in Config /\ (legacy = Unset \/ legacy \in Config) /\ listed \in BOOLEAN
      /\ global \in Global
  BY <1>1, <1>2, BlankType, CloudflareAssumption DEF Init, Global
<1>4. valid \subseteq Token
  <2> SUFFICES ASSUME NEW d \in {conf, legacy, global} \ {Unset}, d.token # Unset
               PROVE  d.token \in Token
    BY DEF Init
  <2> QED BY <1>3 DEF Config, Global
<1> DEFINE lists == [l \in List |-> Unset]
           access == {[value |-> a, tag |-> "theirs"] : a \in Theirs}
           waf == {[desc |-> "theirs", list |-> conf.list]}
           path == [d \in Desc |-> {}]
<1>5. /\ edge.lists = lists /\ edge.pending = lists /\ edge.access = access
      /\ edge.waf \in {{}, waf} /\ edge \in Edge
  <2>1. /\ edge.lists = lists /\ edge.pending = lists /\ edge.access = access
        /\ edge.waf \in {{}, waf} /\ edge.path = path
        /\ edge = [lists |-> edge.lists, pending |-> edge.pending, waf |-> edge.waf,
                   access |-> edge.access, path |-> edge.path]
    BY DEF Init
  <2>2. lists \in [List -> (SUBSET Cidr) \cup {Unset}]
    OBVIOUS
  <2>3. access \in SUBSET AccessRule
    BY CloudflareAssumption DEF AccessRule
  <2>4. waf \in SUBSET WafRule
    BY <1>3 DEF WafRule, Config
  <2>5. path \in [Desc -> SUBSET Pattern]
    OBVIOUS
  <2> HIDE DEF lists, access, waf, path
  <2>6. edge.waf \in SUBSET WafRule
    BY <2>1, <2>4
  <2> QED BY <2>1, <2>2, <2>3, <2>5, <2>6 DEF Edge
<1>6. /\ \A l \in List : edge.lists[l] = Unset /\ edge.pending[l] = Unset
      /\ ValuesOf(edge) = {} /\ \A r \in edge.waf : r.desc = "theirs"
      /\ OthersKept
  <2>1. \A r \in access : r.tag = "theirs"
    OBVIOUS
  <2> HIDE DEF access
  <2>2. ValuesOf(edge) = {}
    BY <1>5, <2>1 DEF ValuesOf
  <2>3. OthersKept
    BY <1>5 DEF OthersKept, access
  <2> QED BY <1>5, <2>2, <2>3
<1>7. job = Idle /\ ~Busy /\ cache = Unset /\ ~sure /\ used = {}
  BY DEF Init, Busy
<1>8. TypeOK
  <2>1. want \in Desired
    BY DEF Init, Desired, Nothing
  <2>2. /\ {plain, opens, edgePaths} \subseteq BOOLEAN /\ sure \in BOOLEAN
        /\ {applies, changes, faults} \subseteq Nat
    <3>1. /\ plain \in BOOLEAN /\ opens = TRUE /\ edgePaths \in BOOLEAN /\ sure = FALSE
          /\ applies = 0 /\ changes = 0 /\ faults = 0
      BY DEF Init
    <3>2. opens \in BOOLEAN /\ sure \in BOOLEAN
      BY <3>1
    <3>3. applies \in Nat /\ changes \in Nat /\ faults \in Nat
      BY <3>1
    <3> QED BY <3>1, <3>2, <3>3
  <2> HIDE DEF lists, access, waf, path
  <2> QED BY <1>3, <1>4, <1>5, <1>7, <2>1, <2>2 DEF TypeOK, Edge
<1>9. EdgeOK
  BY <1>6 DEF EdgeOK, Placed, Single
<1> QED BY <1>6, <1>7, <1>8, <1>9 DEF Inv, WorksOK, ProgressOK, SureOK

LEMMA StepKeeps == Inv /\ [Next]_vars => Inv'
<1> SUFFICES ASSUME Inv, [Next]_vars PROVE Inv'
  OBVIOUS
<1>0. TypeOK
  BY DEF Inv
<1>1. CASE UNCHANGED vars
  <2>1. UNCHANGED <<conf, listed, legacy, global, plain, opens, edgePaths, valid, changes,
                    cache, want, edge, job, sure, used, applies, faults>>
    BY <1>1 DEF vars, config
  <2>2. TypeOK'
    BY <1>0, <2>1 DEF TypeOK
  <2> QED BY <2>1, <2>2, EditKeeps
<1>2. ASSUME NEW new \in Wants, Apply(new) PROVE Inv'
  <2>1. new \in Desired
    BY CloudflareAssumption DEF Desired
  <2> QED BY <1>0, <1>2, <2>1, BeginKeeps, CloudflareAssumption DEF Apply, TypeOK
<1>3. CASE Resync
  BY <1>0, <1>3, BeginKeeps DEF Resync, TypeOK
<1>4. ASSUME NEW c \in Cidr \cup {Unset}, Answered(c) \/ AnswerLost(c) PROVE Inv'
  BY <1>4, AnsweredKeeps, AnswerLostKeeps
<1>5. CASE Refused
  BY <1>5, RefusedKeeps
<1>6. ASSUME NEW c \in Saves, SaveTarget(c) \/ SaveEnvironment(c) PROVE Inv'
  BY <1>6, SaveTargetKeeps, SaveEnvironmentKeeps
<1>7. CASE \/ LoseTarget \/ LoseEnvironment \/ Rekey \/ Restart \/ ListTargets
           \/ \E t \in Token : Roll(t)
           \/ \E on \in BOOLEAN, g \in Globals : SaveSettings(on, g)
  BY <1>7, OtherEditsKeep
<1>8. CASE Tamper
  BY <1>8, TamperKeeps
<1>9. ASSUME NEW l \in List, Settle(l) PROVE Inv'
  BY <1>9, SettleKeeps
<1> QED BY <1>1, <1>2, <1>3, <1>4, <1>5, <1>6, <1>7, <1>8, <1>9 DEF Next

LEMMA Always == Spec => []Inv
BY InitInv, StepKeeps, PTL DEF Spec

-----------------------------------------------------------------------------
(* Every variable has its type, the reconcile in progress too. *)
THEOREM TypeCorrect == Spec => []TypeOK
<1>1. Inv => TypeOK
  BY DEF Inv
<1> QED BY <1>1, Always, PTL

(* No reconcile takes away an access rule of somebody else, by whatever stale  *)
(* reads and lost answers it went (_sync_access_rules deletes by TAG).         *)
THEOREM OthersAreKept == Spec => []OthersKept
<1>1. Inv => OthersKept
  BY DEF Inv
<1> QED BY <1>1, Always, PTL

(* The WAF rule of the bans is made at most once while the reconciles work with *)
(* one list or with one description: _ensure_rule finds the one it made by      *)
(* either of them.                                                              *)
THEOREM NeverTwoRules == Spec => []OneRule
<1>1. Inv => OneRule
  <2> SUFFICES ASSUME Inv, OneList \/ OneDesc
               PROVE  Cardinality({r \in edge.waf : r.desc # "theirs"}) <= 1
    BY DEF OneRule
  <2> DEFINE ours == {r \in edge.waf : r.desc # "theirs"}
  <2>1. \A r, s \in ours : r = s
    BY DEF Inv, EdgeOK, Single
  <2> HIDE DEF ours
  <2>2. CASE ours = {}
    BY <2>2, FS_EmptySet DEF ours
  <2>3. CASE ours # {}
    <3>1. PICK r : ours = {r}
      BY <2>1, <2>3
    <3>2. Cardinality(ours) = 1
      BY <3>1, FS_Singleton
    <3> QED BY <3>2 DEF ours
  <2> QED BY <2>2, <2>3
<1> QED BY <1>1, Always, PTL

(* What a reconcile of the bans reported as done is what the edge blocks, once  *)
(* Cloudflare has carried out what it took on, and until somebody else changes  *)
(* the edge; while the reconciles work with one mode and one list.              *)
THEOREM BroughtBlocks == Spec => []BroughtIsBlocked
<1>1. Inv => BroughtIsBlocked
  <2> SUFFICES ASSUME Inv, sure, OneMode, OneList, \A l \in List : edge.pending[l] = Unset
               PROVE  Blocked = IF job # Idle THEN job.new.cidrs ELSE want.cidrs
    BY DEF BroughtIsBlocked
  <2>1. edge \in Edge
    BY DEF Inv, TypeOK, Edge
  <2>2. Soon(edge) = Blocked
    BY <2>1, SoonIsBlocked
  <2> QED BY <2>2 DEF Inv, SureOK, Busy
<1> QED BY <1>1, Always, PTL
=============================================================================
