------------------------------ MODULE PathRules ------------------------------
(***************************************************************************)
(* The path-403 rules: the rule document of the blocklist API (store.py),  *)
(* its rendering to the targets, and the handlers of the dashboard that    *)
(* write it (backend/app/main.py).                                         *)
(*                                                                         *)
(* A pattern is the set of its top-level alternatives.  Every write of the *)
(* API holds store._lock, so one job runs at a time: it renders the new    *)
(* document to every target, then saves the document, then the audit log.  *)
(* The denylist half of a render is in DenylistStore.                      *)
(***************************************************************************)
EXTENDS Routing, FiniteSets, Integers

CONSTANTS
    Part,         \* alternatives a pattern is made of
    Id,           \* ids of rules: as many as a run can create
    SeedName,     \* the name of the rule the dashboard seeds
    Custom,       \* the name of every other rule
    Type,         \* the backend type of each target
    Pulled,       \* the types whose targets fetch /nginx_snippet themselves
    Benign,       \* alternatives that match a known-benign path
    Protected,    \* alternatives that touch a protected path of the dashboard
    Attachments,  \* the attachments an operator chooses from
    Stored,       \* documents the first start may find
    Seedings,     \* the patterns of each seeding: one, or more for one name
    Faults,       \* the kinds of fault a run allows
    MaxRequests,  \* bound on the writes
    MaxFaults     \* bound on the faults

Types == {Type[t] : t \in Target}
Rule == [id : Id, name : {SeedName, Custom}, pat : SUBSET Part, on : BOOLEAN,
         route : Route]

(* The documents; an id names one rule only: toggle and upsert act on the    *)
(* first rule they find with an id (store.py:496, 538).                      *)
Documented ==
    {d \in [rules : SUBSET Rule, off : SUBSET Types, master : BOOLEAN] :
        \A r, s \in d.rules : r.id = s.id => r = s}

(* No document found at the first start has two rules of the seed's name, and *)
(* no operator takes that name.                                               *)
ASSUME PathRulesAssumption ==
    /\ Attachments \subseteq AttachRoute
    /\ Benign \cup Protected \subseteq Part
    /\ SeedName # Custom
    /\ Stored \subseteq Documented
    /\ \A d \in Stored : \A r, s \in d.rules : r.name = SeedName /\ s.name = SeedName => r = s
    /\ Seedings \subseteq SUBSET (SUBSET Part)
    /\ Faults \subseteq {"down", "save", "read", "crash", "lost"}
    /\ MaxRequests \in Nat /\ MaxFaults \in Nat

VARIABLES
    doc,       \* path_rules.json
    live,      \* the patterns each target enforces
    err,       \* _last_errors: how the last push to each target went
    job,       \* the operation that holds the lock
    astray,    \* a render has gone out that path_rules.json does not back
    seed,      \* the seeding under way: patterns left to post, the id it found
    unsure,    \* ghost: a seeding has posted without knowing of the seed's rule
    requests, faults

seeding == <<seed, unsure>>
vars == <<doc, live, err, job, astray, seeding, requests, faults>>

NoRoute == [groups |-> {}, targets |-> {}, all |-> FALSE]
Blank == [rules |-> {}, off |-> {}, master |-> TRUE]
Idle == [pc |-> "idle", op |-> "none", doc |-> Blank, left |-> {}]
NoSeeding == [left |-> {}, known |-> {}]

(* _load_path turns a legacy rule with one group into an attachment. *)
Migrated(r) ==
    IF IsLegacy(r.route)
    THEN [r EXCEPT !.route = [groups |-> {r.route.group} \ {NoGroup}, targets |-> {},
                              all |-> r.route.group = NoGroup]]
    ELSE r

Loaded == [doc EXCEPT !.rules = {Migrated(r) : r \in @}]

Patterns(d, t) ==
    IF Type[t] \in d.off THEN {}
    ELSE UNION {r.pat : r \in {x \in d.rules : x.on /\ t \in EntryTargets(x.route, Target)}}

Enforced(d, t) == IF d.master THEN Patterns(d, t) ELSE {}

Init ==
    /\ doc \in Stored
    /\ live = [t \in Target |-> {}]
    /\ err = [t \in Target |-> "unknown"]
    /\ job = Idle
    /\ astray = FALSE
    /\ seed = NoSeeding /\ unsure = FALSE
    /\ requests = 0
    /\ faults = 0

Fault(kind) ==
    /\ kind \in Faults
    /\ faults < MaxFaults
    /\ faults' = faults + 1

-----------------------------------------------------------------------------
(* The writes of the API.  A refused one changes nothing and is left out.  *)
Submit(op, d) ==
    /\ job = Idle
    /\ requests < MaxRequests
    /\ requests' = requests + 1
    /\ job' = [pc |-> "push", op |-> op, doc |-> d, left |-> Target]
    /\ UNCHANGED <<doc, live, err, astray, faults>>

Rules == Loaded.rules
Replace(r, s) == [Loaded EXCEPT !.rules = (@ \ {r}) \cup {s}]

(* Mutant: an id is drawn without looking at the ids in use. *)
FreeIds_Unchecked == Id
FreeIds == Id \ {r.id : r \in Rules}

Acceptable(pat, force) == pat # {} /\ (force \/ pat \cap Benign = {})

Update(op, r, name, pat, on, route, force) ==
    /\ Acceptable(pat, force)
    /\ Submit(op, Replace(r, [r EXCEPT !.name = name, !.pat = pat, !.on = on,
                                       !.route = route]))

Create(op, name, pat, on, route, force) ==
    /\ Acceptable(pat, force)
    /\ \A r \in Rules : r.pat # pat
    /\ \E i \in FreeIds :
          Submit(op, Replace(Idle, [id |-> i, name |-> name, pat |-> pat, on |-> on,
                                    route |-> route]))

Delete(r) == Submit("delete", [Loaded EXCEPT !.rules = @ \ {r}])
Toggle(r, on) == Submit("toggle", Replace(r, [r EXCEPT !.on = on]))
SetMaster(on) == Submit("master", [Loaded EXCEPT !.master = on])
SetType(ty, on) ==
    Submit("type", IF on THEN [Loaded EXCEPT !.off = @ \ {ty}, !.master = TRUE]
                         ELSE [Loaded EXCEPT !.off = @ \cup {ty}])

-----------------------------------------------------------------------------
(* The handlers of the dashboard.  They run on its event loop and call the  *)
(* API without an await in between, so what they read is what they change.  *)
EditRule(r, pat, on, route, force) ==
    /\ (pat \ r.pat) \cap Protected = {}
    /\ Update("edit", r, r.name, pat, on, route, force)

NewRule(pat, on, route, force) ==
    /\ pat \cap Protected = {}
    /\ Create("new", Custom, pat, on, route, force)

(* One more alternative for the main rule, sent without its attachment. *)
AddToMain(r, part) ==
    /\ part \notin r.pat \cup Protected
    /\ Update("add", r, r.name, r.pat \cup {part}, r.on, NoRoute, FALSE)

(***************************************************************************)
(* path_seed and path_seed_autoban: the rules are listed once, and each    *)
(* pattern is posted with the id of the rule that had its name then.  A    *)
(* listing that fails counts as one without rules (main.py:2787).          *)
(***************************************************************************)
SeedIds == {r.id : r \in {x \in Rules : x.name = SeedName}}

SeedFound(pats, known) ==
    /\ job = Idle /\ seed.left = {}
    /\ requests < MaxRequests
    /\ seed' = [left |-> pats, known |-> known]
    /\ unsure' = (unsure \/ (known = {} /\ (SeedIds # {} \/ \E p, q \in pats : p # q)))
    /\ UNCHANGED <<doc, live, err, job, astray, requests>>

SeedList(pats) ==
    /\ \/ \E i \in SeedIds : SeedFound(pats, {i})
       \/ SeedIds = {} /\ SeedFound(pats, {})
    /\ UNCHANGED faults

SeedListFails(pats) == Fault("lost") /\ SeedFound(pats, {})

Posted(pat) ==
    /\ pat \in seed.left
    /\ seed' = IF seed.left = {pat} THEN NoSeeding ELSE [seed EXCEPT !.left = @ \ {pat}]
    /\ UNCHANGED unsure

(* Mutant: the id that was found is not sent. *)
SeedPost_Appends(pat) ==
    Posted(pat) /\ Create("seed", SeedName, pat, TRUE, NoRoute, FALSE)

SeedPost(pat) ==
    /\ Posted(pat)
    /\ \/ \E r \in Rules : r.id \in seed.known
                           /\ Update("seed", r, SeedName, pat, TRUE, NoRoute, FALSE)
       \/ seed.known = {} /\ Create("seed", SeedName, pat, TRUE, NoRoute, FALSE)

(* The API refuses the pattern or has it already, or the call is lost. *)
SeedPostFails(pat) ==
    /\ job = Idle
    /\ Posted(pat)
    /\ \/ /\ ~Acceptable(pat, FALSE) \/ (seed.known = {} /\ \E r \in Rules : r.pat = pat)
          /\ UNCHANGED faults
       \/ Fault("lost")
    /\ UNCHANGED <<doc, live, err, job, astray, requests>>

(* The event loop of the dashboard takes no other request while it seeds. *)
Administer ==
    /\ \/ \E pat \in SUBSET Part, on, force \in BOOLEAN, route \in Attachments :
             \/ NewRule(pat, on, route, force)
             \/ \E r \in Rules : EditRule(r, pat, on, route, force)
       \/ \E r \in Rules, part \in Part : AddToMain(r, part)
       \/ \E r \in Rules : Delete(r)
       \/ \E r \in Rules, on \in BOOLEAN : Toggle(r, on)
       \/ \E on \in BOOLEAN : SetMaster(on)
       \/ \E ty \in Types, on \in BOOLEAN : SetType(ty, on)
    /\ seed.left = {} /\ UNCHANGED seeding

Seed ==
    \/ \E pats \in Seedings \ {{}} : SeedList(pats) \/ SeedListFails(pats)
    \/ \E pat \in seed.left : SeedPost(pat) \/ SeedPostFails(pat)

-----------------------------------------------------------------------------
(* _render: every target in turn, a failure recorded and passed over. *)
Push(t) ==
    /\ t \in job.left
    /\ job' = [job EXCEPT !.left = @ \ {t}]
    /\ err' = [err EXCEPT ![t] = "ok"]
    /\ live' = IF Type[t] \in Pulled THEN live
               ELSE [live EXCEPT ![t] = Enforced(job.doc, t)]
    /\ UNCHANGED <<doc, astray, seeding, requests, faults>>

(* Mutant: the error of an adapter is not recorded. *)
PushFails_Unrecorded(t) ==
    /\ t \in job.left /\ Type[t] \notin Pulled
    /\ Fault("down")
    /\ job' = [job EXCEPT !.left = @ \ {t}]
    /\ err' = [err EXCEPT ![t] = "ok"]
    /\ UNCHANGED <<doc, live, astray, seeding, requests>>

PushFails(t) ==
    /\ t \in job.left /\ Type[t] \notin Pulled
    /\ Fault("down")
    /\ job' = [job EXCEPT !.left = @ \ {t}]
    /\ err' = [err EXCEPT ![t] = "failed"]
    /\ UNCHANGED <<doc, live, astray, seeding, requests>>

Rendered(op) == job.pc = "push" /\ job.left = {} /\ job.op \in op
Writes == {"edit", "new", "add", "seed", "delete", "toggle", "master", "type"}

Save ==
    /\ Rendered(Writes)
    /\ doc' = job.doc
    /\ astray' = FALSE
    /\ job' = IF job.op = "toggle" THEN Idle ELSE [job EXCEPT !.pc = "audit"]
    /\ UNCHANGED <<live, err, seeding, requests, faults>>

SaveFails ==
    /\ Rendered(Writes)
    /\ Fault("save")
    /\ astray' = TRUE
    /\ job' = Idle
    /\ UNCHANGED <<doc, live, err, seeding, requests>>

(* The second save, of the audit log: when it fails the caller is told so. *)
SaveAudit ==
    /\ job.pc = "audit"
    /\ job' = Idle
    /\ UNCHANGED <<doc, live, err, astray, seeding, requests, faults>>

(* Every write of the denylist, and the resync loop, render the rules too. *)
Resync ==
    /\ job = Idle
    /\ job' = [pc |-> "push", op |-> "resync", doc |-> Loaded, left |-> Target]
    /\ UNCHANGED <<doc, live, err, astray, seeding, requests, faults>>

(* They render without rules when path_rules.json cannot be loaded. *)
ResyncBlind ==
    /\ job = Idle
    /\ Fault("read")
    /\ job' = [pc |-> "push", op |-> "blind", doc |-> Blank, left |-> Target]
    /\ UNCHANGED <<doc, live, err, astray, seeding, requests>>

Resynced ==
    /\ Rendered({"resync", "blind"})
    /\ astray' = (job.op = "blind")
    /\ job' = Idle
    /\ UNCHANGED <<doc, live, err, seeding, requests, faults>>

(* Mutant: the snippet an agent fetches does not heed the master switch. *)
Pull_NoMaster(t) ==
    /\ job = Idle /\ Type[t] \in Pulled
    /\ live' = [live EXCEPT ![t] = Patterns(Loaded, t)]
    /\ UNCHANGED <<doc, err, job, astray, seeding, requests, faults>>

(* An agent fetches /nginx_snippet: list_path_rules waits for the lock. *)
Pull(t) ==
    /\ job = Idle /\ Type[t] \in Pulled
    /\ live' = [live EXCEPT ![t] = Enforced(Loaded, t)]
    /\ UNCHANGED <<doc, err, job, astray, seeding, requests, faults>>

Crash ==
    /\ Fault("crash")
    /\ job' = Idle
    /\ err' = [t \in Target |-> "unknown"]
    /\ UNCHANGED <<doc, live, astray, seeding, requests>>

Work == (\E t \in Target : Push(t)) \/ Save \/ SaveAudit \/ Resynced

Next ==
    \/ Administer
    \/ Seed
    \/ Work
    \/ Resync
    \/ \E t \in Target : Pull(t) \/ PushFails(t)
    \/ SaveFails \/ ResyncBlind \/ Crash

Spec == Init /\ [][Next]_vars

(* The worker of the API runs on, the resync loop and the agents come round; *)
(* an agent is strongly fair because the loop sleeps between two rounds and   *)
(* leaves the lock to the requests that wait for it.                          *)
FairSpec ==
    /\ Spec
    /\ WF_vars(Work) /\ WF_vars(Resync)
    /\ \A t \in Target : SF_vars(Pull(t))

-----------------------------------------------------------------------------
(* Every variable has its type, and an id names one rule only. *)
TypeOK ==
    /\ doc \in Documented /\ job.doc \in Documented
    /\ job.pc \in {"idle", "push", "audit"}
    /\ job.op \in Writes \cup {"none", "resync", "blind"}
    /\ job.left \subseteq Target
    /\ live \in [Target -> SUBSET Part]
    /\ err \in [Target -> {"unknown", "ok", "failed"}]
    /\ seed.left \subseteq SUBSET Part /\ seed.known \subseteq Id
    /\ unsure \in BOOLEAN /\ astray \in BOOLEAN
    /\ requests \in 0..MaxRequests /\ faults \in 0..MaxFaults

(* A target whose last push is on record as good enforces the saved rules,   *)
(* attachment, kill switches and all, whatever failed before: unless the     *)
(* last render was of rules that were never saved, or of none.               *)
AppliedMatchesRules ==
    job = Idle /\ ~astray =>
        \A t \in Target : err[t] = "ok" /\ Type[t] \notin Pulled
                          => live[t] = Enforced(Loaded, t)

(* However often a seed is repeated after a refusal, a failed save, a lost    *)
(* call or a crash, one rule carries its name (main.py:2827 "Idempotent:      *)
(* re-running updates the same-named rules instead of duplicating"): unless a *)
(* seeding has posted without knowing, because its listing failed where the   *)
(* rule was there, or for two patterns of a name that no rule had.            *)
SeededOnce == ~unsure => Cardinality({r \in doc.rules : r.name = SeedName}) <= 1

(* Whatever failed, once the writes stop every target, pushed or pulling,    *)
(* comes to enforce the saved rules: nothing of an unsaved change stays.     *)
Converges == <>[](\A t \in Target : live[t] = Enforced(Loaded, t))
=============================================================================
