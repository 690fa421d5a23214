# Verification of soc-app

TLA+ modules, TLC configurations and TLAPS proofs for soc-app: a dashboard
backend that decides whom to ban, a blocklist API that stores the bans and
enforces them on several targets, and an agent on every nginx VM that pulls
them.  The reference is the source under `src/`; every definition that models
code is listed in `PROJECT.json` with the lines it stands for.

Checked with `tlc -config <run>.cfg MC<module>` and `tlapm <module>.tla`.

## 1. Inventory

| Part | State | Operations | Talks to |
|---|---|---|---|
| Denylist store (`blocklist-api/app/store.py`) | `entries.json`, `audit.json`, `path_rules.json`; one lock per process | block, block_many, unblock, clear_all, prune, resync; path rules | enforcement, storage, notifications |
| Enforcement (`enforce.py`) | `_last_errors` per process | targets, resolve_group, apply, render_status | settings, node registry, environments, Cloudflare registry; the targets |
| Storage (`storage.py`, `k8s.py`) | documents in a ConfigMap, files or SQLite | load, save | Kubernetes, disk |
| Safety rails (`safety.py`) | none | validate, normalize, collapse, validate_pattern | - |
| Rendering (`render.py`) | none; a marked section inside foreign text | geo_body, if_body, merge | controller ConfigMap, agents |
| Node registry (`nodes.py`) | `nodes.json`, a one-second cache | enroll, heartbeat, delete, token_owner, all_nodes | storage, agents |
| Cloudflare registry, environments (`cf_targets.py`, `environments.py`) | a document and a cache each | upsert, delete, one-time migration | crypto, enforcement |
| Cloudflare adapter (`cloudflare.py`) | discovery cache, objects at the edge | reconcile, reconcile_paths, check | Cloudflare API |
| Settings, secrets (`settings.py`, `crypto.py`, `config.py`) | overrides over ENV | get, set_many, seal, open_ | all of the API |
| Notifications (`notify.py`) | channels, rules, last outcome | emit, dispatch, save_config | Slack, Telegram |
| API process (`blocklist-api/app/main.py`) | node states of the watch loop | handlers; prune, resync and node-watch threads | everything above |
| nginx agent (`deploy/agent/soc-nginx-agent.py`) | token file, two nginx files, the last snippet applied | enroll, poll, test, roll back, reload | API, nginx |
| Accounts (`backend/app/auth.py`) | users, epochs, failures, used codes | log in, sessions, roles, TOTP | backend database |
| Fleet writes (`backend/app/main.py`) | list of back ends, an eight-second index | route, fan out, roll up | several blocklist APIs |
| Autoban, escalation, threat feeds (`backend/app/main.py`, `db.py`) | rules, offenders, last runs | the autoban tick, feed refresh | Loki, fleet writes |
| Insights, polling, log queries (`main.py`, `loki.py`, `llm.py`, `analyze.py`) | snapshots, insights, last severity | three loops, read-only endpoints | Loki, an LLM, notifications |
| Dashboard, deployment | - | - | - |

What is hard here:

* one operation on the denylist reads the targets several times and writes
  several remote systems before it saves, so crashes, failures and stale reads
  can fall between any two of these steps;
* repairs are periodic and blind: a resync writes what the store says;
* the registries are read without the lock that guards their writes;
* the agent has two files that make one configuration, a test, a roll-back and a
  memory of what it applied last;
* the handlers of the API run on one event loop, the loops and the synchronous
  handlers on threads of their own; during a rolling update there are two
  processes for a moment.

What makes each part correct, in a sentence:

* *store*: an operation is atomic on the document whatever fails, and targets
  converge to the document;
* *enforcement*: a target without a recorded error enforces exactly what is
  routed to it, and the audit log says of no target that it enforces a ban when
  it does not;
* *node registry*: an answered enrollment or revocation stays;
* *agent*: nginx ends up running what the API serves, and can be started from
  the files on the disk at any time between two polls;
* *accounts*: one administrator is always left, a changed password ends every
  session, a code is used once;
* *fleet, autoban*: a write that was answered ok holds on every back end it was
  for, but for what it reports as skipped, and who keeps offending ends up banned
  for good;
* *alerts*: a critical episode and a silent node are announced, once while the
  processes run, and the status page settles on the truth.

The hazards, each at its line, are in `PROJECT.json`.

## 2. Plan

Built, in this order: `Routing`, `AtomicDenylist`, `DenylistStore`, `NodeRegistry`,
`NginxAgent`, `PathRules`, `Accounts`, `Fleet`, `Autoban` (which extends `Fleet`),
`Cloudflare`, `Alerts`.  The proofs about a module `M` are in `M_proofs`, those
about `Autoban` in `Fleet_proofs`.

```
Autoban --EXTENDS--> Fleet           what the dashboard decides and writes
Accounts, Alerts                     who may, and who is told
DenylistStore --implements--> AtomicDenylist
DenylistStore, PathRules --EXTEND--> Routing
NodeRegistry, Cloudflare, NginxAgent what the store renders to, and its registries
```

Left:

1. the attachments of a bulk request computed from its items
   (`store._attach_for`), as an operator over requests;
2. two processes over one store, as during a rolling update;
3. `ControllerConfigMap`: the managed section inside foreign text, and two
   environments over one section;
4. the precedence of settings over ENV, and of `BAN_TARGETS` over the registries;
5. proofs: that a job of `PathRules` with a failed save or push leaves the
   document of before or of after (an abstract specification, as the denylist
   has); that an unlocked reader of `NodeRegistry` can only bring back a document
   that was once saved.

## 3. Modules

### Routing
`enforce._effective_groups`, `enforce.resolve_group` and
`store._entry_target_ids` as operators on the set of target ids one call of
`targets()` saw.  An empty or unknown group means every target; an attachment of
the new shape (groups, targets, all) never does.  `BAN_GROUPS` and the env of a
target are constants.

### AtomicDenylist
What the denylist promises: the entries change only by putting entries for some
networks in the place of the old ones, dropping the entries of some networks, or
dropping what has expired.

### DenylistStore
`store.py` over `storage.py`, rendered by `enforce.py`.  State: `store`
(entries.json), `audit` (audit.json), `live` (what each target enforces),
`targets`, `ready`, `up` (the registries, tokens and reachability outside), `err`
(`_last_errors`), and per process `pc`, `job`, `todo` for the operation that
holds the lock.

An operation is a chain of actions, cut where something else can come in
between:

| Step | Code | Action |
|---|---|---|
| load, change, resolve, plan | `_load_raw` ... `per_target` in `_render` | `Block`, `BlockMany`, `Unblock`, `ClearAll`, `Prune`, `Resync` (all through `Begin`) |
| read the targets again | `for t in targets()` in `enforce.apply` | `OpenTargets` |
| write one target | the body of that loop | `ApplyTo` |
| outcome and save | `_enf_result`, `_save_raw` | `Save`, `SaveFails`, `SaveTorn`, `EndUnsaved` |

`Crash` can come at any of them.  The world contributes the clock (`Tick`),
unreachable targets, wiped sections, enrollments and removals, tokens that are lost
and set again, and registries that fail to be read.  A network that overlaps `Allowlist` is not
`Valid` and never enters an operation; one that is only too wide is, since a
request may carry `force`.

Abstractions: a network is the set of its addresses, so `collapse` is a union,
except that it raises on a mixed list of address families; an entry keeps
network, time, lifetime and attachment; `audit` keeps the last event of each
network and ignores the length cap; the registry reads of one planning phase
count as one; pull targets (`nginx-file`) are targets whose write does nothing
and are left out here, the agent has a module of its own; the order in which
targets are visited is free; the entries of one bulk request share one lifetime,
as in the code; entries and audit log are saved in one step, or, by the file back
end, torn between the two (`SaveTorn`).  `Allowlist` stays what it is: an entry
stored before its address joined the list would be rendered on.

### NodeRegistry
`nodes.py`: the document (`disk`), the read-through cache (`cache`, `fresh`), the
writer that holds `_LOCK` (`wpc`, `call`, `dict`), and readers that do not hold
it.  A reader that misses loads and fills in two steps (`Miss`, `Load`, `Fill`).
A writer changes the very dictionary the cache holds (`shared`), saves it, and
drops the cache.  A node is reduced to its token, 0 for none.  `acked` is what
the callers were told: `Unsure` once a call failed or was cut off.

### NginxAgent
`soc-nginx-agent.py` with nginx and the API around it.  `served` is what
`/nginx_snippet` renders; its two bodies are read under two acquisitions of the
API's lock, hence `FetchHttp` and `FetchServer`.  `files` are the two files,
`prev` and `got` the locals of `apply_once`, `last` is `state["last"]`, `running`
what nginx has loaded.  A write (`_write`, or the removal of a file) is one step
because the code writes beside the file and renames.  `Valid` is `nginx -t`: some
bodies are rejected, and the server file needs the variable the http file
defines.  A reload fails exactly when nginx is stopped.  Enrollment (`Enroll`,
`EnrollUnsaved`, `EnrollLost`) mints a token at the API; the legacy mode without
`ENROLL_SECRET` and the heartbeat are left out.

### PathRules
The 403 rules of `store.py` and the writes of the dashboard that lead to them: a
rule is created, edited, switched, deleted, seeded from the canonical set, or has
a path added.  A seeding (`seed`) lists the rules and then posts its patterns one
by one; a listing that fails is an empty one, and `unsure` marks a seeding that
posted without knowing of the rule it should have updated.  A write is a job: push to each target (`Push`, `PushFails`), save
the rules (`Save`, `SaveFails`), save the audit log (`SaveAudit`).  Targets of a
type in `Pulled` take the patterns themselves (`Pull`, the agent's way through
`patterns_for_target`), so the two computations of one thing are compared by
`Converges`.  A pattern is a set of alternatives; `Benign` ones pass only with
force, `Protected` ones never.  `Stored` gives the documents a run may start
with, one of them in the old shape (`Migrated`).  Resync is two actions: one that
read the document, and one (`ResyncBlind`) that could not and renders an empty
set, as `_load_path` does.

### Accounts
`auth.py` and the gate of the dashboard.  A request is let through with the right
its user has at that moment (`Gate`, `flight`) and handled later (`Handle`), so
that two administrators can be on their way at once.  A logout that cannot save
its epoch answers ok and changes nothing (`LogoutUnsaved`).  `users` are the rows,
`cookies` every session handed out, `revoked` those that were to end; `fails`,
`userFails`, `used` and `pending` live in memory and are lost by `Restart`.  A
code is its account, secret and time step.  A list of failed logins is the set of
its entries, each with its time and its number among those of that time: the code
appends to it, drops what has left the window and counts the rest, and its order
plays no part.  `tried` and `triedUser` are the same lists as they would be if
nothing were ever pruned: all the failures since the last good login.

### Fleet
The blocklist APIs the dashboard writes to: `reg` and `active` (the registry of
back ends), `override` and `config` (what the dashboard points at, in the
database and in memory), `index` (which back end owns which group, up to eight
seconds old), and per writer a `job` that calls one back end after the other
(`Call`, `CallFails`, `AnswerLost`) and then answers (`Answer`).  A host `Refuses`
the addresses its safety rails protect: a single ban of one is an error, a bulk one
leaves it out, reports it as skipped and is ok.  The event loop
is one writer; the executor is another.  A host is what a URL names: two ids may
name one host.  `kept` and `freed` are what was answered ok.

### Autoban
The executor over `Fleet`: a tick plans the bans of the enabled rules, by
batches of one lifetime and attachment (`Plan`), writes them (`Write`) and
refreshes the feeds when they are due (`Refresh`, `FetchFails`, `NotDue`).  Rules
are created, updated, switched and deleted meanwhile.  `offences` is the table
behind the escalation ladder.  A lifetime of "fed2" or "fed1" outlasts that many
refreshes of the feeds.

### Cloudflare
One target at the edge, request by request (`Answered`, `AnswerLost`, `Refused`):
lists, the WAF rule that looks at them, access rules, the path rule.  `cache` is
`_resolved`; `conf` the registered configuration, `legacy` the same in its
environment until `migrate_from_envs` has moved it, and after that where a plain
ConfigMap kept the token out of the registry (`plain`); `global` what the settings
give a target with neither (`CF_API_TOKEN`, `CF_LIST_NAME`, `CF_RULE_DESC`).  `Cfg`
chooses between them as `_cfg` does; a configuration is a token, a mode, a list and
a rule description.  `opens` says whether `SECRET_KEY` opens the token.  `want` is
what the store asks for.  The items of a list are accepted first (`pending`) and
replaced later (`Settle`), as the code does not poll (`cloudflare.py:188`); of two
accepted replacements the later one wins.  `used` is the set of modes, lists and
descriptions that reconciles have worked with, which is what the properties are
conditional on.  `Tamper` and `Roll` are Cloudflare's other users.

The second entry-point ruleset is folded into the rule.  Every token is one of the
same zone and account.  The token of the settings is the deployment's own: it is
neither edited nor sealed.  Cloudflare targets of `BAN_TARGETS`, a second target
with rules of the same tag on the zone, and the action and the enabled flag of a
rule that is found (never looked at by the code) are left out.

### Alerts
The dashboard's three loops and its status page, and the watch of the nodes.
`world` is what they call; `state` is `_state`, with ages counted in missed
rounds; `insight` the thread of the analysis between its reads, the answer of
the model, the save and the announcement.  `age`, `watched`, `wait` are the
clock, `_node_state` and the sleep of the watch, which is the one place where
time matters: `OfflineAfter` ticks without a heartbeat make a node offline, and
the watch comes round every `Period`.

## 4. Runs

| Run | Checks | Shows |
|---|---|---|
| `Store_sync` | `TypeOK`, `AppliedMatchesStore`, `AllowlistSpared`, `BanHonoured`, `ReleaseHonoured` | three requests on nested networks and one over an allowlisted address, a target that is enrolled or not and stops answering: a target on record as good enforces what the denylist says and nothing allowlisted, and what the audit log records as applied stays applied until the next change of that network |
| `Store_converge` | `SavedRenders`, `AtomicStore`, `Converges` | every kind of fault once, at every moment, with both address families, an env that makes a group, and a target that is enrolled or gets its token late, or loses it and has it again: the store changes atomically, can always be rendered, and resync and prune bring every ready target to it |
| `Path_converge` | `TypeOK`, `AppliedMatchesRules`, `SeededOnce`, `Converges` | two writes, or seedings in their parts, with a failing target, save, read or listing, a lost answer or a crash: what is on record as applied is what is saved, a repeated seed keeps one rule unless it posted without knowing, and pushed and pulling targets come to enforce the same rules |
| `Registry_reads` | `TypeOK`, `ReadsConverge` | with two unlocked readers, a failed save and a restart, a stale cache is gone after its second |
| `Agent_converge` | `TypeOK`, `RestIsValid`, `Converges` | crashes, lost enrollments, unwritable state, failed fetches and writes, a stopped nginx, foreign reloads, a revocation: the files pass `nginx -t` between two polls unless one broke off halfway, and nginx ends up running what is served unless a reload of it went wrong |
| `Accounts_gate` | `TypeOK`, `AdminRemains`, `RevocationIsFinal`, `GuessesBounded`, `CodeOnce` | two accounts, two addresses, five requests, five steps of time and a restart: an administrator remains, ended sessions stay ended, guesses between good logins stay bounded in every stretch of a window, a code opens one session |
| `Fleet_answers` | `TypeOK`, `RestartKeeps`, `NotStranded`, `UnblockIsEverywhere`, `BroadcastIsEverywhere` | a registry that is edited, one host behind two ids, rails that refuse an address on one of two hosts, a host that fails, a second writer: what was answered ok and not skipped holds on every back end, and the dashboard never points at a deleted one |
| `Autoban_converge` | `AutobanTypeOK`, `OffenderBanned`, `FeedBanned` | a cap of one address a tick, failed evaluations and calls, rules edited, no rails: who keeps offending is banned for ever in the end, and what a feed lists stays banned |
| `Cloudflare_edge` | `TypeOK`, `OthersKept`, `OneRule`, `BroughtIsBlocked`, `Converges` | both modes, registered, still to be migrated or going by the settings, two edits of mode, list, description, token or settings, and a lost request, restart or edit of the edge: others' rules stay, ours is not doubled while it can be found, and the edge comes to block the stored bans |
| `Alerts_told` | `TypeOK`, `CriticalIsTold`, `ToldOnce`, `OfflineIsTold`, `StatusSettles` | outages of everything that is called, answers of the model of every shape, a failed save or a restart: an analysis that ends well has announced a critical episode, once while the dashboard runs; a silent node is announced; the status page settles on the truth |
| `Registry_race` | `AcksKept` (violated) | an unlocked reader puts an old document into the cache, and the next writer saves it: an answered enrollment or revocation is undone |
| `Alerts_odd` | `SafetyNet` (violated) | the model answers a list or an object for a severity: the analysis raises (`llm.py:119`), and what the code found critical is not announced |

The last two end in a violation; each is a finding in `PROJECT.json`.

### Seen on the way
Other places where the code does not do what its documents say, or where a
reader would not expect what it does.  They have no run of their own; the passing
runs leave them out by the bounds or the hypotheses named here.

*Store and enforcement.*  A ban of the other address family is enforced and then
not saved, since `collapse` raises after the apply (`store.py:114`); that is why
`BanHonoured` is checked with one family.  A registry that fails to be read while
a render is planned and is read while it is applied has its targets emptied until
the next resync (`enforce.py:241`, `249`), and with such a failure, or a torn
save, `BanHonoured` fails as well, since `_enf_result` reads the targets after the
apply: `Store_sync` has neither.  The API's README writes the store first and
renders second, the code the other way round (`README.md:18-20`,
`store.py:183-185`).

*Path rules.*  `api_add_to_main` saves a rule without groups, targets or all,
which empties its attachment (`main.py:2954-2956`, `store.py:499-500`).  A
document that cannot be read renders an empty set (`_load_path`), against the
comment at `store.py:359`.  A seed whose listing fails takes it for an empty one and posts without an id, which
makes a second rule of the name (`main.py:2788`), and the seeding of the autoban
patterns lists once and makes two rules of two patterns of one name
(`main.py:2837-2846`), both against "Idempotent" (`main.py:2827`): `Path_converge`
has both, and `SeededOnce` holds unless a seeding has posted so (`unsure`).  A seed
does not look at protected paths; a switch is not audited.

*Nodes and agent.*  The docstring of `/enroll` promises the same token on a second
enrollment, the registry mints a new one (`main.py:203-204`, `nodes.py:154`).
After a failed reload `state["last"]` is not what nginx runs; when the API then
returns to the snippet applied before, every poll is skipped
(`soc-nginx-agent.py:241`).  After a crash the agent may roll back to the files
that were rejected (`:244`, `:250`).  A reload by another program between the two
writes of a rejected snippet leaves nginx with one new body and one old one.
`Agent_converge` has all of these; `Converges` claims nothing once a reload failed
or somebody else reloaded half-written files (`disturbed`), and `RestIsValid` nothing
from a poll that broke off halfway until the next test passes (`cut`).

*Cloudflare.*  A renamed list is not used until the token changes, a restart or a
settings change, and then the WAF rule found by its description still looks at
the old one; a changed mode leaves the old items or rules; a deleted target
leaves everything blocked; switched-off edge paths leave the path rule.  What is
saved in an environment after the migration reaches no target.  `_resolved.clear()`
races a reconcile that writes the old configuration back.  `Converges` therefore
speaks of a mode and a list that stay.  The WAF rule is found by its list or its
description (`cloudflare.py:171-173`): when both are edited, or the target goes from
the settings' token to one of its own, a second rule is made and the old one stays,
and so does the path rule of the old description.  `OneRule` has one of the two
staying as its hypothesis, and is violated without it.  A reconcile reports
success when Cloudflare has accepted the items of the list, not when it has
replaced them, so `BroughtIsBlocked` speaks of an edge with nothing pending.

*Fleet and autoban.*  A back end that is down when the index is built drops out of
a named write that is still answered ok.  A write that failed on one of two back
ends is "already banned" at the next tick.  The offence is counted before the ban
is made.  Addresses every back end refuses are planned again at each tick and keep their
place under its cap (`main.py:2063`), so they can keep others from being banned:
`Autoban_converge` has no rails.  A bulk write answered ok may have skipped
addresses that a rail protects (`store.py:224-229`, `main.py:1267-1272`);
`BroadcastIsEverywhere` leaves out what the answer reports as skipped.  A feed refresh may
replace a permanent ban by one with an end.  The status of the feeds says ok
though every write failed.  An entry without a token is called with the token of
the last one.  A back end that is registered again with another URL leaves the
dashboard on the old one, which is why `NotStranded` counts URLs an operator
replaced as typed in.

*Accounts.*  A logout whose new epoch cannot be saved passes over the exception and
answers ok, and the cookie is accepted as before (`main.py:3440-3444`).  A good login
from any address empties the account's list of failures (`auth.py:302-304`), so the
"global per-username cap across ALL ips in the window" (`auth.py:27`) counts from
the last good login: `GuessesBounded` does, too.  An account that is deleted and created again counts its epochs from
zero, so an old cookie may fit; the role is changed before a short password is
refused; `_LOCKOUT_FOR` is not used.

*Alerts.*  With the model switched off the loop does not analyse at all.  A lost call of `/notify` is not repeated; a restart announces a
critical episode again (`main.py:290`), and `ToldOnce` begins its count anew.  A
`NODE_OFFLINE_AFTER` below the period of the watch is accepted (`config.py:152`).  `path403_ts` is written and never looked at.  A failed
save of a snapshot shows Loki as down.

### Bounds
Two targets (one from `BAN_TARGETS`, one from a registry) are enough to have one
that fails and one that does not; two networks, one inside the other or one of
each family; lifetimes 0 and 1; two or three requests, so that a network is
banned, banned again with another attachment, and released; one or two faults,
which may fall at any step.  `MaxTime` of 1 lets an entry expire at any step.  In
`Store_converge` a target may be dormant or not enrolled at the start, and setting
a token costs no fault, so that one fault suffices for a target that goes and
returns.
In the registry two nodes and three calls, so that a call on one node can
undo the call on another.  In the agent two bodies of the first file and three of
the second, one of them rejected, and up to three changes, so that the API can
return to an earlier snippet.

Path rules have one pushed and one pulling target, three ids and three starting
documents, so that a seed meets a rule of its name.  Two accounts suffice for two
administrators that demote one another; limits of two and three failures, windows
of two steps and five steps of time let a failure leave its window, a code be tried
in each of its steps, and a used code be pruned.  The fleet has a second host, and a second id for the
first, two addresses of which one host refuses one, four events in all.  Autoban has two rules of which one names its group,
two offenders of which one is on a feed, and a ladder of two steps.  Cloudflare
has two networks, one of them blocked by somebody else too, two lists, two
descriptions and two tokens; two operations, two edits and one fault.  Alerts has one node, as nodes
do not meet, two channels with five rules, two changes of the world and one
fault; the clock stops at an age beyond which nothing is told apart.

The proofs remove these bounds where they apply.  `CHECK_DEADLOCK FALSE` is in the
configurations where the bounds on calls, requests and time end the run, and says
so there.

### Fairness
`DenylistStore`: the operation that holds the lock goes on (threads are not
stopped for ever, and every remote call has a timeout); the resync and prune
loops are daemon threads that catch every exception; a target that is down comes
up again.  Prune is strongly fair: it competes for the lock with a resync that
sleeps between two rounds.  Nothing obliges clients, the clock or faults.
`NodeRegistry`: a call and a reader go on, and a second passes.  `NginxAgent`:
the loop of `main` polls for ever and catches every exception, enrollment is
tried again until it lands, and a stopped nginx is started again.  `PathRules`: as
`DenylistStore`, and agents poll.  `Autoban`: the executor's thread catches every
exception and every call has a timeout, time passes, and a host that is down
comes up.  `Cloudflare`: requests end within their timeout, the resync loop
runs for ever, and Cloudflare carries out what it accepted.  `Alerts`: the three loops are daemon threads that catch every
exception; the watch needs no fairness, as its clock does not pass a pass that is
due.  `Accounts` and `Fleet` have safety properties only.

## 5. Proofs

`DenylistStore_proofs`, for any sets of processes, targets, networks,
attachments and lifetimes, and any bounds:

* `TypeCorrect`: `Spec => []TypeOK`.  The invariant adds `JobsOK`: the job of a
  busy process carries a well-formed change.
* `SavedAlwaysRenders`: `Spec => []SavedRenders`, for any number of processes and
  every kind of fault.  `SavedRenders` is not inductive: the saved entries come
  from the job, so the invariant says that a job marked whole has active entries
  of one family, and that this stays so while the clock advances because the
  active set only shrinks.
* `AllowlistKept`: `Spec => []AllowlistSpared`, for any number of processes and
  every kind of fault.  The invariant says the same of the stored entries, of the
  work and of the plan of every job; validation is what starts it, and routing,
  planning, pushing and half a save keep it.
* `StoreIsAtomic`: with one process, `Spec => AtomicStore`, under every kind of
  fault: each step maps to a step of `AtomicDenylist` or to a stutter.  It needs
  that the entries a job works on are the result of its change on the *present*
  store, which is what the lock is for; with two processes it is false, hence the
  assumption `OneProcess`.
* `GoodTargetsMatch`: with one process, one address family, and crashes and
  failing targets as the only faults (`Calm`), `Spec => []AppliedMatchesStore`.
  The invariant says for an operation in flight that its plan covers its work,
  that targets already visited match the work, and that targets still to be
  visited match the store.  Other faults falsify it: a failed save leaves targets
  ahead of the store, which only the next resync repairs.

* `BansAreHonoured` (`BanHonoured`), `ReleasesAreHonoured` (`ReleaseHonoured`): what
  the audit log says holds under `Quiet`, which is `Calm` without crashes.  The
  invariant (`HonourInv`) adds to that of `GoodTargetsMatch` that a ban on record is
  enforced unless the operation in flight has been at the target and works without
  it (`BansHeld`), and that an address a target enforces is that of an entry, stored
  or in flight, or of a network whose last change is not on record as applied there
  (`ReleasesHeld`).
  With crashes TLC finds both violated: a process that dies after it has written a
  target and before it has saved leaves the target ahead of the audit log, until
  the next resync.

`NginxAgent_proofs`, for any bodies, any set of rejected ones and any bounds:

* `TypeCorrect`: `Spec => []TypeOK`.  `TypeOK` bounds the tokens minted; the
  invariant relates them to the faults: without a token no more were minted than
  faults happened, since only a lost or an unsaved enrolment, or a restart that
  forgets one, makes `ensure_enrolled` ask again.
* `RestAlwaysValid`: `Spec => []RestIsValid`, under every kind of fault.  Files in the
  middle of a poll need not be valid, so the invariant (`FilesInv`) says that `prev`
  is, from the first write until the roll-back ends, and that the roll-back has the
  first file back when it turns to the second, as long as no poll broke off halfway
  (`cut`).  After a crash between a write and its roll-back, `prev` is the rejected
  file, and only a test that passes ends that.

`Accounts_proofs`, for any users, addresses, limits and bounds.  Every step is one
of six kinds by what it does to the table of users (`StepKinds`), and the proofs
go by kind; `Table` is the part of `TypeOK` they need.

* `TypeCorrect`: `Spec => []TypeOK`, from `Table` and the invariants below.
* `AnAdminRemains`: `Spec => []AdminRemains`.  With `Table` it is inductive: a step
  changes one row, and a row that stops being an admin's does so under
  `MayLoseAdmin`, evaluated in the same step.
* `ARevocationIsFinal`: `Spec => []RevocationIsFinal`.  It is not inductive: the
  invariant says of every cookie of the present account that its epoch is not
  above the row's (`CookiesInv`), and of an ended one that it is below
  (`RevokedInv`); a name used again is told apart by how often it was created.  It
  speaks of sessions whose end was saved: a logout that was not ends nothing.
* `GuessesAreBounded`: `Spec => []GuessesBounded`, about all failures since the last
  good login and every stretch of one window, of which the code keeps the last
  only.  The invariant (`Kept`) says that the pruned list is the whole of the last
  window, and that no earlier stretch holds more than the limit; a failure is
  recorded only where the pruned list is below it.
* `ACodeOpensOneSession`: `Spec => []CodeOnce`.  The invariant says that a code
  which opened a session is remembered, or so old that its time step is refused:
  what makes it safe that `totp_consume` forgets.

`PathRules_proofs`, for any targets, rules, faults and bounds:

* `TypeCorrect`, `TheSeedIsOnce` (`SeededOnce`): every document, the saved one and
  the one of a write, has each id once, and the seed's name at most once until a
  seeding has posted without knowing of it (`Sound`); that migration of the old shape keeps this is a lemma.
* `GoodTargetsMatch` (`AppliedMatchesRules`), under every kind of fault and for any
  number of targets.  The invariant says of a render in progress that targets it
  has pushed to follow its document and the others the saved one, and `astray`
  marks the writes whose save failed.

`NodeRegistry_proofs`, for any nodes, readers, calls and faults:

* `TypeCorrect`: the number of tokens minted is bounded by the writes made.
* `TheLockKeepsAcks`: without unlocked readers (`Reader = {}`), `Spec =>
  []AcksKept`, over failed saves and restarts.  Every copy of the document agrees
  on a node whose last call was answered, but for the one that the holder of the
  lock is changing.  With readers the run `Registry_race` violates the same
  property, so the reads outside the lock are its whole cause.

`Fleet_proofs`, for any registry, hosts, names and writers:

* `ARestartKeeps`, `NeverStranded`: `RestartKeeps` is inductive.  `NotStranded` is
  not; the invariant (`Pointed`) says which URL is in use: the home's, a typed one,
  or that of the *active* back end, which is why deleting another is harmless.
* `AReleaseIsEverywhere`, `ABroadcastIsEverywhere`: the invariant follows a write
  through its calls.  While it may still be answered ok, every host it has been to
  holds what it asks for, for the addresses that no other write in flight touches
  (`DoneOK`), but for those it was told were skipped; two writes know of the
  addresses they share (`RacedOK`); and what a write touches is promised to nobody
  until it is answered (`TakenBack`).
* `TypeCorrect`, and `AutobanTypeCorrect` for `Autoban`: every batch of a tick has a
  lifetime and an attachment the API takes, since the least matching rule of a
  candidate exists and is enabled, and the ladder is never stepped off.
* `TheExecutorKeepsAnswers`: from `AutobanInit`, whatever the executor and the
  operators do (`[][Everything]_allVars`, which is `AutobanNext` and every edit of the
  registry of `Fleet`), `[](UnblockIsEverywhere /\ BroadcastIsEverywhere)`.  The
  invariants of `Fleet` are kept by every step `Autoban` adds: a write of the
  executor is a write like any other, and an interval that passes ages no ban for
  ever.

`Cloudflare_proofs`, for any networks, lists, tokens, edits and faults:

* `TypeCorrect`, `OthersAreKept` (`OthersKept`) and `NeverTwoRules` (`OneRule`): what
  is ours at the edge was put there by a reconcile that worked so (`Placed`: the
  list and the description of a rule are ones in `used`), so with one list or one
  description the lookup finds any rule of ours before one is added, and two rules
  of ours are the same one (`Single`).
* `BroughtBlocks` (`BroughtIsBlocked`): the invariant is about what the edge will
  block once Cloudflare has carried out what is pending (`Soon`), which an accepted
  replacement changes and its execution does not.  A reconcile in one mode and on
  one list has done there what precedes its present request (`ProgressOK`), and what
  was brought stays `Soon` until the next reconcile or somebody else (`SureOK`).

`Alerts_proofs`, for any rules, channels, nodes and bounds:

* `TypeCorrect`, `TheCriticalIsTold` (`CriticalIsTold`), `ItIsToldOnce`
  (`ToldOnce`): an announcement belongs to the last severity saved, which is
  critical from before the announcement until the episode is over (`Episode`).
* `TheOfflineIsTold` (`OfflineIsTold`), if at most one thing fails and, when one
  may, half of `OfflineAfter` is not below the shortest period of the watch.  The
  invariant bounds the age of a silent node that is not yet reported by the time
  until the next pass, plus one period for the pass that may still fail.  With
  `OfflineAfter = 3`, `Shortest = 2` and one failure TLC finds it violated; in the
  code that is a `NODE_OFFLINE_AFTER` under 30 seconds, whose default is 120.

### Assumptions
The assumptions on the constants are named `ASSUME`s, evaluated by TLC in the
passing runs.  They say that the constants have the types the code gives them,
that `Unset` is no member of the sets it stands beside (`None` in Python), and in
`PathRules` that the seed's name is not a custom rule's and that a run starts with
a documented form of `path_rules.json`.  Hypotheses stronger than that (`OneProcess`,
`Calm`, `Quiet`, `Reader = {}`, the bound of `TheOfflineIsTold`)
are in the statements, each with the counterexample that makes it necessary.

### Only model-checked
Every invariant of a passing run is proved, and the refinement `AtomicStore`.
Liveness (`Converges` of the four modules that state it, `ReadsConverge`,
`OffenderBanned`, `FeedBanned`, `StatusSettles`) is only model-checked: fairness
and `ENABLED` are out of the prover's reach.

## 6. Not modelled

Log queries, statistics, prompts, the text of metrics and of notifications, the
dashboard and the deployment scripts have no state whose evolution could be
checked, or only present it; proxies, views, preferences and the request limiter
are single steps that relate no two pieces of state.  Hashing, sealing and the
signature of a cookie are taken as sound.  How a rule of autoban matches requests,
what a feed lists and how a summary of the traffic gets its severity are given
sets: they are computed from data outside.  The rest of what is left out is in
section 2 (what could still be modelled) and, part by part, in `PROJECT.json`.
