------------------------------- MODULE Autoban -------------------------------
(***************************************************************************)
(* The executor of automatic bans and of threat feeds (backend main.py):   *)
(* one thread that wakes up every AUTOBAN_INTERVAL, plans the bans of the  *)
(* enabled rules, writes them to the fleet batch by batch, and then        *)
(* refreshes the feeds when they are due.  Operators write and change the  *)
(* rules meanwhile.                                                        *)
(***************************************************************************)
EXTENDS Fleet, Sequences

CONSTANTS
    Rule,       \* ids of rules: earlier rules come first
    NewRules,   \* the settings an operator may give a rule
    FirstRules, \* the rules a run may start with
    Matches,    \* the addresses whose requests match each rule
    Ladder,     \* autoban_escalate_ladder, in lifetimes
    Cap,        \* AUTOBAN_MAX_PER_TICK
    Listed,     \* the addresses on the enabled feeds
    FeedNames   \* threat_feed_group

(* A row of autoban_rules, and what stands for none. *)
NoRule == [on |-> FALSE, ttl |-> "none", names |-> {}]
RuleForm == [on : BOOLEAN, ttl : {"temp", "forever"}, names : SUBSET Name]

ASSUME AutobanAssumption ==
    /\ Rule \subseteq Nat /\ Cap \in Nat \ {0}
    /\ Matches \in [Rule -> SUBSET Ip]
    /\ Ladder \in Seq({"temp", "forever"}) /\ Ladder # <<>>
    /\ NewRules \subseteq RuleForm /\ FirstRules \subseteq [Rule -> RuleForm \cup {NoRule}]
    /\ Listed \subseteq Ip /\ FeedNames \subseteq Name
    /\ "executor" \in Writer

VARIABLES
    rules,     \* the table autoban_rules; NoRule where there is none
    armed,     \* autoban_armed, the kill-switch
    escalate,  \* autoban_escalate
    feeds,     \* threat_feeds_enabled
    offences,  \* autoban_offenders: counts, as far as the ladder tells them apart
    due,       \* the refresh interval of the feeds has passed
    tick       \* the executor: where it is, and the batches it has yet to write

settings == <<rules, armed, escalate, feeds>>
executor == <<offences, due, tick>>
own == <<settings, executor>>
allVars == <<vars, own>>

Asleep == [pc |-> "sleep", plan |-> {}]
Batch == [ips : SUBSET Ip, ttl : {"temp", "forever"}, names : SUBSET Name]

AutobanInit ==
    /\ Init
    /\ rules \in FirstRules
    /\ armed = TRUE /\ escalate = TRUE /\ feeds = TRUE
    /\ offences = [i \in Ip |-> 0]
    /\ due = TRUE
    /\ tick = Asleep

-----------------------------------------------------------------------------
(* The settings, changed by handlers on the event loop.                    *)
Setting == Change /\ UNCHANGED <<reg, active, override, config, hand, executor>>

(* A save that names no attachment keeps the rule's; so does the switch.   *)
(* Mutant: what the save does not name is stored as the name null.         *)
Attached_Nulls(r, rule, given) == IF given THEN rule ELSE [rule EXCEPT !.names = {Unset}]
Attached(r, rule, given) == IF given THEN rule ELSE [rule EXCEPT !.names = rules[r].names]

(* _clean_rule makes the fields; without an id they become a new rule. *)
CreateRule(r, rule, given) ==
    /\ Setting
    /\ rules[r] = NoRule
    /\ rules' = [rules EXCEPT ![r] = IF given THEN rule ELSE [rule EXCEPT !.names = {}]]
    /\ UNCHANGED <<armed, escalate, feeds>>

(* An update of a rule that has been deleted changes no row. *)
UpdateRule(r, rule, given) ==
    /\ Setting
    /\ rules[r] # NoRule
    /\ rules' = [rules EXCEPT ![r] = Attached(r, rule, given)]
    /\ UNCHANGED <<armed, escalate, feeds>>

ToggleRule(r, on) ==
    /\ Setting
    /\ rules[r] # NoRule
    /\ rules' = [rules EXCEPT ![r].on = on]
    /\ UNCHANGED <<armed, escalate, feeds>>

DeleteRule(r) ==
    /\ Setting
    /\ rules' = [rules EXCEPT ![r] = NoRule]
    /\ UNCHANGED <<armed, escalate, feeds>>

Arm(on) == Setting /\ armed' = on /\ UNCHANGED <<rules, escalate, feeds>>
Escalate(on) == Setting /\ escalate' = on /\ UNCHANGED <<rules, armed, feeds>>
SaveFeeds(on) == Setting /\ feeds' = on /\ UNCHANGED <<rules, armed, escalate>>

-----------------------------------------------------------------------------
(* One tick.  The plan is made of the deny lists of the back ends that      *)
(* answer: an address banned on one of them is left alone on all.           *)
BannedNow == {i \in Ip : \E b \in Answering : bans[HostOf(b)][i] # "none"}
Enabled == {r \in Rule : rules[r].on}

RuleOf(i, failed) ==
    LET Matching == {r \in Enabled \ failed : i \in Matches[r]}
    IN  CHOOSE r \in Matching : \A s \in Matching : r <= s

Candidates(failed) == UNION {Matches[r] : r \in Enabled \ failed} \ BannedNow

Chosen(failed) ==
    LET cands == Candidates(failed)
        size == IF Cardinality(cands) <= Cap THEN Cardinality(cands) ELSE Cap
    IN  {s \in SUBSET cands : Cardinality(s) = size}

(* offender_bump, before the ban is made. *)
Bumped(ips) ==
    [i \in Ip |-> IF i \in ips /\ escalate /\ offences[i] < Len(Ladder)
                  THEN offences[i] + 1 ELSE offences[i]]

(* Mutant: the last step of the ladder is never reached. *)
Step_OffByOne(n) == Ladder[IF n < Len(Ladder) THEN n ELSE Len(Ladder) - 1]
Step(n) == Ladder[n]
LifeOf(i, r) == IF escalate /\ offences'[i] > 1 THEN Step(offences'[i]) ELSE rules[r].ttl

(* What the rules that could be evaluated ask for, as one batch for each    *)
(* lifetime and attachment.                                                 *)
Plan(failed) ==
    /\ tick = Asleep /\ ~Busy("executor")
    /\ armed
    /\ failed \subseteq Enabled
    /\ IF failed = {} THEN UNCHANGED faults ELSE Fault
    /\ \E todo \in Chosen(failed) :
          LET Key(i) == [ttl |-> LifeOf(i, RuleOf(i, failed)),
                         names |-> rules[RuleOf(i, failed)].names]
          IN  /\ offences' = Bumped(todo)
              /\ tick' = [pc |-> "ban",
                          plan |-> {[ips |-> {i \in todo : Key(i) = k}, ttl |-> k.ttl,
                                     names |-> k.names] : k \in {Key(i) : i \in todo}}]
    /\ UNCHANGED <<registry, up, bans, writing, settings, due>>

Disarmed ==
    /\ tick = Asleep /\ ~Busy("executor")
    /\ ~armed
    /\ tick' = [Asleep EXCEPT !.pc = "ban"]
    /\ UNCHANGED <<vars, settings, offences, due>>

Write(b) ==
    /\ tick.pc = "ban" /\ b \in tick.plan
    /\ Start("executor", "bulk", b.ips, b.ttl, b.names, Route(b.names))
    /\ Looked(b.names)
    /\ tick' = [tick EXCEPT !.plan = @ \ {b}]
    /\ UNCHANGED <<requests, settings, offences, due>>

(* _threat_feed_tick.  A refresh counts as done though its fetch, or every  *)
(* write of it, failed.                                                     *)
FeedDone ==
    /\ tick = [pc |-> "ban", plan |-> {}] /\ ~Busy("executor")
    /\ tick' = Asleep
    /\ UNCHANGED <<settings, offences>>

(* Mutant: addresses that are banned somewhere are left out, as the rules do. *)
Refreshed_New == Listed \ BannedNow
Refreshed == Listed

Refresh ==
    /\ FeedDone
    /\ feeds /\ due
    /\ due' = FALSE
    /\ Start("executor", "bulk", Refreshed, "fed2", FeedNames, Route(FeedNames))
    /\ Looked(FeedNames)
    /\ UNCHANGED requests

FetchFails ==
    /\ FeedDone
    /\ feeds /\ due
    /\ Fault
    /\ due' = FALSE
    /\ UNCHANGED <<registry, up, bans, writing>>

NotDue ==
    /\ FeedDone
    /\ ~(feeds /\ due)
    /\ UNCHANGED <<vars, due>>

(* A refresh interval is hours and a tick minutes, so a refresh is over      *)
(* before the next one is due.  A ban from a feed outlasts the interval in   *)
(* which it is not renewed (the code: two of them).                          *)
Older(life) == CASE life = "fed2" -> "fed1" [] life = "fed1" -> "none" [] OTHER -> life

IntervalPasses ==
    /\ ~(feeds /\ due) /\ job["executor"].ttl # "fed2"
    /\ due' = TRUE
    /\ bans' = [h \in Host |-> [i \in Ip |-> Older(bans[h][i])]]
    /\ UNCHANGED <<registry, up, faults, writing, settings, offences, tick>>

-----------------------------------------------------------------------------
(* The memory of an offender ends, autoban_escalate_memory_days. *)
Forget(i) ==
    /\ Fault
    /\ offences' = [offences EXCEPT ![i] = 0]
    /\ UNCHANGED <<registry, up, bans, writing, settings, due, tick>>

Reboot ==
    /\ Restart
    /\ tick' = Asleep
    /\ UNCHANGED <<settings, offences, due>>

Manage ==
    \/ \E r \in Rule : \/ \E rule \in NewRules, a \in BOOLEAN :
                              CreateRule(r, rule, a) \/ UpdateRule(r, rule, a)
                       \/ DeleteRule(r)
                       \/ \E on \in BOOLEAN : ToggleRule(r, on)
    \/ \E on \in BOOLEAN : Arm(on) \/ Escalate(on) \/ SaveFeeds(on)

Tick ==
    \/ \E failed \in SUBSET Rule : Plan(failed)
    \/ Disarmed
    \/ \E b \in tick.plan : Write(b)
    \/ Refresh \/ FetchFails \/ NotDue

AutobanNext ==
    \/ Manage
    \/ Tick
    \/ IntervalPasses
    \/ \E i \in Ip : Forget(i)
    \/ Reboot
    \/ /\ \/ Operate
          \/ \E w \in Writer : Serve(w)
          \/ Environment
       /\ UNCHANGED own

(* The threads run; calls answer or time out after 15 seconds; hosts come    *)
(* back, and time passes for bans, for the index and for the feeds.          *)
Fairness ==
    /\ WF_allVars(Tick)
    /\ \A w \in Writer : WF_allVars(Serve(w) /\ UNCHANGED own)
    /\ WF_allVars(IntervalPasses)
    /\ WF_allVars(IndexAges /\ UNCHANGED own)
    /\ \A h \in Host : /\ WF_allVars(ComeUp(h) /\ UNCHANGED own)
                       /\ \A i \in Ip : WF_allVars(Expire(h, i) /\ UNCHANGED own)

AutobanSpec == AutobanInit /\ [][AutobanNext]_allVars /\ Fairness

-----------------------------------------------------------------------------
AutobanTypeOK ==
    /\ TypeOK
    /\ rules \in [Rule -> RuleForm \cup {NoRule}]
    /\ {armed, escalate, feeds, due} \subseteq BOOLEAN
    /\ offences \in [Ip -> 0..Len(Ladder)]
    /\ tick \in [pc : {"sleep", "ban"}, plan : SUBSET Batch]

(* An address that keeps matching an enabled rule, while the executor is     *)
(* armed and escalates, ends up banned for ever on some back end, through    *)
(* lost calls, failed evaluations, a bounded tick and bans that end: each    *)
(* return takes it one step up the ladder.  No back end refuses it.  (One    *)
(* that all refuse is planned again at every tick, and takes its place under *)
(* the cap from others: main.py:2063.  The run has none.)                    *)
Offending(i) ==
    /\ armed /\ escalate
    /\ i \notin Listed /\ \A h \in Host : i \notin Refuses[h]
    /\ \E r \in Rule : rules[r].on /\ i \in Matches[r]
OffenderBanned ==
    \A i \in Ip : <>[]Offending(i) => <>[](\E h \in Host : bans[h][i] = "forever")

(* An address on an enabled feed comes to stay banned on every back end that *)
(* owns the group of the feeds and does not refuse it: the renewal reaches   *)
(* those that missed it, also where the address is banned elsewhere, before  *)
(* the ban there ends.                                                       *)
FeedBanned ==
    \A i \in Listed, h \in Host :
        /\ Owns[h] \cap FeedNames # {} /\ i \notin Refuses[h]
        /\ <>[]feeds
        => <>[](bans[h][i] # "none")
=============================================================================
