-------------------------------- MODULE Alerts --------------------------------
(***************************************************************************)
(* What reaches the operator.  The loops of the dashboard (backend         *)
(* main.py): polls of Loki, the analysis that announces an anomaly through *)
(* the blocklist API, the check of the path rules, and the status page     *)
(* that tells what is wrong.  And the watch of the nodes (blocklist-api    *)
(* main.py), which runs against a clock.  Events go through the rules of   *)
(* notify.py, each to channels that are sent to once, from a thread.       *)
(***************************************************************************)
EXTENDS Integers

CONSTANTS
    Node,
    Unset,
    Env,           \* environments
    Channel,
    Rules,         \* notify.json: who is to be told what
    OfflineAfter,  \* NODE_OFFLINE_AFTER, in ticks of the clock
    Shortest,      \* the shortest period of the watch (15 seconds)
    MaxTurns,      \* bound on the changes of the world
    MaxFaults      \* bound on failed saves and reads, and on restarts

Level == {"info", "notice", "warning", "critical"}
Event == {"anomaly_critical", "node_offline"}

ASSUME AlertsAssumption ==
    /\ Unset \notin Nat \cup {"ok", "critical"}
    /\ Rules \subseteq [on : BOOLEAN, channel : Channel, events : SUBSET Event,
                        env : Env \cup {Unset}, least : Level]
    /\ OfflineAfter \in Nat \ {0} /\ Shortest \in 1..OfflineAfter
    /\ {MaxTurns, MaxFaults} \subseteq Nat

(* ok, notice and warning are one here: none of them is announced. *)
Severity == {"ok", "critical"}

VARIABLES
    world,    \* Loki, the model, the API, and whether its path rules are rendered
    llmOn,    \* llm_enabled
    state,    \* _state of the dashboard, ages in missed rounds
    stored,   \* there is a snapshot in the database
    insight,  \* the thread of insight_loop: where it is, and its locals
    told,     \* announcements of this critical episode made for each channel
    found,    \* what the code found in the last analysis
    end,      \* how that one ended: "well", raised on an "odd" answer, or "unsaved"
    age,      \* ticks since the last heartbeat of each node
    watched,  \* _node_state[n]["offline"]
    wait,     \* ticks until the next pass of the watch
    reported, \* the node has been announced since it was last online
    turns, faults

dashboard == <<llmOn, state, stored, insight, told, found, end>>
watch == <<age, watched, wait, reported>>
vars == <<world, dashboard, watch, turns, faults>>

Fresh == [summary |-> Unset, lokiUp |-> FALSE, pollAge |-> 0, llmUp |-> Unset,
          insightAge |-> Unset, lastSeverity |-> Unset, path403 |-> Unset]
Untold == [c \in Channel |-> 0]
Asleep == [pc |-> "sleep", code |-> "ok"]

(* max(15, NODE_OFFLINE_AFTER // 2).  Mutant: the whole of it. *)
Period_Whole == OfflineAfter
Period == IF Shortest > OfflineAfter \div 2 THEN Shortest ELSE OfflineAfter \div 2

(* The age at which the clock stops: nothing is told apart beyond it. *)
Silent == OfflineAfter + 2 * Period + 1

Init ==
    /\ world = [loki |-> "up", llm |-> "up", api |-> "up", rendered |-> TRUE]
    /\ llmOn \in BOOLEAN
    /\ state = Fresh
    /\ stored = FALSE
    /\ insight = Asleep
    /\ told = Untold /\ found = "ok" /\ end = "well"
    /\ age = [n \in Node |-> Unset]
    /\ watched = [n \in Node |-> FALSE]
    /\ wait = Period
    /\ reported = [n \in Node |-> FALSE]
    /\ turns = 0 /\ faults = 0

Fault == faults < MaxFaults /\ faults' = faults + 1

-----------------------------------------------------------------------------
(* The polls.  detect() makes a severity of the summary and the history.     *)
Polls == UNCHANGED <<world, llmOn, insight, told, found, end, watch, turns>>

Summary(s) == [state EXCEPT !.summary = s, !.lokiUp = TRUE, !.pollAge = 0]

Poll(s) ==
    /\ world.loki = "up"
    /\ state' = Summary(s)
    /\ stored' = TRUE
    /\ Polls /\ UNCHANGED faults

Older(a) == IF a = Unset \/ a = 3 THEN a ELSE a + 1

Unpolled == [state EXCEPT !.lokiUp = FALSE,
                          !.pollAge = IF state.summary = Unset THEN 0 ELSE Older(@)]

(* The subnets or the snapshot are not saved: Loki is blamed, and only in the *)
(* second case the summary is the new one.                                    *)
PollUnsaved(s) ==
    /\ world.loki = "up"
    /\ Fault
    /\ state' \in {Unpolled, [Summary(s) EXCEPT !.lokiUp = FALSE]}
    /\ Polls /\ UNCHANGED stored

PollFails ==
    /\ world.loki = "down"
    /\ state' = Unpolled
    /\ Polls /\ UNCHANGED <<stored, faults>>

(* _refresh_path403: without an answer the last one stays. *)
RefreshPath403 ==
    /\ state' = [state EXCEPT !.path403 = IF world.api = "up" THEN world.rendered ELSE @]
    /\ Polls /\ UNCHANGED <<stored, faults>>

-----------------------------------------------------------------------------
(* The analysis.                                                             *)
Insights == UNCHANGED <<world, llmOn, stored, watch, turns>>

Idles ==
    /\ insight.pc = "sleep"
    /\ ~llmOn /\ state.summary # Unset /\ stored
    /\ state' = [state EXCEPT !.llmUp = Unset, !.insightAge = Older(@)]
    /\ Insights /\ UNCHANGED <<insight, told, found, end, faults>>

Ask ==
    /\ insight.pc = "sleep"
    /\ llmOn /\ state.summary # Unset /\ stored
    /\ insight' = [pc |-> "ask", code |-> state.summary]
    /\ Insights /\ UNCHANGED <<state, told, found, end, faults>>

(* _max_sev.  Mutants: what the model says, whatever it is, or if it is one.  *)
Order(s) == IF s = "critical" THEN 1 ELSE 0
Worst_Any(code, model) == model
Worst_Model(code, model) == IF Order(model) > 0 THEN model ELSE "ok"
Worst(code, model) == IF Order(code) >= Order(model) THEN code ELSE model

(* Mutant: an analysis does not become the last one. *)
Last_Kept(severity) == state.lastSeverity
Last(severity) == severity

(* The analysis is saved, and an entry into "critical" announced next. *)
Concluded(severity, llmUp) ==
    /\ state' = [state EXCEPT !.llmUp = llmUp, !.insightAge = 0,
                              !.lastSeverity = Last(severity)]
    /\ insight' = IF severity = "critical" /\ state.lastSeverity # "critical"
                  THEN [insight EXCEPT !.pc = "tell"] ELSE Asleep
    /\ told' = IF severity = "critical" THEN told ELSE Untold
    /\ found' = insight.code /\ end' = "well"
    /\ UNCHANGED faults

(* Mutant: an exception leaves the health of the model as it was. *)
Raised_Quiet == [state EXCEPT !.insightAge = Older(@)]
Raised == [state EXCEPT !.llmUp = FALSE, !.insightAge = Older(@)]
Raises(how) ==
    /\ state' = Raised /\ insight' = Asleep
    /\ found' = insight.code /\ end' = how
    /\ UNCHANGED told

(* _call: nothing is asked of a model that is off; one may be away. *)
Called == llmOn /\ world.llm # "down"

(* _parse: an answer with a severity, a made-up one too; without one, that of  *)
(* the code.  A JSON list or object for a severity is passed on.               *)
Parsed(said) ==
    IF world.llm = "odd" THEN "odd"
    ELSE IF said = "none" THEN insight.code ELSE said

(* analyze: max() raises on such a list; without an answer the code decides.   *)
Answers(said) ==
    /\ insight.pc = "ask"
    /\ \/ Called /\ Parsed(said) = "odd" /\ Raises("odd") /\ UNCHANGED faults
       \/ Called /\ Parsed(said) # "odd" /\ Concluded(Worst(insight.code, Parsed(said)), TRUE)
       \/ ~Called /\ Concluded(insight.code, IF llmOn THEN FALSE ELSE Unset)
    /\ Insights

(* save_insight fails. *)
Unsaved == insight.pc = "ask" /\ Fault /\ Raises("unsaved") /\ Insights

(* notify.dispatch: an event goes to the channels of the rules it matches.   *)
Rank(level) == CASE level = "info" -> 0 [] level = "notice" -> 1
                 [] level = "warning" -> 2 [] level = "critical" -> 3
Matching(ev) ==
    {r \in Rules : r.on /\ ev.type \in r.events
                  /\ r.env \in {Unset, ev.env} /\ Rank(ev.level) >= Rank(r.least)}

Sends(ev, c) == IF \E r \in Matching(ev) : r.channel = c THEN 1 ELSE 0

Anomaly == [type |-> "anomaly_critical", env |-> Unset, level |-> "critical"]

(* _notify, best effort: one call, and its failure is not looked at; nor is  *)
(* that of a send.                                                           *)
Tell ==
    /\ insight.pc = "tell"
    /\ told' = [c \in Channel |-> told[c] + Sends(Anomaly, c)]
    /\ insight' = Asleep
    /\ Insights /\ UNCHANGED <<state, found, end, faults>>

RestartDashboard ==
    /\ Fault
    /\ state' = Fresh /\ insight' = Asleep
    /\ told' = Untold /\ found' = "ok" /\ end' = "well"
    /\ UNCHANGED <<world, llmOn, stored, watch, turns>>

-----------------------------------------------------------------------------
(* The watch of the nodes.                                                   *)
Online(n) == age[n] # Unset /\ age[n] <= OfflineAfter

Heartbeat(n) ==
    /\ age' = [age EXCEPT ![n] = 0]
    /\ reported' = [reported EXCEPT ![n] = FALSE]
    /\ UNCHANGED <<world, dashboard, watched, wait, turns, faults>>

(* Time goes on once the pass that is due has been made. *)
Tick ==
    /\ wait > 0
    /\ wait' = wait - 1
    /\ age' = [n \in Node |->
          IF age[n] \in {Unset, Silent} THEN age[n] ELSE age[n] + 1]
    /\ UNCHANGED <<world, dashboard, watched, reported, turns, faults>>

Pass ==
    /\ wait = 0
    /\ wait' = Period
    /\ watched' = [n \in Node |-> ~Online(n)]
    /\ reported' = [n \in Node |->
          reported[n] \/ (~Online(n) /\ ~watched[n] /\ age[n] # Unset)]
    /\ UNCHANGED <<world, dashboard, age, turns, faults>>

PassFails ==
    /\ wait = 0
    /\ Fault
    /\ wait' = Period
    /\ UNCHANGED <<world, dashboard, age, watched, reported, turns>>

(* A node is deleted, and comes back by enrolling: it has never been seen. *)
Reenroll(n) ==
    /\ Fault
    /\ age' = [age EXCEPT ![n] = Unset]
    /\ reported' = [reported EXCEPT ![n] = FALSE]
    /\ UNCHANGED <<world, dashboard, watched, wait, turns>>

RestartApi ==
    /\ Fault
    /\ watched' = [n \in Node |-> FALSE]
    /\ wait' = Period
    /\ UNCHANGED <<world, dashboard, age, reported, turns>>

-----------------------------------------------------------------------------
(* Things outside go wrong and right; an operator switches the model.        *)
Turn ==
    /\ turns < MaxTurns
    /\ turns' = turns + 1
    /\ UNCHANGED <<state, stored, insight, told, found, end, watch, faults>>

Weather ==
    /\ Turn
    /\ \/ world' = [world EXCEPT !.loki = IF @ = "up" THEN "down" ELSE "up"]
       \/ \E s \in {"up", "down", "odd"} : world' = [world EXCEPT !.llm = s]
       \/ world' = [world EXCEPT !.api = IF @ = "up" THEN "down" ELSE "up"]
       \/ world' = [world EXCEPT !.rendered = ~@]
    /\ UNCHANGED llmOn

Switch(on) == Turn /\ llmOn' = on /\ UNCHANGED world

Analysis == Idles \/ Ask \/ Tell \/ \E s \in Severity \cup {"junk", "none"} : Answers(s)
Polling == PollFails \/ \E s \in Severity : Poll(s)

Next ==
    \/ Polling
    \/ \E s \in Severity : PollUnsaved(s)
    \/ RefreshPath403
    \/ Analysis
    \/ Unsaved
    \/ RestartDashboard
    \/ Tick \/ Pass \/ PassFails \/ RestartApi
    \/ \E n \in Node : Heartbeat(n) \/ Reenroll(n)
    \/ Weather \/ \E on \in BOOLEAN : Switch(on)

(* The loops are daemon threads, and their calls time out. *)
Fairness ==
    /\ WF_vars(Polling)
    /\ WF_vars(RefreshPath403)
    /\ WF_vars(Analysis)

Spec == Init /\ [][Next]_vars /\ Fairness

-----------------------------------------------------------------------------
(* api_status. *)
Problem(c) ==
    CASE c = "Loki" -> world.loki = "down" \/ ~state.lokiUp
      [] c = "LLM" -> llmOn /\ state.llmUp = FALSE
      [] c = "data" -> state.pollAge = 3
      [] c = "insight" -> llmOn /\ state.insightAge = 3
      [] c = "path403" -> state.path403 = FALSE

TypeOK ==
    /\ world \in [loki : {"up", "down"}, llm : {"up", "down", "odd"}, api : {"up", "down"},
                  rendered : BOOLEAN]
    /\ llmOn \in BOOLEAN /\ stored \in BOOLEAN
    /\ state \in [summary : Severity \cup {Unset}, lokiUp : BOOLEAN, pollAge : 0..3,
                  llmUp : BOOLEAN \cup {Unset}, insightAge : (0..3) \cup {Unset},
                  lastSeverity : Severity \cup {Unset}, path403 : BOOLEAN \cup {Unset}]
    /\ insight \in [pc : {"sleep", "ask", "tell"}, code : Severity]
    /\ told \in [Channel -> Nat]
    /\ found \in Severity /\ end \in {"well", "odd", "unsaved"}
    /\ age \in [Node -> 0..(Silent) \cup {Unset}]
    /\ watched \in [Node -> BOOLEAN] /\ reported \in [Node -> BOOLEAN]
    /\ wait \in 0..Period
    /\ turns \in Nat /\ faults \in Nat

(* When an analysis in which the code finds the traffic critical ends well,   *)
(* it is announced in this episode to every channel with an enabled rule for  *)
(* it, whether the model answers or not, and whatever the severity it makes   *)
(* up ("code is the safety net").  An analysis that raises, on a list or an   *)
(* object for a severity or on a failed save, announces nothing.              *)
Asks(c) == \E r \in Rules : /\ r.channel = c /\ r.on /\ r.env = Unset
                            /\ "anomaly_critical" \in r.events
Announced == \A c \in Channel : Asks(c) => told[c] # 0
CriticalIsTold == found = "critical" /\ end = "well" /\ insight.pc # "tell" => Announced

(* analyze.py:3-5: "Keeping the hard detection in code means alerts/severity  *)
(* don't depend on the model behaving."  Whatever the model says, what the    *)
(* code finds critical is announced, if the analysis can be saved.            *)
SafetyNet == found = "critical" /\ end # "unsaved" /\ insight.pc # "tell" => Announced

(* An episode is announced once while the dashboard runs, however long it     *)
(* lasts, whatever fails within it and however many rules name the channel    *)
(* ("only on the transition INTO critical"); and to nobody who did not ask.   *)
(* A restart ends the count: the first critical analysis after it announces   *)
(* the episode again, since _state is not saved.                              *)
ToldOnce == \A c \in Channel : told[c] <= IF Asks(c) THEN 1 ELSE 0

(* What the status page shows settles on the truth, through outages,          *)
(* switches, failed saves and restarts: a lasting outage comes to be shown,   *)
(* and once things are well again for good nothing stays shown.               *)
StatusSettles ==
    /\ <>[](world.loki = "up") => <>[](~Problem("Loki") /\ ~Problem("data"))
    /\ <>[](llmOn /\ world.llm = "up" /\ world.loki = "up")
          => <>[](~Problem("LLM") /\ ~Problem("insight"))
    /\ <>[](llmOn /\ world.llm # "up" /\ world.loki = "up") => <>[]Problem("LLM")
    /\ <>[](world.api = "up" /\ world.rendered) => <>[]~Problem("path403")
    /\ <>[](world.api = "up" /\ ~world.rendered) => <>[]Problem("path403")

(* A node that has been offline for two periods of the watch has been         *)
(* announced since its last heartbeat, though it was announced before, and    *)
(* though one pass failed: the watch misses no time the node is online.       *)
OfflineIsTold == \A n \in Node : age[n] = Silent => reported[n]
=============================================================================
