---------------------------- MODULE Alerts_proofs ----------------------------
(***************************************************************************)
(* Theorems about Alerts, for every set of rules, nodes and channels.      *)
(***************************************************************************)
EXTENDS Alerts, TLAPS

State == [summary : Severity \cup {Unset}, lokiUp : BOOLEAN, pollAge : 0..3,
          llmUp : BOOLEAN \cup {Unset}, insightAge : (0..3) \cup {Unset},
          lastSeverity : Severity \cup {Unset}, path403 : BOOLEAN \cup {Unset}]
World == [loki : {"up", "down"}, llm : {"up", "down", "odd"}, api : {"up", "down"},
          rendered : BOOLEAN]
Insight == [pc : {"sleep", "ask", "tell"}, code : Severity]

(* The four parts of TypeOK. *)
WorldType == world \in World /\ llmOn \in BOOLEAN /\ turns \in Nat /\ faults \in Nat
StateType == state \in State /\ stored \in BOOLEAN
Ends == {"well", "odd", "unsaved"}
EpisodeType ==
    /\ insight \in Insight /\ told \in [Channel -> Nat]
    /\ found \in Severity /\ end \in Ends
WatchType ==
    /\ age \in [Node -> 0..Silent \cup {Unset}]
    /\ watched \in [Node -> BOOLEAN] /\ reported \in [Node -> BOOLEAN]
    /\ wait \in 0..Period
Types == WorldType /\ StateType /\ EpisodeType /\ WatchType

-----------------------------------------------------------------------------
(* An episode: the announcement belongs to the last severity, and is made     *)
(* when the thread has gone past it.                                          *)
Critical == state.lastSeverity = "critical"
Episode ==
    /\ found = "critical" /\ end = "well" => Critical
    /\ insight.pc = "tell" => Critical
    /\ Critical /\ insight.pc # "tell" =>
          \A c \in Channel : told[c] = IF Asks(c) THEN 1 ELSE 0
    /\ ~Critical \/ insight.pc = "tell" => \A c \in Channel : told[c] = 0

(* Slack is the time the one pass that may still fail costs.  A node that is  *)
(* not announced, and on record as offline, will be seen online by the next   *)
(* pass; one that is on record as online will be announced by the next pass   *)
(* that finds it silent, before it has been silent for two periods.           *)
Slack == IF faults < MaxFaults THEN Period ELSE 0
InTime ==
    /\ faults <= MaxFaults
    /\ \A n \in Node : age[n] # Unset /\ ~reported[n] =>
          age[n] + wait + Slack <= OfflineAfter + IF watched[n] THEN 0 ELSE 2 * Period

-----------------------------------------------------------------------------
LEMMA PeriodType == Period \in Nat /\ Period <= OfflineAfter /\ Silent \in Nat
BY AlertsAssumption DEF Period, Silent

LEMMA TypeParts == TypeOK <=> Types
BY DEF TypeOK, Types, WorldType, StateType, EpisodeType, WatchType, World, State, Insight, Ends

LEMMA InitTypes == Init => Types
<1> SUFFICES ASSUME Init PROVE Types
  OBVIOUS
<1>1. WorldType
  <2>1. world \in World
    BY DEF Init, World
  <2>2. llmOn \in BOOLEAN /\ turns \in Nat /\ faults \in Nat
    BY DEF Init
  <2> QED BY <2>1, <2>2 DEF WorldType
<1>2. StateType
  <2>1. Fresh \in State
    BY DEF State, Fresh
  <2>2. state = Fresh /\ stored \in BOOLEAN
    BY DEF Init
  <2> QED BY <2>1, <2>2 DEF StateType
<1>3. EpisodeType
  BY DEF Init, EpisodeType, Insight, Asleep, Untold, Severity, Ends
<1>4. WatchType
  BY PeriodType DEF Init, WatchType
<1> QED BY <1>1, <1>2, <1>3, <1>4 DEF Types

(* What the steps make of the state of the dashboard. *)
LEMMA OlderType == \A a \in (0..3) \cup {Unset} : Older(a) \in (0..3) \cup {Unset}
BY DEF Older

LEMMA PolledType ==
    ASSUME StateType, NEW s \in Severity
    PROVE  /\ Summary(s) \in State /\ Summary(s).lastSeverity = state.lastSeverity
           /\ [Summary(s) EXCEPT !.lokiUp = FALSE] \in State
           /\ [Summary(s) EXCEPT !.lokiUp = FALSE].lastSeverity = state.lastSeverity
<1> DEFINE polled == [state EXCEPT !.summary = s, !.lokiUp = TRUE, !.pollAge = 0]
<1>0. state \in State
  BY DEF StateType
<1>1. polled \in State /\ polled.lastSeverity = state.lastSeverity
  <2> DEFINE a == [state EXCEPT !.summary = s]
             b == [a EXCEPT !.lokiUp = TRUE]
             c == [b EXCEPT !.pollAge = 0]
  <2>1. a \in State /\ a.lastSeverity = state.lastSeverity
    BY <1>0 DEF State
  <2>2. polled = c
    BY <1>0 DEF State
  <2> HIDE DEF a, polled
  <2>3. b \in State /\ b.lastSeverity = a.lastSeverity
    BY <2>1 DEF State
  <2> HIDE DEF b
  <2>4. c \in State /\ c.lastSeverity = b.lastSeverity
    BY <2>3 DEF State
  <2> QED BY <2>1, <2>2, <2>3, <2>4
<1>2. Summary(s) = polled
  BY DEF Summary
<1> HIDE DEF polled
<1>3. /\ [polled EXCEPT !.lokiUp = FALSE] \in State
      /\ [polled EXCEPT !.lokiUp = FALSE].lastSeverity = polled.lastSeverity
  BY <1>1 DEF State
<1> QED BY <1>1, <1>2, <1>3

LEMMA UnpolledType ==
    ASSUME StateType
    PROVE  Unpolled \in State /\ Unpolled.lastSeverity = state.lastSeverity
<1> DEFINE a == IF state.summary = Unset THEN 0 ELSE Older(state.pollAge)
<1>1. a \in 0..3
  BY AlertsAssumption DEF StateType, State, Older
<1>2. Unpolled = [state EXCEPT !.lokiUp = FALSE, !.pollAge = a]
  BY DEF StateType, State, Unpolled
<1> HIDE DEF a
<1> QED BY <1>1, <1>2 DEF StateType, State

-----------------------------------------------------------------------------
(* The polls of the dashboard. *)
LEMMA PollsKeep ==
    ASSUME Types, Episode, Polls, state' \in State, stored' \in BOOLEAN, faults' \in Nat,
           state'.lastSeverity = state.lastSeverity
    PROVE  Types' /\ Episode'
<1>1. WorldType' /\ StateType' /\ EpisodeType' /\ WatchType'
  BY DEF Types, Polls, watch, WorldType, StateType, EpisodeType, WatchType
<1>2. Episode'
  BY DEF Polls, Episode, Critical, Asks
<1> QED BY <1>1, <1>2 DEF Types

LEMMA PollingKeeps ==
    ASSUME Types, Episode,
           \/ PollFails \/ RefreshPath403
           \/ \E s \in Severity : Poll(s) \/ PollUnsaved(s)
    PROVE  Types' /\ Episode'
<1>0. StateType /\ state \in State /\ stored \in BOOLEAN /\ faults \in Nat
  BY DEF Types, StateType, WorldType
<1>1. CASE PollFails
  BY <1>0, <1>1, UnpolledType, PollsKeep DEF PollFails
<1>2. CASE RefreshPath403
  <2> DEFINE seen == IF world.api = "up" THEN world.rendered ELSE state.path403
             next == [state EXCEPT !.path403 = seen]
  <2>1. seen \in BOOLEAN \cup {Unset}
    BY <1>0 DEF Types, WorldType, World, State
  <2>2. state' = next
    BY <1>0, <1>2 DEF RefreshPath403, State
  <2> HIDE DEF seen
  <2>3. next \in State /\ next.lastSeverity = state.lastSeverity
    BY <1>0, <2>1 DEF State
  <2> HIDE DEF next
  <2> QED BY <1>0, <1>2, <2>2, <2>3, PollsKeep DEF RefreshPath403
<1>3. ASSUME NEW s \in Severity, Poll(s) PROVE Types' /\ Episode'
  BY <1>0, <1>3, PolledType, PollsKeep DEF Poll
<1>4. ASSUME NEW s \in Severity, PollUnsaved(s) PROVE Types' /\ Episode'
  <2>1. state' \in State /\ state'.lastSeverity = state.lastSeverity
    BY <1>0, <1>4, PolledType, UnpolledType DEF PollUnsaved
  <2>2. Polls /\ stored' \in BOOLEAN /\ faults' \in Nat
    BY <1>0, <1>4 DEF PollUnsaved, Fault
  <2> QED BY <2>1, <2>2, PollsKeep
<1> QED BY <1>1, <1>2, <1>3, <1>4

-----------------------------------------------------------------------------
(* The analysis. *)
LEMMA WorstIsSafe ==
    ASSUME NEW code \in Severity, NEW model
    PROVE  /\ Worst(code, model) \in Severity
           /\ code = "critical" => Worst(code, model) = "critical"
BY DEF Severity, Worst, Order

LEMMA SendsWhatIsAsked ==
    ASSUME NEW c \in Channel
    PROVE  Sends(Anomaly, c) = IF Asks(c) THEN 1 ELSE 0
<1>1. \A r \in Rules : Rank("critical") >= Rank(r.least)
  <2> SUFFICES ASSUME NEW r \in Rules PROVE Rank("critical") >= Rank(r.least)
    OBVIOUS
  <2>1. r.least \in Level
    BY AlertsAssumption
  <2> QED BY <2>1 DEF Rank, Level
<1>2. /\ Anomaly.type = "anomaly_critical" /\ Anomaly.env = Unset
      /\ Anomaly.level = "critical"
  BY DEF Anomaly
<1>3. (\E r \in Matching(Anomaly) : r.channel = c) <=> Asks(c)
  BY <1>1, <1>2 DEF Matching, Asks
<1> QED BY <1>3 DEF Sends

LEMMA ConcludedKeeps ==
    ASSUME Types, Episode, Insights, insight.pc = "ask", NEW severity \in Severity,
           NEW llmUp \in BOOLEAN \cup {Unset}, Concluded(severity, llmUp),
           insight.code = "critical" => severity = "critical"
    PROVE  Types' /\ Episode'
<1> DEFINE next == [state EXCEPT !.llmUp = llmUp, !.insightAge = 0, !.lastSeverity = severity]
           told_next == [insight EXCEPT !.pc = "tell"]
<1>0. state \in State /\ insight \in Insight /\ told \in [Channel -> Nat]
  BY DEF Types, StateType, EpisodeType
<1>1. next \in State /\ next.lastSeverity = severity /\ state' = next
  <2>1. next \in State
    <3> DEFINE a == [state EXCEPT !.llmUp = llmUp]
               b == [a EXCEPT !.insightAge = 0]
               c == [b EXCEPT !.lastSeverity = severity]
    <3>1. a \in State
      BY <1>0 DEF State
    <3>2. next = c
      BY <1>0 DEF State
    <3> HIDE DEF a, next
    <3>3. b \in State
      BY <3>1 DEF State
    <3> HIDE DEF b
    <3>4. c \in State
      BY <3>3 DEF State
    <3> QED BY <3>2, <3>4
  <2>2. next.lastSeverity = severity
    BY <1>0 DEF State
  <2>3. state' = next
    BY DEF Concluded, Last
  <2> QED BY <2>1, <2>2, <2>3
<1>2. told_next \in Insight /\ told_next.pc = "tell"
  BY <1>0 DEF Insight
<1>3. Asleep \in Insight /\ Asleep.pc = "sleep"
  BY DEF Asleep, Insight, Severity
<1>4. insight' = IF severity = "critical" /\ ~Critical THEN told_next ELSE Asleep
  BY DEF Concluded, Critical
<1>5. Untold \in [Channel -> Nat] /\ \A c \in Channel : Untold[c] = 0
  BY DEF Untold
<1>6. told' = IF severity = "critical" THEN told ELSE Untold
  BY DEF Concluded
<1>7. found' = insight.code /\ found' \in Severity /\ end' \in Ends
  BY <1>0 DEF Concluded, Insight, Ends
<1> HIDE DEF next, told_next
<1>8. WorldType' /\ StateType' /\ EpisodeType' /\ WatchType'
  BY <1>0, <1>1, <1>2, <1>3, <1>4, <1>5, <1>6, <1>7
     DEF Types, Insights, Concluded, watch, WorldType, StateType, EpisodeType, WatchType
<1>9. Critical' <=> severity = "critical"
  BY <1>1 DEF Critical
<1>10. Episode'
  BY <1>2, <1>3, <1>4, <1>5, <1>6, <1>7, <1>9 DEF Episode, Asks
<1> QED BY <1>8, <1>10 DEF Types

LEMMA RaisesKeeps ==
    ASSUME Types, Episode, Insights, NEW how \in {"odd", "unsaved"}, Raises(how), insight.pc = "ask",
           faults' \in Nat
    PROVE  Types' /\ Episode'
<1> DEFINE a == Older(state.insightAge)
<1>0. state \in State
  BY DEF Types, StateType
<1>1. a \in (0..3) \cup {Unset}
  BY <1>0, OlderType DEF State
<1>2. state' = [state EXCEPT !.llmUp = FALSE, !.insightAge = a]
  BY <1>0 DEF Raises, Raised, State
<1> HIDE DEF a
<1>3. state' \in State /\ state'.lastSeverity = state.lastSeverity
  BY <1>0, <1>1, <1>2 DEF State
<1>4. Asleep \in Insight /\ Asleep.pc = "sleep"
  BY DEF Asleep, Insight, Severity
<1>5. found' \in Severity /\ end' \in Ends /\ end' # "well"
  BY DEF Types, EpisodeType, Insight, Raises, Ends
<1>6. WorldType' /\ StateType' /\ EpisodeType' /\ WatchType'
  BY <1>3, <1>4, <1>5
     DEF Types, Insights, Raises, watch, WorldType, StateType, EpisodeType, WatchType
<1>7. Episode'
  BY <1>3, <1>4, <1>5 DEF Episode, Raises, Critical, Asks
<1> QED BY <1>6, <1>7 DEF Types

LEMMA AnalysisKeeps ==
    ASSUME Types, Episode, Analysis \/ Unsaved
    PROVE  Types' /\ Episode'
<1>0. /\ state \in State /\ insight \in Insight /\ insight.code \in Severity
      /\ told \in [Channel -> Nat] /\ llmOn \in BOOLEAN /\ faults \in Nat
  BY DEF Types, WorldType, StateType, EpisodeType, Insight
<1>1. CASE Idles
  <2> DEFINE a == Older(state.insightAge)
  <2>1. a \in (0..3) \cup {Unset}
    BY <1>0, OlderType DEF State
  <2>2. state' = [state EXCEPT !.llmUp = Unset, !.insightAge = a]
    BY <1>0, <1>1 DEF Idles, State
  <2> HIDE DEF a
  <2>3. state' \in State /\ state'.lastSeverity = state.lastSeverity
    BY <1>0, <2>1, <2>2 DEF State
  <2>4. WorldType' /\ StateType' /\ EpisodeType' /\ WatchType'
    BY <1>1, <2>3
       DEF Types, Insights, Idles, watch, WorldType, StateType, EpisodeType, WatchType
  <2>5. Episode'
    BY <1>1, <2>3 DEF Episode, Idles, Critical, Asks
  <2> QED BY <2>4, <2>5 DEF Types
<1>2. CASE Ask
  <2>1. insight' \in Insight /\ insight'.pc = "ask"
    BY <1>0, <1>2 DEF Ask, Insight, State
  <2>2. WorldType' /\ StateType' /\ EpisodeType' /\ WatchType'
    BY <1>2, <2>1
       DEF Types, Insights, Ask, watch, WorldType, StateType, EpisodeType, WatchType
  <2>3. Episode'
    BY <1>2, <2>1 DEF Episode, Ask, Critical, Asks
  <2> QED BY <2>2, <2>3 DEF Types
<1>3. CASE Tell
  <2> DEFINE sent == [c \in Channel |-> told[c] + Sends(Anomaly, c)]
  <2>1. \A c \in Channel : told[c] = 0
    BY <1>3 DEF Tell, Episode
  <2>2. /\ sent \in [Channel -> Nat]
        /\ \A c \in Channel : sent[c] = IF Asks(c) THEN 1 ELSE 0
    BY <2>1, SendsWhatIsAsked
  <2>3. told' = sent /\ insight' = Asleep
    BY <1>3 DEF Tell
  <2> HIDE DEF sent
  <2>4. Asleep \in Insight /\ Asleep.pc = "sleep"
    BY DEF Asleep, Insight, Severity
  <2>5. WorldType' /\ StateType' /\ EpisodeType' /\ WatchType'
    BY <1>3, <2>2, <2>3, <2>4
       DEF Types, Insights, Tell, watch, WorldType, StateType, EpisodeType, WatchType
  <2>6. Episode'
    BY <1>3, <2>2, <2>3, <2>4 DEF Episode, Tell, Critical, Asks
  <2> QED BY <2>5, <2>6 DEF Types
<1>4. ASSUME NEW said, Answers(said) PROVE Types' /\ Episode'
  <2>0. Insights /\ insight.pc = "ask"
    BY <1>4 DEF Answers
  <2>1. CASE Raises("odd") /\ UNCHANGED faults
    BY <1>0, <2>0, <2>1, RaisesKeeps
  <2>2. CASE Concluded(Worst(insight.code, Parsed(said)), TRUE)
    BY <1>0, <2>0, <2>2, ConcludedKeeps, WorstIsSafe
  <2>3. CASE Concluded(insight.code, IF llmOn THEN FALSE ELSE Unset)
    BY <1>0, <2>0, <2>3, ConcludedKeeps
  <2> QED BY <1>4, <2>1, <2>2, <2>3 DEF Answers
<1>5. CASE Unsaved
  BY <1>0, <1>5, RaisesKeeps DEF Unsaved, Fault
<1> QED BY <1>1, <1>2, <1>3, <1>4, <1>5 DEF Analysis

LEMMA RestartKeeps ==
    ASSUME Types, RestartDashboard
    PROVE  Types' /\ Episode'
<1>1. Fresh \in State /\ Fresh.lastSeverity = Unset
  BY DEF State, Fresh
<1>2. Asleep \in Insight /\ Asleep.pc = "sleep"
  BY DEF Asleep, Insight, Severity
<1>3. Untold \in [Channel -> Nat] /\ \A c \in Channel : Untold[c] = 0
  BY DEF Untold
<1>4. /\ state' = Fresh /\ insight' = Asleep /\ told' = Untold /\ found' = "ok"
      /\ end' \in Ends
      /\ UNCHANGED <<world, llmOn, stored, watch, turns>> /\ faults' = faults + 1
  BY DEF RestartDashboard, Fault, Ends
<1>5. WorldType' /\ StateType' /\ EpisodeType' /\ WatchType'
  BY <1>1, <1>2, <1>3, <1>4
     DEF Types, Severity, watch, WorldType, StateType, EpisodeType, WatchType
<1>6. Episode'
  BY <1>1, <1>2, <1>3, <1>4, AlertsAssumption DEF Episode, Critical
<1> QED BY <1>5, <1>6 DEF Types

-----------------------------------------------------------------------------
(* The watch of the nodes, and the world: the dashboard does nothing. *)
LEMMA DashboardStays ==
    ASSUME Types, Episode, UNCHANGED dashboard, WorldType', WatchType'
    PROVE  Types' /\ Episode'
<1>1. StateType' /\ EpisodeType'
  BY DEF Types, dashboard, StateType, EpisodeType
<1>2. Episode'
  BY DEF Episode, Critical, Asks, dashboard
<1> QED BY <1>1, <1>2 DEF Types

LEMMA AgesType ==
    ASSUME WatchType, Tick
    PROVE  /\ WatchType' /\ wait' + 1 = wait
           /\ \A n \in Node : age[n] = Unset => age'[n] = Unset
           /\ \A n \in Node : age[n] # Unset => age'[n] <= age[n] + 1
<1>1. \A n \in Node : age[n] \in 0..Silent \cup {Unset}
  BY DEF WatchType
<1>2. \A n \in Node :
         /\ age'[n] \in 0..Silent \cup {Unset}
         /\ age[n] = Unset => age'[n] = Unset
         /\ age[n] # Unset => age'[n] <= age[n] + 1
  BY <1>1, PeriodType, AlertsAssumption DEF Tick
<1>3. age' \in [Node -> 0..Silent \cup {Unset}]
  BY <1>2 DEF Tick
<1> QED BY <1>2, <1>3, PeriodType DEF WatchType, Tick

LEMMA WatchKeeps ==
    ASSUME Types, Episode,
           \/ Tick \/ Pass \/ PassFails \/ RestartApi
           \/ \E n \in Node : Heartbeat(n) \/ Reenroll(n)
    PROVE  Types' /\ Episode'
<1>0. WatchType /\ WorldType
  BY DEF Types
<1>1. UNCHANGED <<world, dashboard, turns>> /\ faults' \in Nat
  BY <1>0 DEF Tick, Pass, PassFails, RestartApi, Heartbeat, Reenroll, Fault, WorldType
<1>2. WorldType'
  BY <1>0, <1>1 DEF WorldType, dashboard
<1>3. WatchType'
  <2>1. CASE Tick
    BY <1>0, <2>1, AgesType
  <2>2. CASE Pass
    <3>1. \A n \in Node : watched'[n] \in BOOLEAN /\ reported'[n] \in BOOLEAN
      BY <2>2 DEF Pass
    <3>2. watched' \in [Node -> BOOLEAN] /\ reported' \in [Node -> BOOLEAN]
      BY <2>2, <3>1 DEF Pass
    <3> QED BY <1>0, <2>2, <3>2, PeriodType DEF WatchType, Pass
  <2>3. CASE PassFails
    BY <1>0, <2>3, PeriodType DEF WatchType, PassFails
  <2>4. CASE RestartApi
    BY <1>0, <2>4, PeriodType DEF WatchType, RestartApi
  <2>5. ASSUME NEW n \in Node, Heartbeat(n) PROVE WatchType'
    BY <1>0, <2>5, PeriodType DEF WatchType, Heartbeat
  <2>6. ASSUME NEW n \in Node, Reenroll(n) PROVE WatchType'
    BY <1>0, <2>6, PeriodType DEF WatchType, Reenroll
  <2> QED BY <2>1, <2>2, <2>3, <2>4, <2>5, <2>6
<1> QED BY <1>1, <1>2, <1>3, DashboardStays

LEMMA WorldKeeps ==
    ASSUME Types, Episode, Weather \/ \E on \in BOOLEAN : Switch(on)
    PROVE  Types' /\ Episode'
<1>0. /\ world \in World /\ llmOn \in BOOLEAN /\ turns \in Nat /\ faults \in Nat
      /\ StateType /\ EpisodeType /\ WatchType
  BY DEF Types, WorldType
<1>1. /\ UNCHANGED <<state, stored, insight, told, found, end, watch, faults>>
      /\ turns' \in Nat
  BY <1>0 DEF Weather, Switch, Turn
<1>2. world' \in World /\ llmOn' \in BOOLEAN
  <2>1. CASE Weather
    BY <1>0, <2>1 DEF Weather, World
  <2>2. ASSUME NEW on \in BOOLEAN, Switch(on) PROVE world' \in World /\ llmOn' \in BOOLEAN
    BY <1>0, <2>2 DEF Switch
  <2> QED BY <2>1, <2>2
<1>3. WorldType' /\ StateType' /\ EpisodeType' /\ WatchType'
  BY <1>0, <1>1, <1>2 DEF watch, WorldType, StateType, EpisodeType, WatchType
<1>4. Episode'
  BY <1>1 DEF Episode, Critical, Asks
<1> QED BY <1>3, <1>4 DEF Types

-----------------------------------------------------------------------------
LEMMA InitEpisode == Init => Episode
<1> SUFFICES ASSUME Init PROVE Episode
  OBVIOUS
<1>1. state.lastSeverity = Unset /\ insight.pc = "sleep" /\ found = "ok"
  BY DEF Init, Fresh, Asleep
<1>2. \A c \in Channel : told[c] = 0
  BY DEF Init, Untold
<1> QED BY <1>1, <1>2, AlertsAssumption DEF Episode, Critical

LEMMA StepKeeps == Types /\ Episode /\ [Next]_vars => Types' /\ Episode'
<1> SUFFICES ASSUME Types, Episode, [Next]_vars PROVE Types' /\ Episode'
  OBVIOUS
<1>1. CASE UNCHANGED vars
  <2>1. UNCHANGED dashboard /\ WorldType' /\ WatchType'
    BY <1>1 DEF vars, dashboard, watch, Types, WorldType, WatchType
  <2> QED BY <2>1, DashboardStays
<1>2. CASE PollFails \/ RefreshPath403 \/ \E s \in Severity : Poll(s) \/ PollUnsaved(s)
  BY <1>2, PollingKeeps
<1>3. CASE Analysis \/ Unsaved
  BY <1>3, AnalysisKeeps
<1>4. CASE RestartDashboard
  BY <1>4, RestartKeeps
<1>5. CASE \/ Tick \/ Pass \/ PassFails \/ RestartApi
           \/ \E n \in Node : Heartbeat(n) \/ Reenroll(n)
  BY <1>5, WatchKeeps
<1>6. CASE Weather \/ \E on \in BOOLEAN : Switch(on)
  BY <1>6, WorldKeeps
<1> QED BY <1>1, <1>2, <1>3, <1>4, <1>5, <1>6 DEF Next, Polling

(* Every variable has its type, the counts of announcements too. *)
THEOREM TypeCorrect == Spec => []TypeOK
BY InitTypes, InitEpisode, StepKeeps, TypeParts, PTL DEF Spec

(* What the code finds critical in an analysis that ends well has been         *)
(* announced to all who asked for it, with any rules and whether the model     *)
(* answers or not (insight_loop and analyze).  It says nothing of an analysis  *)
(* that raises: on a list or an object for a severity, or on a failed save.    *)
THEOREM TheCriticalIsTold == Spec => []CriticalIsTold
<1>1. Types /\ Episode => CriticalIsTold
  BY DEF Episode, CriticalIsTold, Announced
<1> QED BY <1>1, InitTypes, InitEpisode, StepKeeps, PTL DEF Spec

(* It has been announced once since the dashboard started, however many rules  *)
(* name the channel, and to nobody who did not ask (insight_loop compares with *)
(* _state's last severity, which a restart forgets).                           *)
THEOREM ItIsToldOnce == Spec => []ToldOnce
<1>1. Types /\ Episode => ToldOnce
  <2> SUFFICES ASSUME Types, Episode, NEW c \in Channel
               PROVE  told[c] <= IF Asks(c) THEN 1 ELSE 0
    BY DEF ToldOnce
  <2>1. told[c] = 0 \/ told[c] = IF Asks(c) THEN 1 ELSE 0
    BY DEF Episode
  <2> QED BY <2>1
<1> QED BY <1>1, InitTypes, InitEpisode, StepKeeps, PTL DEF Spec

-----------------------------------------------------------------------------
(* The clock. *)
LEMMA InTimeInit == Init => InTime
BY AlertsAssumption DEF Init, InTime

LEMMA ClockStays ==
    ASSUME InTime, UNCHANGED watch, WorldType, faults' \in {faults, faults + 1},
           faults' <= MaxFaults, Types
    PROVE  InTime'
<1>1. Slack' <= Slack /\ Slack \in Nat /\ Slack' \in Nat
  BY PeriodType, AlertsAssumption DEF Slack, WorldType
<1>2. \A n \in Node : age[n] # Unset => age[n] \in Nat
  BY PeriodType DEF Types, WatchType
<1>3. wait \in Nat
  BY PeriodType DEF Types, WatchType
<1> QED BY <1>1, <1>2, <1>3, PeriodType, AlertsAssumption DEF InTime, watch

LEMMA InTimeStep ==
    ASSUME MaxFaults <= 1, MaxFaults = 0 \/ Shortest <= OfflineAfter \div 2,
           Types, InTime, [Next]_vars
    PROVE  InTime'
<1>0. /\ faults \in Nat /\ faults <= MaxFaults /\ MaxFaults \in {0, 1} /\ wait \in 0..Period
      /\ \A n \in Node : age[n] # Unset => age[n] \in Nat
      /\ Period \in Nat /\ OfflineAfter \in Nat
      /\ Slack \in Nat
  BY PeriodType, AlertsAssumption DEF Types, WorldType, WatchType, InTime, Slack
<1>1. Period + Slack <= OfflineAfter
  BY <1>0, AlertsAssumption DEF Period, Slack
<1>2. ASSUME Fault PROVE faults' <= MaxFaults /\ Slack = Period /\ Slack' = 0
  BY <1>0, <1>2 DEF Fault, Slack
<1>3. CASE Tick
  <2> SUFFICES ASSUME NEW n \in Node, age'[n] # Unset, ~reported'[n]
               PROVE  age'[n] + wait' + Slack' <=
                         OfflineAfter + IF watched'[n] THEN 0 ELSE 2 * Period
    BY <1>0, <1>3 DEF InTime, Tick
  <2>0. /\ WatchType' /\ wait' + 1 = wait
        /\ age[n] = Unset => age'[n] = Unset
        /\ age[n] # Unset => age'[n] <= age[n] + 1
    <3>1. WatchType
      BY DEF Types
    <3>2. /\ WatchType' /\ wait' + 1 = wait
          /\ \A m \in Node : age[m] = Unset => age'[m] = Unset
          /\ \A m \in Node : age[m] # Unset => age'[m] <= age[m] + 1
      BY <1>3, <3>1, AgesType
    <3> QED BY <3>2
  <2>1. /\ age[n] # Unset /\ age'[n] \in Nat /\ age'[n] <= age[n] + 1
        /\ wait' + 1 = wait /\ wait' \in Nat
    BY <2>0, PeriodType DEF WatchType
  <2>2. Slack' = Slack /\ watched' = watched /\ reported' = reported
    BY <1>3 DEF Tick, Slack
  <2> QED BY <1>0, <1>3, <2>1, <2>2 DEF InTime, Tick
<1>4. CASE Pass
  <2> SUFFICES ASSUME NEW n \in Node, age'[n] # Unset, ~reported'[n]
               PROVE  age'[n] + wait' + Slack' <=
                         OfflineAfter + IF watched'[n] THEN 0 ELSE 2 * Period
    BY <1>0, <1>4 DEF InTime, Pass
  <2>1. /\ age' = age /\ wait = 0 /\ wait' = Period /\ Slack' = Slack
        /\ age[n] \in Nat /\ Slack <= Period
    BY <1>0, <1>4 DEF Pass, Slack
  <2>2. ~reported[n] /\ (Online(n) \/ watched[n]) /\ watched'[n] = ~Online(n)
    BY <1>4, <2>1 DEF Pass
  <2>3. Online(n)
    BY <1>0, <2>1, <2>2 DEF InTime, Online
  <2>4. age[n] <= OfflineAfter
    BY <2>3 DEF Online
  <2>5. ~watched'[n]
    BY <2>2, <2>3
  <2> QED BY <1>0, <2>1, <2>4, <2>5
<1>5. CASE PassFails
  <2> SUFFICES ASSUME NEW n \in Node, age'[n] # Unset, ~reported'[n]
               PROVE  age'[n] + wait' + Slack' <=
                         OfflineAfter + IF watched'[n] THEN 0 ELSE 2 * Period
    BY <1>0, <1>2, <1>5 DEF InTime, PassFails
  <2>1. /\ UNCHANGED <<age, watched, reported>> /\ wait = 0 /\ wait' = Period
        /\ Slack = Period /\ Slack' = 0
    BY <1>2, <1>5 DEF PassFails
  <2> QED BY <1>0, <2>1 DEF InTime
<1>6. CASE RestartApi
  <2> SUFFICES ASSUME NEW n \in Node, age'[n] # Unset, ~reported'[n]
               PROVE  age'[n] + wait' + Slack' <=
                         OfflineAfter + IF watched'[n] THEN 0 ELSE 2 * Period
    BY <1>0, <1>2, <1>6 DEF InTime, RestartApi
  <2>1. /\ UNCHANGED <<age, reported>> /\ ~watched'[n] /\ wait' = Period
        /\ Slack = Period /\ Slack' = 0
    BY <1>2, <1>6 DEF RestartApi
  <2>2. age[n] + wait + Slack <= OfflineAfter + 2 * Period
    BY <1>0, <2>1 DEF InTime
  <2> QED BY <1>0, <2>1, <2>2
<1>7. ASSUME NEW m \in Node, Heartbeat(m) PROVE InTime'
  <2> SUFFICES ASSUME NEW n \in Node, age'[n] # Unset, ~reported'[n]
               PROVE  age'[n] + wait' + Slack' <=
                         OfflineAfter + IF watched'[n] THEN 0 ELSE 2 * Period
    BY <1>0, <1>7 DEF InTime, Heartbeat
  <2>1. wait' = wait /\ watched' = watched /\ Slack' = Slack
    BY <1>7 DEF Heartbeat, Slack
  <2>2. IF n = m THEN age'[n] = 0 ELSE age'[n] = age[n] /\ reported'[n] = reported[n]
    BY <1>7 DEF Heartbeat, Types, WatchType
  <2> QED BY <1>0, <1>1, <2>1, <2>2 DEF InTime
<1>8. ASSUME NEW m \in Node, Reenroll(m) PROVE InTime'
  <2> SUFFICES ASSUME NEW n \in Node, age'[n] # Unset, ~reported'[n]
               PROVE  age'[n] + wait' + Slack' <=
                         OfflineAfter + IF watched'[n] THEN 0 ELSE 2 * Period
    BY <1>0, <1>2, <1>8 DEF InTime, Reenroll
  <2>1. wait' = wait /\ watched' = watched /\ Slack' <= Slack /\ Slack' \in Nat
    BY <1>0, <1>2, <1>8 DEF Reenroll
  <2>2. n # m /\ age'[n] = age[n] /\ reported'[n] = reported[n]
    BY <1>8 DEF Reenroll, Types, WatchType
  <2> QED BY <1>0, <2>1, <2>2 DEF InTime
<1>9. ASSUME UNCHANGED watch, faults' \in {faults, faults + 1}, faults' <= MaxFaults
      PROVE  InTime'
  BY <1>9, ClockStays DEF Types
<1>10. CASE UNCHANGED <<watch, faults>>
  BY <1>0, <1>9, <1>10
<1>11. CASE UNCHANGED watch /\ Fault
  BY <1>2, <1>9, <1>11 DEF Fault
<1>12. CASE UNCHANGED vars
  BY <1>10, <1>12 DEF vars
<1>13. CASE PollFails \/ RefreshPath403 \/ \E s \in Severity : Poll(s) \/ PollUnsaved(s)
  BY <1>10, <1>11, <1>13 DEF PollFails, RefreshPath403, Poll, PollUnsaved, Polls
<1>14. CASE Analysis
  BY <1>10, <1>14 DEF Analysis, Idles, Ask, Tell, Answers, Insights, Concluded
<1>15. CASE Unsaved \/ RestartDashboard
  BY <1>11, <1>15 DEF Unsaved, RestartDashboard, Insights
<1>16. CASE Weather \/ \E on \in BOOLEAN : Switch(on)
  BY <1>10, <1>16 DEF Weather, Switch, Turn
<1> QED BY <1>3, <1>4, <1>5, <1>6, <1>7, <1>8, <1>12, <1>13, <1>14, <1>15, <1>16
        DEF Next, Polling

(* While at most one thing fails, a node that has been silent for two periods  *)
(* of the watch has been announced since its last heartbeat; and if passes may *)
(* fail, NODE_OFFLINE_AFTER is at least twice the shortest period (30 seconds; *)
(* the default is 120).  Below that a node that comes back for a moment while  *)
(* a pass fails is still on record as offline when it has gone again.          *)
THEOREM TheOfflineIsTold ==
    ASSUME MaxFaults <= 1, MaxFaults = 0 \/ Shortest <= OfflineAfter \div 2
    PROVE  Spec => []OfflineIsTold
<1>1. Types /\ InTime => OfflineIsTold
  <2> SUFFICES ASSUME Types, InTime, NEW n \in Node, age[n] = Silent, ~reported[n]
               PROVE  FALSE
    BY DEF OfflineIsTold
  <2>1. /\ age[n] \in Nat /\ age[n] # Unset /\ wait \in Nat /\ Slack \in Nat
        /\ Period \in Nat /\ OfflineAfter \in Nat
    BY PeriodType, AlertsAssumption DEF Types, WatchType, Slack
  <2>2. age[n] <= OfflineAfter + 2 * Period
    BY <2>1 DEF InTime
  <2> QED BY <2>1, <2>2 DEF Silent
<1>2. Types /\ Episode /\ InTime /\ [Next]_vars => Types' /\ Episode' /\ InTime'
  BY StepKeeps, InTimeStep
<1> QED BY <1>1, <1>2, InitTypes, InitEpisode, InTimeInit, PTL DEF Spec
=============================================================================
