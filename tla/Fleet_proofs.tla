---------------------------- MODULE Fleet_proofs ----------------------------
(***************************************************************************)
(* Theorems about Fleet, and about the executor over it (Autoban), for     *)
(* every value of their constants.                                         *)
(***************************************************************************)
EXTENDS Autoban, WellFoundedInduction, TLAPS

-----------------------------------------------------------------------------
(* The inductive invariant.                                                *)

(* An id without a URL is not registered at all. *)
RegOK == \A b \in Backend : reg[b].host = Unset => reg[b] = None

(* The URL in use is the active back end's, the environment's, or typed in. *)
Pointed ==
    \/ config.url \in {HomeHost} \cup hand
    \/ active \in Registered /\ config.url = reg[active].host

(* A writer that makes no write leaves nothing of the last one. *)
IdleOK == \A w \in Writer : Busy(w) \/ job[w] = Idle

(* Two writes in flight know of the addresses they have in common. *)
RacedOK ==
    \A u, w \in Writer : u # w => job[u].ips \cap job[w].ips \subseteq job[u].raced

(* What a write has done on the hosts it has been to, to the addresses that  *)
(* are its own: as long as it may yet be answered ok.                        *)
Sure(j) == j.ips \ (j.raced \cup j.skipped)
Done(w, h, i) ==
    /\ job[w].op = "unblock" => bans[h][i] = "none"
    /\ job[w].op \in Banning /\ job[w].all /\ job[w].ttl = "forever" => bans[h][i] = "forever"
DoneOK ==
    \A w \in Writer : ~job[w].missed =>
        \A i \in Sure(job[w]), h \in job[w].hosts \ job[w].left :
            Done(w, h, i)

(* What was answered before has been taken back where a write undoes it. *)
TakenBack ==
    \A w \in Writer : \A i \in job[w].ips :
        /\ kept[i] = {}
        /\ job[w].op \in Banning => freed[i] = {}

AnswersOK == UnblockIsEverywhere /\ BroadcastIsEverywhere
WritesOK == IdleOK /\ RacedOK /\ DoneOK /\ TakenBack /\ AnswersOK
PlaceOK == RegOK /\ RestartKeeps /\ Pointed
-----------------------------------------------------------------------------
(* The registry and the settings.                                          *)
UrlOrNone == Host \cup {Unset}
Override == [url : UrlOrNone, token : UrlOrNone]
RegType ==
    /\ reg \in [Backend -> [host : UrlOrNone, token : UrlOrNone]]
    /\ active \in Registered \cup {Unset}
    /\ override \in Override
    /\ config \in [url : Host, token : Host]
    /\ hand \subseteq UrlOrNone
    /\ changes \in Nat
Place == RegType /\ PlaceOK

LEMMA AppliedFields ==
    ASSUME NEW o \in Override
    PROVE  Applied(o) = [url |-> IF o.url = Unset THEN HomeHost ELSE o.url,
                         token |-> IF o.token = Unset THEN HomeHost ELSE o.token]
BY DEF Applied, Env, Override

LEMMA PlaceInit == Init => Place
<1> SUFFICES ASSUME Init PROVE Place
  OBVIOUS
<1> USE FleetAssumption
<1>1. RegType
  BY DEF Init, RegType, NoOverride, Env, Override, UrlOrNone
<1>2. RegOK
  BY DEF Init, RegOK, None
<1>3. config = Applied(override)
  <2>1. NoOverride \in Override
    BY DEF NoOverride, Override, UrlOrNone
  <2> QED BY <2>1, AppliedFields DEF Init, NoOverride, Env
<1>4. Pointed
  BY DEF Init, Pointed, Env
<1> QED BY <1>1, <1>2, <1>3, <1>4 DEF Place, PlaceOK, RestartKeeps

(* _set_active_backend sets the override and what is in use alike. *)
LEMMA PointMoves ==
    ASSUME Place, NEW b \in Registered, Point(b)
    PROVE  /\ override' \in Override
           /\ config' \in [url : Host, token : Host]
           /\ config' = Applied(override')
           /\ config'.url = reg[b].host
<1>1. reg[b].host \in Host /\ reg[b].token \in UrlOrNone
  BY DEF Place, PlaceOK, RegOK, RegType, Registered, UrlOrNone
<1>2. /\ override' = [url |-> reg[b].host,
                      token |-> IF reg[b].token = Unset THEN override.token ELSE reg[b].token]
      /\ config' = [url |-> reg[b].host,
                    token |-> IF reg[b].token = Unset THEN config.token ELSE reg[b].token]
  BY DEF Point
<1>3. /\ override' \in Override
      /\ config' \in [url : Host, token : Host]
  BY <1>1, <1>2 DEF Place, RegType, Override, UrlOrNone
<1>4. config.token = IF override.token = Unset THEN HomeHost ELSE override.token
  BY AppliedFields DEF Place, PlaceOK, RestartKeeps, RegType
<1>5. config' = Applied(override')
  BY <1>1, <1>2, <1>3, <1>4, AppliedFields, FleetAssumption DEF UrlOrNone
<1> QED BY <1>2, <1>3, <1>5

LEMMA PlaceCounts ==
    Place /\ UNCHANGED <<reg, active, override, config, hand>> /\ changes' \in Nat => Place'
BY DEF Place, RegType, PlaceOK, RegOK, RestartKeeps, Pointed, Registered, Applied, None, Env

LEMMA PlaceStays == Place /\ UNCHANGED registry => Place'
BY PlaceCounts DEF registry, Place, RegType

LEMMA RegisterPlace ==
    ASSUME Place, NEW b \in Backend, NEW h \in At[b], NEW t \in BOOLEAN, Register(b, h, t)
    PROVE  Place'
<1>1. /\ reg' = [reg EXCEPT ![b] = [host |-> h, token |-> IF t THEN h ELSE reg[b].token]]
      /\ hand' = hand \cup ({reg[b].host} \ {h, Unset})
      /\ active' = active /\ override' = override /\ config' = config
      /\ changes' = changes + 1
  BY DEF Register, Change, Place, RegType
<1>2. h \in Host /\ h # Unset
  BY FleetAssumption
<1>3. reg' \in [Backend -> [host : UrlOrNone, token : UrlOrNone]] /\ RegOK'
  BY <1>1, <1>2 DEF Place, RegType, PlaceOK, RegOK, UrlOrNone, None
<1>4. Registered' = Registered \cup {b}
  BY <1>1, <1>2, <1>3 DEF Registered, None, Place, RegType
<1>5. RegType'
  BY <1>1, <1>3, <1>4 DEF Place, RegType, UrlOrNone
<1>6. RestartKeeps'
  BY <1>1 DEF Place, PlaceOK, RestartKeeps, Applied, Env
<1>7. Pointed'
  <2>1. CASE config.url \in {HomeHost} \cup hand
    BY <1>1, <2>1 DEF Pointed
  <2>2. CASE active \in Registered /\ active # b /\ config.url = reg[active].host
    BY <1>1, <1>4, <2>2 DEF Pointed, Place, RegType, Registered
  <2>3. CASE active = b /\ config.url = reg[b].host
    <3>1. config.url \in Host /\ config.url # Unset
      BY FleetAssumption DEF Place, RegType
    <3>2. reg'[b].host = h
      BY <1>1 DEF Place, RegType
    <3> QED BY <1>1, <1>4, <2>3, <3>1, <3>2 DEF Pointed
  <2> QED BY <2>1, <2>2, <2>3 DEF Place, PlaceOK, Pointed
<1> QED BY <1>3, <1>5, <1>6, <1>7 DEF Place, PlaceOK

LEMMA ActivatePlace ==
    ASSUME Place, NEW b \in Backend, Activate(b)
    PROVE  Place'
<1>1. /\ b \in Registered /\ Point(b) /\ active' = b
      /\ reg' = reg /\ hand' = hand /\ changes' = changes + 1
  BY DEF Activate, Change
<1>2. Registered' = Registered /\ RegOK'
  BY <1>1 DEF Registered, RegOK, Place, PlaceOK, None
<1>3. RegType'
  BY <1>1, <1>2, PointMoves DEF Place, RegType
<1>4. RestartKeeps'
  BY <1>1, PointMoves DEF RestartKeeps, Applied, Env
<1>5. Pointed'
  BY <1>1, <1>2, PointMoves DEF Pointed
<1> QED BY <1>2, <1>3, <1>4, <1>5 DEF Place, PlaceOK

LEMMA UnregisterPlace ==
    ASSUME Place, NEW b \in Backend, Unregister(b)
    PROVE  Place'
<1>1. /\ b \in Registered /\ reg' = [reg EXCEPT ![b] = None]
      /\ hand' = hand /\ changes' = changes + 1
  BY DEF Unregister, Drop, Change
<1>2. reg' \in [Backend -> [host : UrlOrNone, token : UrlOrNone]] /\ RegOK'
  BY <1>1 DEF Place, RegType, PlaceOK, RegOK, UrlOrNone, None
<1>3. Registered' = Registered \ {b}
  BY <1>1 DEF Registered, Place, RegType
<1>4. \A c \in Registered \ {b} : reg'[c] = reg[c]
  BY <1>1 DEF Registered, Place, RegType
<1>5. CASE active # b /\ UNCHANGED <<active, override, config>>
  <2>1. RegType'
    BY <1>1, <1>2, <1>3, <1>5 DEF Place, RegType
  <2>2. RestartKeeps'
    BY <1>5 DEF Place, PlaceOK, RestartKeeps, Applied, Env
  <2>3. Pointed'
    BY <1>1, <1>3, <1>4, <1>5 DEF Place, PlaceOK, Pointed
  <2> QED BY <1>2, <2>1, <2>2, <2>3 DEF Place, PlaceOK
<1>6. ASSUME NEW c \in Registered \ {b}, active' = c, Point(c) PROVE Place'
  <2>1. RegType'
    BY <1>1, <1>2, <1>3, <1>6, PointMoves DEF Place, RegType
  <2>2. RestartKeeps'
    BY <1>6, PointMoves DEF RestartKeeps, Applied, Env
  <2>3. Pointed'
    BY <1>3, <1>4, <1>6, PointMoves DEF Pointed
  <2> QED BY <1>2, <2>1, <2>2, <2>3 DEF Place, PlaceOK
<1>7. CASE active' = Unset /\ override' = NoOverride /\ config' = Env
  <2>1. NoOverride \in Override
    BY DEF NoOverride, Override, UrlOrNone
  <2>2. RegType'
    BY <1>1, <1>2, <1>7, <2>1, FleetAssumption DEF Place, RegType, Env
  <2>3. config' = Applied(override')
    BY <1>7, <2>1, AppliedFields DEF NoOverride, Env
  <2>4. RestartKeeps'
    BY <2>3 DEF RestartKeeps, Applied, Env
  <2>5. Pointed'
    BY <1>7 DEF Pointed, Env
  <2> QED BY <1>2, <2>2, <2>4, <2>5 DEF Place, PlaceOK
<1> QED BY <1>5, <1>6, <1>7 DEF Unregister

LEMMA ConfigurePlace ==
    ASSUME Place, NEW u \in UrlOrNone, NEW t \in UrlOrNone, Configure(u, t)
    PROVE  Place'
<1> USE FleetAssumption
<1>1. /\ override' = [url |-> u, token |-> IF t = Unset THEN override.token ELSE t]
      /\ config' = [url |-> IF u = Unset THEN HomeHost ELSE u,
                    token |-> IF t = Unset THEN config.token ELSE t]
      /\ hand' = hand \cup {u} /\ reg' = reg /\ active' = active
      /\ changes' = changes + 1
  BY DEF Configure, Change, Env
<1>2. /\ override' \in Override
      /\ config' \in [url : Host, token : Host]
  BY <1>1 DEF Place, RegType, Override, UrlOrNone
<1>3. config.token = IF override.token = Unset THEN HomeHost ELSE override.token
  BY AppliedFields DEF Place, PlaceOK, RestartKeeps, RegType
<1>4. config' = Applied(override')
  BY <1>1, <1>2, <1>3, AppliedFields
<1>5. Registered' = Registered /\ RegOK'
  BY <1>1 DEF Registered, RegOK, Place, PlaceOK, None
<1>6. RegType'
  BY <1>1, <1>2, <1>5 DEF Place, RegType
<1>7. RestartKeeps'
  BY <1>4 DEF RestartKeeps, Applied, Env
<1>8. Pointed'
  BY <1>1 DEF Pointed
<1> QED BY <1>5, <1>6, <1>7, <1>8 DEF Place, PlaceOK

LEMMA PlaceStep == Place /\ [Next]_vars => Place'
<1> SUFFICES ASSUME Place, [Next]_vars PROVE Place'
  OBVIOUS
<1>1. CASE Administer
  BY <1>1, RegisterPlace, ActivatePlace, UnregisterPlace, ConfigurePlace
  DEF Administer, UrlOrNone
<1>2. CASE Operate
  <2>1. UNCHANGED registry
    BY <1>2 DEF Operate, Unblock, Block, ThreadBlock, Start
  <2> QED BY <2>1, PlaceStays
<1>3. ASSUME NEW w \in Writer, Serve(w) PROVE Place'
  <2>1. UNCHANGED registry
    BY <1>3 DEF Serve, Answer, Call, CallFails, Called
  <2> QED BY <2>1, PlaceStays
<1>4. CASE Environment
  <2>1. UNCHANGED registry
    BY <1>4 DEF Environment, AnswerLost, Called, GoDown, ComeUp, Expire, IndexAges
  <2> QED BY <2>1, PlaceStays
<1>5. CASE Restart
  <2>1. UNCHANGED registry
    BY <1>5 DEF Restart, Place, PlaceOK, RestartKeeps, registry
  <2> QED BY <2>1, PlaceStays
<1>6. CASE UNCHANGED vars
  <2>1. UNCHANGED registry
    BY <1>6 DEF vars
  <2> QED BY <2>1, PlaceStays
<1> QED BY <1>1, <1>2, <1>3, <1>4, <1>5, <1>6 DEF Next

(* Fleet!RestartKeeps: what the dashboard points at survives a restart,      *)
(* whatever was activated, deleted and typed in, for any registry.           *)
THEOREM ARestartKeeps == Spec => []RestartKeeps
BY PlaceInit, PlaceStep, PTL DEF Spec, Place, PlaceOK

(* Fleet!NotStranded: deleting back ends never leaves the dashboard on the   *)
(* URL of one that is gone.                                                  *)
THEOREM NeverStranded == Spec => []NotStranded
<1>1. Place => NotStranded
  <2> SUFFICES ASSUME Place PROVE NotStranded
    OBVIOUS
  <2>1. \A b \in Registered : HostOf(b) = reg[b].host
    BY FleetAssumption DEF Registered, HostOf
  <2> QED BY <2>1 DEF Place, PlaceOK, Pointed, NotStranded
<1> QED BY <1>1, PlaceInit, PlaceStep, PTL DEF Spec
-----------------------------------------------------------------------------
(* The writes.                                                             *)
Job == [op : Banning \cup {"none", "unblock"}, ips : SUBSET Ip, ttl : Lifetime, all : BOOLEAN,
        hosts : SUBSET Host, left : SUBSET Host, missed : BOOLEAN, skipped : SUBSET Ip,
        raced : SUBSET Ip]
WriteType ==
    /\ up \subseteq Host
    /\ index = Unset \/ index \subseteq (Id \X Name)
    /\ bans \in [Host -> [Ip -> Lifetime]]
    /\ job \in [Writer -> Job]
    /\ kept \in [Ip -> SUBSET Host] /\ freed \in [Ip -> SUBSET Host]
    /\ requests \in Nat /\ faults \in Nat
Writes == WriteType /\ WritesOK

LEMMA TypeParts == RegType /\ WriteType => TypeOK
BY DEF RegType, WriteType, TypeOK, Override, UrlOrNone, Job

LEMMA FleetHosts == Place => \A b \in Fleet : b \in Id /\ HostOf(b) \in Host
<1> SUFFICES ASSUME Place, NEW b \in Fleet PROVE b \in Id /\ HostOf(b) \in Host
  OBVIOUS
<1>1. CASE b = Home
  BY <1>1, FleetAssumption DEF HostOf, Id
<1>2. CASE b \in Registered /\ b # Home
  BY <1>2 DEF HostOf, Id, Registered, Place, PlaceOK, RegOK, RegType, UrlOrNone
<1> QED BY <1>1, <1>2 DEF Fleet

LEMMA WritesInit == Init => Writes
<1> SUFFICES ASSUME Init PROVE Writes
  OBVIOUS
<1> USE FleetAssumption
<1>1. Idle \in Job
  BY DEF Idle, Job, Lifetime
<1>2. WriteType
  BY <1>1 DEF Init, WriteType, Lifetime
<1>3. IdleOK /\ RacedOK /\ DoneOK /\ TakenBack
  BY DEF Init, Idle, IdleOK, RacedOK, DoneOK, TakenBack
<1>4. AnswersOK
  BY DEF Init, AnswersOK, UnblockIsEverywhere, BroadcastIsEverywhere
<1> QED BY <1>2, <1>3, <1>4 DEF Writes, WritesOK

(* The jobs after a write has started. *)
Started(w, op, ips, ttl, names, ids) ==
    [op |-> op, ips |-> ips, ttl |-> ttl, all |-> names = {},
     hosts |-> {HostOf(b) : b \in Fleet},
     left |-> {HostOf(b) : b \in (ids \cap Fleet) \cap Keyed},
     missed |-> (ids \cap Fleet) = {} \/ ~((ids \cap Fleet) \subseteq Keyed), skipped |-> {},
     raced |-> UNION {job[u].ips : u \in Writer \ {w}}]

LEMMA StartJobs ==
    ASSUME Writes, NEW w \in Writer, NEW op, NEW ips, NEW ttl, NEW names, NEW ids,
           Start(w, op, ips, ttl, names, ids)
    PROVE  /\ job'[w] = Started(w, op, ips, ttl, names, ids)
           /\ \A v \in Writer \ {w} :
                 job'[v] = IF Busy(v) THEN [job[v] EXCEPT !.raced = @ \cup ips] ELSE Idle
           /\ job' = [v \in Writer |-> job'[v]]
           /\ kept' = [i \in Ip |-> IF i \in ips THEN {} ELSE kept[i]]
           /\ freed' = [i \in Ip |-> IF i \in ips /\ op \in Banning THEN {} ELSE freed[i]]
           /\ ~Busy(w)
           /\ UNCHANGED <<registry, up, faults, bans>>
<1> DEFINE new == Started(w, op, ips, ttl, names, ids)
           other(v) == [job[v] EXCEPT !.raced = @ \cup ips]
<1>1. job' = [v \in Writer |-> CASE v = w -> new [] v # w /\ Busy(v) -> other(v) [] OTHER -> Idle]
  BY DEF Start, Started
<1> HIDE DEF new, other
<1>2. /\ job'[w] = new /\ job' = [v \in Writer |-> job'[v]]
      /\ \A v \in Writer \ {w} : job'[v] = IF Busy(v) THEN other(v) ELSE Idle
  BY <1>1
<1>3. /\ kept' = [i \in Ip |-> IF i \in ips THEN {} ELSE kept[i]]
      /\ freed' = [i \in Ip |-> IF i \in ips /\ op \in Banning THEN {} ELSE freed[i]]
      /\ ~Busy(w)
      /\ UNCHANGED <<registry, up, faults, bans>>
  BY DEF Start
<1> QED BY <1>2, <1>3 DEF new, other

(* What a write leaves of the others' jobs, but for what they raced with. *)
LEMMA StartOthers ==
    ASSUME Writes, NEW w \in Writer, NEW op, NEW ips \in SUBSET Ip, NEW ttl, NEW names, NEW ids,
           Start(w, op, ips, ttl, names, ids), NEW v \in Writer, v # w
    PROVE  /\ job'[v] \in Job
           /\ job'[v].op = job[v].op /\ job'[v].ips = job[v].ips /\ job'[v].ttl = job[v].ttl
           /\ job'[v].all = job[v].all /\ job'[v].hosts = job[v].hosts
           /\ job'[v].left = job[v].left /\ job'[v].missed = job[v].missed
           /\ job'[v].skipped = job[v].skipped
           /\ job[v].raced \subseteq job'[v].raced
           /\ job[v].ips \cap ips \subseteq job'[v].raced
           /\ Busy(v) \/ job'[v] = Idle
<1>1. job[v] \in Job
  BY DEF Writes, WriteType
<1>2. CASE Busy(v)
  <2> DEFINE raced == job[v].raced \cup ips
  <2>1. job'[v] = [job[v] EXCEPT !.raced = raced]
    BY <1>2, StartJobs
  <2>2. raced \in SUBSET Ip
    BY <1>1 DEF Job
  <2> HIDE DEF raced
  <2>3. /\ job'[v] \in Job /\ job'[v].raced = raced
        /\ job'[v].op = job[v].op /\ job'[v].ips = job[v].ips /\ job'[v].ttl = job[v].ttl
        /\ job'[v].all = job[v].all /\ job'[v].hosts = job[v].hosts
        /\ job'[v].left = job[v].left /\ job'[v].missed = job[v].missed
        /\ job'[v].skipped = job[v].skipped
    BY <1>1, <2>1, <2>2 DEF Job
  <2> QED BY <1>2, <2>3 DEF raced
<1>3. CASE ~Busy(v)
  <2>1. job'[v] = Idle /\ job[v] = Idle
    BY <1>3, StartJobs DEF Writes, WritesOK, IdleOK
  <2> QED BY <1>1, <2>1 DEF Idle
<1> QED BY <1>2, <1>3

LEMMA StartWrites ==
    ASSUME Place, Writes, NEW w \in Writer, NEW op \in Banning \cup {"unblock"},
           NEW ips \in SUBSET Ip, NEW ttl \in Lifetime, NEW names, NEW ids,
           op = "unblock" \/ names = {} => ids = Fleet,
           Start(w, op, ips, ttl, names, ids)
    PROVE  /\ job' \in [Writer -> Job]
           /\ kept' \in [Ip -> SUBSET Host] /\ freed' \in [Ip -> SUBSET Host]
           /\ WritesOK'
<1> DEFINE new == Started(w, op, ips, ttl, names, ids)
<1>1. /\ job'[w] = new
      /\ kept' = [i \in Ip |-> IF i \in ips THEN {} ELSE kept[i]]
      /\ freed' = [i \in Ip |-> IF i \in ips /\ op \in Banning THEN {} ELSE freed[i]]
      /\ bans' = bans
      /\ job' = [v \in Writer |-> job'[v]]
  BY StartJobs
<1>2. new \in Job
  <2>1. \A b \in Fleet : HostOf(b) \in Host
    BY FleetHosts
  <2>2. \A u \in Writer : job[u].ips \subseteq Ip
    BY DEF Writes, WriteType, Job
  <2> QED BY <2>1, <2>2 DEF Started, Job
<1>3. /\ new.op = op /\ new.ips = ips /\ new.ttl = ttl /\ new.all = (names = {})
      /\ \A u \in Writer \ {w} : job[u].ips \subseteq new.raced
  BY DEF Started
<1>4. ~new.missed /\ (op = "unblock" \/ names = {}) => new.hosts \subseteq new.left
  <2> SUFFICES ASSUME ~new.missed, ids = Fleet PROVE new.hosts \subseteq new.left
    OBVIOUS
  <2> QED BY DEF Started
<1> HIDE DEF new
<1>5. job' \in [Writer -> Job]
  BY <1>1, <1>2, StartOthers
<1>6. kept' \in [Ip -> SUBSET Host] /\ freed' \in [Ip -> SUBSET Host]
  BY <1>1 DEF Writes, WriteType
<1>7. IdleOK'
  <2>1. Busy(w)'
    BY <1>1, <1>3 DEF Busy, Banning
  <2>2. \A v \in Writer \ {w} : Busy(v)' \/ job'[v] = Idle
    BY StartOthers DEF Busy
  <2> QED BY <2>1, <2>2 DEF IdleOK, Idle
<1>8. RacedOK'
  <2> SUFFICES ASSUME NEW u \in Writer, NEW v \in Writer, u # v
               PROVE  job'[u].ips \cap job'[v].ips \subseteq job'[u].raced
    BY DEF RacedOK
  <2>1. CASE u = w
    <3>1. v \in Writer \ {w} /\ job'[v].ips = job[v].ips
      BY <2>1, StartOthers
    <3>2. job[v].ips \subseteq new.raced
      BY <1>3, <3>1
    <3> QED BY <1>1, <2>1, <3>1, <3>2
  <2>2. CASE v = w
    BY <1>1, <1>3, <2>2, StartOthers
  <2>3. CASE u # w /\ v # w
    <3>1. job[u].ips \cap job[v].ips \subseteq job[u].raced
      BY DEF Writes, WritesOK, RacedOK
    <3> QED BY <2>3, <3>1, StartOthers
  <2> QED BY <2>1, <2>2, <2>3
<1>9. DoneOK'
  <2> SUFFICES ASSUME NEW v \in Writer, ~job'[v].missed,
                      NEW i \in Sure(job'[v]),
                      NEW h \in job'[v].hosts \ job'[v].left
               PROVE  Done(v, h, i)'
    BY DEF DoneOK, Done, Sure
  <2>1. CASE v = w
    BY <1>1, <1>3, <1>4, <2>1 DEF Done
  <2>2. CASE v # w
    <3>1. /\ ~job[v].missed /\ i \in Sure(job[v])
          /\ h \in job[v].hosts \ job[v].left
      BY <2>2, StartOthers DEF Sure
    <3>2. Done(v, h, i)
      BY <3>1 DEF Writes, WritesOK, DoneOK
    <3> QED BY <1>1, <2>2, <3>2, StartOthers DEF Done
  <2> QED BY <2>1, <2>2
<1>10. TakenBack'
  <2> SUFFICES ASSUME NEW v \in Writer, NEW i \in job'[v].ips
               PROVE  kept'[i] = {} /\ (job'[v].op \in Banning => freed'[i] = {})
    BY DEF TakenBack
  <2>1. CASE v = w
    BY <1>1, <1>3, <2>1
  <2>2. CASE v # w
    <3>1. i \in job[v].ips /\ job'[v].op = job[v].op
      BY <2>2, StartOthers
    <3>2. i \in Ip /\ kept[i] = {} /\ (job[v].op \in Banning => freed[i] = {})
      BY <3>1 DEF Writes, WritesOK, TakenBack, WriteType, Job
    <3> QED BY <1>1, <3>1, <3>2
  <2> QED BY <2>1, <2>2
<1>11. AnswersOK'
  BY <1>1 DEF Writes, WritesOK, AnswersOK, UnblockIsEverywhere, BroadcastIsEverywhere
<1> QED BY <1>5, <1>6, <1>7, <1>8, <1>9, <1>10, <1>11 DEF WritesOK
(* The call of one host: the write it belongs to has been there. *)
LEMMA CallWrites ==
    ASSUME Writes, NEW w \in Writer, NEW h \in Host, NEW missed \in BOOLEAN,
           NEW skipped \in SUBSET Ip, Called(w, h, missed, skipped), faults' \in Nat,
           \/ bans' = Effect(w, h) /\ (missed \/ Skips(w, h) \subseteq skipped)
           \/ UNCHANGED bans /\ missed
    PROVE  Writes'
<1>1. /\ h \in job[w].left /\ job[w] \in Job
      /\ job' = [job EXCEPT ![w].left = @ \ {h}, ![w].missed = @ \/ missed,
                            ![w].skipped = @ \cup skipped]
      /\ up' = up /\ index' = index /\ kept' = kept /\ freed' = freed /\ requests' = requests
  BY DEF Called, answers, Writes, WriteType
<1>2. Busy(w)
  BY <1>1 DEF Writes, WritesOK, IdleOK, Idle
<1>3. /\ job' \in [Writer -> Job]
      /\ \A v \in Writer : /\ job'[v].op = job[v].op /\ job'[v].ips = job[v].ips
                           /\ job'[v].ttl = job[v].ttl /\ job'[v].all = job[v].all
                           /\ job'[v].hosts = job[v].hosts /\ job'[v].raced = job[v].raced
      /\ \A v \in Writer \ {w} : job'[v] = job[v]
      /\ job'[w].left = job[w].left \ {h}
      /\ job'[w].missed = (job[w].missed \/ missed)
      /\ job'[w].skipped = job[w].skipped \cup skipped
  <2>1. job' = [job EXCEPT ![w] = [job[w] EXCEPT !.left = @ \ {h}, !.missed = @ \/ missed,
                                                !.skipped = @ \cup skipped]]
    BY <1>1 DEF Writes, WriteType
  <2> DEFINE left == job[w].left \ {h}
             miss == job[w].missed \/ missed
             j1 == [job[w] EXCEPT !.left = left]
             skips == job[w].skipped \cup skipped
             j2 == [j1 EXCEPT !.missed = miss]
             j3 == [j2 EXCEPT !.skipped = skips]
  <2>2. job' = [job EXCEPT ![w] = j3]
    BY <2>1
  <2>3. left \in SUBSET Host /\ miss \in BOOLEAN /\ skips \in SUBSET Ip
    BY <1>1 DEF Job
  <2> HIDE DEF left, miss, skips
  <2>4. /\ j2 \in Job /\ j2.left = left /\ j2.missed = miss
        /\ j2.op = job[w].op /\ j2.ips = job[w].ips /\ j2.ttl = job[w].ttl
        /\ j2.all = job[w].all /\ j2.hosts = job[w].hosts /\ j2.raced = job[w].raced
    BY <1>1, <2>3 DEF Job
  <2> HIDE DEF j1, j2
  <2>7. /\ j3 \in Job /\ j3.left = left /\ j3.missed = miss /\ j3.skipped = skips
        /\ j3.op = job[w].op /\ j3.ips = job[w].ips /\ j3.ttl = job[w].ttl
        /\ j3.all = job[w].all /\ j3.hosts = job[w].hosts /\ j3.raced = job[w].raced
    BY <2>3, <2>4 DEF Job
  <2> HIDE DEF j3
  <2>5. job'[w] = j3 /\ \A v \in Writer \ {w} : job'[v] = job[v]
    BY <2>2 DEF Writes, WriteType
  <2>6. job' \in [Writer -> Job]
    BY <2>2, <2>7 DEF Writes, WriteType
  <2> QED BY <2>5, <2>6, <2>7 DEF left, miss, skips
(* What the call changes: its own addresses on this host, as the write says. *)
<1>4. /\ bans' \in [Host -> [Ip -> Lifetime]]
      /\ \A k \in Host, i \in Ip : k # h \/ i \notin job[w].ips => bans'[k][i] = bans[k][i]
      /\ \A i \in job[w].ips :
            \/ bans'[h][i] = IF job[w].op \in Banning THEN job[w].ttl ELSE "none"
            \/ (missed \/ i \in skipped) /\ bans'[h][i] = bans[h][i]
  <2>1. CASE UNCHANGED bans /\ missed
    BY <2>1 DEF Writes, WriteType, Job
  <2>2. CASE bans' = Effect(w, h) /\ (missed \/ Skips(w, h) \subseteq skipped)
    <3>1. job[w].ttl \in Lifetime /\ "none" \in Lifetime /\ job[w].ips \subseteq Ip
      BY <1>1 DEF Job, Lifetime
    <3>2. bans' = [bans EXCEPT ![h] = [i \in Ip |->
                     IF i \notin job[w].ips \ Skips(w, h) THEN bans[h][i]
                     ELSE IF job[w].op \in Banning THEN job[w].ttl ELSE "none"]]
      BY <2>2 DEF Effect, Writes, WriteType
    <3> QED BY <2>2, <3>1, <3>2 DEF Writes, WriteType
  <2> QED BY <2>1, <2>2
<1>5. ASSUME NEW k \in Host, NEW i \in Ip, bans'[k][i] # bans[k][i]
      PROVE  k = h /\ i \in job[w].ips
  BY <1>4, <1>5
<1>6. IdleOK' /\ RacedOK' /\ TakenBack'
  <2>1. IdleOK'
    BY <1>2, <1>3 DEF Writes, WritesOK, IdleOK, Busy
  <2> QED BY <1>1, <1>3, <2>1 DEF Writes, WritesOK, RacedOK, TakenBack
<1>7. DoneOK'
  <2> SUFFICES ASSUME NEW v \in Writer, ~job'[v].missed,
                      NEW i \in Sure(job'[v]),
                      NEW k \in job'[v].hosts \ job'[v].left
               PROVE  Done(v, k, i)'
    BY DEF DoneOK, Sure
  <2>1. i \in Ip /\ k \in Host /\ i \in Sure(job[v]) /\ i \notin job'[v].skipped
    BY <1>3 DEF Job, Sure
  <2>2. CASE v = w /\ k = h
    BY <1>3, <1>4, <2>1, <2>2 DEF Done, Sure, Banning
  <2>3. CASE v = w /\ k # h
    <3>1. Done(w, k, i)
      BY <1>3, <2>1, <2>3 DEF Writes, WritesOK, DoneOK
    <3> QED BY <1>3, <1>4, <2>1, <2>3, <3>1 DEF Done, Sure
  <2>4. CASE v # w
    <3>1. Done(v, k, i)
      BY <1>3, <2>1, <2>4 DEF Writes, WritesOK, DoneOK
    <3>2. i \notin job[w].ips
      BY <2>1, <2>4 DEF Writes, WritesOK, RacedOK, Sure
    <3> QED BY <1>3, <1>4, <2>1, <2>4, <3>1, <3>2 DEF Done
  <2> QED BY <2>2, <2>3, <2>4
<1>8. AnswersOK'
  <2> SUFFICES ASSUME NEW i \in Ip, NEW k \in Host
               PROVE  /\ k \in freed[i] => bans'[k][i] = "none"
                      /\ k \in kept[i] => bans'[k][i] = "forever"
    BY <1>1 DEF AnswersOK, UnblockIsEverywhere, BroadcastIsEverywhere
  <2>1. /\ k \in freed[i] => bans[k][i] = "none"
        /\ k \in kept[i] => bans[k][i] = "forever"
    BY DEF Writes, WritesOK, AnswersOK, UnblockIsEverywhere, BroadcastIsEverywhere
  <2>2. CASE bans'[k][i] = bans[k][i]
    BY <2>1, <2>2
  <2>3. CASE bans'[k][i] # bans[k][i]
    <3>1. k = h /\ i \in job[w].ips
      BY <1>5, <2>3
    <3>2. kept[i] = {} /\ (job[w].op \in Banning => freed[i] = {})
      BY <3>1 DEF Writes, WritesOK, TakenBack
    <3>3. job[w].op \notin Banning => bans'[k][i] = "none"
      BY <1>4, <2>3, <3>1
    <3> QED BY <3>2, <3>3
  <2> QED BY <2>2, <2>3
<1>9. WriteType'
  BY <1>1, <1>3, <1>4 DEF Writes, WriteType
<1> QED BY <1>6, <1>7, <1>8, <1>9 DEF Writes, WritesOK
LEMMA AnswerWrites ==
    ASSUME Writes, NEW w \in Writer, Answer(w)
    PROVE  Writes'
<1> DEFINE j == job[w]
           sure == IF Ok(j) THEN j.ips \ (j.raced \cup j.skipped) ELSE {}
<1>1. /\ j \in Job /\ Busy(w) /\ j.left = {}
      /\ job' = [job EXCEPT ![w] = Idle]
      /\ kept' = [i \in Ip |-> IF i \in sure /\ j.op \in Banning /\ j.all /\ j.ttl = "forever"
                              THEN j.hosts ELSE kept[i]]
      /\ freed' = [i \in Ip |-> IF i \in sure /\ j.op = "unblock" THEN j.hosts ELSE freed[i]]
      /\ UNCHANGED <<up, faults, bans, index, requests>>
  BY DEF Answer, Writes, WriteType
<1>2. \A i \in sure : i \in Sure(j) /\ i \in j.ips \ j.raced /\ ~j.missed
  BY DEF Ok, Sure
<1> HIDE DEF sure, j
<1>3. /\ Idle \in Job /\ Idle.op = "none" /\ Idle.ips = {}
  BY DEF Idle, Job, Lifetime
<1>4. /\ job'[w] = Idle /\ \A v \in Writer \ {w} : job'[v] = job[v]
      /\ job' \in [Writer -> Job]
  BY <1>1, <1>3 DEF Writes, WriteType
<1>5. WriteType'
  BY <1>1, <1>4 DEF Writes, WriteType, Job
<1>6. IdleOK' /\ RacedOK'
  BY <1>3, <1>4 DEF Writes, WritesOK, IdleOK, RacedOK, Busy
<1>7. DoneOK'
  BY <1>1, <1>3, <1>4 DEF Writes, WritesOK, DoneOK, Done, Sure
<1>8. TakenBack'
  <2> SUFFICES ASSUME NEW v \in Writer, NEW i \in job'[v].ips
               PROVE  kept'[i] = {} /\ (job'[v].op \in Banning => freed'[i] = {})
    BY DEF TakenBack
  <2>1. v # w /\ job'[v] = job[v]
    BY <1>3, <1>4
  <2>2. i \in Ip /\ kept[i] = {} /\ (job[v].op \in Banning => freed[i] = {})
    BY <2>1 DEF Writes, WritesOK, TakenBack, WriteType, Job
  <2>3. i \notin sure
    <3>1. i \in j.ips => i \in j.raced
      BY <2>1 DEF Writes, WritesOK, RacedOK, j
    <3> QED BY <1>2, <3>1
  <2> QED BY <1>1, <2>1, <2>2, <2>3
<1>9. AnswersOK'
  <2> SUFFICES ASSUME NEW i \in Ip, NEW h \in Host
               PROVE  /\ h \in freed'[i] => bans[h][i] = "none"
                      /\ h \in kept'[i] => bans[h][i] = "forever"
    BY <1>1 DEF AnswersOK, UnblockIsEverywhere, BroadcastIsEverywhere
  <2>1. /\ h \in freed[i] => bans[h][i] = "none"
        /\ h \in kept[i] => bans[h][i] = "forever"
    BY DEF Writes, WritesOK, AnswersOK, UnblockIsEverywhere, BroadcastIsEverywhere
  <2>2. i \in sure /\ h \in j.hosts => Done(w, h, i)
    BY <1>1, <1>2 DEF Writes, WritesOK, DoneOK, j
  <2> QED BY <1>1, <2>1, <2>2 DEF Done, j
<1> QED BY <1>5, <1>6, <1>7, <1>8, <1>9 DEF Writes, WritesOK

(* What the index and a write take from the answers in /targets. *)
LEMMA LookedType ==
    ASSUME Place, Writes, NEW names, Looked(names)
    PROVE  index' = Unset \/ index' \subseteq (Id \X Name)
<1>1. \A b \in Answering : b \in Id /\ Owns[HostOf(b)] \subseteq Name
  BY FleetHosts, FleetAssumption DEF Answering
<1>2. index # Unset \/ Seen \subseteq (Id \X Name)
  BY <1>1 DEF Seen
<1> QED BY <1>2 DEF Looked, Seen, Writes, WriteType

(* A write that starts, whoever asked for it. *)
LEMMA AWriteStarts ==
    ASSUME Place, Writes, NEW w \in Writer, NEW op \in Banning \cup {"unblock"},
           NEW ips \in SUBSET Ip, NEW ttl \in Lifetime, NEW names, NEW ids,
           op = "unblock" \/ names = {} => ids = Fleet,
           Start(w, op, ips, ttl, names, ids), requests' \in Nat,
           Looked(names) \/ UNCHANGED index
    PROVE  Writes'
<1>1. UNCHANGED <<up, faults, bans>>
  BY DEF Start
<1>2. index' = Unset \/ index' \subseteq (Id \X Name)
  BY LookedType DEF Writes, WriteType
<1>3. /\ job' \in [Writer -> Job] /\ kept' \in [Ip -> SUBSET Host]
      /\ freed' \in [Ip -> SUBSET Host] /\ WritesOK'
  BY StartWrites
<1> QED BY <1>1, <1>2, <1>3 DEF Writes, WriteType

LEMMA OperateWrites ==
    ASSUME Place, Writes, Operate
    PROVE  Writes'
<1>1. Request => requests' \in Nat
  BY DEF Request, Writes, WriteType
<1>2. Route({}) = Fleet /\ "loop" \in Writer /\ {"temp", "forever", "none"} \subseteq Lifetime
  BY FleetAssumption DEF Route, Lifetime
<1>3. ASSUME NEW ips \in SUBSET Ip, Unblock(ips) PROVE Writes'
  BY <1>1, <1>2, <1>3, AWriteStarts DEF Unblock, Banning
<1>4. ASSUME NEW ips \in SUBSET Ip, NEW ttl \in {"temp", "forever"}, NEW names \in SUBSET Name,
             NEW op \in Banning, Block(op, ips, ttl, names)
      PROVE  Writes'
  BY <1>1, <1>2, <1>4, AWriteStarts DEF Block, Banning
<1>5. ASSUME NEW ips \in SUBSET Ip, NEW ttl \in {"temp", "forever"}, NEW names \in SUBSET Name,
             NEW w \in Writer, ThreadBlock(w, ips, ttl, names)
      PROVE  Writes'
  BY <1>1, <1>2, <1>5, AWriteStarts DEF ThreadBlock, Banning
<1> QED BY <1>3, <1>4, <1>5, FleetAssumption DEF Operate

(* The steps that touch neither a job nor an answer. *)
LEMMA QuietWrites ==
    ASSUME Writes, UNCHANGED <<job, kept, freed>>,
           up' \subseteq Host, index' = Unset \/ UNCHANGED index,
           requests' \in Nat, faults' \in Nat,
           bans' \in [Host -> [Ip -> Lifetime]],
           \A h \in Host, i \in Ip :
              bans[h][i] \in {"none", "forever"} => bans'[h][i] = bans[h][i]
    PROVE  Writes'
<1>1. WriteType'
  BY DEF Writes, WriteType
<1>2. IdleOK' /\ RacedOK' /\ TakenBack'
  BY DEF Writes, WritesOK, IdleOK, RacedOK, TakenBack, Busy
<1>3. DoneOK'
  BY DEF Writes, WritesOK, WriteType, DoneOK, Done, Job, Sure
<1>4. AnswersOK'
  BY DEF Writes, WritesOK, WriteType, AnswersOK, UnblockIsEverywhere, BroadcastIsEverywhere
<1> QED BY <1>1, <1>2, <1>3, <1>4 DEF Writes, WritesOK

LEMMA ExpireBans ==
    ASSUME Writes, NEW k \in Host, NEW j \in Ip, Expire(k, j)
    PROVE  /\ bans' \in [Host -> [Ip -> Lifetime]]
           /\ \A h \in Host, i \in Ip :
                 bans[h][i] \in {"none", "forever"} => bans'[h][i] = bans[h][i]
<1>1. bans[k][j] = "temp" /\ bans' = [bans EXCEPT ![k] = [bans[k] EXCEPT ![j] = "none"]]
  BY DEF Expire, Writes, WriteType
<1>2. [bans[k] EXCEPT ![j] = "none"] \in [Ip -> Lifetime]
  BY DEF Writes, WriteType, Lifetime
<1> QED BY <1>1, <1>2 DEF Writes, WriteType

LEMMA RestartWrites ==
    ASSUME Writes, Restart
    PROVE  Writes'
<1>1. Idle \in Job /\ Idle.ips = {}
  BY DEF Idle, Job, Lifetime
<1>2. /\ job' = [w \in Writer |-> Idle] /\ index' = Unset /\ faults' \in Nat
      /\ up' = up /\ bans' = bans /\ kept' = kept /\ freed' = freed /\ requests' = requests
  BY DEF Restart, Fault, answers, Writes, WriteType
<1>3. WriteType'
  BY <1>1, <1>2 DEF Writes, WriteType
<1>4. IdleOK' /\ RacedOK' /\ DoneOK' /\ TakenBack'
  BY <1>1, <1>2 DEF IdleOK, RacedOK, DoneOK, TakenBack, Sure
<1>5. AnswersOK'
  BY <1>2 DEF Writes, WritesOK, AnswersOK, UnblockIsEverywhere, BroadcastIsEverywhere
<1> QED BY <1>3, <1>4, <1>5 DEF Writes, WritesOK

LEMMA WritesStep == Place /\ Writes /\ [Next]_vars => Writes'
<1> SUFFICES ASSUME Place, Writes, [Next]_vars PROVE Writes'
  OBVIOUS
<1>1. CASE UNCHANGED <<up, faults, bans, writing>>
  BY <1>1, QuietWrites DEF writing, answers, Writes, WriteType
<1>2. CASE Administer
  <2>1. UNCHANGED <<up, faults, bans, writing>>
    BY <1>2 DEF Administer, Register, Activate, Unregister, Drop, Configure, Change
  <2> QED BY <1>1, <2>1
<1>3. CASE Operate
  BY <1>3, OperateWrites
<1>4. ASSUME NEW w \in Writer, NEW h \in Host, Call(w, h) \/ CallFails(w, h) PROVE Writes'
  <2>1. faults' \in Nat
    BY <1>4 DEF Call, CallFails, Writes, WriteType
  <2>2. CASE Call(w, h)
    <3>1. Skips(w, h) \in SUBSET Ip /\ (job[w].op = "block" /\ Skips(w, h) # {}) \in BOOLEAN
      BY FleetAssumption DEF Skips
    <3> QED BY <2>1, <2>2, <3>1, CallWrites DEF Call
  <2>3. CASE CallFails(w, h)
    <3>1. TRUE \in BOOLEAN /\ {} \in SUBSET Ip
      OBVIOUS
    <3>2. Called(w, h, TRUE, {}) /\ UNCHANGED bans
      BY <2>3 DEF CallFails
    <3> QED BY <2>1, <3>1, <3>2, CallWrites
  <2> QED BY <1>4, <2>2, <2>3
<1>5. ASSUME NEW w \in Writer, NEW h \in Host, AnswerLost(w, h) PROVE Writes'
  <2>1. faults' \in Nat
    BY <1>5 DEF AnswerLost, Fault, Writes, WriteType
  <2>2. TRUE \in BOOLEAN /\ {} \in SUBSET Ip
    OBVIOUS
  <2>3. Called(w, h, TRUE, {}) /\ bans' = Effect(w, h)
    BY <1>5 DEF AnswerLost
  <2> QED BY <2>1, <2>2, <2>3, CallWrites
<1>6. ASSUME NEW w \in Writer, Answer(w) PROVE Writes'
  BY <1>6, AnswerWrites
<1>7. ASSUME NEW h \in Host, GoDown(h) \/ ComeUp(h) PROVE Writes'
  <2>1. up' \subseteq Host /\ faults' \in Nat
    BY <1>7 DEF GoDown, ComeUp, Fault, Writes, WriteType
  <2> QED BY <1>7, <2>1, QuietWrites DEF GoDown, ComeUp, writing, answers, Writes, WriteType
<1>8. ASSUME NEW h \in Host, NEW i \in Ip, Expire(h, i) PROVE Writes'
  BY <1>8, ExpireBans, QuietWrites DEF Expire, writing, answers, Writes, WriteType
<1>9. CASE IndexAges
  BY <1>9, QuietWrites DEF IndexAges, answers, Writes, WriteType
<1>10. CASE Restart
  BY <1>10, RestartWrites
<1> QED BY <1>1, <1>2, <1>3, <1>4, <1>5, <1>6, <1>7, <1>8, <1>9, <1>10
        DEF Next, Serve, Environment, vars

(* Fleet!TypeOK, for any registry, hosts and writers. *)
THEOREM TypeCorrect == Spec => []TypeOK
<1>1. Place /\ Writes => TypeOK
  BY TypeParts DEF Place, Writes
<1> QED BY <1>1, PlaceInit, PlaceStep, WritesInit, WritesStep, PTL DEF Spec

(* Fleet!UnblockIsEverywhere: a release that was answered ok holds on every  *)
(* back end until somebody bans again, for any number of back ends and of    *)
(* threads that write at the same time, and under every fault.               *)
THEOREM AReleaseIsEverywhere == Spec => []UnblockIsEverywhere
<1>1. Writes => UnblockIsEverywhere
  BY DEF Writes, WritesOK, AnswersOK
<1> QED BY <1>1, PlaceInit, PlaceStep, WritesInit, WritesStep, PTL DEF Spec

(* Fleet!BroadcastIsEverywhere: so does a ban for ever that names no group,  *)
(* of every address the answer does not report as skipped.                   *)
THEOREM ABroadcastIsEverywhere == Spec => []BroadcastIsEverywhere
<1>1. Writes => BroadcastIsEverywhere
  BY DEF Writes, WritesOK, AnswersOK
<1> QED BY <1>1, PlaceInit, PlaceStep, WritesInit, WritesStep, PTL DEF Spec
-----------------------------------------------------------------------------
(* The fleet with the executor of automatic bans and feeds (Autoban).      *)
RulesOK == rules \in [Rule -> RuleForm \cup {NoRule}]
Switches == armed \in BOOLEAN /\ escalate \in BOOLEAN /\ feeds \in BOOLEAN /\ due \in BOOLEAN
Counts == offences \in [Ip -> 0..Len(Ladder)]
Plans == tick \in [pc : {"sleep", "ban"}, plan : SUBSET Batch]
Bans == RulesOK /\ Switches /\ Counts /\ Plans

LEMMA LadderSteps ==
    Len(Ladder) \in Nat /\ \A n \in 1..Len(Ladder) : Ladder[n] \in {"temp", "forever"}
BY AutobanAssumption

LEMMA LeastRule ==
    ASSUME NEW S \in SUBSET Rule, S # {}
    PROVE  \E r \in S : \A s \in S : r <= s
<1> DEFINE Less == OpToRel(<, Nat)
<1>1. S \subseteq Nat
  BY AutobanAssumption
<1>2. \A x, y \in Nat : x < y => <<x, y>> \in Less
  BY DEF OpToRel
<1>3. IsWellFoundedOn(Less, Nat)
  BY NatLessThanWellFounded, Zenon
<1> HIDE DEF Less
<1>4. PICK r \in S : \A s \in S : ~(<<s, r>> \in Less)
  BY <1>1, <1>3, WFMin, Zenon
<1>5. ASSUME NEW s \in S PROVE r <= s
  <2>1. r \in Nat /\ s \in Nat
    BY <1>1, <1>4
  <2>2. ~(s < r)
    BY <1>2, <1>4, <2>1, Zenon
  <2> QED BY <2>1, <2>2
<1> QED BY <1>5

(* An address in the plan has an enabled rule it matches. *)
LEMMA RuleOfCandidate ==
    ASSUME NEW failed \in SUBSET Rule, NEW i \in Candidates(failed)
    PROVE  RuleOf(i, failed) \in Enabled
<1> DEFINE Matching == {r \in Enabled \ failed : i \in Matches[r]}
<1>1. Matching \in SUBSET Rule /\ Matching # {}
  BY DEF Candidates, Enabled
<1>2. RuleOf(i, failed) = CHOOSE r \in Matching : \A s \in Matching : r <= s
  BY DEF RuleOf
<1> HIDE DEF Matching
<1>3. RuleOf(i, failed) \in Matching
  BY <1>1, <1>2, LeastRule
<1> QED BY <1>3 DEF Matching

(* What the settings become: a rule keeps its form whatever is left out. *)
LEMMA ManageKeeps ==
    ASSUME Place, Writes, Bans, Manage
    PROVE  Place' /\ Writes' /\ Bans'
<1>1. /\ UNCHANGED <<reg, active, override, config, hand, up, faults, bans, writing, executor>>
      /\ changes' = changes + 1
  BY DEF Manage, CreateRule, UpdateRule, ToggleRule, DeleteRule, Arm, Escalate, SaveFeeds,
         Setting, Change
<1>2. Place'
  BY <1>1, PlaceCounts DEF Place, RegType
<1>3. Writes'
  BY <1>1, QuietWrites DEF writing, answers, Writes, WriteType
<1>4. Counts' /\ Plans' /\ due' \in BOOLEAN
  BY <1>1 DEF executor, Bans, Counts, Plans, Switches
<1>5. ASSUME NEW r \in Rule, NEW f \in RuleForm \cup {NoRule}, rules' = [rules EXCEPT ![r] = f]
      PROVE  RulesOK'
  BY <1>5 DEF Bans, RulesOK
<1>6. ASSUME NEW rule \in RuleForm, NEW names \in SUBSET Name
      PROVE  [rule EXCEPT !.names = names] \in RuleForm
  BY DEF RuleForm
<1>7. ASSUME NEW rule \in RuleForm, NEW on \in BOOLEAN
      PROVE  [rule EXCEPT !.on = on] \in RuleForm
  BY DEF RuleForm
<1>8. \A r \in Rule : rules[r] # NoRule => rules[r] \in RuleForm /\ rules[r].names \in SUBSET Name
  BY DEF Bans, RulesOK, RuleForm
<1>9. ASSUME NEW r \in Rule, NEW rule \in NewRules, NEW given \in BOOLEAN,
             CreateRule(r, rule, given) \/ UpdateRule(r, rule, given)
      PROVE  RulesOK' /\ UNCHANGED <<armed, escalate, feeds>>
  <2>1. rule \in RuleForm
    BY AutobanAssumption
  <2>2. CASE CreateRule(r, rule, given)
    <3>1. (IF given THEN rule ELSE [rule EXCEPT !.names = {}]) \in RuleForm
      BY <1>6, <2>1
    <3> QED BY <1>5, <2>2, <3>1 DEF CreateRule
  <2>3. CASE UpdateRule(r, rule, given)
    <3>1. rules[r] # NoRule /\ rules' = [rules EXCEPT ![r] = Attached(r, rule, given)]
      BY <2>3 DEF UpdateRule
    <3>2. Attached(r, rule, given) \in RuleForm
      BY <1>6, <1>8, <2>1, <3>1 DEF Attached
    <3> QED BY <1>5, <2>3, <3>1, <3>2 DEF UpdateRule
  <2> QED BY <1>9, <2>2, <2>3
<1>10. ASSUME NEW r \in Rule, NEW on \in BOOLEAN, ToggleRule(r, on)
       PROVE  RulesOK' /\ UNCHANGED <<armed, escalate, feeds>>
  <2>1. rules[r] # NoRule /\ rules' = [rules EXCEPT ![r] = [rules[r] EXCEPT !.on = on]]
    BY <1>10 DEF ToggleRule, Bans, RulesOK
  <2>2. [rules[r] EXCEPT !.on = on] \in RuleForm
    BY <1>7, <1>8, <2>1
  <2> QED BY <1>5, <1>10, <2>1, <2>2 DEF ToggleRule
<1>11. ASSUME NEW r \in Rule, DeleteRule(r)
       PROVE  RulesOK' /\ UNCHANGED <<armed, escalate, feeds>>
  BY <1>5, <1>11 DEF DeleteRule
<1>12. ASSUME NEW on \in BOOLEAN, Arm(on) \/ Escalate(on) \/ SaveFeeds(on)
       PROVE  RulesOK' /\ armed' \in BOOLEAN /\ escalate' \in BOOLEAN /\ feeds' \in BOOLEAN
  BY <1>12 DEF Arm, Escalate, SaveFeeds, Bans, RulesOK, Switches
<1>13. RulesOK' /\ armed' \in BOOLEAN /\ escalate' \in BOOLEAN /\ feeds' \in BOOLEAN
  BY <1>9, <1>10, <1>11, <1>12 DEF Manage, Bans, Switches
<1> QED BY <1>2, <1>3, <1>4, <1>13 DEF Bans, Switches

(* A plan: every batch is of an enabled rule's lifetime, or the ladder's. *)
LEMMA PlanKeeps ==
    ASSUME Writes, Bans, NEW failed \in SUBSET Rule, Plan(failed)
    PROVE  Writes' /\ Bans'
<1>1. PICK todo \in Chosen(failed) :
         LET Key(i) == [ttl |-> LifeOf(i, RuleOf(i, failed)),
                        names |-> rules[RuleOf(i, failed)].names]
         IN  /\ offences' = Bumped(todo)
             /\ tick' = [pc |-> "ban",
                         plan |-> {[ips |-> {i \in todo : Key(i) = k}, ttl |-> k.ttl,
                                    names |-> k.names] : k \in {Key(i) : i \in todo}}]
  BY DEF Plan
<1> DEFINE Key(i) == [ttl |-> LifeOf(i, RuleOf(i, failed)),
                      names |-> rules[RuleOf(i, failed)].names]
           batches == {[ips |-> {i \in todo : Key(i) = k}, ttl |-> k.ttl,
                        names |-> k.names] : k \in {Key(i) : i \in todo}}
<1>2. /\ UNCHANGED <<up, bans, writing, settings, due>>
      /\ faults' \in Nat
  BY DEF Plan, Fault, Writes, WriteType
<1>3. todo \in SUBSET Candidates(failed) /\ Candidates(failed) \subseteq Ip
  BY AutobanAssumption DEF Chosen, Candidates, Enabled
<1>4. Counts'
  <2>1. \A i \in Ip : (IF i \in todo /\ escalate /\ offences[i] < Len(Ladder)
                       THEN offences[i] + 1 ELSE offences[i]) \in 0..Len(Ladder)
    BY LadderSteps DEF Bans, Counts
  <2> QED BY <1>1, <2>1 DEF Bumped, Counts
<1>5. ASSUME NEW i \in todo
      PROVE  Key(i) \in [ttl : {"temp", "forever"}, names : SUBSET Name]
  <2> DEFINE r == RuleOf(i, failed)
  <2>1. r \in Rule /\ rules[r].on
    BY <1>3, RuleOfCandidate DEF Enabled
  <2>2. rules[r] \in RuleForm
    BY <2>1 DEF Bans, RulesOK, NoRule
  <2>3. rules[r].ttl \in {"temp", "forever"} /\ rules[r].names \in SUBSET Name
    BY <2>2 DEF RuleForm
  <2>4. i \in Ip
    BY <1>3
  <2> HIDE DEF r
  <2>5. offences'[i] \in 0..Len(Ladder)
    BY <1>4, <2>4 DEF Counts
  <2>6. LifeOf(i, r) \in {"temp", "forever"}
    BY <2>3, <2>5, LadderSteps DEF LifeOf, Step
  <2> QED BY <2>3, <2>6 DEF r
<1> HIDE DEF Key
<1>6. batches \in SUBSET Batch
  <2> SUFFICES ASSUME NEW j \in todo, NEW b,
                      b = [ips |-> {i \in todo : Key(i) = Key(j)}, ttl |-> Key(j).ttl,
                           names |-> Key(j).names]
               PROVE  b \in Batch
    OBVIOUS
  <2>1. {i \in todo : Key(i) = Key(j)} \in SUBSET Ip
    BY <1>3
  <2> QED BY <1>5, <2>1 DEF Batch
<1>7. tick' = [pc |-> "ban", plan |-> batches]
  BY <1>1 DEF Key
<1> HIDE DEF batches
<1>8. Plans'
  BY <1>6, <1>7 DEF Plans
<1>9. Writes'
  BY <1>2, QuietWrites DEF writing, answers, Writes, WriteType
<1>10. RulesOK' /\ Switches'
  BY <1>2 DEF settings, Bans, RulesOK, Switches
<1> QED BY <1>4, <1>8, <1>9, <1>10 DEF Bans

(* The writes of the executor are writes like any other. *)
LEMMA WriteKeeps ==
    ASSUME Place, Writes, Bans, NEW b \in tick.plan, Write(b)
    PROVE  Writes' /\ Bans'
<1>1. /\ b \in Batch /\ tick \in [pc : {"sleep", "ban"}, plan : SUBSET Batch]
  BY DEF Bans, Plans
<1>2. /\ b.ips \in SUBSET Ip /\ b.ttl \in Lifetime
  BY <1>1 DEF Batch, Lifetime
<1>3. "executor" \in Writer /\ (b.names = {} => Route(b.names) = Fleet)
  BY AutobanAssumption DEF Route
<1>4. /\ Start("executor", "bulk", b.ips, b.ttl, b.names, Route(b.names))
      /\ Looked(b.names) /\ requests' = requests
      /\ tick' = [tick EXCEPT !.plan = tick.plan \ {b}]
      /\ UNCHANGED <<settings, offences, due>>
  BY DEF Write
<1>5. Writes'
  <2>1. requests' \in Nat
    BY <1>4 DEF Writes, WriteType
  <2> QED BY <1>2, <1>3, <1>4, <2>1, AWriteStarts DEF Banning
<1>6. Plans'
  BY <1>1, <1>4 DEF Plans
<1> QED BY <1>4, <1>5, <1>6 DEF settings, Bans, RulesOK, Switches, Counts

LEMMA FeedKeeps ==
    ASSUME Place, Writes, Bans, Refresh \/ FetchFails \/ NotDue \/ Disarmed
    PROVE  Writes' /\ Bans'
<1>1. RulesOK' /\ Counts' /\ Switches'
  BY DEF Refresh, FetchFails, NotDue, Disarmed, FeedDone, settings, Bans, RulesOK, Switches, Counts
<1>2. Plans'
  <2>1. Asleep \in [pc : {"sleep", "ban"}, plan : SUBSET Batch]
    BY DEF Asleep
  <2>2. [Asleep EXCEPT !.pc = "ban"] \in [pc : {"sleep", "ban"}, plan : SUBSET Batch]
    BY <2>1
  <2> QED BY <2>1, <2>2 DEF Refresh, FetchFails, NotDue, Disarmed, FeedDone, Plans
<1>3. CASE Refresh
  <2>1. /\ "executor" \in Writer /\ Refreshed \in SUBSET Ip /\ "fed2" \in Lifetime
        /\ (FeedNames = {} => Route(FeedNames) = Fleet)
    BY AutobanAssumption DEF Refreshed, Lifetime, Route
  <2>2. requests' \in Nat
    BY <1>3 DEF Refresh, Writes, WriteType
  <2>3. /\ Start("executor", "bulk", Refreshed, "fed2", FeedNames, Route(FeedNames))
        /\ Looked(FeedNames)
    BY <1>3 DEF Refresh
  <2>4. Writes'
    BY <2>1, <2>2, <2>3, AWriteStarts DEF Banning
  <2> QED BY <1>1, <1>2, <2>4 DEF Bans
<1>4. CASE FetchFails \/ NotDue \/ Disarmed
  <2>1. UNCHANGED <<up, bans, writing>> /\ faults' \in Nat
    BY <1>4 DEF FetchFails, NotDue, Disarmed, Fault, vars, Writes, WriteType
  <2>2. Writes'
    BY <2>1, QuietWrites DEF writing, answers, Writes, WriteType
  <2> QED BY <1>1, <1>2, <2>2 DEF Bans
<1> QED BY <1>3, <1>4

(* No ban for ever ages, and no release comes undone by time. *)
LEMMA IntervalKeeps ==
    ASSUME Writes, Bans, IntervalPasses
    PROVE  Writes' /\ Bans'
<1>1. /\ bans' = [h \in Host |-> [i \in Ip |-> Older(bans[h][i])]]
      /\ UNCHANGED <<up, faults, writing, settings, offences, tick>> /\ due' = TRUE
  BY DEF IntervalPasses
<1>2. \A life \in Lifetime :
         Older(life) \in Lifetime /\ (life \in {"none", "forever"} => Older(life) = life)
  BY DEF Older, Lifetime
<1>3. /\ bans' \in [Host -> [Ip -> Lifetime]]
      /\ \A h \in Host, i \in Ip :
            bans[h][i] \in {"none", "forever"} => bans'[h][i] = bans[h][i]
  BY <1>1, <1>2 DEF Writes, WriteType
<1>4. Writes'
  BY <1>1, <1>3, QuietWrites DEF writing, answers, Writes, WriteType
<1> QED BY <1>1, <1>4 DEF settings, Bans, RulesOK, Switches, Counts, Plans

LEMMA ForgetKeeps ==
    ASSUME Writes, Bans, NEW i \in Ip, Forget(i)
    PROVE  Writes' /\ Bans'
<1>1. /\ UNCHANGED <<up, bans, writing, settings, due, tick>> /\ faults' \in Nat
      /\ offences' = [offences EXCEPT ![i] = 0]
  BY DEF Forget, Fault, Writes, WriteType
<1>2. Writes'
  BY <1>1, QuietWrites DEF writing, answers, Writes, WriteType
<1>3. Counts'
  BY <1>1, LadderSteps DEF Bans, Counts
<1> QED BY <1>1, <1>2, <1>3 DEF settings, Bans, RulesOK, Switches, Plans

Together == Place /\ Writes /\ Bans

LEMMA TogetherInit == AutobanInit => Together
<1> SUFFICES ASSUME AutobanInit PROVE Together
  OBVIOUS
<1>1. Place /\ Writes
  BY PlaceInit, WritesInit DEF AutobanInit
<1>2. Bans
  BY LadderSteps, AutobanAssumption
  DEF AutobanInit, Asleep, Bans, RulesOK, Switches, Counts, Plans
<1> QED BY <1>1, <1>2 DEF Together

LEMMA TogetherStep == Together /\ [AutobanNext]_allVars => Together'
<1> SUFFICES ASSUME Place, Writes, Bans, [AutobanNext]_allVars PROVE Place' /\ Writes' /\ Bans'
  BY DEF Together
<1>1. CASE Manage
  BY <1>1, ManageKeeps
<1>2. ASSUME NEW failed \in SUBSET Rule, Plan(failed) PROVE Place' /\ Writes' /\ Bans'
  <2>1. UNCHANGED registry
    BY <1>2 DEF Plan
  <2> QED BY <1>2, <2>1, PlaceStays, PlanKeeps
<1>3. ASSUME NEW b \in tick.plan, Write(b) PROVE Place' /\ Writes' /\ Bans'
  <2>1. UNCHANGED registry
    BY <1>3 DEF Write, Start
  <2> QED BY <1>3, <2>1, PlaceStays, WriteKeeps
<1>4. CASE Refresh \/ FetchFails \/ NotDue \/ Disarmed
  <2>1. UNCHANGED registry
    BY <1>4 DEF Refresh, FetchFails, NotDue, Disarmed, Start, vars
  <2> QED BY <1>4, <2>1, PlaceStays, FeedKeeps
<1>5. CASE IntervalPasses
  <2>1. UNCHANGED registry
    BY <1>5 DEF IntervalPasses
  <2> QED BY <1>5, <2>1, PlaceStays, IntervalKeeps
<1>6. ASSUME NEW i \in Ip, Forget(i) PROVE Place' /\ Writes' /\ Bans'
  <2>1. UNCHANGED registry
    BY <1>6 DEF Forget
  <2> QED BY <1>6, <2>1, PlaceStays, ForgetKeeps
<1>7. CASE Reboot
  <2>1. Next
    BY <1>7 DEF Reboot, Next
  <2>2. Bans'
    BY <1>7 DEF Reboot, Asleep, settings, Bans, RulesOK, Switches, Counts, Plans
  <2> QED BY <2>1, <2>2, PlaceStep, WritesStep
<1>8. CASE (Operate \/ (\E w \in Writer : Serve(w)) \/ Environment) /\ UNCHANGED own
  <2>1. Next
    BY <1>8 DEF Next
  <2>2. Bans'
    BY <1>8 DEF own, executor, settings, Bans, RulesOK, Switches, Counts, Plans
  <2> QED BY <2>1, <2>2, PlaceStep, WritesStep
<1>9. CASE UNCHANGED allVars
  <2>1. UNCHANGED vars /\ UNCHANGED own
    BY <1>9 DEF allVars
  <2>2. Bans'
    BY <2>1 DEF own, executor, settings, Bans, RulesOK, Switches, Counts, Plans
  <2> QED BY <2>1, <2>2, PlaceStep, WritesStep
<1> QED BY <1>1, <1>2, <1>3, <1>4, <1>5, <1>6, <1>7, <1>8, <1>9 DEF AutobanNext, Tick

(* Autoban!AutobanTypeOK, for any rules, ladder, feeds and cap: the plan of   *)
(* a tick is made of batches the API takes, whatever rules are edited.        *)
THEOREM AutobanTypeCorrect == AutobanSpec => []AutobanTypeOK
<1>1. Together => AutobanTypeOK
  BY TypeParts DEF Together, Place, Writes, Bans, RulesOK, Switches, Counts, Plans, AutobanTypeOK
<1> QED BY <1>1, TogetherInit, TogetherStep, PTL DEF AutobanSpec

(* What the executor does while operators also edit the registry.  *)
Everything == AutobanNext \/ (Administer /\ UNCHANGED own)

LEMMA EverythingStep == Together /\ [Everything]_allVars => Together'
<1> SUFFICES ASSUME Together, [Everything]_allVars PROVE Together'
  OBVIOUS
<1>1. CASE [AutobanNext]_allVars
  BY <1>1, TogetherStep
<1>2. CASE Administer /\ UNCHANGED own
  <2>1. Next
    BY <1>2 DEF Next
  <2>2. Bans'
    BY <1>2 DEF Together, own, executor, settings, Bans, RulesOK, Switches, Counts, Plans
  <2> QED BY <2>1, <2>2, PlaceStep, WritesStep DEF Together
<1> QED BY <1>1, <1>2 DEF Everything

(* Fleet!UnblockIsEverywhere and Fleet!BroadcastIsEverywhere while the        *)
(* executor bans, escalates and renews the feeds and operators edit rules and *)
(* registry: its writes take back what they change, and no interval that      *)
(* passes touches what was answered.                                          *)
THEOREM TheExecutorKeepsAnswers ==
    AutobanInit /\ [][Everything]_allVars => [](UnblockIsEverywhere /\ BroadcastIsEverywhere)
<1>1. Together => UnblockIsEverywhere /\ BroadcastIsEverywhere
  BY DEF Together, Writes, WritesOK, AnswersOK
<1> QED BY <1>1, TogetherInit, EverythingStep, PTL
=============================================================================
