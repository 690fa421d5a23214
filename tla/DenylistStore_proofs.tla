------------------------ MODULE DenylistStore_proofs ------------------------
(***************************************************************************)
(* Theorems about DenylistStore, for every value of its constants.         *)
(***************************************************************************)
EXTENDS DenylistStore, TLAPS

Ops == {"block", "unblock", "expire", "resync"}

(* A change an operation may carry. *)
ChangeOK(ch) ==
    /\ ch.op \in Ops
    /\ ch.cidrs \subseteq Cidr
    /\ ch.at \in Nat
    /\ ch.at <= now
    /\ ch.op = "block" => /\ ch.cidrs \subseteq Valid
                          /\ ch.ttl \in Ttl
                          /\ \A c \in ch.cidrs : ch.routes[c] \in Routes

JobsOK ==
    /\ job = [p \in Proc |-> job[p]]
    /\ \A p \in Proc : pc[p] # "idle" => ChangeOK(job[p].change)

TypeInv == TypeOK /\ JobsOK

-----------------------------------------------------------------------------
LEMMA EffectType ==
    ASSUME NEW S \in SUBSET Entry, NEW ch, ChangeOK(ch)
    PROVE  Effect(S, ch) \subseteq Entry
<1>1. CASE ch.op = "block"
  <2>1. Without(S, ch.cidrs) \subseteq Entry
    BY DEF Without
  <2>2. \A c \in ch.cidrs :
           [cidr |-> c, ts |-> ch.at, ttl |-> ch.ttl, route |-> ch.routes[c]] \in Entry
    BY <1>1 DEF ChangeOK, Entry
  <2> QED BY <1>1, <2>1, <2>2 DEF Effect
<1>2. CASE ch.op = "unblock"
  BY <1>2 DEF Effect, Without
<1>3. CASE ch.op \notin {"block", "unblock"}
  BY <1>3 DEF Effect, Active
<1> QED BY <1>1, <1>2, <1>3

LEMMA CoverageType ==
    ASSUME NEW S \in SUBSET Entry
    PROVE  Coverage(S) \in SUBSET Addr
BY DEF Coverage, Entry, Addr

LEMMA PlanType ==
    ASSUME NEW S \in SUBSET Entry, NEW ids
    PROVE  PlanFor(S, ids) \in [Target -> SUBSET Addr]
<1>1. \A t \in Target : Coverage(RoutedTo(S, t, ids)) \in SUBSET Addr
  BY CoverageType DEF RoutedTo
<1> QED BY <1>1 DEF PlanFor

(* What the first half of an operation leaves behind. *)
LEMMA BeginType ==
    ASSUME TypeInv, NEW p \in Proc, NEW ch, ChangeOK(ch), Begin(p, ch),
           requests' \in 0..MaxRequests
    PROVE  TypeInv'
<1>1. PICK seen \in SUBSET targets : ReadTargets(seen) /\ Plan(p, ch, seen)
  BY DEF Begin
<1>2. UNCHANGED <<now, store, audit, live, targets, ready, up, todo, err>>
  BY DEF Begin, external
<1>3. faults' \in 0..MaxFaults
  BY <1>1, StoreAssumption DEF ReadTargets, Fault, TypeInv, TypeOK
<1>4. CASE UNCHANGED <<pc, job>>
  BY <1>2, <1>3, <1>4 DEF TypeInv, TypeOK, JobsOK, ChangeOK
<1>5. CASE ~UNCHANGED <<pc, job>>
  <2> DEFINE work == Effect(store, ch)
             act == Active(work, now)
             new == [change |-> ch, work |-> work, plan |-> PlanFor(act, seen),
                     whole |-> Collapsible(act)]
  <2>1. /\ pc' = [pc EXCEPT ![p] = "planned"]
        /\ job' = [job EXCEPT ![p] = new]
    BY <1>1, <1>5 DEF Plan
  <2>2. work \in SUBSET Entry
    BY EffectType DEF TypeInv, TypeOK
  <2>3. act \in SUBSET Entry
    BY <2>2 DEF Active
  <2>4. new.plan \in [Target -> SUBSET Addr]
    BY <2>3, PlanType
  <2>5. new.whole \in BOOLEAN
    BY DEF Collapsible
  <2>6. /\ job' = [q \in Proc |-> job'[q]]
        /\ job'[p] = new
        /\ \A q \in Proc \ {p} : job'[q] = job[q]
    BY <2>1 DEF TypeInv, JobsOK
  <2>7. /\ pc' \in [Proc -> {"idle", "planned", "applying"}]
        /\ \A q \in Proc \ {p} : pc'[q] = pc[q]
    BY <2>1 DEF TypeInv, TypeOK
  <2>8. \A q \in Proc : /\ job'[q].work \subseteq Entry
                        /\ job'[q].plan \in [Target -> SUBSET Addr]
                        /\ job'[q].whole \in BOOLEAN
    <3> SUFFICES ASSUME NEW q \in Proc
                 PROVE  /\ job'[q].work \subseteq Entry
                        /\ job'[q].plan \in [Target -> SUBSET Addr]
                        /\ job'[q].whole \in BOOLEAN
      OBVIOUS
    <3>1. CASE q = p
      BY <2>2, <2>4, <2>5, <2>6, <3>1
    <3>2. CASE q # p
      BY <2>6, <3>2 DEF TypeInv, TypeOK
    <3> QED BY <3>1, <3>2
  <2>9. \A q \in Proc : (pc[q] # "idle" => ChangeOK(job[q].change))'
    <3> SUFFICES ASSUME NEW q \in Proc, pc'[q] # "idle"
                 PROVE  ChangeOK(job[q].change)'
      OBVIOUS
    <3>1. CASE q = p
      BY <1>2, <2>6, <3>1 DEF ChangeOK
    <3>2. CASE q # p
      BY <1>2, <2>6, <2>7, <3>2 DEF TypeInv, JobsOK, ChangeOK
    <3> QED BY <3>1, <3>2
  <2>10. TypeOK'
    BY <1>2, <1>3, <2>7, <2>8 DEF TypeInv, TypeOK, Entry, Event, Addr
  <2> QED BY <2>6, <2>9, <2>10 DEF TypeInv, JobsOK
<1> QED BY <1>4, <1>5

(* Every operation starts with Begin, on a change that is well formed. *)
Starts(p) == Client(p) \/ Prune(p) \/ Resync(p)

(* A prune names every entry it drops. *)
Names(ch) == ch.op = "expire" =>
                \A e \in store \ Active(store, ch.at) : e.cidr \in ch.cidrs

LEMMA StartIsBegin ==
    ASSUME TypeInv, NEW p \in Proc, Starts(p)
    PROVE  \E ch : /\ ChangeOK(ch) /\ Begin(p, ch) /\ Names(ch)
                  /\ requests' \in 0..MaxRequests
<1> USE StoreAssumption
<1>0. requests \in 0..MaxRequests /\ now \in Nat /\ store \subseteq Entry
  BY DEF TypeInv, TypeOK
<1>1. ASSUME NEW c \in Cidr, NEW ttl \in Ttl, NEW g \in Group \cup {NoGroup},
             Block(p, c, ttl, g)
      PROVE  \E ch : /\ ChangeOK(ch) /\ Begin(p, ch) /\ Names(ch)
                    /\ requests' \in 0..MaxRequests
  <2> DEFINE ch == Change("block", {c}, ttl, [x \in {c} |-> [group |-> g]], g)
  <2>1. ChangeOK(ch) /\ Names(ch)
    BY <1>0, <1>1 DEF Block, ChangeOK, Change, Ops, Names
  <2> QED BY <1>0, <1>1, <2>1 DEF Block, Request
<1>2. ASSUME NEW C \in SUBSET Cidr, NEW ttl \in Ttl, NEW routes \in [C -> Routes],
             BlockMany(p, C, ttl, routes)
      PROVE  \E ch : /\ ChangeOK(ch) /\ Begin(p, ch) /\ Names(ch)
                    /\ requests' \in 0..MaxRequests
  <2> DEFINE ch == Change("block", C, ttl, routes, NoGroup)
  <2>1. ChangeOK(ch) /\ Names(ch)
    BY <1>0, <1>2 DEF BlockMany, ChangeOK, Change, Ops, Names
  <2> QED BY <1>0, <1>2, <2>1 DEF BlockMany, Request
<1>3. ASSUME NEW c \in Cidr, Unblock(p, c)
      PROVE  \E ch : /\ ChangeOK(ch) /\ Begin(p, ch) /\ Names(ch)
                    /\ requests' \in 0..MaxRequests
  <2> DEFINE ch == Change("unblock", {c}, 0, <<>>, NoGroup)
  <2>1. ChangeOK(ch) /\ Names(ch)
    BY <1>0 DEF ChangeOK, Change, Ops, Names
  <2> QED BY <1>0, <1>3, <2>1 DEF Unblock, Request
<1>4. CASE ClearAll(p)
  <2> DEFINE ch == Change("unblock", {e.cidr : e \in store}, 0, <<>>, NoGroup)
  <2>1. ChangeOK(ch) /\ Names(ch)
    BY <1>0 DEF ChangeOK, Change, Ops, Entry, Names
  <2> QED BY <1>0, <1>4, <2>1 DEF ClearAll, Request
<1>5. CASE Prune(p)
  <2> DEFINE ch == Change("expire", {e.cidr : e \in store \ Active(store, now)},
                        0, <<>>, NoGroup)
  <2>1. ChangeOK(ch) /\ Names(ch)
    BY <1>0 DEF ChangeOK, Change, Ops, Entry, Names
  <2> QED BY <1>0, <1>5, <2>1 DEF Prune
<1>6. CASE Resync(p)
  <2> DEFINE ch == Change("resync", {}, 0, <<>>, NoGroup)
  <2>1. ChangeOK(ch) /\ Names(ch)
    BY <1>0 DEF ChangeOK, Change, Ops, Names
  <2> QED BY <1>0, <1>6, <2>1 DEF Resync
<1> QED BY <1>1, <1>2, <1>3, <1>4, <1>5, <1>6 DEF Starts, Client

(* The end of an operation, or of its process. *)
LEMMA ReleaseType ==
    ASSUME TypeInv, NEW p \in Proc, Release(p)
    PROVE  /\ pc' \in [Proc -> {"idle", "planned", "applying"}]
           /\ pc'[p] = "idle"
           /\ job' = [q \in Proc |-> job'[q]]
           /\ \A q \in Proc : /\ job'[q].work \subseteq Entry
                              /\ job'[q].plan \in [Target -> SUBSET Addr]
                              /\ job'[q].whole \in BOOLEAN
           /\ \A q \in Proc \ {p} : pc'[q] = pc[q] /\ job'[q] = job[q]
<1>1. /\ NoJob.work \subseteq Entry
      /\ NoJob.plan \in [Target -> SUBSET Addr]
      /\ NoJob.whole \in BOOLEAN
  BY DEF NoJob
<1>2. /\ job' = [q \in Proc |-> job'[q]]
      /\ job'[p] = NoJob
      /\ \A q \in Proc \ {p} : job'[q] = job[q]
  BY DEF Release, TypeInv, JobsOK
<1>3. /\ pc' \in [Proc -> {"idle", "planned", "applying"}]
      /\ pc'[p] = "idle"
      /\ \A q \in Proc \ {p} : pc'[q] = pc[q]
  BY DEF Release, TypeInv, TypeOK
<1>4. ASSUME NEW q \in Proc
      PROVE  /\ job'[q].work \subseteq Entry
             /\ job'[q].plan \in [Target -> SUBSET Addr]
             /\ job'[q].whole \in BOOLEAN
  BY <1>1, <1>2 DEF TypeInv, TypeOK
<1> QED BY <1>2, <1>3, <1>4

LEMMA TypeInit == Init => TypeInv
<1> SUFFICES ASSUME Init PROVE TypeInv
  OBVIOUS
<1> USE StoreAssumption
<1>1. NoJob.work = {} /\ NoJob.plan \in [Target -> SUBSET Addr] /\ NoJob.whole \in BOOLEAN
  BY DEF NoJob
<1>2. NoEvent \in Event
  BY DEF NoEvent, Event
<1>3. TypeOK
  BY <1>1, <1>2 DEF Init, TypeOK
<1>4. JobsOK
  BY DEF Init, JobsOK
<1> QED BY <1>3, <1>4 DEF TypeInv

LEMMA TypeStep == TypeInv /\ [Next]_vars => TypeInv'
<1> SUFFICES ASSUME TypeInv, [Next]_vars PROVE TypeInv'
  OBVIOUS
<1> USE StoreAssumption
<1>1. CASE UNCHANGED vars
  BY <1>1 DEF vars, TypeInv, TypeOK, JobsOK, ChangeOK
<1>2. CASE Tick
  <2>1. now' \in Nat /\ now <= now'
    BY <1>2 DEF Tick, TypeInv, TypeOK
  <2>2. \A q \in Proc : (pc[q] # "idle" => ChangeOK(job[q].change))'
    BY <1>2, <2>1 DEF Tick, external, TypeInv, TypeOK, JobsOK, ChangeOK
  <2>3. TypeOK'
    BY <1>2, <2>1 DEF Tick, external, TypeInv, TypeOK
  <2> QED BY <1>2, <2>2, <2>3 DEF Tick, TypeInv, JobsOK
<1>3. ASSUME NEW t \in Target,
             GoDown(t) \/ ComeUp(t) \/ Wipe(t) \/ ChangeRegistry(t) \/ ChangeToken(t)
      PROVE  TypeInv'
  <2>1. UNCHANGED <<now, store, audit, pc, job, todo, err, requests>>
    BY <1>3 DEF GoDown, ComeUp, Wipe, ChangeRegistry, ChangeToken
  <2>2. live' \in [Target -> SUBSET Addr] /\ faults' \in 0..MaxFaults
    BY <1>3 DEF GoDown, ComeUp, Wipe, ChangeRegistry, ChangeToken, Fault,
                TypeInv, TypeOK
  <2>3. targets' \subseteq Target /\ ready' \subseteq Target /\ up' \subseteq Target
    BY <1>3 DEF GoDown, ComeUp, Wipe, ChangeRegistry, ChangeToken, external,
                TypeInv, TypeOK
  <2> QED BY <2>1, <2>2, <2>3 DEF TypeInv, TypeOK, JobsOK, ChangeOK
<1>4. ASSUME NEW p \in Proc, Starts(p) PROVE TypeInv'
  BY <1>4, StartIsBegin, BeginType
<1>5. ASSUME NEW p \in Proc, OpenTargets(p) PROVE TypeInv'
  <2>1. PICK seen \in SUBSET targets : ReadTargets(seen) /\ todo' = [todo EXCEPT ![p] = seen]
    BY <1>5 DEF OpenTargets
  <2>2. faults' \in 0..MaxFaults /\ todo' \in [Proc -> SUBSET Target]
    BY <2>1 DEF ReadTargets, Fault, TypeInv, TypeOK
  <2>3. pc' \in [Proc -> {"idle", "planned", "applying"}]
        /\ \A q \in Proc : pc'[q] # "idle" => pc[q] # "idle"
    BY <1>5 DEF OpenTargets, TypeInv, TypeOK
  <2>4. UNCHANGED <<now, store, audit, live, targets, ready, up, job, err, requests>>
    BY <1>5 DEF OpenTargets, external
  <2> QED BY <2>2, <2>3, <2>4 DEF TypeInv, TypeOK, JobsOK, ChangeOK
<1>6. ASSUME NEW p \in Proc, NEW t \in Target, ApplyTo(p, t) PROVE TypeInv'
  <2>1. UNCHANGED <<now, store, audit, targets, ready, up, pc, job, requests, faults>>
    BY <1>6 DEF ApplyTo, external
  <2>2. todo' \in [Proc -> SUBSET Target]
    BY <1>6 DEF ApplyTo, TypeInv, TypeOK
  <2>3. err' \in [Proc -> [Target -> {"unknown", "ok", "error"}]]
    <3>1. \E x \in {"ok", "error"} : err' = [err EXCEPT ![p][t] = x]
      BY <1>6 DEF ApplyTo, Visit
    <3> QED BY <3>1 DEF TypeInv, TypeOK
  <2>4. live' \in [Target -> SUBSET Addr]
    BY <1>6 DEF ApplyTo, Visit, Push, TypeInv, TypeOK
  <2> QED BY <2>1, <2>2, <2>3, <2>4 DEF TypeInv, TypeOK, JobsOK, ChangeOK
<1>7. ASSUME NEW p \in Proc,
             Save(p) \/ SaveFails(p) \/ SaveTorn(p) \/ EndUnsaved(p) \/ Crash(p)
      PROVE  TypeInv'
  <2>1. Release(p)
    BY <1>7 DEF Save, SaveFails, SaveTorn, EndUnsaved, Crash
  <2>2. UNCHANGED <<now, live, targets, ready, up, requests>>
    BY <1>7 DEF Save, SaveFails, SaveTorn, EndUnsaved, Crash, external
  <2>3. faults' \in 0..MaxFaults
    BY <1>7 DEF Save, SaveFails, SaveTorn, EndUnsaved, Crash, ReadTargets, Fault, TypeInv, TypeOK
  <2>4. todo' \in [Proc -> SUBSET Target]
    BY <1>7 DEF Save, SaveFails, SaveTorn, EndUnsaved, Crash, TypeInv, TypeOK
  <2>5. err' \in [Proc -> [Target -> {"unknown", "ok", "error"}]]
    BY <1>7 DEF Save, SaveFails, SaveTorn, EndUnsaved, Crash, TypeInv, TypeOK
  <2>6. store' \subseteq Entry
    BY <1>7 DEF Save, SaveFails, SaveTorn, EndUnsaved, Crash, TypeInv, TypeOK
  <2>7. audit' \in [Cidr -> Event]
    <3>1. CASE ~Save(p)
      BY <1>7, <3>1 DEF SaveFails, SaveTorn, EndUnsaved, Crash, TypeInv, TypeOK
    <3>2. CASE Save(p)
      <4>1. PICK seen \in SUBSET targets :
               audit' = [c \in Cidr |-> IF c \in job[p].change.cidrs
                                        THEN EnfResult(p, seen) ELSE audit[c]]
        BY <3>2 DEF Save
      <4>2. job[p].change.op \in {"block", "unblock", "expire"}
        BY <3>2 DEF Save, Done, Saves, TypeInv, JobsOK, ChangeOK, Ops
      <4>3. EnfResult(p, seen) \in Event
        BY <4>2 DEF EnfResult, Event, TypeInv, TypeOK
      <4> QED BY <4>1, <4>3 DEF TypeInv, TypeOK
    <3> QED BY <3>1, <3>2
  <2>8. TypeOK'
    BY <2>1, <2>2, <2>3, <2>4, <2>5, <2>6, <2>7, ReleaseType
    DEF TypeInv, TypeOK, Entry, Event, Addr
  <2>9. JobsOK'
    BY <2>1, <2>2, ReleaseType DEF TypeInv, JobsOK, ChangeOK
  <2> QED BY <2>8, <2>9 DEF TypeInv
<1> QED
  BY <1>1, <1>2, <1>3, <1>4, <1>5, <1>6, <1>7
  DEF Next, Environment, Process, Starts, Client, Work

(* Every variable keeps its type, whatever fails and however many processes  *)
(* share the store.                                                          *)
THEOREM TypeCorrect == Spec => []TypeOK
<1>1. TypeInv => TypeOK
  BY DEF TypeInv
<1> QED BY <1>1, TypeInit, TypeStep, PTL DEF Spec
-----------------------------------------------------------------------------
(***************************************************************************)
(* No address of the allowlist is enforced.                                *)
(***************************************************************************)
Spares(S) == \A e \in S : e.cidr \cap Allowlist = {}

SparingJobs ==
    \A p \in Proc : /\ Spares(job[p].work)
                    /\ \A t \in Target : job[p].plan[t] \cap Allowlist = {}

SparesInv == TypeInv /\ AllowlistSpared /\ Spares(store) /\ SparingJobs

LEMMA EffectSpares ==
    ASSUME NEW S \in SUBSET Entry, Spares(S), NEW ch, ChangeOK(ch)
    PROVE  Spares(Effect(S, ch))
<1>1. CASE ch.op = "block"
  <2>1. Spares(Without(S, ch.cidrs))
    BY DEF Spares, Without
  <2>2. \A c \in ch.cidrs : c \cap Allowlist = {}
    BY <1>1 DEF ChangeOK, Valid
  <2> QED BY <1>1, <2>1, <2>2 DEF Effect, Spares
<1>2. CASE ch.op = "unblock"
  BY <1>2 DEF Effect, Without, Spares
<1>3. CASE ch.op \notin {"block", "unblock"}
  BY <1>3 DEF Effect, Active, Spares
<1> QED BY <1>1, <1>2, <1>3

LEMMA PlanSpares ==
    ASSUME NEW S, Spares(S), NEW ids, NEW t \in Target
    PROVE  PlanFor(S, ids)[t] \cap Allowlist = {}
<1>1. Coverage(RoutedTo(S, t, ids)) \cap Allowlist = {}
  BY DEF Spares, Coverage, RoutedTo
<1> QED BY <1>1 DEF PlanFor

LEMMA ReleaseSpares ==
    ASSUME TypeInv, SparingJobs, NEW p \in Proc, Release(p)
    PROVE  SparingJobs'
<1>1. Spares(NoJob.work) /\ \A t \in Target : NoJob.plan[t] \cap Allowlist = {}
  BY DEF NoJob, Spares
<1>2. job'[p] = NoJob /\ \A q \in Proc \ {p} : job'[q] = job[q]
  BY DEF Release, TypeInv, JobsOK
<1>3. ASSUME NEW q \in Proc
      PROVE  Spares(job'[q].work) /\ \A t \in Target : job'[q].plan[t] \cap Allowlist = {}
  BY <1>1, <1>2 DEF SparingJobs
<1> QED BY <1>3 DEF SparingJobs, Spares

LEMMA SparesStep == SparesInv /\ [Next]_vars => SparesInv'
<1> SUFFICES ASSUME SparesInv, [Next]_vars PROVE SparesInv'
  OBVIOUS
<1>0. TypeInv /\ TypeInv'
  BY TypeStep DEF SparesInv
<1>1. CASE UNCHANGED <<store, live, job>>
  BY <1>0, <1>1 DEF SparesInv, AllowlistSpared, Spares, SparingJobs
<1>2. ASSUME NEW t \in Target, Wipe(t) PROVE SparesInv'
  <2>1. AllowlistSpared'
    BY <1>0, <1>2 DEF Wipe, SparesInv, AllowlistSpared, TypeInv, TypeOK
  <2> QED BY <1>0, <1>2, <2>1 DEF Wipe, SparesInv, Spares, SparingJobs
<1>3. ASSUME NEW p \in Proc, Starts(p) PROVE SparesInv'
  <2>1. PICK ch : ChangeOK(ch) /\ Begin(p, ch)
    BY <1>0, <1>3, StartIsBegin
  <2>2. UNCHANGED <<store, live>>
    BY <2>1 DEF Begin
  <2>3. PICK seen \in SUBSET targets : Plan(p, ch, seen)
    BY <2>1 DEF Begin
  <2>4. CASE UNCHANGED job
    BY <1>0, <2>2, <2>4 DEF SparesInv, AllowlistSpared, Spares, SparingJobs
  <2>5. CASE ~UNCHANGED job
    <3> DEFINE work == Effect(store, ch)
               act == Active(work, now)
               new == [change |-> ch, work |-> work, plan |-> PlanFor(act, seen),
                       whole |-> Collapsible(act)]
    <3>1. job' = [job EXCEPT ![p] = new]
      BY <2>3, <2>5 DEF Plan
    <3>2. job'[p] = new /\ \A q \in Proc \ {p} : job'[q] = job[q]
      BY <1>0, <3>1 DEF TypeInv, JobsOK
    <3>3. Spares(work)
      BY <1>0, <2>1, EffectSpares DEF SparesInv, TypeInv, TypeOK
    <3>4. Spares(act)
      BY <3>3 DEF Active, Spares
    <3>5. \A t \in Target : new.plan[t] \cap Allowlist = {}
      BY <3>4, PlanSpares
    <3>6. ASSUME NEW q \in Proc
          PROVE  /\ Spares(job'[q].work)
                 /\ \A t \in Target : job'[q].plan[t] \cap Allowlist = {}
      <4>1. CASE q = p
        BY <3>2, <3>3, <3>5, <4>1
      <4>2. CASE q # p
        BY <3>2, <4>2 DEF SparesInv, SparingJobs
      <4> QED BY <4>1, <4>2
    <3>7. SparingJobs'
      BY <3>6 DEF SparingJobs, Spares
    <3> QED BY <1>0, <2>2, <3>7 DEF SparesInv, AllowlistSpared, Spares
  <2> QED BY <2>4, <2>5
<1>4. ASSUME NEW p \in Proc, NEW t \in Target, ApplyTo(p, t) PROVE SparesInv'
  <2>1. UNCHANGED <<store, job>>
    BY <1>4 DEF ApplyTo
  <2>2. live' = live \/ live' = [live EXCEPT ![t] = job[p].plan[t]]
    BY <1>4 DEF ApplyTo, Visit, Push
  <2>3. AllowlistSpared'
    BY <1>0, <2>2 DEF SparesInv, SparingJobs, AllowlistSpared, TypeInv, TypeOK
  <2> QED BY <1>0, <2>1, <2>3 DEF SparesInv, Spares, SparingJobs
<1>5. ASSUME NEW p \in Proc,
             Save(p) \/ SaveFails(p) \/ SaveTorn(p) \/ EndUnsaved(p) \/ Crash(p)
      PROVE  SparesInv'
  <2>1. Release(p) /\ UNCHANGED live
    BY <1>5 DEF Save, SaveFails, SaveTorn, EndUnsaved, Crash
  <2>2. store' = store \/ store' = job[p].work
    BY <1>5 DEF Save, SaveFails, SaveTorn, EndUnsaved, Crash
  <2>3. Spares(store)'
    BY <2>2 DEF SparesInv, SparingJobs, Spares
  <2>4. SparingJobs'
    BY <1>0, <2>1, ReleaseSpares DEF SparesInv
  <2> QED BY <1>0, <2>1, <2>3, <2>4 DEF SparesInv, AllowlistSpared
<1>6. ASSUME NEW p \in Proc, OpenTargets(p) PROVE SparesInv'
  BY <1>1, <1>6 DEF OpenTargets
<1>7. ASSUME NEW t \in Target,
             GoDown(t) \/ ComeUp(t) \/ ChangeRegistry(t) \/ ChangeToken(t)
      PROVE  SparesInv'
  BY <1>1, <1>7 DEF GoDown, ComeUp, ChangeRegistry, ChangeToken
<1>8. CASE Tick \/ UNCHANGED vars
  BY <1>1, <1>8 DEF Tick, vars
<1> QED
  BY <1>2, <1>3, <1>4, <1>5, <1>6, <1>7, <1>8
  DEF Next, Environment, Process, Starts, Client, Work

(* No target ever enforces an address of the allowlist: every network that  *)
(* enters an operation was validated, and neither the routing, the merging  *)
(* nor the save of half an operation adds an address.                       *)
THEOREM AllowlistKept == Spec => []AllowlistSpared
<1>1. Init => SparesInv
  <2> SUFFICES ASSUME Init PROVE SparesInv
    OBVIOUS
  <2>1. TypeInv
    BY TypeInit
  <2>2. Spares(store) /\ SparingJobs /\ AllowlistSpared
    BY DEF Init, NoJob, Spares, SparingJobs, AllowlistSpared
  <2> QED BY <2>1, <2>2 DEF SparesInv
<1>2. SparesInv => AllowlistSpared
  BY DEF SparesInv
<1> QED BY <1>1, <1>2, SparesStep, PTL DEF Spec

-----------------------------------------------------------------------------
(***************************************************************************)
(* What was saved can be rendered again.                                   *)
(***************************************************************************)
WholeJobs ==
    \A p \in Proc : pc[p] # "idle" /\ job[p].whole
                     => Collapsible(Active(job[p].work, now))

RendersInv == TypeInv /\ SavedRenders /\ WholeJobs

(* Entries only ever leave the active set as time goes by. *)
LEMMA ActiveShrinks ==
    ASSUME NEW S \in SUBSET Entry, NEW a \in Nat, NEW b \in Nat, a <= b
    PROVE  Active(S, b) \subseteq Active(S, a)
<1> SUFFICES ASSUME NEW e \in S, e.ts + e.ttl > b PROVE e.ts + e.ttl > a
  BY DEF Active
<1>1. e.ts \in Nat /\ e.ttl \in Nat
  BY StoreAssumption DEF Entry
<1> QED BY <1>1

LEMMA CollapsibleSubset ==
    ASSUME NEW S, NEW T \in SUBSET S, Collapsible(S)
    PROVE  Collapsible(T)
BY DEF Collapsible

LEMMA RendersStep == RendersInv /\ [Next]_vars => RendersInv'
<1> SUFFICES ASSUME RendersInv, [Next]_vars PROVE RendersInv'
  OBVIOUS
<1>0. TypeInv'
  BY TypeStep DEF RendersInv
<1>1. CASE UNCHANGED <<now, store, pc, job>>
  BY <1>0, <1>1 DEF RendersInv, SavedRenders, WholeJobs
<1>2. CASE Tick
  <2>1. /\ now \in Nat /\ now' \in Nat /\ now <= now'
        /\ UNCHANGED <<store, pc, job>>
    BY <1>2 DEF Tick, RendersInv, TypeInv, TypeOK
  <2>2. Active(store, now') \subseteq Active(store, now)
    BY <2>1, ActiveShrinks DEF RendersInv, TypeInv, TypeOK
  <2>3. \A q \in Proc : Active(job[q].work, now') \subseteq Active(job[q].work, now)
    BY <2>1, ActiveShrinks DEF RendersInv, TypeInv, TypeOK
  <2>4. SavedRenders'
    BY <2>1, <2>2, CollapsibleSubset DEF RendersInv, SavedRenders
  <2>5. WholeJobs'
    BY <2>1, <2>3, CollapsibleSubset DEF RendersInv, WholeJobs
  <2> QED BY <1>0, <2>4, <2>5 DEF RendersInv
<1>3. ASSUME NEW p \in Proc, Starts(p) PROVE RendersInv'
  <2>1. PICK ch : Begin(p, ch)
    BY <1>3, StartIsBegin DEF RendersInv
  <2>2. PICK seen \in SUBSET targets : Plan(p, ch, seen)
    BY <2>1 DEF Begin
  <2>3. UNCHANGED <<now, store>>
    BY <2>1 DEF Begin
  <2>4. WholeJobs'
    <3>1. CASE UNCHANGED <<pc, job>>
      BY <2>3, <3>1 DEF RendersInv, WholeJobs
    <3>2. CASE ~UNCHANGED <<pc, job>>
      <4> DEFINE work == Effect(store, ch)
      <4>1. /\ pc' = [pc EXCEPT ![p] = "planned"]
            /\ job' = [job EXCEPT ![p] =
                  [change |-> ch, work |-> work, plan |-> PlanFor(Active(work, now), seen),
                   whole |-> Collapsible(Active(work, now))]]
        BY <2>2, <3>2 DEF Plan
      <4>2. /\ job'[p].work = work
            /\ job'[p].whole = Collapsible(Active(work, now))
            /\ \A q \in Proc \ {p} : job'[q] = job[q] /\ pc'[q] = pc[q]
        BY <4>1 DEF RendersInv, TypeInv, TypeOK, JobsOK
      <4> HIDE DEF work
      <4> QED BY <2>3, <4>2 DEF RendersInv, WholeJobs
    <3> QED BY <3>1, <3>2
  <2> QED BY <1>0, <2>3, <2>4 DEF RendersInv, SavedRenders
<1>4. ASSUME NEW p \in Proc, OpenTargets(p) PROVE RendersInv'
  BY <1>0, <1>4 DEF OpenTargets, RendersInv, SavedRenders, WholeJobs, TypeInv, TypeOK
<1>5. ASSUME NEW p \in Proc, Save(p) \/ SaveFails(p) \/ SaveTorn(p) \/ EndUnsaved(p) \/ Crash(p)
      PROVE  RendersInv'
  <2>1. Release(p) /\ now' = now
    BY <1>5 DEF Save, SaveFails, SaveTorn, EndUnsaved, Crash
  <2>2. WholeJobs'
    BY <2>1, ReleaseType DEF RendersInv, WholeJobs
  <2>3. SavedRenders'
    <3>1. CASE Save(p) \/ SaveTorn(p)
      BY <2>1, <3>1 DEF Save, SaveTorn, Done, RendersInv, SavedRenders, WholeJobs
    <3>2. CASE ~Save(p) /\ ~SaveTorn(p)
      BY <1>5, <2>1, <3>2 DEF SaveFails, EndUnsaved, Crash, RendersInv, SavedRenders
    <3> QED BY <3>1, <3>2
  <2> QED BY <1>0, <2>2, <2>3 DEF RendersInv
<1> QED
  BY <1>1, <1>2, <1>3, <1>4, <1>5
  DEF Next, Environment, Process, Starts, Client, Work, vars, external, ApplyTo,
      GoDown, ComeUp, Wipe, ChangeRegistry, ChangeToken

(* The active entries of the store are never of both address families, so a  *)
(* resync, which renders nothing else, cannot raise for good.                *)
THEOREM SavedAlwaysRenders == Spec => []SavedRenders
<1>1. Init => RendersInv
  BY TypeInit DEF Init, RendersInv, SavedRenders, WholeJobs, Collapsible, Active
<1>2. RendersInv => SavedRenders
  BY DEF RendersInv
<1> QED BY <1>1, <1>2, RendersStep, PTL DEF Spec

-----------------------------------------------------------------------------
(***************************************************************************)
(* With one process, the store implements AtomicDenylist.                  *)
(***************************************************************************)
OneProcess == \A p, q \in Proc : p = q

(* What an operation is about to save is its change of what is stored now. *)
JobsFresh ==
    \A p \in Proc : pc[p] # "idle" => job[p].work = Effect(store, job[p].change)

AtomicInv == TypeInv /\ JobsFresh

LEMMA AtomicStep ==
    ASSUME OneProcess, AtomicInv, [Next]_vars
    PROVE  AtomicInv'
<1>0. TypeInv'
  BY TypeStep DEF AtomicInv
<1>1. CASE UNCHANGED <<store, pc, job>>
  BY <1>0, <1>1 DEF AtomicInv, JobsFresh
<1>2. ASSUME NEW p \in Proc, Starts(p) PROVE AtomicInv'
  <2>1. PICK ch : Begin(p, ch)
    BY <1>2, StartIsBegin DEF AtomicInv
  <2>2. PICK seen \in SUBSET targets : Plan(p, ch, seen)
    BY <2>1 DEF Begin
  <2>3. store' = store
    BY <2>1 DEF Begin
  <2>4. CASE UNCHANGED <<pc, job>>
    BY <1>0, <2>3, <2>4 DEF AtomicInv, JobsFresh
  <2>5. CASE ~UNCHANGED <<pc, job>>
    <3>1. job'[p].work = Effect(store, ch) /\ job'[p].change = ch
      BY <2>2, <2>5 DEF Plan, AtomicInv, TypeInv, JobsOK
    <3>2. \A q \in Proc : q = p
      BY DEF OneProcess
    <3> QED BY <1>0, <2>3, <3>1, <3>2 DEF AtomicInv, JobsFresh
  <2> QED BY <2>4, <2>5
<1>3. ASSUME NEW p \in Proc, OpenTargets(p) PROVE AtomicInv'
  BY <1>0, <1>3 DEF OpenTargets, AtomicInv, JobsFresh, TypeInv, TypeOK
<1>4. ASSUME NEW p \in Proc, Save(p) \/ SaveFails(p) \/ SaveTorn(p) \/ EndUnsaved(p) \/ Crash(p)
      PROVE  AtomicInv'
  <2>1. Release(p)
    BY <1>4 DEF Save, SaveFails, SaveTorn, EndUnsaved, Crash
  <2>2. \A q \in Proc : pc'[q] = "idle"
    BY <2>1, ReleaseType DEF AtomicInv, OneProcess
  <2> QED BY <1>0, <2>2 DEF AtomicInv, JobsFresh
<1> QED
  BY <1>1, <1>2, <1>3, <1>4
  DEF Next, Environment, Process, Starts, Client, Work, vars, external, ApplyTo,
      Tick, GoDown, ComeUp, Wipe, ChangeRegistry, ChangeToken

(* A save is one atomic operation of the abstract denylist. *)
LEMMA SaveIsAtomic ==
    ASSUME AtomicInv, NEW p \in Proc, Save(p) \/ SaveTorn(p), TypeInv'
    PROVE  Abs!Next
<1> DEFINE ch == job[p].change
<1>1. /\ store' = Effect(store, ch)
      /\ now' = now
      /\ ch.op \in {"block", "unblock", "expire"}
      /\ ChangeOK(ch)
  BY DEF Save, SaveTorn, Done, Saves, AtomicInv, JobsFresh, TypeInv, JobsOK, ChangeOK, Ops
<1>2. now \in Nat /\ ch.at \in 0..now
  BY <1>1 DEF ChangeOK, AtomicInv, TypeInv, TypeOK
<1> HIDE DEF ch
<1>3. CASE ch.op = "block"
  <2> DEFINE rts == [c \in ch.cidrs |-> ch.routes[c]]
  <2>1. rts \in [ch.cidrs -> Routes] /\ ch.ttl \in Ttl /\ ch.cidrs \in SUBSET Cidr
    BY <1>1, <1>3 DEF ChangeOK
  <2>2. store' = {e \in store : e.cidr \notin ch.cidrs} \cup
                 {[cidr |-> c, ts |-> ch.at, ttl |-> ch.ttl, route |-> rts[c]] : c \in ch.cidrs}
    BY <1>1, <1>3 DEF Effect, Without
  <2> HIDE DEF rts
  <2>3. Abs!Put(ch.cidrs, ch.ttl, ch.at, rts)
    BY <1>1, <1>2, <2>2 DEF Abs!Put
  <2> QED BY <1>2, <2>1, <2>3 DEF Abs!Next
<1>4. CASE ch.op = "unblock"
  <2>1. Abs!Drop(ch.cidrs) /\ ch.cidrs \in SUBSET Cidr
    BY <1>1, <1>4 DEF Abs!Drop, Effect, Without, ChangeOK
  <2> QED BY <2>1 DEF Abs!Next
<1>5. CASE ch.op = "expire"
  <2>1. Abs!Expire(ch.at)
    BY <1>1, <1>2, <1>5 DEF Abs!Expire, Abs!Live, Effect, Active
  <2> QED BY <1>2, <2>1 DEF Abs!Next
<1> QED BY <1>1, <1>3, <1>4, <1>5

LEMMA AtomicSimulation ==
    ASSUME AtomicInv, [Next]_vars
    PROVE  [Abs!Next]_<<now, store>>
<1>0. TypeInv'
  BY TypeStep DEF AtomicInv
<1>1. CASE UNCHANGED <<now, store>>
  BY <1>1
<1>2. CASE Tick
  BY <1>2 DEF Tick, Abs!Tick, Abs!Next
<1>3. ASSUME NEW p \in Proc, Save(p) \/ SaveTorn(p) PROVE Abs!Next
  BY <1>0, <1>3, SaveIsAtomic
<1>4. ASSUME NEW p \in Proc, Starts(p) PROVE UNCHANGED <<now, store>>
  BY <1>4, StartIsBegin DEF AtomicInv, Begin
<1> QED
  BY <1>1, <1>2, <1>3, <1>4
  DEF Next, Environment, Process, Starts, Client, Work, vars, ApplyTo, OpenTargets,
      SaveFails, EndUnsaved, Crash, GoDown, ComeUp, Wipe, ChangeRegistry, ChangeToken

(* One process under its lock: however its operations interleave with the    *)
(* clock, the registry and every kind of fault, entries.json goes through    *)
(* the atomic operations of AtomicDenylist and through nothing else.         *)
THEOREM StoreIsAtomic ==
    ASSUME OneProcess
    PROVE  Spec => AtomicStore
<1>1. Init => AtomicInv
  BY TypeInit DEF Init, AtomicInv, JobsFresh
<1>2. AtomicInv /\ [Next]_vars => AtomicInv'
  BY AtomicStep
<1>3. Init => Abs!Init
  BY DEF Init, Abs!Init
<1>4. AtomicInv /\ [Next]_vars => [Abs!Next]_<<now, store>>
  BY AtomicSimulation
<1> QED BY <1>1, <1>2, <1>3, <1>4, PTL DEF Spec, AtomicStore, Abs!Spec

-----------------------------------------------------------------------------
(***************************************************************************)
(* One process, one address family, targets that fail and a process that   *)
(* crashes: a target whose last apply is on record as good matches the     *)
(* store.  The registry, the tokens and the stored documents hold still:   *)
(* the other kinds of fault break the property until the next resync.      *)
(***************************************************************************)
Calm == OneProcess /\ V6 = {} /\ Faults \subseteq {"crash", "down"}

(* What each target will be given lies between the active entries routed to  *)
(* it and all of its entries.                                                *)
PlansMatch ==
    \A p \in Proc : pc[p] # "idle" =>
        /\ job[p].whole
        /\ \A t \in targets :
              /\ Coverage(RoutedTo(Active(job[p].work, now), t, targets)) \subseteq job[p].plan[t]
              /\ job[p].plan[t] \subseteq Coverage(RoutedTo(job[p].work, t, targets))

(* Which of the two sets of entries a good target matches depends on whether *)
(* the operation in flight has been there.                                   *)
GoodMatches ==
    \A p \in Proc, t \in targets \cap ready :
        err[p][t] = "ok" =>
            /\ pc[p] = "applying" /\ t \notin todo[p] => Matches(job[p].work, t)
            /\ ~(pc[p] = "applying" /\ t \notin todo[p]) => Matches(store, t)

SyncInv == AtomicInv /\ PlansMatch /\ GoodMatches

LEMMA CoverageMonotone ==
    ASSUME NEW S, NEW T \in SUBSET S, NEW t, NEW ids
    PROVE  Coverage(RoutedTo(T, t, ids)) \subseteq Coverage(RoutedTo(S, t, ids))
BY DEF Coverage, RoutedTo

(* Looking at the active entries a second time, later, loses nothing. *)
LEMMA ActiveTwice ==
    ASSUME NEW S \in SUBSET Entry, NEW a \in Nat, NEW b \in Nat, a <= b
    PROVE  Active(Active(S, a), b) = Active(S, b)
<1>1. Active(S, b) \subseteq Active(S, a)
  BY ActiveShrinks
<1> QED BY <1>1 DEF Active

LEMMA SyncInit == Init => SyncInv
<1> SUFFICES ASSUME Init PROVE SyncInv
  OBVIOUS
<1>1. AtomicInv
  BY TypeInit DEF Init, AtomicInv, JobsFresh
<1>2. PlansMatch
  BY DEF Init, PlansMatch
<1>3. GoodMatches
  <2>1. \A p \in Proc, t \in Target : err[p][t] # "ok"
    BY DEF Init
  <2>2. targets \subseteq Target
    BY StoreAssumption DEF Init
  <2> QED BY <2>1, <2>2 DEF GoodMatches
<1> QED BY <1>1, <1>2, <1>3 DEF SyncInv

(* A clock that moves leaves every match standing. *)
LEMMA SyncTick ==
    ASSUME SyncInv, Tick
    PROVE  PlansMatch' /\ GoodMatches'
<1>1. /\ now \in Nat /\ now' \in Nat /\ now <= now'
      /\ UNCHANGED <<store, live, targets, ready, pc, job, todo, err>>
  BY DEF Tick, external, SyncInv, AtomicInv, TypeInv, TypeOK
<1>2. ASSUME NEW S \in SUBSET Entry, NEW t
      PROVE  Coverage(RoutedTo(Active(S, now'), t, targets))
                \subseteq Coverage(RoutedTo(Active(S, now), t, targets))
  BY <1>1, ActiveShrinks, CoverageMonotone
<1>3. store \in SUBSET Entry /\ \A p \in Proc : job[p].work \in SUBSET Entry
  BY DEF SyncInv, AtomicInv, TypeInv, TypeOK
<1>4. PlansMatch'
  <2> SUFFICES ASSUME NEW p \in Proc, pc[p] # "idle", NEW t \in targets
      PROVE /\ job[p].whole
            /\ Coverage(RoutedTo(Active(job[p].work, now'), t, targets)) \subseteq job[p].plan[t]
            /\ job[p].plan[t] \subseteq Coverage(RoutedTo(job[p].work, t, targets))
    <3>1. \A p \in Proc : pc[p] # "idle" => job[p].whole
      BY DEF SyncInv, PlansMatch
    <3> QED BY <1>1, <3>1 DEF PlansMatch
  <2> QED BY <1>2, <1>3 DEF SyncInv, PlansMatch
<1>5. ASSUME NEW S \in SUBSET Entry, NEW t, Matches(S, t)
      PROVE  /\ Coverage(RoutedTo(Active(S, now'), t, targets)) \subseteq live[t]
             /\ live[t] \subseteq Coverage(RoutedTo(S, t, targets))
  BY <1>2, <1>5 DEF Matches
<1>6. GoodMatches'
  <2> SUFFICES ASSUME NEW p \in Proc, NEW t \in targets \cap ready, err[p][t] = "ok"
      PROVE /\ pc[p] = "applying" /\ t \notin todo[p] => Matches(job[p].work, t)'
            /\ ~(pc[p] = "applying" /\ t \notin todo[p]) => Matches(store, t)'
    BY <1>1 DEF GoodMatches
  <2>1. CASE pc[p] = "applying" /\ t \notin todo[p]
    BY <1>1, <1>3, <1>5, <2>1 DEF SyncInv, GoodMatches, Matches
  <2>2. CASE ~(pc[p] = "applying" /\ t \notin todo[p])
    BY <1>1, <1>3, <1>5, <2>2 DEF SyncInv, GoodMatches, Matches
  <2> QED BY <2>1, <2>2
<1> QED BY <1>4, <1>6

(* Without a read that fails, targets() returns what is configured. *)
LEMMA CalmReads ==
    ASSUME Calm, NEW seen, ReadTargets(seen)
    PROVE  seen = targets
BY DEF Calm, ReadTargets, Fault

LEMMA SyncStart ==
    ASSUME Calm, SyncInv, NEW p \in Proc, Starts(p), TypeInv'
    PROVE  PlansMatch' /\ GoodMatches'
<1>1. PICK ch : Begin(p, ch) /\ ChangeOK(ch)
  BY StartIsBegin DEF SyncInv, AtomicInv
<1>2. PICK seen \in SUBSET targets : ReadTargets(seen) /\ Plan(p, ch, seen)
  BY <1>1 DEF Begin
<1>3. seen = targets
  BY <1>2, CalmReads
<1>4. /\ UNCHANGED <<now, store, live, targets, ready, todo, err>>
      /\ pc[p] = "idle"
  BY <1>1 DEF Begin, external
<1>5. \A q \in Proc : q = p
  BY DEF Calm, OneProcess
<1>6. CASE UNCHANGED <<pc, job>>
  <2>1. PlansMatch'
    BY <1>4, <1>6 DEF SyncInv, PlansMatch
  <2>2. GoodMatches'
    BY <1>4, <1>6 DEF SyncInv, GoodMatches, Matches
  <2> QED BY <2>1, <2>2
<1>7. CASE ~UNCHANGED <<pc, job>>
  <2> DEFINE work == Effect(store, ch)
             act == Active(work, now)
  <2>1. /\ pc' = [pc EXCEPT ![p] = "planned"]
        /\ job' = [job EXCEPT ![p] = [change |-> ch, work |-> work,
                                      plan |-> PlanFor(act, targets),
                                      whole |-> Collapsible(act)]]
    BY <1>2, <1>3, <1>7 DEF Plan
  <2>2. /\ pc'[p] = "planned"
        /\ job'[p].work = work
        /\ job'[p].plan = PlanFor(act, targets)
        /\ job'[p].whole = Collapsible(act)
    BY <2>1 DEF SyncInv, AtomicInv, TypeInv, TypeOK, JobsOK
  <2>3. act \subseteq work
    BY DEF Active
  <2> HIDE DEF work
  <2>4. Collapsible(act)
    BY DEF Calm, Collapsible
  <2>5. \A t \in targets : PlanFor(act, targets)[t] = Coverage(RoutedTo(act, t, targets))
    BY DEF PlanFor, SyncInv, AtomicInv, TypeInv, TypeOK
  <2>6. \A t : Coverage(RoutedTo(act, t, targets)) \subseteq Coverage(RoutedTo(work, t, targets))
    BY <2>3, CoverageMonotone
  <2>7. PlansMatch'
    BY <1>4, <1>5, <2>2, <2>4, <2>5, <2>6 DEF PlansMatch
  <2>8. GoodMatches'
    BY <1>4, <1>5, <2>2 DEF SyncInv, GoodMatches, Matches
  <2> QED BY <2>7, <2>8
<1> QED BY <1>6, <1>7

LEMMA SyncOpen ==
    ASSUME Calm, SyncInv, NEW p \in Proc, OpenTargets(p)
    PROVE  PlansMatch' /\ GoodMatches'
<1>1. PICK seen : ReadTargets(seen) /\ todo' = [todo EXCEPT ![p] = seen]
  BY DEF OpenTargets
<1>2. todo'[p] = targets
  BY <1>1, CalmReads DEF SyncInv, AtomicInv, TypeInv, TypeOK
<1>3. /\ UNCHANGED <<now, store, live, targets, ready, job, err>>
      /\ pc[p] = "planned"
  BY DEF OpenTargets, external
<1>4. \A q \in Proc : q = p
  BY DEF Calm, OneProcess
<1>5. PlansMatch'
  BY <1>3, <1>4 DEF SyncInv, PlansMatch
<1>6. GoodMatches'
  BY <1>2, <1>3, <1>4 DEF SyncInv, GoodMatches, Matches
<1> QED BY <1>5, <1>6

(* A visit that succeeds makes the target match what is about to be saved. *)
LEMMA SyncApply ==
    ASSUME Calm, SyncInv, NEW p \in Proc, NEW u \in Target, ApplyTo(p, u)
    PROVE  PlansMatch' /\ GoodMatches'
<1>1. /\ UNCHANGED <<now, store, targets, ready, pc, job>>
      /\ pc[p] = "applying"
      /\ u \in todo[p]
      /\ todo' = [todo EXCEPT ![p] = @ \ {u}]
      /\ Visit(p, u)
  BY DEF ApplyTo, external
<1>2. \A q \in Proc : q = p
  BY DEF Calm, OneProcess
<1>3. todo'[p] = todo[p] \ {u}
  BY <1>1 DEF SyncInv, AtomicInv, TypeInv, TypeOK
<1>4. PlansMatch'
  BY <1>1 DEF SyncInv, PlansMatch
<1>5. ASSUME NEW t \in targets \cap ready, t # u
      PROVE  live'[t] = live[t] /\ err'[p][t] = err[p][t]
  BY <1>1, <1>5 DEF Visit, Push, SyncInv, AtomicInv, TypeInv, TypeOK
<1>6. ASSUME u \in targets \cap ready, err'[p][u] = "ok"
      PROVE  live'[u] = job[p].plan[u]
  BY <1>1, <1>6 DEF Visit, Push, SyncInv, AtomicInv, TypeInv, TypeOK
<1>7. ASSUME u \in targets \cap ready, err'[p][u] = "ok"
      PROVE  Matches(job[p].work, u)'
  BY <1>1, <1>6, <1>7 DEF Matches, SyncInv, PlansMatch
<1>8. GoodMatches'
  <2> SUFFICES ASSUME NEW t \in targets \cap ready, err'[p][t] = "ok"
      PROVE /\ t \notin todo'[p] => Matches(job[p].work, t)'
            /\ t \in todo'[p] => Matches(store, t)'
    BY <1>1, <1>2 DEF GoodMatches
  <2>1. CASE t = u
    BY <1>3, <1>7, <2>1
  <2>2. CASE t # u
    BY <1>1, <1>3, <1>5, <2>2 DEF SyncInv, GoodMatches, Matches
  <2> QED BY <2>1, <2>2
<1> QED BY <1>4, <1>8

(* The end of an operation hands the match with its entries to the store. *)
LEMMA SyncEnd ==
    ASSUME Calm, SyncInv, NEW p \in Proc, Save(p) \/ EndUnsaved(p)
    PROVE  PlansMatch' /\ GoodMatches'
<1>1. /\ Release(p) /\ Done(p)
      /\ UNCHANGED <<now, live, targets, ready, err, todo>>
  BY DEF Save, EndUnsaved, external
<1>2. /\ pc'[p] = "idle"
      /\ \A q \in Proc : q = p
  BY <1>1, ReleaseType DEF Calm, OneProcess, SyncInv, AtomicInv
<1>3. PlansMatch'
  BY <1>2 DEF PlansMatch
<1>4. ASSUME NEW t \in targets \cap ready, err[p][t] = "ok"
      PROVE  Matches(job[p].work, t)
  BY <1>1, <1>4 DEF Done, SyncInv, GoodMatches
<1>5. ASSUME NEW t, Matches(job[p].work, t)
      PROVE  Matches(store, t)'
  <2>1. CASE Save(p)
    BY <1>1, <1>5, <2>1 DEF Save, Matches
  <2>2. CASE EndUnsaved(p)
    <3> DEFINE at == job[p].change.at
    <3>1. /\ store' = store
          /\ job[p].change.op = "resync"
      BY <1>1, <2>2 DEF EndUnsaved, Saves, Done, SyncInv, PlansMatch
    <3>2. /\ job[p].work = Active(store, at)
          /\ at \in Nat /\ at <= now /\ now \in Nat
          /\ store \in SUBSET Entry
      BY <1>1, <3>1 DEF Done, SyncInv, AtomicInv, JobsFresh, Effect, TypeInv, TypeOK,
                        JobsOK, ChangeOK
    <3> HIDE DEF at
    <3>3. Active(job[p].work, now) = Active(store, now)
      BY <3>2, ActiveTwice
    <3>4. job[p].work \subseteq store
      BY <3>2 DEF Active
    <3>5. Coverage(RoutedTo(job[p].work, t, targets)) \subseteq Coverage(RoutedTo(store, t, targets))
      BY <3>4, CoverageMonotone
    <3> QED BY <1>1, <1>5, <3>1, <3>3, <3>5 DEF Matches
  <2> QED BY <2>1, <2>2
<1>6. GoodMatches'
  BY <1>1, <1>2, <1>4, <1>5 DEF GoodMatches
<1> QED BY <1>3, <1>6

LEMMA SyncStep ==
    ASSUME Calm, SyncInv, [Next]_vars
    PROVE  SyncInv'
<1>0. AtomicInv' /\ TypeInv'
  BY AtomicStep DEF Calm, SyncInv, AtomicInv
<1>1. CASE UNCHANGED <<now, store, live, targets, ready, pc, job, todo, err>>
  BY <1>0, <1>1 DEF SyncInv, PlansMatch, GoodMatches, Matches
<1>2. CASE Tick
  BY <1>0, <1>2, SyncTick DEF SyncInv
<1>3. ASSUME NEW p \in Proc, Starts(p) PROVE SyncInv'
  BY <1>0, <1>3, SyncStart DEF SyncInv
<1>4. ASSUME NEW p \in Proc, OpenTargets(p) PROVE SyncInv'
  BY <1>0, <1>4, SyncOpen DEF SyncInv
<1>5. ASSUME NEW p \in Proc, NEW t \in Target, ApplyTo(p, t) PROVE SyncInv'
  BY <1>0, <1>5, SyncApply DEF SyncInv
<1>6. ASSUME NEW p \in Proc, Save(p) \/ EndUnsaved(p) PROVE SyncInv'
  BY <1>0, <1>6, SyncEnd DEF SyncInv
<1>7. ASSUME NEW p \in Proc, Crash(p) PROVE SyncInv'
  <2>1. /\ pc'[p] = "idle"
        /\ \A q \in Proc : q = p
    BY <1>7, ReleaseType DEF Crash, Calm, OneProcess, SyncInv, AtomicInv
  <2>2. \A t \in Target : err'[p][t] # "ok"
    BY <1>7 DEF Crash, SyncInv, AtomicInv, TypeInv, TypeOK
  <2>3. targets' \subseteq Target
    BY <1>0 DEF TypeInv, TypeOK
  <2>4. PlansMatch' /\ GoodMatches'
    BY <2>1, <2>2, <2>3 DEF PlansMatch, GoodMatches
  <2> QED BY <1>0, <2>4 DEF SyncInv
<1>8. ASSUME NEW t \in Target, GoDown(t) \/ ComeUp(t)
      PROVE  UNCHANGED <<now, store, live, targets, ready, pc, job, todo, err>>
  BY <1>8 DEF GoDown, ComeUp
<1>9. /\ \A t \in Target : ~Wipe(t) /\ ~ChangeRegistry(t) /\ ~ChangeToken(t)
      /\ \A p \in Proc : ~SaveFails(p) /\ ~SaveTorn(p)
  BY DEF Calm, Wipe, ChangeRegistry, ChangeToken, SaveFails, SaveTorn, Fault
<1> QED
  BY <1>1, <1>2, <1>3, <1>4, <1>5, <1>6, <1>7, <1>8, <1>9
  DEF Next, Environment, Process, Starts, Client, Work, vars

(* Crashes and failing targets never leave a target that is on record as     *)
(* good with a different set of networks than the denylist.                  *)
THEOREM GoodTargetsMatch ==
    ASSUME Calm
    PROVE  Spec => []AppliedMatchesStore
<1>1. Init => SyncInv
  BY SyncInit
<1>2. SyncInv /\ [Next]_vars => SyncInv'
  BY SyncStep
<1>3. SyncInv => AppliedMatchesStore
  BY DEF SyncInv, GoodMatches, AppliedMatchesStore
<1> QED BY <1>1, <1>2, <1>3, PTL DEF Spec

-----------------------------------------------------------------------------
(***************************************************************************)
(* What is on record as applied.  Only targets fail now: a process that    *)
(* dies between the render and the save leaves targets that no record of   *)
(* the audit log tells of.                                                 *)
(***************************************************************************)
Quiet == Calm /\ "crash" \notin Faults

Visited(p, t) == pc[p] = "applying" /\ t \notin todo[p]
Busy(p) == pc[p] # "idle"

(* A prune that is under way names what it drops; a target that was visited  *)
(* is good or bad.                                                           *)
JobsNamed == \A p \in Proc : Busy(p) => Names(job[p].change)
VisitsTold == \A p \in Proc, t \in targets : Visited(p, t) => err[p][t] # "unknown"

(* A ban on record is enforced, unless the operation in flight has been at   *)
(* the target and its entries are without the ban.                           *)
BansHeld ==
    \A e \in Active(store, now), t \in targets \cap ready :
        /\ audit[e.cidr].action = "block" /\ RecordedOn(e.cidr, t)
        /\ t \in EntryTargets(e.route, targets)
        => \/ e.cidr \subseteq live[t]
           \/ \E p \in Proc : Visited(p, t) /\ e \notin job[p].work

(* An address a target enforces is that of an entry, stored or in flight, or *)
(* of a network whose last change is on record, but not as applied there.    *)
Has(S, d, t) == \E e \in S : e.cidr = d /\ t \in EntryTargets(e.route, targets)
Owed(d, t) == audit[d] # NoEvent /\ ~RecordedOn(d, t)
Explained(a, t) ==
    \E d \in Cidr :
        /\ a \in d
        /\ \/ Has(store, d, t)
           \/ \E p \in Proc : Busy(p) /\ Has(job[p].work, d, t)
           \/ Owed(d, t)
ReleasesHeld == \A t \in targets \cap ready : \A a \in live[t] : Explained(a, t)

HonourInv == SyncInv /\ JobsNamed /\ VisitsTold /\ BansHeld /\ ReleasesHeld

LEMMA HonourInit == Init => HonourInv
<1> SUFFICES ASSUME Init PROVE HonourInv
  OBVIOUS
<1>1. SyncInv
  BY SyncInit
<1>2. JobsNamed /\ VisitsTold /\ BansHeld
  BY DEF Init, JobsNamed, VisitsTold, BansHeld, Busy, Visited, Active
<1>3. ReleasesHeld
  <2>1. \A t \in Target : live[t] = {}
    BY DEF Init
  <2>2. targets \subseteq Target
    BY StoreAssumption DEF Init
  <2> QED BY <2>1, <2>2 DEF ReleasesHeld
<1> QED BY <1>1, <1>2, <1>3 DEF HonourInv

(* What an operation drops, other than by time, it names. *)
LEMMA DroppedIsNamed ==
    ASSUME NEW ch, ChangeOK(ch), Names(ch), ch.op # "resync",
           NEW e \in store, e \notin Effect(store, ch)
    PROVE  e.cidr \in ch.cidrs
<1>1. CASE ch.op = "block" \/ ch.op = "unblock"
  BY <1>1 DEF Effect, Without
<1>2. CASE ch.op = "expire"
  BY <1>2 DEF Effect, Names
<1> QED BY <1>1, <1>2 DEF ChangeOK, Ops

LEMMA KeptWasThere ==
    ASSUME NEW ch, ChangeOK(ch), NEW e \in Effect(store, ch), e.cidr \notin ch.cidrs
    PROVE  e \in store
<1>1. CASE ch.op = "block"
  <2> SUFFICES ASSUME NEW c \in ch.cidrs,
                      e = [cidr |-> c, ts |-> ch.at, ttl |-> ch.ttl, route |-> ch.routes[c]]
               PROVE  FALSE
    BY <1>1 DEF Effect, Without
  <2> QED OBVIOUS
<1>2. CASE ch.op = "unblock"
  BY <1>2 DEF Effect, Without
<1>3. CASE ch.op \notin {"block", "unblock"}
  BY <1>3 DEF Effect, Active
<1> QED BY <1>1, <1>2, <1>3

LEMMA HonourStart ==
    ASSUME Quiet, HonourInv, NEW p \in Proc, Starts(p), SyncInv'
    PROVE  HonourInv'
<1>1. PICK ch : ChangeOK(ch) /\ Begin(p, ch) /\ Names(ch)
  BY StartIsBegin DEF HonourInv, SyncInv, AtomicInv
<1>2. PICK seen \in SUBSET targets : Plan(p, ch, seen)
  BY <1>1 DEF Begin
<1>3. /\ UNCHANGED <<now, store, audit, live, targets, ready, todo, err>>
      /\ pc[p] = "idle"
  BY <1>1 DEF Begin, external
<1>4. \A q \in Proc : q = p
  BY DEF Quiet, Calm, OneProcess
<1>5. CASE UNCHANGED <<pc, job>>
  BY <1>3, <1>5 DEF HonourInv, JobsNamed, VisitsTold, BansHeld, ReleasesHeld, Busy, Visited,
                    Names, RecordedOn, Explained, Has, Owed
<1>6. CASE ~UNCHANGED <<pc, job>>
  <2>1. pc'[p] = "planned" /\ job'[p].change = ch
    BY <1>2, <1>6 DEF Plan, HonourInv, SyncInv, AtomicInv, TypeInv, TypeOK, JobsOK
  <2>2. JobsNamed' /\ VisitsTold'
    BY <1>1, <1>3, <1>4, <2>1 DEF JobsNamed, VisitsTold, Visited, Busy, Names
  <2>3. BansHeld'
    BY <1>3, <1>4, <2>1 DEF HonourInv, BansHeld, Visited, RecordedOn
  <2>4. ReleasesHeld'
    BY <1>3, <1>4, <2>1 DEF HonourInv, ReleasesHeld, Explained, Has, Owed, RecordedOn, Busy
  <2> QED BY <2>2, <2>3, <2>4 DEF HonourInv
<1> QED BY <1>5, <1>6

LEMMA HonourOpen ==
    ASSUME Quiet, HonourInv, NEW p \in Proc, OpenTargets(p), SyncInv'
    PROVE  HonourInv'
<1>1. PICK seen : ReadTargets(seen) /\ todo' = [todo EXCEPT ![p] = seen]
  BY DEF OpenTargets
<1>2. todo'[p] = targets
  BY <1>1, CalmReads DEF Quiet, HonourInv, SyncInv, AtomicInv, TypeInv, TypeOK
<1>3. /\ UNCHANGED <<now, store, audit, live, targets, ready, job, err>>
      /\ pc[p] = "planned" /\ pc'[p] = "applying"
  BY DEF OpenTargets, external, HonourInv, SyncInv, AtomicInv, TypeInv, TypeOK
<1>4. \A q \in Proc : q = p
  BY DEF Quiet, Calm, OneProcess
<1>5. JobsNamed' /\ VisitsTold'
  BY <1>2, <1>3, <1>4 DEF HonourInv, JobsNamed, VisitsTold, Visited, Busy, Names
<1>6. BansHeld'
  BY <1>2, <1>3, <1>4 DEF HonourInv, BansHeld, Visited, RecordedOn
<1>7. ReleasesHeld'
  BY <1>3, <1>4 DEF HonourInv, ReleasesHeld, Explained, Has, Owed, RecordedOn, Busy
<1> QED BY <1>5, <1>6, <1>7 DEF HonourInv

(* A target that is visited gets the networks of the entries to be saved. *)
LEMMA HonourApply ==
    ASSUME Quiet, HonourInv, NEW p \in Proc, NEW u \in Target, ApplyTo(p, u), SyncInv'
    PROVE  HonourInv'
<1>1. /\ UNCHANGED <<now, store, audit, targets, ready, pc, job>>
      /\ pc[p] = "applying"
      /\ u \in todo[p]
      /\ todo' = [todo EXCEPT ![p] = @ \ {u}]
      /\ Visit(p, u)
  BY DEF ApplyTo, external
<1>2. \A q \in Proc : q = p
  BY DEF Quiet, Calm, OneProcess
<1>3. todo'[p] = todo[p] \ {u}
  BY <1>1 DEF HonourInv, SyncInv, AtomicInv, TypeInv, TypeOK
<1>4. /\ targets \subseteq Target /\ live \in [Target -> SUBSET Addr]
      /\ job[p].work \subseteq Entry
      /\ err[p] \in [Target -> {"unknown", "ok", "error"}]
      /\ err \in [Proc -> [Target -> {"unknown", "ok", "error"}]]
  BY DEF HonourInv, SyncInv, AtomicInv, TypeInv, TypeOK
<1>5. err'[p][u] # "unknown" /\ \A t \in Target : t # u => err'[p][t] = err[p][t]
  BY <1>1, <1>4 DEF Visit
<1>6. /\ \A t \in Target : t # u => live'[t] = live[t]
      /\ live'[u] = live[u] \/ live'[u] = job[p].plan[u]
  BY <1>1, <1>4 DEF Visit, Push
<1>7. /\ JobsNamed'
      /\ VisitsTold'
  <2>1. JobsNamed'
    BY <1>1 DEF HonourInv, JobsNamed, Busy, Names
  <2>2. VisitsTold'
    BY <1>1, <1>2, <1>3, <1>4, <1>5 DEF HonourInv, VisitsTold, Visited
  <2> QED BY <2>1, <2>2
<1>8. ASSUME NEW t \in targets
      PROVE  /\ Coverage(RoutedTo(Active(job[p].work, now), t, targets)) \subseteq job[p].plan[t]
             /\ job[p].plan[t] \subseteq Coverage(RoutedTo(job[p].work, t, targets))
  BY <1>1 DEF HonourInv, SyncInv, PlansMatch
<1>9. BansHeld'
  <2> SUFFICES ASSUME NEW e \in Active(store, now), NEW t \in targets \cap ready,
                      audit[e.cidr].action = "block", RecordedOn(e.cidr, t),
                      t \in EntryTargets(e.route, targets)
               PROVE  \/ e.cidr \subseteq live'[t]
                      \/ t \notin todo'[p] /\ e \notin job[p].work
    BY <1>1, <1>2 DEF BansHeld, RecordedOn, Visited
  <2>1. e.cidr \subseteq live[t] \/ (t \notin todo[p] /\ e \notin job[p].work)
    BY <1>2 DEF HonourInv, BansHeld, Visited
  <2>2. CASE t # u
    BY <1>3, <1>4, <1>6, <2>1, <2>2
  <2>3. CASE t = u /\ e \in job[p].work
    <3>1. e \in RoutedTo(Active(job[p].work, now), t, targets)
      BY <2>3 DEF Active, RoutedTo
    <3>2. e.cidr \subseteq job[p].plan[t]
      BY <1>8, <3>1 DEF Coverage
    <3> QED BY <1>1, <1>6, <2>1, <2>3, <3>2
  <2>4. CASE t = u /\ e \notin job[p].work
    BY <1>3, <2>4
  <2> QED BY <2>2, <2>3, <2>4
<1>10. ReleasesHeld'
  <2> SUFFICES ASSUME NEW t \in targets \cap ready, NEW a \in live'[t]
               PROVE  Explained(a, t)'
    BY <1>1 DEF ReleasesHeld
  <2>1. SUFFICES Explained(a, t)
    BY <1>1 DEF Explained, Has, Owed, RecordedOn, Busy
  <2>2. CASE a \in live[t]
    BY <2>2 DEF HonourInv, ReleasesHeld
  <2>3. CASE a \in job[p].plan[t]
    <3>1. PICK e \in RoutedTo(job[p].work, t, targets) : a \in e.cidr
      BY <1>8, <2>3 DEF Coverage
    <3>2. e \in job[p].work /\ e.cidr \in Cidr /\ t \in EntryTargets(e.route, targets)
      BY <1>4, <3>1 DEF RoutedTo, Entry
    <3> QED BY <1>1, <3>1, <3>2 DEF Explained, Has, Busy
  <2> QED BY <1>4, <1>6, <2>2, <2>3
<1> QED BY <1>7, <1>9, <1>10 DEF HonourInv

(* A save puts on record what was applied, and what was not. *)
LEMMA HonourSave ==
    ASSUME Quiet, HonourInv, NEW p \in Proc, Save(p), SyncInv'
    PROVE  HonourInv'
<1> DEFINE ch == job[p].change
<1>1. /\ Release(p) /\ pc[p] = "applying" /\ todo[p] = {} /\ ch.op # "resync"
      /\ store' = job[p].work
      /\ UNCHANGED <<now, live, targets, ready, err, todo>>
  BY DEF Save, Done, Saves, external
<1>2. \A q \in Proc : q = p /\ pc'[q] = "idle"
  BY <1>1, ReleaseType DEF Quiet, Calm, OneProcess, HonourInv, SyncInv, AtomicInv
<1>3. \A c \in Cidr : audit'[c] = IF c \in ch.cidrs THEN EnfResult(p, targets) ELSE audit[c]
  <2>1. PICK seen \in SUBSET targets :
           /\ ReadTargets(seen)
           /\ audit' = [c \in Cidr |-> IF c \in job[p].change.cidrs
                                       THEN EnfResult(p, seen) ELSE audit[c]]
    BY DEF Save
  <2>2. seen = targets
    BY <2>1, CalmReads DEF Quiet
  <2> QED BY <2>1, <2>2
<1>4. /\ ChangeOK(ch) /\ Names(ch) /\ job[p].work = Effect(store, ch)
      /\ job[p].work \subseteq Entry /\ store \subseteq Entry
  BY <1>1 DEF HonourInv, SyncInv, AtomicInv, JobsFresh, TypeInv, TypeOK, JobsOK, JobsNamed, Busy
<1>5. EnfResult(p, targets) # NoEvent
  BY <1>1, <1>4 DEF EnfResult, NoEvent, ChangeOK, Ops
<1>6. ASSUME NEW t \in targets \cap ready
      PROVE  \/ Matches(job[p].work, t)
             \/ /\ err[p][t] = "error"
                /\ t \notin EnfResult(p, targets).targets \ EnfResult(p, targets).failed
  <2>1. err[p][t] \in {"ok", "error"}
    BY <1>1 DEF HonourInv, VisitsTold, Visited, SyncInv, AtomicInv, TypeInv, TypeOK
  <2>2. CASE err[p][t] = "ok"
    BY <1>1, <2>2 DEF HonourInv, SyncInv, GoodMatches
  <2>3. CASE err[p][t] = "error"
    BY <2>3 DEF EnfResult
  <2> QED BY <2>1, <2>2, <2>3
<1> HIDE DEF ch
<1>7. JobsNamed' /\ VisitsTold'
  BY <1>2 DEF JobsNamed, VisitsTold, Visited, Busy
<1>8. BansHeld'
  <2> SUFFICES ASSUME NEW e \in Active(job[p].work, now), NEW t \in targets \cap ready,
                      audit'[e.cidr].action = "block", RecordedOn(e.cidr, t)',
                      t \in EntryTargets(e.route, targets)
               PROVE  e.cidr \subseteq live[t]
    BY <1>1, <1>2 DEF BansHeld
  <2>1. e \in job[p].work /\ e.cidr \in Cidr
    BY <1>4 DEF Active, Entry
  <2>2. ASSUME Matches(job[p].work, t) PROVE e.cidr \subseteq live[t]
    <3>1. e \in RoutedTo(Active(job[p].work, now), t, targets)
      BY DEF RoutedTo
    <3> QED BY <2>2, <3>1 DEF Matches, Coverage
  <2>3. CASE e.cidr \in ch.cidrs
    BY <1>1, <1>3, <1>6, <2>1, <2>2, <2>3 DEF RecordedOn
  <2>4. CASE e.cidr \notin ch.cidrs
    <3>1. e \in store
      BY <1>4, <2>1, <2>4, KeptWasThere
    <3>2. e \in Active(store, now)
      BY <3>1 DEF Active
    <3>3. audit[e.cidr].action = "block" /\ RecordedOn(e.cidr, t)
      BY <1>1, <1>3, <2>1, <2>4 DEF RecordedOn
    <3> QED BY <1>2, <2>1, <3>2, <3>3 DEF HonourInv, BansHeld
  <2> QED BY <2>3, <2>4
<1>9. ReleasesHeld'
  <2> SUFFICES ASSUME NEW t \in targets \cap ready, NEW a \in live[t]
               PROVE  Explained(a, t)'
    BY <1>1 DEF ReleasesHeld
  <2>1. ASSUME NEW d \in Cidr, a \in d, Has(job[p].work, d, t) PROVE Explained(a, t)'
    BY <1>1, <2>1 DEF Explained, Has
  <2>2. ASSUME NEW d \in Cidr, a \in d, audit'[d] # NoEvent,
               t \notin audit'[d].targets \ audit'[d].failed
        PROVE  Explained(a, t)'
    BY <2>2 DEF Explained, Owed, RecordedOn
  <2>3. CASE Matches(job[p].work, t)
    <3>1. PICK e \in RoutedTo(job[p].work, t, targets) : a \in e.cidr
      BY <2>3 DEF Matches, Coverage
    <3>2. e \in job[p].work /\ e.cidr \in Cidr /\ t \in EntryTargets(e.route, targets)
      BY <1>4, <3>1 DEF RoutedTo, Entry
    <3> QED BY <2>1, <3>1, <3>2 DEF Has
  <2>4. CASE t \notin EnfResult(p, targets).targets \ EnfResult(p, targets).failed
    <3>1. PICK d \in Cidr :
             /\ a \in d
             /\ \/ Has(store, d, t)
                \/ \E q \in Proc : Busy(q) /\ Has(job[q].work, d, t)
                \/ Owed(d, t)
      BY DEF HonourInv, ReleasesHeld, Explained
    <3>2. CASE d \in ch.cidrs
      BY <1>3, <1>5, <2>2, <2>4, <3>1, <3>2
    <3>3. CASE d \notin ch.cidrs /\ Owed(d, t)
      BY <1>3, <2>2, <3>1, <3>3 DEF Owed, RecordedOn
    <3>4. CASE d \notin ch.cidrs /\ Has(store, d, t)
      <4>1. PICK e \in store : e.cidr = d /\ t \in EntryTargets(e.route, targets)
        BY <3>4 DEF Has
      <4>2. e \in job[p].work
        BY <1>1, <1>4, <3>4, <4>1, DroppedIsNamed
      <4> QED BY <2>1, <3>1, <4>1, <4>2 DEF Has
    <3> QED BY <1>2, <2>1, <3>1, <3>2, <3>3, <3>4
  <2> QED BY <1>6, <2>3, <2>4
<1> QED BY <1>7, <1>8, <1>9 DEF HonourInv

(* A resync leaves the entries that are active now. *)
LEMMA HonourEnd ==
    ASSUME Quiet, HonourInv, NEW p \in Proc, EndUnsaved(p), SyncInv'
    PROVE  HonourInv'
<1> DEFINE at == job[p].change.at
<1>1. /\ Release(p) /\ pc[p] = "applying"
      /\ UNCHANGED <<now, store, audit, live, targets, ready, err, todo>>
  BY DEF EndUnsaved, Done, external
<1>2. \A q \in Proc : q = p /\ pc'[q] = "idle"
  BY <1>1, ReleaseType DEF Quiet, Calm, OneProcess, HonourInv, SyncInv, AtomicInv
<1>3. job[p].change.op = "resync"
  BY <1>1 DEF EndUnsaved, Saves, HonourInv, SyncInv, PlansMatch
<1>4. /\ job[p].work = Active(store, at)
      /\ at \in Nat /\ at <= now /\ now \in Nat
      /\ store \in SUBSET Entry
  BY <1>1, <1>3 DEF HonourInv, SyncInv, AtomicInv, JobsFresh, Effect, TypeInv, TypeOK,
                    JobsOK, ChangeOK
<1> HIDE DEF at
<1>5. Active(store, now) \subseteq job[p].work /\ job[p].work \subseteq store
  BY <1>4, ActiveShrinks DEF Active
<1>6. JobsNamed' /\ VisitsTold'
  BY <1>2 DEF JobsNamed, VisitsTold, Visited, Busy
<1>7. BansHeld'
  BY <1>1, <1>2, <1>5 DEF HonourInv, BansHeld, RecordedOn
<1>8. ReleasesHeld'
  <2> SUFFICES ASSUME NEW t \in targets \cap ready, NEW a \in live[t]
               PROVE  Explained(a, t)'
    BY <1>1 DEF ReleasesHeld
  <2>1. PICK d \in Cidr :
           /\ a \in d
           /\ \/ Has(store, d, t)
              \/ \E q \in Proc : Busy(q) /\ Has(job[q].work, d, t)
              \/ Owed(d, t)
    BY DEF HonourInv, ReleasesHeld, Explained
  <2>2. Has(store, d, t) \/ Owed(d, t)
    BY <1>2, <1>5, <2>1 DEF Has
  <2> QED BY <1>1, <2>1, <2>2 DEF Explained, Has, Owed, RecordedOn
<1> QED BY <1>6, <1>7, <1>8 DEF HonourInv

LEMMA HonourTick ==
    ASSUME HonourInv, Tick, SyncInv'
    PROVE  HonourInv'
<1>1. /\ now \in Nat /\ now' \in Nat /\ now <= now'
      /\ UNCHANGED <<store, audit, live, targets, ready, pc, job, todo, err>>
  BY DEF Tick, external, HonourInv, SyncInv, AtomicInv, TypeInv, TypeOK
<1>2. Active(store, now') \subseteq Active(store, now)
  BY <1>1, ActiveShrinks DEF HonourInv, SyncInv, AtomicInv, TypeInv, TypeOK
<1>3. JobsNamed' /\ VisitsTold'
  BY <1>1 DEF HonourInv, JobsNamed, VisitsTold, Visited, Busy, Names
<1>4. BansHeld'
  BY <1>1, <1>2 DEF HonourInv, BansHeld, RecordedOn, Visited
<1>5. ReleasesHeld'
  BY <1>1 DEF HonourInv, ReleasesHeld, Explained, Has, Owed, RecordedOn, Busy
<1> QED BY <1>3, <1>4, <1>5 DEF HonourInv

LEMMA HonourStep ==
    ASSUME Quiet, HonourInv, [Next]_vars
    PROVE  HonourInv'
<1>0. SyncInv'
  BY SyncStep DEF Quiet, HonourInv
<1>1. CASE UNCHANGED <<now, store, audit, live, targets, ready, pc, job, todo, err>>
  BY <1>0, <1>1 DEF HonourInv, JobsNamed, VisitsTold, BansHeld, ReleasesHeld, Busy, Visited,
                    Names, RecordedOn, Explained, Has, Owed
<1>2. CASE Tick
  BY <1>0, <1>2, HonourTick
<1>3. ASSUME NEW p \in Proc, Starts(p) PROVE HonourInv'
  BY <1>0, <1>3, HonourStart
<1>4. ASSUME NEW p \in Proc, OpenTargets(p) PROVE HonourInv'
  BY <1>0, <1>4, HonourOpen
<1>5. ASSUME NEW p \in Proc, NEW t \in Target, ApplyTo(p, t) PROVE HonourInv'
  BY <1>0, <1>5, HonourApply
<1>6. ASSUME NEW p \in Proc, Save(p) PROVE HonourInv'
  BY <1>0, <1>6, HonourSave
<1>7. ASSUME NEW p \in Proc, EndUnsaved(p) PROVE HonourInv'
  BY <1>0, <1>7, HonourEnd
<1>8. ASSUME NEW t \in Target, GoDown(t) \/ ComeUp(t)
      PROVE  UNCHANGED <<now, store, audit, live, targets, ready, pc, job, todo, err>>
  BY <1>8 DEF GoDown, ComeUp
<1>9. /\ \A t \in Target : ~Wipe(t) /\ ~ChangeRegistry(t) /\ ~ChangeToken(t)
      /\ \A p \in Proc : ~SaveFails(p) /\ ~SaveTorn(p) /\ ~Crash(p)
  BY DEF Quiet, Calm, Wipe, ChangeRegistry, ChangeToken, SaveFails, SaveTorn, Crash, Fault
<1> QED
  BY <1>1, <1>2, <1>3, <1>4, <1>5, <1>6, <1>7, <1>8, <1>9
  DEF Next, Environment, Process, Starts, Client, Work, vars, external

(* DenylistStore!BanHonoured: a ban on record as applied stays enforced,     *)
(* whichever targets fail and come back during later operations.             *)
THEOREM BansAreHonoured ==
    ASSUME Quiet
    PROVE  Spec => []BanHonoured
<1>1. HonourInv /\ [Next]_vars => HonourInv'
  BY HonourStep
<1>2. HonourInv => BanHonoured
  BY DEF HonourInv, BansHeld, BanHonoured, RecordedOn, Visited
<1> QED BY <1>1, <1>2, HonourInit, PTL DEF Spec

(* DenylistStore!ReleaseHonoured: a release on record as applied is not      *)
(* undone, however the networks overlap and whichever targets fail.          *)
THEOREM ReleasesAreHonoured ==
    ASSUME Quiet
    PROVE  Spec => []ReleaseHonoured
<1>1. HonourInv /\ [Next]_vars => HonourInv'
  BY HonourStep
<1>2. HonourInv => ReleaseHonoured
  <2> SUFFICES ASSUME HonourInv, NEW c \in Cidr, NEW t \in Target, RecordedOn(c, t),
                      \A d \in Cidr : d \cap c = {} \/ audit[d] = NoEvent \/ RecordedOn(d, t),
                      NEW a \in live[t] \cap c
               PROVE  a \in Coverage(RoutedTo(store \cup UNION {job[p].work : p \in Proc}, t, targets))
    BY DEF ReleaseHonoured
  <2>1. PICK d \in Cidr :
           /\ a \in d
           /\ \/ Has(store, d, t)
              \/ \E q \in Proc : Busy(q) /\ Has(job[q].work, d, t)
              \/ Owed(d, t)
    BY DEF HonourInv, ReleasesHeld, Explained, RecordedOn
  <2>2. ~Owed(d, t)
    BY <2>1 DEF Owed
  <2>3. \E e \in store \cup UNION {job[p].work : p \in Proc} :
           e.cidr = d /\ t \in EntryTargets(e.route, targets)
    BY <2>1, <2>2 DEF Has
  <2> QED BY <2>1, <2>3 DEF Coverage, RoutedTo
<1> QED BY <1>1, <1>2, HonourInit, PTL DEF Spec
=============================================================================
