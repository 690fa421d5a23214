-------------------------- MODULE PathRules_proofs --------------------------
(***************************************************************************)
(* Theorems about PathRules, for any targets, rules, faults and requests.  *)
(***************************************************************************)
EXTENDS PathRules, FiniteSetTheorems, TLAPS

Doc == [rules : SUBSET Rule, off : SUBSET Types, master : BOOLEAN]
Job == [pc : {"idle", "push", "audit"}, op : Writes \cup {"none", "resync", "blind"},
        doc : Doc, left : SUBSET Target]

(* A document the API writes: no two rules of one id, none of the old shape, *)
(* and one of the seed's name at most, while seedings know what they do.     *)
IdsOnce(d) == \A r, s \in d.rules : r.id = s.id => r = s
SeedOnce(d) == unsure \/ \A r, s \in d.rules : r.name = SeedName /\ s.name = SeedName => r = s
Sound(d) == d \in Doc /\ IdsOnce(d) /\ SeedOnce(d)
Modern(d) == \A r \in d.rules : ~IsLegacy(r.route)

Kept == job = Idle \/ job.pc \in {"push", "audit"}
DocumentsOK ==
    /\ Sound(doc) /\ Sound(job.doc) /\ job \in Job /\ Kept
    /\ IF job.pc = "push" THEN Modern(job.doc) ELSE job.left = {}
    /\ job.pc = "push" /\ job.op = "resync" => job.doc = Loaded

(* A render in progress: what has been pushed follows its document, what has *)
(* not still follows the saved one.                                          *)
Good(t) == err[t] = "ok" /\ Type[t] \notin Pulled
Follows(d, t) == Good(t) => live[t] = Enforced(d, t)
Applied ==
    /\ job.pc # "push" /\ ~astray => \A t \in Target : Follows(Loaded, t)
    /\ job.pc = "push" => \A t \in Target \ job.left : Follows(job.doc, t)
    /\ job.pc = "push" /\ ~astray => \A t \in job.left : Follows(Loaded, t)

Typed ==
    /\ live \in [Target -> SUBSET Part]
    /\ err \in [Target -> {"unknown", "ok", "failed"}]
    /\ astray \in BOOLEAN /\ requests \in 0..MaxRequests /\ faults \in 0..MaxFaults

(* A seeding under way: the id it found is of rules of the seed's name, and    *)
(* one that found none, and is sure, has a single pattern to post, there being *)
(* no such rule in the saved document or in the one on its way.                *)
Present == doc.rules \cup job.doc.rules
SeedOK ==
    /\ seed.left \subseteq SUBSET Part /\ seed.known \subseteq Id /\ unsure \in BOOLEAN
    /\ seed.left = {} => seed.known = {}
    /\ \A r \in Present : r.id \in seed.known => r.name = SeedName
    /\ ~unsure /\ seed.known = {} /\ seed.left # {} =>
          /\ \A r \in Present : r.name # SeedName
          /\ \A p, q \in seed.left : p = q

Inv == DocumentsOK /\ Applied /\ Typed

-----------------------------------------------------------------------------
(* The shapes of an attachment, and the loading of a document. *)
LEMMA RouteShapes ==
    /\ \A r \in LegacyRoute : IsLegacy(r) /\ r.group \in Group \cup {NoGroup}
    /\ \A r \in AttachRoute : ~IsLegacy(r)
    /\ NoRoute \in AttachRoute
BY DEF LegacyRoute, AttachRoute, IsLegacy, NoRoute

LEMMA Migration ==
    ASSUME NEW r \in Rule
    PROVE  /\ Migrated(r) \in Rule /\ Migrated(r).id = r.id /\ Migrated(r).name = r.name
           /\ ~IsLegacy(Migrated(r).route)
           /\ ~IsLegacy(r.route) => Migrated(r) = r
<1>1. CASE ~IsLegacy(r.route)
  BY <1>1 DEF Migrated
<1>2. CASE IsLegacy(r.route)
  <2> DEFINE route == [groups |-> {r.route.group} \ {NoGroup}, targets |-> {},
                       all |-> r.route.group = NoGroup]
             s == [r EXCEPT !.route = route]
  <2>1. r.route \in LegacyRoute
    BY <1>2, RouteShapes DEF Rule, Route
  <2>2. route \in AttachRoute
    BY <2>1, RouteShapes DEF AttachRoute
  <2> HIDE DEF route
  <2>3. s \in Rule /\ s.id = r.id /\ s.name = r.name /\ s.route = route
    BY <2>2 DEF Rule, Route
  <2>4. Migrated(r) = s
    BY <1>2 DEF Migrated, route
  <2> HIDE DEF s
  <2> QED BY <1>2, <2>2, <2>3, <2>4, RouteShapes
<1> QED BY <1>1, <1>2

LoadedOf(d) == [d EXCEPT !.rules = {Migrated(r) : r \in @}]

LEMMA LoadedSound ==
    ASSUME NEW d, Sound(d)
    PROVE  Sound(LoadedOf(d)) /\ Modern(LoadedOf(d)) /\ (Modern(d) => LoadedOf(d) = d)
<1> DEFINE rules == {Migrated(r) : r \in d.rules}
<1>1. \A r \in d.rules : r \in Rule
  BY DEF Sound, Doc
<1>2. /\ rules \subseteq Rule
      /\ \A s \in rules : ~IsLegacy(s.route) /\ \E r \in d.rules :
            s = Migrated(r) /\ r.id = s.id /\ r.name = s.name
  BY <1>1, Migration
<1>3. Modern(d) => rules = d.rules
  BY <1>1, Migration DEF Modern
<1>4. LoadedOf(d) = [d EXCEPT !.rules = rules]
  BY DEF LoadedOf, Sound, Doc
<1> HIDE DEF rules
<1>5. LoadedOf(d) \in Doc /\ LoadedOf(d).rules = rules
  BY <1>2, <1>4 DEF Sound, Doc
<1>6. IdsOnce(LoadedOf(d))
  BY <1>2, <1>5 DEF Sound, IdsOnce
<1>7. SeedOnce(LoadedOf(d))
  BY <1>2, <1>5 DEF Sound, SeedOnce
<1>8. Modern(d) => LoadedOf(d) = d
  BY <1>3, <1>4 DEF Sound, Doc
<1> QED BY <1>2, <1>5, <1>6, <1>7, <1>8 DEF Sound, Modern

LEMMA RulesLoaded ==
    ASSUME Sound(doc)
    PROVE  /\ Sound(Loaded) /\ Modern(Loaded) /\ Rules = Loaded.rules /\ Rules \subseteq Rule
           /\ Loaded \in Doc
<1>1. Loaded = LoadedOf(doc)
  BY DEF Loaded, LoadedOf
<1> QED BY <1>1, LoadedSound DEF Sound, Doc, Rules

-----------------------------------------------------------------------------
(* What the writes make of the loaded document. *)
LEMMA WithRules ==
    ASSUME NEW d \in Doc, NEW rules \in SUBSET Rule,
           \A r, s \in rules : r.id = s.id => r = s,
           unsure \/ \A r, s \in rules : r.name = SeedName /\ s.name = SeedName => r = s,
           \A r \in rules : ~IsLegacy(r.route)
    PROVE  LET e == [d EXCEPT !.rules = rules] IN Sound(e) /\ Modern(e)
<1> DEFINE e == [d EXCEPT !.rules = rules]
<1>1. e \in Doc /\ e.rules = rules
  BY DEF Doc
<1> HIDE DEF e
<1>2. Sound(e) /\ Modern(e)
  BY <1>1 DEF Sound, Modern, IdsOnce, SeedOnce
<1> QED BY <1>2 DEF e

LEMMA ReplaceSound ==
    ASSUME Sound(doc), NEW r \in Rules, NEW s \in Rule, s.id = r.id, s.name = r.name,
           ~IsLegacy(s.route)
    PROVE  Sound(Replace(r, s)) /\ Modern(Replace(r, s))
<1> DEFINE rules == (Rules \ {r}) \cup {s}
<1>1. Replace(r, s) = [Loaded EXCEPT !.rules = rules]
  BY RulesLoaded DEF Replace, Doc
<1>2. /\ \A a, b \in Rules : a.id = b.id => a = b
      /\ unsure \/ \A a, b \in Rules : a.name = SeedName /\ b.name = SeedName => a = b
      /\ \A a \in Rules : ~IsLegacy(a.route)
  BY RulesLoaded DEF Sound, IdsOnce, SeedOnce, Modern
<1>3. /\ rules \in SUBSET Rule
      /\ \A a, b \in rules : a.id = b.id => a = b
      /\ unsure \/ \A a, b \in rules : a.name = SeedName /\ b.name = SeedName => a = b
      /\ \A a \in rules : ~IsLegacy(a.route)
  BY <1>2, RulesLoaded
<1> HIDE DEF rules
<1> QED BY <1>1, <1>3, RulesLoaded, WithRules

LEMMA CreateSound ==
    ASSUME Sound(doc), NEW s \in Rule, s.id \in FreeIds, ~IsLegacy(s.route),
           s.name = SeedName => unsure \/ \A r \in Rules : r.name # SeedName
    PROVE  Sound(Replace(Idle, s)) /\ Modern(Replace(Idle, s))
<1> DEFINE rules == (Rules \ {Idle}) \cup {s}
<1>1. Replace(Idle, s) = [Loaded EXCEPT !.rules = rules]
  BY RulesLoaded DEF Replace, Doc
<1>2. /\ \A a, b \in Rules : a.id = b.id => a = b
      /\ unsure \/ \A a, b \in Rules : a.name = SeedName /\ b.name = SeedName => a = b
      /\ \A a \in Rules : ~IsLegacy(a.route)
  BY RulesLoaded DEF Sound, IdsOnce, SeedOnce, Modern
<1>3. \A a \in Rules : a.id # s.id
  BY DEF FreeIds
<1>4. /\ rules \in SUBSET Rule
      /\ \A a, b \in rules : a.id = b.id => a = b
      /\ unsure \/ \A a, b \in rules : a.name = SeedName /\ b.name = SeedName => a = b
      /\ \A a \in rules : ~IsLegacy(a.route)
  BY <1>2, <1>3, RulesLoaded
<1> HIDE DEF rules
<1> QED BY <1>1, <1>4, RulesLoaded, WithRules

LEMMA SubmitKeeps ==
    ASSUME Inv, NEW op \in Writes, NEW d, Sound(d), Modern(d), Submit(op, d), UNCHANGED unsure
    PROVE  Inv'
<1> DEFINE next == [pc |-> "push", op |-> op, doc |-> d, left |-> Target]
<1>1. /\ next \in Job /\ next.pc = "push" /\ next.op = op /\ next.doc = d
      /\ next.left = Target
  BY DEF Job, Sound
<1>2. job' = next /\ job.pc = "idle" /\ UNCHANGED <<doc, live, err, astray, faults>>
  BY DEF Submit, Idle
<1> HIDE DEF next
<1>3. op # "resync" /\ Loaded' = Loaded
  BY <1>2 DEF Writes, Loaded
<1>4. DocumentsOK'
  BY <1>1, <1>2, <1>3 DEF Inv, DocumentsOK, Kept, Sound, Modern, IdsOnce, SeedOnce
<1>5. Applied'
  BY <1>1, <1>2, <1>3 DEF Inv, Applied, Follows, Good
<1>6. Typed'
  BY <1>2, PathRulesAssumption DEF Inv, Typed, Submit
<1> QED BY <1>4, <1>5, <1>6 DEF Inv

LEMMA UpdateKeeps ==
    ASSUME Inv, NEW op \in Writes, NEW r \in Rules, NEW pat \in SUBSET Part,
           NEW on \in BOOLEAN, NEW route \in AttachRoute, NEW force,
           Update(op, r, r.name, pat, on, route, force), UNCHANGED unsure
    PROVE  Inv'
<1> DEFINE s == [r EXCEPT !.name = r.name, !.pat = pat, !.on = on, !.route = route]
<1>0. Sound(doc) /\ r \in Rule
  BY RulesLoaded DEF Inv, DocumentsOK
<1>1. s \in Rule /\ s.id = r.id /\ s.name = r.name /\ s.route = route
  <2> DEFINE a == [r EXCEPT !.name = r.name]
             b == [a EXCEPT !.pat = pat]
             c == [b EXCEPT !.on = on]
             d == [c EXCEPT !.route = route]
  <2>1. route \in Route
    BY DEF Route
  <2>2. s = d
    BY <1>0 DEF Rule
  <2>3. a \in Rule /\ a.id = r.id /\ a.name = r.name
    BY <1>0 DEF Rule
  <2> HIDE DEF s, a
  <2>4. b \in Rule /\ b.id = r.id /\ b.name = r.name
    BY <2>3 DEF Rule
  <2> HIDE DEF b
  <2>5. c \in Rule /\ c.id = r.id /\ c.name = r.name
    BY <2>4 DEF Rule
  <2> HIDE DEF c
  <2>6. d \in Rule /\ d.id = r.id /\ d.name = r.name /\ d.route = route
    BY <2>1, <2>5 DEF Rule
  <2> QED BY <2>2, <2>6
<1>2. Submit(op, Replace(r, s))
  BY DEF Update
<1> HIDE DEF s
<1>3. Sound(Replace(r, s)) /\ Modern(Replace(r, s))
  BY <1>0, <1>1, RouteShapes, ReplaceSound
<1> QED BY <1>2, <1>3, SubmitKeeps

LEMMA CreateKeeps ==
    ASSUME Inv, NEW op \in Writes, NEW name \in {SeedName, Custom}, NEW pat \in SUBSET Part,
           NEW on \in BOOLEAN, NEW route \in AttachRoute, NEW force,
           Create(op, name, pat, on, route, force), UNCHANGED unsure,
           name = SeedName => unsure \/ \A r \in Rules : r.name # SeedName
    PROVE  Inv'
<1>1. PICK i \in FreeIds :
         Submit(op, Replace(Idle, [id |-> i, name |-> name, pat |-> pat, on |-> on,
                                   route |-> route]))
  BY DEF Create
<1> DEFINE s == [id |-> i, name |-> name, pat |-> pat, on |-> on, route |-> route]
<1>2. s \in Rule /\ s.id = i /\ s.name = name /\ s.route = route
  <2>1. route \in Route /\ i \in Id
    BY DEF Route, FreeIds
  <2> QED BY <2>1 DEF Rule
<1> HIDE DEF s
<1>3. Sound(Replace(Idle, s)) /\ Modern(Replace(Idle, s))
  BY <1>2, RouteShapes, CreateSound DEF Inv, DocumentsOK
<1> QED BY <1>1, <1>3, SubmitKeeps DEF s

LEMMA AdministerKeeps ==
    ASSUME Inv, Administer
    PROVE  Inv'
<1>0. /\ Sound(doc) /\ Sound(Loaded) /\ Modern(Loaded) /\ Loaded \in Doc
      /\ Rules = Loaded.rules /\ Rules \subseteq Rule
      /\ Attachments \subseteq AttachRoute /\ NoRoute \in AttachRoute
      /\ {"edit", "new", "add", "seed", "delete", "toggle", "master", "type"} \subseteq Writes
  BY RulesLoaded, RouteShapes, PathRulesAssumption DEF Inv, DocumentsOK, Writes
<1> unsure' = unsure
  BY DEF Administer, seeding
<1>1. ASSUME NEW pat \in SUBSET Part, NEW on \in BOOLEAN, NEW force \in BOOLEAN,
             NEW route \in Attachments, NewRule(pat, on, route, force)
      PROVE  Inv'
  BY <1>0, <1>1, CreateKeeps, PathRulesAssumption DEF NewRule
<1>2. ASSUME NEW pat \in SUBSET Part, NEW on \in BOOLEAN, NEW force \in BOOLEAN,
             NEW route \in Attachments, NEW r \in Rules, EditRule(r, pat, on, route, force)
      PROVE  Inv'
  BY <1>0, <1>2, UpdateKeeps DEF EditRule
<1>3. ASSUME NEW r \in Rules, NEW part \in Part, AddToMain(r, part)
      PROVE  Inv'
  <2>1. r.pat \cup {part} \in SUBSET Part /\ r.on \in BOOLEAN
    BY <1>0 DEF Rule
  <2> QED BY <1>0, <1>3, <2>1, UpdateKeeps DEF AddToMain
<1>4. ASSUME NEW r \in Rules, Delete(r)
      PROVE  Inv'
  <2> DEFINE rules == Rules \ {r}
  <2>1. /\ rules \in SUBSET Rule
        /\ \A a, b \in rules : a.id = b.id => a = b
        /\ unsure \/ \A a, b \in rules : a.name = SeedName /\ b.name = SeedName => a = b
        /\ \A a \in rules : ~IsLegacy(a.route)
    BY <1>0 DEF Sound, IdsOnce, SeedOnce, Modern
  <2>2. Submit("delete", [Loaded EXCEPT !.rules = rules])
    BY <1>0, <1>4 DEF Delete, Doc
  <2> HIDE DEF rules
  <2> QED BY <1>0, <2>1, <2>2, WithRules, SubmitKeeps
<1>5. ASSUME NEW r \in Rules, NEW on \in BOOLEAN, Toggle(r, on)
      PROVE  Inv'
  <2> DEFINE s == [r EXCEPT !.on = on]
  <2>1. s \in Rule /\ s.id = r.id /\ s.name = r.name /\ s.route = r.route
    BY <1>0 DEF Rule
  <2>2. Submit("toggle", Replace(r, s))
    BY <1>5 DEF Toggle
  <2>3. ~IsLegacy(r.route)
    BY <1>0 DEF Modern
  <2> HIDE DEF s
  <2> QED BY <1>0, <2>1, <2>2, <2>3, ReplaceSound, SubmitKeeps
<1>6. ASSUME NEW d \in Doc, d.rules = Rules, NEW op \in Writes, Submit(op, d)
      PROVE  Inv'
  <2>1. Sound(d) /\ Modern(d)
    BY <1>0, <1>6 DEF Sound, IdsOnce, SeedOnce, Modern
  <2> QED BY <1>6, <2>1, SubmitKeeps
<1>7. ASSUME NEW on \in BOOLEAN, SetMaster(on)
      PROVE  Inv'
  <2> DEFINE d == [Loaded EXCEPT !.master = on]
  <2>1. d \in Doc /\ d.rules = Rules
    BY <1>0 DEF Doc
  <2>2. Submit("master", d)
    BY <1>7 DEF SetMaster
  <2> HIDE DEF d
  <2> QED BY <1>0, <1>6, <2>1, <2>2
<1>8. ASSUME NEW ty \in Types, NEW on \in BOOLEAN, SetType(ty, on)
      PROVE  Inv'
  <2> DEFINE less == Loaded.off \ {ty}
             more == Loaded.off \cup {ty}
             a == [Loaded EXCEPT !.off = less, !.master = TRUE]
             b == [Loaded EXCEPT !.off = more]
  <2>1. less \in SUBSET Types /\ more \in SUBSET Types
    BY <1>0 DEF Doc
  <2>2. Submit("type", IF on THEN a ELSE b)
    BY <1>0, <1>8 DEF SetType, Doc
  <2> HIDE DEF less, more
  <2>3. a \in Doc /\ a.rules = Rules
    BY <1>0, <2>1 DEF Doc
  <2>4. b \in Doc /\ b.rules = Rules
    BY <1>0, <2>1 DEF Doc
  <2> HIDE DEF a, b
  <2> QED BY <1>0, <1>6, <2>2, <2>3, <2>4
<1> QED BY <1>1, <1>2, <1>3, <1>4, <1>5, <1>7, <1>8 DEF Administer

-----------------------------------------------------------------------------
(* The seedings.  Loading keeps ids and names. *)
LEMMA LoadedNames ==
    ASSUME Sound(doc)
    PROVE  /\ \A r \in Rules : \E s \in doc.rules : s.id = r.id /\ s.name = r.name
           /\ \A s \in doc.rules : \E r \in Rules : s.id = r.id /\ s.name = r.name
<1>1. \A r \in doc.rules : r \in Rule
  BY DEF Sound, Doc
<1>2. Rules = {Migrated(r) : r \in doc.rules}
  BY DEF Rules, Loaded, Sound, Doc
<1> QED BY <1>1, <1>2, Migration

LEMMA SeedingStays ==
    ASSUME SeedOK, UNCHANGED <<seed, unsure>>,
           \A r \in Present' : \E s \in Present : s.id = r.id /\ s.name = r.name
    PROVE  SeedOK'
BY DEF SeedOK

LEMMA IdlePresent == ASSUME job = Idle PROVE Present = doc.rules
BY DEF Present, Idle, Blank

LEMMA SeedFoundKeeps ==
    ASSUME Inv, SeedOK, NEW pats \in Seedings \ {{}}, NEW known, SeedFound(pats, known),
           \/ known = {}
           \/ \E i \in SeedIds : known = {i},
           faults' \in 0..MaxFaults
    PROVE  Inv' /\ SeedOK'
<1>0. /\ job = Idle /\ UNCHANGED <<doc, live, err, job, astray, requests>>
      /\ seed' = [left |-> pats, known |-> known]
      /\ unsure' = (unsure \/ (known = {} /\ (SeedIds # {} \/ \E p, q \in pats : p # q)))
      /\ Present = doc.rules /\ Present' = Present /\ Loaded' = Loaded
  BY IdlePresent DEF SeedFound, Present, Loaded
<1>1. /\ Sound(doc) /\ Sound(Loaded) /\ Rules = Loaded.rules /\ Rules \subseteq Rule
  BY RulesLoaded DEF Inv, DocumentsOK
<1>2. unsure' \in BOOLEAN /\ (unsure => unsure')
  BY <1>0 DEF SeedOK
<1>3. DocumentsOK'
  BY <1>0, <1>2 DEF Inv, DocumentsOK, Kept, Sound, Modern, IdsOnce, SeedOnce
<1>4. Applied' /\ Typed'
  BY <1>0 DEF Inv, Applied, Typed, Follows, Good
<1>5. /\ seed'.left = pats /\ seed'.known = known /\ pats # {} /\ pats \subseteq SUBSET Part
      /\ known \subseteq Id
  BY <1>0, <1>1, PathRulesAssumption DEF SeedIds, Rule
<1>6. ASSUME NEW r \in Present, r.id \in known PROVE r.name = SeedName
  <2>1. PICK x \in Rules : x.name = SeedName /\ x.id = r.id
    BY <1>6 DEF SeedIds
  <2>2. PICK y \in Rules : y.id = r.id /\ y.name = r.name
    BY <1>0, <1>1, LoadedNames
  <2> QED BY <1>1, <2>1, <2>2 DEF Sound, IdsOnce
<1>7. ASSUME known = {}, ~unsure'
      PROVE  /\ \A r \in Present : r.name # SeedName
             /\ \A p, q \in pats : p = q
  <2>1. SeedIds = {} /\ \A p, q \in pats : p = q
    BY <1>0, <1>7
  <2>2. \A x \in Rules : x.name # SeedName
    BY <2>1 DEF SeedIds
  <2> QED BY <1>0, <1>1, <2>1, <2>2, LoadedNames
<1>8. SeedOK'
  BY <1>0, <1>2, <1>5, <1>6, <1>7 DEF SeedOK
<1> QED BY <1>3, <1>4, <1>8 DEF Inv

(* What is left of a seeding after a call. *)
LEMMA PostedLeaves ==
    ASSUME SeedOK, NEW pat, Posted(pat)
    PROVE  /\ seed'.left = seed.left \ {pat} /\ seed'.known \subseteq seed.known
           /\ seed'.left = {} => seed'.known = {}
           /\ seed'.left # {} => seed'.known = seed.known
           /\ seed.left # {} /\ pat \in seed.left /\ unsure' = unsure
           /\ ~unsure /\ seed.known = {} => seed'.left = {}
<1>1. CASE seed.left = {pat}
  BY <1>1 DEF Posted, NoSeeding, SeedOK
<1>2. CASE seed.left # {pat}
  <2>1. seed' = [seed EXCEPT !.left = @ \ {pat}]
    BY <1>2 DEF Posted
  <2>2. seed.left \ {pat} # {}
    BY <1>2 DEF Posted
  <2>3. ~(\A p, q \in seed.left : p = q)
    BY <1>2 DEF Posted
  <2> QED BY <2>1, <2>2, <2>3 DEF Posted, SeedOK
<1> QED BY <1>1, <1>2

LEMMA SeedPostKeeps ==
    ASSUME Inv, SeedOK, NEW pat \in seed.left, SeedPost(pat) \/ SeedPostFails(pat)
    PROVE  Inv' /\ SeedOK'
<1>0. /\ Posted(pat) /\ unsure' = unsure /\ pat \in SUBSET Part
      /\ Sound(doc) /\ Rules \subseteq Rule /\ "seed" \in Writes
      /\ NoRoute \in AttachRoute
  BY PostedLeaves, RulesLoaded, RouteShapes
     DEF SeedPost, SeedPostFails, SeedOK, Inv, DocumentsOK, Writes
<1>1. ASSUME NEW r \in Rules, r.id \in seed.known,
             Update("seed", r, SeedName, pat, TRUE, NoRoute, FALSE)
      PROVE  Inv' /\ SeedOK'
  <2>1. r.name = SeedName
    <3>1. PICK s \in doc.rules : s.id = r.id /\ s.name = r.name
      BY <1>0, LoadedNames
    <3> QED BY <1>1, <3>1 DEF SeedOK, Present
  <2>2. Inv'
    BY <1>0, <1>1, <2>1, UpdateKeeps
  <2> DEFINE s == [r EXCEPT !.name = SeedName, !.pat = pat, !.on = TRUE, !.route = NoRoute]
  <2>3. job' = [pc |-> "push", op |-> "seed", doc |-> Replace(r, s), left |-> Target]
        /\ doc' = doc
    BY <1>1 DEF Update, Submit
  <2>4. s.name = SeedName
    BY <1>0 DEF Rule
  <2> HIDE DEF s
  <2>5. job'.doc.rules \subseteq Rules \cup {s}
    BY <1>0, <2>3, RulesLoaded DEF Replace, Doc
  <2>6. ASSUME NEW x \in Present', x.id \in seed.known PROVE x.name = SeedName
    <3>1. CASE x = s
      BY <2>4, <3>1
    <3>2. CASE x \in doc.rules
      BY <2>6, <3>2 DEF SeedOK, Present
    <3>3. CASE x \in Rules
      <4>1. PICK y \in doc.rules : y.id = x.id /\ y.name = x.name
        BY <1>0, <3>3, LoadedNames
      <4> QED BY <2>6, <4>1 DEF SeedOK, Present
    <3> QED BY <2>3, <2>5, <3>1, <3>2, <3>3 DEF Present
  <2>7. SeedOK'
    BY <1>0, <1>1, <2>6, PostedLeaves DEF SeedOK
  <2> QED BY <2>2, <2>7
<1>2. ASSUME seed.known = {}, Create("seed", SeedName, pat, TRUE, NoRoute, FALSE)
      PROVE  Inv' /\ SeedOK'
  <2>1. unsure \/ \A r \in Rules : r.name # SeedName
    BY <1>0, <1>2, LoadedNames DEF SeedOK, Present
  <2>2. Inv'
    BY <1>0, <1>2, <2>1, CreateKeeps
  <2>3. SeedOK'
    BY <1>0, <1>2, PostedLeaves DEF SeedOK
  <2> QED BY <2>2, <2>3
<1>3. ASSUME SeedPostFails(pat) PROVE Inv' /\ SeedOK'
  <2>0. UNCHANGED faults \/ (faults < MaxFaults /\ faults' = faults + 1)
    BY <1>3 DEF SeedPostFails, Fault
  <2>1. /\ UNCHANGED <<doc, live, err, job, astray, requests>> /\ faults' \in 0..MaxFaults
        /\ Loaded' = Loaded /\ Present' = Present
    BY <1>3, <2>0, PathRulesAssumption DEF SeedPostFails, Inv, Typed, Loaded, Present
  <2>2. DocumentsOK'
    BY <1>0, <2>1 DEF Inv, DocumentsOK, Kept, Sound, Modern, IdsOnce, SeedOnce
  <2>3. Applied' /\ Typed'
    BY <2>1 DEF Inv, Applied, Typed, Follows, Good
  <2>4. SeedOK'
    BY <1>0, <2>1, PostedLeaves DEF SeedOK
  <2> QED BY <2>2, <2>3, <2>4 DEF Inv
<1> QED BY <1>1, <1>2, <1>3 DEF SeedPost

LEMMA SeedKeeps ==
    ASSUME Inv, SeedOK, Seed
    PROVE  Inv' /\ SeedOK'
<1>1. ASSUME NEW pats \in Seedings \ {{}}, SeedList(pats) PROVE Inv' /\ SeedOK'
  <2>1. faults' \in 0..MaxFaults
    BY <1>1 DEF SeedList, Inv, Typed
  <2> QED BY <1>1, <2>1, SeedFoundKeeps DEF SeedList
<1>2. ASSUME NEW pats \in Seedings \ {{}}, SeedListFails(pats) PROVE Inv' /\ SeedOK'
  <2>1. faults' \in 0..MaxFaults
    BY <1>2, PathRulesAssumption DEF SeedListFails, Fault, Inv, Typed
  <2> QED BY <1>2, <2>1, SeedFoundKeeps DEF SeedListFails
<1> QED BY <1>1, <1>2, SeedPostKeeps DEF Seed

(* The other steps leave the seeding alone, and put nothing new on its way. *)
LEMMA SeedUntouched ==
    ASSUME Inv, SeedOK,
           \/ Administer \/ Work \/ Resync \/ SaveFails \/ ResyncBlind \/ Crash
           \/ \E t \in Target : Pull(t) \/ PushFails(t)
           \/ UNCHANGED vars
    PROVE  SeedOK'
<1>0. /\ UNCHANGED <<seed, unsure>> /\ Idle.doc.rules = {} /\ Blank.rules = {}
      /\ Sound(doc) /\ job \in Job
  BY DEF Administer, Work, Resync, SaveFails, ResyncBlind, Crash, Pull, PushFails, Push, Save,
         SaveAudit, Resynced, vars, seeding, Idle, Blank, Inv, DocumentsOK
<1>1. CASE Administer
  BY <1>0, <1>1 DEF Administer, SeedOK
<1>2. ASSUME doc' \in {doc, job.doc}, job'.doc.rules \subseteq Present PROVE SeedOK'
  BY <1>0, <1>2, SeedingStays DEF Present
<1>3. CASE Save
  <2>1. doc' = job.doc /\ (job' = Idle \/ job' = [job EXCEPT !.pc = "audit"])
    BY <1>3 DEF Save
  <2> QED BY <1>0, <1>2, <2>1 DEF Job, Present
<1>4. CASE SaveAudit \/ SaveFails \/ Resynced \/ Crash
  BY <1>0, <1>2, <1>4 DEF SaveAudit, SaveFails, Resynced, Crash
<1>5. CASE \E t \in Target : Push(t) \/ PushFails(t)
  <2>1. doc' = doc /\ \E t \in Target : job' = [job EXCEPT !.left = @ \ {t}]
    BY <1>5 DEF Push, PushFails
  <2> QED BY <1>0, <1>2, <2>1 DEF Job, Present
<1>6. CASE (\E t \in Target : Pull(t)) \/ UNCHANGED vars
  BY <1>2, <1>6 DEF Pull, vars, Present
<1>7. CASE Resync
  <2>1. doc' = doc /\ job'.doc.rules = Rules
    BY <1>7 DEF Resync, Rules
  <2>2. \A r \in Present' : \E s \in Present : s.id = r.id /\ s.name = r.name
    BY <1>0, <2>1, LoadedNames DEF Present
  <2> QED BY <1>0, <2>2, SeedingStays
<1>8. CASE ResyncBlind
  BY <1>0, <1>2, <1>8 DEF ResyncBlind
<1> QED BY <1>1, <1>3, <1>4, <1>5, <1>6, <1>7, <1>8 DEF Work

-----------------------------------------------------------------------------
(* The render, the saves and the faults. *)
LEMMA EnforcedType == ASSUME NEW d \in Doc, NEW t PROVE Enforced(d, t) \in SUBSET Part
BY DEF Enforced, Patterns, Doc, Rule

LEMMA PushKeeps ==
    ASSUME Inv, NEW t \in Target, Push(t) \/ PushFails(t)
    PROVE  Inv'
<1> DEFINE next == [job EXCEPT !.left = @ \ {t}]
<1>0. /\ t \in job.left /\ job' = next /\ UNCHANGED <<doc, astray, unsure, requests>>
      /\ job.pc = "push"
  BY DEF Push, PushFails, Inv, DocumentsOK, seeding
<1>1. /\ next \in Job /\ next.pc = job.pc /\ next.op = job.op /\ next.doc = job.doc
      /\ next.left = job.left \ {t} /\ job.doc \in Doc
  BY <1>0 DEF Inv, DocumentsOK, Sound, Job
<1> HIDE DEF next
<1>2. Loaded' = Loaded
  BY <1>0 DEF Loaded
<1>3. DocumentsOK'
  BY <1>0, <1>1, <1>2 DEF Inv, DocumentsOK, Kept, Sound, Modern, IdsOnce, SeedOnce
<1>4. \A u \in Target \ {t} : live'[u] = live[u] /\ err'[u] = err[u]
  BY DEF Push, PushFails, Inv, Typed
<1>5. err'[t] = "ok" /\ Type[t] \notin Pulled => live'[t] = Enforced(job.doc, t)
  BY DEF Push, PushFails, Inv, Typed
<1>6. Applied'
  <2>1. \A u \in Target \ next.left :
           err'[u] = "ok" /\ Type[u] \notin Pulled => live'[u] = Enforced(job.doc, u)
    BY <1>0, <1>1, <1>4, <1>5 DEF Inv, Applied, Follows, Good
  <2>2. ~astray => \A u \in next.left :
           err'[u] = "ok" /\ Type[u] \notin Pulled => live'[u] = Enforced(Loaded, u)
    BY <1>0, <1>1, <1>4 DEF Inv, DocumentsOK, Applied, Follows, Good, Job
  <2> QED BY <1>0, <1>1, <1>2, <2>1, <2>2 DEF Applied, Follows, Good
<1>7. Typed'
  BY <1>0, <1>1, EnforcedType, PathRulesAssumption DEF Inv, Typed, Push, PushFails, Fault
<1> QED BY <1>3, <1>6, <1>7 DEF Inv

LEMMA IdleJob == /\ Idle \in Job /\ Sound(Idle.doc) /\ Idle.pc = "idle" /\ Idle.left = {}
                 /\ Sound(Blank) /\ Modern(Blank)
BY DEF Idle, Job, Writes, Sound, Doc, Blank, IdsOnce, SeedOnce, Modern

(* The lock is let go and the saved document stays. *)
LEMMA LetGo ==
    ASSUME Inv, job' = Idle, UNCHANGED <<doc, unsure>>, Typed',
           ~astray' => \A t \in Target : Follows(Loaded, t)'
    PROVE  Inv'
<1>1. DocumentsOK'
  BY IdleJob DEF Inv, DocumentsOK, Kept, Sound, IdsOnce, SeedOnce
<1>2. Applied'
  BY IdleJob DEF Applied
<1> QED BY <1>1, <1>2 DEF Inv

LEMMA SaveKeeps ==
    ASSUME Inv, Save
    PROVE  Inv'
<1>0. /\ job.pc = "push" /\ job.left = {} /\ doc' = job.doc /\ astray' = FALSE
      /\ UNCHANGED <<live, err, unsure, requests, faults>>
      /\ job \in Job /\ Sound(job.doc) /\ Modern(job.doc)
  BY DEF Save, Rendered, Inv, DocumentsOK, seeding
<1>1. LoadedOf(job.doc) = job.doc
  BY <1>0, LoadedSound
<1>2. Loaded' = job.doc
  BY <1>0, <1>1 DEF Loaded, LoadedOf
<1>3. \A t \in Target : Good(t) => live[t] = Enforced(job.doc, t)
  BY <1>0 DEF Inv, Applied, Follows
<1>4. Typed'
  BY <1>0 DEF Inv, Typed
<1> DEFINE next == [job EXCEPT !.pc = "audit"]
<1>5. next \in Job /\ next.pc = "audit" /\ next.doc = job.doc /\ next.left = job.left
  BY <1>0 DEF Job
<1>6. job' \in {Idle, next}
  BY DEF Save
<1> HIDE DEF next
<1>7. /\ Sound(job'.doc) /\ job' \in Job /\ job'.left = {} /\ job'.pc # "push"
      /\ job' = Idle \/ job'.pc = "audit"
  BY <1>0, <1>5, <1>6, IdleJob
<1>8. DocumentsOK'
  BY <1>0, <1>7 DEF DocumentsOK, Kept, Sound, IdsOnce, SeedOnce
<1>9. Applied'
  BY <1>0, <1>2, <1>3, <1>7 DEF Applied, Follows, Good
<1> QED BY <1>4, <1>8, <1>9 DEF Inv

LEMMA EndKeeps ==
    ASSUME Inv, SaveFails \/ SaveAudit \/ Resynced \/ Crash
    PROVE  Inv'
<1>0. job' = Idle /\ UNCHANGED <<doc, live, unsure, requests>> /\ Loaded' = Loaded
  BY DEF SaveFails, SaveAudit, Resynced, Crash, Loaded, seeding
<1>1. CASE SaveFails
  <2>1. Typed' /\ astray'
    BY <1>1, PathRulesAssumption DEF Inv, Typed, SaveFails, Fault
  <2> QED BY <1>0, <2>1, LetGo
<1>2. CASE SaveAudit
  <2>1. job.pc = "audit" /\ UNCHANGED <<live, err, astray, requests, faults>>
    BY <1>2 DEF SaveAudit
  <2>2. Typed'
    BY <2>1 DEF Inv, Typed
  <2>3. ~astray' => \A t \in Target : Follows(Loaded, t)'
    BY <1>0, <2>1 DEF Inv, Applied, Follows, Good
  <2> QED BY <1>0, <2>2, <2>3, LetGo
<1>3. CASE Resynced
  <2>1. /\ job.pc = "push" /\ job.left = {} /\ job.op \in {"resync", "blind"}
        /\ astray' = (job.op = "blind") /\ UNCHANGED <<live, err, requests, faults>>
    BY <1>3 DEF Resynced, Rendered
  <2>2. astray' \in BOOLEAN
    BY <2>1
  <2>3. Typed'
    BY <2>1, <2>2 DEF Inv, Typed
  <2>4. ~astray' => job.doc = Loaded
    BY <2>1 DEF Inv, DocumentsOK
  <2>5. ~astray' => \A t \in Target : Follows(Loaded, t)'
    BY <1>0, <2>1, <2>4 DEF Inv, Applied, Follows, Good
  <2> QED BY <1>0, <2>3, <2>5, LetGo
<1>4. CASE Crash
  <2>1. \A t \in Target : err'[t] = "unknown"
    BY <1>4 DEF Crash
  <2>2. Typed'
    BY <1>4, PathRulesAssumption DEF Inv, Typed, Crash, Fault
  <2>3. \A t \in Target : Follows(Loaded, t)'
    BY <2>1 DEF Follows, Good
  <2> QED BY <1>0, <2>2, <2>3, LetGo
<1> QED BY <1>1, <1>2, <1>3, <1>4

LEMMA PullKeeps ==
    ASSUME Inv, NEW t \in Target, Pull(t)
    PROVE  Inv'
<1>1. /\ job = Idle /\ Type[t] \in Pulled /\ UNCHANGED <<doc, err, job, astray, unsure, requests, faults>>
      /\ live' = [live EXCEPT ![t] = Enforced(Loaded, t)] /\ Loaded' = Loaded
  BY DEF Pull, Loaded, seeding
<1>2. Loaded \in Doc
  BY RulesLoaded DEF Inv, DocumentsOK
<1>3. Typed'
  BY <1>1, <1>2, EnforcedType DEF Inv, Typed
<1>4. \A u \in Target : Type[u] \notin Pulled => live'[u] = live[u]
  BY <1>1 DEF Inv, Typed
<1>5. ~astray' => \A u \in Target : Follows(Loaded, u)'
  BY <1>1, <1>4, IdleJob DEF Inv, Applied, Follows, Good
<1> QED BY <1>1, <1>3, <1>5, LetGo

LEMMA ResyncKeeps ==
    ASSUME Inv, Resync \/ ResyncBlind
    PROVE  Inv'
<1>0. /\ job = Idle /\ UNCHANGED <<doc, live, err, astray, unsure, requests>> /\ Loaded' = Loaded
      /\ Sound(Loaded) /\ Modern(Loaded)
  BY RulesLoaded DEF Resync, ResyncBlind, Loaded, Inv, DocumentsOK, seeding
<1>1. ASSUME NEW op \in {"resync", "blind"}, NEW d, Sound(d), Modern(d),
             op = "resync" => d = Loaded, Typed',
             job' = [pc |-> "push", op |-> op, doc |-> d, left |-> Target]
      PROVE  Inv'
  <2> DEFINE next == [pc |-> "push", op |-> op, doc |-> d, left |-> Target]
  <2>1. /\ next \in Job /\ next.pc = "push" /\ next.op = op /\ next.doc = d
        /\ next.left = Target
    BY <1>1 DEF Job, Sound
  <2>2. job' = next
    BY <1>1
  <2> HIDE DEF next
  <2>3. DocumentsOK'
    BY <1>0, <1>1, <2>1, <2>2 DEF Inv, DocumentsOK, Kept, Sound, Modern, IdsOnce, SeedOnce
  <2>4. Applied'
    BY <1>0, <2>1, <2>2, IdleJob DEF Inv, Applied, Follows, Good
  <2> QED BY <1>1, <2>3, <2>4 DEF Inv
<1>2. CASE Resync
  <2>1. Typed'
    BY <1>2 DEF Inv, Typed, Resync
  <2> QED BY <1>0, <1>1, <1>2, <2>1 DEF Resync
<1>3. CASE ResyncBlind
  <2>1. Typed'
    BY <1>3, PathRulesAssumption DEF Inv, Typed, ResyncBlind, Fault
  <2> QED BY <1>1, <1>3, <2>1, IdleJob DEF ResyncBlind
<1> QED BY <1>2, <1>3

-----------------------------------------------------------------------------
LEMMA InitInv == Init => Inv
<1> SUFFICES ASSUME Init PROVE Inv
  OBVIOUS
<1>1. Sound(doc)
  BY PathRulesAssumption DEF Init, Documented, Sound, Doc, IdsOnce, SeedOnce
<1>2. DocumentsOK
  BY <1>1, IdleJob DEF Init, DocumentsOK, Kept
<1>3. Applied
  <2>1. job.pc = "idle" /\ \A t \in Target : err[t] = "unknown"
    BY IdleJob DEF Init
  <2> QED BY <2>1 DEF Applied, Follows, Good
<1>4. Typed
  <2>1. astray \in BOOLEAN
    BY DEF Init
  <2>2. live \in [Target -> SUBSET Part] /\ err \in [Target -> {"unknown", "ok", "failed"}]
    BY DEF Init
  <2>3. requests \in 0..MaxRequests /\ faults \in 0..MaxFaults
    BY PathRulesAssumption DEF Init
  <2> QED BY <2>1, <2>2, <2>3 DEF Typed
<1> QED BY <1>2, <1>3, <1>4 DEF Inv

LEMMA InitSeed == Init => SeedOK
<1> SUFFICES ASSUME Init PROVE SeedOK
  OBVIOUS
<1>1. seed.left = {} /\ seed.known = {} /\ unsure \in BOOLEAN
  BY DEF Init, NoSeeding
<1> QED BY <1>1 DEF SeedOK

LEMMA StepKeeps == Inv /\ SeedOK /\ [Next]_vars => Inv' /\ SeedOK'
<1> SUFFICES ASSUME Inv, SeedOK, [Next]_vars PROVE Inv' /\ SeedOK'
  OBVIOUS
<1>1. CASE UNCHANGED vars
  <2>1. /\ UNCHANGED <<doc, live, err, job, astray, unsure, requests, faults>>
        /\ Loaded' = Loaded
    BY <1>1 DEF vars, seeding, Loaded
  <2>2. DocumentsOK'
    BY <2>1 DEF Inv, DocumentsOK, Kept, Sound, Modern, IdsOnce, SeedOnce
  <2>3. Applied' /\ Typed'
    BY <2>1 DEF Inv, Applied, Typed, Follows, Good
  <2> QED BY <1>1, <2>2, <2>3, SeedUntouched DEF Inv
<1>2. CASE Administer
  BY <1>2, AdministerKeeps, SeedUntouched
<1>3. CASE Seed
  BY <1>3, SeedKeeps
<1>4. CASE Save
  BY <1>4, SaveKeeps, SeedUntouched DEF Work
<1>5. CASE SaveFails \/ SaveAudit \/ Resynced \/ Crash
  BY <1>5, EndKeeps, SeedUntouched DEF Work
<1>6. CASE Resync \/ ResyncBlind
  BY <1>6, ResyncKeeps, SeedUntouched
<1>7. ASSUME NEW t \in Target, Push(t) \/ PushFails(t) PROVE Inv' /\ SeedOK'
  BY <1>7, PushKeeps, SeedUntouched DEF Work
<1>8. ASSUME NEW t \in Target, Pull(t) PROVE Inv' /\ SeedOK'
  BY <1>8, PullKeeps, SeedUntouched
<1> QED BY <1>1, <1>2, <1>3, <1>4, <1>5, <1>6, <1>7, <1>8 DEF Next, Work

(* Every variable has its type, and an id never names two rules: what toggle   *)
(* and upsert change is the rule that was meant.                               *)
THEOREM TypeCorrect == Spec => []TypeOK
<1>1. Inv /\ SeedOK => TypeOK
  BY DEF Inv, DocumentsOK, Typed, Sound, Doc, IdsOnce, Job, Documented, SeedOK, TypeOK
<1> QED BY <1>1, InitInv, InitSeed, StepKeeps, PTL DEF Spec

(* A target on record as good enforces the saved rules between any two writes, *)
(* whatever failed, with any number of targets, pushed one by one (_render).   *)
THEOREM GoodTargetsMatch == Spec => []AppliedMatchesRules
<1>1. Inv => AppliedMatchesRules
  BY IdleJob DEF Inv, Applied, Follows, Good, AppliedMatchesRules
<1> QED BY <1>1, InitInv, InitSeed, StepKeeps, PTL DEF Spec

(* However often a seeding is repeated, one rule has the seed's name, while no *)
(* seeding posts without knowing of the rule: main.py:2787 takes a listing     *)
(* that failed for an empty one, and two patterns of one new name are both     *)
(* created.  path_seed looks the name up once, before it posts; the event loop *)
(* of the dashboard keeps every other writer out until the seeding is done.    *)
THEOREM TheSeedIsOnce == Spec => []SeededOnce
<1>1. Inv /\ SeedOK => SeededOnce
  <2> SUFFICES ASSUME Inv, ~unsure
               PROVE  Cardinality({r \in doc.rules : r.name = SeedName}) <= 1
    BY DEF SeededOnce
  <2> DEFINE seeds == {r \in doc.rules : r.name = SeedName}
  <2>1. \A r, s \in seeds : r = s
    BY DEF Inv, DocumentsOK, Sound, SeedOnce
  <2> HIDE DEF seeds
  <2>2. CASE seeds = {}
    BY <2>2, FS_EmptySet DEF seeds
  <2>3. CASE seeds # {}
    <3>1. PICK r : seeds = {r}
      BY <2>1, <2>3
    <3>2. Cardinality(seeds) = 1
      BY <3>1, FS_Singleton
    <3> QED BY <3>2 DEF seeds
  <2> QED BY <2>2, <2>3
<1> QED BY <1>1, InitInv, InitSeed, StepKeeps, PTL DEF Spec
=============================================================================
