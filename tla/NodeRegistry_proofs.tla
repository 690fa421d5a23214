------------------------- MODULE NodeRegistry_proofs -------------------------
(***************************************************************************)
(* Theorems about NodeRegistry, for any nodes, readers, calls and faults.  *)
(***************************************************************************)
EXTENDS NodeRegistry, TLAPS

Op == {"enroll", "delete", "heartbeat"}
Counted ==
    /\ call \in [op : Op, node : Node] \/ wpc = "idle"
    /\ writes \in 0..MaxWrites /\ faults \in Nat
    /\ minted <= writes /\ (wpc = "change" => minted + 1 <= writes)
Typed == TypeOK /\ Counted

(* What is known of a node is in every copy of the document, unless the call *)
(* that holds the lock is changing it; then the stored one has it still.     *)
InHand(n) == wpc \in {"save", "saved"} /\ call.node = n /\ call.op # "heartbeat"
Agreed ==
    /\ wpc = "saved" => disk = dict
    /\ \A n \in Node : acked[n] # Unsure =>
          IF InHand(n) THEN wpc = "save" => disk[n] = acked[n]
          ELSE /\ disk[n] = acked[n]
               /\ cache # NoCache => cache[n] = acked[n]
               /\ wpc # "idle" => dict[n] = acked[n]
-----------------------------------------------------------------------------
LEMMA InitTyped == Init => Typed
<1> SUFFICES ASSUME Init PROVE Typed
  OBVIOUS
<1> DEFINE none == [n \in Node |-> 0]
<1>1. none \in Nodes /\ none \in [Node -> Token \cup {Unsure}] /\ 0 \in Token
  BY RegistryAssumption DEF Nodes, Token
<1>2. /\ disk = none /\ dict = none /\ acked = none /\ cache = NoCache
      /\ loaded = [r \in Reader |-> none] /\ rpc = [r \in Reader |-> "idle"]
      /\ wpc = "idle" /\ minted = 0 /\ writes = 0 /\ faults = 0
  BY DEF Init
<1>3. fresh \in BOOLEAN /\ shared \in BOOLEAN
  BY DEF Init
<1> HIDE DEF none
<1>4. TypeOK
  BY <1>1, <1>2, <1>3 DEF TypeOK
<1> QED BY <1>2, <1>4, RegistryAssumption DEF Typed, Counted

LEMMA UpdateTo ==
    ASSUME TypeOK, Counted, Enroll \/ Delete \/ Heartbeat
    PROVE  \E token \in Token :
              Update(token) /\ (call.op = "heartbeat" => token = dict[call.node])
<1>1. CASE Enroll
  <2>1. minted' \in Token
    BY <1>1, RegistryAssumption DEF Enroll, Counted, TypeOK, Token
  <2>2. /\ dict' = [dict EXCEPT ![call.node] = minted']
        /\ cache' = IF shared THEN dict' ELSE cache
        /\ wpc' = "save" /\ call.op # "heartbeat"
    BY <1>1 DEF Enroll, Update
  <2> QED BY <2>1, <2>2 DEF Update
<1>2. CASE Delete
  <2>1. 0 \in Token
    BY RegistryAssumption DEF Token
  <2>2. Update(0) /\ call.op # "heartbeat"
    BY <1>2 DEF Delete
  <2> QED BY <2>1, <2>2
<1>3. CASE Heartbeat
  BY <1>3 DEF Heartbeat, Update, Counted, TypeOK, Nodes
<1> QED BY <1>1, <1>2, <1>3

LEMMA UpdateType ==
    ASSUME TypeOK, NEW token \in Token, Update(token)
    PROVE  /\ dict' \in Nodes /\ cache' \in Nodes \cup {NoCache}
           /\ wpc' = "save"
BY DEF TypeOK, Update, Nodes

LEMMA CutOffType ==
    ASSUME TypeOK, CutOff
    PROVE  acked' \in [Node -> Token \cup {Unsure}]
BY DEF TypeOK, CutOff

LEMMA StepTyped == Typed /\ [Next]_vars => Typed'
<1> SUFFICES ASSUME Typed, [Next]_vars PROVE Typed'
  OBVIOUS
<1>0. TypeOK /\ Counted /\ MaxWrites \in Nat
  BY RegistryAssumption DEF Typed
<1>1. CASE UNCHANGED vars
  BY <1>0, <1>1 DEF vars, TypeOK, Counted, Typed
<1>2. ASSUME NEW op \in Op, NEW n \in Node, Call(op, n) PROVE Typed'
  <2>1. dict' \in Nodes /\ cache' = dict'
    BY <1>0, <1>2 DEF Call, TypeOK, Hit
  <2>2. call' \in [op : Op, node : Node] /\ wpc' = "change" /\ writes' = writes + 1
    BY <1>2 DEF Call
  <2>3. fresh' \in BOOLEAN /\ shared' \in BOOLEAN
    BY <1>2 DEF Call
  <2>4. TypeOK'
    BY <1>0, <1>2, <2>1, <2>2, <2>3 DEF Call, TypeOK
  <2>5. Counted'
    BY <1>0, <1>2, <2>2 DEF Call, TypeOK, Counted, Token
  <2> QED BY <2>4, <2>5 DEF Typed
<1>3. CASE Enroll \/ Delete \/ Heartbeat
  <2>1. /\ wpc = "change"
        /\ UNCHANGED <<disk, fresh, call, shared, rpc, loaded, acked, writes, faults>>
        /\ call \in [op : Op, node : Node] /\ minted' \in Token /\ minted' <= writes
    <3>1. CASE Enroll
      BY <1>0, <3>1 DEF Enroll, Counted, TypeOK, Token
    <3>2. CASE Delete \/ Heartbeat
      BY <1>0, <3>2 DEF Delete, Heartbeat, Counted, TypeOK, Token
    <3> QED BY <1>3, <3>1, <3>2
  <2>5. \E token \in Token : Update(token)
    BY <1>0, <1>3, <2>1, UpdateTo
  <2>2. dict' \in Nodes /\ cache' \in Nodes \cup {NoCache} /\ wpc' = "save"
    BY <1>0, <2>5, UpdateType
  <2>3. TypeOK'
    BY <1>0, <2>1, <2>2 DEF TypeOK
  <2>4. Counted'
    <3>1. writes \in 0..MaxWrites /\ faults \in Nat
      BY <1>0 DEF Counted
    <3>2. call' = call /\ writes' = writes /\ faults' = faults
      BY <2>1
    <3> QED BY <2>1, <2>2, <3>1, <3>2 DEF Counted
  <2> QED BY <2>3, <2>4 DEF Typed
<1>4. CASE Unknown
  BY <1>0, <1>4 DEF Unknown, Typed, TypeOK, Counted, Token
<1>5. CASE Save
  BY <1>0, <1>5 DEF Save, Typed, TypeOK, Counted, Token
<1>6. CASE SaveFails
  BY <1>0, <1>6, CutOffType DEF SaveFails, Fault, Typed, TypeOK, Counted, Token
<1>7. CASE Invalidate
  <2>1. acked' \in [Node -> Token \cup {Unsure}]
    BY <1>0, <1>7 DEF Invalidate, TypeOK, Nodes, Counted
  <2>2. fresh' \in BOOLEAN /\ shared' \in BOOLEAN
    BY <1>7 DEF Invalidate
  <2> QED BY <1>0, <1>7, <2>1, <2>2 DEF Invalidate, Typed, TypeOK, Counted, Token
<1>8. ASSUME NEW r \in Reader, Miss(r) \/ Load(r) \/ Fill(r) PROVE Typed'
  <2>1. rpc' \in [Reader -> {"idle", "load", "fill"}] /\ loaded' \in [Reader -> Nodes]
    BY <1>0, <1>8 DEF Miss, Load, Fill, TypeOK
  <2>2. cache' \in Nodes \cup {NoCache} /\ fresh' \in BOOLEAN /\ shared' \in BOOLEAN
    BY <1>0, <1>8 DEF Miss, Load, Fill, TypeOK
  <2>3. UNCHANGED <<disk, wpc, call, dict, acked, minted, writes, faults>>
    BY <1>8 DEF Miss, Load, Fill
  <2> QED BY <1>0, <2>1, <2>2, <2>3 DEF Typed, TypeOK, Counted
<1>9. CASE Expire
  <2>1. fresh' \in BOOLEAN
    BY <1>9 DEF Expire
  <2> QED BY <1>0, <1>9, <2>1 DEF Expire, Typed, TypeOK, Counted
<1>10. CASE Restart
  <2>1. acked' \in [Node -> Token \cup {Unsure}]
    BY <1>0, <1>10, CutOffType DEF Restart, TypeOK
  <2>2. fresh' \in BOOLEAN /\ shared' \in BOOLEAN
    BY <1>10 DEF Restart
  <2>3. rpc' \in [Reader -> {"idle", "load", "fill"}]
    BY <1>10 DEF Restart
  <2> QED BY <1>0, <1>10, <2>1, <2>2, <2>3 DEF Restart, Fault, Typed, TypeOK, Counted, Token
<1> QED BY <1>1, <1>2, <1>3, <1>4, <1>5, <1>6, <1>7, <1>8, <1>9, <1>10 DEF Next, Write, Op

(* Every variable has its type, whatever the readers put into the cache and  *)
(* wherever a call is cut off; a node that is gone leaves nothing behind.    *)
THEOREM TypeCorrect == Spec => []TypeOK
<1>1. Typed => TypeOK
  BY DEF Typed
<1> QED BY <1>1, InitTyped, StepTyped, PTL DEF Spec
-----------------------------------------------------------------------------
(* Without readers the copies agree. *)
LEMMA InitAgreed == Init => Agreed
BY DEF Init, Agreed, InHand

LEMMA StepAgreed == Reader = {} /\ Typed /\ Agreed /\ [Next]_vars => Agreed'
<1> SUFFICES ASSUME Reader = {}, Typed, Agreed, [Next]_vars PROVE Agreed'
  OBVIOUS
<1>0. TypeOK /\ Counted /\ Unsure \notin Token
  BY RegistryAssumption DEF Typed, Unsure, Token
<1>1. CASE UNCHANGED vars
  BY <1>1 DEF vars, Agreed, InHand
<1>2. ASSUME NEW op \in Op, NEW n \in Node, Call(op, n) PROVE Agreed'
  <2>1. wpc = "idle" /\ wpc' = "change" /\ dict' = cache' /\ dict' \in {disk, cache}
    BY <1>2 DEF Call
  <2>2. dict' = cache => cache # NoCache \/ dict' = disk
    BY <1>2 DEF Call, Hit
  <2>3. UNCHANGED <<disk, acked>>
    BY <1>2 DEF Call
  <2> QED BY <2>1, <2>2, <2>3 DEF Agreed, InHand
<1>3. ASSUME NEW token \in Token, Update(token), wpc = "change",
             UNCHANGED <<disk, call, acked>>,
             call.op = "heartbeat" => token = dict[call.node]
      PROVE  Agreed'
  <2>1. wpc' = "save" /\ dict \in Nodes /\ call.node \in Node
    BY <1>0, <1>3 DEF Update, TypeOK, Counted
  <2>2. \A n \in Node : n # call.node \/ call.op = "heartbeat" => dict'[n] = dict[n]
    BY <1>3, <2>1 DEF Update, Nodes
  <2>3. cache' \in {dict', cache}
    BY <1>3 DEF Update
  <2> SUFFICES ASSUME NEW n \in Node, acked[n] # Unsure
               PROVE  /\ disk[n] = acked[n]
                      /\ n # call.node \/ call.op = "heartbeat" =>
                            /\ cache' # NoCache => cache'[n] = acked[n]
                            /\ dict'[n] = acked[n]
    BY <1>3, <2>1 DEF Agreed, InHand
  <2>4. disk[n] = acked[n] /\ dict[n] = acked[n] /\ (cache # NoCache => cache[n] = acked[n])
    BY <1>3 DEF Agreed, InHand
  <2> QED BY <2>2, <2>3, <2>4
<1>4. CASE Enroll \/ Delete \/ Heartbeat
  <2>1. PICK token \in Token :
           Update(token) /\ (call.op = "heartbeat" => token = dict[call.node])
    BY <1>0, <1>4, UpdateTo
  <2>2. wpc = "change" /\ UNCHANGED <<disk, call, acked>>
    BY <1>4 DEF Enroll, Delete, Heartbeat
  <2> QED BY <1>3, <2>1, <2>2
<1>5. CASE Unknown
  BY <1>5 DEF Unknown, Agreed, InHand
<1>6. CASE Save
  BY <1>6 DEF Save, Agreed, InHand
<1>7. CASE SaveFails
  BY <1>0, <1>7 DEF SaveFails, CutOff, Agreed, InHand, TypeOK
<1>8. CASE Invalidate
  BY <1>0, <1>8 DEF Invalidate, Agreed, InHand, TypeOK, Counted
<1>9. CASE Expire
  BY <1>9 DEF Expire, Agreed, InHand
<1>10. CASE Restart
  BY <1>0, <1>10 DEF Restart, CutOff, Agreed, InHand, TypeOK, Counted
<1> QED BY <1>1, <1>2, <1>4, <1>5, <1>6, <1>7, <1>8, <1>9, <1>10 DEF Next, Write, Op

(* If every reader held the lock too, an enrollment or a revocation that was  *)
(* answered would be what the registry holds until the next call on that node, *)
(* over failed saves and restarts: what the run Registry_race shows to be lost *)
(* is lost to readers that fill the cache beside a writer (nodes.py _load).    *)
THEOREM TheLockKeepsAcks ==
    ASSUME Reader = {}
    PROVE  Spec => []AcksKept
<1>1. Agreed => AcksKept
  BY DEF Agreed, AcksKept, InHand
<1> QED BY <1>1, InitTyped, InitAgreed, StepTyped, StepAgreed, PTL DEF Spec
=============================================================================
