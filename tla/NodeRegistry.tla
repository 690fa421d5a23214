---------------------------- MODULE NodeRegistry ----------------------------
(***************************************************************************)
(* The node registry of the blocklist API (nodes.py): one stored document  *)
(* behind a read-through cache that lives for a second.  cf_targets.py and *)
(* environments.py keep their documents in the same way.                   *)
(*                                                                         *)
(* Writers hold _LOCK.  Readers do not: a reader that misses the cache     *)
(* loads the document and fills the cache in two steps.  A writer changes  *)
(* the very dictionary the cache holds, saves it, and drops the cache.     *)
(***************************************************************************)
EXTENDS Integers

CONSTANTS
    Node,        \* ids of nodes
    Reader,      \* threads that read without the lock
    Faults,      \* the kinds of fault a run allows
    MaxWrites,   \* bound on the calls of writers
    MaxFaults    \* bound on the faults

ASSUME RegistryAssumption ==
    /\ MaxWrites \in Nat /\ MaxFaults \in Nat
    /\ Faults \subseteq {"save", "restart"}

VARIABLES
    disk,     \* nodes.json: the token of each node, 0 when it is not there
    cache,    \* _cache["d"]
    fresh,    \* the cache is younger than _CACHE_TTL
    wpc,      \* where the call that holds _LOCK is
    call,     \* what that call does
    dict,     \* the dictionary it works on
    shared,   \* the cache holds that same dictionary
    rpc,      \* where each reader is in _load
    loaded,   \* what each reader has loaded
    acked,    \* what the last call on each node was told: its token, or 0
    minted,   \* tokens minted
    writes, faults

vars == <<disk, cache, fresh, wpc, call, dict, shared, rpc, loaded, acked, minted,
          writes, faults>>

Token == 0..MaxWrites
Nodes == [Node -> Token]
NoCache == [n \in {} |-> 0]
Unsure == -1     \* the call failed, or was cut off: its caller knows nothing

Init ==
    /\ disk = [n \in Node |-> 0]
    /\ cache = NoCache
    /\ fresh = FALSE
    /\ wpc = "idle"
    /\ call = [op |-> "none"]
    /\ dict = disk
    /\ shared = FALSE
    /\ rpc = [r \in Reader |-> "idle"]
    /\ loaded = [r \in Reader |-> disk]
    /\ acked = disk
    /\ minted = 0
    /\ writes = 0
    /\ faults = 0

Fault(kind) ==
    /\ kind \in Faults
    /\ faults < MaxFaults
    /\ faults' = faults + 1

(* Mutant: the age of the cache is not looked at. *)
Hit_NoTTL == cache # NoCache

Hit == cache # NoCache /\ fresh

(***************************************************************************)
(* A call of a writer: load, change in place, save, invalidate.            *)
(***************************************************************************)
Call(op, n) ==
    /\ wpc = "idle"
    /\ writes < MaxWrites
    /\ writes' = writes + 1
    /\ wpc' = "change"
    /\ call' = [op |-> op, node |-> n]
    /\ dict' = IF Hit THEN cache ELSE disk
    /\ cache' = dict'
    /\ fresh' = TRUE
    /\ shared' = TRUE
    /\ UNCHANGED <<disk, rpc, loaded, acked, minted, faults>>

Update(token) ==
    /\ dict' = [dict EXCEPT ![call.node] = token]
    /\ cache' = IF shared THEN dict' ELSE cache
    /\ wpc' = "save"

Enroll ==
    /\ wpc = "change" /\ call.op = "enroll"
    /\ minted' = minted + 1
    /\ Update(minted')
    /\ UNCHANGED <<disk, fresh, call, shared, rpc, loaded, acked, writes, faults>>

(* Mutant: a deleted node leaves a tombstone in the document. *)
Delete_Tombstone ==
    /\ wpc = "change" /\ call.op = "delete"
    /\ dict[call.node] # 0
    /\ Update(Unsure)
    /\ UNCHANGED <<disk, fresh, call, shared, rpc, loaded, acked, minted, writes, faults>>

Delete ==
    /\ wpc = "change" /\ call.op = "delete"
    /\ dict[call.node] # 0
    /\ Update(0)
    /\ UNCHANGED <<disk, fresh, call, shared, rpc, loaded, acked, minted, writes, faults>>

(* Mutant: a heartbeat of an unknown node registers it again. *)
Heartbeat_Upserts ==
    /\ wpc = "change" /\ call.op = "heartbeat"
    /\ Update(IF dict[call.node] # 0 THEN dict[call.node] ELSE minted)
    /\ UNCHANGED <<disk, fresh, call, shared, rpc, loaded, acked, minted, writes, faults>>

Heartbeat ==
    /\ wpc = "change" /\ call.op = "heartbeat"
    /\ dict[call.node] # 0
    /\ Update(dict[call.node])
    /\ UNCHANGED <<disk, fresh, call, shared, rpc, loaded, acked, minted, writes, faults>>

(* A heartbeat or a delete of a node the dictionary does not know. *)
Unknown ==
    /\ wpc = "change" /\ call.op # "enroll"
    /\ dict[call.node] = 0
    /\ wpc' = "idle"
    /\ UNCHANGED <<disk, cache, fresh, call, dict, shared, rpc, loaded, acked, minted,
                   writes, faults>>

Save ==
    /\ wpc = "save"
    /\ disk' = dict
    /\ wpc' = "saved"
    /\ UNCHANGED <<cache, fresh, call, dict, shared, rpc, loaded, acked, minted,
                   writes, faults>>

CutOff == acked' = IF call.op = "heartbeat" THEN acked
                   ELSE [acked EXCEPT ![call.node] = Unsure]

(* The save raises: the cache keeps the change nobody could store. *)
SaveFails ==
    /\ wpc = "save"
    /\ Fault("save")
    /\ wpc' = "idle"
    /\ CutOff
    /\ UNCHANGED <<disk, cache, fresh, call, dict, shared, rpc, loaded, minted, writes>>

Invalidate ==
    /\ wpc = "saved"
    /\ cache' = NoCache
    /\ fresh' = FALSE
    /\ shared' = FALSE
    /\ wpc' = "idle"
    /\ acked' = IF call.op = "heartbeat" THEN acked
                ELSE [acked EXCEPT ![call.node] = dict[call.node]]
    /\ UNCHANGED <<disk, call, dict, rpc, loaded, minted, writes, faults>>

(***************************************************************************)
(* _load in a thread that does not hold the lock.                          *)
(***************************************************************************)
Miss(r) ==
    /\ rpc[r] = "idle"
    /\ ~Hit
    /\ rpc' = [rpc EXCEPT ![r] = "load"]
    /\ UNCHANGED <<disk, cache, fresh, wpc, call, dict, shared, loaded, acked, minted,
                   writes, faults>>

Load(r) ==
    /\ rpc[r] = "load"
    /\ loaded' = [loaded EXCEPT ![r] = disk]
    /\ rpc' = [rpc EXCEPT ![r] = "fill"]
    /\ UNCHANGED <<disk, cache, fresh, wpc, call, dict, shared, acked, minted,
                   writes, faults>>

Fill(r) ==
    /\ rpc[r] = "fill"
    /\ cache' = loaded[r]
    /\ fresh' = TRUE
    /\ shared' = FALSE
    /\ rpc' = [rpc EXCEPT ![r] = "idle"]
    /\ UNCHANGED <<disk, wpc, call, dict, loaded, acked, minted, writes, faults>>

(* A second passes. *)
Expire ==
    /\ fresh
    /\ fresh' = FALSE
    /\ UNCHANGED <<disk, cache, wpc, call, dict, shared, rpc, loaded, acked, minted,
                   writes, faults>>

Restart ==
    /\ Fault("restart")
    /\ cache' = NoCache
    /\ fresh' = FALSE
    /\ shared' = FALSE
    /\ wpc' = "idle"
    /\ rpc' = [r \in Reader |-> "idle"]
    /\ IF wpc = "idle" THEN UNCHANGED acked ELSE CutOff
    /\ UNCHANGED <<disk, call, dict, loaded, minted, writes>>

Write == Enroll \/ Delete \/ Heartbeat \/ Unknown \/ Save \/ SaveFails \/ Invalidate

Next ==
    \/ \E op \in {"enroll", "delete", "heartbeat"}, n \in Node : Call(op, n)
    \/ Write
    \/ \E r \in Reader : Miss(r) \/ Load(r) \/ Fill(r)
    \/ Expire
    \/ Restart

Spec == Init /\ [][Next]_vars

(* A call goes on once it has the lock, a reader goes on, seconds pass. *)
FairSpec ==
    /\ Spec
    /\ WF_vars(Write)
    /\ WF_vars(Expire)
    /\ \A r \in Reader : WF_vars(Load(r)) /\ WF_vars(Fill(r))

-----------------------------------------------------------------------------
TypeOK ==
    /\ disk \in Nodes
    /\ cache \in Nodes \cup {NoCache}
    /\ fresh \in BOOLEAN /\ shared \in BOOLEAN
    /\ wpc \in {"idle", "change", "save", "saved"}
    /\ dict \in Nodes
    /\ rpc \in [Reader -> {"idle", "load", "fill"}]
    /\ loaded \in [Reader -> Nodes]
    /\ acked \in [Node -> Token \cup {Unsure}]
    /\ minted \in Token

(* An enrollment or a revocation that was answered is what the registry      *)
(* holds, until the next call on that node: neither another node's           *)
(* heartbeat nor a save that fails elsewhere undoes it.                      *)
AcksKept ==
    \A n \in Node : \/ acked[n] = Unsure
                    \/ disk[n] = acked[n]
                    \/ wpc = "saved" /\ call.node = n

(* Once the writers have stopped, what a read answers is the stored document: *)
(* a stale fill of the cache lasts at most one more lifetime of it.           *)
ReadsConverge == <>[](Hit => cache = disk)
=============================================================================
