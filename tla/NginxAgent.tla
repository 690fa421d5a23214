----------------------------- MODULE NginxAgent -----------------------------
(***************************************************************************)
(* The agent of one nginx VM (deploy/agent/soc-nginx-agent.py): it enrolls *)
(* once, then polls the rendered denylist of its node, writes it into two  *)
(* files, tests them, reloads nginx, and puts the old files back when the  *)
(* test fails.  Bodies of files are opaque; some of them nginx rejects.    *)
(***************************************************************************)
EXTENDS Naturals

CONSTANTS
    Http, Server,  \* bodies the API renders for the two files
    Missing,       \* the body of a file that is not there
    Down,          \* what a stopped nginx runs
    None,          \* the agent has applied nothing yet
    Bad,           \* the bodies nginx -t rejects
    Faults,        \* the kinds of fault a run allows
    MaxChanges,    \* bound on the changes of what the API serves
    MaxFaults      \* bound on the faults

ASSUME AgentAssumption ==
    /\ Bad \subseteq Http \cup Server
    /\ Missing \notin Http \cup Server
    /\ MaxChanges \in Nat /\ MaxFaults \in Nat

Pairs(H, S) == [http : H, server : S]
Snippets == Pairs(Http, Server)
Files == Pairs(Http \cup {Missing}, Server \cup {Missing})

ASSUME MarkersAssumption == Down \notin Files /\ None \notin Snippets

VARIABLES
    served,    \* what the API renders for this node
    registry,  \* the token the API holds for this node, 0 for none
    token,     \* _node_token
    stateFile, \* the token in STATE_FILE
    pc,        \* where apply_once is
    got,       \* the snippet it works on
    prev,      \* prev_http and prev_server
    files,     \* HTTP_FILE and SERVER_FILE
    last,      \* state["last"]
    running,   \* the files nginx has loaded
    minted, changes, faults,
    cut,       \* ghost: a poll broke off after its first write, none passed the test since
    disturbed  \* ghost: nginx was stopped or reloaded by someone else

vars == <<served, registry, token, stateFile, pc, got, prev, files, last, running,
          minted, changes, faults, cut, disturbed>>

(* nginx -t: both bodies parse, and $soc_blocked is defined where it is used. *)
Valid(f) ==
    /\ f.http \notin Bad /\ f.server \notin Bad
    /\ f.server # Missing => f.http # Missing

NoFiles == [http |-> Missing, server |-> Missing]

Init ==
    /\ served \in Snippets
    /\ registry = 0 /\ token = 0 /\ stateFile = 0 /\ minted = 0
    /\ pc = "idle"
    /\ got = served
    /\ prev = NoFiles
    /\ files = NoFiles
    /\ last = None
    /\ running = NoFiles
    /\ changes = 0
    /\ faults = 0
    /\ cut = FALSE /\ disturbed = FALSE

Fault(kind) ==
    /\ kind \in Faults
    /\ faults < MaxFaults
    /\ faults' = faults + 1

(***************************************************************************)
(* ensure_enrolled: tried before every poll until the agent has a token.   *)
(***************************************************************************)
Mint ==
    /\ pc = "idle"
    /\ token = 0
    /\ minted' = minted + 1
    /\ registry' = minted'
    /\ UNCHANGED <<served, pc, got, prev, files, last, running, changes, cut, disturbed>>

Enroll == Mint /\ token' = minted' /\ stateFile' = minted' /\ UNCHANGED faults

(* The token could not be persisted: it is used until the agent restarts. *)
EnrollUnsaved == Mint /\ Fault("state") /\ token' = minted' /\ UNCHANGED stateFile

(* The API enrolled the node, and the answer was lost. *)
EnrollLost == Mint /\ Fault("enroll") /\ UNCHANGED <<token, stateFile>>

-----------------------------------------------------------------------------
(* apply_once.  The API reads the bans and the path rules under two separate *)
(* acquisitions of its lock, so a change can fall between the two.           *)
FetchHttp ==
    /\ pc = "idle"
    /\ token # 0 /\ token = registry
    /\ got' = [got EXCEPT !.http = served.http]
    /\ pc' = "fetching"
    /\ UNCHANGED <<served, registry, token, stateFile, prev, files, last, running,
                   minted, changes, faults, cut, disturbed>>

(* Mutant: only the bans are compared with what was applied last. *)
FetchServer_ComparesHttp ==
    /\ pc = "fetching"
    /\ got' = [got EXCEPT !.server = served.server]
    /\ IF last # None /\ got'.http = last.http
       THEN pc' = "idle" /\ UNCHANGED prev
       ELSE pc' = "write_http" /\ prev' = files
    /\ UNCHANGED <<served, registry, token, stateFile, files, last, running,
                   minted, changes, faults, cut, disturbed>>

FetchServer ==
    /\ pc = "fetching"
    /\ got' = [got EXCEPT !.server = served.server]
    /\ IF got' = last
       THEN pc' = "idle" /\ UNCHANGED prev
       ELSE pc' = "write_http" /\ prev' = files
    /\ UNCHANGED <<served, registry, token, stateFile, files, last, running,
                   minted, changes, faults, cut, disturbed>>

FetchFails ==
    /\ pc = "fetching"
    /\ Fault("fetch")
    /\ pc' = "idle"
    /\ UNCHANGED <<served, registry, token, stateFile, got, prev, files, last, running,
                   minted, changes, cut, disturbed>>

(* The API does not know the token: the current files stay. *)
Refused == pc = "idle" /\ token # 0 /\ token # registry /\ UNCHANGED vars

(* One file is replaced: written beside it, synced, renamed; or removed. *)
Replace(at, file, body, next) ==
    /\ pc = at
    /\ files' = [files EXCEPT ![file] = body]
    /\ pc' = next
    /\ UNCHANGED <<served, registry, token, stateFile, got, prev, last, running,
                   minted, changes, faults, cut, disturbed>>

WriteHttp == Replace("write_http", "http", got.http, "write_server")
WriteServer == Replace("write_server", "server", got.server, "test")

Test ==
    /\ pc = "test"
    /\ pc' = IF Valid(files) THEN "reload" ELSE "undo_http"
    /\ cut' = (cut /\ ~Valid(files))
    /\ UNCHANGED <<served, registry, token, stateFile, got, prev, files, last, running,
                   minted, changes, faults, disturbed>>

(* Mutant: only the first file is put back. *)
UndoHttp_Only == Replace("undo_http", "http", prev.http, "idle")

UndoHttp == Replace("undo_http", "http", prev.http, "undo_server")

(* Mutant: the files that were put back count as a snippet applied. *)
UndoServer_Caches ==
    /\ pc = "undo_server"
    /\ files' = [files EXCEPT !.server = prev.server]
    /\ last' = files'
    /\ pc' = "idle"
    /\ UNCHANGED <<served, registry, token, stateFile, got, prev, running,
                   minted, changes, faults, cut, disturbed>>

UndoServer == Replace("undo_server", "server", prev.server, "idle")

(* Between the first write and the verdict of nginx -t, or its roll-back. *)
Halfway == pc \in {"write_server", "test", "undo_http", "undo_server"}

(* A write raises: the loop logs it, and the next poll starts over. *)
WriteFails ==
    /\ pc \in {"write_http", "write_server", "undo_http", "undo_server"}
    /\ Fault("write")
    /\ pc' = "idle"
    /\ cut' = (cut \/ Halfway)
    /\ UNCHANGED <<served, registry, token, stateFile, got, prev, files, last, running,
                   minted, changes, disturbed>>

Reload ==
    /\ pc = "reload"
    /\ running # Down
    /\ running' = files
    /\ last' = got
    /\ pc' = "idle"
    /\ UNCHANGED <<served, registry, token, stateFile, got, prev, files,
                   minted, changes, faults, cut, disturbed>>

(* There is no nginx to signal. *)
ReloadFails ==
    /\ pc = "reload"
    /\ running = Down
    /\ pc' = "idle"
    /\ UNCHANGED <<served, registry, token, stateFile, got, prev, files, last, running,
                   minted, changes, faults, cut, disturbed>>

(* The agent is restarted: only the two files and STATE_FILE are left. *)
Crash ==
    /\ Fault("crash")
    /\ pc' = "idle"
    /\ last' = None
    /\ token' = stateFile
    /\ cut' = (cut \/ Halfway)
    /\ UNCHANGED <<served, registry, stateFile, got, prev, files, running,
                   minted, changes, disturbed>>

Poll == FetchHttp \/ FetchServer \/ WriteHttp \/ WriteServer \/ Test
        \/ UndoHttp \/ UndoServer \/ Reload \/ ReloadFails

-----------------------------------------------------------------------------
(* The world around the agent. *)
ChangeServed ==
    /\ changes < MaxChanges
    /\ changes' = changes + 1
    /\ served' \in Snippets \ {served}
    /\ UNCHANGED <<registry, token, stateFile, pc, got, prev, files, last, running,
                   minted, faults, cut, disturbed>>

Revoke ==
    /\ registry # 0
    /\ Fault("revoke")
    /\ registry' = 0
    /\ UNCHANGED <<served, token, stateFile, pc, got, prev, files, last, running,
                   minted, changes, cut, disturbed>>

Stop ==
    /\ running # Down
    /\ Fault("stop")
    /\ running' = Down
    /\ disturbed' = TRUE
    /\ UNCHANGED <<served, registry, token, stateFile, pc, got, prev, files, last,
                   minted, changes, cut>>

(* nginx is started: it loads the files that are on the disk. *)
Start ==
    /\ running = Down
    /\ Valid(files)
    /\ running' = files
    /\ UNCHANGED <<served, registry, token, stateFile, pc, got, prev, files, last,
                   minted, changes, faults, cut, disturbed>>

(* Someone else reloads nginx, to renew a certificate for instance. *)
ReloadByOthers ==
    /\ running # Down
    /\ Valid(files)
    /\ Fault("reload")
    /\ running' = files
    /\ disturbed' = TRUE
    /\ UNCHANGED <<served, registry, token, stateFile, pc, got, prev, files, last,
                   minted, changes, cut>>

Next ==
    \/ Enroll \/ EnrollUnsaved \/ EnrollLost
    \/ FetchHttp \/ FetchServer \/ FetchFails \/ Refused
    \/ WriteHttp \/ WriteServer \/ Test \/ UndoHttp \/ UndoServer \/ WriteFails
    \/ Reload \/ ReloadFails \/ Crash
    \/ ChangeServed \/ Revoke \/ Stop \/ Start \/ ReloadByOthers

Spec == Init /\ [][Next]_vars

(* The agent polls for ever, and a stopped nginx is started again. *)
FairSpec == Spec /\ WF_vars(Poll) /\ WF_vars(Enroll) /\ WF_vars(Start)

-----------------------------------------------------------------------------
TypeOK ==
    /\ served \in Snippets /\ got \in Snippets
    /\ files \in Files /\ prev \in Files
    /\ last \in Snippets \cup {None}
    /\ running \in Files \cup {Down}
    /\ pc \in {"idle", "fetching", "write_http", "write_server", "test", "reload",
               "undo_http", "undo_server"}
    /\ registry \in 0..minted /\ token \in 0..minted /\ stateFile \in 0..minted
    /\ minted \in 0..(MaxFaults + 1)
    /\ cut \in BOOLEAN /\ disturbed \in BOOLEAN

(* Between two polls nginx can be started from the files on the disk, also     *)
(* after the failed test of a rejected snippet, a reload that failed or a      *)
(* revoked token: unless a poll was killed, or a write of it failed, between   *)
(* its first write and its verdict, and no test has passed since.              *)
RestIsValid == pc = "idle" /\ ~cut => Valid(files)

(* Once the API stops changing a snippet nginx accepts, nginx runs it, while   *)
(* the API knows the agent and nobody else has touched nginx: once a reload    *)
(* failed on a stopped nginx, or someone reloaded half-written files, nginx    *)
(* may run something else than state["last"], and the agent writes nothing     *)
(* when the API serves that again.                                             *)
Converges == <>[](Valid(served) /\ token = registry /\ ~disturbed => running = served)
=============================================================================
