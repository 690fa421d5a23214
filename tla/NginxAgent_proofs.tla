-------------------------- MODULE NginxAgent_proofs --------------------------
(***************************************************************************)
(* Theorems about NginxAgent, for every value of its constants.            *)
(***************************************************************************)
EXTENDS NginxAgent, TLAPS

(* The files at every step of a poll, unless one broke off halfway: until the *)
(* first write they work, then prev remembers files that do, and the          *)
(* roll-back brings them back.                                                *)
FilesInv ==
    /\ files \in Files /\ prev \in Files
    /\ pc \in {"idle", "fetching", "write_http", "write_server", "test", "reload",
               "undo_http", "undo_server"}
    /\ got \in Snippets /\ served \in Snippets /\ cut \in BOOLEAN
    /\ pc = "reload" => Valid(files) /\ ~cut
    /\ pc \in {"idle", "fetching", "write_http"} => cut \/ Valid(files)
    /\ pc \in {"write_http", "write_server", "test", "undo_http", "undo_server"} =>
          cut \/ Valid(prev)
    /\ pc = "undo_server" => files.http = prev.http

LEMMA FilesInit == Init => FilesInv
<1> SUFFICES ASSUME Init PROVE FilesInv
  OBVIOUS
<1>1. cut \in BOOLEAN /\ cut = FALSE
  BY DEF Init
<1> QED
  BY <1>1, AgentAssumption DEF Init, FilesInv, NoFiles, Files, Pairs, Snippets, Valid

(* A step that replaces one file keeps both of them files.                  *)
LEMMA ReplaceType ==
    ASSUME FilesInv, NEW file \in {"http", "server"}, NEW body,
           body \in (IF file = "http" THEN Http ELSE Server) \cup {Missing},
           files' = [files EXCEPT ![file] = body]
    PROVE  files' \in Files
BY DEF FilesInv, Files, Pairs

LEMMA FilesStep ==
    ASSUME FilesInv, [Next]_vars
    PROVE  FilesInv'
<1> USE DEF FilesInv
<1>1. CASE UNCHANGED vars
  BY <1>1 DEF vars, Valid
<1>2. CASE Enroll \/ EnrollUnsaved \/ EnrollLost
  BY <1>2 DEF Enroll, EnrollUnsaved, EnrollLost, Mint, Valid
<1>3. CASE FetchHttp
  BY <1>3 DEF FetchHttp, Valid, Snippets, Pairs
<1>4. CASE FetchServer
  BY <1>4 DEF FetchServer, Valid, Snippets, Pairs
<1>5. CASE FetchFails \/ Refused
  BY <1>5 DEF FetchFails, Refused, vars, Valid
<1>6. CASE WriteHttp
  <2>1. files' \in Files
    BY <1>6, ReplaceType DEF WriteHttp, Replace, Snippets, Pairs
  <2> QED BY <1>6, <2>1 DEF WriteHttp, Replace, Valid
<1>7. CASE WriteServer
  <2>1. files' \in Files
    BY <1>7, ReplaceType DEF WriteServer, Replace, Snippets, Pairs
  <2> QED BY <1>7, <2>1 DEF WriteServer, Replace, Valid
<1>8. CASE Test
  <2>1. /\ pc = "test" /\ UNCHANGED <<served, got, prev, files>>
        /\ pc' = IF Valid(files) THEN "reload" ELSE "undo_http"
        /\ cut' = (cut /\ ~Valid(files))
    BY <1>8 DEF Test
  <2>2. CASE Valid(files)
    BY <2>1, <2>2 DEF Valid
  <2>3. CASE ~Valid(files)
    <3>1. pc' = "undo_http" /\ cut' = cut
      BY <2>1, <2>3
    <3> QED BY <2>1, <3>1 DEF Valid
  <2> QED BY <2>2, <2>3
<1>9. CASE UndoHttp
  <2>1. files' \in Files
    BY <1>9, ReplaceType DEF UndoHttp, Replace, Files, Pairs
  <2>2. files'.http = prev'.http
    BY <1>9 DEF UndoHttp, Replace, Files, Pairs
  <2> QED BY <1>9, <2>1, <2>2 DEF UndoHttp, Replace, Valid
<1>10. CASE UndoServer
  <2>1. files' = prev
    BY <1>10 DEF UndoServer, Replace, Files, Pairs
  <2> QED BY <1>10, <2>1 DEF UndoServer, Replace, Valid
<1>11. CASE WriteFails \/ Crash
  <2>1. pc' = "idle" /\ UNCHANGED <<served, got, prev, files>> /\ cut' = (cut \/ Halfway)
    BY <1>11 DEF WriteFails, Crash
  <2>2. cut' \in BOOLEAN
    BY <2>1
  <2>3. cut' \/ Valid(files)
    BY <2>1 DEF Halfway
  <2> QED BY <2>1, <2>2, <2>3 DEF Valid
<1>12. CASE Reload \/ ReloadFails
  BY <1>12 DEF Reload, ReloadFails, Valid
<1>13. CASE ChangeServed \/ Revoke \/ Stop \/ Start \/ ReloadByOthers
  BY <1>13 DEF ChangeServed, Revoke, Stop, Start, ReloadByOthers, Valid
<1> QED
  BY <1>1, <1>2, <1>3, <1>4, <1>5, <1>6, <1>7, <1>8, <1>9, <1>10, <1>11, <1>12, <1>13
  DEF Next

(* Nginx can be started from the files on the disk between any two polls,     *)
(* whatever the API serves, however often it changes, whoever stops or        *)
(* reloads nginx and whatever polls were killed before: apply_once rolls a    *)
(* rejected snippet back whole.  Only after a poll that broke off halfway may *)
(* the files be anything, until a test passes again.                          *)
THEOREM RestAlwaysValid == Spec => []RestIsValid
<1>1. FilesInv => RestIsValid
  BY DEF FilesInv, RestIsValid
<1>2. FilesInv /\ [Next]_vars => FilesInv'
  BY FilesStep
<1> QED BY <1>1, <1>2, FilesInit, PTL DEF Spec
-----------------------------------------------------------------------------
(* An enrolment beyond the first takes a fault: without a token no more were *)
(* minted than faults happened, with one no more than one more.             *)
TypeInv ==
    /\ TypeOK
    /\ faults \in 0..MaxFaults
    /\ minted <= faults + 1
    /\ token = 0 => minted <= faults

LEMMA TypeInit == Init => TypeInv
<1> SUFFICES ASSUME Init PROVE TypeInv
  OBVIOUS
<1>1. cut \in BOOLEAN /\ disturbed \in BOOLEAN
  BY DEF Init
<1> QED
  BY <1>1, AgentAssumption DEF Init, TypeInv, TypeOK, NoFiles, Files, Pairs, Snippets

LEMMA TypeStep ==
    ASSUME TypeInv, [Next]_vars
    PROVE  TypeInv'
<1>0. cut' \in BOOLEAN /\ disturbed' \in BOOLEAN
  BY Zenon DEF TypeInv, TypeOK, Next, vars, Enroll, EnrollUnsaved, EnrollLost, Mint, FetchHttp,
     FetchServer, FetchFails, Refused, WriteHttp, WriteServer, Test, UndoHttp, UndoServer,
     Replace, WriteFails, Reload, ReloadFails, Crash, ChangeServed, Revoke, Stop, Start,
     ReloadByOthers
<1> USE <1>0, AgentAssumption DEF TypeInv, TypeOK
<1>1. CASE UNCHANGED vars
  BY <1>1 DEF vars
<1>2. CASE Enroll
  BY <1>2 DEF Enroll, Mint
<1>3. CASE EnrollUnsaved
  BY <1>3 DEF EnrollUnsaved, Mint, Fault
<1>4. CASE EnrollLost
  BY <1>4 DEF EnrollLost, Mint, Fault
<1>5. CASE FetchHttp
  BY <1>5 DEF FetchHttp, Snippets, Pairs
<1>6. CASE FetchServer
  BY <1>6 DEF FetchServer, Snippets, Pairs
<1>7. CASE FetchFails \/ WriteFails
  BY <1>7 DEF FetchFails, WriteFails, Fault
<1>8. CASE Refused
  BY <1>8 DEF Refused, vars
<1>9. CASE WriteHttp \/ WriteServer \/ UndoHttp \/ UndoServer
  <2>1. files' \in Files
    BY <1>9 DEF WriteHttp, WriteServer, UndoHttp, UndoServer, Replace, Snippets,
                Files, Pairs
  <2>2. UNCHANGED <<served, registry, token, stateFile, got, prev, last, running, minted, faults>>
    BY <1>9 DEF WriteHttp, WriteServer, UndoHttp, UndoServer, Replace
  <2>3. pc' \in {"idle", "write_server", "test", "undo_server"}
    BY <1>9 DEF WriteHttp, WriteServer, UndoHttp, UndoServer, Replace
  <2> QED BY <2>1, <2>2, <2>3
<1>10. CASE Test \/ Reload \/ ReloadFails
  BY <1>10 DEF Test, Reload, ReloadFails
<1>11. CASE Crash
  BY <1>11 DEF Crash, Fault
<1>12. CASE ChangeServed
  BY <1>12 DEF ChangeServed
<1>13. CASE Revoke \/ Stop \/ ReloadByOthers
  BY <1>13 DEF Revoke, Stop, ReloadByOthers, Fault
<1>14. CASE Start
  BY <1>14 DEF Start
<1> QED
  BY <1>1, <1>2, <1>3, <1>4, <1>5, <1>6, <1>7, <1>8, <1>9, <1>10, <1>11, <1>12,
     <1>13, <1>14
  DEF Next

(* The agent's state keeps its types, and it enrols at most once more than   *)
(* enrolments are lost, left unsaved or forgotten: ensure_enrolled asks for  *)
(* a token only while it has none.                                           *)
THEOREM TypeCorrect == Spec => []TypeOK
<1>1. TypeInv => TypeOK
  BY DEF TypeInv
<1>2. TypeInv /\ [Next]_vars => TypeInv'
  BY TypeStep
<1> QED BY <1>1, <1>2, TypeInit, PTL DEF Spec
=============================================================================
