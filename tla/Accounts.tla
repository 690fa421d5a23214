------------------------------ MODULE Accounts ------------------------------
(***************************************************************************)
(* Accounts and sessions of the dashboard: auth.py, and in main.py the     *)
(* middleware auth_gate and the handlers of /api/auth and /api/users.      *)
(*                                                                         *)
(* A request passes the gate, waits for its body (await request.json()),   *)
(* and is then handled in one step of the event loop.  What the gate saw   *)
(* may be out of date by then.  Passwords are right or wrong; a TOTP code  *)
(* is the pair of a secret and a 30-second step, and a tick is one step.   *)
(***************************************************************************)
EXTENDS Integers, FiniteSets

CONSTANTS
    User, Ip,
    Root,          \* BASIC_AUTH_USER: the admin of the first start
    MaxFails,      \* _LOCKOUT_MAX, failures from one address
    MaxUserFails,  \* _LOCKOUT_MAX_USER, failures from all addresses
    Window,        \* _LOCKOUT_WINDOW, in ticks
    Ttl,           \* _SESSION_TTL, in ticks
    MaxTime, MaxRequests, MaxRestarts

ASSUME AccountsAssumption ==
    /\ Root \in User
    /\ {MaxFails, MaxUserFails, Window, Ttl, MaxTime, MaxRequests, MaxRestarts} \subseteq Nat

VARIABLES
    users,      \* the table users: a row for each name, NoRow when there is none
    life,       \* how often each account has been created
    cookies,    \* the session cookies handed out
    revoked,    \* those a logout, a password change or a deletion has ended
    flight,     \* what the gate has let through for each user, "none" or a right
    fails, userFails,  \* _fails, _fails_user: the logins that failed
    tried, triedUser,  \* ghosts: all that failed since the last good login from that
                       \* address, or of that account, however long ago
    used,       \* _totp_used: consumed codes and when
    entered,    \* codes a login was let in with
    pending,    \* _pending_totp
    secrets,    \* TOTP secrets made so far
    now, requests, restarts

guard == <<fails, userFails, tried, triedUser, used, entered>>
bounds == <<now, restarts>>
vars == <<users, life, cookies, revoked, flight, guard, pending, secrets, requests, bounds>>

NoRow == [role |-> "none", totp |-> 0, epoch |-> 0]
Secret == 0..MaxRequests      \* 0: none
Row == [role : {"admin", "viewer"}, totp : Secret, epoch : Nat]
Cookie == [user : User, epoch : Nat, exp : Nat, life : Nat]
Code == [user : User, secret : Secret, step : Int]
Failure == [ts : Nat, n : Nat]

Exists(u) == users[u] # NoRow
IsAdmin(u) == users[u].role = "admin"
NoFails == [u \in User |-> [i \in Ip |-> {}]]
NoUserFails == [u \in User |-> {}]

Init ==
    /\ users = [u \in User |-> IF u = Root THEN [NoRow EXCEPT !.role = "admin"] ELSE NoRow]
    /\ life = [u \in User |-> 0]
    /\ cookies = {} /\ revoked = {}
    /\ flight = [u \in User |-> "none"]
    /\ fails = NoFails /\ userFails = NoUserFails
    /\ tried = NoFails /\ triedUser = NoUserFails
    /\ used = {} /\ entered = {}
    /\ pending = [u \in User |-> 0]
    /\ secrets = 0
    /\ now = 0 /\ requests = 0 /\ restarts = 0

Request == requests < MaxRequests /\ requests' = requests + 1

-----------------------------------------------------------------------------
(* authenticate: one step, it awaits nothing.  The list of the times at which *)
(* logins failed is the set of those failures: each has its time, and its     *)
(* number among those of that time.                                           *)
Recent(S) == {f \in S : now - f.ts < Window}
WithFail(S) ==
    Recent(S) \cup {[ts |-> now, n |-> Cardinality({f \in Recent(S) : f.ts = now})]}
WithTry(S) == S \cup {[ts |-> now, n |-> Cardinality({f \in S : f.ts = now})]}

(* Mutant: the failures of one address are counted, not those of the account. *)
Locked_PerIp(u, i) == Cardinality(Recent(fails[u][i])) >= MaxFails

Locked(u, i) ==
    \/ Cardinality(Recent(fails[u][i])) >= MaxFails
    \/ Cardinality(Recent(userFails[u])) >= MaxUserFails

NoteFail(u, i) ==
    /\ fails' = [fails EXCEPT ![u][i] = WithFail(@)]
    /\ userFails' = [userFails EXCEPT ![u] = WithFail(@)]
    /\ tried' = [tried EXCEPT ![u][i] = WithTry(@)]
    /\ triedUser' = [triedUser EXCEPT ![u] = WithTry(@)]

(* A good login: from whatever address, it clears the list of the account. *)
ClearFails(u, i) ==
    /\ fails' = [fails EXCEPT ![u][i] = {}]
    /\ userFails' = [userFails EXCEPT ![u] = {}]
    /\ tried' = [tried EXCEPT ![u][i] = {}]
    /\ triedUser' = [triedUser EXCEPT ![u] = {}]

Issue(u, row, n) == cookies' = cookies \cup
    {[user |-> u, epoch |-> row.epoch, exp |-> now + Ttl, life |-> n]}

CodesOf(u) == {[user |-> u, secret |-> users[u].totp, step |-> now + w] : w \in -1..1}

(* Mutant: a consumed code is forgotten after one step. *)
Unexpired_OneStep == {c \in used : now - c.ts <= 1}
Unexpired == {c \in used : now - c.ts <= 3}

Consumed(code) == \E c \in Unexpired : c.code = code

(* A wrong password, an unknown name, a wrong code or one that was used. *)
LoginFails(u, i) ==
    /\ ~Locked(u, i)
    /\ Request
    /\ NoteFail(u, i)
    /\ UNCHANGED <<users, life, cookies, revoked, flight, used, entered, pending, secrets, bounds>>

Login(u, i) ==
    /\ ~Locked(u, i) /\ Exists(u)
    /\ Request
    /\ IF users[u].totp = 0 THEN UNCHANGED <<used, entered>>
       ELSE \E code \in CodesOf(u) :
               /\ ~Consumed(code)
               /\ used' = Unexpired \cup {[code |-> code, ts |-> now]}
               /\ entered' = entered \cup {code}
    /\ ClearFails(u, i)
    /\ Issue(u, users[u], life[u])
    /\ UNCHANGED <<users, life, revoked, flight, pending, secrets, bounds>>

-----------------------------------------------------------------------------
(* auth_gate: a viewer may read and serve itself, an admin may do all.  *)
Accepts(c) == c.exp >= now /\ Exists(c.user) /\ users[c.user].epoch = c.epoch

Gate(c) ==
    /\ Accepts(c)
    /\ flight' = [flight EXCEPT ![c.user] = users[c.user].role]
    /\ flight' # flight
    /\ UNCHANGED <<users, life, cookies, revoked, guard, pending, secrets, requests, bounds>>

Revoke(u) == revoked' = revoked \cup {c \in cookies : c.user = u}

(* The handlers, each for a caller the gate has let through. *)
Handle(u) ==
    /\ flight[u] # "none"
    /\ Request
    /\ flight' = [flight EXCEPT ![u] = "none"]

HandleAdmin(u) == Handle(u) /\ flight[u] = "admin"

Bump(u) == users' = [users EXCEPT ![u].epoch = @ + 1]

Logout(u) ==
    /\ Handle(u)
    /\ IF Exists(u) THEN Bump(u) ELSE UNCHANGED users
    /\ Revoke(u)
    /\ UNCHANGED <<life, cookies, guard, pending, secrets, bounds>>

(* The new epoch is not saved: the handler passes over the exception and      *)
(* answers ok all the same.                                                   *)
LogoutUnsaved(u) ==
    /\ Handle(u) /\ Exists(u)
    /\ UNCHANGED <<users, life, cookies, revoked, guard, pending, secrets, bounds>>

(* The current password was right: log out everywhere, keep this session. *)
ChangePassword(u) ==
    /\ Handle(u) /\ Exists(u)
    /\ Bump(u)
    /\ Revoke(u)
    /\ Issue(u, users'[u], life[u])
    /\ UNCHANGED <<life, guard, pending, secrets, bounds>>

TotpSetup(u) ==
    /\ Handle(u)
    /\ secrets' = secrets + 1
    /\ pending' = [pending EXCEPT ![u] = secrets']
    /\ UNCHANGED <<users, life, cookies, revoked, guard, bounds>>

(* The code that enables a secret is verified, not consumed. *)
TotpEnable(u) ==
    /\ Handle(u) /\ Exists(u)
    /\ pending[u] # 0
    /\ users' = [users EXCEPT ![u].totp = pending[u]]
    /\ pending' = [pending EXCEPT ![u] = 0]
    /\ UNCHANGED <<life, cookies, revoked, guard, secrets, bounds>>

TotpDisable(u) ==
    /\ Handle(u) /\ Exists(u)
    /\ users' = [users EXCEPT ![u].totp = 0]
    /\ UNCHANGED <<life, cookies, revoked, guard, pending, secrets, bounds>>

(* Mutant: what is counted is the accounts, not the admins. *)
MayLoseAdmin_AnyUser(u) == IsAdmin(u) => \E v \in User \ {u} : Exists(v)
MayLoseAdmin(u) == IsAdmin(u) => \E v \in User \ {u} : IsAdmin(v)

CreateUser(me, u, role) ==
    /\ HandleAdmin(me) /\ ~Exists(u)
    /\ users' = [users EXCEPT ![u] = [NoRow EXCEPT !.role = role]]
    /\ life' = [life EXCEPT ![u] = @ + 1]
    /\ UNCHANGED <<cookies, revoked, guard, pending, secrets, bounds>>

(* A password that is too short is refused after the role has been changed. *)
SetRole(me, u, role) ==
    /\ HandleAdmin(me) /\ Exists(u)
    /\ role = "admin" \/ MayLoseAdmin(u)
    /\ users' = [users EXCEPT ![u].role = role]
    /\ UNCHANGED <<life, cookies, revoked, guard, pending, secrets, bounds>>

(* Mutant: a reset password leaves the epoch as it is. *)
ResetPassword_NoBump(me, u, role) ==
    /\ HandleAdmin(me) /\ Exists(u)
    /\ role = "admin" \/ MayLoseAdmin(u)
    /\ users' = [users EXCEPT ![u].role = role]
    /\ Revoke(u)
    /\ UNCHANGED <<life, cookies, guard, pending, secrets, bounds>>

ResetPassword(me, u, role) ==
    /\ HandleAdmin(me) /\ Exists(u)
    /\ role = "admin" \/ MayLoseAdmin(u)
    /\ users' = [users EXCEPT ![u].role = role, ![u].epoch = @ + 1]
    /\ Revoke(u)
    /\ UNCHANGED <<life, cookies, guard, pending, secrets, bounds>>

(* Mutant: a deleted account keeps its row. *)
DeleteUser_Soft(me, u) ==
    /\ HandleAdmin(me) /\ Exists(u) /\ u # me
    /\ MayLoseAdmin(u)
    /\ users' = [users EXCEPT ![u].role = "none"]
    /\ Revoke(u)
    /\ UNCHANGED <<life, cookies, guard, pending, secrets, bounds>>

DeleteUser(me, u) ==
    /\ HandleAdmin(me) /\ Exists(u) /\ u # me
    /\ MayLoseAdmin(u)
    /\ users' = [users EXCEPT ![u] = NoRow]
    /\ Revoke(u)
    /\ UNCHANGED <<life, cookies, guard, pending, secrets, bounds>>

-----------------------------------------------------------------------------
Tick ==
    /\ now < MaxTime
    /\ now' = now + 1
    /\ UNCHANGED <<users, life, cookies, revoked, flight, guard, pending, secrets, requests, restarts>>

(* What is kept in memory is gone; users and the signing key are in SQLite. *)
Restart ==
    /\ restarts < MaxRestarts
    /\ restarts' = restarts + 1
    /\ fails' = NoFails /\ userFails' = NoUserFails
    /\ tried' = NoFails /\ triedUser' = NoUserFails
    /\ used' = {} /\ entered' = {}
    /\ pending' = [u \in User |-> 0]
    /\ flight' = [u \in User |-> "none"]
    /\ UNCHANGED <<users, life, cookies, revoked, secrets, now, requests>>

SelfService(u) ==
    \/ Logout(u) \/ LogoutUnsaved(u) \/ ChangePassword(u)
    \/ TotpSetup(u) \/ TotpEnable(u) \/ TotpDisable(u)

UserAdmin(me, u) ==
    \/ \E role \in {"admin", "viewer"} :
          CreateUser(me, u, role) \/ SetRole(me, u, role) \/ ResetPassword(me, u, role)
    \/ DeleteUser(me, u)

Next ==
    \/ \E u \in User, i \in Ip : Login(u, i) \/ LoginFails(u, i)
    \/ \E c \in cookies : Gate(c)
    \/ \E u \in User : SelfService(u) \/ \E v \in User : UserAdmin(u, v)
    \/ Tick
    \/ Restart

Spec == Init /\ [][Next]_vars

-----------------------------------------------------------------------------
TypeOK ==
    /\ users \in [User -> Row \cup {NoRow}]
    /\ life \in [User -> Nat]
    /\ cookies \subseteq Cookie /\ revoked \subseteq cookies
    /\ flight \in [User -> {"none", "admin", "viewer"}]
    /\ {fails, tried} \subseteq [User -> [Ip -> SUBSET Failure]]
    /\ {userFails, triedUser} \subseteq [User -> SUBSET Failure]
    /\ used \subseteq [code : Code, ts : Nat] /\ entered \subseteq Code
    /\ pending \in [User -> Secret] /\ secrets \in Secret
    /\ {now, requests, restarts} \subseteq Nat

(* Whatever requests of several admins were let through the gate before the  *)
(* others were handled, and though one of them is no admin any more when its *)
(* turn comes, the dashboard is never left without an admin.                 *)
AdminRemains == \E u \in User : IsAdmin(u)

(* A cookie that a logout, a password change or a deletion has ended is      *)
(* never accepted again while the account lives: whatever other handlers and *)
(* logouts that were not saved come in between.  (An account created anew    *)
(* under the name counts its epochs from zero again.)  A logout whose new    *)
(* epoch is not saved ends nothing, though it answers ok (main.py:3440).     *)
RevocationIsFinal ==
    \A c \in revoked : c.life = life[c.user] => ~Accepts(c)

(* Between good logins, however the attempts are spread over addresses and   *)
(* time, no stretch of one window holds more failures than the limits allow: *)
(* of an address since the last good login from it, of an account since its  *)
(* last from anywhere.  The lists are pruned to the last window only; a good *)
(* login from any address begins the account's count anew (auth.py:304).     *)
Within(S, max) ==
    \A f \in S : Cardinality({g \in S : g.ts \in f.ts..(f.ts + Window - 1)}) <= max
GuessesBounded ==
    \A u \in User : /\ Within(triedUser[u], MaxUserFails)
                    /\ \A i \in Ip : Within(tried[u][i], MaxFails)

(* A code opens one session, though it is right for three steps and the      *)
(* memory of it is pruned: until a restart forgets it.                       *)
CodeOnce == [][\A x \in used' \ used : x.code \notin entered]_vars
=============================================================================
