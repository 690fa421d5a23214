--------------------------- MODULE Accounts_proofs ---------------------------
(***************************************************************************)
(* Theorems about Accounts, for every value of its constants.              *)
(***************************************************************************)
EXTENDS Accounts, FiniteSetTheorems, TLAPS

(* The part of TypeOK the theorems need: the table of users, the secrets     *)
(* that reach it, and how often each account was created.                    *)
Table ==
    /\ users \in [User -> Row \cup {NoRow}]
    /\ pending \in [User -> Secret]
    /\ secrets \in 0..requests /\ requests \in 0..MaxRequests
    /\ life \in [User -> Nat]

LEMMA NoRowShape == NoRow = [role |-> "none", totp |-> 0, epoch |-> 0] /\ NoRow \notin Row
BY DEF NoRow, Row

LEMMA TableInit == Init => Table
<1> SUFFICES ASSUME Init PROVE Table
  OBVIOUS
<1>1. [NoRow EXCEPT !.role = "admin"] \in Row
  BY AccountsAssumption DEF NoRow, Row, Secret
<1>2. users \in [User -> Row \cup {NoRow}]
  BY <1>1 DEF Init
<1> QED BY <1>2, AccountsAssumption DEF Init, Table, Secret

(* The steps by what they do to the table. *)
Leaves == UNCHANGED <<users, life>>
Keeps(u) ==      \* the right or the second factor of an account
    /\ Exists(u)
    /\ \/ \E s \in Secret : users' = [users EXCEPT ![u].totp = s]
       \/ \E role \in {"admin", "viewer"} :
             /\ role = "admin" \/ MayLoseAdmin(u)
             /\ users' = [users EXCEPT ![u].role = role]
    /\ UNCHANGED life
Ends(u) ==       \* the sessions of an account
    /\ Exists(u)
    /\ \/ users' = [users EXCEPT ![u].epoch = @ + 1]
       \/ \E role \in {"admin", "viewer"} :
             /\ role = "admin" \/ MayLoseAdmin(u)
             /\ users' = [users EXCEPT ![u].role = role, ![u].epoch = @ + 1]
    /\ UNCHANGED life
Makes(u) ==
    /\ ~Exists(u)
    /\ \E role \in {"admin", "viewer"} : users' = [users EXCEPT ![u] = [NoRow EXCEPT !.role = role]]
    /\ life' = [life EXCEPT ![u] = @ + 1]
Removes(u) ==
    /\ Exists(u) /\ MayLoseAdmin(u)
    /\ users' = [users EXCEPT ![u] = NoRow]
    /\ UNCHANGED life

(* What a step does to the sessions.  A session is issued for the row as it  *)
(* is after the step.                                                        *)
SameCookies == UNCHANGED <<cookies, revoked>>
Issued(u) == cookies' \in {cookies, cookies \cup
    {[user |-> u, epoch |-> users'[u].epoch, exp |-> now + Ttl, life |-> life[u]]}}

Kinds ==
    \/ Leaves /\ SameCookies
    \/ \E u \in User : \/ Leaves /\ Exists(u) /\ Issued(u) /\ UNCHANGED revoked
                       \/ Leaves /\ ~Exists(u) /\ Revoke(u) /\ UNCHANGED cookies
                       \/ Keeps(u) /\ SameCookies
                       \/ Ends(u) /\ Revoke(u) /\ Issued(u)
                       \/ Makes(u) /\ SameCookies
                       \/ Removes(u) /\ Revoke(u) /\ UNCHANGED cookies

LEMMA StepKinds == Table /\ [Next]_vars => Kinds
<1> SUFFICES ASSUME Table, [Next]_vars PROVE Kinds
  OBVIOUS
<1>1. ASSUME NEW u \in User, NEW i \in Ip, Login(u, i) PROVE Kinds
  <2>1. Leaves /\ Exists(u) /\ UNCHANGED revoked
    BY <1>1 DEF Login, Leaves
  <2>2. cookies' = cookies \cup
           {[user |-> u, epoch |-> users[u].epoch, exp |-> now + Ttl, life |-> life[u]]}
    BY <1>1 DEF Login, Issue
  <2>3. Issued(u)
    BY <2>1, <2>2 DEF Issued, Leaves
  <2> QED BY <2>1, <2>3 DEF Kinds
<1>2. ASSUME NEW u \in User, NEW i \in Ip, LoginFails(u, i) PROVE Kinds
  BY <1>2 DEF LoginFails, Kinds, Leaves, SameCookies
<1>3. ASSUME NEW c \in cookies, Gate(c) PROVE Kinds
  BY <1>3 DEF Gate, Kinds, Leaves, SameCookies
<1>4. ASSUME NEW u \in User, Logout(u) PROVE Kinds
  <2>1. Revoke(u) /\ UNCHANGED <<life, cookies>>
    BY <1>4 DEF Logout
  <2>2. CASE Exists(u)
    <3>1. Ends(u)
      BY <1>4, <2>2 DEF Logout, Bump, Ends
    <3> QED BY <2>1, <3>1 DEF Kinds, Issued
  <2>3. CASE ~Exists(u)
    BY <1>4, <2>1, <2>3 DEF Logout, Kinds, Leaves
  <2> QED BY <2>2, <2>3
<1>5. ASSUME NEW u \in User, ChangePassword(u) PROVE Kinds
  <2>1. Ends(u) /\ Revoke(u)
    BY <1>5 DEF ChangePassword, Bump, Ends
  <2>2. Issued(u)
    BY <1>5 DEF ChangePassword, Issue, Issued
  <2> QED BY <2>1, <2>2 DEF Kinds
<1>6. ASSUME NEW u \in User, TotpSetup(u) PROVE Kinds
  BY <1>6 DEF TotpSetup, Kinds, Leaves, SameCookies
<1>7. ASSUME NEW u \in User, TotpEnable(u) \/ TotpDisable(u) PROVE Kinds
  <2>1. pending[u] \in Secret /\ 0 \in Secret
    BY AccountsAssumption DEF Table, Secret
  <2>2. Keeps(u) /\ SameCookies
    BY <1>7, <2>1 DEF TotpEnable, TotpDisable, Keeps, SameCookies
  <2> QED BY <2>2 DEF Kinds
<1>8. ASSUME NEW me \in User, NEW u \in User, UserAdmin(me, u) PROVE Kinds
  <2>1. CASE \E role \in {"admin", "viewer"} : CreateUser(me, u, role)
    <3>1. Makes(u) /\ SameCookies
      BY <2>1 DEF CreateUser, Makes, SameCookies
    <3> QED BY <3>1 DEF Kinds
  <2>2. CASE \E role \in {"admin", "viewer"} : SetRole(me, u, role)
    <3>1. Keeps(u) /\ SameCookies
      BY <2>2 DEF SetRole, Keeps, SameCookies
    <3> QED BY <3>1 DEF Kinds
  <2>3. CASE \E role \in {"admin", "viewer"} : ResetPassword(me, u, role)
    <3>1. Ends(u) /\ Revoke(u) /\ Issued(u)
      BY <2>3 DEF ResetPassword, Ends, Issued
    <3> QED BY <3>1 DEF Kinds
  <2>4. CASE DeleteUser(me, u)
    <3>1. Removes(u) /\ Revoke(u) /\ UNCHANGED cookies
      BY <2>4 DEF DeleteUser, Removes
    <3> QED BY <3>1 DEF Kinds
  <2> QED BY <1>8, <2>1, <2>2, <2>3, <2>4 DEF UserAdmin
<1>9. CASE Tick \/ Restart \/ UNCHANGED vars
  BY <1>9 DEF Tick, Restart, vars, Kinds, Leaves, SameCookies
<1>10. ASSUME NEW u \in User, LogoutUnsaved(u) PROVE Kinds
  BY <1>10 DEF LogoutUnsaved, Kinds, Leaves, SameCookies
<1> QED BY <1>1, <1>2, <1>3, <1>4, <1>5, <1>6, <1>7, <1>8, <1>9, <1>10 DEF Next, SelfService

-----------------------------------------------------------------------------
(* The row an account has after a step. *)
LEMMA RowFields ==
    ASSUME NEW row \in Row
    PROVE  /\ \A s \in Secret :
                /\ [row EXCEPT !.totp = s] \in Row
                /\ [row EXCEPT !.totp = s].epoch = row.epoch
                /\ [row EXCEPT !.totp = s].role = row.role
           /\ \A r \in {"admin", "viewer"} :
                /\ [row EXCEPT !.role = r] \in Row
                /\ [row EXCEPT !.role = r].epoch = row.epoch
                /\ [row EXCEPT !.role = r].role = r
                /\ [row EXCEPT !.role = r, !.epoch = @ + 1] \in Row
                /\ [row EXCEPT !.role = r, !.epoch = @ + 1].epoch = row.epoch + 1
                /\ [row EXCEPT !.role = r, !.epoch = @ + 1].role = r
           /\ [row EXCEPT !.epoch = @ + 1] \in Row
           /\ [row EXCEPT !.epoch = @ + 1].epoch = row.epoch + 1
           /\ [row EXCEPT !.epoch = @ + 1].role = row.role
<1>1. ASSUME NEW s \in Secret
      PROVE  /\ [row EXCEPT !.totp = s] \in Row
             /\ [row EXCEPT !.totp = s].epoch = row.epoch
             /\ [row EXCEPT !.totp = s].role = row.role
  BY DEF Row
<1>2. ASSUME NEW r \in {"admin", "viewer"}
      PROVE  /\ [row EXCEPT !.role = r] \in Row
             /\ [row EXCEPT !.role = r].epoch = row.epoch
             /\ [row EXCEPT !.role = r].role = r
  BY DEF Row
<1>3. ASSUME NEW r \in {"admin", "viewer"}
      PROVE  /\ [row EXCEPT !.role = r, !.epoch = @ + 1] \in Row
             /\ [row EXCEPT !.role = r, !.epoch = @ + 1].epoch = row.epoch + 1
             /\ [row EXCEPT !.role = r, !.epoch = @ + 1].role = r
  <2> DEFINE r1 == [row EXCEPT !.role = r]
             n == row.epoch + 1
             r2 == [r1 EXCEPT !.epoch = n]
  <2>1. r1 \in Row /\ r1.role = r /\ n \in Nat
    BY DEF Row
  <2>2. r2 = [row EXCEPT !.role = r, !.epoch = @ + 1]
    OBVIOUS
  <2> HIDE DEF r1, n
  <2>3. r2 \in Row /\ r2.epoch = n /\ r2.role = r
    BY <2>1 DEF Row
  <2> QED BY <2>2, <2>3 DEF n
<1>4. /\ [row EXCEPT !.epoch = @ + 1] \in Row
      /\ [row EXCEPT !.epoch = @ + 1].epoch = row.epoch + 1
      /\ [row EXCEPT !.epoch = @ + 1].role = row.role
  BY DEF Row
<1> QED BY <1>1, <1>2, <1>3, <1>4

(* u has the row that the step leaves it. *)
Becomes(u, row) ==
    /\ users' = [users EXCEPT ![u] = row]
    /\ row.role \in {"admin", users[u].role} \/ MayLoseAdmin(u)

LEMMA KeptRow ==
    ASSUME Table, NEW u \in User, Keeps(u)
    PROVE  \E row \in Row : Becomes(u, row) /\ row.epoch = users[u].epoch
<1>1. users[u] \in Row
  BY DEF Keeps, Exists, Table
<1>2. ASSUME NEW s \in Secret, users' = [users EXCEPT ![u].totp = s]
      PROVE  \E row \in Row : Becomes(u, row) /\ row.epoch = users[u].epoch
  <2> DEFINE row == [users[u] EXCEPT !.totp = s]
  <2>1. row \in Row /\ row.epoch = users[u].epoch /\ row.role = users[u].role
    BY <1>1, RowFields
  <2>2. users' = [users EXCEPT ![u] = row]
    BY <1>2
  <2> QED BY <2>1, <2>2 DEF Becomes
<1>3. ASSUME NEW r \in {"admin", "viewer"}, users' = [users EXCEPT ![u].role = r],
             r = "admin" \/ MayLoseAdmin(u)
      PROVE  \E row \in Row : Becomes(u, row) /\ row.epoch = users[u].epoch
  <2> DEFINE row == [users[u] EXCEPT !.role = r]
  <2>1. row \in Row /\ row.epoch = users[u].epoch /\ row.role = r
    BY <1>1, RowFields
  <2>2. users' = [users EXCEPT ![u] = row]
    BY <1>3
  <2> QED BY <1>3, <2>1, <2>2 DEF Becomes
<1> QED BY <1>2, <1>3 DEF Keeps

LEMMA EndedRow ==
    ASSUME Table, NEW u \in User, Ends(u)
    PROVE  \E row \in Row : Becomes(u, row) /\ row.epoch = users[u].epoch + 1
<1>1. users[u] \in Row
  BY DEF Ends, Exists, Table
<1>2. ASSUME users' = [users EXCEPT ![u].epoch = @ + 1]
      PROVE  \E row \in Row : Becomes(u, row) /\ row.epoch = users[u].epoch + 1
  <2> DEFINE row == [users[u] EXCEPT !.epoch = @ + 1]
  <2>1. row \in Row /\ row.epoch = users[u].epoch + 1 /\ row.role = users[u].role
    BY <1>1, RowFields
  <2>2. users' = [users EXCEPT ![u] = row]
    BY <1>2
  <2> QED BY <2>1, <2>2 DEF Becomes
<1>3. ASSUME NEW r \in {"admin", "viewer"}, r = "admin" \/ MayLoseAdmin(u),
             users' = [users EXCEPT ![u].role = r, ![u].epoch = @ + 1]
      PROVE  \E row \in Row : Becomes(u, row) /\ row.epoch = users[u].epoch + 1
  <2> DEFINE row == [users[u] EXCEPT !.role = r, !.epoch = @ + 1]
  <2>1. row \in Row /\ row.epoch = users[u].epoch + 1 /\ row.role = r
    BY <1>1, RowFields
  <2>2. users' = [users EXCEPT ![u] = row]
    BY <1>1, <1>3 DEF Table, Row
  <2> QED BY <1>3, <2>1, <2>2 DEF Becomes
<1> QED BY <1>2, <1>3 DEF Ends

LEMMA MadeRow ==
    ASSUME Table, NEW u \in User, Makes(u)
    PROVE  \E row \in Row : users' = [users EXCEPT ![u] = row]
<1>1. PICK role \in {"admin", "viewer"} :
         users' = [users EXCEPT ![u] = [NoRow EXCEPT !.role = role]]
  BY DEF Makes
<1>2. [NoRow EXCEPT !.role = role] \in Row
  BY <1>1, AccountsAssumption DEF NoRow, Row, Secret
<1> QED BY <1>1, <1>2

(* The counters of secrets and requests, which bound the second factors. *)
LEMMA SecretsStep ==
    Table /\ [Next]_vars =>
        /\ pending' \in [User -> Secret]
        /\ secrets' \in 0..requests' /\ requests' \in 0..MaxRequests
<1> SUFFICES ASSUME Table, [Next]_vars
             PROVE  /\ pending' \in [User -> Secret]
                    /\ secrets' \in 0..requests' /\ requests' \in 0..MaxRequests
  OBVIOUS
<1> USE AccountsAssumption
<1>1. CASE UNCHANGED <<pending, secrets>> /\ (UNCHANGED requests \/ Request)
  BY <1>1 DEF Table, Request
<1>2. CASE Restart
  BY <1>2 DEF Restart, Table, Secret
<1>3. ASSUME NEW u \in User, TotpSetup(u)
      PROVE  /\ pending' \in [User -> Secret]
             /\ secrets' \in 0..requests' /\ requests' \in 0..MaxRequests
  BY <1>3 DEF TotpSetup, Handle, Request, Table, Secret
<1>4. ASSUME NEW u \in User, TotpEnable(u)
      PROVE  /\ pending' \in [User -> Secret]
             /\ secrets' \in 0..requests' /\ requests' \in 0..MaxRequests
  BY <1>4 DEF TotpEnable, Handle, Request, Table, Secret
<1>5. ASSUME NEW u \in User, NEW i \in Ip, Login(u, i) \/ LoginFails(u, i)
      PROVE  UNCHANGED <<pending, secrets>> /\ (UNCHANGED requests \/ Request)
  BY <1>5 DEF Login, LoginFails
<1>6. ASSUME NEW u \in User, Logout(u) \/ LogoutUnsaved(u) \/ ChangePassword(u) \/ TotpDisable(u)
      PROVE  UNCHANGED <<pending, secrets>> /\ (UNCHANGED requests \/ Request)
  BY <1>6 DEF Logout, LogoutUnsaved, ChangePassword, TotpDisable, Handle
<1>7. ASSUME NEW me \in User, NEW u \in User, UserAdmin(me, u)
      PROVE  UNCHANGED <<pending, secrets>> /\ (UNCHANGED requests \/ Request)
  BY <1>7 DEF UserAdmin, CreateUser, SetRole, ResetPassword, DeleteUser, HandleAdmin, Handle
<1>8. CASE Tick \/ UNCHANGED vars \/ \E c \in cookies : Gate(c)
  BY <1>1, <1>8 DEF Tick, vars, bounds, Gate
<1> QED BY <1>1, <1>2, <1>3, <1>4, <1>5, <1>6, <1>7, <1>8 DEF Next, SelfService

LEMMA TableStep == Table /\ [Next]_vars => Table'
<1> SUFFICES ASSUME Table, [Next]_vars PROVE Table'
  OBVIOUS
<1>1. Kinds
  BY StepKinds
<1>2. users' \in [User -> Row \cup {NoRow}] /\ life' \in [User -> Nat]
  <2>1. CASE Leaves
    BY <2>1 DEF Leaves, Table
  <2>2. ASSUME NEW u \in User, Keeps(u) \/ Ends(u)
        PROVE  users' \in [User -> Row \cup {NoRow}] /\ life' \in [User -> Nat]
    <3>1. UNCHANGED life
      BY <2>2 DEF Keeps, Ends
    <3>2. \E row \in Row : users' = [users EXCEPT ![u] = row]
      BY <2>2, KeptRow, EndedRow DEF Becomes
    <3> QED BY <3>1, <3>2 DEF Table
  <2>3. ASSUME NEW u \in User, Makes(u)
        PROVE  users' \in [User -> Row \cup {NoRow}] /\ life' \in [User -> Nat]
    <3>1. users' \in [User -> Row \cup {NoRow}]
      BY <2>3, MadeRow DEF Table
    <3>2. life' = [life EXCEPT ![u] = @ + 1] /\ life[u] + 1 \in Nat
      BY <2>3 DEF Makes, Table
    <3>3. life' \in [User -> Nat]
      BY <3>2 DEF Table
    <3> QED BY <3>1, <3>3
  <2>4. ASSUME NEW u \in User, Removes(u)
        PROVE  users' \in [User -> Row \cup {NoRow}] /\ life' \in [User -> Nat]
    BY <2>4 DEF Removes, Table
  <2> QED BY <1>1, <2>1, <2>2, <2>3, <2>4 DEF Kinds
<1> QED BY <1>2, SecretsStep DEF Table
-----------------------------------------------------------------------------
(* The only admin stays one. *)
LEMMA AdminStays ==
    ASSUME Table, AdminRemains, NEW u \in User, NEW row,
           users' = [users EXCEPT ![u] = row],
           row.role \in {"admin", users[u].role} \/ MayLoseAdmin(u)
    PROVE  AdminRemains'
<1>1. PICK v \in User : users[v].role = "admin"
  BY DEF AdminRemains, IsAdmin
<1>2. \A w \in User : users'[w] = IF w = u THEN row ELSE users[w]
  BY DEF Table
<1>3. CASE v # u
  BY <1>1, <1>2, <1>3 DEF AdminRemains, IsAdmin
<1>4. CASE v = u /\ row.role = "admin"
  BY <1>2, <1>4 DEF AdminRemains, IsAdmin
<1>5. CASE v = u /\ row.role # "admin"
  <2>1. PICK w \in User \ {u} : users[w].role = "admin"
    BY <1>1, <1>5 DEF MayLoseAdmin, IsAdmin
  <2> QED BY <1>2, <2>1 DEF AdminRemains, IsAdmin
<1> QED BY <1>3, <1>4, <1>5

LEMMA AdminStep == Table /\ AdminRemains /\ [Next]_vars => AdminRemains'
<1> SUFFICES ASSUME Table, AdminRemains, [Next]_vars PROVE AdminRemains'
  OBVIOUS
<1>1. CASE Leaves
  BY <1>1 DEF Leaves, AdminRemains, IsAdmin
<1>2. ASSUME NEW u \in User, Keeps(u) \/ Ends(u) PROVE AdminRemains'
  <2>1. \E row \in Row : Becomes(u, row)
    BY <1>2, KeptRow, EndedRow
  <2> QED BY <2>1, AdminStays DEF Becomes
<1>3. ASSUME NEW u \in User, Makes(u) PROVE AdminRemains'
  <2>1. MayLoseAdmin(u)
    BY <1>3 DEF Makes, Exists, MayLoseAdmin, IsAdmin, NoRow
  <2> QED BY <1>3, <2>1, MadeRow, AdminStays
<1>4. ASSUME NEW u \in User, Removes(u) PROVE AdminRemains'
  BY <1>4, AdminStays DEF Removes
<1> QED BY StepKinds, <1>1, <1>2, <1>3, <1>4 DEF Kinds

(* Accounts!AdminRemains: no interleaving of creations, role changes and     *)
(* deletions by however many admins leaves the dashboard without one.        *)
THEOREM AnAdminRemains == Spec => []AdminRemains
<1>1. Init => AdminRemains
  <2> SUFFICES ASSUME Init PROVE users[Root].role = "admin"
    BY AccountsAssumption DEF AdminRemains, IsAdmin
  <2> QED BY AccountsAssumption DEF Init, NoRow
<1> QED BY <1>1, TableInit, TableStep, AdminStep, PTL DEF Spec
-----------------------------------------------------------------------------
(* A cookie of the account as it is now carries no epoch that is yet to      *)
(* come, and one that was ended carries an epoch that has passed.            *)
Of(c) == c.life = life[c.user] /\ Exists(c.user)
CookiesInv ==
    \A c \in cookies : /\ c.user \in User /\ c.life \in Nat /\ c.epoch \in Nat
                       /\ c.life <= life[c.user]
                       /\ Of(c) => c.epoch <= users[c.user].epoch
RevokedInv ==
    \A c \in revoked : /\ c.user \in User /\ c.life \in Nat /\ c.epoch \in Nat
                       /\ c.life <= life[c.user]
                       /\ Of(c) => c.epoch < users[c.user].epoch
Sessions == Table /\ CookiesInv /\ RevokedInv

LEMMA RevokedFinal == RevokedInv => RevocationIsFinal
<1> SUFFICES ASSUME RevokedInv, NEW c \in revoked, c.life = life[c.user], Accepts(c)
             PROVE  FALSE
  BY DEF RevocationIsFinal
<1>1. c.epoch \in Nat /\ c.epoch < users[c.user].epoch
  BY DEF RevokedInv, Of, Accepts
<1> QED BY <1>1 DEF Accepts

(* A step that keeps the accounts keeps what is known of the cookies. *)
LEMMA LeftSessions ==
    ASSUME Sessions, Leaves,
           UNCHANGED cookies \/ \E u \in User : Exists(u) /\ Issued(u),
           UNCHANGED revoked \/ \E u \in User : ~Exists(u) /\ Revoke(u)
    PROVE  CookiesInv' /\ RevokedInv'
<1>1. users' = users /\ life' = life
  BY DEF Leaves
<1>2. CookiesInv'
  <2>1. CASE UNCHANGED cookies
    BY <1>1, <2>1 DEF Sessions, CookiesInv, Of, Exists
  <2>2. ASSUME NEW u \in User, Exists(u), Issued(u) PROVE CookiesInv'
    <3> DEFINE new == [user |-> u, epoch |-> users'[u].epoch, exp |-> now + Ttl, life |-> life[u]]
    <3>1. users[u].epoch \in Nat /\ life[u] \in Nat
      BY <2>2 DEF Sessions, Table, Exists, Row
    <3>2. cookies' \subseteq cookies \cup {new}
      BY <2>2 DEF Issued
    <3>3. /\ new.user \in User /\ new.life \in Nat /\ new.epoch \in Nat
          /\ new.life <= life[new.user] /\ new.epoch <= users[new.user].epoch
      BY <1>1, <3>1
    <3> HIDE DEF new
    <3> QED BY <1>1, <3>2, <3>3 DEF Sessions, CookiesInv, Of, Exists
  <2> QED BY <2>1, <2>2
<1>3. RevokedInv'
  <2>1. CASE UNCHANGED revoked
    BY <1>1, <2>1 DEF Sessions, RevokedInv, Of, Exists
  <2>2. ASSUME NEW u \in User, ~Exists(u), Revoke(u) PROVE RevokedInv'
    BY <1>1, <2>2 DEF Sessions, RevokedInv, CookiesInv, Revoke, Of, Exists
  <2> QED BY <2>1, <2>2
<1> QED BY <1>2, <1>3

(* A row replaced in place: its epoch stays, or it grows and the sessions end. *)
LEMMA ReplacedSessions ==
    ASSUME Sessions, NEW u \in User, Exists(u), NEW row \in Row,
           users' = [users EXCEPT ![u] = row], UNCHANGED life,
           \/ row.epoch = users[u].epoch /\ SameCookies
           \/ row.epoch = users[u].epoch + 1 /\ Revoke(u) /\ Issued(u)
    PROVE  CookiesInv' /\ RevokedInv'
<1>1. /\ users'[u] = row
      /\ \A v \in User \ {u} : users'[v] = users[v]
      /\ life' = life /\ life[u] \in Nat
      /\ row.epoch \in Nat /\ users[u].epoch \in Nat
  BY DEF Sessions, Table, Row, Exists
<1>2. \A c : c.user \in User /\ Of(c)' => Of(c)
  BY <1>1 DEF Of, Exists
<1>3. CASE row.epoch = users[u].epoch /\ SameCookies
  <2>1. \A v \in User : users'[v].epoch = users[v].epoch
    BY <1>1, <1>3
  <2> QED BY <1>1, <1>2, <1>3, <2>1 DEF Sessions, CookiesInv, RevokedInv, SameCookies
<1>4. CASE row.epoch = users[u].epoch + 1 /\ Revoke(u) /\ Issued(u)
  <2> DEFINE new == [user |-> u, epoch |-> users'[u].epoch, exp |-> now + Ttl, life |-> life[u]]
  <2>1. cookies' \subseteq cookies \cup {new}
    BY <1>4 DEF Issued
  <2>2. /\ new.user = u /\ new.life = life[u] /\ new.epoch = row.epoch
    BY <1>1
  <2> HIDE DEF new
  <2>3. ASSUME NEW c \in cookies', c \in cookies
        PROVE  /\ c.user \in User /\ c.life \in Nat /\ c.epoch \in Nat
               /\ c.life <= life'[c.user]
               /\ Of(c)' => c.epoch <= users'[c.user].epoch
    BY <1>1, <1>2, <1>4, <2>3 DEF Sessions, CookiesInv
  <2>4. CookiesInv'
    BY <1>1, <2>1, <2>2, <2>3 DEF CookiesInv
  <2>5. ASSUME NEW c \in revoked, c.user = u, Of(c)' PROVE c.epoch < users'[c.user].epoch
    BY <1>1, <1>2, <1>4, <2>5 DEF Sessions, RevokedInv
  <2>6. ASSUME NEW c \in revoked, c.user # u, Of(c)' PROVE c.epoch < users'[c.user].epoch
    BY <1>1, <1>2, <2>6 DEF Sessions, RevokedInv
  <2>7. ASSUME NEW c \in cookies, c.user = u, Of(c)' PROVE c.epoch < users'[c.user].epoch
    BY <1>1, <1>2, <1>4, <2>7 DEF Sessions, CookiesInv
  <2>8. revoked' = revoked \cup {c \in cookies : c.user = u}
    BY <1>4 DEF Revoke
  <2>9. \A c \in revoked' : /\ c.user \in User /\ c.life \in Nat /\ c.epoch \in Nat
                            /\ c.life <= life'[c.user]
    BY <1>1, <2>8 DEF Sessions, CookiesInv, RevokedInv
  <2>10. \A c \in revoked' : Of(c)' => c.epoch < users'[c.user].epoch
    BY <2>5, <2>6, <2>7, <2>8
  <2> QED BY <2>4, <2>9, <2>10 DEF RevokedInv
<1> QED BY <1>3, <1>4

(* An account that is made is another one; one that is removed is none. *)
LEMMA OtherSessions ==
    ASSUME Sessions, NEW u \in User,
           \/ Makes(u) /\ SameCookies
           \/ Removes(u) /\ Revoke(u) /\ UNCHANGED cookies
    PROVE  CookiesInv' /\ RevokedInv'
<1>1. /\ \A v \in User \ {u} : users'[v] = users[v]
      /\ \A v \in User \ {u} : life'[v] = life[v]
      /\ \A v \in User : life[v] \in Nat
      /\ life'[u] \in Nat /\ life[u] <= life'[u]
  BY DEF Sessions, Table, Makes, Removes
<1>2. \A v \in User : life[v] <= life'[v] /\ life'[v] \in Nat
  BY <1>1
<1>3. \A c \in cookies : c.user = u => ~Of(c)'
  <2>1. CASE Makes(u)
    <3>1. life'[u] = life[u] + 1
      BY <2>1 DEF Sessions, Table, Makes
    <3> QED BY <1>1, <3>1 DEF Sessions, CookiesInv, Of
  <2>2. CASE Removes(u)
    <3>1. users'[u] = NoRow
      BY <2>2 DEF Sessions, Table, Removes
    <3> QED BY <3>1 DEF Of, Exists
  <2> QED BY <2>1, <2>2
<1>4. \A c \in revoked : c.user = u => ~Of(c)'
  <2>1. CASE Makes(u)
    <3>1. life'[u] = life[u] + 1
      BY <2>1 DEF Sessions, Table, Makes
    <3> QED BY <1>1, <3>1 DEF Sessions, RevokedInv, Of
  <2>2. CASE Removes(u)
    <3>1. users'[u] = NoRow
      BY <2>2 DEF Sessions, Table, Removes
    <3> QED BY <3>1 DEF Of, Exists
  <2> QED BY <2>1, <2>2
<1>5. \A c : c.user \in User \ {u} => (Of(c)' => Of(c))
  BY <1>1 DEF Of, Exists
<1>6. cookies' = cookies
  BY DEF SameCookies
<1>7. revoked' \subseteq revoked \cup {c \in cookies : c.user = u}
  BY DEF SameCookies, Revoke
<1>8. CookiesInv'
  <2> SUFFICES ASSUME NEW c \in cookies
               PROVE  /\ c.user \in User /\ c.life \in Nat /\ c.epoch \in Nat
                      /\ c.life <= life'[c.user]
                      /\ Of(c)' => c.epoch <= users'[c.user].epoch
    BY <1>6 DEF CookiesInv
  <2>1. /\ c.user \in User /\ c.life \in Nat /\ c.epoch \in Nat
        /\ c.life <= life[c.user]
        /\ Of(c) => c.epoch <= users[c.user].epoch
    BY DEF Sessions, CookiesInv
  <2>2. c.life <= life'[c.user]
    BY <1>1, <1>2, <2>1
  <2>3. Of(c)' => c.epoch <= users'[c.user].epoch
    BY <1>1, <1>3, <1>5, <2>1
  <2> QED BY <2>1, <2>2, <2>3
<1>9. RevokedInv'
  <2> SUFFICES ASSUME NEW c \in revoked'
               PROVE  /\ c.user \in User /\ c.life \in Nat /\ c.epoch \in Nat
                      /\ c.life <= life'[c.user]
                      /\ Of(c)' => c.epoch < users'[c.user].epoch
    BY DEF RevokedInv
  <2>1. /\ c.user \in User /\ c.life \in Nat /\ c.epoch \in Nat
        /\ c.life <= life[c.user]
    BY <1>7 DEF Sessions, CookiesInv, RevokedInv
  <2>2. c.life <= life'[c.user]
    BY <1>1, <1>2, <2>1
  <2>3. CASE c.user = u
    BY <1>3, <1>4, <1>7, <2>1, <2>2, <2>3
  <2>4. CASE c.user # u
    <3>1. c \in revoked
      BY <1>7, <2>4
    <3>2. Of(c) => c.epoch < users[c.user].epoch
      BY <3>1 DEF Sessions, RevokedInv
    <3> QED BY <1>1, <1>5, <2>1, <2>2, <2>4, <3>2
  <2> QED BY <2>3, <2>4
<1> QED BY <1>8, <1>9

LEMMA SessionsStep == Sessions /\ [Next]_vars => Sessions'
<1> SUFFICES ASSUME Sessions, [Next]_vars PROVE Sessions'
  OBVIOUS
<1>1. Table /\ Table' /\ Kinds
  BY TableStep, StepKinds DEF Sessions
<1>2. ASSUME Leaves /\ SameCookies PROVE CookiesInv' /\ RevokedInv'
  BY <1>2, LeftSessions DEF SameCookies
<1>3. ASSUME NEW u \in User, Leaves /\ Exists(u) /\ Issued(u) /\ UNCHANGED revoked
      PROVE  CookiesInv' /\ RevokedInv'
  BY <1>3, LeftSessions
<1>4. ASSUME NEW u \in User, Leaves /\ ~Exists(u) /\ Revoke(u) /\ UNCHANGED cookies
      PROVE  CookiesInv' /\ RevokedInv'
  BY <1>4, LeftSessions
<1>5. ASSUME NEW u \in User, Keeps(u) /\ SameCookies PROVE CookiesInv' /\ RevokedInv'
  <2>1. PICK row \in Row : Becomes(u, row) /\ row.epoch = users[u].epoch
    BY <1>1, <1>5, KeptRow
  <2> QED BY <1>5, <2>1, ReplacedSessions DEF Keeps, Becomes
<1>6. ASSUME NEW u \in User, Ends(u) /\ Revoke(u) /\ Issued(u)
      PROVE  CookiesInv' /\ RevokedInv'
  <2>1. PICK row \in Row : Becomes(u, row) /\ row.epoch = users[u].epoch + 1
    BY <1>1, <1>6, EndedRow
  <2> QED BY <1>6, <2>1, ReplacedSessions DEF Ends, Becomes
<1>7. ASSUME NEW u \in User, \/ Makes(u) /\ SameCookies
                             \/ Removes(u) /\ Revoke(u) /\ UNCHANGED cookies
      PROVE  CookiesInv' /\ RevokedInv'
  BY <1>7, OtherSessions
<1>8. CookiesInv' /\ RevokedInv'
  BY <1>1, <1>2, <1>3, <1>4, <1>5, <1>6, <1>7 DEF Kinds
<1> QED BY <1>1, <1>8 DEF Sessions

(* Accounts!RevocationIsFinal: a session that was ended is never accepted    *)
(* again while its account lives, for any number of users and of steps.      *)
THEOREM ARevocationIsFinal == Spec => []RevocationIsFinal
<1>1. Init => Sessions
  BY TableInit DEF Init, Sessions, CookiesInv, RevokedInv
<1> QED BY <1>1, SessionsStep, RevokedFinal, PTL DEF Spec, Sessions
-----------------------------------------------------------------------------
(* The failures of one list: those of the window are few. *)
InWindow(S, t) == {f \in S : t - f.ts < Window}
Few(S, t, max) ==
    /\ S \subseteq Failure /\ IsFiniteSet(S)
    /\ Cardinality(InWindow(S, t)) <= max
Added(S, t) ==
    InWindow(S, t) \cup {[ts |-> t, n |-> Cardinality({f \in InWindow(S, t) : f.ts = t})]}

LEMMA NoneIsFew == \A t, max \in Nat : Few({}, t, max)
<1> SUFFICES ASSUME NEW t \in Nat, NEW max \in Nat PROVE Few({}, t, max)
  OBVIOUS
<1>1. InWindow({}, t) = {}
  BY DEF InWindow
<1>2. IsFiniteSet({}) /\ Cardinality({}) = 0
  BY FS_EmptySet
<1> QED BY <1>1, <1>2 DEF Few

LEMMA OneMoreIsFew ==
    ASSUME NEW S, NEW t \in Nat, NEW max \in Nat, Few(S, t, max),
           ~(Cardinality(InWindow(S, t)) >= max)
    PROVE  Few(Added(S, t), t, max)
<1> DEFINE W == InWindow(S, t)
           now_n == Cardinality({f \in W : f.ts = t})
           T == W \cup {[ts |-> t, n |-> now_n]}
<1>1. W \subseteq S /\ S \subseteq Failure /\ IsFiniteSet(S)
  BY DEF InWindow, Few
<1>2. IsFiniteSet(W)
  BY <1>1, FS_Subset
<1>3. now_n \in Nat
  <2>1. IsFiniteSet({f \in W : f.ts = t})
    BY <1>2, FS_Subset
  <2> QED BY <2>1, FS_CardinalityType
<1>4. Cardinality(W) \in Nat /\ Cardinality(W) < max
  BY <1>2, FS_CardinalityType
<1> HIDE DEF W, now_n
<1>5. IsFiniteSet(T) /\ Cardinality(T) <= Cardinality(W) + 1
  BY <1>2, <1>4, FS_AddElement
<1>6. T \subseteq Failure
  BY <1>1, <1>3 DEF Failure
<1>7. InWindow(T, t) \subseteq T
  BY DEF InWindow
<1> HIDE DEF T
<1>8. Cardinality(InWindow(T, t)) <= Cardinality(T) /\ Cardinality(InWindow(T, t)) \in Nat
  BY <1>5, <1>7, FS_Subset, FS_CardinalityType
<1>9. Cardinality(T) \in Nat
  BY <1>5, FS_CardinalityType
<1>10. Few(T, t, max)
  BY <1>4, <1>5, <1>6, <1>8, <1>9 DEF Few
<1> QED BY <1>10 DEF T, W, now_n, Added

LEMMA LaterIsFew ==
    ASSUME NEW S, NEW t \in Nat, NEW max \in Nat, Few(S, t, max)
    PROVE  Few(S, t + 1, max)
<1>1. IsFiniteSet(InWindow(S, t)) /\ IsFiniteSet(InWindow(S, t + 1))
  BY FS_Subset DEF Few, InWindow
<1>2. \A f \in S : f.ts \in Nat
  BY DEF Few, Failure
<1>3. InWindow(S, t + 1) \subseteq InWindow(S, t)
  BY <1>2, AccountsAssumption DEF InWindow
<1>4. Cardinality(InWindow(S, t + 1)) <= Cardinality(InWindow(S, t))
  BY <1>1, <1>3, FS_Subset
<1> QED BY <1>1, <1>4, FS_CardinalityType DEF Few

(* What the login reads of its list is what it would read of all that was    *)
(* tried, and no window of all that was tried is over the limit.             *)
Kept(F, S, t, max) ==
    /\ Few(F, t, max)
    /\ S \subseteq Failure /\ IsFiniteSet(S)
    /\ InWindow(F, t) = InWindow(S, t)
    /\ \A f \in S : f.ts <= t
    /\ Within(S, max)
Tried(S, t) == S \cup {[ts |-> t, n |-> Cardinality({f \in S : f.ts = t})]}

LEMMA NoneIsKept == \A t, max \in Nat : Kept({}, {}, t, max)
BY NoneIsFew, FS_EmptySet DEF Kept, Within

LEMMA LaterIsKept ==
    ASSUME NEW F, NEW S, NEW t \in Nat, NEW max \in Nat, Kept(F, S, t, max)
    PROVE  Kept(F, S, t + 1, max)
<1>1. F \subseteq Failure /\ S \subseteq Failure
  BY DEF Kept, Few
<1>2. \A f \in Failure : f.ts \in Nat
  BY DEF Failure
<1>3. /\ InWindow(F, t + 1) = {f \in InWindow(F, t) : t + 1 - f.ts < Window}
      /\ InWindow(S, t + 1) = {f \in InWindow(S, t) : t + 1 - f.ts < Window}
  BY <1>1, <1>2, AccountsAssumption DEF InWindow
<1>4. \A f \in S : f.ts <= t + 1
  BY <1>1, <1>2 DEF Kept
<1> QED BY <1>1, <1>3, <1>4, LaterIsFew DEF Kept

LEMMA OneMoreIsKept ==
    ASSUME NEW F, NEW S, NEW t \in Nat, NEW max \in Nat, Kept(F, S, t, max),
           ~(Cardinality(InWindow(F, t)) >= max)
    PROVE  Kept(Added(F, t), Tried(S, t), t, max)
<1> USE AccountsAssumption
<1> DEFINE n == Cardinality({f \in S : f.ts = t})
           new == [ts |-> t, n |-> n]
           A == Added(F, t)
           T == Tried(S, t)
<1>1. /\ S \subseteq Failure /\ IsFiniteSet(S) /\ F \subseteq Failure
      /\ \A f \in Failure : f.ts \in Nat
      /\ InWindow(F, t) = InWindow(S, t)
      /\ \A f \in S : f.ts <= t
  BY DEF Kept, Few, Failure
<1>2. Few(A, t, max)
  BY OneMoreIsFew DEF Kept
<1>3. n \in Nat
  <2>1. IsFiniteSet({f \in S : f.ts = t})
    BY <1>1, FS_Subset
  <2> QED BY <2>1, FS_CardinalityType
<1>4. new \in Failure /\ new.ts = t /\ T = S \cup {new}
  BY <1>3 DEF Failure, Tried
<1>5. CASE Window = 0
  <2>1. InWindow(A, t) = {} /\ InWindow(T, t) = {}
    <3>1. A \subseteq Failure /\ \A f \in A : f.ts <= t
      <4>1. \A f \in InWindow(F, t) : f.ts <= t
        BY <1>1 DEF InWindow
      <4> QED BY <1>2, <4>1 DEF Few, Added
    <3> QED BY <1>1, <1>4, <1>5, <3>1 DEF InWindow
  <2>2. \A f \in T : {g \in T : g.ts \in f.ts..(f.ts + Window - 1)} = {}
    <3> SUFFICES ASSUME NEW f \in T, NEW g \in T, g.ts \in f.ts..(f.ts + Window - 1)
                 PROVE  FALSE
      OBVIOUS
    <3>1. f.ts \in Nat /\ g.ts \in Int
      BY <1>1, <1>4
    <3> QED BY <1>5, <3>1
  <2>3. Within(T, max)
    BY <2>2, FS_EmptySet DEF Within
  <2> HIDE DEF new, A, T
  <2>4. IsFiniteSet(T) /\ T \subseteq Failure
    BY <1>1, <1>4, FS_AddElement
  <2>5. \A f \in T : f.ts <= t
    BY <1>1, <1>4
  <2>6. Kept(A, T, t, max)
    BY <1>2, <2>1, <2>3, <2>4, <2>5 DEF Kept
  <2> QED BY <2>6 DEF A, T
<1>6. CASE Window # 0
  <2>1. {f \in InWindow(F, t) : f.ts = t} = {f \in S : f.ts = t}
    BY <1>1, <1>6 DEF InWindow
  <2>2. A = InWindow(S, t) \cup {new}
    BY <1>1, <2>1 DEF Added
  <2> HIDE DEF new, A, T
  <2>3. InWindow(A, t) = InWindow(T, t)
    BY <1>1, <1>4, <1>6, <2>2 DEF InWindow
  <2>4. IsFiniteSet(T) /\ T \subseteq Failure
    BY <1>1, <1>4, FS_AddElement
  <2>5. IsFiniteSet(InWindow(T, t)) /\ Cardinality(InWindow(T, t)) <= max
    BY <1>2, <2>3, <2>4, FS_Subset DEF Few, InWindow
  <2>6. ASSUME NEW f \in T
        PROVE  Cardinality({g \in T : g.ts \in f.ts..(f.ts + Window - 1)}) <= max
    <3> DEFINE G == {g \in T : g.ts \in f.ts..(f.ts + Window - 1)}
    <3>1. f.ts \in Nat
      BY <1>1, <2>4
    <3>2. CASE t \in f.ts..(f.ts + Window - 1)
      <4>1. G \subseteq InWindow(T, t)
        <5> SUFFICES ASSUME NEW g \in G PROVE t - g.ts < Window
          BY DEF InWindow
        <5>1. g.ts \in Nat /\ g.ts >= f.ts
          BY <1>1, <2>4, <3>1
        <5> QED BY <3>1, <3>2, <5>1
      <4> HIDE DEF G
      <4>2. Cardinality(G) <= Cardinality(InWindow(T, t)) /\ Cardinality(G) \in Nat
        BY <2>5, <4>1, FS_Subset, FS_CardinalityType
      <4>3. Cardinality(InWindow(T, t)) \in Nat
        BY <2>5, FS_CardinalityType
      <4> QED BY <2>5, <4>2, <4>3 DEF G
    <3>3. CASE ~(t \in f.ts..(f.ts + Window - 1))
      <4>1. f.ts # t
        BY <1>6, <3>3
      <4>2. f \in S
        BY <1>4, <4>1
      <4>3. G = {g \in S : g.ts \in f.ts..(f.ts + Window - 1)}
        BY <1>4, <3>3
      <4> QED BY <4>2, <4>3 DEF Kept, Within
    <3> QED BY <3>2, <3>3
  <2>7. Within(T, max)
    BY <2>6 DEF Within
  <2>8. \A f \in T : f.ts <= t
    BY <1>1, <1>4
  <2>9. Kept(A, T, t, max)
    BY <1>2, <2>3, <2>4, <2>7, <2>8 DEF Kept
  <2> QED BY <2>9 DEF A, T
<1> QED BY <1>5, <1>6

(* The inductive invariant of the lockout, and the steps by what they do to it. *)
Logs ==
    /\ now \in Nat
    /\ fails \in [User -> [Ip -> SUBSET Failure]] /\ userFails \in [User -> SUBSET Failure]
    /\ tried \in [User -> [Ip -> SUBSET Failure]] /\ triedUser \in [User -> SUBSET Failure]
    /\ \A u \in User : /\ Kept(userFails[u], triedUser[u], now, MaxUserFails)
                       /\ \A i \in Ip : Kept(fails[u][i], tried[u][i], now, MaxFails)

lists == <<fails, userFails, tried, triedUser>>

LogKinds ==
    \/ UNCHANGED <<lists, now>>
    \/ \E u \in User, i \in Ip :
          UNCHANGED now /\ (ClearFails(u, i) \/ (~Locked(u, i) /\ NoteFail(u, i)))
    \/ UNCHANGED lists /\ now' = now + 1
    \/ /\ fails' = NoFails /\ userFails' = NoUserFails
       /\ tried' = NoFails /\ triedUser' = NoUserFails
       /\ UNCHANGED now

LEMMA StepLogKinds == [Next]_vars => LogKinds
<1> SUFFICES ASSUME [Next]_vars PROVE LogKinds
  OBVIOUS
<1>1. ASSUME NEW u \in User, NEW i \in Ip, Login(u, i) \/ LoginFails(u, i) PROVE LogKinds
  <2>1. UNCHANGED now
    BY <1>1 DEF Login, LoginFails, bounds
  <2>2. ClearFails(u, i) \/ (~Locked(u, i) /\ NoteFail(u, i))
    BY <1>1 DEF Login, LoginFails
  <2> QED BY <2>1, <2>2 DEF LogKinds
<1>2. ASSUME NEW u \in User, SelfService(u) PROVE UNCHANGED <<lists, now>>
  BY <1>2 DEF SelfService, Logout, LogoutUnsaved, ChangePassword, TotpSetup, TotpEnable,
              TotpDisable, guard, bounds, lists
<1>3. ASSUME NEW me \in User, NEW u \in User, UserAdmin(me, u)
      PROVE  UNCHANGED <<lists, now>>
  BY <1>3 DEF UserAdmin, CreateUser, SetRole, ResetPassword, DeleteUser, guard, bounds, lists
<1>4. CASE UNCHANGED vars \/ \E c \in cookies : Gate(c)
  BY <1>4 DEF Gate, vars, guard, bounds, lists, LogKinds
<1>5. CASE Tick
  BY <1>5 DEF Tick, guard, lists, LogKinds
<1>6. CASE Restart
  BY <1>6 DEF Restart, LogKinds
<1> QED BY <1>1, <1>2, <1>3, <1>4, <1>5, <1>6 DEF Next, LogKinds

LEMMA LogsStep == Logs /\ [Next]_vars => Logs'
<1> SUFFICES ASSUME Logs, [Next]_vars PROVE Logs'
  OBVIOUS
<1> USE AccountsAssumption
<1>1. CASE UNCHANGED <<lists, now>>
  BY <1>1 DEF Logs, lists
<1>2. CASE UNCHANGED lists /\ now' = now + 1
  <2>1. now \in Nat /\ MaxFails \in Nat /\ MaxUserFails \in Nat
    BY DEF Logs
  <2>2. \A u \in User :
           /\ Kept(userFails[u], triedUser[u], now + 1, MaxUserFails)
           /\ \A i \in Ip : Kept(fails[u][i], tried[u][i], now + 1, MaxFails)
    BY <2>1, LaterIsKept DEF Logs
  <2> QED BY <1>2, <2>1, <2>2 DEF Logs, lists
<1>3. CASE /\ fails' = NoFails /\ userFails' = NoUserFails
           /\ tried' = NoFails /\ triedUser' = NoUserFails
           /\ UNCHANGED now
  BY <1>3, NoneIsKept DEF Logs, NoFails, NoUserFails
<1>4. ASSUME NEW u \in User, NEW i \in Ip, UNCHANGED now, ClearFails(u, i) PROVE Logs'
  <2>1. Kept({}, {}, now, MaxFails) /\ Kept({}, {}, now, MaxUserFails)
    BY NoneIsKept DEF Logs
  <2>2. /\ fails' \in [User -> [Ip -> SUBSET Failure]]
        /\ userFails' \in [User -> SUBSET Failure]
        /\ tried' \in [User -> [Ip -> SUBSET Failure]]
        /\ triedUser' \in [User -> SUBSET Failure]
    BY <1>4 DEF Logs, ClearFails
  <2>3. /\ \A v \in User : /\ userFails'[v] = IF v = u THEN {} ELSE userFails[v]
                           /\ triedUser'[v] = IF v = u THEN {} ELSE triedUser[v]
        /\ \A v \in User, j \in Ip :
              /\ fails'[v][j] = IF v = u /\ j = i THEN {} ELSE fails[v][j]
              /\ tried'[v][j] = IF v = u /\ j = i THEN {} ELSE tried[v][j]
    BY <1>4 DEF Logs, ClearFails
  <2> QED BY <1>4, <2>1, <2>2, <2>3 DEF Logs
<1>5. ASSUME NEW u \in User, NEW i \in Ip, UNCHANGED now, ~Locked(u, i), NoteFail(u, i)
      PROVE  Logs'
  <2> DEFINE F == Added(fails[u][i], now)
             G == Added(userFails[u], now)
             R == Tried(tried[u][i], now)
             Q == Tried(triedUser[u], now)
  <2>1. /\ fails' = [fails EXCEPT ![u][i] = F]
        /\ userFails' = [userFails EXCEPT ![u] = G]
    BY <1>5 DEF NoteFail, WithFail, Recent, Added, InWindow
  <2>2. /\ tried' = [tried EXCEPT ![u][i] = R]
        /\ triedUser' = [triedUser EXCEPT ![u] = Q]
    BY <1>5 DEF NoteFail, WithTry, Tried
  <2>3. Kept(F, R, now, MaxFails) /\ Kept(G, Q, now, MaxUserFails)
    BY <1>5, OneMoreIsKept DEF Logs, Locked, Recent, InWindow
  <2>4. {F, G, R, Q} \subseteq SUBSET Failure
    BY <2>3 DEF Kept, Few
  <2> HIDE DEF F, G, R, Q
  <2>5. /\ fails' \in [User -> [Ip -> SUBSET Failure]]
        /\ userFails' \in [User -> SUBSET Failure]
    BY <2>1, <2>4 DEF Logs
  <2>6. /\ tried' \in [User -> [Ip -> SUBSET Failure]]
        /\ triedUser' \in [User -> SUBSET Failure]
    BY <2>2, <2>4 DEF Logs
  <2>7. /\ \A v \in User : /\ userFails'[v] = IF v = u THEN G ELSE userFails[v]
                           /\ triedUser'[v] = IF v = u THEN Q ELSE triedUser[v]
        /\ \A v \in User, j \in Ip :
              /\ fails'[v][j] = IF v = u /\ j = i THEN F ELSE fails[v][j]
              /\ tried'[v][j] = IF v = u /\ j = i THEN R ELSE tried[v][j]
    BY <2>1, <2>2 DEF Logs
  <2> QED BY <1>5, <2>3, <2>5, <2>6, <2>7 DEF Logs
<1> QED BY StepLogKinds, <1>1, <1>2, <1>3, <1>4, <1>5 DEF LogKinds

LEMMA LogsInit == Init => Logs
<1> SUFFICES ASSUME Init PROVE Logs
  OBVIOUS
<1>1. Kept({}, {}, 0, MaxFails) /\ Kept({}, {}, 0, MaxUserFails)
  BY NoneIsKept, AccountsAssumption
<1>2. /\ now = 0 /\ fails = NoFails /\ userFails = NoUserFails
      /\ tried = NoFails /\ triedUser = NoUserFails
  BY DEF Init
<1> QED BY <1>1, <1>2 DEF Logs, NoFails, NoUserFails

(* Accounts!GuessesBounded: between good logins no stretch of one window     *)
(* holds more failed logins than the limits, though the lists are pruned,    *)
(* for any number of addresses and accounts and any length of the window.    *)
THEOREM GuessesAreBounded == Spec => []GuessesBounded
<1>1. Logs => GuessesBounded
  BY DEF Logs, Kept, GuessesBounded
<1> QED BY <1>1, LogsInit, LogsStep, PTL DEF Spec
-----------------------------------------------------------------------------
(* The consumed codes: one that opened a session is remembered for as long   *)
(* as it is right.  totp_consume drops it after three steps, and it is right *)
(* for one after the latest step it can have been entered at.                *)
Remembered(c) == \E x \in used : x.code = c /\ x.ts >= c.step - 1
Codes ==
    /\ now \in Nat
    /\ used \subseteq [code : Code, ts : Nat] /\ entered \subseteq Code
    /\ \A c \in entered : Remembered(c) \/ c.step < now - 1

(* A step that enters a code, for the account as it is now. *)
Enters(u) ==
    /\ UNCHANGED now
    /\ \E code \in CodesOf(u) :
          /\ ~Consumed(code)
          /\ used' = Unexpired \cup {[code |-> code, ts |-> now]}
          /\ entered' = entered \cup {code}

CodeKinds ==
    \/ UNCHANGED <<used, entered>> /\ (now' = now \/ now' = now + 1)
    \/ \E u \in User : Enters(u)
    \/ used' = {} /\ entered' = {} /\ UNCHANGED now

LEMMA StepCodeKinds == [Next]_vars => CodeKinds
<1> SUFFICES ASSUME [Next]_vars PROVE CodeKinds
  OBVIOUS
<1>1. ASSUME NEW u \in User, NEW i \in Ip, Login(u, i) PROVE CodeKinds
  <2>1. UNCHANGED now
    BY <1>1 DEF Login, bounds
  <2>2. CASE users[u].totp = 0
    BY <1>1, <2>1, <2>2 DEF Login, CodeKinds
  <2>3. CASE users[u].totp # 0
    BY <1>1, <2>1, <2>3 DEF Login, CodeKinds, Enters
  <2> QED BY <2>2, <2>3
<1>2. ASSUME NEW u \in User, NEW i \in Ip, LoginFails(u, i)
      PROVE  UNCHANGED <<used, entered, now>>
  BY <1>2 DEF LoginFails, bounds
<1>3. ASSUME NEW u \in User, SelfService(u) PROVE UNCHANGED <<used, entered, now>>
  BY <1>3 DEF SelfService, Logout, LogoutUnsaved, ChangePassword, TotpSetup, TotpEnable,
              TotpDisable, guard, bounds
<1>4. ASSUME NEW me \in User, NEW u \in User, UserAdmin(me, u)
      PROVE  UNCHANGED <<used, entered, now>>
  BY <1>4 DEF UserAdmin, CreateUser, SetRole, ResetPassword, DeleteUser, guard, bounds
<1>5. CASE UNCHANGED vars \/ \E c \in cookies : Gate(c)
  BY <1>5 DEF Gate, vars, guard, bounds, CodeKinds
<1>6. CASE Tick
  BY <1>6 DEF Tick, guard, CodeKinds
<1>7. CASE Restart
  BY <1>7 DEF Restart, CodeKinds
<1> QED BY <1>1, <1>2, <1>3, <1>4, <1>5, <1>6, <1>7 DEF Next, CodeKinds

LEMMA CodeForm ==
    ASSUME Table, now \in Nat, NEW u \in User, NEW code \in CodesOf(u)
    PROVE  code \in Code /\ code.step \in (now - 1)..(now + 1)
<1>1. users[u].totp \in Secret
  BY AccountsAssumption DEF Table, Row, NoRow, Secret
<1>2. PICK w \in -1..1 :
         code = [user |-> u, secret |-> users[u].totp, step |-> now + w]
  BY DEF CodesOf
<1>3. now + w \in Int /\ now + w \in (now - 1)..(now + 1)
  BY <1>2
<1> QED BY <1>1, <1>2, <1>3 DEF Code

LEMMA CodesStep == Table /\ Codes /\ [Next]_vars => Codes'
<1> SUFFICES ASSUME Table, Codes, [Next]_vars PROVE Codes'
  OBVIOUS
<1>1. /\ now \in Nat
      /\ used \subseteq [code : Code, ts : Nat] /\ entered \subseteq Code
      /\ \A c \in entered : c.step \in Int
  BY DEF Codes, Code
<1>2. CASE UNCHANGED <<used, entered>> /\ (now' = now \/ now' = now + 1)
  <2>1. now' \in Nat /\ now' >= now
    BY <1>1, <1>2
  <2>2. \A c \in entered : Remembered(c) \/ c.step < now' - 1
    BY <1>1, <2>1 DEF Codes
  <2> QED BY <1>1, <1>2, <2>1, <2>2 DEF Codes, Remembered
<1>3. CASE used' = {} /\ entered' = {} /\ UNCHANGED now
  BY <1>1, <1>3 DEF Codes
<1>4. ASSUME NEW u \in User, Enters(u) PROVE Codes'
  <2>1. PICK code \in CodesOf(u) :
           /\ used' = Unexpired \cup {[code |-> code, ts |-> now]}
           /\ entered' = entered \cup {code}
           /\ now' = now
    BY <1>4 DEF Enters
  <2> DEFINE new == [code |-> code, ts |-> now]
  <2>2. code \in Code /\ code.step \in (now - 1)..(now + 1)
    BY <1>1, CodeForm
  <2>3. /\ new \in [code : Code, ts : Nat]
        /\ new.code = code /\ new.ts >= code.step - 1
    BY <1>1, <2>2
  <2>4. Unexpired \subseteq used /\ \A x \in used : x \in Unexpired \/ ~(now - x.ts <= 3)
    BY DEF Unexpired
  <2> HIDE DEF new
  <2>5. used' \subseteq [code : Code, ts : Nat] /\ entered' \subseteq Code
    BY <1>1, <2>1, <2>2, <2>3, <2>4 DEF new
  <2>6. new \in used'
    BY <2>1 DEF new
  <2>7. ASSUME NEW c \in entered
        PROVE  (\E x \in used' : x.code = c /\ x.ts >= c.step - 1) \/ c.step < now - 1
    <3>1. CASE c.step < now - 1
      BY <3>1
    <3>2. ASSUME NEW x \in used, x.code = c, x.ts >= c.step - 1
          PROVE  (\E y \in used' : y.code = c /\ y.ts >= c.step - 1) \/ c.step < now - 1
      <4>1. CASE x \in Unexpired
        BY <2>1, <3>2, <4>1
      <4>2. CASE ~(now - x.ts <= 3)
        <5>1. x.ts \in Nat /\ c.step \in Int
          BY <1>1
        <5> QED BY <1>1, <3>2, <4>2, <5>1
      <4> QED BY <2>4, <4>1, <4>2
    <3> QED BY <3>1, <3>2 DEF Codes, Remembered
  <2>8. \A c \in entered' :
           (\E x \in used' : x.code = c /\ x.ts >= c.step - 1) \/ c.step < now - 1
    BY <2>1, <2>3, <2>6, <2>7
  <2> QED BY <1>1, <2>1, <2>5, <2>8 DEF Codes, Remembered
<1> QED BY StepCodeKinds, <1>2, <1>3, <1>4 DEF CodeKinds

LEMMA CodesInit == Init => Codes
BY DEF Init, Codes

LEMMA NewCodeIsNew ==
    Table /\ Codes /\ [Next]_vars => \A x \in used' \ used : x.code \notin entered
<1> SUFFICES ASSUME Table, Codes, [Next]_vars, NEW x \in used' \ used, x.code \in entered
             PROVE  FALSE
  OBVIOUS
<1>1. PICK u \in User : Enters(u)
  BY StepCodeKinds DEF CodeKinds
<1>2. PICK code \in CodesOf(u) :
         ~Consumed(code) /\ used' = Unexpired \cup {[code |-> code, ts |-> now]}
  BY <1>1 DEF Enters
<1>3. x = [code |-> code, ts |-> now]
  BY <1>2 DEF Unexpired
<1>4. code \in entered
  BY <1>3
<1>5. code.step \in (now - 1)..(now + 1) /\ now \in Nat
  BY CodeForm DEF Codes
<1>6. PICK y \in used : y.code = code /\ y.ts >= code.step - 1
  BY <1>4, <1>5 DEF Codes, Remembered
<1>7. y.ts \in Nat
  BY <1>6 DEF Codes
<1>8. now - y.ts <= 3
  BY <1>5, <1>6, <1>7
<1> QED BY <1>2, <1>6, <1>8 DEF Consumed, Unexpired

(* Accounts!CodeOnce: a code opens one session, though it is right for three *)
(* steps, however the pruning of totp_consume falls between the logins.      *)
THEOREM ACodeOpensOneSession == Spec => CodeOnce
<1>1. Table /\ Codes /\ [Next]_vars => [\A x \in used' \ used : x.code \notin entered]_vars
  BY NewCodeIsNew
<1> QED BY <1>1, TableInit, TableStep, CodesInit, CodesStep, PTL DEF Spec, CodeOnce
-----------------------------------------------------------------------------
(* What is left of TypeOK: the cookies and the requests in flight. *)
Tokens ==
    /\ cookies \subseteq Cookie /\ revoked \subseteq cookies
    /\ flight \in [User -> {"none", "admin", "viewer"}]
    /\ now \in Nat /\ restarts \in Nat

LEMMA FlightStep ==
    Table /\ Tokens /\ [Next]_vars =>
        flight' \in [User -> {"none", "admin", "viewer"}] /\ restarts' \in Nat
<1> SUFFICES ASSUME Table, Tokens, [Next]_vars
             PROVE  flight' \in [User -> {"none", "admin", "viewer"}] /\ restarts' \in Nat
  OBVIOUS
<1>1. ASSUME NEW u \in User, Handle(u), UNCHANGED bounds
      PROVE  flight' \in [User -> {"none", "admin", "viewer"}] /\ restarts' \in Nat
  BY <1>1 DEF Handle, Tokens, bounds
<1>2. ASSUME NEW u \in User, SelfService(u) PROVE Handle(u) /\ UNCHANGED bounds
  BY <1>2 DEF SelfService, Logout, LogoutUnsaved, ChangePassword, TotpSetup, TotpEnable,
              TotpDisable
<1>3. ASSUME NEW me \in User, NEW u \in User, UserAdmin(me, u)
      PROVE  Handle(me) /\ UNCHANGED bounds
  BY <1>3 DEF UserAdmin, CreateUser, SetRole, ResetPassword, DeleteUser, HandleAdmin
<1>4. ASSUME NEW c \in cookies, Gate(c)
      PROVE  flight' \in [User -> {"none", "admin", "viewer"}] /\ restarts' \in Nat
  <2>1. c.user \in User /\ users[c.user] # NoRow
    BY <1>4 DEF Gate, Accepts, Exists, Tokens, Cookie
  <2>2. users[c.user].role \in {"admin", "viewer"}
    BY <2>1 DEF Table, Row
  <2> QED BY <1>4, <2>1, <2>2 DEF Gate, Tokens, bounds
<1>5. ASSUME NEW u \in User, NEW i \in Ip, Login(u, i) \/ LoginFails(u, i)
      PROVE  flight' \in [User -> {"none", "admin", "viewer"}] /\ restarts' \in Nat
  BY <1>5 DEF Login, LoginFails, Tokens, bounds
<1>6. CASE UNCHANGED vars \/ Tick
  BY <1>6 DEF vars, bounds, Tick, Tokens
<1>7. CASE Restart
  BY <1>7 DEF Restart, Tokens
<1> QED BY <1>1, <1>2, <1>3, <1>4, <1>5, <1>6, <1>7 DEF Next

LEMMA CookiesStep ==
    Table /\ Tokens /\ [Next]_vars => cookies' \subseteq Cookie /\ revoked' \subseteq cookies'
<1> SUFFICES ASSUME Table, Tokens, [Next]_vars
             PROVE  cookies' \subseteq Cookie /\ revoked' \subseteq cookies'
  OBVIOUS
<1>1. Kinds /\ Table'
  BY StepKinds, TableStep
<1>2. ASSUME NEW u \in User, Issued(u)
      PROVE  cookies' \subseteq Cookie /\ cookies \subseteq cookies'
  <2> DEFINE new == [user |-> u, epoch |-> users'[u].epoch, exp |-> now + Ttl, life |-> life[u]]
  <2>1. users'[u].epoch \in Nat /\ life[u] \in Nat
    <3>1. users'[u] \in Row \cup {NoRow}
      BY <1>1 DEF Table
    <3> QED BY <3>1 DEF Row, NoRow, Table
  <2>2. now + Ttl \in Nat
    BY AccountsAssumption DEF Tokens
  <2>3. new \in Cookie
    BY <2>1, <2>2 DEF Cookie
  <2> QED BY <1>2, <2>3 DEF Issued, Tokens
<1>3. ASSUME NEW u \in User, Revoke(u) PROVE revoked' \subseteq cookies
  BY <1>3 DEF Revoke, Tokens
<1> QED BY <1>1, <1>2, <1>3 DEF Kinds, SameCookies, Tokens

LEMMA TokensStep == Table /\ Tokens /\ Codes' /\ [Next]_vars => Tokens'
BY FlightStep, CookiesStep DEF Tokens, Codes

(* Every variable keeps its type: a request let through carries a right, a   *)
(* second factor is one that was made, every ended session was handed out.   *)
THEOREM TypeCorrect == Spec => []TypeOK
<1> DEFINE Types == Table /\ Logs /\ Codes /\ Tokens
<1>1. Init => Types
  <2>1. Init => Tokens
    BY AccountsAssumption DEF Init, Tokens
  <2> QED BY <2>1, TableInit, LogsInit, CodesInit
<1>2. Types /\ [Next]_vars => Types'
  BY TableStep, LogsStep, CodesStep, TokensStep
<1>3. Types => TypeOK
  <2>1. Table => secrets \in Secret /\ requests \in Nat
    BY AccountsAssumption DEF Table, Secret
  <2> QED BY <2>1 DEF TypeOK, Table, Logs, Codes, Tokens
<1> HIDE DEF Types
<1> QED BY <1>1, <1>2, <1>3, PTL DEF Spec
=============================================================================
