-------------------------- MODULE BackOfficeProofs --------------------------
(***************************************************************************)
(* The control plane, proved for every value of the constants: what        *)
(* Accounts promises of sessions, Devices of the codes that set glasses    *)
(* up, Plates of the links that are tapped, CrmCredential of the adapter a *)
(* replica serves, and Throttle of the limit; and that side by side they   *)
(* keep their types.                                                       *)
(***************************************************************************)
EXTENDS MCBackOffice, FiniteSetTheorems, TLAPS

-----------------------------------------------------------------------------
(* Accounts *)

\* The requests that are about an account, which may have gone but once was.
AboutSomebody(act) == act.op \in {"login", "link", "redeem", "update", "delete"}
CallsRefer == \A c \in Caller : AboutSomebody(calls[c]) => users[calls[c].user] # None

\* An account under way is one the constraint on tenants will take.
CallFits(act) == act.op = "create" => RoleFits(act.role, act.tenant)
CreatesFit == \A c \in Caller : CallFits(calls[c])

AInv == TypeOK /\ CallsRefer /\ CreatesFit /\ SessionsAreEarned

\* The call has changed an account and is to end its sessions.
WillRevoke(act) == act.op \in {"redeem", "update"} /\ act.at \in {"mark", "revoke"}

-----------------------------------------------------------------------------
(* Shapes. *)

\* Rows of the table users.
LEMMA UserRows ==
  ASSUME TypeOK, NEW u \in User
  PROVE  /\ u \in Rows(users) <=> users[u] \in UserRow
         /\ users[u] \in {None, Gone} \/ users[u] \in UserRow
         /\ u \in Rows(users) <=> users[u] # None /\ users[u] # Gone
BY AccountsAssumption DEF TypeOK, Rows

\* Rows of the table password_resets.
LEMMA LinkRows ==
  ASSUME TypeOK, NEW l \in Rows(links)
  PROVE  l \in Link /\ links[l] \in LinkRow /\ links[l].user \in User
         /\ links[l].user \in Rows(users)
BY DEF TypeOK, Rows, LinkRow

\* What each request carries.
LEMMA CallShapes ==
  ASSUME TypeOK, NEW c \in Caller
  PROVE  /\ AboutSomebody(calls[c]) => calls[c].user \in User
         /\ calls[c].op = "login" => calls[c].by \in Password
         /\ calls[c].op = "link" =>
              calls[c] \in [op: {"link"}, at: {"burn", "mint"}, user: User, seen: SUBSET Link]
         /\ calls[c].op = "redeem" =>
              calls[c] \in [op: {"redeem"}, at: {"set", "mark", "revoke"}, user: User, link: Link,
                            password: Password]
         /\ calls[c].op = "create" =>
              calls[c] \in [op: {"create"}, at: {"insert"}, email: Email, role: ROLES,
                            tenant: Tenant \cup {None}, password: Password \cup {None}]
         /\ calls[c].op = "update" =>
              calls[c] \in [op: {"update"}, at: {"write", "revoke"}, user: User, change: Changes]
         /\ calls[c].op = "delete" =>
              calls[c] \in [op: {"delete"}, at: {"revoke", "delete"}, user: User]
<1>1. calls[c] \in CallRecord
  BY DEF TypeOK
<1> QED
  BY <1>1 DEF CallRecord, AboutSomebody, Idle

\* One request goes on or ends.
LEMMA CallMoves ==
  ASSUME AInv, NEW c \in Caller, NEW next \in CallRecord, CallFits(next),
         AboutSomebody(next) => users'[next.user] # None,
         \A u \in User : users[u] # None => users'[u] # None,
         calls' = [calls EXCEPT ![c] = next]
  PROVE  calls' \in [Caller -> CallRecord] /\ CallsRefer' /\ CreatesFit'
<1>1. /\ calls' \in [Caller -> CallRecord] /\ calls'[c] = next
      /\ \A d \in Caller : d # c => calls'[d] = calls[d]
  BY DEF AInv, TypeOK
<1>2. CallsRefer'
  <2> SUFFICES ASSUME NEW d \in Caller, AboutSomebody(calls'[d]) PROVE users'[calls'[d].user] # None
    BY DEF CallsRefer, AboutSomebody
  <2>1. CASE d = c
    BY <1>1, <2>1
  <2>2. CASE d # c
    BY <1>1, <2>2, CallShapes DEF AInv, CallsRefer, AboutSomebody
  <2> QED
    BY <2>1, <2>2
<1>3. CreatesFit'
  BY <1>1 DEF AInv, CreatesFit, CallFits, RoleFits
<1> QED
  BY <1>1, <1>2, <1>3

\* A revocation still to come is still to come after a step of one request,
\* unless it was that one's.
LEMMA RevokingStays ==
  ASSUME AInv, NEW c \in Caller, NEW next, calls' = [calls EXCEPT ![c] = next],
         NEW u, Revoking(u),
         WillRevoke(calls[c]) /\ calls[c].user = u => WillRevoke(next) /\ next.user = u
  PROVE  Revoking(u)'
<1>1. PICK d \in Caller : WillRevoke(calls[d]) /\ calls[d].user = u
  BY DEF Revoking, WillRevoke
<1>2. calls'[d] = IF d = c THEN next ELSE calls[d]
  BY DEF AInv, TypeOK
<1> QED
  BY <1>1, <1>2 DEF Revoking, WillRevoke

\* Sessions that were earned still are, where accounts and revocations stay.
LEMMA EarnedStays ==
  ASSUME AInv, users' = users,
         \A s \in sessions' :
           \/ s \in sessions /\ (Revoking(s.user) => Revoking(s.user)')
           \/ s.late
           \/ users[s.user].password = s.by /\ users[s.user].status = "active"
  PROVE  SessionsAreEarned'
BY DEF AInv, SessionsAreEarned

-----------------------------------------------------------------------------
(* Steps that leave the accounts alone. *)

\* A request goes on with the accounts as they are: it may take sessions away,
\* or issue one, and change links.
LEMMA CallStepKeepsAccounts ==
  ASSUME AInv, NEW c \in Caller, NEW next \in CallRecord, CallFits(next),
         AboutSomebody(next) => users[next.user] # None,
         calls' = [calls EXCEPT ![c] = next], users' = users,
         \A s \in sessions' :
           \/ s \in sessions
           \/ /\ s \in SessionRow /\ s.user \in Rows(users)
              /\ s.late \/ (users[s.user].password = s.by /\ users[s.user].status = "active"),
         \/ ~WillRevoke(calls[c])
         \/ WillRevoke(next) /\ next.user = calls[c].user
         \/ \A s \in sessions' : s.user # calls[c].user,
         links' \in [Link -> LinkRow \cup {None, Gone}],
         \A l \in Rows(links') : links'[l].user \in Rows(users)
  PROVE  AInv'
<1>1. calls' \in [Caller -> CallRecord] /\ CallsRefer' /\ CreatesFit'
  BY CallMoves
<1>2. sessions' \subseteq SessionRow /\ \A s \in sessions' : s.user \in Rows(users)
  BY DEF AInv, TypeOK
<1>3. TypeOK'
  BY <1>1, <1>2 DEF AInv, TypeOK
<1>4. ASSUME NEW s \in sessions', s \in sessions, Revoking(s.user) PROVE Revoking(s.user)'
  <2>1. WillRevoke(calls[c]) /\ calls[c].user = s.user => WillRevoke(next) /\ next.user = s.user
    OBVIOUS
  <2> QED
    BY <1>4, <2>1, RevokingStays
<1>5. SessionsAreEarned'
  BY <1>4, EarnedStays
<1> QED
  BY <1>1, <1>3, <1>5 DEF AInv

\* A request that only looks goes on.
LEMMA LooksOnly ==
  ASSUME AInv, NEW c \in Caller, NEW next \in CallRecord, CallFits(next),
         AboutSomebody(next) => users[next.user] # None,
         calls' = [calls EXCEPT ![c] = next], UNCHANGED <<users, sessions, links>>,
         \/ ~WillRevoke(calls[c])
         \/ WillRevoke(next) /\ next.user = calls[c].user
  PROVE  AInv'
<1>1. /\ links' \in [Link -> LinkRow \cup {None, Gone}]
      /\ \A l \in Rows(links') : links'[l].user \in Rows(users)
  BY DEF AInv, TypeOK
<1> QED
  BY <1>1, CallStepKeepsAccounts

\* The records that requests begin with, and the end of one.
LEMMA NewCalls ==
  /\ Idle \in CallRecord /\ CallFits(Idle) /\ ~AboutSomebody(Idle) /\ ~WillRevoke(Idle)
  /\ \A u \in User, p \in Password :
       LET act == [op |-> "login", at |-> "issue", user |-> u, by |-> p]
       IN  act \in CallRecord /\ CallFits(act) /\ act.user = u
  /\ \A u \in User : LinkCall(u) \in CallRecord /\ CallFits(LinkCall(u)) /\ LinkCall(u).user = u
  /\ \A u \in User, l \in Link, p \in Password :
       LET act == [op |-> "redeem", at |-> "set", user |-> u, link |-> l, password |-> p]
       IN  act \in CallRecord /\ CallFits(act) /\ act.user = u
  /\ \A u \in User, change \in Changes :
       LET act == [op |-> "update", at |-> "write", user |-> u, change |-> change]
       IN  act \in CallRecord /\ CallFits(act) /\ act.user = u
  /\ \A u \in User :
       LET act == [op |-> "delete", at |-> "revoke", user |-> u]
       IN  act \in CallRecord /\ CallFits(act) /\ act.user = u
BY DEF Idle, CallRecord, CallFits, AboutSomebody, WillRevoke, LinkCall

\* Somebody an address belongs to, or a row of the table, has an account.
LEMMA Known == ASSUME AInv, NEW u \in Rows(users) PROVE u \in User /\ users[u] # None
BY DEF AInv, TypeOK, Rows

\* The call that begins was idle.
LEMMA BeginStep ==
  ASSUME AInv, NEW c \in Caller, NEW next \in CallRecord, CallFits(next),
         AboutSomebody(next) => users[next.user] # None,
         Begin(c, next), UNCHANGED <<users, sessions, links>>
  PROVE  AInv'
<1>1. ~WillRevoke(calls[c]) /\ calls' = [calls EXCEPT ![c] = next]
  BY DEF Begin, Idle, WillRevoke
<1> QED
  BY <1>1, LooksOnly

\* The requests that only note what they read.
LEMMA BeginSteps ==
  ASSUME AInv, NEW c \in Caller,
         \/ Authenticate(c) \/ Forgot(c) \/ ResendInvite(c) \/ Redeem(c)
         \/ UpdateUser(c) \/ DeleteUser(c)
  PROVE  AInv'
<1>1. CASE Authenticate(c)
  BY <1>1, BeginStep, NewCalls, Known DEF Authenticate, WithEmail
<1>2. CASE Forgot(c)
  BY <1>2, BeginStep, NewCalls, Known DEF Forgot, WithEmail
<1>3. CASE ResendInvite(c)
  BY <1>3, BeginStep, NewCalls, Known DEF ResendInvite
<1>4. CASE Redeem(c)
  <2>1. PICK l \in Rows(links), p \in Password :
          Begin(c, [op |-> "redeem", at |-> "set", user |-> links[l].user, link |-> l, password |-> p])
    BY <1>4 DEF Redeem
  <2>2. l \in Link /\ links[l].user \in Rows(users)
    BY LinkRows DEF AInv
  <2> QED
    BY <1>4, <2>1, <2>2, BeginStep, NewCalls, Known DEF Redeem
<1>5. CASE UpdateUser(c)
  BY <1>5, BeginStep, NewCalls, Known DEF UpdateUser
<1>6. CASE DeleteUser(c)
  BY <1>6, BeginStep, NewCalls, Known DEF DeleteUser
<1> QED
  BY <1>1, <1>2, <1>3, <1>4, <1>5, <1>6

\* Somebody is invited.
LEMMA CreateUserStep == ASSUME AInv, NEW c \in Caller, CreateUser(c) PROVE AInv'
<1>1. PICK me \in Principals, e \in Email, r \in Role, asked \in Tenant, p \in Password \cup {None} :
        LET tenant == IF r = "cue_admin" THEN None ELSE ScopeTenant(me, asked) IN
          /\ RoleFits(r, tenant)
          /\ Begin(c, [op |-> "create", at |-> "insert", email |-> e, role |-> r,
                       tenant |-> tenant, password |-> p])
          /\ UNCHANGED <<users, sessions, links>>
  BY DEF CreateUser
<1>2. me \in UserRow
  <2>1. PICK u \in SignedIn : me = users[u]
    BY DEF Principals
  <2>2. u \in Rows(users) /\ u \in User
    BY <2>1, Known DEF SignedIn, AInv, TypeOK
  <2> QED
    BY <2>1, <2>2, UserRows DEF AInv
<1> DEFINE tenant == IF r = "cue_admin" THEN None ELSE ScopeTenant(me, asked)
           next == [op |-> "create", at |-> "insert", email |-> e, role |-> r,
                    tenant |-> tenant, password |-> p]
<1>3. tenant \in Tenant \cup {None}
  BY <1>2 DEF ScopeTenant, UserRow
<1>4. next \in CallRecord /\ ~AboutSomebody(next)
  BY <1>3, AccountsAssumption DEF CallRecord, AboutSomebody
<1>5. CallFits(next)
  BY <1>1 DEF CallFits
<1> QED
  BY <1>1, <1>4, <1>5, BeginStep

\* A session is issued: late, or to an account that is as it was checked.
LEMMA IssueStep == ASSUME AInv, NEW c \in Caller, IssueToken(c) PROVE AInv'
<1> DEFINE u == calls[c].user
           p == calls[c].by
<1>1. /\ calls[c].op = "login" /\ calls' = [calls EXCEPT ![c] = Idle]
      /\ users' = users /\ links' = links
      /\ u \in User /\ p \in Password /\ users[u] # None /\ ~WillRevoke(calls[c])
  BY CallShapes DEF IssueToken, In, Finish, AInv, CallsRefer, AboutSomebody, WillRevoke
<1>2. CASE sessions' = sessions
  BY <1>1, <1>2, LooksOnly, NewCalls
<1>3. CASE users[u] # Gone /\ sessions' = sessions \cup {Issued(u, p)}
  <2>1. u \in Rows(users)
    BY <1>1, <1>3, UserRows DEF AInv
  <2>2. /\ Issued(u, p) \in SessionRow /\ Issued(u, p).user = u /\ Issued(u, p).by = p
        /\ Issued(u, p).late = (users[u].password # p \/ users[u].status # "active")
    BY <1>1 DEF Issued, SessionRow
  <2>3. /\ links' \in [Link -> LinkRow \cup {None, Gone}]
        /\ \A l \in Rows(links') : links'[l].user \in Rows(users)
    BY <1>1 DEF AInv, TypeOK
  <2>4. \A s \in sessions' :
           \/ s \in sessions
           \/ /\ s \in SessionRow /\ s.user \in Rows(users)
              /\ s.late \/ (users[s.user].password = s.by /\ users[s.user].status = "active")
    BY <1>3, <2>1, <2>2
  <2> QED
    BY <1>1, <2>3, <2>4, CallStepKeepsAccounts, NewCalls
<1> QED
  BY <1>2, <1>3 DEF IssueToken

\* Links come and go, for accounts that are there.
LEMMA LinkStep == ASSUME AInv, NEW c \in Caller, Burn(c) \/ Mint(c) PROVE AInv'
<1> DEFINE u == calls[c].user
<1>1. /\ calls[c].op = "link" /\ ~WillRevoke(calls[c]) /\ users' = users /\ sessions' = sessions
      /\ u \in User /\ users[u] # None
      /\ calls[c] \in [op: {"link"}, at: {"burn", "mint"}, user: User, seen: SUBSET Link]
  BY CallShapes DEF Burn, Mint, In, AInv, CallsRefer, AboutSomebody, WillRevoke
<1>2. \A s \in sessions' : s \in sessions
  BY <1>1
<1>3. CASE Burn(c)
  <2> DEFINE next == [calls[c] EXCEPT !.at = "mint", !.seen = LinksOf(u)]
  <2>1. LinksOf(u) \subseteq Link
    BY LinkRows DEF LinksOf, AInv
  <2>2. next \in CallRecord /\ next.op = "link" /\ next.user = u
    BY <1>1, <2>1 DEF CallRecord
  <2>3. CallFits(next) /\ AboutSomebody(next)
    BY <2>2 DEF CallFits, AboutSomebody
  <2>4. calls' = [calls EXCEPT ![c] = next]
    BY <1>3 DEF Burn
  <2> HIDE DEF next
  <2>5. /\ links' \in [Link -> LinkRow \cup {None, Gone}]
        /\ \A l \in Rows(links') : links'[l].user \in Rows(users)
    BY <1>3 DEF Burn, Burned, AInv, TypeOK, Rows
  <2> QED
    BY <1>1, <1>2, <2>2, <2>3, <2>4, <2>5, CallStepKeepsAccounts
<1>4. CASE Mint(c)
  <2>1. calls' = [calls EXCEPT ![c] = Idle]
    BY <1>4 DEF Mint, Finish
  <2>2. /\ links' \in [Link -> LinkRow \cup {None, Gone}]
        /\ \A l \in Rows(links') : links'[l].user \in Rows(users)
    <3>1. CASE UNCHANGED links
      BY <3>1 DEF AInv, TypeOK
    <3>2. CASE ~Orphan(u)
      <4>1. u \in Rows(users)
        BY <1>1, <3>2, UserRows DEF Orphan, AInv
      <4>2. PICK l \in Free(links), new \in LinkRow \cup {Gone} :
              links' = [links EXCEPT ![l] = new] /\ (new # Gone => new.user = u)
        <5> DEFINE minted == [user |-> u, late |-> ~(LinksOf(u) \subseteq calls[c].seen)]
        <5>1. minted \in LinkRow /\ minted.user = u
          BY <1>1 DEF LinkRow
        <5> QED
          BY <1>4, <3>2, <5>1 DEF Mint
      <4>3. links \in [Link -> LinkRow \cup {None, Gone}]
        BY DEF AInv, TypeOK
      <4> QED
        BY <4>1, <4>2, <4>3 DEF AInv, TypeOK, Rows
    <3> QED
      BY <1>4, <3>1, <3>2 DEF Mint
  <2> QED
    BY <1>1, <1>2, <2>1, <2>2, CallStepKeepsAccounts, NewCalls
<1> QED
  BY <1>3, <1>4

\* The link of a redemption is spent; its revocation is still to come.
LEMMA MarkUsedStep == ASSUME AInv, NEW c \in Caller, MarkUsed(c) PROVE AInv'
<1> DEFINE next == [calls[c] EXCEPT !.at = "revoke"]
<1>1. /\ calls[c] \in [op: {"redeem"}, at: {"set", "mark", "revoke"}, user: User, link: Link,
                       password: Password]
      /\ users[calls[c].user] # None /\ users' = users /\ sessions' = sessions
  BY CallShapes DEF MarkUsed, In, AInv, CallsRefer, AboutSomebody
<1>2. /\ next \in CallRecord /\ next.op = "redeem" /\ next.at = "revoke"
      /\ next.user = calls[c].user
  BY <1>1 DEF CallRecord
<1>3. calls' = [calls EXCEPT ![c] = next]
  BY DEF MarkUsed, Go
<1> HIDE DEF next
<1>4. CallFits(next) /\ WillRevoke(next)
  BY <1>2 DEF CallFits, WillRevoke
<1>5. /\ links' \in [Link -> LinkRow \cup {None, Gone}]
      /\ \A l \in Rows(links') : links'[l].user \in Rows(users)
  BY <1>1 DEF MarkUsed, AInv, TypeOK, Rows
<1>6. \A s \in sessions' : s \in sessions
  BY <1>1
<1> QED
  BY <1>1, <1>2, <1>3, <1>4, <1>5, <1>6, CallStepKeepsAccounts

\* The sessions of the account end, and with them what was to come.
LEMMA RevokeAllStep == ASSUME AInv, NEW c \in Caller, RevokeAll(c) PROVE AInv'
<1>1. /\ calls[c].op \in {"redeem", "update", "delete"} /\ calls[c].at = "revoke"
      /\ users' = users /\ links' = links
      /\ sessions' = {s \in sessions : s.user # calls[c].user}
      /\ calls[c].user \in User /\ users[calls[c].user] # None
  BY CallShapes DEF RevokeAll, In, Revoked, AInv, CallsRefer, AboutSomebody
<1>2. PICK next \in CallRecord : /\ calls' = [calls EXCEPT ![c] = next] /\ CallFits(next)
                                 /\ AboutSomebody(next) => users[next.user] # None
  <2>1. CASE calls[c].op = "delete"
    <3> DEFINE next == [calls[c] EXCEPT !.at = "delete"]
    <3>1. next \in CallRecord /\ next.op = "delete" /\ next.user = calls[c].user
      BY <2>1, CallShapes DEF AInv, CallRecord
    <3>2. calls' = [calls EXCEPT ![c] = next]
      BY <2>1 DEF RevokeAll, Go
    <3> HIDE DEF next
    <3> QED
      BY <1>1, <3>1, <3>2 DEF CallFits
  <2>2. CASE calls[c].op # "delete"
    BY <2>2, NewCalls DEF RevokeAll, Finish
  <2> QED
    BY <2>1, <2>2
<1>3. /\ links' \in [Link -> LinkRow \cup {None, Gone}]
      /\ \A l \in Rows(links') : links'[l].user \in Rows(users)
  BY <1>1 DEF AInv, TypeOK
<1>4. /\ \A s \in sessions' : s \in sessions
      /\ \A s \in sessions' : s.user # calls[c].user
  BY <1>1
<1>5. users' = users /\ next \in CallRecord /\ CallFits(next) /\ calls' = [calls EXCEPT ![c] = next]
  BY <1>1, <1>2
<1>6. AboutSomebody(next) => users[next.user] # None
  BY <1>2
<1> QED
  BY <1>3, <1>4, <1>5, <1>6, CallStepKeepsAccounts

-----------------------------------------------------------------------------
(* Steps that change the accounts. *)

\* A request changes one account: what its sessions were got with still holds,
\* or the request is to end them.
LEMMA AccountChanges ==
  ASSUME AInv, NEW c \in Caller, NEW next \in CallRecord, CallFits(next), ~WillRevoke(calls[c]),
         NEW u \in Rows(users), AboutSomebody(next) => next.user = u,
         NEW new \in UserRow, RoleFits(new.role, new.tenant),
         users' = [users EXCEPT ![u] = new], calls' = [calls EXCEPT ![c] = next],
         sessions' = sessions, links' = links,
         \/ WillRevoke(next) /\ next.user = u
         \/ /\ new.password = users[u].password
            /\ users[u].status = "active" => new.status = "active"
  PROVE  AInv'
<1>1. u \in User /\ new \notin {None, Gone}
  BY Known, AccountsAssumption
<1>2. users' \in [User -> UserRow \cup {None, Gone}] /\ Rows(users') = Rows(users)
  BY <1>1 DEF AInv, TypeOK, Rows
<1>3. calls' \in [Caller -> CallRecord] /\ CallsRefer' /\ CreatesFit'
  <2>1. AboutSomebody(next) => users'[next.user] # None
    BY <1>1 DEF AInv, TypeOK
  <2>2. \A v \in User : users[v] # None => users'[v] # None
    BY <1>1 DEF AInv, TypeOK
  <2> QED
    BY <2>1, <2>2, CallMoves
<1>4. \A v \in Rows(users) : users'[v] = IF v = u THEN new ELSE users[v]
  BY Known DEF AInv, TypeOK
<1>5. TypeOK'
  BY <1>2, <1>3, <1>4 DEF AInv, TypeOK
<1>6. SessionsAreEarned'
  <2> SUFFICES ASSUME NEW s \in sessions, ~s.late, ~Revoking(s.user)'
               PROVE  users'[s.user].password = s.by /\ users'[s.user].status = "active"
    BY DEF SessionsAreEarned
  <2>1. s.user \in Rows(users)
    BY DEF AInv, TypeOK
  <2>2. ~Revoking(s.user)
    BY RevokingStays
  <2>3. users[s.user].password = s.by /\ users[s.user].status = "active"
    BY <2>2 DEF AInv, SessionsAreEarned
  <2>4. ~(WillRevoke(next) /\ next.user = s.user)
    <3>1. calls'[c] = next
      BY DEF AInv, TypeOK
    <3> QED
      BY <3>1 DEF Revoking, WillRevoke
  <2> QED
    BY <1>4, <2>1, <2>3, <2>4
<1> QED
  BY <1>3, <1>5, <1>6 DEF AInv

\* A redemption sets the password; the revocation comes two steps later.
LEMMA SetPasswordStep == ASSUME AInv, NEW c \in Caller, SetPassword(c) PROVE AInv'
<1> DEFINE u == calls[c].user
           next == [calls[c] EXCEPT !.at = "mark"]
<1>1. /\ calls[c] \in [op: {"redeem"}, at: {"set", "mark", "revoke"}, user: User, link: Link,
                       password: Password]
      /\ calls[c].at = "set" /\ ~WillRevoke(calls[c])
      /\ u \in User /\ users[u] # None /\ sessions' = sessions /\ links' = links
  BY CallShapes DEF SetPassword, In, AInv, CallsRefer, AboutSomebody, WillRevoke
<1>2. next \in CallRecord /\ next.op = "redeem" /\ next.at = "mark" /\ next.user = u
  BY <1>1 DEF CallRecord
<1>3. calls' = [calls EXCEPT ![c] = next]
  BY DEF SetPassword, Go
<1> HIDE DEF next
<1>4. CallFits(next) /\ WillRevoke(next) /\ AboutSomebody(next)
  BY <1>2 DEF CallFits, WillRevoke, AboutSomebody
<1>5. CASE users[u] = Gone
  <2>1. users' = users
    BY <1>5 DEF SetPassword
  <2> QED
    BY <1>1, <1>2, <1>3, <1>4, <2>1, LooksOnly
<1>6. CASE users[u] # Gone
  <2> DEFINE new == [users[u] EXCEPT !.password = calls[c].password]
  <2>1. u \in Rows(users) /\ users[u] \in UserRow
    BY <1>1, <1>6, UserRows DEF AInv
  <2>2. new \in UserRow /\ new.role = users[u].role /\ new.tenant = users[u].tenant
    BY <1>1, <2>1 DEF UserRow
  <2>3. users' = [users EXCEPT ![u] = new]
    BY <1>6 DEF SetPassword
  <2> HIDE DEF new
  <2>4. RoleFits(new.role, new.tenant)
    BY <2>1, <2>2 DEF AInv, TypeOK
  <2> QED
    BY <1>1, <1>2, <1>3, <1>4, <2>1, <2>2, <2>3, <2>4, AccountChanges
<1> QED
  BY <1>5, <1>6

\* What an administrator changes in a row leaves it a row.
LEMMA PatchedRow ==
  ASSUME NEW entry \in UserRow, NEW change \in Changes
  PROVE  /\ Patched(entry, change) \in UserRow /\ Patched(entry, change).tenant = entry.tenant
         /\ ~EndsSessions(change) =>
              /\ Patched(entry, change).password = entry.password
              /\ entry.status = "active" => Patched(entry, change).status = "active"
<1>1. change \in ChangeRecord
  BY AccountsAssumption
<1>2. /\ change.role \in ROLES \cup {None} /\ change.status \in {"active", "disabled", None}
      /\ change.password \in Password \cup {None}
  BY <1>1 DEF ChangeRecord
<1>3. Patched(entry, change) \in UserRow /\ Patched(entry, change).tenant = entry.tenant
  BY <1>2 DEF Patched, UserRow
<1>4. ~EndsSessions(change) =>
        /\ Patched(entry, change).password = entry.password
        /\ entry.status = "active" => Patched(entry, change).status = "active"
  BY <1>2 DEF Patched, EndsSessions, UserRow
<1> QED
  BY <1>3, <1>4

\* An update writes, and ends the sessions when it must.
LEMMA WriteUserStep == ASSUME AInv, NEW c \in Caller, WriteUser(c) PROVE AInv'
<1> DEFINE u == calls[c].user
           change == calls[c].change
           new == Patched(users[u], change)
<1>1. /\ calls[c] \in [op: {"update"}, at: {"write", "revoke"}, user: User, change: Changes]
      /\ ~WillRevoke(calls[c]) /\ u \in User /\ change \in Changes
      /\ users[u] # None /\ sessions' = sessions /\ links' = links
  BY CallShapes DEF WriteUser, In, AInv, CallsRefer, AboutSomebody, WillRevoke
<1>2. CASE Finish(c) /\ users' = users
  <2>1. calls' = [calls EXCEPT ![c] = Idle]
    BY <1>2 DEF Finish
  <2> QED
    BY <1>1, <1>2, <2>1, LooksOnly, NewCalls
<1>3. CASE /\ users[u] # Gone /\ RoleFits(new.role, users[u].tenant)
           /\ users' = [users EXCEPT ![u] = new]
           /\ IF EndsSessions(change) THEN Go(c, "revoke") ELSE Finish(c)
  <2>1. u \in Rows(users) /\ users[u] \in UserRow
    BY <1>1, <1>3, UserRows DEF AInv
  <2>2. /\ new \in UserRow /\ new.tenant = users[u].tenant
        /\ ~EndsSessions(change) => /\ new.password = users[u].password
                                    /\ users[u].status = "active" => new.status = "active"
    BY <1>1, <2>1, PatchedRow
  <2>3. users' = [users EXCEPT ![u] = new] /\ RoleFits(new.role, new.tenant)
    BY <1>3, <2>2
  <2> HIDE DEF new
  <2>4. CASE EndsSessions(change)
    <3> DEFINE next == [calls[c] EXCEPT !.at = "revoke"]
    <3>1. next \in CallRecord /\ next.op = "update" /\ next.at = "revoke" /\ next.user = u
      BY <1>1 DEF CallRecord
    <3>2. calls' = [calls EXCEPT ![c] = next]
      BY <1>3, <2>4 DEF Go
    <3> HIDE DEF next
    <3>3. CallFits(next) /\ WillRevoke(next)
      BY <3>1 DEF CallFits, WillRevoke
    <3> QED
      BY <1>1, <2>1, <2>2, <2>3, <3>1, <3>2, <3>3, AccountChanges
  <2>5. CASE ~EndsSessions(change)
    <3>1. calls' = [calls EXCEPT ![c] = Idle]
      BY <1>3, <2>5 DEF Finish
    <3> QED
      BY <1>1, <2>1, <2>2, <2>3, <2>5, <3>1, NewCalls, AccountChanges
  <2> QED
    BY <2>4, <2>5
<1> QED
  BY <1>2, <1>3 DEF WriteUser

\* A new account has no sessions to speak of.
LEMMA InsertUserStep == ASSUME AInv, NEW c \in Caller, InsertUser(c) PROVE AInv'
<1> DEFINE act == calls[c]
           new == [email |-> act.email, role |-> act.role, tenant |-> act.tenant,
                   status |-> "active", password |-> act.password]
<1>1. /\ act \in [op: {"create"}, at: {"insert"}, email: Email, role: ROLES,
                   tenant: Tenant \cup {None}, password: Password \cup {None}]
      /\ ~WillRevoke(act) /\ RoleFits(act.role, act.tenant)
      /\ sessions' = sessions /\ links' = links
  BY CallShapes DEF InsertUser, In, AInv, CreatesFit, CallFits, WillRevoke
<1>2. CASE Finish(c) /\ users' = users
  <2>1. calls' = [calls EXCEPT ![c] = Idle]
    BY <1>2 DEF Finish
  <2> QED
    BY <1>1, <1>2, <2>1, LooksOnly, NewCalls
<1>3. CASE \E u \in Free(users) :
             /\ users' = [users EXCEPT ![u] = new]
             /\ calls' = [calls EXCEPT ![c] = IF act.password = None THEN LinkCall(u) ELSE Idle]
  <2>1. PICK u \in Free(users) :
             /\ users' = [users EXCEPT ![u] = new]
             /\ calls' = [calls EXCEPT ![c] = IF act.password = None THEN LinkCall(u) ELSE Idle]
    BY <1>3
  <2>2. u \in User /\ users[u] = None
    BY DEF Free, AInv, TypeOK
  <2>3. new \in UserRow /\ new.role = act.role /\ new.tenant = act.tenant
    BY <1>1 DEF UserRow
  <2>4. new \notin {None, Gone}
    BY <2>3, AccountsAssumption
  <2> HIDE DEF new
  <2>5. PICK next \in CallRecord : /\ calls' = [calls EXCEPT ![c] = next] /\ CallFits(next)
                                   /\ AboutSomebody(next) => next.user = u
    BY <2>1, <2>2, NewCalls
  <2>6. /\ users' \in [User -> UserRow \cup {None, Gone}]
        /\ users'[u] = new /\ \A v \in User : v # u => users'[v] = users[v]
    BY <2>1, <2>2, <2>3 DEF AInv, TypeOK
  <2>7. Rows(users') = Rows(users) \cup {u} /\ u \notin Rows(users) /\ Rows(users) \subseteq User
    BY <2>2, <2>4, <2>6 DEF AInv, TypeOK, Rows
  <2>8. calls' \in [Caller -> CallRecord] /\ CallsRefer' /\ CreatesFit'
    <3>1. AboutSomebody(next) => users'[next.user] # None
      BY <2>4, <2>5, <2>6
    <3>2. \A v \in User : users[v] # None => users'[v] # None
      BY <2>2, <2>6
    <3> QED
      BY <2>5, <3>1, <3>2, CallMoves
  <2>9. TypeOK'
    BY <1>1, <2>3, <2>6, <2>7, <2>8 DEF AInv, TypeOK
  <2>10. SessionsAreEarned'
    <3> SUFFICES ASSUME NEW s \in sessions, ~s.late, ~Revoking(s.user)'
                 PROVE  users'[s.user].password = s.by /\ users'[s.user].status = "active"
      BY <1>1 DEF SessionsAreEarned
    <3>1. s.user \in Rows(users)
      BY DEF AInv, TypeOK
    <3>2. ~Revoking(s.user)
      BY <1>1, <2>5, RevokingStays
    <3>3. users[s.user].password = s.by /\ users[s.user].status = "active"
      BY <3>2 DEF AInv, SessionsAreEarned
    <3> QED
      BY <2>6, <2>7, <3>1, <3>3
  <2> QED
    BY <2>8, <2>9, <2>10 DEF AInv
<1> QED
  BY <1>2, <1>3 DEF InsertUser

\* An account goes with its sessions and links.
LEMMA DeleteUserStep == ASSUME AInv, NEW c \in Caller, Delete(c) PROVE AInv'
<1> DEFINE u == calls[c].user
<1>1. /\ calls[c].op = "delete" /\ ~WillRevoke(calls[c]) /\ u \in User
      /\ users' = [users EXCEPT ![u] = Gone] /\ calls' = [calls EXCEPT ![c] = Idle]
      /\ sessions' = {s \in sessions : s.user # u}
      /\ links' = [l \in Link |-> IF l \in LinksOf(u) THEN Gone ELSE links[l]]
  BY CallShapes DEF Delete, In, Finish, Revoked, AInv, AboutSomebody, WillRevoke
<1>2. /\ users' \in [User -> UserRow \cup {None, Gone}]
      /\ users'[u] = Gone /\ \A v \in User : v # u => users'[v] = users[v]
  BY <1>1 DEF AInv, TypeOK
<1>3. Rows(users') = Rows(users) \ {u} /\ Rows(users) \subseteq User
  BY <1>1, <1>2 DEF AInv, TypeOK, Rows
<1>4. calls' \in [Caller -> CallRecord] /\ CallsRefer' /\ CreatesFit'
  <2>1. \A v \in User : users[v] # None => users'[v] # None
    BY <1>1, <1>2, AccountsAssumption
  <2> QED
    BY <1>1, <2>1, CallMoves, NewCalls
<1>5. /\ links' \in [Link -> LinkRow \cup {None, Gone}]
      /\ \A l \in Rows(links') : links'[l].user \in Rows(users')
  <2>1. links \in [Link -> LinkRow \cup {None, Gone}]
        /\ \A l \in Rows(links) : links[l].user \in Rows(users)
    BY DEF AInv, TypeOK
  <2>2. \A l \in Rows(links') : l \in Rows(links) \ LinksOf(u) /\ links'[l] = links[l]
    BY <1>1, <2>1 DEF Rows
  <2> QED
    BY <1>1, <1>3, <2>1, <2>2 DEF LinksOf
<1>6. sessions' \subseteq SessionRow /\ \A s \in sessions' : s.user \in Rows(users')
  BY <1>1, <1>3 DEF AInv, TypeOK
<1>7. \A v \in Rows(users') : RoleFits(users'[v].role, users'[v].tenant)
  BY <1>2, <1>3 DEF AInv, TypeOK
<1>8. SessionsAreEarned'
  <2> SUFFICES ASSUME NEW s \in sessions', ~s.late, ~Revoking(s.user)'
               PROVE  users'[s.user].password = s.by /\ users'[s.user].status = "active"
    BY DEF SessionsAreEarned
  <2>1. s \in sessions /\ s.user # u /\ s.user \in Rows(users)
    BY <1>1, <1>3, <1>6
  <2>2. ~Revoking(s.user)
    BY <1>1, RevokingStays
  <2>3. users[s.user].password = s.by /\ users[s.user].status = "active"
    BY <2>1, <2>2 DEF AInv, SessionsAreEarned
  <2> QED
    BY <1>2, <1>3, <2>1, <2>3
<1> QED
  BY <1>2, <1>4, <1>5, <1>6, <1>7, <1>8 DEF AInv, TypeOK

-----------------------------------------------------------------------------
(* The world, and the theorems. *)

\* Signing out, a link that lapses, and a step of something else.
LEMMA WorldStep ==
  ASSUME AInv, users' = users, calls' = calls,
         sessions' \subseteq sessions,
         links' \in [Link -> LinkRow \cup {None, Gone}],
         \A l \in Rows(links') : links'[l].user \in Rows(users)
  PROVE  AInv'
<1>1. TypeOK'
  BY DEF AInv, TypeOK
<1>2. CallsRefer' /\ CreatesFit'
  BY DEF AInv, CallsRefer, CreatesFit
<1>3. \A v : Revoking(v)' = Revoking(v)
  BY DEF Revoking
<1>4. SessionsAreEarned'
  BY <1>3, EarnedStays
<1> QED
  BY <1>1, <1>2, <1>4 DEF AInv

\* The seed leaves one account, of staff, and nothing else.
LEMMA AInit == Init => AInv
<1> SUFFICES ASSUME Init PROVE AInv
  OBVIOUS
<1>1. PICK e \in Email, p \in Password :
        users = [u \in User |->
                  IF u = Founder
                  THEN [email |-> e, role |-> "cue_admin", tenant |-> None,
                        status |-> "active", password |-> p]
                  ELSE None]
  BY DEF Init
<1> DEFINE founder == [email |-> e, role |-> "cue_admin", tenant |-> None,
                       status |-> "active", password |-> p]
<1>2. founder \in UserRow /\ founder.role = "cue_admin" /\ founder.tenant = None
  BY DEF UserRow, ROLES
<1>3. users \in [User -> UserRow \cup {None, Gone}]
  BY <1>1, <1>2
<1>4. \A u \in Rows(users) : users[u] = founder
  BY <1>1 DEF Rows
<1> HIDE DEF founder
<1>5. \A u \in Rows(users) : RoleFits(users[u].role, users[u].tenant)
  BY <1>2, <1>4 DEF RoleFits
<1>6. links \in [Link -> LinkRow \cup {None, Gone}] /\ Rows(links) = {}
  BY DEF Init, Rows
<1>7. calls \in [Caller -> CallRecord] /\ \A c \in Caller : calls[c] = Idle
  BY NewCalls DEF Init
<1>8. CallsRefer /\ CreatesFit
  BY <1>7, NewCalls DEF CallsRefer, CreatesFit
<1>9. TypeOK /\ SessionsAreEarned
  BY <1>3, <1>5, <1>6, <1>7 DEF Init, TypeOK, SessionsAreEarned
<1> QED
  BY <1>8, <1>9 DEF AInv

\* Every step keeps the invariant.
LEMMA AStepInv == AInv /\ [Next]_vars => AInv'
<1> SUFFICES ASSUME AInv, [Next]_vars PROVE AInv'
  OBVIOUS
<1>1. ASSUME NEW c \in Caller, CallStep(c) PROVE AInv'
  BY <1>1, BeginSteps, CreateUserStep, IssueStep, LinkStep, MarkUsedStep, RevokeAllStep,
     SetPasswordStep, WriteUserStep, InsertUserStep, DeleteUserStep DEF CallStep
<1>2. /\ links \in [Link -> LinkRow \cup {None, Gone}]
      /\ \A l \in Rows(links) : links[l].user \in Rows(users)
  BY DEF AInv, TypeOK
<1>3. ASSUME NEW s \in sessions, Logout(s) PROVE AInv'
  BY <1>2, <1>3, WorldStep DEF Logout
<1>4. ASSUME NEW l \in Link, LapseLink(l) PROVE AInv'
  <2>1. links' = [links EXCEPT ![l] = Gone]
    BY <1>4 DEF LapseLink
  <2>2. /\ links' \in [Link -> LinkRow \cup {None, Gone}]
        /\ \A k \in Rows(links') : links'[k].user \in Rows(users)
    BY <1>2, <2>1 DEF Rows
  <2> QED
    BY <1>4, <2>2, WorldStep DEF LapseLink
<1>5. CASE UNCHANGED vars
  BY <1>2, <1>5, WorldStep DEF vars
<1> QED
  BY <1>1, <1>3, <1>4, <1>5 DEF Next

\* The tables of routes_auth.py and routes_admin.py keep their shape, no session
\* or link is left without its account, and staff alone belong to no tenant.
THEOREM AccountsTyped == Spec => []TypeOK
<1>1. AInv => TypeOK
  BY DEF AInv
<1> QED
  BY AInit, AStepInv, <1>1, PTL DEF Spec

\* A session outlives the change of its password or the disabling of its account
\* only if its login was past the check when the change was made.
THEOREM SessionsEarned == Spec => []SessionsAreEarned
<1>1. AInv => SessionsAreEarned
  BY DEF AInv
<1> QED
  BY AInit, AStepInv, <1>1, PTL DEF Spec

-----------------------------------------------------------------------------
(* Devices *)

\* The requests a route may have under way, and where each may be.
AskRecord ==
  {Resting}
  \cup [op: {"mint"}, at: {"preflight", "write"}, shop: Shop, user: Staff \cup {None},
        serial: Serial \cup {None}, surface: Surface]
  \cup [op: {"reissue"}, at: {"preflight", "write"}, device: Device,
        surface: Surface \cup {"even-g2"}]
  \cup [op: {"hardware"}, at: {"write"}, shop: Shop, user: Staff \cup {None},
        serial: Serial]

\* A reissue under way is of a row that is there, as rows never leave the table.
AsksTyped ==
  /\ asks \in [Admin -> AskRecord]
  /\ staff \subseteq Staff
  /\ \A a \in Admin : asks[a].op = "reissue" => asks[a].device \in Listed

\* Codes are handed out once: no two rows hold the same one.
OneRowPerCode ==
  \A d, e \in Listed : devices[d].code # None /\ devices[d].code = devices[e].code => d = e

\* Codes are handed out in order: a row holds none that is still to come.
CodesAreMinted == \A d \in Listed : devices[d].code \in 1..codes \cup {None}

\* A dead code is nowhere, or on the row that was revoked with it.
DeadMeansRevoked == \A d \in Listed : devices[d].code \in dead => devices[d].revoked

DInv == DTypeOK /\ AsksTyped /\ OneRowPerCode /\ CodesAreMinted /\ DeadMeansRevoked

-----------------------------------------------------------------------------
(* Rows. *)

\* A listed row has the shape of the table.
LEMMA ListedRow ==
  ASSUME DTypeOK, NEW d \in Listed PROVE d \in Device /\ devices[d] \in DeviceRow
BY DEF DTypeOK, Listed

\* One row changes, and keeps its code: revoked or not as the dead codes ask.
LEMMA RowKeepsCode ==
  ASSUME DInv,
         NEW d \in Listed, NEW entry \in DeviceRow,
         entry.code = devices[d].code, Exists(entry.user),
         devices' = [devices EXCEPT ![d] = entry], staff' = staff, codes' = codes,
         asks' = asks, dead' \subseteq 1..codes,
         \A e \in Listed : devices'[e].code \in dead' => devices'[e].revoked
  PROVE  DInv'
<1>1. /\ d \in Device /\ Listed' = Listed
      /\ devices'[d] = entry /\ \A e \in Listed : e # d => devices'[e] = devices[e]
  BY DevicesAssumption, ListedRow DEF DInv, DTypeOK, Listed
<1>2. DTypeOK'
  BY <1>1 DEF DInv, DTypeOK, Exists
<1>3. AsksTyped'
  BY <1>1 DEF DInv, AsksTyped
<1>4. OneRowPerCode' /\ CodesAreMinted'
  BY <1>1 DEF DInv, OneRowPerCode, CodesAreMinted
<1> QED
  BY <1>1, <1>2, <1>3, <1>4 DEF DInv, DeadMeansRevoked
-----------------------------------------------------------------------------
(* The steps. *)

\* Requests move and no row does.
LEMMA AsksAlone ==
  ASSUME DInv, asks' \in [Admin -> AskRecord],
         \A a \in Admin : asks'[a].op = "reissue" => asks'[a].device \in Listed,
         UNCHANGED <<devices, staff, codes, dead>>
  PROVE  DInv'
BY DEF DInv, DTypeOK, AsksTyped, OneRowPerCode, CodesAreMinted, DeadMeansRevoked, Listed, Exists

\* One request changes.
LEMMA AskMoves ==
  ASSUME AsksTyped, NEW a \in Admin, NEW ask \in AskRecord,
         ask.op = "reissue" => ask.device \in Listed,
         asks' = [asks EXCEPT ![a] = ask]
  PROVE  /\ asks' \in [Admin -> AskRecord]
         /\ \A b \in Admin : asks'[b].op = "reissue" => asks'[b].device \in Listed
BY DEF AsksTyped

\* A row is added, under a new code or none.
LEMMA RowAdded ==
  ASSUME DInv,
         NEW d \in Device \ Listed, NEW new \in DeviceRow, Exists(new.user),
         devices' = [devices EXCEPT ![d] = new], staff' = staff, dead' = dead,
         \/ new.code = None /\ codes' = codes
         \/ new.code = codes' /\ codes' = codes + 1 /\ codes < MaxCodes,
         asks' \in [Admin -> AskRecord],
         \A a \in Admin : asks'[a].op = "reissue" => asks'[a].device \in Listed
  PROVE  DInv'
<1>1. /\ Listed' = Listed \cup {d} /\ devices'[d] = new
      /\ \A e \in Listed : e # d /\ devices'[e] = devices[e]
  BY DevicesAssumption DEF DInv, DTypeOK, Listed
<1>2. /\ codes \in Nat /\ codes' \in Nat /\ codes <= codes' /\ codes' <= MaxCodes
      /\ dead \subseteq 1..codes /\ 1..codes \subseteq 1..codes' /\ 1..codes \subseteq 1..MaxCodes
  BY DevicesAssumption DEF DInv, DTypeOK
<1>3. None \notin 1..MaxCodes
  BY DevicesAssumption DEF Code
<1>4. DTypeOK'
  BY <1>1, <1>2 DEF DInv, DTypeOK, Exists
<1>5. AsksTyped'
  BY <1>1 DEF DInv, AsksTyped
<1>6. /\ new.code \in 1..codes' \cup {None} /\ new.code \notin 1..codes
  BY <1>2, <1>3
<1>7. OneRowPerCode' /\ CodesAreMinted'
  BY <1>1, <1>2, <1>6 DEF DInv, OneRowPerCode, CodesAreMinted
<1>8. new.code \notin dead
  BY <1>2, <1>6
<1>9. DeadMeansRevoked'
  BY <1>1, <1>8 DEF DInv, DeadMeansRevoked
<1> QED
  BY <1>4, <1>5, <1>7, <1>9 DEF DInv

\* Asking leaves the tables alone.
LEMMA AskStep ==
  ASSUME DInv, NEW a \in Admin,
         MintAsked(a) \/ ReissueAsked(a) \/ AddHardware(a) \/ Preflight(a)
  PROVE  DInv'
<1>1. CASE MintAsked(a)
  BY <1>1, AskMoves, AsksAlone DEF MintAsked, Ask, AskRecord, DInv, AsksTyped
<1>2. CASE ReissueAsked(a)
  <2>1. PICK d \in Listed : /\ Ask(a, [op |-> "reissue", at |-> "preflight", device |-> d,
                                        surface |-> devices[d].surface])
                            /\ UNCHANGED <<devices, staff, codes, dead>>
    BY <1>2 DEF ReissueAsked
  <2>2. d \in Device /\ devices[d].surface \in Surface \cup {"even-g2"}
    BY ListedRow DEF DInv, DeviceRow
  <2> QED
    BY <2>1, <2>2, AskMoves, AsksAlone DEF Ask, AskRecord, DInv
<1>3. CASE AddHardware(a)
  BY <1>3, AskMoves, AsksAlone DEF AddHardware, Ask, AskRecord, DInv, AsksTyped
<1>4. CASE Preflight(a)
  <2>1. asks[a] \in AskRecord /\ asks[a] # Resting /\ asks[a].at = "preflight"
    BY <1>4 DEF Preflight, DInv, AsksTyped
  <2>2. CASE Done(a)
    BY <1>4, <2>2, AskMoves, AsksAlone DEF Preflight, Done, AskRecord, Resting, DInv
  <2>3. CASE asks' = [asks EXCEPT ![a].at = "write"]
    <3> DEFINE next == [asks[a] EXCEPT !.at = "write"]
    <3>1. next \in AskRecord /\ next.op = asks[a].op
      BY <2>1 DEF AskRecord, Resting
    <3>2. next.op = "reissue" => next.device = asks[a].device
      BY <2>1 DEF AskRecord, Resting
    <3>3. asks' = [asks EXCEPT ![a] = next]
      BY <2>3 DEF DInv, AsksTyped
    <3>4. next.op = "reissue" => next.device \in Listed
      BY <3>1, <3>2 DEF DInv, AsksTyped
    <3> HIDE DEF next
    <3> QED
      BY <1>4, <3>1, <3>3, <3>4, AskMoves, AsksAlone DEF Preflight, DInv
  <2> QED
    BY <1>4, <2>2, <2>3 DEF Preflight
<1> QED
  BY <1>1, <1>2, <1>3, <1>4

\* A request that is done is one the others do not depend on.
LEMMA DoneMoves ==
  ASSUME DInv, NEW a \in Admin, Done(a)
  PROVE  /\ asks' \in [Admin -> AskRecord]
         /\ \A b \in Admin : asks'[b].op = "reissue" => asks'[b].device \in Listed
BY AskMoves DEF Done, DInv, AskRecord, Resting

\* A mint writes a row under the next code, or is refused by an index.
LEMMA CreateStep == ASSUME DInv, NEW a \in Admin, Create(a) PROVE DInv'
<1>1. /\ asks[a] \in AskRecord /\ asks[a].op = "mint" /\ Done(a)
      /\ staff' = staff /\ dead' = dead
  BY DEF Create, DInv, AsksTyped
<1>2. /\ asks[a].shop \in Shop /\ asks[a].user \in Staff \cup {None}
      /\ asks[a].serial \in Serial \cup {None} /\ asks[a].surface \in Surface \cup {"even-g2"}
  BY <1>1 DEF AskRecord, Resting
<1>3. CASE UNCHANGED <<devices, codes>>
  BY <1>1, <1>3, DoneMoves, AsksAlone
<1>4. CASE SerialAllowed(asks[a].shop, asks[a].serial) /\ Exists(asks[a].user)
  <2>1. PICK d \in Device \ Listed :
          /\ codes < MaxCodes /\ codes' = codes + 1
          /\ devices' = [devices EXCEPT ![d] = NewDevice(asks[a].shop, asks[a].user,
                                           asks[a].serial, asks[a].surface, codes')]
    BY <1>4 DEF Create
  <2>2. codes' \in Code
    BY <2>1, DevicesAssumption DEF DInv, DTypeOK, Code
  <2> DEFINE new == NewDevice(asks[a].shop, asks[a].user, asks[a].serial, asks[a].surface, codes')
  <2>3. new \in DeviceRow /\ new.code = codes' /\ new.user = asks[a].user
    BY <1>2, <2>2 DEF NewDevice, DeviceRow
  <2>4. devices' = [devices EXCEPT ![d] = new]
    BY <2>1
  <2> HIDE DEF new
  <2>5. Exists(new.user)
    BY <1>4, <2>3 DEF Exists
  <2> QED
    BY <1>1, <2>1, <2>3, <2>4, <2>5, DoneMoves, RowAdded
<1> QED
  BY <1>3, <1>4 DEF Create

\* Hardware is written without a code, or refused.
LEMMA InsertHardwareStep == ASSUME DInv, NEW a \in Admin, InsertHardware(a) PROVE DInv'
<1>1. /\ asks[a] \in AskRecord /\ asks[a].op = "hardware" /\ Done(a)
      /\ staff' = staff /\ codes' = codes /\ dead' = dead
  BY DEF InsertHardware, DInv, AsksTyped
<1>2. /\ asks[a].shop \in Shop /\ asks[a].user \in Staff \cup {None} /\ asks[a].serial \in Serial
  BY <1>1 DEF AskRecord, Resting
<1>3. CASE UNCHANGED devices
  BY <1>1, <1>3, DoneMoves, AsksAlone
<1>4. CASE SerialAllowed(asks[a].shop, asks[a].serial) /\ Exists(asks[a].user)
  <2> DEFINE new == NewDevice(asks[a].shop, asks[a].user, asks[a].serial, "even-g2", None)
  <2>1. PICK d \in Device \ Listed : devices' = [devices EXCEPT ![d] = new]
    BY <1>4 DEF InsertHardware
  <2>2. new \in DeviceRow /\ new.code = None /\ new.user = asks[a].user
    BY <1>2 DEF NewDevice, DeviceRow
  <2> HIDE DEF new
  <2>3. Exists(new.user)
    BY <1>4, <2>2 DEF Exists
  <2> QED
    BY <1>1, <2>1, <2>2, <2>3, DoneMoves, RowAdded
<1> QED
  BY <1>3, <1>4 DEF InsertHardware

\* A reissue puts the next code on its row and the old one among the dead.
LEMMA ReissueStep == ASSUME DInv, NEW a \in Admin, Reissue(a) PROVE DInv'
<1> DEFINE d == asks[a].device
           new == Reissued(devices[d], codes + 1)
<1>1. /\ asks[a] \in AskRecord /\ asks[a].op = "reissue" /\ Done(a) /\ staff' = staff
      /\ codes < MaxCodes /\ codes' = codes + 1
      /\ dead' = dead \cup ({devices[d].code} \ {None})
      /\ devices' = [devices EXCEPT ![d] = new]
  BY DEF Reissue, DInv, AsksTyped
<1>2. d \in Listed /\ d \in Device /\ devices[d] \in DeviceRow
  BY <1>1, ListedRow DEF DInv, AsksTyped
<1>3. /\ codes \in Nat /\ codes + 1 \in 1..MaxCodes /\ codes + 1 \notin 1..codes
      /\ 1..codes \subseteq 1..(codes + 1) /\ dead \subseteq 1..codes
  BY <1>1, DevicesAssumption DEF DInv, DTypeOK
<1>4. /\ new \in DeviceRow /\ new.code = codes + 1 /\ new.user = devices[d].user
  BY <1>2, <1>3 DEF Reissued, DeviceRow, Code
<1>5. None \notin 1..MaxCodes /\ None \notin DeviceRow
  BY DevicesAssumption DEF Code
<1> HIDE DEF d, new
<1>6. /\ Listed' = Listed /\ devices'[d] = new
      /\ \A e \in Listed : e # d => devices'[e] = devices[e]
  BY <1>1, <1>2, <1>4, <1>5 DEF DInv, DTypeOK, Listed
<1>7. devices[d].code \in 1..codes \cup {None}
  BY <1>2 DEF DInv, CodesAreMinted
<1>8. dead' \subseteq 1..codes /\ dead' \subseteq 1..codes'
  BY <1>1, <1>3, <1>7
<1>9. DTypeOK'
  <2>1. devices' \in [Device -> DeviceRow \cup {None}]
    BY <1>1, <1>4 DEF DInv, DTypeOK
  <2>2. codes' \in 0..MaxCodes
    BY <1>1, <1>3
  <2>3. (\A e \in Listed : Exists(devices[e].user))'
    BY <1>1, <1>2, <1>4, <1>6 DEF DInv, DTypeOK, Exists
  <2> QED
    BY <1>8, <2>1, <2>2, <2>3 DEF DTypeOK
<1>10. AsksTyped'
  BY <1>1, <1>6, DoneMoves DEF DInv, AsksTyped
<1>11. OneRowPerCode'
  BY <1>3, <1>4, <1>5, <1>6 DEF DInv, OneRowPerCode, CodesAreMinted
<1>12. CodesAreMinted'
  BY <1>1, <1>3, <1>4, <1>6 DEF DInv, CodesAreMinted
<1>13. DeadMeansRevoked'
  <2>1. devices'[d].code \notin dead'
    BY <1>3, <1>4, <1>6, <1>8
  <2>2. \A e \in Listed : e # d /\ devices[e].code \in dead' => devices[e].code \in dead
    BY <1>1, <1>2 DEF DInv, OneRowPerCode
  <2> QED
    BY <1>6, <2>1, <2>2 DEF DInv, DeadMeansRevoked
<1> QED
  BY <1>9, <1>10, <1>11, <1>12, <1>13 DEF DInv

\* A revocation kills the code of its row and of no other.
LEMMA RevokeStep == ASSUME DInv, NEW d \in Listed, RevokeDevice(d) PROVE DInv'
<1> DEFINE new == [devices[d] EXCEPT !.revoked = TRUE]
<1>1. d \in Device /\ devices[d] \in DeviceRow
  BY ListedRow DEF DInv
<1>2. new \in DeviceRow /\ new.code = devices[d].code /\ new.user = devices[d].user /\ new.revoked
  BY <1>1 DEF DeviceRow
<1>3. devices' = [devices EXCEPT ![d] = new]
  BY <1>1 DEF RevokeDevice, DInv, DTypeOK
<1> HIDE DEF new
<1>4. dead' \subseteq 1..codes
  BY DEF RevokeDevice, DInv, DTypeOK, CodesAreMinted
<1>5. \A e \in Listed : devices'[e].code \in dead' => devices'[e].revoked
  <2> SUFFICES ASSUME NEW e \in Listed, e # d, devices[e].code \in dead' PROVE devices[e].revoked
    BY <1>1, <1>2, <1>3, ListedRow DEF DInv, DTypeOK
  <2> QED
    BY DEF RevokeDevice, DInv, OneRowPerCode, DeadMeansRevoked
<1>6. Exists(new.user)
  BY <1>2 DEF DInv, DTypeOK, Exists
<1> QED
  BY <1>2, <1>3, <1>4, <1>5, <1>6, RowKeepsCode DEF RevokeDevice

\* The console changes a status or an owner.
LEMMA UpdateStep == ASSUME DInv, NEW d \in Listed, UpdateDevice(d) PROVE DInv'
<1>1. d \in Device /\ devices[d] \in DeviceRow
  BY ListedRow DEF DInv
<1> DEFINE Changed(new) == /\ devices' = [devices EXCEPT ![d] = new]
                           /\ new.code = devices[d].code /\ new.revoked = devices[d].revoked
                           /\ Exists(new.user)
<1>2. PICK new \in DeviceRow : Changed(new)
  <2>1. ASSUME NEW s \in {"active", "lost"}, devices' = [devices EXCEPT ![d].status = s]
        PROVE  \E new \in DeviceRow : Changed(new)
    <3> DEFINE new == [devices[d] EXCEPT !.status = s]
    <3>1. /\ new \in DeviceRow /\ new.code = devices[d].code /\ new.revoked = devices[d].revoked
          /\ new.user = devices[d].user
      BY <1>1 DEF DeviceRow
    <3>2. devices' = [devices EXCEPT ![d] = new]
      BY <2>1
    <3> HIDE DEF new
    <3> QED
      BY <1>1, <3>1, <3>2 DEF DInv, DTypeOK, Exists
  <2>2. ASSUME NEW user \in staff \cup {None}, devices' = [devices EXCEPT ![d].user = user]
        PROVE  \E new \in DeviceRow : Changed(new)
    <3> DEFINE new == [devices[d] EXCEPT !.user = user]
    <3>1. /\ new \in DeviceRow /\ new.code = devices[d].code /\ new.revoked = devices[d].revoked
          /\ new.user = user
      BY <1>1 DEF DeviceRow, DInv, AsksTyped
    <3>2. devices' = [devices EXCEPT ![d] = new]
      BY <2>2
    <3> HIDE DEF new
    <3> QED
      BY <1>1, <3>1, <3>2 DEF Exists
  <2> QED
    BY <2>1, <2>2 DEF UpdateDevice
<1>3. /\ staff' = staff /\ codes' = codes /\ dead' = dead /\ asks' = asks
      /\ dead' \subseteq 1..codes
  BY DEF UpdateDevice, DInv, DTypeOK
<1>4. \A e \in Listed : devices'[e].code \in dead' => devices'[e].revoked
  BY <1>1, <1>2, <1>3 DEF DInv, DTypeOK, DeadMeansRevoked, Listed
<1> QED
  BY <1>2, <1>3, <1>4, RowKeepsCode

\* With a person their name leaves every row, and nothing else.
LEMMA DeleteStep == ASSUME DInv, NEW user \in Staff, DeletePerson(user) PROVE DInv'
<1>1. ASSUME NEW d \in Listed
      PROVE  /\ devices'[d] \in DeviceRow /\ devices'[d] # None
             /\ devices'[d].code = devices[d].code /\ devices'[d].revoked = devices[d].revoked
             /\ devices'[d].user = IF devices[d].user = user THEN None ELSE devices[d].user
  <2>1. d \in Device /\ devices[d] \in DeviceRow
    BY ListedRow DEF DInv
  <2> DEFINE new == [devices[d] EXCEPT !.user = None]
  <2>2. /\ new \in DeviceRow /\ new.code = devices[d].code /\ new.revoked = devices[d].revoked
        /\ new.user = None
    BY <2>1 DEF DeviceRow
  <2>3. devices'[d] = IF devices[d].user = user THEN new ELSE devices[d]
    BY <2>1 DEF DeletePerson
  <2> HIDE DEF new
  <2> QED
    BY <2>1, <2>2, <2>3, DevicesAssumption
<1>2. ASSUME NEW d \in Device, d \notin Listed PROVE devices'[d] = None
  BY <1>2 DEF DeletePerson, Listed
<1>3. Listed' = Listed
  BY <1>1, <1>2 DEF Listed
<1>4. /\ devices' \in [Device -> DeviceRow \cup {None}]
      /\ staff' = staff \ {user} /\ codes' = codes /\ dead' = dead /\ asks' = asks
  <2>1. devices' = [d \in Device |-> devices'[d]]
    BY DEF DeletePerson
  <2> QED
    BY <1>1, <1>2, <2>1 DEF DeletePerson, Listed
<1>5. DTypeOK'
  BY <1>1, <1>3, <1>4 DEF DInv, DTypeOK, Exists
<1>6. AsksTyped'
  BY <1>3, <1>4 DEF DInv, AsksTyped
<1>7. OneRowPerCode' /\ CodesAreMinted' /\ DeadMeansRevoked'
  BY <1>1, <1>3, <1>4 DEF DInv, OneRowPerCode, CodesAreMinted, DeadMeansRevoked
<1> QED
  BY <1>5, <1>6, <1>7 DEF DInv

-----------------------------------------------------------------------------
(* The theorems. *)

\* The table begins empty.
LEMMA DInitInv == DInit => DInv
<1> SUFFICES ASSUME DInit PROVE DInv
  OBVIOUS
<1>1. Listed = {}
  BY DEF DInit, Listed
<1> QED
  BY <1>1, DevicesAssumption DEF DInit, DInv, DTypeOK, AsksTyped, AskRecord, Resting,
     OneRowPerCode, CodesAreMinted, DeadMeansRevoked

\* Every request, statement and stutter keeps the invariant.
LEMMA DStepInv == DInv /\ [DNext]_dvars => DInv'
<1> SUFFICES ASSUME DInv, [DNext]_dvars PROVE DInv'
  OBVIOUS
<1>1. CASE UNCHANGED dvars
  BY <1>1, AsksAlone DEF dvars, DInv, AsksTyped
<1>2. CASE DNext
  <2>1. ASSUME NEW a \in Admin,
               \/ MintAsked(a) \/ ReissueAsked(a) \/ Preflight(a)
               \/ Create(a) \/ Reissue(a) \/ AddHardware(a) \/ InsertHardware(a)
        PROVE  DInv'
    BY <2>1, AskStep, CreateStep, ReissueStep, InsertHardwareStep
  <2>2. ASSUME NEW d \in Listed, RevokeDevice(d) \/ UpdateDevice(d) PROVE DInv'
    BY <2>2, RevokeStep, UpdateStep
  <2> QED
    BY <1>2, <2>1, <2>2, DeleteStep DEF DNext
<1> QED
  BY <1>1, <1>2

\* The table, the requests and the codes keep their shape, and a person
\* assigned to a device has an account (devices.py, routes_device.py).
THEOREM FleetTyped == DSpec => []DTypeOK
<1>1. DInv => DTypeOK
  BY DEF DInv
<1> QED
  BY <1>1, DInitInv, DStepInv, PTL DEF DSpec

\* A code that a reissue replaced, or that was revoked, opens nothing again,
\* however reissues, revocations and mints interleave (devices.py, resolve()).
THEOREM DeadCodes == DSpec => []DeadCodesStayDead
<1>1. DInv => DeadCodesStayDead
  BY DEF DInv, DeadMeansRevoked, DeadCodesStayDead, Resolves
<1> QED
  BY <1>1, DInitInv, DStepInv, PTL DEF DSpec

-----------------------------------------------------------------------------
(* Plates *)

Under(p, t) == taps[p] # Waiting /\ taps[p].token = t

\* A tap is under way only on a plate that was printed.
TapsArePrinted == \A p \in Phone : taps[p] # Waiting => taps[p].token \in Printed

\* On a plate that no two taps crossed, one at most is under way.
OneTapEach ==
  \A t \in Token \ crossed : \A p, q \in Phone : Under(p, t) /\ Under(q, t) => p = q

\* The counter stored on it is the highest answered.
StoredIsServed ==
  \A t \in Token \ crossed :
    served[t] = IF t \in Printed /\ plates[t].last # None THEN plates[t].last ELSE 0

\* The tap under way on it carries a counter above that.
TapsAreNew ==
  \A t \in Token \ crossed : \A p \in Phone : Under(p, t) => taps[p].counter > served[t]

PInv ==
  PlatesTypeOK /\ TapsArePrinted /\ OneTapEach /\ StoredIsServed /\ TapsAreNew /\ OldLinksStayOld

-----------------------------------------------------------------------------
(* The steps. *)

\* A printed plate has a row, and a tap under way names a plate and a counter.
LEMMA PlateShapes ==
  ASSUME PlatesTypeOK
  PROVE  /\ \A t \in Printed : t \in Token /\ plates[t] \in PlateRow
         /\ \A p \in Phone : taps[p] # Waiting =>
              taps[p].token \in Token /\ taps[p].counter \in Counter
BY DEF PlatesTypeOK, Printed

\* A row changes beside the counter, or is printed with none: no link is answered.
LEMMA RowChanges ==
  ASSUME PInv, NEW t \in Token, NEW new \in PlateRow,
         plates' = [plates EXCEPT ![t] = new],
         new.last = IF t \in Printed THEN plates[t].last ELSE None,
         UNCHANGED <<taps, served, crossed, replays>>
  PROVE  PInv'
<1>1. /\ Printed' = Printed \cup {t} /\ plates'[t] = new
      /\ \A u \in Token : u # t => plates'[u] = plates[u]
  BY PlatesAssumption DEF PInv, PlatesTypeOK, Printed
<1>2. PlatesTypeOK' /\ TapsArePrinted'
  BY <1>1 DEF PInv, PlatesTypeOK, TapsArePrinted
<1>3. OneTapEach' /\ TapsAreNew' /\ OldLinksStayOld'
  BY DEF PInv, OneTapEach, TapsAreNew, OldLinksStayOld, Under
<1>4. StoredIsServed'
  BY <1>1 DEF PInv, StoredIsServed, Printed
<1> QED
  BY <1>2, <1>3, <1>4 DEF PInv

\* Minting, fitting a tag and revoking leave the counter of the row.
LEMMA PlateStep ==
  ASSUME PInv, NEW t \in Token,
         \/ \E s \in Store, d \in Door : MintPlate(t, s, d)
         \/ FitTag(t)
         \/ \E s \in Store : RevokePlate(t, s)
  PROVE  PInv'
<1> DEFINE Keeps(new) == /\ new \in PlateRow
                         /\ plates' = [plates EXCEPT ![t] = new]
                         /\ new.last = IF t \in Printed THEN plates[t].last ELSE None
<1>1. t \in Printed => plates[t] \in PlateRow
  BY PlateShapes DEF PInv
<1>2. ASSUME NEW s \in Store, NEW d \in Door, MintPlate(t, s, d) PROVE \E new : Keeps(new)
  <2>1. CASE t \in Printed
    <3> DEFINE new == [plates[t] EXCEPT !.revoked = FALSE]
    <3>1. new \in PlateRow /\ new.last = plates[t].last
      BY <1>1, <2>1 DEF PlateRow
    <3>2. plates' = [plates EXCEPT ![t] = new]
      BY <1>2, <2>1 DEF MintPlate, Remade
    <3> QED
      BY <2>1, <3>1, <3>2
  <2>2. CASE t \notin Printed
    <3> DEFINE new == [store |-> s, door |-> d, tag |-> FALSE, revoked |-> FALSE, last |-> None]
    <3>1. new \in PlateRow /\ new.last = None
      BY DEF PlateRow
    <3>2. plates' = [plates EXCEPT ![t] = new]
      BY <1>2, <2>2 DEF MintPlate
    <3> QED
      BY <2>2, <3>1, <3>2
  <2> QED
    BY <2>1, <2>2
<1>3. ASSUME FitTag(t) PROVE \E new : Keeps(new)
  <2> DEFINE new == [plates[t] EXCEPT !.tag = TRUE]
  <2>1. new \in PlateRow /\ new.last = plates[t].last
    BY <1>1, <1>3 DEF FitTag, PlateRow
  <2>2. plates' = [plates EXCEPT ![t] = new] /\ t \in Printed
    BY <1>3 DEF FitTag
  <2> QED
    BY <2>1, <2>2
<1>4. ASSUME NEW s \in Store, RevokePlate(t, s) PROVE \E new : Keeps(new)
  <2> DEFINE new == [plates[t] EXCEPT !.revoked = TRUE]
  <2>1. new \in PlateRow /\ new.last = plates[t].last
    BY <1>1, <1>4 DEF RevokePlate, PlateRow
  <2>2. plates' = [plates EXCEPT ![t] = new] /\ t \in Printed
    BY <1>4 DEF RevokePlate
  <2> QED
    BY <2>1, <2>2
<1>5. \E new : Keeps(new)
  BY <1>2, <1>3, <1>4
<1>6. UNCHANGED <<taps, served, crossed, replays>>
  BY DEF MintPlate, FitTag, RevokePlate
<1> QED
  BY <1>5, <1>6, RowChanges

\* A tap compares its counter with the row; a second one on the plate crosses it.
LEMMA TapStep == ASSUME PInv, NEW p \in Phone, Tap(p) PROVE PInv'
<1>1. PICK t \in Printed, n \in Counter :
        /\ taps[p] = Waiting /\ ~Replayed(plates[t].last, n)
        /\ taps' = [taps EXCEPT ![p] = [at |-> "store", token |-> t, counter |-> n]]
        /\ crossed' = IF \E q \in Phone : taps[q] # Waiting /\ taps[q].token = t
                      THEN crossed \cup {t} ELSE crossed
        /\ UNCHANGED <<plates, served, replays>>
  BY DEF Tap
<1>2. /\ t \in Token /\ plates[t] \in PlateRow /\ crossed \subseteq crossed'
      /\ crossed' \subseteq Token /\ Printed' = Printed
  BY <1>1, PlateShapes DEF PInv, PlatesTypeOK, Printed
<1>3. /\ taps'[p] # Waiting /\ taps'[p].token = t /\ taps'[p].counter = n
      /\ \A q \in Phone : q # p => taps'[q] = taps[q]
  BY <1>1 DEF PInv, PlatesTypeOK, Waiting
<1>4. PlatesTypeOK'
  BY <1>1, <1>2 DEF PInv, PlatesTypeOK
<1>5. TapsArePrinted' /\ StoredIsServed' /\ OldLinksStayOld'
  BY <1>1, <1>2, <1>3 DEF PInv, TapsArePrinted, StoredIsServed, OldLinksStayOld
<1>6. t \notin crossed' => t \notin crossed /\ \A q \in Phone : ~Under(q, t)
  BY <1>1 DEF Under
<1>7. OneTapEach'
  BY <1>1, <1>2, <1>3, <1>6 DEF PInv, OneTapEach, Under
<1>8. t \notin crossed => n > served[t]
  BY <1>1, <1>2, PlatesAssumption DEF PInv, StoredIsServed, Replayed, PlateRow, Counter
<1>9. TapsAreNew'
  BY <1>1, <1>2, <1>3, <1>6, <1>8 DEF PInv, TapsAreNew, Under
<1> QED
  BY <1>4, <1>5, <1>7, <1>9 DEF PInv

\* The counter is stored and the place answered.
LEMMA StoreStep == ASSUME PInv, NEW p \in Phone, StoreCounter(p) PROVE PInv'
<1> DEFINE t == taps[p].token
           n == taps[p].counter
           new == [plates[t] EXCEPT !.last = n]
<1>1. /\ taps[p] # Waiting /\ t \in Printed /\ t \in Token /\ n \in Counter
      /\ plates[t] \in PlateRow
  BY PlateShapes DEF StoreCounter, PInv, TapsArePrinted
<1>2. new \in PlateRow /\ new.last = n
  BY <1>1 DEF PlateRow
<1>3. /\ plates' = [plates EXCEPT ![t] = new] /\ taps' = [taps EXCEPT ![p] = Waiting]
      /\ served' = [served EXCEPT ![t] = IF n > served[t] THEN n ELSE served[t]]
      /\ replays' = IF n <= served[t] THEN replays \cup {t} ELSE replays
      /\ crossed' = crossed
  BY DEF StoreCounter
<1>4. t \notin crossed => n > served[t] /\ \A q \in Phone : Under(q, t) => q = p
  BY <1>1 DEF PInv, TapsAreNew, OneTapEach, Under
<1>5. served \in [Token -> 0..MaxCounter] /\ n \in 1..MaxCounter /\ None # n
  BY <1>1, PlatesAssumption DEF PInv, PlatesTypeOK, Counter
<1> HIDE DEF t, n, new
<1>6. /\ Printed' = Printed /\ plates'[t].last = n
      /\ \A u \in Token : u # t => plates'[u] = plates[u] /\ served'[u] = served[u]
  BY <1>1, <1>2, <1>3, <1>5, PlatesAssumption DEF PInv, PlatesTypeOK, Printed
<1>7. served'[t] = IF n > served[t] THEN n ELSE served[t]
  BY <1>1, <1>3, <1>5
<1>8. taps'[p] = Waiting /\ \A q \in Phone : q # p => taps'[q] = taps[q]
  BY <1>3 DEF PInv, PlatesTypeOK
<1>9. PlatesTypeOK'
  BY <1>1, <1>2, <1>3, <1>5 DEF PInv, PlatesTypeOK
<1>10. TapsArePrinted' /\ OneTapEach'
  BY <1>3, <1>6, <1>8 DEF PInv, TapsArePrinted, OneTapEach, Under
<1>11. StoredIsServed'
  BY <1>1, <1>3, <1>4, <1>5, <1>6, <1>7 DEF PInv, StoredIsServed
<1>12. TapsAreNew'
  BY <1>3, <1>4, <1>6, <1>8 DEF PInv, TapsAreNew, Under
<1>13. OldLinksStayOld'
  BY <1>1, <1>3, <1>4, <1>5 DEF PInv, OldLinksStayOld
<1> QED
  BY <1>9, <1>10, <1>11, <1>12, <1>13 DEF PInv

-----------------------------------------------------------------------------
(* The theorems. *)

\* No plate is printed and nobody taps.
LEMMA PlatesInitInv == PlatesInit => PInv
BY PlatesAssumption DEF PlatesInit, PInv, PlatesTypeOK, TapsArePrinted, OneTapEach, StoredIsServed,
   TapsAreNew, OldLinksStayOld, Under, Printed

\* Every statement and stutter keeps the invariant.
LEMMA PlatesStepInv == PInv /\ [PlatesNext]_platevars => PInv'
<1> SUFFICES ASSUME PInv, [PlatesNext]_platevars PROVE PInv'
  OBVIOUS
<1>1. CASE UNCHANGED platevars
  BY <1>1 DEF platevars, PInv, PlatesTypeOK, TapsArePrinted, OneTapEach, StoredIsServed,
     TapsAreNew, OldLinksStayOld, Under, Printed
<1>2. CASE PlatesNext
  BY <1>2, PlateStep, TapStep, StoreStep DEF PlatesNext
<1> QED
  BY <1>1, <1>2

\* Rows, taps and histories keep their shape (plates.py, migration 008).
THEOREM PlatesTyped == PlatesSpec => []PlatesTypeOK
<1>1. PInv => PlatesTypeOK
  BY DEF PInv
<1> QED
  BY <1>1, PlatesInitInv, PlatesStepInv, PTL DEF PlatesSpec

\* A plate answers a counter it has answered before, or a lower one, only if two
\* taps of it overlapped, whatever was revoked, registered again or fitted with
\* a tag in between (plates.py, check_sun() and resolve()).
THEOREM OldLinks == PlatesSpec => []OldLinksStayOld
<1>1. PInv => OldLinksStayOld
  BY DEF PInv
<1> QED
  BY <1>1, PlatesInitInv, PlatesStepInv, PTL DEF PlatesSpec

-----------------------------------------------------------------------------
(* The store connection *)

Steps == {"connect", "test", "disconnect", "probe", "record", "invalidate", "sync", "forget"}

\* A request knows of no save that is still to come.
Request(n) == [at: Steps, sees: Provider, save: 0..n, ok: BOOLEAN]
ClerkRecord(n) == {Quiet} \cup Request(n)
ClerksTyped == clerks \in [Clerk -> ClerkRecord(saves)]

\* The row is the newest save or not there, and rotations are of saves.
RowIsNewest == (row # None => row.save = saves) /\ rotated \in 0..saves

\* What a read made since `since' may have found.
SetSince(p, since) == IsSet(p) \/ wanted[p] >= since
StoredSince(a, since) == IsStored(a) \/ until[a] >= since
MisreadSince(since) == misread # None /\ misread >= since

\* What may be served as of `since': no credential older than a rotation told
\* here, and nothing a lookup begun then could not have read.
MayServe(a, since) ==
  /\ a # Demo => a >= rotated /\ SetSince("shopify", since) /\ StoredSince(a, since)
  /\ a = Demo => SetSince("mock", since) \/ MisreadSince(since)

\* It holds of the lookup that has read what it needs, and of the cache.
BuildMayServe ==
  build # None =>
    /\ build.now <= time
    /\ build.at = "credential" => SetSince("shopify", build.now)
    /\ build.at = "store" => build.adapter \in Adapter /\ MayServe(build.adapter, build.now)

CacheMayServe ==
  cache # None => cache.checked <= time /\ MayServe(cache.adapter, cache.checked)

\* The tables and the clock keep their shape: with ClerksTyped, CrmTypeOK.
TablesTyped ==
  /\ row \in CredentialRow \cup {None}
  /\ provider \in Provider
  /\ cache \in [adapter: Adapter, checked: 0..MaxTime] \cup {None}
  /\ build \in [at: {"tenant", "credential", "store"}, now: 0..MaxTime,
                adapter: Adapter \cup {None}] \cup {None}
  /\ saves \in 0..MaxSaves /\ time \in 0..MaxTime
  /\ wanted \in [Provider -> 0..MaxTime] /\ until \in [Save -> 0..MaxTime]
  /\ misread \in 0..MaxTime \cup {None}

CInv ==
  /\ TablesTyped /\ ClerksTyped /\ RowIsNewest
  /\ BuildMayServe /\ CacheMayServe

-----------------------------------------------------------------------------
(* What steps have in common. *)

\* What a read finds is what it was, or the histories say until when.
Watched ==
  /\ ProviderPast \/ (wanted' = wanted /\ provider' = provider)
  /\ RowPast \/ (until' = until /\ \A a \in Save : IsStored(a)' <=> IsStored(a))
  /\ misread' = misread

\* What a read may have found stays so.
LEMMA FoundStill ==
  ASSUME CInv, Watched, NEW since \in Nat, since <= time
  PROVE  /\ \A p \in Provider : SetSince(p, since) => SetSince(p, since)'
         /\ \A a \in Save : StoredSince(a, since) => StoredSince(a, since)'
         /\ MisreadSince(since) => MisreadSince(since)'
<1>1. ASSUME NEW p \in Provider, SetSince(p, since) PROVE SetSince(p, since)'
  <2>1. CASE ProviderPast
    BY <1>1, <2>1 DEF ProviderPast, SetSince, CInv, TablesTyped
  <2>2. CASE wanted' = wanted /\ provider' = provider
    BY <1>1, <2>2 DEF SetSince, IsSet
  <2> QED
    BY <2>1, <2>2 DEF Watched
<1>2. ASSUME NEW a \in Save, StoredSince(a, since) PROVE StoredSince(a, since)'
  <2>1. CASE RowPast
    BY <1>2, <2>1 DEF RowPast, StoredSince, CInv, TablesTyped
  <2>2. CASE until' = until /\ (IsStored(a)' <=> IsStored(a))
    BY <1>2, <2>2 DEF StoredSince
  <2> QED
    BY <1>2, <2>1, <2>2 DEF Watched
<1> QED
  BY <1>1, <1>2 DEF Watched, MisreadSince

\* What may be served still may be after a step that rotates nothing.
LEMMA ServedStill ==
  ASSUME CInv, Watched, rotated' = rotated,
         NEW a \in Adapter, NEW since \in Nat, since <= time, MayServe(a, since)
  PROVE  MayServe(a, since)'
<1>1. CASE a = Demo
  BY <1>1, FoundStill DEF MayServe, Provider
<1>2. CASE a # Demo
  <2>1. a \in Save
    BY <1>2 DEF Adapter
  <2> QED
    BY <1>2, <2>1, FoundStill DEF MayServe, Provider
<1> QED
  BY <1>1, <1>2

\* The lookup and the cache are left alone, or dropped.
LEMMA LookupsStay ==
  ASSUME CInv, Watched, rotated' = rotated, time' = time,
         build' \in {build, None}, cache' \in {cache, None}
  PROVE  BuildMayServe' /\ CacheMayServe'
<1>1. BuildMayServe'
  <2> SUFFICES ASSUME build' # None PROVE BuildMayServe'
    BY DEF BuildMayServe
  <2>1. build' = build /\ build.now \in Nat /\ build.now <= time
    BY DEF CInv, TablesTyped, BuildMayServe
  <2>2. build.at = "credential" => SetSince("shopify", build.now)'
    BY <2>1, FoundStill DEF BuildMayServe, CInv, Provider
  <2>3. build.at = "store" => build.adapter \in Adapter /\ MayServe(build.adapter, build.now)'
    BY <2>1, ServedStill DEF BuildMayServe, CInv
  <2> QED
    BY <2>1, <2>2, <2>3 DEF BuildMayServe
<1>2. CacheMayServe'
  <2> SUFFICES ASSUME cache' # None PROVE CacheMayServe'
    BY DEF CacheMayServe
  <2>1. cache' = cache /\ cache.adapter \in Adapter /\ cache.checked \in Nat
    BY DEF CInv, TablesTyped
  <2> QED
    BY <2>1, ServedStill DEF CacheMayServe, CInv
<1> QED
  BY <1>1, <1>2

\* Nothing that a read finds has changed.
LEMMA NothingRight ==
  ASSUME UNCHANGED <<wanted, until, misread, provider>>,
         row' = row \/ (row # None /\ row' # None /\ row'.save = row.save)
  PROVE  Watched
BY DEF Watched, IsStored

\* A request takes its next step with what it knows.
LEMMA ClerkMoves ==
  ASSUME ClerksTyped, NEW k \in Clerk, saves \in Nat, saves' \in Nat, saves <= saves',
         NEW next \in ClerkRecord(saves'),
         clerks' = [clerks EXCEPT ![k] = next]
  PROVE  ClerksTyped'
BY DEF ClerksTyped, ClerkRecord, Request

\* What a request that is under way knows.
LEMMA ClerkKnows ==
  ASSUME CInv, NEW k \in Clerk, clerks[k] # Quiet
  PROVE  clerks[k] \in Request(saves)
BY DEF CInv, ClerksTyped, ClerkRecord

\* A step of a request that leaves the lookups alone, or drops the entry.
LEMMA ClerkStep ==
  ASSUME CInv, NEW k \in Clerk, Watched,
         NEW next \in ClerkRecord(saves'),
         clerks' = [clerks EXCEPT ![k] = next],
         TablesTyped', saves <= saves',
         row' # None => row'.save = saves',
         rotated' = rotated, time' = time, build' = build, cache' \in {cache, None}
  PROVE  CInv'
<1>1. saves \in Nat /\ saves' \in Nat
  BY DEF CInv, TablesTyped
<1>2. ClerksTyped'
  BY <1>1, ClerkMoves DEF CInv
<1>3. RowIsNewest'
  BY <1>1 DEF CInv, RowIsNewest
<1> QED
  BY <1>2, <1>3, LookupsStay DEF CInv

-----------------------------------------------------------------------------
(* The steps of the routes. *)

\* A request arrives.
LEMMA ArriveStep == ASSUME CInv, NEW k \in Clerk, Arrive(k) PROVE CInv'
<1>1. PICK op \in {"connect", "test", "disconnect"} :
        clerks' = [clerks EXCEPT ![k] = [at |-> op, sees |-> provider, save |-> 0, ok |-> FALSE]]
  BY DEF Arrive
<1> DEFINE next == [at |-> op, sees |-> provider, save |-> 0, ok |-> FALSE]
<1>2. next \in ClerkRecord(saves')
  BY DEF Arrive, CInv, TablesTyped, Steps, ClerkRecord, Request, tables, histories
<1>3. clerks' = [clerks EXCEPT ![k] = next] /\ Watched
  BY <1>1, NothingRight DEF Arrive, tables, histories
<1> HIDE DEF next
<1>4. TablesTyped'
  BY <1>2, <1>3 DEF Arrive, CInv, TablesTyped, tables, histories
<1>5. /\ saves <= saves' /\ (row' # None => row'.save = saves')
      /\ rotated' = rotated /\ time' = time /\ build' = build /\ cache' \in {cache, None}
  BY DEF Arrive, CInv, TablesTyped, RowIsNewest, tables, histories
<1> QED
  BY <1>2, <1>3, <1>4, <1>5, ClerkStep

\* A credential is offered to the provider.
LEMMA ConnectStep == ASSUME CInv, NEW k \in Clerk, Connect(k) PROVE CInv'
<1> DEFINE next == [clerks[k] EXCEPT !.at = "probe", !.save = saves']
<1>1. /\ saves < MaxSaves /\ saves' = saves + 1 /\ saves' \in Save /\ saves \in Nat
      /\ row' = [save |-> saves', tested |-> None, passed |-> FALSE]
      /\ RowPast /\ Watched
      /\ UNCHANGED <<provider, cache, build, time, wanted, misread, rotated>>
  BY CrmAssumption DEF Connect, CInv, TablesTyped, Save, Watched
<1>2. clerks[k] \in Request(saves)
  BY ClerkKnows DEF Connect, AtStep
<1>3. next \in ClerkRecord(saves')
  <2>1. clerks[k].save \in 0..saves' /\ saves' \in 0..saves'
    BY <1>1, <1>2 DEF Request
  <2> QED
    BY <1>2, <2>1 DEF Steps, ClerkRecord, Request
<1>4. clerks' = [clerks EXCEPT ![k] = next]
  BY DEF Connect
<1> HIDE DEF next
<1>5. TablesTyped'
  <2>1. row' \in CredentialRow
    BY <1>1 DEF CredentialRow
  <2>2. saves' \in 0..MaxSaves
    BY <1>1 DEF Save
  <2>3. until' \in [Save -> 0..MaxTime]
    BY <1>1 DEF RowPast, CInv, TablesTyped
  <2> QED
    BY <1>1, <1>3, <1>4, <2>1, <2>2, <2>3 DEF CInv, TablesTyped
<1>6. saves <= saves' /\ (row' # None => row'.save = saves') /\ cache' \in {cache, None}
  BY <1>1
<1> QED
  BY <1>1, <1>3, <1>4, <1>5, <1>6, ClerkStep

\* A test fetches the row, if there is one.
LEMMA FetchStep == ASSUME CInv, NEW k \in Clerk, Fetch(k) PROVE CInv'
<1> DEFINE next == IF row = None THEN Quiet
                   ELSE [clerks[k] EXCEPT !.at = "probe", !.save = row.save]
<1>1. clerks[k] \in Request(saves)
  BY ClerkKnows DEF Fetch, AtStep
<1>2. next \in ClerkRecord(saves')
  <2>1. saves' = saves /\ (row # None => row.save \in 0..saves)
    BY DEF Fetch, CInv, TablesTyped, RowIsNewest, tables, histories
  <2> QED
    BY <1>1, <2>1 DEF Steps, ClerkRecord, Request
<1>3. clerks' = [clerks EXCEPT ![k] = next] /\ Watched
  BY NothingRight DEF Fetch, Rest, tables, histories
<1> HIDE DEF next
<1>4. TablesTyped'
  BY <1>1, <1>2, <1>3 DEF Fetch, CInv, TablesTyped, tables, histories
<1>5. /\ saves <= saves' /\ (row' # None => row'.save = saves')
      /\ rotated' = rotated /\ time' = time /\ build' = build /\ cache' \in {cache, None}
  BY DEF Fetch, CInv, TablesTyped, RowIsNewest, tables, histories
<1> QED
  BY <1>2, <1>3, <1>4, <1>5, ClerkStep

\* The row keeps its save through a probe and the record of its result.
LEMMA RowTested ==
  ASSUME CInv, NEW k \in Clerk, NEW next \in ClerkRecord(saves'),
         clerks' = [clerks EXCEPT ![k] = next],
         row' = row \/ (row # None /\ row'.save = row.save
                         /\ row' \in CredentialRow),
         UNCHANGED <<provider, cache, build, saves, time, histories>>
  PROVE  CInv'
<1>1. Watched
  BY CrmAssumption, NothingRight DEF tables, histories
<1>2. TablesTyped'
  BY DEF CInv, TablesTyped, tables, histories
<1>3. saves <= saves' /\ (row' # None => row'.save = saves')
  BY DEF CInv, TablesTyped, RowIsNewest
<1> QED
  BY <1>1, <1>2, <1>3, ClerkStep DEF tables, histories

\* A request that has something to do goes on, or is answered.
LEMMA Goes ==
  ASSUME CInv, NEW k \in Clerk, clerks[k] # Quiet, saves' = saves,
         NEW at \in Steps, NEW save \in 0..saves, NEW ok \in BOOLEAN
  PROVE  /\ [clerks[k] EXCEPT !.at = at] \in ClerkRecord(saves')
         /\ [clerks[k] EXCEPT !.at = at, !.save = save] \in ClerkRecord(saves')
         /\ [clerks[k] EXCEPT !.at = at, !.ok = ok] \in ClerkRecord(saves')
         /\ Quiet \in ClerkRecord(saves')
<1>1. clerks[k] \in Request(saves)
  BY ClerkKnows
<1> QED
  BY <1>1 DEF ClerkRecord, Request

\* The provider says what it thinks of a credential.
LEMMA ProbeStep == ASSUME CInv, NEW k \in Clerk, Probe(k) PROVE CInv'
<1>1. /\ clerks[k] # Quiet /\ 0 \in 0..saves /\ "sync" \in Steps /\ "record" \in Steps
      /\ UNCHANGED <<provider, cache, build, saves, time, histories>>
  BY DEF Probe, AtStep, CInv, TablesTyped, Steps
<1>2. CASE clerks' = [clerks EXCEPT ![k].at = "sync", ![k].save = 0] /\ row' = row
  <2> DEFINE next == [clerks[k] EXCEPT !.at = "sync", !.save = 0]
  <2>1. next \in ClerkRecord(saves')
    BY <1>1, Goes
  <2>2. clerks' = [clerks EXCEPT ![k] = next]
    BY <1>2
  <2> HIDE DEF next
  <2> QED
    BY <1>1, <1>2, <2>1, <2>2, RowTested
<1>3. ASSUME NEW ok \in BOOLEAN,
             clerks' = [clerks EXCEPT ![k].at = "record", ![k].ok = ok],
             row' = IF ok /\ row # None /\ row.save = clerks[k].save
                    THEN [row EXCEPT !.passed = TRUE] ELSE row
      PROVE  CInv'
  <2> DEFINE next == [clerks[k] EXCEPT !.at = "record", !.ok = ok]
  <2>1. next \in ClerkRecord(saves')
    BY <1>1, Goes
  <2>2. clerks' = [clerks EXCEPT ![k] = next]
    BY <1>3
  <2>3. row' = row \/ (row # None /\ row'.save = row.save /\ row' \in CredentialRow)
    BY <1>3 DEF CInv, TablesTyped, CredentialRow
  <2> HIDE DEF next
  <2> QED
    BY <1>1, <2>1, <2>2, <2>3, RowTested
<1> QED
  BY <1>2, <1>3 DEF Probe

\* What was learnt of it is stored.
LEMMA RecordStep == ASSUME CInv, NEW k \in Clerk, Record(k) PROVE CInv'
<1> DEFINE next == [clerks[k] EXCEPT !.at = "invalidate"]
<1>1. /\ clerks[k] # Quiet /\ "invalidate" \in Steps /\ 0 \in 0..saves /\ TRUE \in BOOLEAN
      /\ UNCHANGED <<provider, cache, build, saves, time, histories>>
      /\ clerks' = [clerks EXCEPT ![k] = next]
      /\ row' = IF row = None THEN None ELSE [row EXCEPT !.tested = clerks[k].ok]
  BY DEF Record, Step, AtStep, Steps, CInv, TablesTyped
<1>2. next \in ClerkRecord(saves')
  BY <1>1, Goes
<1>3. clerks[k].ok \in BOOLEAN
  BY <1>1, ClerkKnows DEF Request
<1>4. row' = row \/ (row # None /\ row'.save = row.save /\ row' \in CredentialRow)
  BY <1>1, <1>3 DEF CInv, TablesTyped, CredentialRow
<1> HIDE DEF next
<1> QED
  BY <1>1, <1>2, <1>4, RowTested

\* A rotation is told here while no lookup is under way, and drops the entry.
LEMMA InvalidateStep == ASSUME CInv, NEW k \in Clerk, Invalidate(k) PROVE CInv'
<1> DEFINE next == [clerks[k] EXCEPT !.at = "sync", !.save = 0]
<1>1. /\ clerks[k] # Quiet /\ 0 \in 0..saves /\ "sync" \in Steps
      /\ UNCHANGED <<tables, build, time, wanted, until, misread>>
  BY DEF Invalidate, AtStep, CInv, TablesTyped, Steps
<1>0. clerks' = [clerks EXCEPT ![k] = next]
  BY DEF Invalidate
<1>2. next \in ClerkRecord(saves')
  BY <1>1, Goes DEF tables, histories
<1>3. saves \in Nat /\ saves' = saves /\ saves <= saves'
  BY <1>1 DEF CInv, TablesTyped, tables, histories
<1>4. Watched
  BY <1>1, NothingRight DEF tables, histories
<1> HIDE DEF next
<1>5. CASE k \in Here
  <2>1. build' = None /\ cache' = None /\ build = None
        /\ rotated' = Newer(rotated, clerks[k].save)
    BY <1>5 DEF Invalidate, LockFree
  <2>2. clerks[k].save \in 0..saves
    BY <1>1, ClerkKnows DEF Request
  <2>3. RowIsNewest'
    BY <1>1, <2>1, <2>2 DEF CInv, RowIsNewest, Newer, TablesTyped, tables, histories
  <2>4. TablesTyped'
    BY <1>1, <2>1 DEF CInv, TablesTyped, tables, histories
  <2>5. ClerksTyped'
    BY <1>0, <1>1, <1>2, <1>3, ClerkMoves DEF CInv
  <2>6. BuildMayServe' /\ CacheMayServe'
    BY <2>1 DEF BuildMayServe, CacheMayServe
  <2> QED
    BY <1>1, <2>3, <2>4, <2>5, <2>6 DEF CInv
<1>6. CASE k \notin Here
  <2>1. cache' = cache /\ rotated' = rotated
    BY <1>6 DEF Invalidate
  <2>2. TablesTyped'
    BY <1>1, <2>1 DEF CInv, TablesTyped, tables, histories
  <2>3. (row' # None => row'.save = saves') /\ cache' \in {cache, None}
    BY <1>1, <2>1 DEF CInv, RowIsNewest, tables, histories
  <2> QED
    BY <1>0, <1>1, <1>2, <1>3, <1>4, <2>1, <2>2, <2>3, ClerkStep
<1> QED
  BY <1>5, <1>6

\* The tenant is told which provider it has.
LEMMA SyncStep == ASSUME CInv, NEW k \in Clerk, SyncProvider(k) PROVE CInv'
<1>1. /\ clerks[k] # Quiet /\ saves' = saves /\ "forget" \in Steps
      /\ UNCHANGED <<row, cache, build, saves, time, until, misread, rotated>>
      /\ 0 \in 0..saves /\ TRUE \in BOOLEAN
  BY DEF SyncProvider, AtStep, Steps, CInv, TablesTyped
<1>2. saves <= saves' /\ (row' # None => row'.save = saves') /\ cache' \in {cache, None}
  BY <1>1 DEF CInv, TablesTyped, RowIsNewest
<1>3. CASE Rest(k) /\ UNCHANGED <<provider, wanted>>
  <2>1. Watched
    BY <1>1, <1>3, NothingRight
  <2>2. TablesTyped'
    BY <1>1, <1>3 DEF CInv, TablesTyped
  <2>3. Quiet \in ClerkRecord(saves') /\ clerks' = [clerks EXCEPT ![k] = Quiet]
    BY <1>1, <1>3, Goes DEF Rest
  <2> QED
    BY <1>1, <1>2, <2>1, <2>2, <2>3, ClerkStep
<1>4. CASE provider' = Want(k) /\ ProviderPast /\ Step(k, "forget")
  <2> DEFINE next == [clerks[k] EXCEPT !.at = "forget"]
  <2>1. Watched
    BY <1>1, <1>4 DEF Watched, IsStored
  <2>2. TablesTyped'
    <3>1. wanted' \in [Provider -> 0..MaxTime]
      BY <1>4 DEF ProviderPast, CInv, TablesTyped
    <3>2. provider' \in Provider
      BY <1>4 DEF Want, Provider
    <3> QED
      BY <1>1, <3>1, <3>2 DEF CInv, TablesTyped
  <2>3. next \in ClerkRecord(saves')
    BY <1>1, Goes
  <2>4. clerks' = [clerks EXCEPT ![k] = next]
    BY <1>4 DEF Step
  <2> HIDE DEF next
  <2> QED
    BY <1>1, <1>2, <2>1, <2>2, <2>3, <2>4, ClerkStep
<1> QED
  BY <1>3, <1>4 DEF SyncProvider

\* The cached adapter is forgotten.
LEMMA ForgetStep == ASSUME CInv, NEW k \in Clerk, Forget(k) PROVE CInv'
<1>1. /\ clerks[k] # Quiet /\ "forget" \in Steps /\ 0 \in 0..saves /\ TRUE \in BOOLEAN
      /\ UNCHANGED <<tables, build, time, histories>>
      /\ cache' \in {cache, None} /\ clerks' = [clerks EXCEPT ![k] = Quiet]
  BY DEF Forget, AtStep, Rest, Steps, CInv, TablesTyped
<1>2. saves <= saves' /\ (row' # None => row'.save = saves')
  BY <1>1 DEF CInv, TablesTyped, RowIsNewest, tables, histories
<1>3. Watched
  BY <1>1, NothingRight DEF tables, histories
<1>4. TablesTyped'
  BY <1>1 DEF CInv, TablesTyped, tables, histories
<1>5. Quiet \in ClerkRecord(saves')
  BY <1>1, Goes DEF tables, histories
<1> QED
  BY <1>1, <1>2, <1>3, <1>4, <1>5, ClerkStep DEF tables, histories

\* The credential is taken out.
LEMMA DisconnectStep == ASSUME CInv, NEW k \in Clerk, Disconnect(k) PROVE CInv'
<1> DEFINE next == [clerks[k] EXCEPT !.at = "sync"]
<1>1. /\ clerks[k] # Quiet /\ "sync" \in Steps /\ 0 \in 0..saves /\ TRUE \in BOOLEAN
      /\ UNCHANGED <<provider, cache, build, saves, time, wanted, misread, rotated>>
      /\ row' = None /\ RowPast /\ clerks' = [clerks EXCEPT ![k] = next]
  BY DEF Disconnect, AtStep, Step, Steps, CInv, TablesTyped
<1>2. saves <= saves' /\ (row' # None => row'.save = saves') /\ cache' \in {cache, None}
  BY <1>1 DEF CInv, TablesTyped
<1>3. Watched
  BY <1>1 DEF Watched
<1>4. TablesTyped'
  <2>1. until' \in [Save -> 0..MaxTime]
    BY <1>1 DEF RowPast, CInv, TablesTyped
  <2> QED
    BY <1>1, <2>1 DEF CInv, TablesTyped
<1>5. next \in ClerkRecord(saves')
  BY <1>1, Goes
<1> HIDE DEF next
<1> QED
  BY <1>1, <1>2, <1>3, <1>4, <1>5, ClerkStep

\* A value is set behind the console.
LEMMA StaffStep == ASSUME CInv, StaffSets PROVE CInv'
<1>1. /\ provider' \in Provider /\ ProviderPast /\ Watched
      /\ UNCHANGED <<row, cache, build, clerks, saves, time, until, misread, rotated>>
  BY DEF StaffSets, Watched, IsStored
<1>2. TablesTyped'
  <2>1. wanted' \in [Provider -> 0..MaxTime]
    BY <1>1 DEF ProviderPast, CInv, TablesTyped
  <2> QED
    BY <1>1, <2>1 DEF CInv, TablesTyped
<1>3. build' \in {build, None} /\ cache' \in {cache, None}
  BY <1>1
<1>4. BuildMayServe' /\ CacheMayServe'
  BY <1>1, <1>3, LookupsStay
<1>5. ClerksTyped' /\ RowIsNewest'
  BY <1>1 DEF CInv, ClerksTyped, RowIsNewest
<1> QED
  BY <1>2, <1>4, <1>5 DEF CInv

-----------------------------------------------------------------------------
(* The steps of get_crm_for(). *)

\* A lookup goes on; the tables, the requests and the entry stay, and a read
\* that has failed is remembered.
LEMMA LookupGoes ==
  ASSUME CInv, UNCHANGED <<tables, cache, clerks, time, wanted, until, rotated>>,
         misread' \in {misread, time},
         build' \in [at: {"tenant", "credential", "store"}, now: 0..MaxTime,
                    adapter: Adapter \cup {None}] \cup {None},
         BuildMayServe'
  PROVE  CInv'
<1>1. TablesTyped' /\ ClerksTyped' /\ RowIsNewest'
  BY DEF CInv, TablesTyped, ClerksTyped, RowIsNewest, tables
<1>2. CacheMayServe'
  <2> SUFFICES ASSUME cache # None PROVE CacheMayServe'
    BY DEF CacheMayServe
  <2>1. /\ cache.checked \in Nat /\ cache.checked <= time /\ time \in Nat /\ None \notin Nat
        /\ MayServe(cache.adapter, cache.checked)
    BY CrmAssumption DEF CInv, TablesTyped, CacheMayServe
  <2>2. MisreadSince(cache.checked) => MisreadSince(cache.checked)'
    BY <2>1 DEF MisreadSince
  <2> QED
    BY <2>1, <2>2 DEF tables, CacheMayServe, MayServe, SetSince, StoredSince, IsSet, IsStored
<1> QED
  BY <1>1, <1>2 DEF CInv

\* The floor asks for an adapter.
LEMMA LookupStep == ASSUME CInv, Lookup PROVE CInv'
<1>1. PICK now \in 0..time : build' = [at |-> "tenant", now |-> now, adapter |-> None]
  BY DEF Lookup
<1>2. now <= time /\ now \in 0..MaxTime
  BY CrmAssumption DEF CInv, TablesTyped
<1>3. BuildMayServe'
  BY <1>1, <1>2 DEF Lookup, BuildMayServe
<1>4. build' \in [at: {"tenant", "credential", "store"}, now: 0..MaxTime,
                 adapter: Adapter \cup {None}]
  BY <1>1, <1>2
<1> QED
  BY <1>3, <1>4, LookupGoes DEF Lookup, tables, histories

\* What a lookup reads is so at that moment, or could not be read.
LEMMA ReadStep ==
  ASSUME CInv, ReadTenant \/ MisreadTenant \/ ReadCredential PROVE CInv'
<1>1. /\ build # None
      /\ build \in [at: {"tenant", "credential", "store"}, now: 0..MaxTime,
                   adapter: Adapter \cup {None}]
      /\ build.now <= time /\ time \in Nat /\ None \notin Nat
      /\ UNCHANGED <<tables, cache, clerks, time, wanted, until, rotated>>
      /\ misread' \in {misread, time}
  BY CrmAssumption DEF ReadTenant, MisreadTenant, ReadCredential, histories, CInv, TablesTyped,
     BuildMayServe, tables
<1>2. ASSUME NEW a \in Adapter, Built(a), MayServe(a, build.now)' PROVE CInv'
  <2> DEFINE next == [build EXCEPT !.at = "store", !.adapter = a]
  <2>1. /\ next \in [at: {"tenant", "credential", "store"}, now: 0..MaxTime,
                     adapter: Adapter \cup {None}]
        /\ next.now = build.now /\ next.adapter = a /\ next.at = "store"
    BY <1>1
  <2>2. build' = next
    BY <1>2 DEF Built
  <2> HIDE DEF next
  <2>3. MayServe(build.adapter, build.now)'
    BY <1>2, <2>1, <2>2
  <2>4. BuildMayServe'
    BY <1>1, <1>2, <2>1, <2>2, <2>3 DEF BuildMayServe
  <2> QED
    BY <1>1, <2>1, <2>2, <2>4, LookupGoes
<1>3. CASE ReadTenant /\ provider = "mock"
  <2>1. Built(Demo) /\ Demo \in Adapter
    BY <1>3 DEF ReadTenant, Adapter
  <2>2. MayServe(Demo, build.now)'
    BY <1>1, <1>3 DEF MayServe, SetSince, IsSet, tables
  <2> QED
    BY <1>2, <2>1, <2>2
<1>4. CASE ReadTenant /\ provider # "mock"
  <2> DEFINE next == [build EXCEPT !.at = "credential"]
  <2>1. /\ next \in [at: {"tenant", "credential", "store"}, now: 0..MaxTime,
                     adapter: Adapter \cup {None}]
        /\ next.now = build.now /\ next.at = "credential"
    BY <1>1
  <2>2. build' = next /\ provider' = "shopify"
    BY <1>1, <1>4 DEF ReadTenant, CInv, TablesTyped, Provider, tables
  <2> HIDE DEF next
  <2>3. BuildMayServe'
    BY <1>1, <2>1, <2>2 DEF BuildMayServe, SetSince, IsSet
  <2> QED
    BY <1>1, <2>1, <2>2, <2>3, LookupGoes
<1>5. CASE ReadCredential /\ row # None /\ Built(row.save)
  <2>1. /\ row.save \in Save /\ row.save \in Adapter /\ row.save # Demo /\ row.save >= rotated
        /\ misread' = misread /\ row' = row
    BY <1>1, <1>5 DEF ReadCredential, histories, tables, CInv, TablesTyped, CredentialRow, RowIsNewest,
       Adapter, Save, Demo
  <2>2. SetSince("shopify", build.now)
    BY <1>1, <1>5 DEF ReadCredential, CInv, BuildMayServe
  <2>3. StoredSince(row.save, build.now)
    BY <1>5, <2>1 DEF StoredSince, IsStored
  <2>4. MayServe(row.save, build.now)'
    BY <1>1, <1>5, <2>1, <2>2, <2>3
       DEF Built, MayServe, SetSince, StoredSince, MisreadSince, IsSet, IsStored, tables
  <2>5. MayServe(row.save, build.now)' => CInv'
    BY <1>2, <1>5, <2>1
  <2> QED
    BY <2>4, <2>5
<1>6. CASE ReadCredential /\ build' = None
  BY <1>1, <1>6, LookupGoes DEF BuildMayServe
<1>7. CASE MisreadTenant
  <2>1. Built(Demo) /\ Demo \in Adapter /\ misread' = time
    BY <1>7 DEF MisreadTenant, Adapter
  <2>2. MayServe(Demo, build.now)'
    BY <1>1, <2>1 DEF Built, MayServe, MisreadSince
  <2> QED
    BY <1>2, <2>1, <2>2
<1> QED
  BY <1>3, <1>4, <1>5, <1>6, <1>7 DEF ReadTenant, ReadCredential

\* The entry is what the lookup has read, under the time it began with.
LEMMA CacheStep == ASSUME CInv, StoreEntry PROVE CInv'
<1>1. /\ build # None /\ build.at = "store" /\ build' = None
      /\ cache' = [adapter |-> build.adapter, checked |-> build.now]
      /\ UNCHANGED <<tables, clerks, time, histories>>
  BY DEF StoreEntry, SameAdapter
<1>2. /\ build.adapter \in Adapter /\ build.now \in 0..MaxTime /\ build.now <= time
      /\ MayServe(build.adapter, build.now)
  BY <1>1 DEF CInv, TablesTyped, BuildMayServe
<1>3. TablesTyped'
  BY <1>1, <1>2 DEF CInv, TablesTyped, tables, histories
<1>4. ClerksTyped' /\ RowIsNewest' /\ BuildMayServe'
  BY <1>1 DEF CInv, ClerksTyped, RowIsNewest, BuildMayServe, tables, histories
<1>5. CacheMayServe'
  BY <1>1, <1>2 DEF CacheMayServe, MayServe, SetSince, StoredSince, MisreadSince, IsSet, IsStored,
     tables, histories
<1> QED
  BY <1>3, <1>4, <1>5 DEF CInv

\* Time passes.
LEMMA TickStep == ASSUME CInv, Tick PROVE CInv'
<1>1. /\ time \in Nat /\ time' = time + 1 /\ time' \in 0..MaxTime
      /\ wanted' = [p \in Provider |-> IF IsSet(p) THEN time' ELSE wanted[p]]
      /\ until' = [a \in Save |-> IF IsStored(a) THEN time' ELSE until[a]]
      /\ UNCHANGED <<row, provider, saves, cache, build, clerks, misread, rotated>>
  BY CrmAssumption DEF Tick, CInv, TablesTyped, tables
<1>2. /\ \A p \in Provider : wanted[p] \in 0..MaxTime /\ wanted'[p] = IF IsSet(p) THEN time' ELSE wanted[p]
      /\ \A a \in Save : until[a] \in 0..MaxTime /\ until'[a] = IF IsStored(a) THEN time' ELSE until[a]
  BY <1>1 DEF CInv, TablesTyped
<1>3. TablesTyped'
  BY <1>1, <1>2 DEF CInv, TablesTyped
<1>4. ClerksTyped' /\ RowIsNewest'
  BY <1>1 DEF CInv, ClerksTyped, RowIsNewest
<1>5. ASSUME NEW since \in Nat, since <= time
      PROVE  /\ \A p \in Provider : SetSince(p, since) => SetSince(p, since)'
             /\ \A a \in Save : StoredSince(a, since) => StoredSince(a, since)'
             /\ MisreadSince(since) => MisreadSince(since)'
  BY <1>1, <1>2, <1>5 DEF SetSince, StoredSince, MisreadSince, IsSet, IsStored
<1>6. ASSUME NEW a \in Adapter, NEW since \in Nat, since <= time, MayServe(a, since)
      PROVE  MayServe(a, since)'
  <2>1. CASE a = Demo
    BY <1>5, <1>6, <2>1 DEF MayServe, Provider
  <2>2. CASE a # Demo
    BY <1>1, <1>5, <1>6, <2>2 DEF MayServe, Provider, Adapter
  <2> QED
    BY <2>1, <2>2
<1>7. BuildMayServe'
  <2> SUFFICES ASSUME build # None PROVE BuildMayServe'
    BY <1>1 DEF BuildMayServe
  <2>1. build.now \in Nat /\ build.now <= time
    BY DEF CInv, TablesTyped, BuildMayServe
  <2>2. build.at = "store" => build.adapter \in Adapter /\ MayServe(build.adapter, build.now)'
    BY <1>1, <1>6, <2>1 DEF CInv, BuildMayServe
  <2>3. build.now <= time'
    BY <1>1, <2>1
  <2>4. build.at = "credential" => SetSince("shopify", build.now)'
    BY <1>1, <1>5, <2>1 DEF CInv, BuildMayServe, Provider
  <2> QED
    BY <1>1, <2>2, <2>3, <2>4 DEF BuildMayServe
<1>8. CacheMayServe'
  <2> SUFFICES ASSUME cache # None PROVE CacheMayServe'
    BY <1>1 DEF CacheMayServe
  <2>1. cache.checked \in Nat /\ cache.checked <= time /\ cache.adapter \in Adapter
    BY DEF CInv, TablesTyped, CacheMayServe
  <2>2. MayServe(cache.adapter, cache.checked)'
    BY <1>1, <1>6, <2>1 DEF CInv, CacheMayServe
  <2> QED
    BY <1>1, <2>1, <2>2 DEF CacheMayServe
<1> QED
  BY <1>3, <1>4, <1>7, <1>8 DEF CInv

-----------------------------------------------------------------------------
(* The theorems. *)

\* Nothing is connected, and nothing is looked up yet.
LEMMA CrmInitInv == CrmInit => CInv
BY CrmAssumption DEF CrmInit, CInv, TablesTyped, ClerksTyped, ClerkRecord, RowIsNewest,
   BuildMayServe, CacheMayServe, Provider

\* Every statement, lookup, tick and stutter keeps the invariant.
LEMMA CrmStepInv == CInv /\ [CrmNext]_crmvars => CInv'
<1> SUFFICES ASSUME CInv, [CrmNext]_crmvars PROVE CInv'
  OBVIOUS
<1>1. CASE UNCHANGED crmvars
  BY <1>1 DEF crmvars, tables, histories, CInv, TablesTyped, ClerksTyped, RowIsNewest, BuildMayServe,
     CacheMayServe, MayServe, SetSince, StoredSince, MisreadSince, IsSet, IsStored
<1>2. CASE CrmNext
  BY <1>2, ArriveStep, ConnectStep, FetchStep, ProbeStep, RecordStep, InvalidateStep, SyncStep,
     ForgetStep, DisconnectStep, StaffStep, LookupStep, ReadStep, CacheStep, TickStep DEF CrmNext
<1> QED
  BY <1>1, <1>2

\* The inductive invariant holds of the credential and its adapters.
LEMMA CrmInvariant == CrmSpec => []CInv
BY CrmInitInv, CrmStepInv, PTL DEF CrmSpec

\* Rows, requests, lookups and the cache keep their shape (crm_credentials.py).
THEOREM CrmTyped == CrmSpec => []CrmTypeOK
<1>1. CInv => CrmTypeOK
  BY DEF CInv, TablesTyped, ClerksTyped, ClerkRecord, Request, CrmTypeOK
<1> QED
  BY <1>1, CrmInvariant, PTL

\* The replica that was told of a save never serves an older one, also when a
\* lookup had read the old row before (crm_provider.py, invalidate()).
THEOREM Rotation == CrmSpec => []RotationTakesEffect
<1>1. CInv => RotationTakesEffect
  BY DEF CInv, CacheMayServe, MayServe, RotationTakesEffect
<1> QED
  BY <1>1, CrmInvariant, PTL

\* No replica serves a store that stopped being the right one a recheck period
\* ago, whoever changed the row or the column, nor the demo data a recheck period
\* after they, or a read of the tenant that failed, called for it
\* (crm_provider.py, _RECHECK_SECONDS).
THEOREM Staleness == CrmSpec => []StaleWithinRecheck
<1>1. ASSUME CInv PROVE StaleWithinRecheck
  <2> SUFFICES ASSUME Fresh(time) PROVE StaleWithinRecheck
    BY DEF StaleWithinRecheck
  <2>1. /\ cache # None /\ time - cache.checked < Recheck
        /\ cache.checked \in Nat /\ cache.adapter \in Adapter
        /\ MayServe(cache.adapter, cache.checked)
        /\ time \in Nat /\ Recheck \in Nat /\ None \notin Nat
    BY <1>1, CrmAssumption DEF Fresh, CInv, TablesTyped, CacheMayServe
  <2>2. \A t \in Nat : t >= cache.checked => Recent(t)
    BY <2>1 DEF Recent
  <2>3. \A p \in Provider : SetSince(p, cache.checked) => SetLately(p)
    BY <1>1, <2>2 DEF SetSince, SetLately, CInv, TablesTyped
  <2>4. \A a \in Save : StoredSince(a, cache.checked) => StoredLately(a)
    BY <1>1, <2>2 DEF StoredSince, StoredLately, CInv, TablesTyped
  <2>5. MisreadSince(cache.checked) => Recent(misread)
    BY <1>1, <2>2 DEF MisreadSince, CInv, TablesTyped
  <2> QED
    BY <2>1, <2>3, <2>4, <2>5 DEF MayServe, Adapter, Provider, StaleWithinRecheck
<1> QED
  BY <1>1, CrmInvariant, PTL

-----------------------------------------------------------------------------
(* The rate limits. *)

UnderWay ==
  [step: {"prune", "pop", "count", "append", "bound", "list", "drop"}, key: Key, deque: Nat, now: Nat]

\* Admissions come in order.
Dated(a, now) ==
  \A j \in 1 .. Len(a) : a[j] <= now /\ \A i \in 1 .. j : a[i] <= a[j]

\* Calls are of this instant.
RatesTyped ==
  /\ clock \in 0 .. MaxClock
  /\ hits \in Seq(Seq(Nat)) /\ Len(hits) <= MaxDeques
  /\ table \in [Key -> (1 .. Len(hits)) \cup {None}]
  /\ call \in [Thread -> {AtRest} \cup UnderWay]
  /\ \A c \in Thread : call[c].step # "rest" => call[c].deque \in 1 .. Len(hits) /\ call[c].now = clock
  /\ listing \in [Thread -> [began: SUBSET Key, seen: SUBSET Key, idle: SUBSET Key]]
  /\ admitted \in [Key -> Seq(Nat)] /\ \A k \in Key : Dated(admitted[k], clock)

\* A deque is of one key, also for the calls that took it from the table.
Owners ==
  /\ \A k, l \in Key : table[k] # None /\ table[k] = table[l] => k = l
  /\ \A c \in Thread, k \in Key :
       call[c].step # "rest" /\ table[k] = call[c].deque => call[c].key = k

Deque(k) == IF table[k] = None THEN <<>> ELSE hits[table[k]]

\* The deque q holds the last of the admissions a, and those before have left.
HoldsTheLast(q, a, now) ==
  /\ Len(q) <= Len(a)
  /\ \A i \in 1 .. Len(q) : q[i] = a[Len(a) - Len(q) + i]
  /\ \A i \in 1 .. Len(a) - Len(q) : Left(now, a[i])

InRange(a, j, now) == a[j] <= now /\ now - a[j] <= Window

\* Those in the window that ends with an admission are Limit in a row at most.
Spread(a) ==
  \A i \in 1 .. Len(a) : \E low \in Nat :
    \A j \in 1 .. Len(a) : InRange(a, j, a[i]) => j \in low .. low + Limit - 1

\* What a call that is alone with its key has found out.
Found(do, q) ==
  /\ do.step = "pop" => q # <<>> /\ Left(do.now, Head(q))
  /\ do.step \in {"count", "append"} => \A i \in 1 .. Len(q) : ~Left(do.now, q[i])
  /\ do.step = "append" => Len(q) < Limit

Exact(k) ==
  /\ HoldsTheLast(Deque(k), admitted[k], clock)
  /\ Spread(admitted[k])
  /\ \A c, e \in Inside(k) : c = e
  /\ \A c \in Inside(k) : call[c].deque = table[k] /\ Found(call[c], Deque(k))

\* A refusal found Limit in a row in its window.
RefusedRight(k) ==
  refusedAt # None /\ refusedAt[1] = k =>
    /\ refusedAt[2] \in Nat
    /\ \E low \in Nat : \A j \in low .. low + Limit - 1 :
         j \in 1 .. Len(admitted[k]) /\ InRange(admitted[k], j, refusedAt[2])

\* All that a key has been admitted has left the window.
AllLeft(k) == \A i \in 1 .. Len(admitted[k]) : Left(clock, admitted[k][i])

\* A key that is listed as idle still is.
StillIdle(k) == HeldAsIdle(k) # {} => Inside(k) = {} /\ AllLeft(k)

RateInv ==
  /\ RatesTyped /\ Owners
  /\ \A k \in Key \ contended : Exact(k) /\ RefusedRight(k) /\ StillIdle(k)

\* A key that no step touches.
LEMMA KeyStays ==
  ASSUME RateInv, NEW k \in Key, Exact(k), clock' = clock, admitted'[k] = admitted[k], table'[k] = table[k],
         table[k] # None => hits'[table[k]] = hits[table[k]],
         \A c \in Thread : c \in Inside(k) \/ c \in Inside(k)' => call'[c] = call[c]
  PROVE  Exact(k)'
<1>1. Deque(k)' = Deque(k) /\ Inside(k)' = Inside(k)
  BY DEF Deque, Inside
<1>2. \A c \in Inside(k) : call'[c] = call[c]
  BY DEF Inside
<1>3. (HoldsTheLast(Deque(k), admitted[k], clock) /\ Spread(admitted[k]))'
  BY <1>1 DEF Exact, HoldsTheLast, Spread, InRange, Left
<1> QED
  BY <1>1, <1>2, <1>3 DEF Exact, Found, Left

\* A key that is listed stays idle while no call begins with it.
LEMMA IdleStays ==
  ASSUME RateInv, NEW k \in Key, StillIdle(k), clock' = clock,
         HeldAsIdle(k)' \subseteq HeldAsIdle(k), Inside(k)' \subseteq Inside(k),
         admitted'[k] = admitted[k] \/ Inside(k) # {}
  PROVE  StillIdle(k)'
BY DEF StillIdle, AllLeft, Left

\* Later admissions of a key leave the refusal of this instant right.
LEMMA RefusalStays ==
  ASSUME NEW k \in Key, RefusedRight(k), refusedAt' = refusedAt,
         Len(admitted[k]) \in Nat, Len(admitted'[k]) \in Nat, Len(admitted[k]) <= Len(admitted'[k]),
         \A j \in 1 .. Len(admitted[k]) : admitted'[k][j] = admitted[k][j]
  PROVE  RefusedRight(k)'
<1> SUFFICES ASSUME refusedAt # None, refusedAt[1] = k
             PROVE  /\ refusedAt[2] \in Nat
                    /\ \E low \in Nat : \A j \in low .. low + Limit - 1 :
                         j \in 1 .. Len(admitted'[k]) /\ InRange(admitted'[k], j, refusedAt[2])
  BY DEF RefusedRight, InRange
<1>1. refusedAt[2] \in Nat
  BY DEF RefusedRight
<1>2. PICK low \in Nat : \A j \in low .. low + Limit - 1 :
        j \in 1 .. Len(admitted[k]) /\ InRange(admitted[k], j, refusedAt[2])
  BY DEF RefusedRight
<1>3. \A j \in low .. low + Limit - 1 :
        j \in 1 .. Len(admitted'[k]) /\ InRange(admitted'[k], j, refusedAt[2])
  BY <1>2 DEF InRange
<1> QED
  BY <1>1, <1>3

\* A call finds its bucket, or makes a new one that no key and no call has.
LEMMA EnterKeeps ==
  ASSUME RateInv, NEW c \in Thread, NEW k \in Key, Enter(c, k)
  PROVE  RateInv'
<1> DEFINE d == IF table[k] = None THEN Len(hits) + 1 ELSE table[k]
           do == [step |-> "prune", key |-> k, deque |-> d, now |-> clock]
<1>1. /\ hits \in Seq(Seq(Nat)) /\ Len(hits) \in Nat /\ clock \in Nat
      /\ call \in [Thread -> {AtRest} \cup UnderWay] /\ table \in [Key -> (1 .. Len(hits)) \cup {None}]
  BY ThrottleAssumption DEF RateInv, RatesTyped
<1>2. /\ hits' = IF table[k] = None THEN Append(hits, <<>>) ELSE hits
      /\ table' = [table EXCEPT ![k] = d] /\ call' = [call EXCEPT ![c] = do]
      /\ call[c].step = "rest" /\ (table[k] = None => Len(hits) < MaxDeques)
      /\ contended' = IF Inside(k) = {} /\ HeldAsIdle(k) = {} THEN contended ELSE contended \cup {k}
      /\ UNCHANGED <<clock, listing, admitted, refusedAt>>
  BY DEF Enter
<1>3. /\ hits' \in Seq(Seq(Nat)) /\ Len(hits') \in Nat /\ Len(hits) <= Len(hits') /\ Len(hits') <= MaxDeques
      /\ \A i \in 1 .. Len(hits) : hits'[i] = hits[i]
      /\ table[k] = None => Len(hits') = Len(hits) + 1 /\ hits'[d] = <<>>
  <2>1. <<>> \in Seq(Nat)
    OBVIOUS
  <2>2. Len(hits) <= MaxDeques /\ MaxDeques \in Nat
    BY ThrottleAssumption DEF RateInv, RatesTyped
  <2>3. CASE table[k] = None
    <3>1. hits' = Append(hits, <<>>) /\ d = Len(hits) + 1 /\ Len(hits) < MaxDeques
      BY <1>2, <2>3
    <3> HIDE DEF d
    <3> QED
      BY <1>1, <2>1, <2>2, <3>1
  <2>4. CASE table[k] # None
    BY <1>1, <1>2, <2>2, <2>4
  <2> QED
    BY <2>3, <2>4
<1>4. d \in 1 .. Len(hits') /\ d \in Nat /\ d # None
  BY <1>1, <1>3, ThrottleAssumption
<1> HIDE DEF d
<1>5. do \in UnderWay /\ call' \in [Thread -> {AtRest} \cup UnderWay] /\ call'[c] = do
      /\ \A e \in Thread \ {c} : call'[e] = call[e]
  BY <1>1, <1>2, <1>4 DEF UnderWay
<1>6. RatesTyped'
  <2>1. (\A e \in Thread : call[e].step # "rest" => call[e].deque \in 1 .. Len(hits) /\ call[e].now = clock)'
    BY <1>1, <1>2, <1>3, <1>4, <1>5 DEF RateInv, RatesTyped
  <2>2. (table \in [Key -> (1 .. Len(hits)) \cup {None}])'
    BY <1>1, <1>2, <1>3, <1>4
  <2>3. (clock \in 0 .. MaxClock /\ admitted \in [Key -> Seq(Nat)] /\ \A l \in Key : Dated(admitted[l], clock))'
    BY <1>2 DEF RateInv, RatesTyped, Dated
  <2> QED
    BY <1>1, <1>2, <1>3, <1>5, <2>1, <2>2, <2>3 DEF RateInv, RatesTyped
<1>7. Owners'
  <2>1. \A e \in Thread : call[e].step # "rest" => call[e].deque \in 1 .. Len(hits)
    BY DEF RateInv, RatesTyped
  <2>2. \A l \in Key : table[l] # None => table[l] \in 1 .. Len(hits)
    BY <1>1
  <2>3. table[k] = None => d = Len(hits) + 1
    BY DEF d
  <2>4. table[k] # None => d = table[k]
    BY DEF d
  <2>5. /\ table'[k] = d /\ \A l \in Key \ {k} : table'[l] = table[l]
    BY <1>1, <1>2
  <2>6. ASSUME NEW l \in Key, NEW m \in Key, table'[l] # None, table'[l] = table'[m] PROVE l = m
    <3>1. \A n \in Key \ {k} : table[n] # d
      BY <1>1, <1>4, <2>2, <2>3, <2>4 DEF Owners, RateInv
    <3> QED
      BY <2>5, <2>6, <3>1 DEF Owners, RateInv
  <2>7. ASSUME NEW e \in Thread, NEW l \in Key, call'[e].step # "rest", table'[l] = call'[e].deque
        PROVE  call'[e].key = l
    <3>1. CASE e = c
      BY <1>4, <1>5, <2>5, <2>6, <2>7, <3>1
    <3>2. CASE e # c
      <4>1. call'[e] = call[e]
        BY <1>5, <3>2
      <4>2. CASE l # k
        BY <2>5, <2>7, <4>1, <4>2 DEF Owners, RateInv
      <4>3. CASE l = k
        <5>1. table[k] # None /\ d = table[k]
          BY <1>1, <2>1, <2>3, <2>4, <2>5, <2>7, <4>1, <4>3
        <5> QED
          BY <2>5, <2>7, <4>1, <4>3, <5>1 DEF Owners, RateInv
      <4> QED
        BY <4>2, <4>3
    <3> QED
      BY <3>1, <3>2
  <2> QED
    BY <2>6, <2>7 DEF Owners
<1>8. ASSUME NEW l \in Key \ contended' PROVE Exact(l)' /\ RefusedRight(l)' /\ StillIdle(l)'
  <2>1. l \in Key \ contended /\ Exact(l) /\ RefusedRight(l) /\ StillIdle(l)
    BY <1>2, <1>8 DEF RateInv
  <2>2. RefusedRight(l)'
    BY <1>2, <2>1 DEF RefusedRight
  <2>3. CASE l # k
    <3>1. table'[l] = table[l] /\ (table[l] # None => hits'[table[l]] = hits[table[l]])
      BY <1>1, <1>2, <1>3, <2>3
    <3>2. \A e \in Thread : e \in Inside(l) \/ e \in Inside(l)' => call'[e] = call[e]
      BY <1>2, <1>5, <2>3 DEF Inside
    <3>3. Inside(l)' = Inside(l) /\ HeldAsIdle(l)' = HeldAsIdle(l)
      BY <1>2, <3>2 DEF Inside, HeldAsIdle
    <3>4. StillIdle(l)'
      BY <1>2, <2>1, <3>3, IdleStays
    <3> QED
      BY <1>2, <2>1, <2>2, <3>1, <3>2, <3>4, KeyStays
  <2>4. CASE l = k
    <3>1. Inside(k) = {} /\ HeldAsIdle(k) = {} /\ k \notin contended
      BY <1>2, <1>8, <2>4
    <3>2. table'[k] = d /\ Deque(k)' = Deque(k)
      BY <1>1, <1>2, <1>3, <1>4 DEF Deque, d
    <3>3. Inside(k)' = {c}
      BY <1>2, <1>5, <3>1 DEF Inside
    <3>4. Found(call[c], Deque(k))'
      BY <1>5 DEF Found
    <3>5. (HoldsTheLast(Deque(k), admitted[k], clock) /\ Spread(admitted[k]))'
      BY <1>2, <2>1, <2>4, <3>2 DEF Exact, HoldsTheLast, Spread, InRange, Left
    <3>6. StillIdle(k)'
      BY <1>2, <3>1 DEF StillIdle, HeldAsIdle
    <3> QED
      BY <1>5, <2>2, <2>4, <3>2, <3>3, <3>4, <3>5, <3>6 DEF Exact
  <2> QED
    BY <2>3, <2>4
<1> QED
  BY <1>6, <1>7, <1>8 DEF RateInv

\* One call goes on.  Its key apart, everything stands.
LEMMA OneMoves ==
  ASSUME RateInv, NEW c \in Thread, call[c].step # "rest", NEW do,
         call' = [call EXCEPT ![c] = do],
         \/ do = AtRest
         \/ /\ do \in UnderWay /\ do.key = call[c].key
            /\ do.deque = call[c].deque /\ do.now = call[c].now,
         UNCHANGED <<clock, table, contended, listing>>,
         hits' \in Seq(Seq(Nat)), Len(hits') = Len(hits),
         \A i \in 1 .. Len(hits) : i # call[c].deque => hits'[i] = hits[i],
         admitted' \in [Key -> Seq(Nat)],
         \A l \in Key : l # call[c].key => admitted'[l] = admitted[l],
         \A l \in Key : Dated(admitted'[l], clock)
  PROVE  /\ RatesTyped' /\ Owners'
         /\ \A l \in Key \ contended : (l # call[c].key => Exact(l)') /\ StillIdle(l)'
<1>1. call \in [Thread -> {AtRest} \cup UnderWay] /\ table \in [Key -> (1 .. Len(hits)) \cup {None}]
  BY DEF RateInv, RatesTyped
<1>2. /\ call'[c] = do /\ \A e \in Thread \ {c} : call'[e] = call[e]
      /\ call' \in [Thread -> {AtRest} \cup UnderWay]
      /\ call'[c].step # "rest" => /\ do.key = call[c].key
                                  /\ do.deque = call[c].deque /\ do.now = call[c].now
  BY <1>1 DEF AtRest
<1>3. RatesTyped'
  BY <1>1, <1>2 DEF RateInv, RatesTyped, Dated
<1>4. Owners'
  BY <1>2 DEF RateInv, Owners
<1>5. ASSUME NEW l \in Key \ contended, l # call[c].key PROVE Exact(l)'
  <2>1. \A e \in Thread : e \in Inside(l) \/ e \in Inside(l)' => call'[e] = call[e]
    BY <1>2, <1>5 DEF Inside
  <2>2. table[l] # None => hits'[table[l]] = hits[table[l]]
    BY <1>1, <1>5 DEF RateInv, Owners
  <2> QED
    BY <1>5, <2>1, <2>2, KeyStays DEF RateInv
<1>6. ASSUME NEW l \in Key \ contended PROVE StillIdle(l)'
  <2>1. Inside(l)' \subseteq Inside(l) /\ HeldAsIdle(l)' = HeldAsIdle(l)
    BY <1>2 DEF Inside, HeldAsIdle, AtRest
  <2>2. admitted'[l] = admitted[l] \/ Inside(l) # {}
    BY DEF Inside
  <2> QED
    BY <2>1, <2>2, IdleStays DEF RateInv
<1> QED
  BY <1>3, <1>4, <1>5, <1>6

\* A call whose key no other call was about.
LEMMA Alone ==
  ASSUME RateInv, NEW c \in Thread, call[c].step # "rest", call[c].key \notin contended
  PROVE  LET k == call[c].key IN
         /\ k \in Key /\ Exact(k) /\ RefusedRight(k)
         /\ Inside(k) = {c} /\ table[k] = call[c].deque /\ call[c].deque \in 1 .. Len(hits)
         /\ table[k] # None => Deque(k) = hits[call[c].deque]
         /\ call[c].now = clock /\ clock \in Nat
         /\ Found(call[c], Deque(k)) /\ Deque(k) \in Seq(Nat) /\ admitted[k] \in Seq(Nat)
<1> DEFINE k == call[c].key
<1>1. /\ call[c] \in UnderWay /\ call[c].now = clock /\ call[c].deque \in 1 .. Len(hits)
      /\ clock \in Nat /\ hits \in Seq(Seq(Nat)) /\ admitted \in [Key -> Seq(Nat)]
  BY DEF RateInv, RatesTyped, AtRest
<1>2. k \in Key
  BY <1>1 DEF UnderWay
<1>3. Exact(k) /\ RefusedRight(k) /\ c \in Inside(k)
  BY <1>2 DEF RateInv, Inside
<1> HIDE DEF k
<1>4. Inside(k) = {c} /\ table[k] = call[c].deque /\ Found(call[c], Deque(k))
  BY <1>3 DEF Exact
<1>5. Deque(k) \in Seq(Nat) /\ (table[k] # None => Deque(k) = hits[call[c].deque])
  <2>1. <<>> \in Seq(Nat) /\ hits[call[c].deque] \in Seq(Nat)
    BY <1>1
  <2> QED
    BY <1>4, <2>1 DEF Deque
<1> QED
  BY <1>1, <1>2, <1>3, <1>4, <1>5 DEF k

\* The call alone with its key has found out something, and the key stands.
LEMMA OwnKey ==
  ASSUME RateInv, NEW c \in Thread, call[c].step # "rest",
         NEW k \in Key, k = call[c].key, k \notin contended,
         NEW do, call' = [call EXCEPT ![c] = do],
         \/ do = AtRest
         \/ /\ do.step # "rest" /\ do.key = k /\ do.deque = call[c].deque
            /\ Found(do, Deque(k)'),
         table'[k] = table[k],
         HoldsTheLast(Deque(k)', admitted'[k], clock'), Spread(admitted'[k])
  PROVE  Exact(k)'
<1>1. Inside(k) = {c} /\ table[k] = call[c].deque
  BY Alone
<1>2. call'[c] = do /\ \A e \in Thread \ {c} : call'[e] = call[e]
  BY DEF RateInv, RatesTyped
<1>3. \A e \in Inside(k)' : e = c /\ call'[e] = do /\ do.step # "rest"
  BY <1>1, <1>2 DEF Inside, AtRest
<1>4. \A e \in Inside(k)' : call'[e].deque = table'[k] /\ Found(call'[e], Deque(k)')
  BY <1>1, <1>3 DEF AtRest
<1>5. (\A e \in Inside(k) : call[e].deque = table[k] /\ Found(call[e], Deque(k)))'
  BY <1>4 DEF Found, Left
<1>6. (HoldsTheLast(Deque(k), admitted[k], clock) /\ Spread(admitted[k]))'
  BY DEF HoldsTheLast, Left, Spread, InRange
<1>7. (\A e, f \in Inside(k) : e = f)'
  BY <1>3
<1> QED
  BY <1>5, <1>6, <1>7 DEF Exact

\* The deque of a call.
LEMMA CallShape ==
  ASSUME RateInv, NEW c \in Thread, call[c].step # "rest"
  PROVE  /\ call[c] \in UnderWay /\ call[c].now = clock /\ clock \in Nat
         /\ call[c].key \in Key /\ admitted \in [Key -> Seq(Nat)]
         /\ hits \in Seq(Seq(Nat)) /\ Len(hits) \in Nat
         /\ call[c].deque \in 1 .. Len(hits) /\ hits[call[c].deque] \in Seq(Nat)
         /\ \A k \in Key : Dated(admitted[k], clock)
BY DEF RateInv, RatesTyped, AtRest, UnderWay

\* A look at the oldest hit finds it left, or finds that none has.
LEMMA LookKeeps ==
  ASSUME RateInv, NEW c \in Thread, Look(c) PROVE RateInv'
<1> DEFINE q == hits[call[c].deque]
           old == q # <<>> /\ Left(call[c].now, Head(q))
           do == [call[c] EXCEPT !.step = IF old THEN "pop" ELSE "count"]
<1>1. /\ call[c].step # "rest" /\ call' = [call EXCEPT ![c] = do]
      /\ UNCHANGED <<clock, hits, table, listing, admitted, contended, refusedAt>>
  BY DEF Look, RateInv, RatesTyped
<1>2. PICK k \in Key : k = call[c].key
  BY <1>1, CallShape
<1>3. /\ do \in UnderWay /\ do.key = k /\ do.deque = call[c].deque /\ do.now = call[c].now
      /\ do.step = IF old THEN "pop" ELSE "count"
  BY <1>1, <1>2, CallShape DEF UnderWay
<1> HIDE DEF do
<1>4. RatesTyped' /\ Owners'
      /\ \A l \in Key \ contended : (l # k => Exact(l)') /\ StillIdle(l)'
  BY <1>1, <1>2, <1>3, CallShape, OneMoves
<1>5. ASSUME k \notin contended PROVE Exact(k)'
  <2>1. /\ Exact(k) /\ q \in Seq(Nat) /\ call[c].now = clock /\ clock \in Nat
        /\ admitted[k] \in Seq(Nat) /\ Dated(admitted[k], clock) /\ table[k] = call[c].deque
    BY <1>1, <1>2, <1>5, Alone, CallShape
  <2>2. Deque(k) = q
    BY <1>1, <2>1, CallShape, ThrottleAssumption DEF Deque
  <2> HIDE DEF q
  <2>3. HoldsTheLast(q, admitted[k], clock) /\ Spread(admitted[k])
    BY <2>1, <2>2 DEF Exact
  <2>4. ASSUME ~old, NEW i \in 1 .. Len(q) PROVE ~Left(clock, q[i])
    <3>1. q[1] = Head(q) /\ 1 \in 1 .. Len(q) /\ q # <<>> /\ Len(q) \in Nat
      BY <2>1, <2>4
    <3>2. ~Left(clock, q[1])
      BY <2>1, <2>4, <3>1
    <3>3. q[1] <= q[i] /\ q[1] \in Nat /\ q[i] \in Nat
      <4> DEFINE a == admitted[k]
                 n == Len(a) - Len(q)
      <4>1. n \in Nat /\ n + i \in 1 .. Len(a) /\ n + 1 \in 1 .. n + i
        BY <2>1, <2>3, <3>1 DEF HoldsTheLast
      <4>2. q[1] = a[n + 1] /\ q[i] = a[n + i]
        BY <2>3, <3>1 DEF HoldsTheLast
      <4>3. a \in Seq(Nat) /\ Dated(a, clock)
        BY <2>1
      <4> HIDE DEF a, n
      <4>4. a[n + 1] <= a[n + i]
        BY <4>1, <4>3 DEF Dated
      <4> QED
        BY <2>1, <3>1, <4>2, <4>4
    <3> QED
      BY <2>1, <3>2, <3>3, ThrottleAssumption DEF Left
  <2>5. Found(do, q)
    BY <1>3, <2>1, <2>4 DEF Found
  <2>6. Deque(k)' = q /\ do.step # "rest"
    BY <1>1, <1>3, <2>2 DEF Deque
  <2> QED
    BY <1>1, <1>2, <1>3, <1>5, <2>3, <2>5, <2>6, OwnKey
<1>6. \A l \in Key \ contended : RefusedRight(l)'
  BY <1>1 DEF RateInv, RefusedRight
<1> QED
  BY <1>1, <1>4, <1>5, <1>6 DEF RateInv

\* The hit popped is the one that was looked at: it has left the window.
LEMMA PopLeftKeeps ==
  ASSUME RateInv, NEW c \in Thread, PopLeft(c) PROVE RateInv'
<1> DEFINE d == call[c].deque
           q == hits[d]
           do == IF q # <<>> THEN [call[c] EXCEPT !.step = "prune"] ELSE AtRest
<1>1. /\ call[c].step = "pop" /\ call' = [call EXCEPT ![c] = do]
      /\ hits' = IF q # <<>> THEN [hits EXCEPT ![d] = Tail(q)] ELSE hits
      /\ UNCHANGED <<clock, table, listing, admitted, contended, refusedAt>>
  BY DEF PopLeft, RateInv, RatesTyped
<1>2. PICK k \in Key : k = call[c].key
  BY <1>1, CallShape
<1>3. \/ q = <<>> /\ do = AtRest
      \/ /\ do \in UnderWay /\ do.key = k /\ do.deque = d /\ do.now = call[c].now
         /\ do.step = "prune"
  BY <1>1, <1>2, CallShape DEF UnderWay
<1> HIDE DEF do
<1>4. /\ hits' \in Seq(Seq(Nat)) /\ Len(hits') = Len(hits)
      /\ \A i \in 1 .. Len(hits) : i # d => hits'[i] = hits[i]
      /\ q # <<>> => hits'[d] = Tail(q)
  <2>1. /\ hits \in Seq(Seq(Nat)) /\ Len(hits) \in Nat /\ d \in 1 .. Len(hits) /\ q \in Seq(Nat)
        /\ hits' = IF q # <<>> THEN [hits EXCEPT ![d] = Tail(q)] ELSE hits
    BY <1>1, CallShape
  <2> HIDE DEF q, d
  <2>2. q # <<>> => Tail(q) \in Seq(Nat)
    BY <2>1
  <2>3. CASE q = <<>>
    BY <2>1, <2>3
  <2>4. CASE q # <<>>
    BY <2>1, <2>2, <2>4
  <2> QED
    BY <2>3, <2>4
<1>5. RatesTyped' /\ Owners'
      /\ \A l \in Key \ contended : (l # k => Exact(l)') /\ StillIdle(l)'
  BY <1>1, <1>2, <1>3, <1>4, CallShape, OneMoves
<1>6. ASSUME k \notin contended PROVE Exact(k)'
  <2>1. /\ Exact(k) /\ q \in Seq(Nat) /\ call[c].now = clock /\ clock \in Nat /\ d \in Nat
        /\ admitted[k] \in Seq(Nat) /\ table[k] = d /\ Found(call[c], Deque(k))
    BY <1>1, <1>2, <1>6, Alone, CallShape
  <2>2. Deque(k) = q /\ d # None
    BY <2>1, ThrottleAssumption DEF Deque
  <2>3. q # <<>> /\ Left(clock, Head(q))
    BY <1>1, <2>1, <2>2 DEF Found
  <2>4. Deque(k)' = Tail(q) /\ do.step = "prune" /\ do.key = k /\ do.deque = d
    BY <1>1, <1>3, <1>4, <2>1, <2>2, <2>3 DEF Deque
  <2> HIDE DEF q
  <2>5. HoldsTheLast(Tail(q), admitted[k], clock)
    <3> DEFINE a == admitted[k]
               n == Len(a) - Len(q)
    <3>1. HoldsTheLast(q, a, clock) /\ Len(q) \in Nat \ {0} /\ Len(a) \in Nat /\ Len(q) <= Len(a)
      <4>1. HoldsTheLast(q, a, clock)
        BY <2>1, <2>2 DEF Exact
      <4>2. Len(q) \in Nat \ {0} /\ Len(a) \in Nat
        BY <2>1, <2>3
      <4> QED
        BY <4>1, <4>2 DEF HoldsTheLast
    <3>2. Len(Tail(q)) = Len(q) - 1 /\ Head(q) = q[1] /\ \A i \in 1 .. Len(q) - 1 : Tail(q)[i] = q[i + 1]
      BY <2>1, <2>3
    <3>3. \A i \in 1 .. Len(q) : q[i] = a[n + i]
      BY <3>1 DEF HoldsTheLast
    <3>4. \A i \in 1 .. n : Left(clock, a[i])
      BY <3>1 DEF HoldsTheLast
    <3>5. n \in Nat /\ Len(a) - Len(Tail(q)) = n + 1 /\ Len(Tail(q)) <= Len(a)
      BY <3>1, <3>2
    <3> HIDE DEF a, n
    <3>6. Left(clock, a[n + 1])
      BY <2>3, <3>1, <3>2, <3>3
    <3>7. \A i \in 1 .. n + 1 : Left(clock, a[i])
      <4> SUFFICES ASSUME NEW i \in 1 .. n + 1 PROVE Left(clock, a[i])
        OBVIOUS
      <4>1. i \in 1 .. n \/ i = n + 1
        BY <3>5
      <4> QED
        BY <3>4, <3>6, <4>1
    <3>8. \A i \in 1 .. Len(Tail(q)) : Tail(q)[i] = a[n + 1 + i]
      BY <3>1, <3>2, <3>3, <3>5
    <3>9. HoldsTheLast(Tail(q), a, clock)
      BY <3>5, <3>7, <3>8 DEF HoldsTheLast
    <3> QED
      BY <3>9 DEF a
  <2>6. Found(do, Tail(q)) /\ Spread(admitted[k])
    BY <2>1, <2>4 DEF Found, Exact
  <2> QED
    BY <1>1, <1>2, <1>6, <2>4, <2>5, <2>6, OwnKey
<1>7. \A l \in Key \ contended : RefusedRight(l)'
  BY <1>1 DEF RateInv, RefusedRight
<1> QED
  BY <1>1, <1>5, <1>6, <1>7 DEF RateInv

\* A refusal is of a deque with Limit hits, and the call goes on with fewer.
LEMMA CountKeeps ==
  ASSUME RateInv, NEW c \in Thread, Count(c) PROVE RateInv'
<1> DEFINE q == hits[call[c].deque]
           over == Reached(Len(q))
           do == IF over THEN AtRest ELSE [call[c] EXCEPT !.step = "append"]
<1>1. /\ call[c].step = "count" /\ call' = [call EXCEPT ![c] = do]
      /\ refusedAt' = IF over THEN <<call[c].key, call[c].now>> ELSE refusedAt
      /\ UNCHANGED <<clock, hits, table, listing, admitted, contended>>
  BY DEF Count, RateInv, RatesTyped
<1>2. PICK k \in Key : k = call[c].key
  BY <1>1, CallShape
<1>3. \/ over /\ do = AtRest
      \/ /\ ~over /\ do \in UnderWay /\ do.key = k /\ do.deque = call[c].deque /\ do.now = call[c].now
         /\ do.step = "append"
  BY <1>1, <1>2, CallShape DEF UnderWay
<1> HIDE DEF do
<1>4. RatesTyped' /\ Owners'
      /\ \A l \in Key \ contended : (l # k => Exact(l)') /\ StillIdle(l)'
  BY <1>1, <1>2, <1>3, CallShape, OneMoves
<1>5. ASSUME k \notin contended PROVE Exact(k)' /\ (over => RefusedRight(k)')
  <2>1. /\ Exact(k) /\ q \in Seq(Nat) /\ call[c].now = clock /\ clock \in Nat /\ call[c].deque \in Nat
        /\ admitted[k] \in Seq(Nat) /\ table[k] = call[c].deque /\ Found(call[c], Deque(k))
        /\ Dated(admitted[k], clock)
    BY <1>1, <1>2, <1>5, Alone, CallShape
  <2>2. Deque(k) = q /\ Deque(k)' = q
    BY <1>1, <2>1, ThrottleAssumption DEF Deque
  <2> HIDE DEF q
  <2>3. HoldsTheLast(q, admitted[k], clock) /\ Spread(admitted[k]) /\ Len(q) \in Nat
    BY <2>1, <2>2 DEF Exact
  <2>4. \A i \in 1 .. Len(q) : ~Left(clock, q[i])
    BY <1>1, <2>1, <2>2 DEF Found
  <2>5. do.step = "append" => Found(do, q)
    BY <1>3, <2>1, <2>3, <2>4, ThrottleAssumption DEF Found, Reached, AtRest
  <2>6. Exact(k)'
    BY <1>1, <1>2, <1>3, <1>5, <2>2, <2>3, <2>5, OwnKey
  <2>7. ASSUME over PROVE RefusedRight(k)'
    <3> DEFINE a == admitted[k]
               n == Len(a) - Len(q)
    <3>1. n \in Nat /\ Len(q) >= Limit /\ Limit \in Nat \ {0} /\ Len(a) = n + Len(q)
      BY <2>1, <2>3, <2>7, ThrottleAssumption DEF HoldsTheLast, Reached
    <3>2. \A i \in 1 .. Len(q) : q[i] = a[n + i]
      BY <2>3 DEF HoldsTheLast
    <3>3. a \in Seq(Nat) /\ Dated(a, clock)
      BY <2>1
    <3> HIDE DEF a, n
    <3>4. ASSUME NEW j \in n + 1 .. n + Limit PROVE j \in 1 .. Len(a) /\ InRange(a, j, clock)
      <4>1. j - n \in 1 .. Len(q) /\ j \in 1 .. Len(a) /\ n + (j - n) = j
        BY <2>3, <3>1
      <4>2. a[j] = q[j - n] /\ a[j] \in Nat /\ a[j] <= clock
        BY <3>2, <3>3, <4>1 DEF Dated
      <4> QED
        BY <2>1, <2>4, <4>1, <4>2, ThrottleAssumption DEF InRange, Left
    <3>5. refusedAt' = <<k, clock>> /\ admitted' = admitted /\ n + 1 \in Nat
          /\ n + 1 + Limit - 1 = n + Limit
      BY <1>1, <1>2, <2>1, <2>7, <3>1
    <3>6. refusedAt'[1] = k /\ refusedAt'[2] = clock
      BY <3>5
    <3> QED
      BY <2>1, <3>4, <3>5, <3>6 DEF RefusedRight, a, InRange
  <2> QED
    BY <2>6, <2>7
<1>6. ASSUME NEW l \in Key \ contended, l # k PROVE RefusedRight(l)'
  <2>1. CASE over
    BY <1>1, <1>2, <1>6, <2>1 DEF RefusedRight
  <2>2. CASE ~over
    BY <1>1, <2>2 DEF RefusedRight, RateInv
  <2> QED
    BY <2>1, <2>2
<1>7. k \notin contended => RefusedRight(k)'
  <2>1. CASE over
    BY <1>5, <2>1
  <2>2. CASE ~over
    BY <1>1, <2>2 DEF RefusedRight, RateInv
  <2> QED
    BY <2>1, <2>2
<1> QED
  BY <1>1, <1>4, <1>5, <1>6, <1>7 DEF RateInv

\* An admission of this instant is the last one.
LEMMA DatedGrows ==
  ASSUME NEW a \in Seq(Nat), NEW t \in Nat, Dated(a, t) PROVE Dated(Append(a, t), t)
<1> DEFINE b == Append(a, t)
<1>1. /\ b \in Seq(Nat) /\ Len(b) = Len(a) + 1 /\ b[Len(a) + 1] = t /\ Len(a) \in Nat
      /\ \A i \in 1 .. Len(a) : b[i] = a[i] /\ a[i] \in Nat
  OBVIOUS
<1> HIDE DEF b
<1> SUFFICES ASSUME NEW j \in 1 .. Len(b)
             PROVE  b[j] <= t /\ \A i \in 1 .. j : b[i] <= b[j]
  BY DEF Dated, b
<1>2. CASE j \in 1 .. Len(a)
  BY <1>1, <1>2 DEF Dated
<1>3. CASE j = Len(a) + 1
  <2>1. \A i \in 1 .. Len(a) : b[i] <= t
    BY <1>1 DEF Dated
  <2>2. \A i \in 1 .. j : i \in 1 .. Len(a) \/ i = Len(a) + 1
    BY <1>1, <1>3
  <2> QED
    BY <1>1, <1>3, <2>1, <2>2
<1> QED
  BY <1>1, <1>2, <1>3

\* One admission more, at the end of the deque as of the history.
LEMMA OneMore ==
  ASSUME NEW q \in Seq(Nat), NEW a \in Seq(Nat), NEW t \in Nat,
         Dated(a, t), HoldsTheLast(q, a, t), Spread(a), Len(q) < Limit
  PROVE  LET p == Append(q, t) b == Append(a, t) IN
         /\ p \in Seq(Nat) /\ b \in Seq(Nat) /\ Len(b) = Len(a) + 1
         /\ \A i \in 1 .. Len(a) : b[i] = a[i]
         /\ Dated(b, t) /\ HoldsTheLast(p, b, t) /\ Spread(b)
<1> DEFINE p == Append(q, t)
           b == Append(a, t)
           n == Len(a) - Len(q)
<1>1. /\ p \in Seq(Nat) /\ Len(p) = Len(q) + 1 /\ p[Len(q) + 1] = t /\ Len(q) \in Nat
      /\ \A i \in 1 .. Len(q) : p[i] = q[i]
  OBVIOUS
<1>2. /\ b \in Seq(Nat) /\ Len(b) = Len(a) + 1 /\ b[Len(a) + 1] = t /\ Len(a) \in Nat
      /\ \A i \in 1 .. Len(a) : b[i] = a[i] /\ a[i] \in Nat
  OBVIOUS
<1>3. n \in Nat /\ Len(a) = n + Len(q) /\ Limit \in Nat \ {0} /\ Window \in Nat
  BY <1>1, <1>2, ThrottleAssumption DEF HoldsTheLast
<1>4. \A i \in 1 .. Len(q) : q[i] = a[n + i]
  BY DEF HoldsTheLast
<1>5. \A i \in 1 .. n : Left(t, a[i])
  BY DEF HoldsTheLast
<1> HIDE DEF p, b, n
<1>6. \A j \in 1 .. Len(b) : j \in 1 .. Len(a) \/ j = Len(a) + 1
  BY <1>2
<1>7. Dated(b, t)
  BY DatedGrows DEF b
<1>8. HoldsTheLast(p, b, t)
  <2>1. Len(p) <= Len(b) /\ Len(b) - Len(p) = n
    BY <1>1, <1>2, <1>3
  <2>2. ASSUME NEW i \in 1 .. Len(p) PROVE p[i] = b[n + i]
    <3>1. CASE i \in 1 .. Len(q)
      <4>1. n + i \in 1 .. Len(a)
        BY <1>1, <1>3, <3>1
      <4> QED
        BY <1>1, <1>2, <1>4, <3>1, <4>1
    <3>2. CASE i = Len(q) + 1
      BY <1>1, <1>2, <1>3, <3>2
    <3> QED
      BY <1>1, <3>1, <3>2
  <2>3. ASSUME NEW i \in 1 .. n PROVE Left(t, b[i])
    <3>1. i \in 1 .. Len(a)
      BY <1>1, <1>3
    <3> QED
      BY <1>2, <1>5, <3>1
  <2> QED
    BY <2>1, <2>2, <2>3 DEF HoldsTheLast
<1>9. Spread(b)
  <2> SUFFICES ASSUME NEW i \in 1 .. Len(b)
               PROVE  \E low \in Nat : \A j \in 1 .. Len(b) :
                        InRange(b, j, b[i]) => j \in low .. low + Limit - 1
    BY DEF Spread
  <2>1. CASE b[i] = t
    <3>1. ASSUME NEW j \in 1 .. Len(b), InRange(b, j, t) PROVE j \in n + 1 .. n + 1 + Limit - 1
      <4>1. t - b[j] <= Window /\ b[j] \in Nat
        BY <1>2, <3>1 DEF InRange
      <4>2. ~Left(t, b[j])
        BY <1>3, <4>1 DEF Left
      <4>3. j \notin 1 .. n
        <5> SUFFICES ASSUME j \in 1 .. n PROVE FALSE
          OBVIOUS
        <5>1. b[j] = a[j]
          BY <1>1, <1>2, <1>3
        <5> QED
          BY <1>5, <4>2, <5>1
      <4> QED
        BY <1>1, <1>2, <1>3, <4>3
    <3>2. n + 1 \in Nat
      BY <1>3
    <3> QED
      BY <2>1, <3>1, <3>2
  <2>2. CASE b[i] # t
    <3>1. i \in 1 .. Len(a) /\ b[i] = a[i] /\ a[i] < t
      BY <1>2, <1>6, <2>2 DEF Dated
    <3>2. PICK low \in Nat : \A j \in 1 .. Len(a) : InRange(a, j, a[i]) => j \in low .. low + Limit - 1
      BY <3>1 DEF Spread
    <3>3. ASSUME NEW j \in 1 .. Len(b), InRange(b, j, b[i]) PROVE j \in low .. low + Limit - 1
      <4>1. j \in 1 .. Len(a) /\ b[j] = a[j]
        BY <1>2, <1>6, <3>1, <3>3 DEF InRange
      <4> QED
        BY <3>1, <3>2, <3>3, <4>1 DEF InRange
    <3> QED
      BY <3>3
  <2> QED
    BY <2>1, <2>2
<1> QED
  BY <1>1, <1>2, <1>7, <1>8, <1>9 DEF p, b

\* A call of its own key appends where it counted; others leave the key's
\* deque alone.
LEMMA AppendKeeps ==
  ASSUME RateInv, NEW c \in Thread, AppendHit(c) PROVE RateInv'
<1> DEFINE d == call[c].deque
           q == hits[d]
           t == call[c].now
<1>1. PICK do \in {AtRest, [call[c] EXCEPT !.step = "bound"]} : call' = [call EXCEPT ![c] = do]
  BY DEF AppendHit, RateInv, RatesTyped
<1>2. /\ call[c].step = "append"
      /\ hits' = [hits EXCEPT ![d] = Append(q, t)]
      /\ admitted' = [admitted EXCEPT ![call[c].key] = Append(admitted[call[c].key], t)]
      /\ UNCHANGED <<clock, table, listing, contended, refusedAt>>
  BY DEF AppendHit
<1>3. PICK k \in Key : k = call[c].key
  BY <1>2, CallShape
<1>4. \/ do = AtRest
      \/ do \in UnderWay /\ do.key = k /\ do.deque = d /\ do.now = t /\ do.step = "bound"
  BY <1>1, <1>2, <1>3, CallShape DEF UnderWay
<1>5. /\ q \in Seq(Nat) /\ t = clock /\ clock \in Nat /\ hits \in Seq(Seq(Nat)) /\ d \in 1 .. Len(hits)
      /\ admitted \in [Key -> Seq(Nat)] /\ \A l \in Key : Dated(admitted[l], clock)
  BY <1>2, CallShape
<1>6. Append(q, t) \in Seq(Nat) /\ Append(admitted[k], t) \in Seq(Nat)
  BY <1>5
<1>7. /\ hits' \in Seq(Seq(Nat)) /\ Len(hits') = Len(hits) /\ hits'[d] = Append(q, t)
      /\ \A i \in 1 .. Len(hits) : i # d => hits'[i] = hits[i]
  BY <1>2, <1>5, <1>6
<1>8. /\ admitted' \in [Key -> Seq(Nat)] /\ admitted'[k] = Append(admitted[k], t)
      /\ \A l \in Key : l # k => admitted'[l] = admitted[l]
  BY <1>2, <1>3, <1>5, <1>6
<1>9. Dated(Append(admitted[k], t), clock)
  BY <1>5, DatedGrows
<1>10. \A l \in Key : Dated(admitted'[l], clock)
  BY <1>5, <1>8, <1>9
<1>11. RatesTyped' /\ Owners'
      /\ \A l \in Key \ contended : (l # k => Exact(l)') /\ StillIdle(l)'
  BY <1>1, <1>2, <1>3, <1>4, <1>7, <1>8, <1>10, OneMoves
<1>12. ASSUME k \notin contended PROVE Exact(k)'
  <2>1. Exact(k) /\ table[k] = d /\ Found(call[c], Deque(k)) /\ d # None
    <3>1. call[c].step # "rest" /\ call[c].key \notin contended
      BY <1>2, <1>3, <1>12
    <3>2. Exact(k) /\ table[k] = d /\ Found(call[c], Deque(k))
      BY <1>3, <3>1, Alone
    <3> QED
      BY <1>2, <3>1, <3>2, CallShape, ThrottleAssumption
  <2>2. Deque(k) = q /\ Deque(k)' = Append(q, t)
    BY <1>2, <1>7, <2>1 DEF Deque
  <2> HIDE DEF q, d, t
  <2>3. HoldsTheLast(q, admitted[k], clock) /\ Spread(admitted[k]) /\ Len(q) < Limit
    BY <1>2, <2>1, <2>2 DEF Exact, Found
  <2>4. HoldsTheLast(Append(q, t), Append(admitted[k], t), clock) /\ Spread(Append(admitted[k], t))
    BY <1>5, <2>3, OneMore
  <2>5. \/ do = AtRest
        \/ do.step # "rest" /\ do.key = k /\ do.deque = d /\ Found(do, Append(q, t))
    BY <1>4 DEF Found
  <2> QED
    BY <1>1, <1>2, <1>3, <1>8, <1>12, <2>2, <2>4, <2>5, OwnKey DEF d
<1>13. ASSUME NEW l \in Key \ contended PROVE RefusedRight(l)'
  <2>1. RefusedRight(l)
    BY DEF RateInv
  <2>2. /\ Len(admitted[l]) \in Nat /\ Len(admitted'[l]) \in Nat /\ Len(admitted[l]) <= Len(admitted'[l])
        /\ \A j \in 1 .. Len(admitted[l]) : admitted'[l][j] = admitted[l][j]
    <3>1. admitted[l] \in Seq(Nat) /\ t \in Nat
      BY <1>5
    <3>2. admitted'[l] = admitted[l] \/ admitted'[l] = Append(admitted[l], t)
      BY <1>8
    <3> HIDE DEF t
    <3> QED
      BY <3>1, <3>2
  <2> QED
    BY <1>2, <2>1, <2>2, RefusalStays
<1> QED
  BY <1>2, <1>11, <1>12, <1>13 DEF RateInv

\* What a thread that bounds the table leaves alone.
LEMMA Walking ==
  ASSUME RateInv, NEW c \in Thread, call[c].step # "rest",
         NEW step, call' = [call EXCEPT ![c] = AtRest]
                   \/ (step \in {"list", "drop"} /\ call' = [call EXCEPT ![c].step = step])
                   \/ call' = call,
         UNCHANGED <<clock, hits, table, admitted, refusedAt>>,
         listing' \in [Thread -> [began: SUBSET Key, seen: SUBSET Key, idle: SUBSET Key]]
  PROVE  /\ RatesTyped' /\ Owners'
         /\ \A k \in Key : Inside(k)' \subseteq Inside(k)
         /\ \A k \in Key \ contended : Exact(k)' /\ RefusedRight(k)'
<1>1. PICK do : /\ call' = [call EXCEPT ![c] = do]
                /\ \/ do = AtRest
                   \/ /\ do \in UnderWay /\ do.key = call[c].key
                      /\ do.deque = call[c].deque /\ do.now = call[c].now
                      /\ do.step \in {"list", "drop"} \/ do = call[c]
  <2>1. call \in [Thread -> {AtRest} \cup UnderWay]
    BY DEF RateInv, RatesTyped
  <2>2. CASE call' = [call EXCEPT ![c] = AtRest]
    BY <2>2
  <2>3. CASE step \in {"list", "drop"} /\ call' = [call EXCEPT ![c].step = step]
    <3> DEFINE do == [call[c] EXCEPT !.step = step]
    <3>1. /\ do \in UnderWay /\ do.key = call[c].key /\ do.deque = call[c].deque
          /\ do.now = call[c].now /\ do.step = step
      BY <2>3, CallShape DEF UnderWay
    <3>2. call' = [call EXCEPT ![c] = do]
      BY <2>3
    <3> HIDE DEF do
    <3> QED
      BY <2>3, <3>1, <3>2
  <2>4. CASE call' = call
    <3>1. call' = [call EXCEPT ![c] = call[c]] /\ call[c] \in UnderWay
      BY <2>1, <2>4, CallShape
    <3> QED
      BY <3>1
  <2> QED
    BY <2>2, <2>3, <2>4
<1>2. /\ call \in [Thread -> {AtRest} \cup UnderWay] /\ call'[c] = do
      /\ \A e \in Thread \ {c} : call'[e] = call[e]
  BY <1>1 DEF RateInv, RatesTyped
<1>3. RatesTyped'
  <2>1. call' \in [Thread -> {AtRest} \cup UnderWay]
    BY <1>1, <1>2
  <2>2. \A e \in Thread : call'[e].step # "rest" => call'[e].deque \in 1 .. Len(hits') /\ call'[e].now = clock'
    BY <1>1, <1>2 DEF RateInv, RatesTyped, AtRest
  <2> QED
    BY <2>1, <2>2 DEF RateInv, RatesTyped, Dated
<1>4. Owners'
  <2>1. \A e \in Thread, k \in Key :
          call'[e].step # "rest" /\ table'[k] = call'[e].deque => call'[e].key = k
    BY <1>1, <1>2 DEF RateInv, Owners, AtRest
  <2> QED
    BY <2>1 DEF RateInv, Owners
<1>5. \A k \in Key : Inside(k)' \subseteq Inside(k)
  BY <1>1, <1>2 DEF Inside, AtRest
<1>6. ASSUME NEW k \in Key \ contended PROVE Exact(k)' /\ RefusedRight(k)'
  <2>1. Exact(k) /\ RefusedRight(k)
    BY DEF RateInv
  <2>2. RefusedRight(k)'
    BY <2>1 DEF RefusedRight
  <2>3. CASE k # call[c].key
    <3>1. \A e \in Thread : e \in Inside(k) \/ e \in Inside(k)' => call'[e] = call[e]
      BY <1>1, <1>2, <2>3 DEF Inside, AtRest
    <3> QED
      BY <2>1, <2>2, <3>1, KeyStays
  <2>4. CASE k = call[c].key
    <3>1. /\ Deque(k)' = Deque(k) /\ HoldsTheLast(Deque(k), admitted[k], clock) /\ Spread(admitted[k])
          /\ Found(call[c], Deque(k))
      BY <2>1, <2>4, Alone DEF Deque, Exact
    <3>2. \/ do = AtRest
          \/ do.step # "rest" /\ do.key = k /\ do.deque = call[c].deque /\ Found(do, Deque(k)')
      BY <1>1, <2>4, <3>1 DEF Found
    <3> QED
      BY <1>1, <2>2, <2>4, <3>1, <3>2, OwnKey
  <2> QED
    BY <2>3, <2>4
<1> QED
  BY <1>3, <1>4, <1>5, <1>6

\* A thread begins to list, raises, or is done.
LEMMA WalkKeeps ==
  ASSUME RateInv, NEW c \in Thread, ListIdle(c) \/ RaiseResized(c) \/ EndList(c) \/ EndDrop(c)
  PROVE  RateInv'
<1>1. /\ call[c].step # "rest" /\ UNCHANGED <<clock, hits, table, admitted, contended, refusedAt>>
      /\ \/ call' = [call EXCEPT ![c] = AtRest]
         \/ call' = [call EXCEPT ![c].step = "list"]
         \/ call' = [call EXCEPT ![c].step = "drop"]
  BY DEF ListIdle, RaiseResized, EndList, EndDrop
<1>2. PICK new \in [began: SUBSET Key, seen: SUBSET Key, idle: {{}}] \cup {listing[c]} :
        listing' = [listing EXCEPT ![c] = new]
  <2>1. listing = [listing EXCEPT ![c] = listing[c]]
    BY DEF RateInv, RatesTyped
  <2> QED
    BY <2>1 DEF ListIdle, RaiseResized, EndList, EndDrop, NoList, Live
<1>3. listing' \in [Thread -> [began: SUBSET Key, seen: SUBSET Key, idle: SUBSET Key]]
  <2>1. new \in [began: SUBSET Key, seen: SUBSET Key, idle: SUBSET Key]
    BY DEF RateInv, RatesTyped
  <2> QED
    BY <1>2, <2>1 DEF RateInv, RatesTyped
<1>4. \A k \in Key : HeldAsIdle(k)' \subseteq HeldAsIdle(k)
  BY <1>2 DEF HeldAsIdle, RateInv, RatesTyped
<1>5. /\ RatesTyped' /\ Owners' /\ \A k \in Key : Inside(k)' \subseteq Inside(k)
      /\ \A k \in Key \ contended : Exact(k)' /\ RefusedRight(k)'
  BY <1>1, <1>3, Walking
<1>6. \A k \in Key \ contended : StillIdle(k)'
  BY <1>1, <1>4, <1>5, IdleStays DEF RateInv
<1> QED
  BY <1>1, <1>5, <1>6 DEF RateInv

\* All that a key with an idle bucket has been admitted has left the window.
LEMMA IdleLeft ==
  ASSUME RateInv, NEW k \in Key, Exact(k), table[k] # None, IdleBucket(table[k], clock)
  PROVE  AllLeft(k)
<1> DEFINE a == admitted[k]
           q == hits[table[k]]
           n == Len(a) - Len(q)
<1>1. /\ HoldsTheLast(q, a, clock) /\ a \in Seq(Nat) /\ q \in Seq(Nat) /\ Dated(a, clock)
      /\ clock \in Nat
  BY DEF Exact, Deque, RateInv, RatesTyped
<1>2. q = <<>> \/ clock - q[Len(q)] > IdleAfter
  BY DEF IdleBucket
<1>3. /\ n \in Nat /\ Len(a) = n + Len(q) /\ Len(a) \in Nat /\ Len(q) \in Nat
      /\ \A i \in 1 .. Len(q) : q[i] = a[n + i]
      /\ \A i \in 1 .. n : Left(clock, a[i])
  <2>1. Len(a) \in Nat /\ Len(q) \in Nat
    BY <1>1
  <2>2. Len(q) <= Len(a)
    BY <1>1 DEF HoldsTheLast
  <2>3. \A i \in 1 .. Len(q) : q[i] = a[n + i]
    BY <1>1 DEF HoldsTheLast
  <2>4. \A i \in 1 .. n : Left(clock, a[i])
    BY <1>1 DEF HoldsTheLast
  <2> HIDE DEF a, q
  <2>5. n \in Nat /\ Len(a) = n + Len(q)
    BY <2>1, <2>2
  <2> QED
    BY <2>1, <2>3, <2>4, <2>5
<1>4. q = <<>> => Len(q) = 0
  OBVIOUS
<1> HIDE DEF a, q, n
<1>5. ASSUME NEW i \in 1 .. Len(a) PROVE Left(clock, a[i])
  <2>1. CASE q = <<>>
    BY <1>3, <1>4, <2>1
  <2>2. CASE q # <<>>
    <3>1. CASE Len(q) = 0
      BY <1>3, <3>1
    <3>2. CASE Len(q) # 0
      <4>1. Len(q) \in 1 .. Len(q) /\ Len(a) \in 1 .. Len(a)
        BY <1>3, <3>2
      <4>2. q[Len(q)] = a[Len(a)]
        BY <1>3, <4>1
      <4>3. a[i] <= a[Len(a)] /\ a[i] \in Nat /\ a[Len(a)] \in Nat
        BY <1>1, <4>1 DEF Dated
      <4> QED
        BY <1>1, <1>2, <2>2, <4>2, <4>3, ThrottleAssumption DEF Left
    <3> QED
      BY <3>1, <3>2
  <2> QED
    BY <2>1, <2>2
<1> QED
  BY <1>5 DEF AllLeft, a

\* A bucket is listed with nothing in the window, and nobody's call.
LEMMA ExamineKeeps ==
  ASSUME RateInv, NEW c \in Thread, NEW k \in Key, Examine(c, k) PROVE RateInv'
<1> DEFINE idle == IdleBucket(table[k], call[c].now)
           new == [listing[c] EXCEPT !.seen = @ \cup {k},
                                     !.idle = IF idle THEN @ \cup {k} ELSE @]
<1>1. /\ call[c].step # "rest" /\ table[k] # None
      /\ listing' = [listing EXCEPT ![c] = new]
      /\ contended' = IF idle /\ Inside(k) # {} THEN contended \cup {k} ELSE contended
      /\ UNCHANGED <<clock, hits, table, call, admitted, refusedAt>>
  <2>1. call[c].step = "list" /\ table[k] # None
    BY DEF Examine, Live
  <2>2. listing' = [listing EXCEPT ![c] = new]
    BY DEF Examine
  <2>3. /\ contended' = IF idle /\ Inside(k) # {} THEN contended \cup {k} ELSE contended
        /\ UNCHANGED <<clock, hits, table, call, admitted, refusedAt>>
    BY DEF Examine
  <2> QED
    BY <2>1, <2>2, <2>3
<1>2. /\ new \in [began: SUBSET Key, seen: SUBSET Key, idle: SUBSET Key]
      /\ new.idle = IF idle THEN listing[c].idle \cup {k} ELSE listing[c].idle
      /\ listing' \in [Thread -> [began: SUBSET Key, seen: SUBSET Key, idle: SUBSET Key]]
  BY <1>1 DEF RateInv, RatesTyped
<1>3. call[c].now = clock
  BY <1>1, CallShape
<1> HIDE DEF new
<1>4. /\ \A l \in Key : l # k => HeldAsIdle(l)' = HeldAsIdle(l)
      /\ ~idle => HeldAsIdle(k)' = HeldAsIdle(k)
  BY <1>1, <1>2 DEF HeldAsIdle, RateInv, RatesTyped
<1>5. /\ RatesTyped' /\ Owners' /\ \A l \in Key : Inside(l)' \subseteq Inside(l)
      /\ \A l \in Key \ contended : Exact(l)' /\ RefusedRight(l)'
  BY <1>1, <1>2, Walking
<1>6. ASSUME NEW l \in Key \ contended' PROVE StillIdle(l)'
  <2>1. l \in Key \ contended /\ Exact(l) /\ StillIdle(l)
    BY <1>1, <1>6 DEF RateInv
  <2>2. CASE l # k \/ ~idle
    BY <1>1, <1>4, <1>5, <2>1, <2>2, IdleStays
  <2>3. CASE l = k /\ idle
    <3>1. Inside(k) = {}
      BY <1>1, <1>6, <2>3
    <3>2. AllLeft(k)
      BY <1>1, <1>3, <2>1, <2>3, IdleLeft
    <3> QED
      BY <1>1, <1>5, <2>3, <3>1, <3>2 DEF StillIdle, AllLeft, Left
  <2> QED
    BY <2>2, <2>3
<1> QED
  BY <1>1, <1>5, <1>6 DEF RateInv

\* Nothing of a bucket dropped as idle is in the window.
LEMMA DropIdleKeeps ==
  ASSUME RateInv, NEW c \in Thread, NEW k \in Key, DropIdle(c, k) PROVE RateInv'
<1> DEFINE new == [listing[c] EXCEPT !.idle = @ \ {k}]
<1>1. /\ call[c].step # "rest" /\ k \in listing[c].idle
      /\ table' = [table EXCEPT ![k] = None]
      /\ listing' = [listing EXCEPT ![c] = new]
      /\ UNCHANGED <<clock, hits, call, admitted, contended, refusedAt>>
  <2>1. call[c].step = "drop"
    BY DEF DropIdle
  <2>2. listing' = [listing EXCEPT ![c] = new]
    BY DEF DropIdle
  <2>3. /\ k \in listing[c].idle /\ table' = [table EXCEPT ![k] = None]
        /\ UNCHANGED <<clock, hits, call, admitted, contended, refusedAt>>
    BY DEF DropIdle
  <2> QED
    BY <2>1, <2>2, <2>3
<1>2. /\ table \in [Key -> (1 .. Len(hits)) \cup {None}] /\ clock \in Nat
      /\ table'[k] = None /\ \A l \in Key \ {k} : table'[l] = table[l]
      /\ admitted \in [Key -> Seq(Nat)]
  BY <1>1 DEF RateInv, RatesTyped
<1>3. /\ new \in [began: SUBSET Key, seen: SUBSET Key, idle: SUBSET Key]
      /\ new.idle = listing[c].idle \ {k}
      /\ listing' \in [Thread -> [began: SUBSET Key, seen: SUBSET Key, idle: SUBSET Key]]
  BY <1>1 DEF RateInv, RatesTyped
<1> HIDE DEF new
<1>4. \A l \in Key : HeldAsIdle(l)' \subseteq HeldAsIdle(l) /\ Inside(l)' = Inside(l)
  BY <1>1, <1>3 DEF HeldAsIdle, Inside, RateInv, RatesTyped
<1>5. RatesTyped'
  BY <1>1, <1>2, <1>3 DEF RateInv, RatesTyped, Dated
<1>6. Owners'
  <2>1. \A e \in Thread : call[e].step # "rest" => call[e].deque # None
    <3>1. \A e \in Thread : call[e].step # "rest" => call[e].deque \in Nat
      BY DEF RateInv, RatesTyped
    <3> QED
      BY <3>1, ThrottleAssumption
  <2> QED
    BY <1>1, <1>2, <2>1 DEF RateInv, Owners
<1>7. ASSUME NEW l \in Key \ contended PROVE Exact(l)' /\ RefusedRight(l)' /\ StillIdle(l)'
  <2>1. Exact(l) /\ RefusedRight(l) /\ StillIdle(l)
    BY DEF RateInv
  <2>2. RefusedRight(l)'
    BY <1>1, <2>1 DEF RefusedRight
  <2>3. StillIdle(l)'
    BY <1>1, <1>4, <2>1, IdleStays
  <2>4. CASE l # k
    <3>1. \A e \in Thread : e \in Inside(l) \/ e \in Inside(l)' => call'[e] = call[e]
      BY <1>1
    <3>2. table'[l] = table[l]
      BY <1>2, <2>4
    <3> QED
      BY <1>1, <2>1, <2>2, <2>3, <3>1, <3>2, KeyStays
  <2>5. CASE l = k
    <3>1. Inside(k) = {} /\ AllLeft(k)
      BY <1>1, <2>1, <2>5 DEF StillIdle, HeldAsIdle
    <3>2. Deque(k)' = <<>> /\ Inside(k)' = {}
      BY <1>2, <1>4, <3>1 DEF Deque
    <3> DEFINE a == admitted[k]
    <3>3. a \in Seq(Nat) /\ \A i \in 1 .. Len(a) : Left(clock, a[i])
      BY <1>2, <3>1 DEF AllLeft
    <3>4. Len(<<>>) = 0
      OBVIOUS
    <3> HIDE DEF a
    <3>5. HoldsTheLast(<<>>, a, clock)
      BY <3>3, <3>4 DEF HoldsTheLast
    <3>6. (HoldsTheLast(Deque(k), admitted[k], clock) /\ Spread(admitted[k]))'
      BY <1>1, <2>1, <2>5, <3>2, <3>5 DEF a, Exact, HoldsTheLast, Spread, InRange, Left
    <3>7. /\ (\A e, f \in Inside(k) : e = f)'
          /\ (\A e \in Inside(k) : call[e].deque = table[k] /\ Found(call[e], Deque(k)))'
      BY <3>2
    <3> QED
      BY <2>2, <2>3, <2>5, <3>6, <3>7 DEF Exact
  <2> QED
    BY <2>2, <2>3, <2>4, <2>5
<1> QED
  BY <1>1, <1>5, <1>6, <1>7 DEF RateInv

\* What has left the window stays out of it.
LEMMA TickKeeps == ASSUME RateInv, ClockTicks PROVE RateInv'
<1>1. /\ clock < MaxClock /\ clock' = clock + 1 /\ \A c \in Thread : call[c].step = "rest"
      /\ refusedAt' = None /\ UNCHANGED <<hits, table, call, listing, admitted, contended>>
  BY DEF ClockTicks
<1>2. /\ clock \in 0 .. MaxClock /\ MaxClock \in Nat /\ admitted \in [Key -> Seq(Nat)]
      /\ \A k \in Key : Dated(admitted[k], clock)
  BY ThrottleAssumption DEF RateInv, RatesTyped
<1>3. \A k \in Key : Dated(admitted[k], clock + 1)
  <2>1. ASSUME NEW k \in Key PROVE Dated(admitted[k], clock + 1)
    <3> DEFINE a == admitted[k]
    <3>1. a \in Seq(Nat) /\ Dated(a, clock)
      BY <1>2
    <3> HIDE DEF a
    <3>2. Dated(a, clock + 1)
      BY <1>2, <3>1 DEF Dated
    <3> QED
      BY <3>2 DEF a
  <2> QED
    BY <2>1
<1>4. RatesTyped'
  BY <1>1, <1>2, <1>3 DEF RateInv, RatesTyped, Dated
<1>5. Owners'
  BY <1>1 DEF RateInv, Owners
<1>6. ASSUME NEW k \in Key \ contended' PROVE Exact(k)' /\ RefusedRight(k)' /\ StillIdle(k)'
  <2>1. k \in Key \ contended /\ Exact(k) /\ StillIdle(k)
    BY <1>1, <1>6 DEF RateInv
  <2>2. Inside(k)' = {} /\ Deque(k)' = Deque(k)
    BY <1>1 DEF Inside, Deque
  <2>3. HoldsTheLast(Deque(k), admitted[k], clock + 1)
    <3> DEFINE q == Deque(k)
               a == admitted[k]
    <3>1. /\ HoldsTheLast(q, a, clock) /\ a \in Seq(Nat) /\ Window \in Nat
          /\ (Len(q) \in Nat)
      <4>1. q \in Seq(Nat)
        <5>1. <<>> \in Seq(Nat)
          OBVIOUS
        <5> QED
          BY <2>1, <5>1 DEF Deque, RateInv, RatesTyped
      <4> QED
        BY <1>2, <2>1, <4>1, ThrottleAssumption DEF Exact
    <3> HIDE DEF q, a
    <3>2. \A i \in 1 .. Len(a) - Len(q) : i \in 1 .. Len(a) /\ a[i] \in Nat /\ Left(clock, a[i])
      BY <3>1 DEF HoldsTheLast
    <3>3. \A i \in 1 .. Len(a) - Len(q) : Left(clock + 1, a[i])
      BY <1>2, <3>1, <3>2 DEF Left
    <3>4. HoldsTheLast(q, a, clock + 1)
      BY <3>1, <3>3 DEF HoldsTheLast
    <3> QED
      BY <3>4 DEF q, a
  <2>4. (HoldsTheLast(Deque(k), admitted[k], clock) /\ Spread(admitted[k]))'
    BY <1>1, <2>1, <2>2, <2>3 DEF Exact, HoldsTheLast, Spread, InRange, Left
  <2>5. /\ (\A e, f \in Inside(k) : e = f)'
        /\ (\A e \in Inside(k) : call[e].deque = table[k] /\ Found(call[e], Deque(k)))'
    BY <2>2
  <2>6. StillIdle(k)'
    <3> SUFFICES ASSUME HeldAsIdle(k) # {} PROVE AllLeft(k)'
      BY <1>1, <2>2 DEF StillIdle, HeldAsIdle
    <3>1. AllLeft(k) /\ admitted[k] \in Seq(Nat) /\ Window \in Nat
      BY <1>2, <2>1, ThrottleAssumption DEF StillIdle
    <3> QED
      BY <1>1, <1>2, <3>1 DEF AllLeft, Left
  <2> QED
    BY <1>1, <2>4, <2>5, <2>6 DEF Exact, RefusedRight
<1> QED
  BY <1>4, <1>5, <1>6 DEF RateInv

\* No bucket, no call, no admission.
LEMMA RateInitInv == ASSUME ThrottleInit PROVE RateInv
<1>1. /\ clock = 0 /\ hits = <<>> /\ table = [k \in Key |-> None]
      /\ call = [c \in Thread |-> AtRest] /\ admitted = [k \in Key |-> <<>>]
      /\ listing = [c \in Thread |-> NoList]
      /\ contended = {} /\ refusedAt = None
  BY DEF ThrottleInit
<1>2. <<>> \in Seq(Nat) /\ <<>> \in Seq(Seq(Nat)) /\ Len(<<>>) = 0
  OBVIOUS
<1>3. RatesTyped
  BY <1>1, <1>2, ThrottleAssumption DEF RatesTyped, Dated, AtRest, NoList
<1>4. Owners
  BY <1>1 DEF Owners, AtRest
<1>5. ASSUME NEW k \in Key PROVE Exact(k) /\ RefusedRight(k) /\ StillIdle(k)
  <2>1. Deque(k) = <<>> /\ Inside(k) = {} /\ admitted[k] = <<>> /\ HeldAsIdle(k) = {}
    BY <1>1 DEF Deque, Inside, AtRest, HeldAsIdle, NoList
  <2>2. HoldsTheLast(<<>>, <<>>, clock) /\ Spread(<<>>)
    BY <1>2 DEF HoldsTheLast, Spread
  <2> QED
    BY <1>1, <2>1, <2>2 DEF Exact, RefusedRight, StillIdle
<1> QED
  BY <1>3, <1>4, <1>5 DEF RateInv

\* The statements of all the calls, and the clock.
LEMMA RateStep == ASSUME RateInv, [ThrottleNext]_throttlevars PROVE RateInv'
<1>1. CASE UNCHANGED throttlevars
  <2>1. UNCHANGED <<clock, hits, table, call, listing, admitted, contended, refusedAt>>
    BY <1>1 DEF throttlevars
  <2>2. RatesTyped' /\ Owners'
    BY <2>1 DEF RateInv, RatesTyped, Dated, Owners
  <2>3. ASSUME NEW k \in Key \ contended PROVE Exact(k)' /\ RefusedRight(k)' /\ StillIdle(k)'
    <3>1. HeldAsIdle(k)' = HeldAsIdle(k) /\ Inside(k)' = Inside(k)
      BY <2>1 DEF HeldAsIdle, Inside
    <3> QED
      BY <2>1, <3>1, KeyStays, IdleStays DEF RateInv, RefusedRight
  <2> QED
    BY <2>1, <2>2, <2>3 DEF RateInv
<1> QED
  BY <1>1, EnterKeeps, LookKeeps, PopLeftKeeps, CountKeeps, AppendKeeps, WalkKeeps,
     ExamineKeeps, DropIdleKeeps, TickKeeps
  DEF ThrottleNext

\* What the deques hold, counted: both halves of LimitIsExact.
LEMMA Counted ==
  ASSUME RateInv, NEW k \in Key \ contended
  PROVE  /\ \A i \in DOMAIN admitted[k] : InWindow(k, admitted[k][i]) <= Limit
         /\ refusedAt # None => (refusedAt[1] = k => InWindow(k, refusedAt[2]) >= Limit)
<1> DEFINE a == admitted[k]
           Spanned(now) == {i \in DOMAIN a : InRange(a, i, now)}
<1>1. a \in Seq(Nat) /\ Spread(a) /\ RefusedRight(k) /\ Limit \in Nat \ {0}
  BY ThrottleAssumption DEF RateInv, RatesTyped, Exact
<1>2. DOMAIN a = 1 .. Len(a) /\ Len(a) \in Nat
  BY <1>1
<1>3. \A now : InWindow(k, now) = Cardinality(Spanned(now))
  BY DEF InWindow, InRange
<1> HIDE DEF a
<1>4. ASSUME NEW low \in Nat
      PROVE  LET s == low .. low + Limit - 1 IN IsFiniteSet(s) /\ Cardinality(s) = Limit
  <2>1. low \in Int /\ low + Limit - 1 \in Int /\ ~(low > low + Limit - 1)
        /\ (low + Limit - 1) - low + 1 = Limit
    BY <1>1
  <2> QED
    BY <2>1, FS_Interval
<1>5. ASSUME NEW i \in DOMAIN a PROVE Cardinality(Spanned(a[i])) <= Limit
  <2>1. PICK low \in Nat : \A j \in 1 .. Len(a) : InRange(a, j, a[i]) => j \in low .. low + Limit - 1
    BY <1>1, <1>2, <1>5 DEF Spread
  <2>2. Spanned(a[i]) \in SUBSET (low .. low + Limit - 1)
    BY <1>2, <2>1
  <2> HIDE DEF Spanned
  <2> QED
    <3> DEFINE S == low .. low + Limit - 1
               T == Spanned(a[i])
    <3>1. IsFiniteSet(S) /\ Cardinality(S) = Limit /\ T \in SUBSET S
      BY <1>4, <2>2
    <3> HIDE DEF S, T
    <3>2. Cardinality(T) <= Limit
      BY <3>1, FS_Subset
    <3> QED
      BY <3>2 DEF T
<1>6. ASSUME refusedAt # None, refusedAt[1] = k PROVE Cardinality(Spanned(refusedAt[2])) >= Limit
  <2>1. PICK low \in Nat : \A j \in low .. low + Limit - 1 :
          j \in 1 .. Len(a) /\ InRange(a, j, refusedAt[2])
    BY <1>1, <1>6 DEF RefusedRight, a
  <2>2. low .. low + Limit - 1 \in SUBSET Spanned(refusedAt[2])
    BY <1>2, <2>1
  <2>3. Spanned(refusedAt[2]) \in SUBSET (1 .. Len(a)) /\ IsFiniteSet(1 .. Len(a))
    BY <1>2, FS_Interval
  <2> HIDE DEF Spanned
  <2>4. IsFiniteSet(Spanned(refusedAt[2]))
    BY <2>3, FS_Subset
  <2> QED
    <3> DEFINE S == low .. low + Limit - 1
               T == Spanned(refusedAt[2])
    <3>1. Cardinality(S) = Limit /\ IsFiniteSet(T) /\ S \in SUBSET T
      BY <1>4, <2>2, <2>4
    <3> HIDE DEF S, T
    <3>2. Limit <= Cardinality(T) /\ Cardinality(T) \in Nat
      BY <3>1, FS_Subset, FS_CardinalityType
    <3> QED
      BY <1>1, <3>2 DEF T
<1> QED
  BY <1>3, <1>5, <1>6 DEF a

\* The deques, the table that finds them and the calls keep their shape.
THEOREM RatesKeepTypes == ThrottleSpec => []ThrottleTypeOK
<1>1. ThrottleInit => RateInv
  BY RateInitInv
<1>2. RateInv /\ [ThrottleNext]_throttlevars => RateInv'
  BY RateStep
<1>3. RateInv => ThrottleTypeOK
  BY DEF RateInv, RatesTyped, ThrottleTypeOK, AtRest, UnderWay
<1> QED
  BY <1>1, <1>2, <1>3, PTL DEF ThrottleSpec

\* A key whose calls do not overlap, and that is not called while it is listed as
\* idle, is let through exactly up to the limit, however else the calls of other
\* keys clear the table (throttle_key and _rate_limit of auth.py).
THEOREM ExactLimit == ThrottleSpec => []LimitIsExact
<1>1. ThrottleInit => RateInv
  BY RateInitInv
<1>2. RateInv /\ [ThrottleNext]_throttlevars => RateInv'
  BY RateStep
<1>3. RateInv => LimitIsExact
  BY Counted DEF LimitIsExact
<1> QED
  BY <1>1, <1>2, <1>3, PTL DEF ThrottleSpec

-----------------------------------------------------------------------------
(* The control plane as a whole. *)

\* A step of one part of the control plane is a step of its component and none of
\* another's: no route of auth.py, routes_auth.py, devices.py, plates.py,
\* routes_admin.py or crm_provider.py writes the tables of two.  So the theorems
\* about each component hold of the whole.
THEOREM OfficeRunsItsParts == OfficeSpec => Spec /\ DSpec /\ CrmSpec /\ PlatesSpec /\ ThrottleSpec
<1> DEFINE step == [OfficeNext]_<<part, vars, dvars, crmvars, platevars, throttlevars>>
<1>1. OfficeInit => Init /\ DInit /\ CrmInit /\ PlatesInit /\ ThrottleInit
  BY DEF OfficeInit
<1>2. step => [Next]_vars
  BY DEF OfficeNext
<1>3. step => [DNext]_dvars
  BY DEF OfficeNext
<1>4. step => [CrmNext]_crmvars
  BY DEF OfficeNext
<1>5. step => [PlatesNext]_platevars
  BY DEF OfficeNext
<1>6. step => [ThrottleNext]_throttlevars
  BY DEF OfficeNext
<1> QED
  BY <1>1, <1>2, <1>3, <1>4, <1>5, <1>6, PTL
     DEF OfficeSpec, Spec, DSpec, CrmSpec, PlatesSpec, ThrottleSpec

\* Whatever part of the control plane moves, its tables and the requests under
\* way keep their shape, and the other parts theirs.
THEOREM OfficeTyped == OfficeSpec => []OfficeTypeOK
<1>1. TypeOK /\ DTypeOK /\ CrmTypeOK /\ PlatesTypeOK /\ ThrottleTypeOK => OfficeTypeOK
  BY DEF OfficeTypeOK
<1> QED
  BY <1>1, OfficeRunsItsParts, AccountsTyped, FleetTyped, CrmTyped, PlatesTyped, RatesKeepTypes, PTL
=============================================================================
