------------------------------ MODULE Accounts ------------------------------
(***************************************************************************)
(* People, their sessions and their password links, as identity.py, the    *)
(* routes of routes_auth.py and the user routes of routes_admin.py keep    *)
(* them.  Every db.execute and db.query_one commits by itself, so a call   *)
(* is a step machine: what it read stays in `calls' while other calls run. *)
(* A call's leading reads, the principal's among them, are one step.       *)
(***************************************************************************)
EXTENDS NoValue, Integers, FiniteSets

CONSTANTS
  User,                 \* ids of accounts to hand out
  MaxSessions,          \* bound on the sessions alive at once
  MaxLinks,             \* bound on the links ever minted
  Email, Password,      \* what people may type
  Tenant,               \* retailers
  Role,                 \* roles that requests name
  Changes,              \* bodies of PATCH /users, None in the fields left out
  Founder,              \* the first account, made by the seed
  Caller,               \* requests under way at once
  Faults,               \* subset of {"lapse", "unsent"}
  Gone                  \* deleted; what is not handed out yet is None

VARIABLES
  users,     \* the table users
  sessions,  \* the table auth_tokens, a set: two equal sessions are not told apart
  links,     \* the table password_resets
  calls      \* the requests under way

Link == 1..MaxLinks

vars == <<users, sessions, links, calls>>

ROLES == {"associate", "manager", "client_admin", "cue_admin"}
Rank == [r \in ROLES |-> CASE r = "associate" -> 0 [] r = "manager" -> 1
                           [] r = "client_admin" -> 2 [] r = "cue_admin" -> 3]

Rows(table) == {i \in DOMAIN table : table[i] \notin {None, Gone}}
Free(table) == {i \in DOMAIN table : table[i] = None}

\* A session that is revoked or past expires_at is not told from one that never
\* was.  `by' and `late' are history: the password it was got with, and whether
\* the account had changed between the check of the password and the insert.
SessionRow == [user: User, by: Password, late: BOOLEAN]
\* A link that is used, past expires_at or never mailed opens nothing: Gone.
\* The kind, invite or reset, sets its length of life, and it lapses at any time
\* here.  `late' is history: another link of the account was minted between this
\* one's burn and its insert.
LinkRow == [user: User, late: BOOLEAN]
UserRow == [email: Email, role: ROLES, tenant: Tenant \cup {None},
            status: {"active", "disabled"}, password: Password \cup {None}]

ChangeRecord == [role: ROLES \cup {None}, status: {"active", "disabled", None},
                 password: Password \cup {None}]

ASSUME AccountsAssumption ==
  /\ None \notin User \cup Email \cup Password \cup Tenant \cup Role
  /\ {None, Gone} \cap (UserRow \cup LinkRow) = {} /\ Gone # None
  /\ Founder \in User /\ Role \subseteq ROLES /\ Changes \subseteq ChangeRecord
  /\ MaxSessions \in Nat /\ MaxLinks \in Nat

Idle == [op |-> "idle"]

Init ==
  /\ \E e \in Email, p \in Password :
       users = [u \in User |->
                  IF u = Founder
                  THEN [email |-> e, role |-> "cue_admin", tenant |-> None,
                        status |-> "active", password |-> p]
                  ELSE None]
  /\ sessions = {}
  /\ links = [l \in Link |-> None]
  /\ calls = [c \in Caller |-> Idle]

Begin(c, call) == calls[c] = Idle /\ calls' = [calls EXCEPT ![c] = call]
Go(c, at) == calls' = [calls EXCEPT ![c].at = at]
Finish(c) == calls' = [calls EXCEPT ![c] = Idle]
In(c, ops, at) == calls[c].op \in ops /\ calls[c].at = at

-----------------------------------------------------------------------------
(* Who may do what. *)

\* current_user: a live session of an active account.  The principal is a copy.
SignedIn == {u \in {s.user : s \in sessions} : users[u].status = "active"}
Principals == {users[u] : u \in SignedIn}

AtLeast(me, role) == Rank[me.role] >= Rank[role]

\* scope_tenant: staff name the tenant, everyone else gets their own.
ScopeTenant(me, asked) == IF me.role = "cue_admin" THEN asked ELSE me.tenant

\* The check of update_user and delete_user, and the one of resend_invite.
InReach(me, row) == me.role = "cue_admin" \/ row.tenant = me.tenant
Invitable(me, row) ==
  /\ me.role # "cue_admin" => row.role # "cue_admin" /\ row.tenant = me.tenant
  /\ AtLeast(me, row.role)

\* The constraint cue_staff_have_no_tenant of migration 001.
RoleFits(role, tenant) == (role = "cue_admin") <=> (tenant = None)

\* user_by_email
WithEmail(e) == {u \in Rows(users) : users[u].email = e}
\* The unique index on lower(email).
EmailTaken(e) == WithEmail(e) # {}

Revoked(u) == {s \in sessions : s.user # u}

LinksOf(u) == {l \in Rows(links) : links[l].user = u}

-----------------------------------------------------------------------------
(* Signing in and out. *)

\* authenticate(): the row is read and the password verified; nothing is held.
\* The last_login_at it then writes is read by nobody here and left out.
Authenticate(c) ==
  \E e \in Email, p \in Password : \E u \in WithEmail(e) :
    /\ users[u].password = p /\ users[u].status = "active"
    /\ Begin(c, [op |-> "login", at |-> "issue", user |-> u, by |-> p])
    /\ UNCHANGED <<users, sessions, links>>

Issued(u, p) ==
  [user |-> u, by |-> p,
   late |-> users[u].password # p \/ users[u].status # "active"]

\* issue_token(): the foreign key refuses a session of an account deleted meanwhile.
IssueToken(c) ==
  /\ In(c, {"login"}, "issue")
  /\ IF users[calls[c].user] = Gone
     THEN UNCHANGED sessions
     ELSE /\ Cardinality(sessions) < MaxSessions
          /\ sessions' = sessions \cup {Issued(calls[c].user, calls[c].by)}
  /\ Finish(c)
  /\ UNCHANGED <<users, links>>

Logout(s) ==
  /\ sessions' = sessions \ {s}
  /\ UNCHANGED <<users, links, calls>>

-----------------------------------------------------------------------------
(* Password links. *)

LinkCall(u) == [op |-> "link", at |-> "burn", user |-> u, seen |-> {}]

\* POST /auth/forgot answers 202 to anybody; only an active account gets a link.
Forgot(c) ==
  \E e \in Email : \E u \in WithEmail(e) :
    /\ users[u].status = "active"
    /\ Begin(c, LinkCall(u))
    /\ UNCHANGED <<users, sessions, links>>

\* POST /users/{id}/invite
ResendInvite(c) ==
  \E me \in Principals, u \in Rows(users) :
    /\ AtLeast(me, "client_admin") /\ Invitable(me, users[u])
    /\ Begin(c, LinkCall(u))
    /\ UNCHANGED <<users, sessions, links>>

\* issue_password_link(): earlier unused links are burned first.
Burned(u) == [l \in Link |-> IF l \in LinksOf(u) THEN Gone ELSE links[l]]

Burn(c) ==
  /\ In(c, {"link"}, "burn")
  /\ links' = Burned(calls[c].user)
  /\ calls' = [calls EXCEPT ![c].at = "mint", ![c].seen = LinksOf(calls[c].user)]
  /\ UNCHANGED <<users, sessions>>

Orphan_Kept(u) == FALSE
\* The foreign keys refuse a row of an account deleted meanwhile.
Orphan(u) == users[u] = Gone

\* The insert, and the mail that carries the token.  A send that fails, or a
\* service with no provider, is reported and not raised: the row stays.
Mint(c) ==
  /\ In(c, {"link"}, "mint")
  /\ LET u == calls[c].user IN
     IF Orphan(u)
     THEN UNCHANGED links
     ELSE \E l \in Free(links) :
            /\ \A k \in Free(links) : l <= k
            /\ \/ links' = [links EXCEPT ![l] =
                    [user |-> u, late |-> ~(LinksOf(u) \subseteq calls[c].seen)]]
               \/ "unsent" \in Faults /\ links' = [links EXCEPT ![l] = Gone]
  /\ Finish(c)
  /\ UNCHANGED <<users, sessions>>

\* redeem_password_link(): the read with its four refusals.
Redeem(c) ==
  \E l \in Rows(links), p \in Password :
    /\ users[links[l].user].status = "active"
    /\ Begin(c, [op |-> "redeem", at |-> "set", user |-> links[l].user, link |-> l,
                 password |-> p])
    /\ UNCHANGED <<users, sessions, links>>

\* Each of the three writes touches no row if the account has gone meanwhile.
SetPassword(c) ==
  /\ In(c, {"redeem"}, "set")
  /\ users' = IF users[calls[c].user] = Gone THEN users
              ELSE [users EXCEPT ![calls[c].user].password = calls[c].password]
  /\ Go(c, "mark")
  /\ UNCHANGED <<sessions, links>>

MarkUsed(c) ==
  /\ In(c, {"redeem"}, "mark")
  /\ links' = [links EXCEPT ![calls[c].link] = Gone]
  /\ Go(c, "revoke")
  /\ UNCHANGED <<users, sessions>>

-----------------------------------------------------------------------------
(* Administration. *)

\* create_user(): the roles, the tenant and the address are checked first.
CreateUser(c) ==
  \E me \in Principals, e \in Email, r \in Role, asked \in Tenant,
     p \in Password \cup {None} :
    LET tenant == IF r = "cue_admin" THEN None ELSE ScopeTenant(me, asked) IN
      /\ AtLeast(me, "client_admin") /\ AtLeast(me, r)
      /\ RoleFits(r, tenant)
      /\ WithEmail(e) = {}
      /\ Begin(c, [op |-> "create", at |-> "insert", email |-> e, role |-> r,
                   tenant |-> tenant, password |-> p])
      /\ UNCHANGED <<users, sessions, links>>

\* The insert, refused by the index if the address was taken meanwhile.  An
\* account with no password is sent an invitation.
InsertUser(c) ==
  /\ In(c, {"create"}, "insert")
  /\ LET new == calls[c] IN
     IF EmailTaken(new.email)
     THEN Finish(c) /\ UNCHANGED users
     ELSE \E u \in Free(users) :
            /\ users' = [users EXCEPT ![u] =
                 [email |-> new.email, role |-> new.role, tenant |-> new.tenant,
                  status |-> "active", password |-> new.password]]
            /\ calls' = [calls EXCEPT ![c] =
                 IF new.password = None THEN LinkCall(u) ELSE Idle]
  /\ UNCHANGED <<sessions, links>>

UpdateUser(c) ==
  \E me \in Principals, u \in Rows(users), change \in Changes :
    /\ AtLeast(me, "client_admin") /\ InReach(me, users[u])
    /\ change.role # None => AtLeast(me, change.role)
    /\ Begin(c, [op |-> "update", at |-> "write", user |-> u, change |-> change])
    /\ UNCHANGED <<users, sessions, links>>

Patched(row, change) ==
  [row EXCEPT !.role = IF change.role = None THEN @ ELSE change.role,
              !.status = IF change.status = None THEN @ ELSE change.status,
              !.password = IF change.password = None THEN @ ELSE change.password]

EndsSessions_OnlyPassword(change) == change.password # None
EndsSessions(change) == change.status = "disabled" \/ change.password # None

\* The UPDATE; the constraint refuses a role that does not go with the tenant.
WriteUser(c) ==
  /\ In(c, {"update"}, "write")
  /\ LET u == calls[c].user  change == calls[c].change IN
     IF users[u] = Gone \/ ~RoleFits(Patched(users[u], change).role, users[u].tenant)
     THEN Finish(c) /\ UNCHANGED users
     ELSE /\ users' = [users EXCEPT ![u] = Patched(@, change)]
          /\ IF EndsSessions(change) THEN Go(c, "revoke") ELSE Finish(c)
  /\ UNCHANGED <<sessions, links>>

\* delete_user(): nobody deletes the account they act with.
DeleteUser(c) ==
  \E own \in SignedIn, u \in Rows(users) :
      /\ AtLeast(users[own], "client_admin") /\ InReach(users[own], users[u])
      /\ u # own
      /\ Begin(c, [op |-> "delete", at |-> "revoke", user |-> u])
      /\ UNCHANGED <<users, sessions, links>>

\* revoke_all_for_user(), the last statement of a redemption and of an update,
\* the first of a deletion.
RevokeAll(c) ==
  /\ In(c, {"redeem", "update", "delete"}, "revoke")
  /\ sessions' = Revoked(calls[c].user)
  /\ IF calls[c].op = "delete" THEN Go(c, "delete") ELSE Finish(c)
  /\ UNCHANGED <<users, links>>

\* DELETE FROM users, which takes the sessions and links along.
Delete(c) ==
  /\ In(c, {"delete"}, "delete")
  /\ LET u == calls[c].user IN
     /\ users' = [users EXCEPT ![u] = Gone]
     /\ sessions' = Revoked(u)
     /\ links' = [l \in Link |-> IF l \in LinksOf(u) THEN Gone ELSE links[l]]
  /\ Finish(c)

-----------------------------------------------------------------------------
(* The world. *)

\* An hour passes, or a week; a session that ends by its age ends as in Logout.
LapseLink(l) ==
  /\ "lapse" \in Faults /\ l \in Rows(links)
  /\ links' = [links EXCEPT ![l] = Gone]
  /\ UNCHANGED <<users, sessions, calls>>

CallStep(c) ==
  \/ Authenticate(c) \/ IssueToken(c)
  \/ Forgot(c) \/ ResendInvite(c) \/ Burn(c) \/ Mint(c)
  \/ Redeem(c) \/ SetPassword(c) \/ MarkUsed(c)
  \/ CreateUser(c) \/ InsertUser(c) \/ UpdateUser(c) \/ WriteUser(c)
  \/ DeleteUser(c) \/ RevokeAll(c) \/ Delete(c)

Next ==
  \/ \E c \in Caller : CallStep(c)
  \/ \E s \in sessions : Logout(s)
  \/ \E l \in Link : LapseLink(l)

Spec == Init /\ [][Next]_vars

-----------------------------------------------------------------------------
(* Properties. *)

CallRecord ==
  {Idle}
  \cup [op: {"login"}, at: {"issue"}, user: User, by: Password]
  \cup [op: {"link"}, at: {"burn", "mint"}, user: User, seen: SUBSET Link]
  \cup [op: {"redeem"}, at: {"set", "mark", "revoke"}, user: User, link: Link,
        password: Password]
  \cup [op: {"create"}, at: {"insert"}, email: Email, role: ROLES,
        tenant: Tenant \cup {None}, password: Password \cup {None}]
  \cup [op: {"update"}, at: {"write", "revoke"}, user: User, change: Changes]
  \cup [op: {"delete"}, at: {"revoke", "delete"}, user: User]

\* The tables and the calls keep their shape, rows that refer to an account
\* refer to one that exists, and staff alone belong to no tenant.
TypeOK ==
  /\ users \in [User -> UserRow \cup {None, Gone}]
  /\ sessions \subseteq SessionRow
  /\ links \in [Link -> LinkRow \cup {None, Gone}]
  /\ calls \in [Caller -> CallRecord]
  /\ \A s \in sessions : s.user \in Rows(users)
  /\ \A l \in Rows(links) : links[l].user \in Rows(users)
  /\ \A u \in Rows(users) : RoleFits(users[u].role, users[u].tenant)

\* A change of u's account whose revocation is still to come.
Revoking(u) ==
  \E c \in Caller : /\ calls[c].op \in {"redeem", "update"}
                    /\ calls[c].user = u
                    /\ calls[c].at \in {"mark", "revoke"}

\* Setting a password or disabling an account ends its sessions.  The only
\* session that outlives the change is one whose login was past the check of
\* the password when the change was made.
SessionsAreEarned ==
  \A s \in sessions :
    ~s.late /\ ~Revoking(s.user)
      => users[s.user].password = s.by /\ users[s.user].status = "active"
=============================================================================
