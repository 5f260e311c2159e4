------------------------------- MODULE Accounts -------------------------------
(* The users table, the tokens in circulation, and the requests that create *)
(* users, log in, and change users on behalf of an admin.  Each request has *)
(* a session that get_current_admin and the service share.                  *)
EXTENDS Naturals, FiniteSets

CONSTANTS
  UserIds, InitialUsers,   \* ids, and those of the rows there at the start
  Emails, Names,
  Requests,                \* slots for concurrent requests
  None,
  MaxTokens                \* bound on the tokens in circulation

ASSUME AccountsAssumption ==
  /\ InitialUsers \subseteq UserIds
  /\ None \notin UserIds
  /\ MaxTokens \in Nat

VARIABLES
  users,    \* rows of users, a function whose domain is the stored ids
  tokens,   \* tokens that have not expired
  session   \* what each request is doing

vars == <<users, tokens, session>>

-----------------------------------------------------------------------------
UserRole == {"USER", "ADMIN"}

User == [email: Emails, name: Names, role: UserRole, is_active: BOOLEAN]

Token == [sub: UserIds, role: UserRole]

AdminOps == {"update_user", "update_role", "delete_user"}

(* The ORM instances a session has loaded: caller_row and row.  user, email *)
(* and arg are what the client sends.  revoked, a history: the caller was   *)
(* deleted or made a USER after the request had been let in.                *)
Request == [op: AdminOps \cup {"create_user", None},
            pc: {"idle", "authenticate", "find", "commit"},
            token: Token \cup {None}, user: UserIds \cup {None}, email: Emails \cup {None},
            arg: Names \cup UserRole \cup {None},
            caller_row: User \cup {None}, row: User \cup {None}, revoked: BOOLEAN]

Idle == [op |-> None, pc |-> "idle", token |-> None, user |-> None, email |-> None,
         arg |-> None, caller_row |-> None, row |-> None, revoked |-> FALSE]

At(r, pc) == session[r].pc = pc

Finish(r) == session' = [session EXCEPT ![r] = Idle]

Active(u) == u \in DOMAIN users /\ users[u].is_active

IsAdmin(u) == Active(u) /\ users[u].role = "ADMIN"

FindById(u) == IF Active(u) THEN users[u] ELSE None

FindByEmail(email) == {u \in DOMAIN users : Active(u) /\ users[u].email = email}

-----------------------------------------------------------------------------
(* Registration *)

(* find_by_email sees the active users alone. *)
CreateUser(r, u, email, name) ==
  /\ At(r, "idle")
  /\ u \notin DOMAIN users
  /\ \A q \in Requests : session[q].op = "create_user" => session[q].user # u
  /\ FindByEmail(email) = {}
  /\ session' = [session EXCEPT ![r] = [Idle EXCEPT
       !.op = "create_user", !.pc = "commit", !.user = u, !.email = email, !.arg = name]]
  /\ UNCHANGED <<users, tokens>>

(* Faulty variant: whoever registers is an admin.                           *)
NewUser_Admin(r) ==
  [email |-> session[r].email, name |-> session[r].arg, role |-> "ADMIN", is_active |-> TRUE]

NewUser(r) ==
  [email |-> session[r].email, name |-> session[r].arg, role |-> "USER", is_active |-> TRUE]

(* Faulty variant: a table without the constraint.                          *)
CommitCreateUser_NotUnique(r) ==
  /\ At(r, "commit")
  /\ session[r].op = "create_user"
  /\ users' = [u \in DOMAIN users \cup {session[r].user} |->
                 IF u = session[r].user THEN NewUser(r) ELSE users[u]]
  /\ Finish(r)
  /\ UNCHANGED tokens

(* UNIQUE(email) covers deleted users too: IntegrityError, which no handler *)
(* expects.                                                                 *)
CommitCreateUser(r) ==
  /\ At(r, "commit")
  /\ session[r].op = "create_user"
  /\ IF \E u \in DOMAIN users : users[u].email = session[r].email
     THEN UNCHANGED users
     ELSE users' = [u \in DOMAIN users \cup {session[r].user} |->
                      IF u = session[r].user THEN NewUser(r) ELSE users[u]]
  /\ Finish(r)
  /\ UNCHANGED tokens

(* One SELECT; an unknown email, or the wrong password, issues nothing. *)
Login(email) ==
  /\ tokens' = tokens \cup {[sub |-> u, role |-> users[u].role] : u \in FindByEmail(email)}
  /\ Cardinality(tokens') <= MaxTokens
  /\ UNCHANGED <<users, session>>

(* exp has passed. *)
Expire(token) ==
  /\ tokens' = tokens \ {token}
  /\ UNCHANGED <<users, session>>

-----------------------------------------------------------------------------
(* Administration *)

(* decode_token accepts the token. *)
Receive(r, op, token, u, arg) ==
  /\ At(r, "idle")
  /\ token \in tokens
  /\ session' = [session EXCEPT ![r] = [Idle EXCEPT
       !.op = op, !.pc = "authenticate", !.token = token, !.user = u, !.arg = arg]]
  /\ UNCHANGED <<users, tokens>>

Admit(r, row) ==
  session' = [session EXCEPT ![r] = [@ EXCEPT !.pc = "find", !.caller_row = row]]

(* Faulty variant: the role the token was issued for is believed.           *)
Authenticate_ByToken(r) ==
  LET row == FindById(session[r].token.sub) IN
  /\ At(r, "authenticate")
  /\ IF row # None /\ session[r].token.role = "ADMIN" THEN Admit(r, row) ELSE Finish(r)
  /\ UNCHANGED <<users, tokens>>

(* get_current_user and get_current_admin: the role is the row's. *)
Authenticate(r) ==
  LET row == FindById(session[r].token.sub) IN
  /\ At(r, "authenticate")
  /\ IF row # None /\ row.role = "ADMIN" THEN Admit(r, row) ELSE Finish(r)
  /\ UNCHANGED <<users, tokens>>

(* Faulty variant: no 404.                                                  *)
GetById_Unchecked(r) ==
  /\ At(r, "find")
  /\ session' = [session EXCEPT ![r] = [@ EXCEPT
       !.pc = "commit", !.row = FindById(session[r].user)]]
  /\ UNCHANGED <<users, tokens>>

(* get_by_id.  The query looks for an active row; but when it is the        *)
(* caller's, the session answers with the instance it has, as it was.       *)
GetById(r) ==
  LET row == FindById(session[r].user) IN
  /\ At(r, "find")
  /\ IF row = None
     THEN Finish(r)
     ELSE session' = [session EXCEPT ![r].pc = "commit", ![r].row =
            IF session[r].user = session[r].token.sub THEN session[r].caller_row ELSE row]
  /\ UNCHANGED <<users, tokens>>

(* What the handler assigns to the instance. *)
Assigned(r) ==
  LET s == session[r] IN
  CASE s.op = "update_user" -> [s.row EXCEPT !.name = s.arg]
    [] s.op = "update_role" -> [s.row EXCEPT !.role = s.arg]
    [] s.op = "delete_user" -> [s.row EXCEPT !.is_active = FALSE]

(* Faulty variant: every column of the instance is written.                 *)
Flushed_AllColumns(r) == Assigned(r)

(* Faulty variant: the same, but for a deletion.                            *)
Flushed_KeepsDeletion(r) ==
  [Assigned(r) EXCEPT !.is_active = @ /\ users[session[r].user].is_active]

(* The flush sets the columns whose values differ from those loaded. *)
Flushed(r) ==
  [c \in DOMAIN session[r].row |->
     IF Assigned(r)[c] # session[r].row[c] THEN Assigned(r)[c]
     ELSE users[session[r].user][c]]

(* user_repository.update commits. *)
CommitUpdate(r) ==
  LET u == session[r].user
      row == Flushed(r)
      loses == IsAdmin(u) /\ ~(row.is_active /\ row.role = "ADMIN")
  IN
  /\ At(r, "commit")
  /\ session[r].op \in AdminOps
  /\ users' = [users EXCEPT ![u] = row]
  /\ session' = [q \in Requests |->
       IF q = r THEN Idle
       ELSE [session[q] EXCEPT !.revoked =
               @ \/ (loses /\ session[q].caller_row # None /\ session[q].token.sub = u)]]
  /\ UNCHANGED tokens

(* An exception, a lost connection or a crash. *)
Fail(r) ==
  /\ ~At(r, "idle")
  /\ Finish(r)
  /\ UNCHANGED <<users, tokens>>

-----------------------------------------------------------------------------
(* Rows that earlier requests have left, and the seed of the migration: any *)
(* of the users may be an admin, or none.                                   *)
Init ==
  /\ \E email \in [InitialUsers -> Emails], role \in [InitialUsers -> UserRole],
        name \in Names :
       /\ \A u, v \in InitialUsers : email[u] = email[v] => u = v
       /\ users = [u \in InitialUsers |-> [email |-> email[u], name |-> name,
                                           role |-> role[u], is_active |-> TRUE]]
  /\ tokens = {}
  /\ session = [r \in Requests |-> Idle]

Start(r) ==
  \/ \E u \in UserIds, email \in Emails, name \in Names : CreateUser(r, u, email, name)
  \/ \E token \in tokens, u \in UserIds :
       \/ \E name \in Names : Receive(r, "update_user", token, u, name)
       \/ \E role \in UserRole : Receive(r, "update_role", token, u, role)
       \/ Receive(r, "delete_user", token, u, None)

Step(r) == CommitCreateUser(r) \/ Authenticate(r) \/ GetById(r) \/ CommitUpdate(r)

Next ==
  \/ \E r \in Requests : Start(r) \/ Step(r) \/ Fail(r)
  \/ \E email \in Emails : Login(email)
  \/ \E token \in tokens : Expire(token)

Spec == Init /\ [][Next]_vars

-----------------------------------------------------------------------------
(* Properties *)

(* Rows and tokens have their types, a token names a stored user, and a     *)
(* request that is to write has loaded an active row.                       *)
TypeOK ==
  /\ DOMAIN users \subseteq UserIds /\ users \in [DOMAIN users -> User]
  /\ tokens \subseteq [sub: DOMAIN users, role: UserRole]
  /\ session \in [Requests -> Request]
  /\ \A r \in Requests :
       At(r, "commit") /\ session[r].op \in AdminOps =>
         session[r].row \in User /\ session[r].row.is_active

(* No two users share an email, although requests that found it free insert *)
(* it one after the other, and deleted users keep theirs.                   *)
EmailsUnique ==
  \A u, v \in DOMAIN users : users[u].email = users[v].email => u = v

(* A request in the service runs for somebody who is an active admin at     *)
(* that moment, or was when it was let in and lost that while it ran;       *)
(* never on the word of an old token.                                       *)
RevocationIsImmediate ==
  \A r \in Requests :
    At(r, "find") \/ (At(r, "commit") /\ session[r].op \in AdminOps) =>
      IsAdmin(session[r].token.sub) \/ session[r].revoked

(* What a request has read, or was sent, by its step. *)
RequestInv(r) ==
  LET s == session[r] IN
  /\ At(r, "commit") /\ s.op = "create_user" =>
       /\ s.user \in UserIds \ DOMAIN users
       /\ s.email \in Emails /\ s.arg \in Names
       /\ \A q \in Requests \ {r} :
            At(q, "commit") /\ session[q].op = "create_user" => session[q].user # s.user
  /\ s.pc \in {"authenticate", "find"} => s.op \in AdminOps
  /\ s.pc \in {"authenticate", "find", "commit"} /\ s.op \in AdminOps =>
       /\ s.token \in [sub: DOMAIN users, role: UserRole]
       /\ s.op = "update_user" => s.arg \in Names
       /\ s.op = "update_role" => s.arg \in UserRole
       /\ ~At(r, "authenticate") =>
            s.caller_row \in User \ {None} /\ s.caller_row.is_active
       /\ At(r, "commit") => s.user \in DOMAIN users

(* The inductive invariant of the proofs: a sign-up has an id of its own, a *)
(* request in the service has found its caller active, and one that is to   *)
(* write names a stored user.                                               *)
IInv ==
  /\ TypeOK
  /\ EmailsUnique
  /\ RevocationIsImmediate
  /\ \A r \in Requests : RequestInv(r)

(* A deleted user stays deleted, although requests that loaded the user     *)
(* before, the user's own ones among them, commit their changes later.      *)
DeletedUsersStayDeleted ==
  [][\A u \in DOMAIN users : u \in DOMAIN users' /\ (users'[u].is_active => users[u].is_active)]_vars

(* A stored user's role changes only as an admin asked: by the commit of an *)
(* update_role of that user, to the role it was sent, for a caller who is   *)
(* an admin or was when let in.  Updates and deletions that loaded the user *)
(* before, their own included, neither undo a promotion nor a demotion.     *)
RolesChangeByOrder ==
  [][\A u \in DOMAIN users : users'[u].role # users[u].role =>
       \E r \in Requests :
         /\ At(r, "commit") /\ session'[r] = Idle
         /\ session[r].op = "update_role"
         /\ session[r].user = u /\ session[r].arg = users'[u].role
         /\ IsAdmin(session[r].token.sub) \/ session[r].revoked]_vars

(* Nothing keeps the last admin from being deleted or demoted, and admins   *)
(* can do so to each other at once.  Then, when the requests of former      *)
(* admins have ended, nobody becomes an admin again.                        *)
NoAdminLeft ==
  /\ \A u \in UserIds : ~IsAdmin(u)
  /\ \A r \in Requests : session[r].caller_row = None

LockoutIsPermanent == [][NoAdminLeft => NoAdminLeft']_vars
=============================================================================
