---------------------------- MODULE AccountsProofs ----------------------------
(* Proofs about Accounts, for any numbers of users and requests: emails are *)
(* unique, the deleted stay deleted, former admins are not let in, and an   *)
(* application without admins stays without.                                *)
EXTENDS Accounts, TLAPS

-----------------------------------------------------------------------------
(* Lemmas about the helpers. *)

(* Finish empties the slot of one request. *)
LEMMA FinishEffect ==
  ASSUME session \in [Requests -> Request], NEW r \in Requests, Finish(r)
  PROVE  /\ session' \in [Requests -> Request]
         /\ session'[r] = Idle /\ \A q \in Requests \ {r} : session'[q] = session[q]
BY DEF Finish, Request, Idle

(* An empty slot has nothing to keep. *)
LEMMA IdleSlot ==
  ASSUME NEW r \in Requests, session'[r] = Idle
  PROVE  RequestInv(r)' /\ ~At(r, "commit")' /\ ~At(r, "find")'
BY DEF RequestInv, At, Idle

(* find_by_id answers with an active row. *)
LEMMA FindByIdAnswer ==
  ASSUME TypeOK, NEW u, FindById(u) # None
  PROVE  u \in DOMAIN users /\ FindById(u) = users[u] /\ users[u].is_active
BY DEF FindById, Active

SignsUp(r) == At(r, "commit") /\ session[r].op = "create_user"

(* What holds of the requests that take no step, when rows are only added,  *)
(* and only by the request that was to add them.                            *)
LEMMA OthersUndisturbed ==
  ASSUME IInv, NEW r \in Requests, NEW q \in Requests \ {r},
         \A p \in Requests \ {r} :
           \/ session'[p] = session[p]
           \/ \E b \in BOOLEAN : session'[p] = [session[p] EXCEPT !.revoked = b],
         DOMAIN users \subseteq DOMAIN users',
         \A u \in DOMAIN users' \ DOMAIN users : SignsUp(r) /\ u = session[r].user,
         SignsUp(r)' => \A p \in Requests : SignsUp(p) => session[p].user # session'[r].user
  PROVE  RequestInv(q)'
<1> DEFINE s == session[q]
<1>1. RequestInv(q) /\ s \in Request
  BY DEF IInv, TypeOK
<1>2. \A p \in Requests \ {r} :
        /\ session'[p].pc = session[p].pc /\ session'[p].op = session[p].op
        /\ session'[p].user = session[p].user
  BY DEF IInv, TypeOK, Request
<1>3. /\ session'[q].pc = s.pc /\ session'[q].op = s.op /\ session'[q].user = s.user
      /\ session'[q].email = s.email /\ session'[q].arg = s.arg /\ session'[q].token = s.token
      /\ session'[q].caller_row = s.caller_row
  BY <1>1 DEF Request
<1>4. ASSUME SignsUp(q)
      PROVE  /\ s.user \in UserIds \ DOMAIN users'
             /\ s.email \in Emails /\ s.arg \in Names
             /\ \A p \in Requests \ {q} : SignsUp(p)' => session'[p].user # s.user
  <2>1. /\ s.user \in UserIds \ DOMAIN users
        /\ s.email \in Emails /\ s.arg \in Names
        /\ \A p \in Requests \ {q} : SignsUp(p) => session[p].user # s.user
    BY <1>1, <1>4 DEF RequestInv, SignsUp
  <2>2. s.user \notin DOMAIN users'
    BY <2>1
  <2>3. ASSUME NEW p \in Requests \ {q}, SignsUp(p)'
        PROVE  session'[p].user # s.user
    <3>1. CASE p = r
      BY <1>4, <2>3, <3>1
    <3>2. CASE p # r
      BY <1>2, <2>1, <2>3, <3>2 DEF SignsUp, At
    <3> QED
      BY <3>1, <3>2
  <2> QED
    BY <2>1, <2>2, <2>3
<1>5. s.pc \in {"authenticate", "find"} => s.op \in AdminOps
  BY <1>1 DEF RequestInv
<1>6. ASSUME s.pc \in {"authenticate", "find", "commit"}, s.op \in AdminOps
      PROVE  /\ s.token \in [sub: DOMAIN users', role: UserRole]
             /\ s.op = "update_user" => s.arg \in Names
             /\ s.op = "update_role" => s.arg \in UserRole
             /\ ~At(q, "authenticate") =>
                  s.caller_row \in User \ {None} /\ s.caller_row.is_active
             /\ At(q, "commit") => s.user \in DOMAIN users'
  BY <1>1, <1>6 DEF RequestInv
<1> QED
  BY <1>3, <1>4, <1>5, <1>6 DEF RequestInv, SignsUp, At

(* A step of r that leaves the tables alone and either empties its slot or  *)
(* keeps what a request must keep preserves the invariant.                  *)
LEMMA QuietStep ==
  ASSUME IInv, NEW r \in Requests, users' = users, tokens' = tokens,
         session' \in [Requests -> Request],
         \A q \in Requests \ {r} : session'[q] = session[q],
         RequestInv(r)',
         At(r, "commit")' /\ session'[r].op \in AdminOps =>
           session'[r].row \in User /\ session'[r].row.is_active,
         At(r, "find")' \/ (At(r, "commit")' /\ session'[r].op \in AdminOps) =>
           IsAdmin(session'[r].token.sub) \/ session'[r].revoked,
         SignsUp(r)' => \A p \in Requests : SignsUp(p) => session[p].user # session'[r].user
  PROVE  IInv'
<1>1. TypeOK'
  BY DEF IInv, TypeOK, At
<1>2. EmailsUnique'
  BY DEF IInv, EmailsUnique
<1>3. RevocationIsImmediate'
  BY DEF IInv, RevocationIsImmediate, IsAdmin, Active, At
<1>4. \A q \in Requests \ {r} : RequestInv(q)'
  BY OthersUndisturbed
<1> QED
  BY <1>1, <1>2, <1>3, <1>4 DEF IInv

(* A request that gives up changes nothing. *)
LEMMA FinishKeeps ==
  ASSUME IInv, NEW r \in Requests, Finish(r), users' = users, tokens' = tokens
  PROVE  IInv'
<1>1. /\ session' \in [Requests -> Request] /\ session'[r] = Idle
      /\ \A q \in Requests \ {r} : session'[q] = session[q]
  BY FinishEffect DEF IInv, TypeOK
<1>2. RequestInv(r)' /\ ~At(r, "commit")' /\ ~At(r, "find")'
  BY <1>1, IdleSlot
<1> QED
  BY <1>1, <1>2, QuietStep DEF SignsUp

-----------------------------------------------------------------------------
(* Each action keeps the invariant. *)

(* An id is taken by one sign-up only. *)
LEMMA CreateUserKeeps ==
  ASSUME IInv, NEW r \in Requests, NEW u \in UserIds, NEW email \in Emails, NEW name \in Names,
         CreateUser(r, u, email, name)
  PROVE  IInv'
<1> DEFINE slot == [Idle EXCEPT !.op = "create_user", !.pc = "commit", !.user = u,
                                !.email = email, !.arg = name]
<1>1. slot \in Request
  BY DEF Idle, Request
<1>2. /\ session' \in [Requests -> Request] /\ session'[r] = slot
      /\ \A q \in Requests \ {r} : session'[q] = session[q]
  BY <1>1 DEF CreateUser, IInv, TypeOK
<1>3. /\ slot.op = "create_user" /\ slot.pc = "commit" /\ slot.user = u
      /\ slot.email = email /\ slot.arg = name
  BY DEF Idle
<1>4. users' = users /\ tokens' = tokens
  BY DEF CreateUser
<1>5. u \notin DOMAIN users /\ \A q \in Requests : SignsUp(q) => session[q].user # u
  BY DEF CreateUser, SignsUp
<1>6. "create_user" \notin AdminOps
  BY DEF AdminOps
<1>7. RequestInv(r)'
  BY <1>2, <1>3, <1>4, <1>5, <1>6 DEF RequestInv, At, SignsUp
<1> QED
  BY <1>2, <1>3, <1>4, <1>5, <1>6, <1>7, QuietStep DEF At

(* The commit of a sign-up adds a row with an email no row has. *)
LEMMA CommitCreateUserKeeps ==
  ASSUME IInv, NEW r \in Requests, CommitCreateUser(r)
  PROVE  IInv'
<1> DEFINE n == session[r].user
           added == NewUser(r)
<1>1. SignsUp(r) /\ Finish(r) /\ tokens' = tokens
  BY DEF CommitCreateUser, SignsUp
<1>2. CASE users' = users
  BY <1>1, <1>2, FinishKeeps
<1>3. CASE /\ \A u \in DOMAIN users : users[u].email # session[r].email
           /\ users' = [u \in DOMAIN users \cup {n} |-> IF u = n THEN added ELSE users[u]]
  <2>1. /\ n \in UserIds \ DOMAIN users
        /\ session[r].email \in Emails /\ session[r].arg \in Names
    BY <1>1 DEF IInv, RequestInv, SignsUp
  <2>2. added \in User /\ added.email = session[r].email
    BY <2>1 DEF NewUser, User, UserRole
  <2>3. /\ DOMAIN users' = DOMAIN users \cup {n} /\ users'[n] = added
        /\ \A u \in DOMAIN users : users'[u] = users[u]
    BY <1>3, <2>1
  <2>4. /\ session' \in [Requests -> Request] /\ session'[r] = Idle
        /\ \A q \in Requests \ {r} : session'[q] = session[q]
    BY <1>1, FinishEffect DEF IInv, TypeOK
  <2>5. RequestInv(r)' /\ ~At(r, "commit")' /\ ~At(r, "find")'
    BY <2>4, IdleSlot
  <2>6. TypeOK'
    <3>1. DOMAIN users' \subseteq UserIds
      BY <2>1, <2>3 DEF IInv, TypeOK
    <3>2. users' \in [DOMAIN users' -> User]
      BY <1>3, <2>2 DEF IInv, TypeOK
    <3>3. tokens' \subseteq [sub: DOMAIN users', role: UserRole]
      BY <1>1, <2>3 DEF IInv, TypeOK
    <3>4. ASSUME NEW q \in Requests, At(q, "commit")', session'[q].op \in AdminOps
          PROVE  session'[q].row \in User /\ session'[q].row.is_active
      BY <2>4, <2>5, <3>4 DEF IInv, TypeOK, At
    <3> QED
      BY <2>4, <3>1, <3>2, <3>3, <3>4 DEF TypeOK
  <2>7. EmailsUnique'
    BY <1>3, <2>2, <2>3 DEF IInv, EmailsUnique
  <2>8. RevocationIsImmediate'
    <3> SUFFICES ASSUME NEW q \in Requests,
                        At(q, "find")' \/ (At(q, "commit")' /\ session'[q].op \in AdminOps)
                 PROVE  IsAdmin(session[q].token.sub)' \/ session'[q].revoked
      BY DEF RevocationIsImmediate
    <3>1. q # r /\ session'[q] = session[q]
      BY <2>4, <2>5
    <3>2. IsAdmin(session[q].token.sub) \/ session[q].revoked
      BY <3>1 DEF IInv, RevocationIsImmediate, At
    <3> QED
      BY <2>3, <3>1, <3>2 DEF IsAdmin, Active
  <2>9. \A q \in Requests \ {r} : RequestInv(q)'
    BY <1>1, <2>3, <2>4, <2>5, OthersUndisturbed DEF SignsUp
  <2> QED
    BY <2>5, <2>6, <2>7, <2>8, <2>9 DEF IInv
<1> QED
  BY <1>2, <1>3 DEF CommitCreateUser

(* Tokens are issued to stored users. *)
LEMMA LoginKeeps ==
  ASSUME IInv, NEW email \in Emails, Login(email)
  PROVE  IInv'
<1>1. users' = users /\ session' = session
  BY DEF Login
<1>2. tokens' \subseteq [sub: DOMAIN users, role: UserRole]
  BY DEF Login, IInv, TypeOK, FindByEmail, User
<1>3. TypeOK'
  BY <1>1, <1>2 DEF IInv, TypeOK, At
<1> QED
  BY <1>1, <1>3 DEF IInv, EmailsUnique, RevocationIsImmediate, RequestInv, IsAdmin, Active, At

(* A token that expires is gone. *)
LEMMA ExpireKeeps ==
  ASSUME IInv, NEW token \in tokens, Expire(token)
  PROVE  IInv'
<1>1. users' = users /\ session' = session /\ tokens' \subseteq tokens
  BY DEF Expire
<1>2. TypeOK'
  BY <1>1 DEF IInv, TypeOK, At
<1> QED
  BY <1>1, <1>2 DEF IInv, EmailsUnique, RevocationIsImmediate, RequestInv, IsAdmin, Active, At

(* A request carries a token of a stored user. *)
LEMMA ReceiveKeeps ==
  ASSUME IInv, NEW r \in Requests, NEW op \in AdminOps, NEW token \in tokens, NEW u \in UserIds,
         NEW arg \in Names \cup UserRole \cup {None},
         op = "update_user" => arg \in Names, op = "update_role" => arg \in UserRole,
         Receive(r, op, token, u, arg)
  PROVE  IInv'
<1> DEFINE slot == [Idle EXCEPT !.op = op, !.pc = "authenticate", !.token = token,
                                !.user = u, !.arg = arg]
<1>1. token \in [sub: DOMAIN users, role: UserRole] /\ token \in Token
  BY DEF IInv, TypeOK, Token
<1>2. slot \in Request
  BY <1>1 DEF Idle, Request
<1>3. /\ session' \in [Requests -> Request] /\ session'[r] = slot
      /\ \A q \in Requests \ {r} : session'[q] = session[q]
      /\ users' = users /\ tokens' = tokens
  BY <1>2 DEF Receive, IInv, TypeOK
<1>4. slot.op = op /\ slot.pc = "authenticate" /\ slot.token = token /\ slot.arg = arg
  BY DEF Idle
<1>5. RequestInv(r)'
  BY <1>1, <1>3, <1>4 DEF RequestInv, At
<1> QED
  BY <1>3, <1>4, <1>5, QuietStep DEF At, SignsUp

(* Who is let in is an active admin. *)
LEMMA AuthenticateKeeps ==
  ASSUME IInv, NEW r \in Requests, Authenticate(r)
  PROVE  IInv'
<1> DEFINE row == FindById(session[r].token.sub)
           slot == [session[r] EXCEPT !.pc = "find", !.caller_row = row]
<1>1. users' = users /\ tokens' = tokens /\ At(r, "authenticate")
  BY DEF Authenticate
<1>2. CASE Finish(r)
  BY <1>1, <1>2, FinishKeeps
<1>3. CASE row # None /\ row.role = "ADMIN" /\ Admit(r, row)
  <2>1. /\ session[r].token.sub \in DOMAIN users
        /\ row = users[session[r].token.sub] /\ row.is_active
    BY <1>3, FindByIdAnswer DEF IInv
  <2>2. IsAdmin(session[r].token.sub) /\ row \in User \ {None}
    BY <1>3, <2>1 DEF IsAdmin, Active, IInv, TypeOK
  <2>3. RequestInv(r) /\ session[r] \in Request
    BY DEF IInv, TypeOK
  <2>4. /\ slot \in Request
        /\ slot.pc = "find" /\ slot.caller_row = row /\ slot.op = session[r].op
        /\ slot.token = session[r].token /\ slot.arg = session[r].arg
    BY <2>2, <2>3 DEF Request
  <2>5. /\ session' \in [Requests -> Request] /\ session'[r] = slot
        /\ \A q \in Requests \ {r} : session'[q] = session[q]
    BY <1>3, <2>4 DEF Admit, IInv, TypeOK
  <2>6. RequestInv(r)'
    BY <1>1, <2>1, <2>2, <2>3, <2>4, <2>5 DEF RequestInv, At
  <2> QED
    BY <1>1, <2>2, <2>4, <2>5, <2>6, QuietStep DEF At, SignsUp
<1> QED
  BY <1>2, <1>3 DEF Authenticate

(* What get_by_id answers with was active when it was loaded. *)
LEMMA GetByIdKeeps ==
  ASSUME IInv, NEW r \in Requests, GetById(r)
  PROVE  IInv'
<1> DEFINE found == FindById(session[r].user)
           row == IF session[r].user = session[r].token.sub THEN session[r].caller_row ELSE found
           slot == [session[r] EXCEPT !.pc = "commit", !.row = row]
<1>1. users' = users /\ tokens' = tokens /\ At(r, "find")
  BY DEF GetById
<1>2. CASE Finish(r)
  BY <1>1, <1>2, FinishKeeps
<1>3. CASE found # None /\ session' = [session EXCEPT ![r].pc = "commit", ![r].row = row]
  <2>1. RequestInv(r) /\ session[r] \in Request
    BY DEF IInv, TypeOK
  <2>2. /\ session[r].op \in AdminOps
        /\ session[r].caller_row \in User /\ session[r].caller_row.is_active
    BY <1>1, <2>1 DEF RequestInv, At
  <2>3. session[r].user \in DOMAIN users /\ found \in User /\ found.is_active
    BY <1>3, FindByIdAnswer DEF IInv, TypeOK
  <2>4. row \in User /\ row.is_active
    BY <2>2, <2>3
  <2> HIDE DEF row
  <2>5. /\ slot \in Request
        /\ slot.pc = "commit" /\ slot.row = row /\ slot.op = session[r].op
        /\ slot.token = session[r].token /\ slot.arg = session[r].arg
        /\ slot.user = session[r].user /\ slot.caller_row = session[r].caller_row
        /\ slot.revoked = session[r].revoked
    BY <2>1, <2>4 DEF Request
  <2>6. /\ session' \in [Requests -> Request] /\ session'[r] = slot
        /\ \A q \in Requests \ {r} : session'[q] = session[q]
    BY <1>3, <2>5 DEF IInv, TypeOK
  <2>7. slot.op \in AdminOps /\ slot.op # "create_user"
    BY <2>2, <2>5 DEF AdminOps
  <2>8. RequestInv(r)'
    BY <1>1, <2>1, <2>2, <2>3, <2>5, <2>6, <2>7 DEF RequestInv, At
  <2>9. IsAdmin(session[r].token.sub) \/ session[r].revoked
    BY <1>1 DEF IInv, RevocationIsImmediate
  <2>10. /\ session'[r].row \in User /\ session'[r].row.is_active
         /\ ~SignsUp(r)'
         /\ IsAdmin(session'[r].token.sub) \/ session'[r].revoked
    BY <2>4, <2>5, <2>6, <2>7, <2>9 DEF SignsUp
  <2> QED
    BY <1>1, <2>6, <2>8, <2>10, QuietStep
<1> QED
  BY <1>2, <1>3 DEF GetById

(* The flush writes a row of the type, and changes of it what the endpoint  *)
(* changes alone; what was deleted meanwhile is not written back.           *)
LEMMA FlushedRow ==
  ASSUME IInv, NEW r \in Requests, At(r, "commit"), session[r].op \in AdminOps
  PROVE  LET u == session[r].user IN
         /\ u \in DOMAIN users
         /\ Flushed(r) \in User
         /\ Flushed(r).email = users[u].email
         /\ Flushed(r).is_active => users[u].is_active
         /\ Flushed(r).role # users[u].role =>
              session[r].op = "update_role" /\ Flushed(r).role = session[r].arg
<1> DEFINE s == session[r]
           row == s.row
<1>1. row \in User /\ row.is_active /\ s \in Request
  BY DEF IInv, TypeOK
<1>2. /\ s.user \in DOMAIN users
      /\ s.op = "update_user" => s.arg \in Names
      /\ s.op = "update_role" => s.arg \in UserRole
  BY DEF IInv, RequestInv, At
<1>3. users[s.user] \in User
  BY <1>2 DEF IInv, TypeOK
<1>4. /\ Assigned(r) \in User
      /\ Assigned(r).email = row.email
      /\ Assigned(r).is_active \in {row.is_active, FALSE}
      /\ Assigned(r).role = IF s.op = "update_role" THEN s.arg ELSE row.role
  BY <1>1, <1>2 DEF Assigned, User, AdminOps
<1>5. DOMAIN row = {"email", "name", "role", "is_active"}
  BY <1>1 DEF User
<1>6. Flushed(r) = [c \in {"email", "name", "role", "is_active"} |->
                      IF Assigned(r)[c] # row[c] THEN Assigned(r)[c] ELSE users[s.user][c]]
  BY <1>5 DEF Flushed
<1> QED
  BY <1>1, <1>2, <1>3, <1>4, <1>6 DEF User

(* The commit of an admin's change: whoever loses by it is marked in the    *)
(* requests that have let them in.                                          *)
LEMMA CommitUpdateKeeps ==
  ASSUME IInv, NEW r \in Requests, CommitUpdate(r)
  PROVE  IInv'
<1> DEFINE u == session[r].user
           row == Flushed(r)
           loses == IsAdmin(u) /\ ~(row.is_active /\ row.role = "ADMIN")
           marked(q) == loses /\ session[q].caller_row # None /\ session[q].token.sub = u
<1>1. /\ At(r, "commit") /\ session[r].op \in AdminOps /\ tokens' = tokens
      /\ users' = [users EXCEPT ![u] = row]
      /\ session' = [q \in Requests |->
           IF q = r THEN Idle
           ELSE [session[q] EXCEPT !.revoked = session[q].revoked \/ marked(q)]]
  BY DEF CommitUpdate
<1>2. /\ u \in DOMAIN users /\ row \in User
      /\ row.email = users[u].email /\ (row.is_active => users[u].is_active)
  BY <1>1, FlushedRow
<1>3. /\ DOMAIN users' = DOMAIN users /\ users'[u] = row
      /\ \A v \in DOMAIN users \ {u} : users'[v] = users[v]
  BY <1>1, <1>2
<1> HIDE DEF row
<1>4. session'[r] = Idle
  BY <1>1
<1>5. ASSUME NEW q \in Requests \ {r}
      PROVE  /\ session'[q] \in Request
             /\ session'[q].pc = session[q].pc /\ session'[q].op = session[q].op
             /\ session'[q].row = session[q].row /\ session'[q].token = session[q].token
             /\ session'[q].revoked = (session[q].revoked \/ marked(q))
             /\ \E b \in BOOLEAN : session'[q] = [session[q] EXCEPT !.revoked = b]
  <2>1. session[q] \in Request
    BY DEF IInv, TypeOK
  <2>2. PICK b \in BOOLEAN : b = (session[q].revoked \/ marked(q))
    BY <2>1 DEF Request
  <2> HIDE DEF marked
  <2>3. session'[q] = [session[q] EXCEPT !.revoked = b]
    BY <1>1, <2>2
  <2> QED
    BY <2>1, <2>2, <2>3 DEF Request
<1>6. RequestInv(r)' /\ ~At(r, "commit")' /\ ~At(r, "find")'
  BY <1>4, IdleSlot
<1>7. TypeOK'
  <2>1. DOMAIN users' \subseteq UserIds /\ users' \in [DOMAIN users' -> User]
    BY <1>1, <1>2, <1>3 DEF IInv, TypeOK
  <2>2. session' \in [Requests -> Request]
    <3>1. Idle \in Request
      BY DEF Idle, Request
    <3>2. \A q \in Requests : session'[q] \in Request
      BY <1>4, <1>5, <3>1
    <3> QED
      BY <1>1, <3>2
  <2>3. ASSUME NEW q \in Requests, At(q, "commit")', session'[q].op \in AdminOps
        PROVE  session'[q].row \in User /\ session'[q].row.is_active
    <3>1. q # r
      BY <1>6, <2>3
    <3> QED
      BY <1>5, <2>3, <3>1 DEF IInv, TypeOK, At
  <2> QED
    BY <1>1, <1>3, <2>1, <2>2, <2>3 DEF TypeOK, IInv
<1>8. EmailsUnique'
  <2>1. \A v \in DOMAIN users : users'[v].email = users[v].email
    BY <1>2, <1>3
  <2> QED
    BY <1>3, <2>1 DEF IInv, EmailsUnique
<1>9. RevocationIsImmediate'
  <2> SUFFICES ASSUME NEW q \in Requests,
                      At(q, "find")' \/ (At(q, "commit")' /\ session'[q].op \in AdminOps)
               PROVE  IsAdmin(session[q].token.sub)' \/ session'[q].revoked
    BY DEF RevocationIsImmediate
  <2> DEFINE caller == session[q].token.sub
  <2>1. q \in Requests \ {r} /\ session'[q].token = session[q].token
    BY <1>5, <1>6
  <2>2. At(q, "find") \/ (At(q, "commit") /\ session[q].op \in AdminOps)
    BY <1>5, <2>1 DEF At
  <2>3. session[q].caller_row # None /\ caller \in DOMAIN users
    BY <2>2 DEF IInv, RequestInv, At
  <2>4. IsAdmin(caller) \/ session[q].revoked
    BY <2>2 DEF IInv, RevocationIsImmediate
  <2>5. IsAdmin(session[q].token.sub)' <=>
          caller \in DOMAIN users' /\ users'[caller].is_active /\ users'[caller].role = "ADMIN"
    BY <2>1 DEF IsAdmin, Active
  <2>6. session'[q].revoked = (session[q].revoked \/ marked(q))
    BY <1>5, <2>1
  <2>7. CASE caller # u
    <3>1. IsAdmin(caller) => IsAdmin(session[q].token.sub)'
      BY <1>3, <2>3, <2>5, <2>7 DEF IsAdmin, Active
    <3> QED
      BY <2>4, <2>6, <3>1
  <2>8. CASE caller = u
    <3>1. IsAdmin(caller) => loses \/ IsAdmin(session[q].token.sub)'
      BY <1>3, <2>3, <2>5, <2>8
    <3>2. loses => marked(q)
      BY <2>3, <2>8
    <3> HIDE DEF loses, marked
    <3> QED
      BY <2>4, <2>6, <3>1, <3>2
  <2> QED
    BY <2>7, <2>8
<1>10. \A q \in Requests \ {r} : RequestInv(q)'
  BY <1>3, <1>5, <1>6, OthersUndisturbed DEF SignsUp
<1> QED
  BY <1>6, <1>7, <1>8, <1>9, <1>10 DEF IInv

-----------------------------------------------------------------------------
(* The invariant *)

(* The initial states satisfy the invariant.                                *)
LEMMA InitIInv ==
  Init => IInv
<1> SUFFICES ASSUME Init PROVE IInv
  OBVIOUS
<1>1. PICK email \in [InitialUsers -> Emails], role \in [InitialUsers -> UserRole], name \in Names :
        /\ \A u, v \in InitialUsers : email[u] = email[v] => u = v
        /\ users = [u \in InitialUsers |-> [email |-> email[u], name |-> name,
                                            role |-> role[u], is_active |-> TRUE]]
  BY DEF Init
<1>2. tokens = {} /\ session = [r \in Requests |-> Idle]
  BY DEF Init
<1>3. Idle \in Request /\ Idle.pc = "idle"
  BY DEF Idle, Request
<1>4. TypeOK
  BY <1>1, <1>2, <1>3, AccountsAssumption DEF TypeOK, User, At
<1>5. EmailsUnique
  BY <1>1 DEF EmailsUnique
<1> QED
  BY <1>2, <1>3, <1>4, <1>5 DEF IInv, RevocationIsImmediate, RequestInv, At

(* Every action keeps it.                                                   *)
LEMMA NextIInv ==
  ASSUME IInv, [Next]_vars
  PROVE  IInv'
<1>1. CASE UNCHANGED vars
  BY <1>1 DEF vars, IInv, TypeOK, EmailsUnique, RevocationIsImmediate, RequestInv,
     IsAdmin, Active, At
<1>2. ASSUME NEW r \in Requests, Start(r)
      PROVE  IInv'
  <2>1. CASE \E u \in UserIds, email \in Emails, name \in Names : CreateUser(r, u, email, name)
    BY <2>1, CreateUserKeeps
  <2>2. ASSUME NEW token \in tokens, NEW u \in UserIds, NEW name \in Names,
               Receive(r, "update_user", token, u, name)
        PROVE  IInv'
    BY <2>2, ReceiveKeeps DEF AdminOps
  <2>3. ASSUME NEW token \in tokens, NEW u \in UserIds, NEW role \in UserRole,
               Receive(r, "update_role", token, u, role)
        PROVE  IInv'
    BY <2>3, ReceiveKeeps DEF AdminOps
  <2>4. ASSUME NEW token \in tokens, NEW u \in UserIds, Receive(r, "delete_user", token, u, None)
        PROVE  IInv'
    BY <2>4, ReceiveKeeps DEF AdminOps
  <2> QED
    BY <1>2, <2>1, <2>2, <2>3, <2>4 DEF Start
<1>3. ASSUME NEW r \in Requests, Step(r)
      PROVE  IInv'
  BY <1>3, CommitCreateUserKeeps, AuthenticateKeeps, GetByIdKeeps, CommitUpdateKeeps DEF Step
<1>4. ASSUME NEW r \in Requests, Fail(r)
      PROVE  IInv'
  BY <1>4, FinishKeeps DEF Fail
<1>5. CASE \E email \in Emails : Login(email)
  BY <1>5, LoginKeeps
<1>6. CASE \E token \in tokens : Expire(token)
  BY <1>6, ExpireKeeps
<1> QED
  BY <1>1, <1>2, <1>3, <1>4, <1>5, <1>6 DEF Next

(* Each request in the service was let in as an active admin and has loaded *)
(* what its step says, for any numbers of users, emails and requests.       *)
THEOREM Invariance == Spec => []IInv
<1>1. Init => IInv
  BY InitIInv
<1>2. IInv /\ [Next]_vars => IInv'
  BY NextIInv
<1> QED
  BY <1>1, <1>2, PTL DEF Spec

(* Rows, tokens and requests keep their types. *)
THEOREM TypeCorrect == Spec => []TypeOK
<1>1. IInv => TypeOK
  BY DEF IInv
<1> QED
  BY <1>1, Invariance, PTL

(* No two users share an email. *)
THEOREM EmailsAreUnique == Spec => []EmailsUnique
<1>1. IInv => EmailsUnique
  BY DEF IInv
<1> QED
  BY <1>1, Invariance, PTL

(* Nobody is let in on the word of an old token. *)
THEOREM RevocationsAreImmediate == Spec => []RevocationIsImmediate
<1>1. IInv => RevocationIsImmediate
  BY DEF IInv
<1> QED
  BY <1>1, Invariance, PTL

(* A step that changes rows is a commit. *)
LEMMA UserWriters ==
  ASSUME [Next]_vars
  PROVE  \/ users' = users
         \/ \E r \in Requests : CommitCreateUser(r) \/ CommitUpdate(r)
BY DEF Next, vars, Start, Step, CreateUser, Receive, Authenticate, GetById, Fail, Login, Expire

(* A deleted user is not brought back by a change that was under way. *)
THEOREM TheDeletedStayDeleted == Spec => DeletedUsersStayDeleted
<1> DEFINE Kept == \A u \in DOMAIN users :
              u \in DOMAIN users' /\ (users'[u].is_active => users[u].is_active)
<1>1. ASSUME IInv, [Next]_vars
      PROVE  Kept
  <2>1. CASE users' = users
    BY <2>1
  <2>2. ASSUME NEW r \in Requests, CommitCreateUser(r)
        PROVE  Kept
    <3>1. session[r].user \notin DOMAIN users
      BY <1>1, <2>2 DEF CommitCreateUser, IInv, RequestInv
    <3> QED
      BY <2>2, <3>1 DEF CommitCreateUser
  <2>3. ASSUME NEW r \in Requests, CommitUpdate(r)
        PROVE  Kept
    <3>1. At(r, "commit") /\ session[r].op \in AdminOps
      BY <2>3 DEF CommitUpdate
    <3>2. users' = [users EXCEPT ![session[r].user] = Flushed(r)]
      BY <2>3 DEF CommitUpdate
    <3>3. Flushed(r).is_active => users[session[r].user].is_active
      BY <1>1, <3>1, FlushedRow
    <3> QED
      BY <3>2, <3>3
  <2> QED
    BY <1>1, <2>1, <2>2, <2>3, UserWriters
<1>2. IInv /\ [Next]_vars => [Kept]_vars
  BY <1>1
<1> QED
  BY <1>2, Invariance, PTL DEF Spec, DeletedUsersStayDeleted

(* Only an admin's update_role changes the role of a stored user. *)
THEOREM RolesAreOrdered == Spec => RolesChangeByOrder
<1> DEFINE Ordered(u, r) ==
              /\ At(r, "commit") /\ session'[r] = Idle
              /\ session[r].op = "update_role"
              /\ session[r].user = u /\ session[r].arg = users'[u].role
              /\ IsAdmin(session[r].token.sub) \/ session[r].revoked
           Kept == \A u \in DOMAIN users :
              users'[u].role # users[u].role => \E r \in Requests : Ordered(u, r)
<1>1. ASSUME IInv, [Next]_vars
      PROVE  Kept
  <2>1. CASE users' = users
    BY <2>1
  <2>2. ASSUME NEW r \in Requests, CommitCreateUser(r)
        PROVE  Kept
    <3>1. session[r].user \notin DOMAIN users
      BY <1>1, <2>2 DEF CommitCreateUser, IInv, RequestInv
    <3> QED
      BY <2>2, <3>1 DEF CommitCreateUser
  <2>3. ASSUME NEW r \in Requests, CommitUpdate(r)
        PROVE  Kept
    <3> SUFFICES ASSUME NEW u \in DOMAIN users, users'[u].role # users[u].role
                 PROVE  Ordered(u, r)
      OBVIOUS
    <3>1. At(r, "commit") /\ session[r].op \in AdminOps /\ session'[r] = Idle
      BY <2>3 DEF CommitUpdate
    <3>2. users' = [users EXCEPT ![session[r].user] = Flushed(r)]
      BY <2>3 DEF CommitUpdate
    <3>3. session[r].user = u /\ users'[u] = Flushed(r)
      BY <3>2
    <3>4. session[r].op = "update_role" /\ session[r].arg = users'[u].role
      BY <1>1, <3>1, <3>3, FlushedRow
    <3>5. IsAdmin(session[r].token.sub) \/ session[r].revoked
      BY <1>1, <3>1 DEF IInv, RevocationIsImmediate
    <3> QED
      BY <3>1, <3>3, <3>4, <3>5
  <2> QED
    BY <1>1, <2>1, <2>2, <2>3, UserWriters
<1>2. IInv /\ [Next]_vars => [Kept]_vars
  BY <1>1
<1> QED
  BY <1>2, Invariance, PTL DEF Spec, RolesChangeByOrder

(* Without an admin, and without a request of a former one, the application *)
(* stays without: the code has no other way to make one.                    *)
THEOREM LockoutLasts == Spec => LockoutIsPermanent
<1>1. ASSUME IInv, [Next]_vars, NoAdminLeft
      PROVE  NoAdminLeft'
  <2>1. \A q \in Requests :
          ~At(q, "find") /\ ~(At(q, "commit") /\ session[q].op \in AdminOps)
    BY <1>1 DEF IInv, RequestInv, NoAdminLeft, At
  <2>2. \A u \in UserIds : ~IsAdmin(u)'
    <3>1. CASE users' = users
      BY <1>1, <3>1 DEF NoAdminLeft, IsAdmin, Active
    <3>2. ASSUME NEW r \in Requests, CommitCreateUser(r), users' # users
          PROVE  \A u \in UserIds : ~IsAdmin(u)'
      BY <1>1, <3>2 DEF CommitCreateUser, NewUser, NoAdminLeft, IsAdmin, Active
    <3>3. ASSUME NEW r \in Requests, CommitUpdate(r)
          PROVE  FALSE
      BY <2>1, <3>3 DEF CommitUpdate
    <3> QED
      BY <1>1, <3>1, <3>2, <3>3, UserWriters
  <2>3. \A q \in Requests : session'[q].caller_row = None
    <3>1. session \in [Requests -> Request]
      BY <1>1 DEF IInv, TypeOK
    <3>2. \A q \in Requests : session[q].caller_row = None
      BY <1>1 DEF NoAdminLeft
    <3>3. Idle.caller_row = None
      BY DEF Idle
    <3>4. ASSUME NEW r \in Requests, Finish(r)
          PROVE  \A q \in Requests : session'[q].caller_row = None
      BY <3>1, <3>2, <3>3, <3>4, FinishEffect
    <3>5. ASSUME NEW r \in Requests, NEW u \in UserIds, NEW email \in Emails, NEW name \in Names,
                 CreateUser(r, u, email, name)
          PROVE  \A q \in Requests : session'[q].caller_row = None
      BY <3>1, <3>2, <3>5 DEF CreateUser, Idle
    <3>6. ASSUME NEW r \in Requests, NEW op, NEW token, NEW u, NEW arg,
                 Receive(r, op, token, u, arg)
          PROVE  \A q \in Requests : session'[q].caller_row = None
      BY <3>1, <3>2, <3>6 DEF Receive, Idle
    <3>7. ASSUME NEW r \in Requests, Authenticate(r)
          PROVE  \A q \in Requests : session'[q].caller_row = None
      <4>1. session[r].token.sub \in DOMAIN users
        BY <1>1, <3>7 DEF Authenticate, IInv, RequestInv, At
      <4>2. ~IsAdmin(session[r].token.sub)
        BY <1>1, <4>1 DEF NoAdminLeft, IInv, TypeOK
      <4>3. Finish(r)
        BY <3>7, <4>2 DEF Authenticate, FindById, IsAdmin
      <4> QED
        BY <3>4, <4>3
    <3>8. ASSUME NEW r \in Requests, GetById(r) \/ CommitUpdate(r)
          PROVE  FALSE
      BY <2>1, <3>8 DEF GetById, CommitUpdate
    <3>9. ASSUME NEW r \in Requests, CommitCreateUser(r) \/ Fail(r)
          PROVE  Finish(r)
      BY <3>9 DEF CommitCreateUser, Fail
    <3>10. CASE session' = session
      BY <3>2, <3>10
    <3> QED
      BY <1>1, <3>4, <3>5, <3>6, <3>7, <3>8, <3>9, <3>10
         DEF Next, vars, Start, Step, Login, Expire
  <2> QED
    BY <2>2, <2>3 DEF NoAdminLeft
<1>2. IInv /\ [Next]_vars => [NoAdminLeft => NoAdminLeft']_vars
  BY <1>1
<1> QED
  BY <1>2, Invariance, PTL DEF Spec, LockoutIsPermanent
=============================================================================
