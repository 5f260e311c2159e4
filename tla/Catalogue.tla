------------------------------- MODULE Catalogue -------------------------------
(* Authors, books and loans as their endpoints show them, through the       *)
(* cache.  A row is its version: what a handler wrote matters here only in  *)
(* that a cached answer shows it or does not.  The locked transactions of   *)
(* the loan service are single commits (Library), and may be refused.       *)
EXTENDS CacheService

VARIABLES
  authors, books, loans, users,
  orphaned,   \* history: books inserted across the deletion of their author
  writes,     \* how many writes have been started
  popular     \* the kind of key that clients read in this behaviour

tables == <<authors, books, loans, users>>
vars == <<cache, session, tables, orphaned, writes, popular>>

Endpoints == {"get_book", "list_books", "get_loan", "list_loans", "list_user_loans",
              "create_book", "update_book", "delete_book", "update_author", "delete_author",
              "create_loan", "return_loan", "cancel_loan", "pay_fine", "renew_loan",
              "update_loan", "delete_user"}

ASSUME CatalogueAssumption ==
  /\ InitialBooks \subseteq Books /\ InitialLoans \subseteq LoanIds
  /\ Operations \subseteq Endpoints \cup {"fail"}
  /\ IsFiniteSet(Books) /\ IsFiniteSet(LoanIds)
  /\ MaxWrites \in Nat

Author == [version: Nat, is_active: BOOLEAN]
Book == [author: Authors, version: Nat, is_active: BOOLEAN]
Loan == [user: Users, book: Books, version: Nat, active: BOOLEAN]

-----------------------------------------------------------------------------
(* What the queries select *)

BooksOf(a) == {b \in DOMAIN books : books[b].author = a}

Insert(table, id, row) == [i \in DOMAIN table \cup {id} |-> IF i = id THEN row ELSE table[i]]

(* A book is found when it and its author are active. *)
Visible(b) ==
  /\ b \in DOMAIN books
  /\ books[b].is_active
  /\ authors[books[b].author].is_active

Shown(b) == [book |-> books[b].version, author |-> authors[books[b].author].version]

Items(k) ==
  LET rows == CASE k[1] = "books:list" -> {b \in Books : Visible(b)}
                [] k[1] = "loans:list" -> DOMAIN loans
                [] k[1] = "loans:user" -> {l \in DOMAIN loans : loans[l].user = k[2]}
  IN [i \in rows |-> IF k[1] = "books:list" THEN Shown(i) ELSE loans[i].version]

Item(k) ==
  CASE k[1] = "book" -> IF Visible(k[2]) THEN Shown(k[2]) ELSE None
    [] k[1] = "loans:item" -> IF k[2] \in DOMAIN loans THEN loans[k[2]].version ELSE None

(* The user of a listing is looked up before its loans. *)
Found(k) == k[1] = "loans:user" => users[k[2]]

(* What a request would now put under the key; None for a 404. *)
Current(k) ==
  IF k \notin ListKeys THEN Item(k)
  ELSE IF Found(k) THEN [items |-> Items(k), total |-> Cardinality(DOMAIN Items(k))]
  ELSE None

Stale(k) == cache[k] # None /\ cache[k].value # Current(k)

-----------------------------------------------------------------------------
(* Reading *)

(* These load the loan through the cache, for the check of its owner. *)
LoanOps == {"return_loan", "cancel_loan", "pay_fine", "renew_loan"}

KeysOf(op) ==
  CASE op = "get_book" -> BookKeys
    [] op = "list_books" -> BookLists
    [] op = "list_loans" -> LoanLists
    [] op = "list_user_loans" -> UNION {UserLoans(u) : u \in Users}
    [] op \in LoanOps \cup {"get_loan"} -> LoanKeys

CanStart(r, op) == op \in Operations /\ At(r, "idle")

StartWrite ==
  /\ writes < MaxWrites
  /\ writes' = writes + 1

Receive(r, op, k) ==
  /\ CanStart(r, op)
  /\ op \in LoanOps \/ k \in popular
  /\ IF op \in LoanOps THEN StartWrite ELSE UNCHANGED writes
  /\ session' = [session EXCEPT ![r] = [Idle EXCEPT !.op = op, !.pc = "get", !.key = k,
                    !.id = IF op \in LoanOps THEN k[2] ELSE None]]
  /\ UNCHANGED <<cache, tables, orphaned, popular>>

(* The cached or selected value is there. *)
Answer(r) ==
  IF session[r].op \in LoanOps
  THEN session' = [session EXCEPT ![r].pc = "commit", ![r].key = None, ![r].seen = None]
  ELSE Finish(r)

Get(r) ==
  /\ At(r, "get")
  /\ IF cache[session[r].key] # None
     THEN Answer(r)
     ELSE session' = [session EXCEPT ![r].pc = "select"]
  /\ UNCHANGED <<cache, tables, orphaned, writes, popular>>

(* Faulty variant: a missing row is cached as such.                         *)
Select_CachesMissing(r) ==
  LET k == session[r].key IN
  /\ At(r, "select")
  /\ session' = [session EXCEPT
       ![r].pc = IF k \in ListKeys THEN "count" ELSE "set",
       ![r].seen = IF k \in ListKeys THEN Items(k) ELSE Item(k)]
  /\ UNCHANGED <<cache, tables, orphaned, writes, popular>>

(* find_by_id, or the page of a listing; a 404 is not cached. *)
Select(r) ==
  LET k == session[r].key IN
  /\ At(r, "select")
  /\ IF Current(k) = None
     THEN Finish(r)
     ELSE session' = [session EXCEPT
            ![r].pc = IF k \in ListKeys THEN "count" ELSE "set",
            ![r].seen = IF k \in ListKeys THEN Items(k) ELSE Item(k)]
  /\ UNCHANGED <<cache, tables, orphaned, writes, popular>>

(* A listing is two SELECTs: the page, then the count. *)
CountRows(r) ==
  LET k == session[r].key IN
  /\ At(r, "count")
  /\ session' = [session EXCEPT ![r].pc = "set",
       ![r].seen = [items |-> @, total |-> Cardinality(DOMAIN Items(k))]]
  /\ UNCHANGED <<cache, tables, orphaned, writes, popular>>

Fill(r) ==
  LET k == session[r].key IN
  /\ At(r, "set")
  /\ Set(k, session[r].seen, session[r].seen # Current(k))
  /\ Answer(r)
  /\ UNCHANGED <<tables, orphaned, writes, popular>>

-----------------------------------------------------------------------------
(* Writing: find the rows, commit, then invalidate. *)

Begin(r, op, id, book, user, loaded) ==
  /\ CanStart(r, op)
  /\ StartWrite
  /\ session' = [session EXCEPT ![r] = [Idle EXCEPT !.op = op, !.pc = "commit",
                    !.id = id, !.book = book, !.user = user, !.loaded = loaded]]
  /\ UNCHANGED <<cache, tables, orphaned, popular>>

(* find_by_isbn, of any book, active or not; then the author's find_by_id.  *)
CreateBook(r, b, a) ==
  b \notin DOMAIN books /\ authors[a].is_active /\ Begin(r, "create_book", a, b, None, {})

UpdateBook(r, b) == Visible(b) /\ Begin(r, "update_book", None, b, None, {})

DeleteBook(r, b) == Visible(b) /\ Begin(r, "delete_book", None, b, None, {})

UpdateAuthor(r, a) == authors[a].is_active /\ Begin(r, "update_author", a, None, None, {})

(* find_by_id_with_books *)
DeleteAuthor(r, a) == authors[a].is_active /\ Begin(r, "delete_author", a, None, None, BooksOf(a))

CreateLoan(r, l, u, b) ==
  /\ l \notin DOMAIN loans
  /\ \A q \in Requests : session[q].id # l
  /\ users[u]
  /\ Begin(r, "create_loan", l, b, u, {})

UpdateLoan(r, l) ==
  /\ l \in DOMAIN loans
  /\ loans[l].active
  /\ Begin(r, "update_loan", l, None, None, {})

AtCommit(r, op) == At(r, "commit") /\ session[r].op = op

InvalidateBook(b) == <<DeleteKey(BookKey(b)), DeletePattern(BookLists)>>

(* Faulty variant: the books keep the author's old name.                    *)
InvalidateAuthor_ListsOnly == <<DeletePattern(BookLists)>>

InvalidateAuthor == <<DeletePattern(BookKeys), DeletePattern(BookLists)>>

(* _invalidate_loan_cache *)
InvalidateLoan(l, u) ==
  <<DeleteKey(LoanKey(l)), DeletePattern(LoanLists), DeletePattern(UserLoans(u))>>

(* UNIQUE(isbn): the insert fails when the ISBN was taken meanwhile.        *)
CommitCreateBook(r) ==
  LET a == session[r].id
      b == session[r].book
      deleting == {q \in Requests : AtCommit(q, "delete_author") /\ session[q].id = a}
  IN
  /\ AtCommit(r, "create_book")
  /\ IF b \in DOMAIN books
     THEN Finish(r) /\ UNCHANGED <<books, orphaned>>
     ELSE /\ books' = Insert(books, b, [author |-> a, version |-> 0, is_active |-> TRUE])
          /\ orphaned' = IF ~authors[a].is_active \/ deleting # {}
                         THEN orphaned \cup {b} ELSE orphaned
          /\ DoNext(r, <<DeletePattern(BookLists)>>)
  /\ UNCHANGED <<cache, authors, loans, users, writes, popular>>

NewVersion(row) == [row EXCEPT !.version = @ + 1]

(* Faulty variant: every column is written back as it was loaded.           *)
CommitUpdateBook_AllColumns(r) ==
  LET b == session[r].book IN
  /\ AtCommit(r, "update_book")
  /\ books' = [books EXCEPT ![b] = [NewVersion(@) EXCEPT !.is_active = TRUE]]
  /\ DoNext(r, InvalidateBook(b))
  /\ UNCHANGED <<cache, authors, loans, users, orphaned, writes, popular>>

(* The UPDATE sets the changed columns alone. *)
CommitUpdateBook(r) ==
  LET b == session[r].book IN
  /\ AtCommit(r, "update_book")
  /\ books' = [books EXCEPT ![b] = NewVersion(@)]
  /\ DoNext(r, InvalidateBook(b))
  /\ UNCHANGED <<cache, authors, loans, users, orphaned, writes, popular>>

CommitDeleteBook(r) ==
  LET b == session[r].book IN
  /\ AtCommit(r, "delete_book")
  /\ books' = [books EXCEPT ![b].is_active = FALSE]
  /\ DoNext(r, InvalidateBook(b))
  /\ UNCHANGED <<cache, authors, loans, users, orphaned, writes, popular>>

CommitUpdateAuthor(r) ==
  /\ AtCommit(r, "update_author")
  /\ authors' = [authors EXCEPT ![session[r].id] = NewVersion(@)]
  /\ DoNext(r, InvalidateAuthor)
  /\ UNCHANGED <<cache, books, loans, users, orphaned, writes, popular>>

(* Faulty variant: the author alone is deleted.                             *)
CommitDeleteAuthor_AuthorOnly(r) ==
  /\ AtCommit(r, "delete_author")
  /\ authors' = [authors EXCEPT ![session[r].id].is_active = FALSE]
  /\ DoNext(r, InvalidateAuthor)
  /\ UNCHANGED <<cache, books, loans, users, orphaned, writes, popular>>

(* Of the books, those that were loaded and are active. *)
CommitDeleteAuthor(r) ==
  /\ AtCommit(r, "delete_author")
  /\ authors' = [authors EXCEPT ![session[r].id].is_active = FALSE]
  /\ books' = [b \in DOMAIN books |-> [books[b] EXCEPT
                 !.is_active = @ /\ b \notin session[r].loaded]]
  /\ DoNext(r, InvalidateAuthor)
  /\ UNCHANGED <<cache, loans, users, orphaned, writes, popular>>

(* get_book_for_update does not ask for the author. *)
CommitCreateLoan(r) ==
  LET l == session[r].id
      b == session[r].book
      u == session[r].user
  IN
  /\ AtCommit(r, "create_loan")
  /\ b \in DOMAIN books
  /\ books[b].is_active
  /\ loans' = Insert(loans, l, [user |-> u, book |-> b, version |-> 0, active |-> TRUE])
  /\ DoNext(r, InvalidateBook(b) \o InvalidateLoan(l, u))
  /\ books' = [books EXCEPT ![b] = NewVersion(@)]
  /\ UNCHANGED <<cache, authors, users, orphaned, writes, popular>>

(* return_loan and cancel_loan put the copy back. *)
CommitCloseLoan(r) ==
  LET l == session[r].id
      b == loans[l].book
  IN
  /\ AtCommit(r, "return_loan") \/ AtCommit(r, "cancel_loan")
  /\ loans[l].active
  /\ books[b].is_active
  /\ loans' = [loans EXCEPT ![l] = [NewVersion(@) EXCEPT !.active = FALSE]]
  /\ books' = [books EXCEPT ![b] = NewVersion(@)]
  /\ DoNext(r, InvalidateBook(b) \o InvalidateLoan(l, loans[l].user))
  /\ UNCHANGED <<cache, authors, users, orphaned, writes, popular>>

(* update_loan has checked the status before. *)
CommitPaymentOrUpdate(r) ==
  LET l == session[r].id IN
  /\ AtCommit(r, "update_loan") \/ (AtCommit(r, "pay_fine") /\ loans[l].active)
  /\ loans' = [loans EXCEPT ![l] = NewVersion(@)]
  /\ DoNext(r, InvalidateLoan(l, loans[l].user))
  /\ UNCHANGED <<cache, authors, books, users, orphaned, writes, popular>>

(* renew_loan calls the cache service nowhere. *)
CommitRenewLoan(r) ==
  LET l == session[r].id IN
  /\ AtCommit(r, "renew_loan")
  /\ loans[l].active
  /\ loans' = [loans EXCEPT ![l] = NewVersion(@)]
  /\ cache' = LeaveStale({LoanKey(l)} \cup LoanLists \cup UserLoans(loans[l].user))
  /\ Finish(r)
  /\ UNCHANGED <<authors, books, users, orphaned, writes, popular>>

(* The rules of the loan service end a request before its commit. *)
Refuse(r) ==
  /\ At(r, "commit")
  /\ session[r].op \in LoanOps \cup {"create_loan"}
  /\ Finish(r)
  /\ UNCHANGED <<cache, tables, orphaned, writes, popular>>

(* user_service knows no cache: the listing of the user's loans stays.      *)
DeleteUser(u) ==
  /\ "delete_user" \in Operations
  /\ users[u]
  /\ StartWrite
  /\ users' = [users EXCEPT ![u] = FALSE]
  /\ cache' = LeaveStale(UserLoans(u))
  /\ UNCHANGED <<session, authors, books, loans, orphaned, popular>>

(* An exception, a lost connection or a crash: the deletes that are left    *)
(* are never made.                                                          *)
Fail(r) ==
  /\ "fail" \in Operations
  /\ ~At(r, "idle")
  /\ cache' = LeaveStale({k \in Pending(r) : Stale(k)})
  /\ Finish(r)
  /\ UNCHANGED <<tables, orphaned, writes, popular>>

-----------------------------------------------------------------------------
Init ==
  /\ authors = [a \in Authors |-> [version |-> 0, is_active |-> TRUE]]
  /\ \E author \in [InitialBooks -> Authors] :
       books = [b \in InitialBooks |->
                  [author |-> author[b], version |-> 0, is_active |-> TRUE]]
  /\ \E book \in [InitialLoans -> InitialBooks], user \in [InitialLoans -> Users] :
       loans = [l \in InitialLoans |->
                  [user |-> user[l], book |-> book[l], version |-> 0, active |-> TRUE]]
  /\ users = [u \in Users |-> TRUE]
  /\ cache = [k \in Keys |-> None]
  /\ session = [r \in Requests |-> Idle]
  /\ orphaned = {}
  /\ writes = 0
  /\ popular \in KeyKinds

Start(r) ==
  \/ \E op \in Operations \cap (LoanOps \cup
          {"get_book", "list_books", "get_loan", "list_loans", "list_user_loans"}) :
       \E k \in KeysOf(op) : Receive(r, op, k)
  \/ \E b \in Books, a \in Authors : CreateBook(r, b, a)
  \/ \E b \in Books : UpdateBook(r, b) \/ DeleteBook(r, b)
  \/ \E a \in Authors : UpdateAuthor(r, a) \/ DeleteAuthor(r, a)
  \/ \E l \in LoanIds, u \in Users, b \in Books : CreateLoan(r, l, u, b)
  \/ \E l \in LoanIds : UpdateLoan(r, l)

Invalidate(r) ==
  /\ Delete(r) \/ Scan(r) \/ DeleteScanned(r)
  /\ UNCHANGED <<tables, orphaned, writes, popular>>

Commit(r) ==
  \/ CommitCreateBook(r) \/ CommitUpdateBook(r) \/ CommitDeleteBook(r)
  \/ CommitUpdateAuthor(r) \/ CommitDeleteAuthor(r) \/ CommitCreateLoan(r)
  \/ CommitCloseLoan(r) \/ CommitPaymentOrUpdate(r) \/ CommitRenewLoan(r)

(* The next step of the handler that serves r. *)
Step(r) ==
  Get(r) \/ Select(r) \/ CountRows(r) \/ Fill(r) \/ Commit(r) \/ Refuse(r) \/ Invalidate(r)

Expiry(k) == Expire(k) /\ UNCHANGED <<tables, orphaned, writes, popular>>

Next ==
  \/ \E r \in Requests : Start(r) \/ Step(r) \/ Fail(r)
  \/ \E u \in Users : DeleteUser(u)
  \/ \E k \in Keys : Expiry(k)

Spec == Init /\ [][Next]_vars

(* The event loop resumes every handler, and Redis drops every entry whose  *)
(* time is over.                                                            *)
FairSpec ==
  /\ Spec
  /\ \A r \in Requests : WF_vars(Step(r))
  /\ \A k \in Keys : WF_vars(Expiry(k))
-----------------------------------------------------------------------------
(* Properties *)

BookView == [book: Nat, author: Nat]   \* what Shown yields

(* Rows, entries and requests have their types; what is cached is a book's  *)
(* or a loan's versions, or a page of them.                                 *)
TypeOK ==
  /\ authors \in [Authors -> Author]
  /\ DOMAIN books \subseteq Books /\ books \in [DOMAIN books -> Book]
  /\ DOMAIN loans \subseteq LoanIds /\ loans \in [DOMAIN loans -> Loan]
  /\ users \in [Users -> BOOLEAN]
  /\ orphaned \subseteq DOMAIN books
  /\ writes \in 0 .. MaxWrites /\ popular \in KeyKinds
  /\ DOMAIN cache = Keys
  /\ \A k \in Keys : cache[k] # None =>
       /\ DOMAIN cache[k] = {"value", "ex", "left_stale"}
       /\ {cache[k].ex, cache[k].left_stale} \subseteq BOOLEAN
       /\ k \in BookKeys => cache[k].value \in BookView
       /\ k \in LoanKeys => cache[k].value \in Nat
       /\ k \in ListKeys => cache[k].value.total \in Nat
  /\ DOMAIN session = Requests
  /\ \A r \in Requests :
       /\ DOMAIN session[r] = DOMAIN Idle
       /\ session[r].op \in Operations \cup {None}
       /\ session[r].pc \in {"idle", "get", "select", "count", "set", "commit", "invalidate"}
       /\ At(r, "invalidate") <=> session[r].todo # <<>>
       /\ Pending(r) \subseteq Keys

(* An entry that does not show the rows is one some handler is still to     *)
(* delete, or one of the three that nobody deletes: it was stored by a      *)
(* reader that selected before a commit or between the two SELECTs, its     *)
(* deletion was lost with a request, or its writer never asks for it        *)
(* (renew_loan, delete_user).  Every other write reaches every key that     *)
(* shows what it changed, whatever is set while it scans.                   *)
StaleEntriesAccountedFor ==
  \A k \in Keys :
    Stale(k) => cache[k].left_stale \/ \E r \in Requests : k \in Pending(r)

(* delete_author leaves a book active only if the book was inserted after   *)
(* the deletion had loaded the author's books; every other book of a        *)
(* deleted author is inactive, whatever updates it meanwhile.               *)
OrphansWereInsertedMeanwhile ==
  \A b \in DOMAIN books :
    books[b].is_active /\ ~authors[books[b].author].is_active => b \in orphaned

(* What a handler has found, and what it has left to do, by its step. *)
RequestInv(r) ==
  LET s == session[r] IN
  /\ s.todo \in Seq([keys: SUBSET Keys, scans: BOOLEAN])
  /\ s.scanned # None => Head(s.todo).scans /\ s.scanned \subseteq Head(s.todo).keys
  /\ ~At(r, "invalidate") => s.todo = <<>> /\ s.scanned = None
  /\ s.pc \in {"get", "select", "count", "set"} =>
       s.key \in Keys /\ (s.op \in LoanOps => s.key = LoanKey(s.id))
  /\ At(r, "count") => s.key \in ListKeys
  /\ At(r, "set") =>
       /\ s.key \in BookKeys => s.seen \in BookView /\ s.key[2] \in DOMAIN books
       /\ s.key \in LoanKeys => s.seen \in Nat /\ s.key[2] \in DOMAIN loans
       /\ s.key \in ListKeys => s.seen.total \in Nat
  /\ AtCommit(r, "create_book") => s.id \in Authors /\ s.book \in Books
  /\ AtCommit(r, "update_book") \/ AtCommit(r, "delete_book") => s.book \in DOMAIN books
  /\ AtCommit(r, "update_author") => s.id \in Authors
  /\ AtCommit(r, "delete_author") =>
       s.id \in Authors /\ BooksOf(s.id) \subseteq s.loaded \cup orphaned
  /\ AtCommit(r, "create_loan") =>
       /\ s.id \in LoanIds \ DOMAIN loans /\ s.user \in Users /\ s.book \in Books
       /\ \A q \in Requests \ {r} : AtCommit(q, "create_loan") => session[q].id # s.id
  /\ At(r, "commit") /\ s.op \in LoanOps \cup {"update_loan"} => s.id \in DOMAIN loans

(* The inductive invariant of the proofs: an author's deletion has loaded   *)
(* every book that was not inserted across it, ids of new loans are free,   *)
(* the books of loans are stored, and only stored rows are cached.          *)
IInv ==
  /\ TypeOK
  /\ StaleEntriesAccountedFor
  /\ OrphansWereInsertedMeanwhile
  /\ \A l \in DOMAIN loans : loans[l].book \in DOMAIN books
  /\ \A b \in Books : cache[BookKey(b)] # None => b \in DOMAIN books
  /\ \A l \in LoanIds : cache[LoanKey(l)] # None => l \in DOMAIN loans
  /\ \A r \in Requests : RequestInv(r)

(* A deleted book or author stays deleted, although requests that found it  *)
(* active commit their updates later.                                       *)
DeletionsAreFinal ==
  [][/\ \A b \in DOMAIN books : b \in DOMAIN books' /\ (books'[b].is_active => books[b].is_active)
     /\ \A a \in Authors : authors'[a].is_active => authors[a].is_active]_vars

(* When the writes cease the cache comes to show the rows and keeps doing   *)
(* so: whatever was left stale expires, and no reader stores it again.      *)
CacheConverges == <>[](\A k \in Keys : ~Stale(k))

-----------------------------------------------------------------------------
(* The repository's README: the cache is invalidated by the relevant        *)
(* writes.  So after a request that ran alone no entry is out of date.      *)
WritesInvalidate ==
  (\A r \in Requests : At(r, "idle")) => \A k \in Keys : ~Stale(k)
=============================================================================
