---------------------------- MODULE CatalogueProofs ----------------------------
(* Proofs about Catalogue, for any numbers of rows, users and requests:     *)
(* which cached entries can be out of date, and that deletions of books and *)
(* authors last.                                                            *)
EXTENDS Catalogue, FiniteSetTheorems, TLAPS

-----------------------------------------------------------------------------
(* What a key shows, now and after a step. *)

BookAnswer(b) == IF Visible(b) THEN Shown(b) ELSE None
LoanAnswer(l) == IF l \in DOMAIN loans THEN loans[l].version ELSE None
BookItems == [b \in {c \in Books : Visible(c)} |-> Shown(b)]
LoanItems == [l \in DOMAIN loans |-> loans[l].version]
LoanItemsOf(u) == [l \in {m \in DOMAIN loans : loans[m].user = u} |-> loans[l].version]
Listing(items) == [items |-> items, total |-> Cardinality(DOMAIN items)]
UserAnswer(u) == IF users[u] THEN Listing(LoanItemsOf(u)) ELSE None

(* A single book. *)
LEMMA BookKeyShows ==
  ASSUME NEW b
  PROVE  /\ BookKey(b) \notin ListKeys
         /\ Current(BookKey(b)) = BookAnswer(b)
         /\ Current(BookKey(b))' = BookAnswer(b)'
<1>1. BookKey(b) \notin ListKeys
  BY DEF BookKey, ListKeys, BookLists, LoanLists, UserLoans, BookListKey, LoanListKey, UserLoansKey
<1> QED
  BY <1>1 DEF BookKey, Current, Item, BookAnswer

(* A single loan. *)
LEMMA LoanKeyShows ==
  ASSUME NEW l
  PROVE  /\ LoanKey(l) \notin ListKeys
         /\ Current(LoanKey(l)) = LoanAnswer(l)
         /\ Current(LoanKey(l))' = LoanAnswer(l)'
<1>1. LoanKey(l) \notin ListKeys
  BY DEF LoanKey, ListKeys, BookLists, LoanLists, UserLoans, BookListKey, LoanListKey, UserLoansKey
<1> QED
  BY <1>1 DEF LoanKey, Current, Item, LoanAnswer

(* A page of books. *)
LEMMA BookListShows ==
  ASSUME NEW p \in Pages
  PROVE  /\ BookListKey(p) \in ListKeys
         /\ Items(BookListKey(p)) = BookItems
         /\ Current(BookListKey(p)) = Listing(BookItems)
         /\ Current(BookListKey(p))' = Listing(BookItems)'
<1> DEFINE k == BookListKey(p)
<1>1. k \in ListKeys
  BY DEF ListKeys, BookLists
<1>2. k[1] = "books:list"
  BY DEF BookListKey
<1>3. Items(k) = BookItems /\ Items(k)' = BookItems'
  BY <1>2 DEF Items, BookItems
<1>4. Found(k) /\ Found(k)'
  BY <1>2 DEF Found
<1> QED
  BY <1>1, <1>3, <1>4 DEF Current, Listing

(* A page of all loans. *)
LEMMA LoanListShows ==
  ASSUME NEW p \in Pages
  PROVE  /\ LoanListKey(p) \in ListKeys
         /\ Items(LoanListKey(p)) = LoanItems
         /\ Current(LoanListKey(p)) = Listing(LoanItems)
         /\ Current(LoanListKey(p))' = Listing(LoanItems)'
<1> DEFINE k == LoanListKey(p)
<1>1. k \in ListKeys
  BY DEF ListKeys, LoanLists
<1>2. k[1] = "loans:list"
  BY DEF LoanListKey
<1>3. Items(k) = LoanItems /\ Items(k)' = LoanItems'
  BY <1>2 DEF Items, LoanItems
<1>4. Found(k) /\ Found(k)'
  BY <1>2 DEF Found
<1> QED
  BY <1>1, <1>3, <1>4 DEF Current, Listing

(* A page of a user's loans. *)
LEMMA UserLoansShows ==
  ASSUME NEW u \in Users, NEW p \in Pages
  PROVE  /\ UserLoansKey(u, p) \in ListKeys
         /\ Items(UserLoansKey(u, p)) = LoanItemsOf(u)
         /\ Current(UserLoansKey(u, p)) = UserAnswer(u)
         /\ Current(UserLoansKey(u, p))' = UserAnswer(u)'
<1> DEFINE k == UserLoansKey(u, p)
<1>1. k \in ListKeys
  BY DEF ListKeys, UserLoans
<1>2. k[1] = "loans:user" /\ k[2] = u
  BY DEF UserLoansKey
<1>3. Items(k) = LoanItemsOf(u) /\ Items(k)' = LoanItemsOf(u)'
  BY <1>2 DEF Items, LoanItemsOf
<1>4. (Found(k) <=> users[u]) /\ (Found(k)' <=> users'[u])
  BY <1>2 DEF Found
<1> QED
  BY <1>1, <1>3, <1>4 DEF Current, Listing, UserAnswer

(* There are no other keys. *)
LEMMA KindsOfKeys ==
  ASSUME NEW k \in Keys
  PROVE  \/ \E b \in Books : k = BookKey(b)
         \/ \E p \in Pages : k = BookListKey(p)
         \/ \E l \in LoanIds : k = LoanKey(l)
         \/ \E p \in Pages : k = LoanListKey(p)
         \/ \E u \in Users, p \in Pages : k = UserLoansKey(u, p)
BY DEF Keys, KeyKinds, BookKeys, BookLists, LoanKeys, LoanLists, UserLoans

(* A commit to books and authors shows in no key but those of the books it  *)
(* touches and of the pages of books.                                       *)
LEMMA BooksShowElsewhere ==
  ASSUME loans' = loans, users' = users, NEW touched,
         \A b \in Books \ touched : BookAnswer(b)' = BookAnswer(b),
         NEW k \in Keys, Current(k)' # Current(k)
  PROVE  k \in {BookKey(b) : b \in touched} \cup BookLists
<1>1. ASSUME NEW b \in Books \ touched, k = BookKey(b)
      PROVE  FALSE
  BY <1>1, BookKeyShows
<1>2. ASSUME NEW l \in LoanIds, k = LoanKey(l)
      PROVE  FALSE
  BY <1>2, LoanKeyShows DEF LoanAnswer
<1>3. ASSUME NEW p \in Pages, k = LoanListKey(p)
      PROVE  FALSE
  <2>1. Listing(LoanItems)' = Listing(LoanItems)
    BY DEF Listing, LoanItems
  <2> QED
    BY <1>3, <2>1, LoanListShows
<1>4. ASSUME NEW u \in Users, NEW p \in Pages, k = UserLoansKey(u, p)
      PROVE  FALSE
  <2>1. UserAnswer(u)' = UserAnswer(u)
    BY DEF UserAnswer, Listing, LoanItemsOf
  <2> QED
    BY <1>4, <2>1, UserLoansShows
<1> QED
  BY <1>1, <1>2, <1>3, <1>4, KindsOfKeys DEF BookLists

(* A commit to a loan shows in no key but its own, the pages of loans and   *)
(* those of its user, nor does one that touches its book besides, except in *)
(* the keys of books.                                                       *)
LEMMA LoanShowsElsewhere ==
  ASSUME users' = users, NEW l, NEW u,
         DOMAIN loans' \ {l} = DOMAIN loans \ {l},
         \A m \in DOMAIN loans \ {l} : loans'[m] = loans[m],
         l \in DOMAIN loans => loans[l].user = u, l \in DOMAIN loans' => loans'[l].user = u,
         NEW k \in Keys, Current(k)' # Current(k)
  PROVE  k \in {LoanKey(l)} \cup LoanLists \cup UserLoans(u) \cup BookKeys \cup BookLists
<1>1. ASSUME NEW m \in LoanIds, m # l, k = LoanKey(m)
      PROVE  FALSE
  BY <1>1, LoanKeyShows DEF LoanAnswer
<1>2. ASSUME NEW v \in Users, v # u, NEW p \in Pages, k = UserLoansKey(v, p)
      PROVE  FALSE
  <2>1. {m \in DOMAIN loans' : loans'[m].user = v} = {m \in DOMAIN loans : loans[m].user = v}
    BY <1>2
  <2>2. \A m \in {m \in DOMAIN loans : loans[m].user = v} : loans'[m] = loans[m]
    BY <1>2
  <2>3. LoanItemsOf(v)' = LoanItemsOf(v)
    BY <2>1, <2>2 DEF LoanItemsOf
  <2>4. UserAnswer(v)' = UserAnswer(v)
    BY <2>3 DEF UserAnswer, Listing
  <2> QED
    BY <1>2, <2>4, UserLoansShows
<1>3. ASSUME NEW m \in LoanIds, k = LoanKey(m)
      PROVE  k \in {LoanKey(l)}
  BY <1>1, <1>3
<1>4. ASSUME NEW v \in Users, NEW p \in Pages, k = UserLoansKey(v, p)
      PROVE  k \in UserLoans(u)
  BY <1>2, <1>4 DEF UserLoans
<1>5. /\ \A b \in Books : BookKey(b) \in BookKeys
      /\ \A p \in Pages : BookListKey(p) \in BookLists /\ LoanListKey(p) \in LoanLists
  BY DEF BookKeys, BookLists, LoanLists
<1>6. \/ k \in {LoanKey(l)} \/ k \in LoanLists \/ k \in UserLoans(u)
      \/ k \in BookKeys \/ k \in BookLists
  <2>1. CASE \E b \in Books : k = BookKey(b)
    BY <1>5, <2>1
  <2>2. CASE \E p \in Pages : k = BookListKey(p) \/ k = LoanListKey(p)
    BY <1>5, <2>2
  <2>3. CASE \E m \in LoanIds : k = LoanKey(m)
    BY <1>3, <2>3
  <2>4. CASE \E v \in Users, p \in Pages : k = UserLoansKey(v, p)
    BY <1>4, <2>4
  <2> QED
    BY <2>1, <2>2, <2>3, <2>4, KindsOfKeys
<1> QED
  BY <1>6

(* No row changes, no key shows anything else. *)
LEMMA NothingShows ==
  ASSUME UNCHANGED tables, NEW k \in Keys
  PROVE  Current(k)' = Current(k)
<1>1. \A b \in Books : BookAnswer(b)' = BookAnswer(b)
  BY DEF tables, BookAnswer, Visible, Shown
<1>2. ASSUME Current(k)' # Current(k) PROVE k \in BookLists
  <2>1. loans' = loans /\ users' = users /\ \A b \in Books \ {} : BookAnswer(b)' = BookAnswer(b)
    BY <1>1 DEF tables
  <2>2. k \in {BookKey(b) : b \in {}} \cup BookLists
    BY <1>2, <2>1, BooksShowElsewhere
  <2> QED
    BY <2>2
<1>3. Listing(BookItems)' = Listing(BookItems)
  BY DEF tables, Listing, BookItems, Visible, Shown
<1> QED
  BY <1>2, <1>3, BookListShows DEF BookLists

-----------------------------------------------------------------------------
(* The parts of the invariant. *)

TablesOK ==
  /\ authors \in [Authors -> Author]
  /\ DOMAIN books \subseteq Books /\ books \in [DOMAIN books -> Book]
  /\ DOMAIN loans \subseteq LoanIds /\ loans \in [DOMAIN loans -> Loan]
  /\ users \in [Users -> BOOLEAN]
  /\ orphaned \subseteq DOMAIN books
  /\ writes \in 0 .. MaxWrites /\ popular \in KeyKinds
  /\ \A l \in DOMAIN loans : loans[l].book \in DOMAIN books

EntryOK(k) ==
  cache[k] # None =>
    /\ DOMAIN cache[k] = {"value", "ex", "left_stale"}
    /\ {cache[k].ex, cache[k].left_stale} \subseteq BOOLEAN
    /\ k \in BookKeys => cache[k].value \in BookView
    /\ k \in LoanKeys => cache[k].value \in Nat
    /\ k \in ListKeys => cache[k].value.total \in Nat

CacheOK == DOMAIN cache = Keys /\ \A k \in Keys : EntryOK(k)

CachedRowsStored ==
  /\ \A b \in Books : cache[BookKey(b)] # None => b \in DOMAIN books
  /\ \A l \in LoanIds : cache[LoanKey(l)] # None => l \in DOMAIN loans

PcSet == {"idle", "get", "select", "count", "set", "commit", "invalidate"}

SlotOK(r) ==
  /\ DOMAIN session[r] = DOMAIN Idle
  /\ session[r].op \in Operations \cup {None}
  /\ session[r].pc \in PcSet
  /\ At(r, "invalidate") <=> session[r].todo # <<>>
  /\ Pending(r) \subseteq Keys
  /\ RequestInv(r)

Covered(k) == Stale(k) => cache[k].left_stale \/ \E r \in Requests : k \in Pending(r)

(* The invariant, by parts.                                                 *)
LEMMA IInvParts ==
  IInv <=> /\ TablesOK /\ CacheOK /\ CachedRowsStored
           /\ OrphansWereInsertedMeanwhile
           /\ \A k \in Keys : Covered(k)
           /\ DOMAIN session = Requests /\ \A r \in Requests : SlotOK(r)
BY DEF IInv, TypeOK, TablesOK, CacheOK, EntryOK, CachedRowsStored, StaleEntriesAccountedFor,
   Covered, SlotOK, PcSet

(* After a step too.                                                        *)
LEMMA IInvPartsNext ==
  IInv' <=> /\ TablesOK' /\ CacheOK' /\ CachedRowsStored'
            /\ OrphansWereInsertedMeanwhile'
            /\ \A k \in Keys : Covered(k)'
            /\ DOMAIN session' = Requests /\ \A r \in Requests : SlotOK(r)'
BY DEF IInv, TypeOK, TablesOK, CacheOK, EntryOK, CachedRowsStored, StaleEntriesAccountedFor,
   Covered, SlotOK, PcSet

Fields == {"op", "pc", "id", "book", "user", "key", "seen", "loaded", "todo", "scanned"}

(* What a slot has.                                                         *)
LEMMA IdleFields == DOMAIN Idle = Fields
BY DEF Idle, Fields

(* What a handler asks Redis to delete. *)
Calls == [keys: SUBSET Keys, scans: BOOLEAN]
KeysIn(calls) == UNION {calls[i].keys : i \in DOMAIN calls}

(* An empty slot has nothing pending. *)
LEMMA IdleSlot ==
  ASSUME NEW r \in Requests, session'[r] = Idle
  PROVE  SlotOK(r)' /\ Pending(r)' = {} /\ ~At(r, "commit")'
<1>1. /\ Idle.todo = <<>> /\ Idle.scanned = None /\ Idle.pc = "idle" /\ Idle.op = None
  BY DEF Idle
<1>2. Pending(r)' = {}
  BY <1>1 DEF Pending
<1>3. RequestInv(r)'
  BY <1>1 DEF RequestInv, At, AtCommit
<1> QED
  BY <1>1, <1>2, <1>3 DEF SlotOK, PcSet, At

(* What is pending of a request that has not begun its scan. *)
LEMMA PendingUnscanned ==
  ASSUME NEW r \in Requests
  PROVE  /\ session[r].scanned = None => Pending(r) = KeysIn(session[r].todo)
         /\ session'[r].scanned = None => Pending(r)' = KeysIn(session'[r].todo)
BY DEF Pending, KeysIn

(* Calls delete keys.                                                       *)
LEMMA KeysInType ==
  ASSUME NEW calls \in Seq(Calls)
  PROVE  KeysIn(calls) \subseteq Keys
<1>1. \A i \in DOMAIN calls : calls[i] \in Calls
  OBVIOUS
<1>2. \A i \in DOMAIN calls : calls[i].keys \subseteq Keys
  BY <1>1 DEF Calls
<1> QED
  BY <1>2 DEF KeysIn

(* The calls of a handler, as RequestInv has them.                          *)
LEMMA CallsType == Calls = [keys: SUBSET Keys, scans: BOOLEAN]
BY DEF Calls

(* After DoNext the calls that are left are pending. *)
LEMMA DoNextEffect ==
  ASSUME DOMAIN session = Requests, NEW r \in Requests, SlotOK(r),
         NEW calls \in Seq(Calls), DoNext(r, calls)
  PROVE  /\ DOMAIN session' = Requests
         /\ \A q \in Requests \ {r} : session'[q] = session[q]
         /\ SlotOK(r)' /\ Pending(r)' = KeysIn(calls) /\ ~At(r, "commit")'
<1>1. /\ DOMAIN session' = Requests
      /\ \A q \in Requests \ {r} : session'[q] = session[q]
  BY DEF DoNext
<1>2. CASE calls = <<>>
  <2>1. session'[r] = Idle
    BY <1>2 DEF DoNext
  <2>2. KeysIn(calls) = {}
    BY <1>2 DEF KeysIn
  <2> QED
    BY <1>1, <2>1, <2>2, IdleSlot
<1>3. CASE calls # <<>>
  <2>1. session'[r] = [session[r] EXCEPT !.pc = "invalidate", !.todo = calls, !.scanned = None]
    BY <1>3 DEF DoNext
  <2>2. DOMAIN session[r] = Fields
    BY IdleFields DEF SlotOK
  <2>3. /\ DOMAIN session'[r] = Fields
        /\ session'[r].pc = "invalidate" /\ session'[r].todo = calls /\ session'[r].scanned = None
        /\ session'[r].op = session[r].op
    BY <2>1, <2>2 DEF Fields
  <2>4. Pending(r)' = KeysIn(calls) /\ Pending(r)' \subseteq Keys
    BY <2>3, PendingUnscanned, KeysInType
  <2>5. RequestInv(r)'
    BY <2>3, CallsType DEF RequestInv, At, AtCommit
  <2> QED
    BY <1>1, <1>3, <2>3, <2>4, <2>5, IdleFields DEF SlotOK, PcSet, At
<1> QED
  BY <1>2, <1>3

(* What a step of r leaves the other requests: rows are only added, books   *)
(* keep their authors, a new loan has the id that r holds, and a book       *)
(* inserted across a deletion is recorded.                                  *)
RowsKept(r) ==
  /\ DOMAIN loans \subseteq DOMAIN loans' /\ DOMAIN books \subseteq DOMAIN books'
  /\ orphaned \subseteq orphaned'
  /\ \A b \in DOMAIN books : books'[b].author = books[b].author
  /\ \A q \in Requests : \A b \in DOMAIN books' \ DOMAIN books :
       AtCommit(q, "delete_author") /\ session[q].id = books'[b].author => b \in orphaned'
  /\ \A l \in DOMAIN loans' \ DOMAIN loans : AtCommit(r, "create_loan") /\ l = session[r].id

(* Then the others have what they rely on. *)
LEMMA OthersUndisturbed ==
  ASSUME IInv, NEW r \in Requests, NEW q \in Requests \ {r},
         \A p \in Requests \ {r} : session'[p] = session[p], RowsKept(r),
         AtCommit(r, "create_loan")' => \A p \in Requests : session[p].id # session'[r].id
  PROVE  SlotOK(q)'
<1> DEFINE s == session[q]
<1>1. SlotOK(q) /\ session'[q] = s
  BY IInvParts
<1>2. RequestInv(q)
  BY <1>1 DEF SlotOK
<1>3. AtCommit(q, "delete_author") => BooksOf(s.id)' \subseteq s.loaded \cup orphaned'
  <2> SUFFICES ASSUME AtCommit(q, "delete_author"), NEW b \in DOMAIN books', books'[b].author = s.id
               PROVE  b \in s.loaded \cup orphaned'
    BY <1>1 DEF BooksOf
  <2>1. CASE b \in DOMAIN books
    BY <1>2, <2>1 DEF RequestInv, BooksOf, RowsKept
  <2>2. CASE b \notin DOMAIN books
    BY <2>2 DEF RowsKept
  <2> QED
    BY <2>1, <2>2
<1>4. AtCommit(q, "create_loan") =>
        /\ s.id \in LoanIds \ DOMAIN loans'
        /\ \A p \in Requests \ {q} : AtCommit(p, "create_loan")' => session'[p].id # s.id
  <2> SUFFICES ASSUME AtCommit(q, "create_loan")
               PROVE  /\ s.id \in LoanIds \ DOMAIN loans'
                      /\ \A p \in Requests \ {q} : AtCommit(p, "create_loan")' => session'[p].id # s.id
    OBVIOUS
  <2>1. /\ s.id \in LoanIds \ DOMAIN loans
        /\ \A p \in Requests \ {q} : AtCommit(p, "create_loan") => session[p].id # s.id
    BY <1>2 DEF RequestInv
  <2>2. s.id \notin DOMAIN loans'
    BY <2>1 DEF RowsKept
  <2>3. ASSUME NEW p \in Requests \ {q}, AtCommit(p, "create_loan")'
        PROVE  session'[p].id # s.id
    <3>1. CASE p = r
      BY <2>3, <3>1
    <3>2. CASE p # r
      BY <2>1, <2>3, <3>2 DEF AtCommit, At
    <3> QED
      BY <3>1, <3>2
  <2> QED
    BY <2>1, <2>2, <2>3
<1>5. RequestInv(q)'
  <2>1. \A op : AtCommit(q, op)' <=> AtCommit(q, op)
    BY <1>1 DEF AtCommit, At
  <2>2. \A pc : At(q, pc)' <=> At(q, pc)
    BY <1>1 DEF At
  <2> QED
    BY <1>1, <1>2, <1>3, <1>4, <2>1, <2>2 DEF RequestInv, RowsKept
<1>6. Pending(q)' = Pending(q)
  BY <1>1 DEF Pending
<1> QED
  BY <1>1, <1>5, <1>6 DEF SlotOK, At

(* A step of r that writes no row keeps the invariant, if each entry shows  *)
(* the rows, is marked, or is as it was and still pending if it was so.     *)
LEMMA QuietStep ==
  ASSUME IInv, NEW r \in Requests,
         UNCHANGED <<tables, orphaned, popular>>, writes' \in 0 .. MaxWrites,
         DOMAIN session' = Requests, \A q \in Requests \ {r} : session'[q] = session[q],
         SlotOK(r)', CacheOK', CachedRowsStored',
         \A k \in Keys :
           \/ Stale(k)' => cache'[k].left_stale
           \/ cache'[k] = cache[k] /\ (k \in Pending(r) /\ Stale(k) => k \in Pending(r)'),
         AtCommit(r, "create_loan")' => \A p \in Requests : session[p].id # session'[r].id
  PROVE  IInv'
<1>1. TablesOK' /\ OrphansWereInsertedMeanwhile'
  BY IInvParts DEF tables, TablesOK, OrphansWereInsertedMeanwhile
<1>2. \A q \in Requests \ {r} : SlotOK(q)'
  <2>1. RowsKept(r)
    BY DEF RowsKept, tables
  <2> QED
    BY <2>1, OthersUndisturbed
<1>3. ASSUME NEW k \in Keys, Stale(k)', ~cache'[k].left_stale
      PROVE  \E q \in Requests : k \in Pending(q)'
  <2>1. cache'[k] = cache[k] /\ (k \in Pending(r) /\ Stale(k) => k \in Pending(r)')
    BY <1>3
  <2>2. Stale(k)
    BY <1>3, <2>1, NothingShows DEF Stale
  <2>3. PICK q \in Requests : k \in Pending(q)
    BY <1>3, <2>1, <2>2, IInvParts DEF Covered
  <2>4. CASE q = r
    BY <2>1, <2>2, <2>3, <2>4
  <2>5. CASE q # r
    BY <2>3, <2>5 DEF Pending
  <2> QED
    BY <2>4, <2>5
<1>4. \A k \in Keys : Covered(k)'
  BY <1>3 DEF Covered
<1> QED
  BY <1>1, <1>2, <1>4, IInvPartsNext

-----------------------------------------------------------------------------
(* Reading and invalidating keep the invariant. *)

(* The kinds of keys have no key in common.                                 *)
LEMMA KeyDisjoint ==
  /\ \A k \in ListKeys : k \in Keys /\ k \notin BookKeys /\ k \notin LoanKeys
  /\ BookKeys \subseteq Keys /\ LoanKeys \subseteq Keys /\ BookKeys \cap LoanKeys = {}
  /\ (\A b : BookKey(b)[2] = b) /\ (\A l : LoanKey(l)[2] = l)
  /\ \A l : LoanKey(l) \in Keys => l \in LoanIds
<1>1. BookKeys \subseteq Keys /\ LoanKeys \subseteq Keys
  BY DEF Keys, KeyKinds
<1>2. BookKeys \cap LoanKeys = {}
  BY DEF BookKeys, LoanKeys, BookKey, LoanKey
<1>3. \A k \in ListKeys : k \in Keys
  BY DEF ListKeys, Keys, KeyKinds
<1>4. \A k \in ListKeys : k \notin BookKeys /\ k \notin LoanKeys
  BY BookKeyShows, LoanKeyShows DEF BookKeys, LoanKeys
<1>5. (\A b : BookKey(b)[2] = b) /\ (\A l : LoanKey(l)[2] = l)
  BY DEF BookKey, LoanKey
<1>6. ASSUME NEW l, LoanKey(l) \in Keys
      PROVE  l \in LoanIds
  <2>1. \A b : BookKey(b) # LoanKey(l)
    BY DEF BookKey, LoanKey
  <2>2. LoanKey(l) \notin ListKeys
    BY LoanKeyShows
  <2>3. PICK m \in LoanIds : LoanKey(l) = LoanKey(m)
    BY <1>6, <2>1, <2>2, KindsOfKeys, BookListShows, LoanListShows, UserLoansShows
  <2> QED
    BY <2>3 DEF LoanKey
<1> QED
  BY <1>1, <1>2, <1>3, <1>4, <1>5, <1>6

(* A selected row has its type. *)
LEMMA ItemType ==
  ASSUME TablesOK, NEW k \in Keys \ ListKeys, Current(k) # None
  PROVE  /\ k \in BookKeys => Item(k) \in BookView /\ k[2] \in DOMAIN books
         /\ k \in LoanKeys => Item(k) \in Nat /\ k[2] \in DOMAIN loans
<1>1. Item(k) = Current(k)
  BY DEF Current
<1>2. ASSUME NEW b \in Books, k = BookKey(b)
      PROVE  Item(k) \in BookView /\ b \in DOMAIN books
  <2>1. Visible(b) /\ Item(k) = Shown(b)
    BY <1>1, <1>2, BookKeyShows DEF BookAnswer
  <2>2. books[b] \in Book
    BY <2>1 DEF Visible, TablesOK
  <2>3. authors[books[b].author] \in Author
    BY <2>2 DEF TablesOK, Book
  <2> QED
    BY <2>1, <2>2, <2>3 DEF Visible, Shown, Book, Author, BookView
<1>3. ASSUME NEW l \in LoanIds, k = LoanKey(l)
      PROVE  Item(k) \in Nat /\ l \in DOMAIN loans
  BY <1>1, <1>3, LoanKeyShows DEF LoanAnswer, TablesOK, Loan
<1> QED
  BY <1>2, <1>3, KeyDisjoint DEF BookKeys, LoanKeys

(* A count is a number. *)
LEMMA TotalType ==
  ASSUME TablesOK, NEW k \in ListKeys
  PROVE  Cardinality(DOMAIN Items(k)) \in Nat
<1>1. DOMAIN Items(k) \subseteq Books \/ DOMAIN Items(k) \subseteq LoanIds
  <2>1. ASSUME NEW p \in Pages, k = BookListKey(p)
        PROVE  DOMAIN Items(k) \subseteq Books
    BY <2>1, BookListShows DEF BookItems
  <2>2. ASSUME NEW p \in Pages, k = LoanListKey(p)
        PROVE  DOMAIN Items(k) \subseteq LoanIds
    BY <2>2, LoanListShows DEF LoanItems, TablesOK
  <2>3. ASSUME NEW u \in Users, NEW p \in Pages, k = UserLoansKey(u, p)
        PROVE  DOMAIN Items(k) \subseteq LoanIds
    <3>1. Items(k) = LoanItemsOf(u)
      BY <2>3, UserLoansShows
    <3>2. DOMAIN LoanItemsOf(u) \subseteq DOMAIN loans
      BY DEF LoanItemsOf
    <3> QED
      BY <3>1, <3>2 DEF TablesOK
  <2> QED
    BY <2>1, <2>2, <2>3 DEF ListKeys, BookLists, LoanLists, UserLoans
<1> QED
  BY <1>1, CatalogueAssumption, FS_Subset, FS_CardinalityType

(* A request that reads has nothing pending. *)
LEMMA ReadingSlot ==
  ASSUME NEW r \in Requests, DOMAIN session'[r] = Fields,
         session'[r].op \in Operations \cup {None},
         session'[r].pc \in {"get", "select", "count", "set"},
         session'[r].todo = <<>>, session'[r].scanned = None, session'[r].key \in Keys,
         session'[r].op \in LoanOps => session'[r].key = LoanKey(session'[r].id),
         session'[r].pc = "count" => session'[r].key \in ListKeys,
         session'[r].pc = "set" =>
           /\ session'[r].key \in BookKeys =>
                session'[r].seen \in BookView /\ session'[r].key[2] \in DOMAIN books'
           /\ session'[r].key \in LoanKeys =>
                session'[r].seen \in Nat /\ session'[r].key[2] \in DOMAIN loans'
           /\ session'[r].key \in ListKeys => session'[r].seen.total \in Nat
  PROVE  SlotOK(r)' /\ Pending(r)' = {} /\ ~At(r, "commit")'
<1>1. Pending(r)' = {}
  BY DEF Pending
<1>2. RequestInv(r)'
  BY DEF RequestInv, At, AtCommit
<1> QED
  BY <1>1, <1>2, IdleFields DEF SlotOK, PcSet, At

(* What is known of a request before it commits or invalidates. *)
LEMMA BeforeCommit ==
  ASSUME IInv, NEW r \in Requests, session[r].pc \in {"get", "select", "count", "set"}
  PROVE  /\ DOMAIN session[r] = Fields /\ session[r].op \in Operations \cup {None}
         /\ session[r].todo = <<>> /\ session[r].scanned = None /\ Pending(r) = {}
         /\ session[r].key \in Keys
         /\ session[r].op \in LoanOps => session[r].key = LoanKey(session[r].id)
         /\ DOMAIN session = Requests
<1>1. SlotOK(r) /\ DOMAIN session = Requests
  BY IInvParts
<1>2. session[r].todo = <<>> /\ session[r].scanned = None
  BY <1>1 DEF SlotOK, RequestInv, At
<1>3. Pending(r) = {}
  BY <1>2 DEF Pending
<1> QED
  BY <1>1, <1>2, <1>3, IdleFields DEF SlotOK, RequestInv

(* A request that gives up has nothing pending. *)
LEMMA FinishEffect ==
  ASSUME IInv, NEW r \in Requests, Finish(r)
  PROVE  /\ DOMAIN session' = Requests /\ session'[r] = Idle
         /\ \A q \in Requests \ {r} : session'[q] = session[q]
         /\ SlotOK(r)' /\ Pending(r)' = {} /\ ~At(r, "commit")'
<1>1. /\ DOMAIN session' = Requests /\ session'[r] = Idle
      /\ \A q \in Requests \ {r} : session'[q] = session[q]
  BY IInvParts DEF Finish
<1> QED
  BY <1>1, IdleSlot

(* A loan operation goes on with a loan that is stored. *)
LEMMA AnswerEffect ==
  ASSUME IInv, NEW r \in Requests, session[r].pc \in {"get", "set"}, Answer(r),
         session[r].op \in LoanOps => session[r].id \in DOMAIN loans,
         UNCHANGED <<tables, orphaned>>
  PROVE  /\ DOMAIN session' = Requests
         /\ \A q \in Requests \ {r} : session'[q] = session[q]
         /\ SlotOK(r)' /\ Pending(r)' = {} /\ ~AtCommit(r, "create_loan")'
<1>1. CASE session[r].op \notin LoanOps
  BY <1>1, FinishEffect DEF Answer, AtCommit
<1>2. CASE session[r].op \in LoanOps
  <2>1. /\ DOMAIN session[r] = Fields /\ session[r].op \in Operations \cup {None}
        /\ session[r].todo = <<>> /\ session[r].scanned = None /\ DOMAIN session = Requests
    BY BeforeCommit
  <2>2. /\ DOMAIN session' = Requests
        /\ \A q \in Requests \ {r} : session'[q] = session[q]
        /\ session'[r] = [session[r] EXCEPT !.pc = "commit", !.key = None, !.seen = None]
    BY <1>2, <2>1 DEF Answer
  <2>3. /\ DOMAIN session'[r] = Fields /\ session'[r].pc = "commit"
        /\ session'[r].op = session[r].op /\ session'[r].id = session[r].id
        /\ session'[r].todo = <<>> /\ session'[r].scanned = None
    BY <2>1, <2>2 DEF Fields
  <2>4. /\ ~At(r, "invalidate")' /\ ~At(r, "count")' /\ ~At(r, "set")'
        /\ \A op \in {"create_book", "update_book", "delete_book", "update_author",
                      "delete_author", "create_loan"} : ~AtCommit(r, op)'
    BY <1>2, <2>3 DEF AtCommit, At, LoanOps
  <2>5. Pending(r)' = {}
    BY <2>3 DEF Pending
  <2>6. RequestInv(r)'
    BY <1>2, <2>3, <2>4 DEF RequestInv, tables
  <2> QED
    BY <2>1, <2>2, <2>3, <2>4, <2>5, <2>6, IdleFields DEF SlotOK, PcSet
<1> QED
  BY <1>1, <1>2

(* A read, or a loan operation that loads its loan, arrives.                *)
LEMMA ReceiveKeeps ==
  ASSUME IInv, NEW r \in Requests, NEW op \in Operations, NEW k \in KeysOf(op),
         op \in LoanOps \cup {"get_book", "list_books", "get_loan", "list_loans", "list_user_loans"},
         Receive(r, op, k)
  PROVE  IInv'
<1>1. k \in Keys /\ (op \in LoanOps => k = LoanKey(k[2]))
  <2>1. CASE op \in LoanOps \cup {"get_loan"}
    <3>1. KeysOf(op) = LoanKeys
      BY <2>1 DEF KeysOf, LoanOps
    <3> QED
      BY <3>1, KeyDisjoint DEF LoanKeys
  <2>2. CASE op = "get_book"
    <3>1. KeysOf(op) = BookKeys /\ op \notin LoanOps
      BY <2>2 DEF KeysOf, LoanOps
    <3> QED
      BY <3>1, KeyDisjoint
  <2>3. CASE op \in {"list_books", "list_loans", "list_user_loans"}
    <3>1. op \notin LoanOps
      BY <2>3 DEF LoanOps
    <3>2. KeysOf(op) \in {BookLists, LoanLists, UNION {UserLoans(u) : u \in Users}}
      BY <2>3, <3>1 DEF KeysOf
    <3> QED
      BY <3>1, <3>2, KeyDisjoint DEF ListKeys
  <2> QED
    BY <2>1, <2>2, <2>3
<1>2. DOMAIN session = Requests /\ writes \in 0 .. MaxWrites /\ CacheOK /\ CachedRowsStored
  BY IInvParts DEF TablesOK
<1>3. /\ DOMAIN session' = Requests
      /\ \A q \in Requests \ {r} : session'[q] = session[q]
      /\ session'[r] = [Idle EXCEPT !.op = op, !.pc = "get", !.key = k,
                          !.id = IF op \in LoanOps THEN k[2] ELSE None]
      /\ UNCHANGED <<cache, tables, orphaned, popular>>
  BY <1>2 DEF Receive
<1>4. /\ DOMAIN session'[r] = Fields
      /\ session'[r].op = op /\ session'[r].pc = "get" /\ session'[r].key = k
      /\ session'[r].todo = <<>> /\ session'[r].scanned = None
      /\ op \in LoanOps => session'[r].id = k[2]
  BY <1>3 DEF Idle, Fields
<1>5. SlotOK(r)' /\ ~At(r, "commit")'
  BY <1>1, <1>4, ReadingSlot
<1>6. writes' \in 0 .. MaxWrites
  BY <1>2, CatalogueAssumption DEF Receive, StartWrite
<1>7. CacheOK' /\ CachedRowsStored'
  BY <1>2, <1>3 DEF CacheOK, EntryOK, CachedRowsStored, tables
<1>8. Pending(r) = {}
  <2>1. At(r, "idle") /\ RequestInv(r)
    BY IInvParts DEF Receive, CanStart, SlotOK
  <2> QED
    BY <2>1 DEF RequestInv, At, Pending
<1> QED
  BY <1>3, <1>5, <1>6, <1>7, <1>8, QuietStep DEF AtCommit

(* The key is looked up in the cache.                                       *)
LEMMA GetKeeps ==
  ASSUME IInv, NEW r \in Requests, Get(r)
  PROVE  IInv'
<1>1. At(r, "get") /\ UNCHANGED <<cache, tables, orphaned, writes, popular>>
  BY DEF Get
<1>2. /\ DOMAIN session[r] = Fields /\ session[r].op \in Operations \cup {None}
      /\ session[r].todo = <<>> /\ session[r].scanned = None /\ Pending(r) = {}
      /\ session[r].key \in Keys
      /\ session[r].op \in LoanOps => session[r].key = LoanKey(session[r].id)
      /\ DOMAIN session = Requests
  BY <1>1, BeforeCommit DEF At
<1>3. CacheOK' /\ CachedRowsStored' /\ writes' \in 0 .. MaxWrites
  BY <1>1, IInvParts DEF CacheOK, EntryOK, CachedRowsStored, tables, TablesOK
<1>4. /\ DOMAIN session' = Requests
      /\ \A q \in Requests \ {r} : session'[q] = session[q]
      /\ SlotOK(r)' /\ ~AtCommit(r, "create_loan")'
  <2>1. CASE cache[session[r].key] # None /\ Answer(r)
    <3>1. session[r].op \in LoanOps => session[r].id \in DOMAIN loans
      BY <1>2, <2>1, KeyDisjoint, IInvParts DEF CachedRowsStored
    <3> QED
      BY <1>1, <2>1, <3>1, AnswerEffect DEF At
  <2>2. CASE session' = [session EXCEPT ![r].pc = "select"]
    <3>1. /\ DOMAIN session' = Requests
          /\ \A q \in Requests \ {r} : session'[q] = session[q]
          /\ session'[r] = [session[r] EXCEPT !.pc = "select"]
      BY <1>2, <2>2
    <3>2. /\ DOMAIN session'[r] = Fields /\ session'[r].pc = "select"
          /\ session'[r].op = session[r].op /\ session'[r].key = session[r].key
          /\ session'[r].id = session[r].id
          /\ session'[r].todo = <<>> /\ session'[r].scanned = None
      BY <1>2, <3>1 DEF Fields
    <3>3. SlotOK(r)' /\ ~At(r, "commit")'
      BY <1>2, <3>2, ReadingSlot
    <3> QED
      BY <3>1, <3>3 DEF AtCommit
  <2> QED
    BY <2>1, <2>2 DEF Get
<1> QED
  BY <1>1, <1>2, <1>3, <1>4, QuietStep

(* A step that changes the slot of r alone, and pends no less. *)
LEMMA SlotStep ==
  ASSUME IInv, NEW r \in Requests,
         UNCHANGED <<cache, tables, orphaned, popular>>, writes' \in 0 .. MaxWrites,
         DOMAIN session' = Requests, \A q \in Requests \ {r} : session'[q] = session[q],
         SlotOK(r)', Pending(r) = {},
         AtCommit(r, "create_loan")' => \A p \in Requests : session[p].id # session'[r].id
  PROVE  IInv'
<1>1. CacheOK' /\ CachedRowsStored'
  BY IInvParts DEF CacheOK, EntryOK, CachedRowsStored, tables
<1> QED
  BY <1>1, QuietStep

(* The count of writes stays within its bound.                              *)
LEMMA WritesType == IInv => writes \in 0 .. MaxWrites
BY IInvParts DEF TablesOK

(* The row, or the page of a listing, is selected.                          *)
LEMMA SelectKeeps ==
  ASSUME IInv, NEW r \in Requests, Select(r)
  PROVE  IInv'
<1> DEFINE k == session[r].key
<1>1. At(r, "select") /\ UNCHANGED <<cache, tables, orphaned, writes, popular>>
  BY DEF Select
<1>2. /\ DOMAIN session[r] = Fields /\ session[r].op \in Operations \cup {None}
      /\ session[r].todo = <<>> /\ session[r].scanned = None /\ Pending(r) = {}
      /\ k \in Keys
      /\ session[r].op \in LoanOps => k = LoanKey(session[r].id)
      /\ DOMAIN session = Requests
  BY <1>1, BeforeCommit DEF At
<1>3. /\ DOMAIN session' = Requests
      /\ \A q \in Requests \ {r} : session'[q] = session[q]
      /\ SlotOK(r)' /\ ~At(r, "commit")'
  <2>1. CASE Current(k) = None
    BY <2>1, FinishEffect DEF Select
  <2>2. CASE Current(k) # None
    <3> DEFINE pc == IF k \in ListKeys THEN "count" ELSE "set"
               seen == IF k \in ListKeys THEN Items(k) ELSE Item(k)
    <3>1. session' = [session EXCEPT ![r].pc = pc, ![r].seen = seen]
      BY <2>2 DEF Select
    <3>2. /\ k \notin ListKeys /\ k \in BookKeys => seen \in BookView /\ k[2] \in DOMAIN books
          /\ k \notin ListKeys /\ k \in LoanKeys => seen \in Nat /\ k[2] \in DOMAIN loans
      BY <1>2, <2>2, ItemType, IInvParts
    <3>3. pc \in {"count", "set"} /\ (pc = "count" <=> k \in ListKeys)
      OBVIOUS
    <3> HIDE DEF pc, seen
    <3>4. /\ DOMAIN session' = Requests
          /\ \A q \in Requests \ {r} : session'[q] = session[q]
          /\ session'[r] = [session[r] EXCEPT !.pc = pc, !.seen = seen]
      BY <1>2, <3>1
    <3>5. /\ DOMAIN session'[r] = Fields /\ session'[r].pc = pc /\ session'[r].seen = seen
          /\ session'[r].op = session[r].op /\ session'[r].key = k
          /\ session'[r].id = session[r].id
          /\ session'[r].todo = <<>> /\ session'[r].scanned = None
      BY <1>2, <3>4 DEF Fields
    <3>6. loans' = loans /\ books' = books
      BY <1>1 DEF tables
    <3> HIDE DEF k
    <3>7. SlotOK(r)' /\ ~At(r, "commit")'
      BY <1>2, <3>2, <3>3, <3>5, <3>6, ReadingSlot
    <3> QED
      BY <3>4, <3>7
  <2> QED
    BY <2>1, <2>2
<1> QED
  BY <1>1, <1>2, <1>3, SlotStep, WritesType DEF AtCommit

(* The rows of a listing are counted.                                       *)
LEMMA CountRowsKeeps ==
  ASSUME IInv, NEW r \in Requests, CountRows(r)
  PROVE  IInv'
<1> DEFINE k == session[r].key
           page == [items |-> session[r].seen, total |-> Cardinality(DOMAIN Items(k))]
<1>1. At(r, "count") /\ UNCHANGED <<cache, tables, orphaned, writes, popular>>
  BY DEF CountRows
<1>2. /\ DOMAIN session[r] = Fields /\ session[r].op \in Operations \cup {None}
      /\ session[r].todo = <<>> /\ session[r].scanned = None /\ Pending(r) = {}
      /\ k \in Keys
      /\ session[r].op \in LoanOps => k = LoanKey(session[r].id)
      /\ DOMAIN session = Requests
  BY <1>1, BeforeCommit DEF At
<1>3. k \in ListKeys /\ k \notin BookKeys /\ k \notin LoanKeys
  BY <1>1, IInvParts, KeyDisjoint DEF SlotOK, RequestInv
<1>4. page.total \in Nat
  BY <1>3, TotalType, IInvParts
<1>5. session' = [session EXCEPT ![r].pc = "set", ![r].seen = page]
  BY DEF CountRows
<1> HIDE DEF page
<1>6. /\ DOMAIN session' = Requests
      /\ \A q \in Requests \ {r} : session'[q] = session[q]
      /\ session'[r] = [session[r] EXCEPT !.pc = "set", !.seen = page]
  BY <1>2, <1>5
<1>7. /\ DOMAIN session'[r] = Fields /\ session'[r].pc = "set" /\ session'[r].seen = page
      /\ session'[r].op = session[r].op /\ session'[r].key = k
      /\ session'[r].id = session[r].id
      /\ session'[r].todo = <<>> /\ session'[r].scanned = None
  BY <1>2, <1>6 DEF Fields
<1> HIDE DEF k
<1>8. SlotOK(r)' /\ ~At(r, "commit")'
  BY <1>2, <1>3, <1>4, <1>7, ReadingSlot
<1> QED
  BY <1>1, <1>2, <1>6, <1>8, SlotStep, WritesType DEF AtCommit

(* What was selected is cached, marked if it is out of date already.        *)
LEMMA FillKeeps ==
  ASSUME IInv, NEW r \in Requests, Fill(r)
  PROVE  IInv'
<1>1. PICK k, seen : k = session[r].key /\ seen = session[r].seen
  OBVIOUS
<1>2. PICK marked \in BOOLEAN : marked = (seen # Current(k))
  OBVIOUS
<1> DEFINE entry == [value |-> seen, ex |-> TRUE, left_stale |-> marked]
<1>3. /\ At(r, "set") /\ Answer(r) /\ UNCHANGED <<tables, orphaned, writes, popular>>
      /\ cache' = [cache EXCEPT ![k] = entry]
  BY <1>1, <1>2 DEF Fill, Set
<1>4. /\ Pending(r) = {} /\ k \in Keys
      /\ session[r].op \in LoanOps => k = LoanKey(session[r].id)
  BY <1>1, <1>3, BeforeCommit DEF At
<1>5. /\ k \in BookKeys => seen \in BookView /\ k[2] \in DOMAIN books
      /\ k \in LoanKeys => seen \in Nat /\ k[2] \in DOMAIN loans
      /\ k \in ListKeys => seen.total \in Nat
  BY <1>1, <1>3, IInvParts DEF SlotOK, RequestInv
<1>6. session[r].op \in LoanOps => session[r].id \in DOMAIN loans
  <2> SUFFICES ASSUME session[r].op \in LoanOps PROVE session[r].id \in DOMAIN loans
    OBVIOUS
  <2>1. k = LoanKey(session[r].id) /\ session[r].id \in LoanIds
    BY <1>4, KeyDisjoint
  <2>2. k \in LoanKeys
    BY <2>1 DEF LoanKeys
  <2> QED
    BY <1>5, <2>1, <2>2, KeyDisjoint
<1>7. /\ DOMAIN session' = Requests
      /\ \A q \in Requests \ {r} : session'[q] = session[q]
      /\ SlotOK(r)' /\ ~AtCommit(r, "create_loan")'
  BY <1>3, <1>6, AnswerEffect DEF At
<1>8. /\ DOMAIN cache' = Keys /\ cache'[k] = entry
      /\ \A j \in Keys \ {k} : cache'[j] = cache[j]
  BY <1>3, <1>4, IInvParts DEF CacheOK
<1>9. CacheOK'
  <2>1. \A j \in Keys \ {k} : EntryOK(j)'
    BY <1>8, IInvParts DEF CacheOK, EntryOK
  <2>2. EntryOK(k)'
    BY <1>5, <1>8 DEF EntryOK
  <2> QED
    BY <1>8, <2>1, <2>2 DEF CacheOK
<1>10. CachedRowsStored'
  <2>1. ASSUME NEW b \in Books, cache'[BookKey(b)] # None
        PROVE  b \in DOMAIN books
    <3>1. BookKey(b) \in BookKeys /\ BookKey(b) \in Keys /\ BookKey(b)[2] = b
      BY KeyDisjoint DEF BookKeys
    <3>2. BookKey(b) # k => cache[BookKey(b)] # None
      BY <1>8, <2>1, <3>1
    <3> QED
      BY <1>5, <3>1, <3>2, IInvParts DEF CachedRowsStored
  <2>2. ASSUME NEW l \in LoanIds, cache'[LoanKey(l)] # None
        PROVE  l \in DOMAIN loans
    <3>1. LoanKey(l) \in LoanKeys /\ LoanKey(l) \in Keys /\ LoanKey(l)[2] = l
      BY KeyDisjoint DEF LoanKeys
    <3>2. LoanKey(l) # k => cache[LoanKey(l)] # None
      BY <1>8, <2>2, <3>1
    <3> QED
      BY <1>5, <3>1, <3>2, IInvParts DEF CachedRowsStored
  <2> QED
    BY <1>3, <2>1, <2>2 DEF CachedRowsStored, tables
<1>11. Stale(k)' => cache'[k].left_stale
  <2>1. Current(k)' = Current(k)
    BY <1>3, <1>4, NothingShows
  <2>2. cache'[k].value = seen /\ cache'[k].left_stale = marked
    BY <1>8
  <2>3. Stale(k)' => seen # Current(k)
    BY <2>1, <2>2 DEF Stale
  <2>4. seen # Current(k) => marked = TRUE
    BY <1>2
  <2> QED
    BY <2>2, <2>3, <2>4
<1> QED
  BY <1>3, <1>4, <1>7, <1>8, <1>9, <1>10, <1>11, QuietStep, WritesType

(* A handler that begins a write has found what its commit relies on. *)
LEMMA BeginKeeps ==
  ASSUME IInv, NEW r \in Requests, NEW op, NEW id, NEW book, NEW user, NEW loaded,
         Begin(r, op, id, book, user, loaded),
         op \notin LoanOps \cup {"update_loan"} \/ id \in DOMAIN loans,
         op = "create_book" => id \in Authors /\ book \in Books,
         op \in {"update_book", "delete_book"} => book \in DOMAIN books,
         op \in {"update_author", "delete_author"} => id \in Authors,
         op = "delete_author" => loaded = BooksOf(id),
         op = "create_loan" =>
           /\ id \in LoanIds \ DOMAIN loans /\ user \in Users /\ book \in Books
           /\ \A q \in Requests : session[q].id # id
  PROVE  IInv'
<1>1. /\ CanStart(r, op) /\ StartWrite /\ UNCHANGED <<cache, tables, orphaned, popular>>
      /\ session' = [session EXCEPT ![r] = [Idle EXCEPT !.op = op, !.pc = "commit",
           !.id = id, !.book = book, !.user = user, !.loaded = loaded]]
  BY DEF Begin
<1>2. DOMAIN session = Requests /\ writes \in 0 .. MaxWrites /\ Pending(r) = {}
  <2>1. At(r, "idle") /\ RequestInv(r)
    BY <1>1, IInvParts DEF CanStart, SlotOK
  <2> QED
    BY <2>1, IInvParts DEF TablesOK, RequestInv, At, Pending
<1>3. /\ DOMAIN session' = Requests
      /\ \A q \in Requests \ {r} : session'[q] = session[q]
      /\ DOMAIN session'[r] = Fields
      /\ session'[r].op = op /\ session'[r].pc = "commit" /\ session'[r].id = id
      /\ session'[r].book = book /\ session'[r].user = user /\ session'[r].loaded = loaded
      /\ session'[r].todo = <<>> /\ session'[r].scanned = None
  BY <1>1, <1>2 DEF Idle, Fields
<1>4. /\ ~At(r, "invalidate")' /\ ~At(r, "count")' /\ ~At(r, "set")' /\ At(r, "commit")'
      /\ \A o : AtCommit(r, o)' <=> o = op
  BY <1>3 DEF At, AtCommit
<1>5. Pending(r)' = {}
  BY <1>3 DEF Pending
<1>6. UNCHANGED <<books, loans, orphaned>> /\ (\A i : BooksOf(i)' = BooksOf(i))
  BY <1>1 DEF tables, BooksOf
<1>7. AtCommit(r, "create_loan")' => \A q \in Requests \ {r} : session'[q].id # session'[r].id
  BY <1>3, <1>4
<1>8. RequestInv(r)'
  BY <1>3, <1>4, <1>6, <1>7 DEF RequestInv
<1>9. SlotOK(r)'
  BY <1>1, <1>3, <1>4, <1>5, <1>8, IdleFields DEF SlotOK, PcSet, CanStart
<1>10. writes' \in 0 .. MaxWrites
  BY <1>1, <1>2, CatalogueAssumption DEF StartWrite
<1>11. AtCommit(r, "create_loan")' => \A q \in Requests : session[q].id # session'[r].id
  BY <1>3, <1>4
<1> QED
  BY <1>1, <1>2, <1>3, <1>9, <1>10, <1>11, SlotStep

(* Every kind of request begins with what its commit relies on.             *)
LEMMA StartKeeps ==
  ASSUME IInv, NEW r \in Requests, Start(r)
  PROVE  IInv'
<1>1. ASSUME NEW op \in Operations \cap (LoanOps \cup
               {"get_book", "list_books", "get_loan", "list_loans", "list_user_loans"}),
             NEW k \in KeysOf(op), Receive(r, op, k)
      PROVE  IInv'
  BY <1>1, ReceiveKeeps
<1>2. ASSUME NEW b \in Books, NEW a \in Authors, CreateBook(r, b, a)
      PROVE  IInv'
  BY <1>2, BeginKeeps DEF CreateBook, LoanOps
<1>3. ASSUME NEW b \in Books, UpdateBook(r, b) \/ DeleteBook(r, b)
      PROVE  IInv'
  BY <1>3, BeginKeeps DEF UpdateBook, DeleteBook, Visible, LoanOps
<1>4. ASSUME NEW a \in Authors, UpdateAuthor(r, a)
      PROVE  IInv'
  BY <1>4, BeginKeeps DEF UpdateAuthor, LoanOps
<1>5. ASSUME NEW a \in Authors, DeleteAuthor(r, a)
      PROVE  IInv'
  BY <1>5, BeginKeeps DEF DeleteAuthor, LoanOps
<1>6. ASSUME NEW l \in LoanIds, NEW u \in Users, NEW b \in Books, CreateLoan(r, l, u, b)
      PROVE  IInv'
  BY <1>6, BeginKeeps DEF CreateLoan, LoanOps
<1>7. ASSUME NEW l \in LoanIds, UpdateLoan(r, l)
      PROVE  IInv'
  BY <1>7, BeginKeeps DEF UpdateLoan, LoanOps
<1> QED
  BY <1>1, <1>2, <1>3, <1>4, <1>5, <1>6, <1>7 DEF Start

-----------------------------------------------------------------------------
(* Invalidating, giving up and expiring keep the invariant. *)

(* The first call of those that are left, and the rest. *)
LEMMA TailKeys ==
  ASSUME NEW todo \in Seq(Calls), todo # <<>>
  PROVE  /\ Head(todo) \in Calls /\ Tail(todo) \in Seq(Calls)
         /\ KeysIn(Tail(todo)) = UNION {todo[i].keys : i \in DOMAIN todo \ {1}}
         /\ KeysIn(todo) = Head(todo).keys \cup KeysIn(Tail(todo))
<1> HIDE DEF Calls
<1>1. Head(todo) \in Calls /\ Head(todo) = todo[1] /\ Tail(todo) \in Seq(Calls)
  OBVIOUS
<1>2. /\ DOMAIN todo = 1 .. Len(todo) /\ 1 \in DOMAIN todo /\ Len(todo) \in Nat
      /\ DOMAIN Tail(todo) = 1 .. Len(todo) - 1
      /\ \A i \in 1 .. Len(todo) - 1 : Tail(todo)[i] = todo[i + 1]
  OBVIOUS
<1>3. KeysIn(Tail(todo)) = UNION {todo[i].keys : i \in DOMAIN todo \ {1}}
  <2>1. ASSUME NEW i \in DOMAIN Tail(todo)
        PROVE  i + 1 \in DOMAIN todo \ {1} /\ Tail(todo)[i] = todo[i + 1]
    BY <1>2
  <2>2. ASSUME NEW i \in DOMAIN todo \ {1}
        PROVE  i - 1 \in DOMAIN Tail(todo) /\ Tail(todo)[i - 1] = todo[i]
    BY <1>2
  <2> QED
    BY <2>1, <2>2 DEF KeysIn
<1>4. KeysIn(todo) = todo[1].keys \cup UNION {todo[i].keys : i \in DOMAIN todo \ {1}}
  BY <1>2 DEF KeysIn
<1> QED
  BY <1>1, <1>3, <1>4

(* A step of r that only deletes entries keeps the invariant, when what it  *)
(* had to delete is deleted, absent or left to do.                          *)
LEMMA DropStep ==
  ASSUME IInv, NEW r \in Requests, NEW gone, DOMAIN cache' = Keys,
         \A k \in Keys : cache'[k] = IF k \in gone THEN None ELSE cache[k],
         UNCHANGED <<tables, orphaned, writes, popular>>,
         DOMAIN session' = Requests, \A q \in Requests \ {r} : session'[q] = session[q],
         SlotOK(r)', ~At(r, "commit")',
         \A k \in Pending(r) : k \in gone \/ cache[k] = None \/ k \in Pending(r)'
  PROVE  IInv'
<1>1. \A k \in Keys : cache'[k] = None \/ (cache'[k] = cache[k] /\ k \notin gone)
  OBVIOUS
<1>2. CacheOK'
  <2>1. \A k \in Keys : EntryOK(k)'
    BY <1>1, IInvParts DEF CacheOK, EntryOK
  <2> QED
    BY <1>1, <2>1 DEF CacheOK
<1>3. CachedRowsStored'
  <2>1. \A b \in Books : BookKey(b) \in Keys
    BY KeyDisjoint DEF BookKeys
  <2>2. \A l \in LoanIds : LoanKey(l) \in Keys
    BY KeyDisjoint DEF LoanKeys
  <2>3. books' = books /\ loans' = loans /\ CachedRowsStored
    BY IInvParts DEF tables
  <2> QED
    BY <1>1, <2>1, <2>2, <2>3 DEF CachedRowsStored
<1>4. ASSUME NEW k \in Keys, Stale(k)'
      PROVE  cache'[k] = cache[k] /\ (k \in Pending(r) /\ Stale(k) => k \in Pending(r)')
  <2>1. cache'[k] # None
    BY <1>4 DEF Stale
  <2>2. cache'[k] = cache[k] /\ k \notin gone /\ cache[k] # None
    BY <1>1, <2>1
  <2> QED
    BY <2>2
<1>5. \A k \in Keys :
        \/ Stale(k)' => cache'[k].left_stale
        \/ cache'[k] = cache[k] /\ (k \in Pending(r) /\ Stale(k) => k \in Pending(r)')
  BY <1>4
<1> QED
  BY <1>2, <1>3, <1>5, QuietStep, WritesType DEF AtCommit

(* What is known of a request that invalidates. *)
LEMMA Invalidating ==
  ASSUME IInv, NEW r \in Requests, At(r, "invalidate")
  PROVE  /\ DOMAIN session[r] = Fields /\ session[r].op \in Operations \cup {None}
         /\ session[r].todo \in Seq(Calls) /\ session[r].todo # <<>>
         /\ session[r].scanned # None =>
              /\ Head(session[r].todo).scans
              /\ session[r].scanned \subseteq Head(session[r].todo).keys
         /\ DOMAIN session = Requests /\ SlotOK(r)
BY IInvParts, IdleFields, CallsType DEF SlotOK, RequestInv

(* What is left to delete while the keys are scanned. *)
LEMMA ScanningEffect ==
  ASSUME IInv, NEW r \in Requests, At(r, "invalidate"), NEW found,
         found \subseteq Head(session[r].todo).keys, Head(session[r].todo).scans,
         session' = [session EXCEPT ![r].scanned = found]
  PROVE  /\ DOMAIN session' = Requests
         /\ \A q \in Requests \ {r} : session'[q] = session[q]
         /\ SlotOK(r)' /\ ~At(r, "commit")'
         /\ found \cup KeysIn(Tail(session[r].todo)) \subseteq Pending(r)'
<1>1. PICK todo : todo = session[r].todo
  OBVIOUS
<1>2. /\ DOMAIN session[r] = Fields /\ session[r].op \in Operations \cup {None}
      /\ todo \in Seq(Calls) /\ todo # <<>> /\ DOMAIN session = Requests
  BY <1>1, Invalidating
<1>3. /\ DOMAIN session' = Requests
      /\ \A q \in Requests \ {r} : session'[q] = session[q]
      /\ session'[r] = [session[r] EXCEPT !.scanned = found]
  BY <1>2
<1>4. /\ DOMAIN session'[r] = Fields /\ session'[r].pc = "invalidate"
      /\ session'[r].op = session[r].op /\ session'[r].todo = todo
      /\ session'[r].scanned = found
  BY <1>1, <1>2, <1>3 DEF Fields, At
<1>5. /\ Head(todo) \in Calls /\ Tail(todo) \in Seq(Calls)
      /\ KeysIn(Tail(todo)) = UNION {todo[i].keys : i \in DOMAIN todo \ {1}}
      /\ KeysIn(todo) = Head(todo).keys \cup KeysIn(Tail(todo))
      /\ KeysIn(todo) \subseteq Keys
  BY <1>2, TailKeys, KeysInType
<1>6. /\ found = None => Pending(r)' = KeysIn(todo)
      /\ found # None => Pending(r)' = found \cup KeysIn(Tail(todo))
  <2>1. found = None => Pending(r)' = KeysIn(todo)
    BY <1>4, PendingUnscanned
  <2>2. found # None =>
          Pending(r)' = found \cup UNION {todo[i].keys : i \in DOMAIN todo \ {1}}
    BY <1>4 DEF Pending
  <2> QED
    BY <1>5, <2>1, <2>2
<1>7. Pending(r)' \subseteq Keys /\ found \cup KeysIn(Tail(todo)) \subseteq Pending(r)'
  BY <1>1, <1>5, <1>6
<1>8. RequestInv(r)'
  BY <1>1, <1>2, <1>4, CallsType DEF RequestInv, At, AtCommit
<1> QED
  BY <1>1, <1>2, <1>3, <1>4, <1>7, <1>8, IdleFields DEF SlotOK, PcSet, At

(* delete drops the key it was called for. *)
LEMMA DeleteKeeps ==
  ASSUME IInv, NEW r \in Requests, Delete(r), UNCHANGED <<tables, orphaned, writes, popular>>
  PROVE  IInv'
<1>1. PICK todo : todo = session[r].todo
  OBVIOUS
<1>2. /\ At(r, "invalidate") /\ ~Head(todo).scans
      /\ cache' = [k \in Keys |-> IF k \in Head(todo).keys THEN None ELSE cache[k]]
      /\ DoNext(r, Tail(todo))
  BY <1>1 DEF Delete, Without
<1>3. /\ todo \in Seq(Calls) /\ todo # <<>> /\ session[r].scanned = None
      /\ DOMAIN session = Requests /\ SlotOK(r)
  BY <1>1, <1>2, Invalidating
<1>4. Tail(todo) \in Seq(Calls) /\ KeysIn(todo) = Head(todo).keys \cup KeysIn(Tail(todo))
  BY <1>3, TailKeys
<1>5. Pending(r) = KeysIn(todo)
  BY <1>1, <1>3, PendingUnscanned
<1>6. /\ DOMAIN session' = Requests
      /\ \A q \in Requests \ {r} : session'[q] = session[q]
      /\ SlotOK(r)' /\ Pending(r)' = KeysIn(Tail(todo)) /\ ~At(r, "commit")'
  BY <1>2, <1>3, <1>4, DoNextEffect
<1>7. \A k \in Pending(r) : k \in Head(todo).keys \/ cache[k] = None \/ k \in Pending(r)'
  BY <1>4, <1>5, <1>6
<1>8. /\ DOMAIN cache' = Keys
      /\ \A k \in Keys : cache'[k] = IF k \in Head(todo).keys THEN None ELSE cache[k]
  BY <1>2
<1> QED
  BY <1>6, <1>7, <1>8, DropStep

(* scan_iter finds the keys that are there. *)
LEMMA ScanKeeps ==
  ASSUME IInv, NEW r \in Requests, Scan(r), UNCHANGED <<tables, orphaned, writes, popular>>
  PROVE  IInv'
<1>1. PICK todo, found : todo = session[r].todo /\ found = Present(Head(todo).keys)
  OBVIOUS
<1>2. /\ At(r, "invalidate") /\ Head(todo).scans /\ session[r].scanned = None
      /\ UNCHANGED cache
      /\ \/ found = {} /\ DoNext(r, Tail(todo))
         \/ session' = [session EXCEPT ![r].scanned = found]
  BY <1>1 DEF Scan
<1>3. /\ todo \in Seq(Calls) /\ todo # <<>> /\ DOMAIN session = Requests /\ SlotOK(r)
  BY <1>1, <1>2, Invalidating
<1>4. Tail(todo) \in Seq(Calls) /\ KeysIn(todo) = Head(todo).keys \cup KeysIn(Tail(todo))
  BY <1>3, TailKeys
<1>5. Pending(r) = KeysIn(todo)
  BY <1>1, <1>2, PendingUnscanned
<1>6. found \subseteq Head(todo).keys /\ \A k \in Head(todo).keys \ found : cache[k] = None
  BY <1>1 DEF Present
<1>7. /\ DOMAIN session' = Requests
      /\ \A q \in Requests \ {r} : session'[q] = session[q]
      /\ SlotOK(r)' /\ ~At(r, "commit")'
      /\ found \cup KeysIn(Tail(todo)) \subseteq Pending(r)'
  <2>1. CASE found = {} /\ DoNext(r, Tail(todo))
    BY <1>3, <1>4, <2>1, DoNextEffect
  <2>2. CASE session' = [session EXCEPT ![r].scanned = found]
    BY <1>1, <1>2, <1>6, <2>2, ScanningEffect
  <2> QED
    BY <1>2, <2>1, <2>2
<1>8. PICK gone : gone = {}
  OBVIOUS
<1>9. \A k \in Pending(r) : k \in gone \/ cache[k] = None \/ k \in Pending(r)'
  BY <1>4, <1>5, <1>6, <1>7
<1>10. DOMAIN cache' = Keys /\ \A k \in Keys : cache'[k] = IF k \in gone THEN None ELSE cache[k]
  BY <1>2, <1>8, IInvParts DEF CacheOK
<1> QED
  BY <1>7, <1>9, <1>10, DropStep

(* The loop deletes a key that scan_iter yields. *)
LEMMA DeleteScannedKeeps ==
  ASSUME IInv, NEW r \in Requests, DeleteScanned(r),
         UNCHANGED <<tables, orphaned, writes, popular>>
  PROVE  IInv'
<1>1. PICK todo, scanned : todo = session[r].todo /\ scanned = session[r].scanned
  OBVIOUS
<1>2. At(r, "invalidate") /\ scanned # None
  BY <1>1 DEF DeleteScanned
<1>3. PICK k : /\ cache' = [j \in Keys |-> IF j \in {k} THEN None ELSE cache[j]]
               /\ \/ scanned = {k} /\ DoNext(r, Tail(todo))
                  \/ session' = [session EXCEPT ![r].scanned = @ \ {k}]
  BY <1>1 DEF DeleteScanned, Without
<1>4. /\ todo \in Seq(Calls) /\ todo # <<>> /\ DOMAIN session = Requests /\ SlotOK(r)
      /\ Head(todo).scans /\ scanned \subseteq Head(todo).keys
  BY <1>1, <1>2, Invalidating
<1>5. /\ Tail(todo) \in Seq(Calls)
      /\ KeysIn(Tail(todo)) = UNION {todo[i].keys : i \in DOMAIN todo \ {1}}
  BY <1>4, TailKeys
<1>6. Pending(r) = scanned \cup KeysIn(Tail(todo))
  BY <1>1, <1>2, <1>5 DEF Pending
<1>7. /\ DOMAIN session' = Requests
      /\ \A q \in Requests \ {r} : session'[q] = session[q]
      /\ SlotOK(r)' /\ ~At(r, "commit")'
      /\ (scanned \ {k}) \cup KeysIn(Tail(todo)) \subseteq Pending(r)'
  <2>1. CASE scanned = {k} /\ DoNext(r, Tail(todo))
    BY <1>4, <1>5, <2>1, DoNextEffect
  <2>2. CASE session' = [session EXCEPT ![r].scanned = @ \ {k}]
    <3>1. session' = [session EXCEPT ![r].scanned = scanned \ {k}]
      BY <1>1, <2>2
    <3>2. scanned \ {k} \subseteq Head(todo).keys
      BY <1>4
    <3> QED
      BY <1>1, <1>2, <1>4, <3>1, <3>2, ScanningEffect
  <2> QED
    BY <1>3, <2>1, <2>2
<1>8. \A j \in Pending(r) : j \in {k} \/ cache[j] = None \/ j \in Pending(r)'
  BY <1>6, <1>7
<1>9. DOMAIN cache' = Keys /\ \A j \in Keys : cache'[j] = IF j \in {k} THEN None ELSE cache[j]
  BY <1>3
<1> QED
  BY <1>7, <1>8, <1>9, DropStep

(* Marking entries changes nothing else of them. *)
LEMMA MarkEffect ==
  ASSUME CacheOK, CachedRowsStored, NEW keys, cache' = LeaveStale(keys),
         DOMAIN books \subseteq DOMAIN books', DOMAIN loans \subseteq DOMAIN loans'
  PROVE  /\ CacheOK' /\ CachedRowsStored'
         /\ \A k \in Keys \ keys : cache'[k] = cache[k]
         /\ \A k \in Keys : cache'[k] = None \/ cache'[k] = cache[k] \/ cache'[k].left_stale
         /\ \A k \in keys : k \in Keys => cache'[k] = None \/ cache'[k].left_stale
<1>1. DOMAIN cache' = Keys /\ DOMAIN cache = Keys /\ \A k \in Keys : EntryOK(k)
  BY DEF LeaveStale, CacheOK
<1>2. ASSUME NEW k \in Keys
      PROVE  \/ cache'[k] = cache[k] /\ (k \in keys => cache[k] = None)
             \/ cache[k] # None /\ cache'[k] = [cache[k] EXCEPT !.left_stale = TRUE]
  BY DEF LeaveStale
<1>3. ASSUME NEW k \in Keys, cache[k] # None,
             cache'[k] = [cache[k] EXCEPT !.left_stale = TRUE]
      PROVE  EntryOK(k)' /\ cache'[k].left_stale
  <2>1. EntryOK(k)
    BY <1>1
  <2>2. /\ DOMAIN cache'[k] = {"value", "ex", "left_stale"}
        /\ cache'[k].value = cache[k].value /\ cache'[k].ex = cache[k].ex
        /\ cache'[k].left_stale = TRUE
    BY <1>3, <2>1 DEF EntryOK
  <2>3. {cache'[k].ex, cache'[k].left_stale} \subseteq BOOLEAN
    BY <1>3, <2>1, <2>2 DEF EntryOK
  <2> QED
    BY <1>3, <2>1, <2>2, <2>3 DEF EntryOK
<1>4. ASSUME NEW k \in Keys
      PROVE  EntryOK(k)' /\ (cache'[k] # None => cache[k] # None)
  <2>1. CASE cache'[k] = cache[k]
    BY <1>1, <2>1 DEF EntryOK
  <2>2. CASE cache[k] # None /\ cache'[k] = [cache[k] EXCEPT !.left_stale = TRUE]
    BY <1>3, <2>2
  <2> QED
    BY <1>2, <2>1, <2>2
<1>5. CacheOK'
  BY <1>1, <1>4 DEF CacheOK
<1>6. CachedRowsStored'
  <2>1. \A b \in Books : BookKey(b) \in Keys
    BY KeyDisjoint DEF BookKeys
  <2>2. \A l \in LoanIds : LoanKey(l) \in Keys
    BY KeyDisjoint DEF LoanKeys
  <2> QED
    BY <1>4, <2>1, <2>2 DEF CachedRowsStored
<1>7. \A k \in Keys \ keys : cache'[k] = cache[k]
  BY DEF LeaveStale
<1> QED
  BY <1>2, <1>3, <1>5, <1>6, <1>7

(* A request that ends early leaves what it had to delete. *)
LEMMA FailKeeps ==
  ASSUME IInv, NEW r \in Requests, Fail(r)
  PROVE  IInv'
<1>1. PICK keys : keys = {k \in Pending(r) : Stale(k)}
  OBVIOUS
<1>2. /\ cache' = LeaveStale(keys) /\ Finish(r)
      /\ UNCHANGED <<tables, orphaned, writes, popular>>
  BY <1>1 DEF Fail
<1>3. /\ DOMAIN session' = Requests
      /\ \A q \in Requests \ {r} : session'[q] = session[q]
      /\ SlotOK(r)' /\ ~At(r, "commit")'
  BY <1>2, FinishEffect
<1>4. CacheOK /\ CachedRowsStored /\ books' = books /\ loans' = loans
  BY <1>2, IInvParts DEF tables
<1>5. /\ CacheOK' /\ CachedRowsStored'
      /\ \A k \in Keys \ keys : cache'[k] = cache[k]
      /\ \A k \in keys : k \in Keys => cache'[k] = None \/ cache'[k].left_stale
  BY <1>2, <1>4, MarkEffect
<1>6. ASSUME NEW k \in Keys
      PROVE  \/ Stale(k)' => cache'[k].left_stale
             \/ cache'[k] = cache[k] /\ (k \in Pending(r) /\ Stale(k) => k \in Pending(r)')
  <2>1. CASE k \in keys
    BY <1>5, <2>1 DEF Stale
  <2>2. CASE k \notin keys
    BY <1>1, <1>5, <2>2
  <2> QED
    BY <2>1, <2>2
<1> QED
  BY <1>2, <1>3, <1>5, <1>6, QuietStep, WritesType DEF AtCommit

(* Nor does a refusal change anything. *)
LEMMA RefuseKeeps ==
  ASSUME IInv, NEW r \in Requests, Refuse(r)
  PROVE  IInv'
<1>1. At(r, "commit") /\ Finish(r) /\ UNCHANGED <<cache, tables, orphaned, writes, popular>>
  BY DEF Refuse
<1>2. Pending(r) = {}
  BY <1>1, IInvParts DEF SlotOK, RequestInv, At, Pending
<1> QED
  BY <1>1, <1>2, FinishEffect, SlotStep, WritesType DEF AtCommit

(* A step that no request takes leaves the requests what they rely on. *)
LEMMA SlotsKept ==
  ASSUME IInv, UNCHANGED <<session, books, loans, orphaned>>
  PROVE  /\ DOMAIN session' = Requests
         /\ \A q \in Requests : SlotOK(q)' /\ Pending(q)' = Pending(q)
<1>1. ASSUME NEW q \in Requests
      PROVE  SlotOK(q)' /\ Pending(q)' = Pending(q)
  <2>1. SlotOK(q)
    BY IInvParts
  <2>2. Pending(q)' = Pending(q)
    BY DEF Pending
  <2>3. RequestInv(q)'
    BY <2>1 DEF SlotOK, RequestInv, At, AtCommit, BooksOf
  <2> QED
    BY <2>1, <2>2, <2>3 DEF SlotOK, At
<1> QED
  BY <1>1, IInvParts

(* Expiry drops one entry. *)
LEMMA ExpiryKeeps ==
  ASSUME IInv, NEW gone \in Keys, Expiry(gone)
  PROVE  IInv'
<1>1. /\ UNCHANGED <<tables, orphaned, writes, popular>> /\ session' = session
      /\ DOMAIN cache' = Keys
      /\ \A k \in Keys : cache'[k] = None \/ cache'[k] = cache[k]
  BY DEF Expiry, Expire, Without
<1>2. /\ DOMAIN session' = Requests
      /\ \A q \in Requests : SlotOK(q)' /\ Pending(q)' = Pending(q)
  BY <1>1, SlotsKept DEF tables
<1>3. TablesOK' /\ OrphansWereInsertedMeanwhile'
  BY <1>1, IInvParts DEF tables, TablesOK, OrphansWereInsertedMeanwhile
<1>4. \A k \in Keys : EntryOK(k)' /\ (cache'[k] # None => cache[k] # None)
  BY <1>1, IInvParts DEF CacheOK, EntryOK
<1>5. CacheOK' /\ CachedRowsStored'
  <2>1. \A b \in Books : BookKey(b) \in Keys
    BY KeyDisjoint DEF BookKeys
  <2>2. \A l \in LoanIds : LoanKey(l) \in Keys
    BY KeyDisjoint DEF LoanKeys
  <2>3. books' = books /\ loans' = loans /\ CachedRowsStored
    BY <1>1, IInvParts DEF tables
  <2> QED
    BY <1>1, <1>4, <2>1, <2>2, <2>3 DEF CacheOK, CachedRowsStored
<1>6. ASSUME NEW k \in Keys
      PROVE  Covered(k)'
  <2> SUFFICES ASSUME Stale(k)'
               PROVE  cache'[k].left_stale \/ \E r \in Requests : k \in Pending(r)'
    BY DEF Covered
  <2>1. Current(k)' = Current(k)
    BY <1>1, NothingShows
  <2>2. cache'[k] = cache[k] /\ Stale(k)
    BY <1>1, <2>1 DEF Stale
  <2>3. Covered(k)
    BY IInvParts
  <2> QED
    BY <1>2, <2>2, <2>3 DEF Covered
<1> QED
  BY <1>2, <1>3, <1>5, <1>6, IInvPartsNext

(* A user's deletion shows in the listings of the user's loans alone. *)
LEMMA DeletedUserShows ==
  ASSUME UNCHANGED <<authors, books, loans>>, users \in [Users -> BOOLEAN],
         NEW gone \in Users, users' = [users EXCEPT ![gone] = FALSE],
         NEW k \in Keys \ UserLoans(gone)
  PROVE  Current(k)' = Current(k)
<1>1. ASSUME NEW b \in Books, k = BookKey(b)
      PROVE  Current(k)' = Current(k)
  <2>1. BookAnswer(b)' = BookAnswer(b)
    BY DEF BookAnswer, Visible, Shown
  <2> QED
    BY <1>1, <2>1, BookKeyShows
<1>2. ASSUME NEW l \in LoanIds, k = LoanKey(l)
      PROVE  Current(k)' = Current(k)
  BY <1>2, LoanKeyShows DEF LoanAnswer
<1>3. ASSUME NEW p \in Pages, k = LoanListKey(p)
      PROVE  Current(k)' = Current(k)
  <2>1. Listing(LoanItems)' = Listing(LoanItems)
    BY DEF Listing, LoanItems
  <2> QED
    BY <1>3, <2>1, LoanListShows
<1>4. ASSUME NEW p \in Pages, k = BookListKey(p)
      PROVE  Current(k)' = Current(k)
  <2>1. Listing(BookItems)' = Listing(BookItems)
    BY DEF Listing, BookItems, Visible, Shown
  <2> QED
    BY <1>4, <2>1, BookListShows
<1>5. ASSUME NEW u \in Users, NEW p \in Pages, k = UserLoansKey(u, p)
      PROVE  Current(k)' = Current(k)
  <2>1. u # gone
    BY <1>5 DEF UserLoans
  <2>2. users'[u] = users[u] /\ Listing(LoanItemsOf(u))' = Listing(LoanItemsOf(u))
    BY <2>1 DEF Listing, LoanItemsOf
  <2>3. UserAnswer(u)' = UserAnswer(u)
    BY <2>2 DEF UserAnswer
  <2> QED
    BY <1>5, <2>3, UserLoansShows
<1> QED
  BY <1>1, <1>2, <1>3, <1>4, <1>5, KindsOfKeys

(* delete_user leaves them. *)
LEMMA DeleteUserKeeps ==
  ASSUME IInv, NEW u \in Users, DeleteUser(u)
  PROVE  IInv'
<1>1. /\ StartWrite /\ users' = [users EXCEPT ![u] = FALSE]
      /\ cache' = LeaveStale(UserLoans(u))
      /\ UNCHANGED <<session, authors, books, loans, orphaned, popular>>
  BY DEF DeleteUser
<1>2. /\ DOMAIN session' = Requests
      /\ \A q \in Requests : SlotOK(q)' /\ Pending(q)' = Pending(q)
  BY <1>1, SlotsKept
<1>3. TablesOK' /\ OrphansWereInsertedMeanwhile'
  <2>1. writes' \in 0 .. MaxWrites /\ users' \in [Users -> BOOLEAN]
    BY <1>1, IInvParts, CatalogueAssumption DEF TablesOK, StartWrite
  <2> QED
    BY <1>1, <2>1, IInvParts DEF TablesOK, OrphansWereInsertedMeanwhile
<1>4. /\ CacheOK' /\ CachedRowsStored'
      /\ \A k \in Keys \ UserLoans(u) : cache'[k] = cache[k]
      /\ \A k \in UserLoans(u) : k \in Keys => cache'[k] = None \/ cache'[k].left_stale
  BY <1>1, IInvParts, MarkEffect
<1>5. ASSUME NEW k \in Keys
      PROVE  Covered(k)'
  <2>1. CASE k \in UserLoans(u)
    BY <1>4, <2>1 DEF Covered, Stale
  <2>2. CASE k \notin UserLoans(u)
    <3>1. Current(k)' = Current(k)
      BY <1>1, <2>2, DeletedUserShows, IInvParts DEF TablesOK
    <3>2. cache'[k] = cache[k] /\ (Stale(k)' => Stale(k))
      BY <1>4, <2>2, <3>1 DEF Stale
    <3>3. Covered(k)
      BY IInvParts
    <3> QED
      BY <1>2, <3>2, <3>3 DEF Covered
  <2> QED
    BY <2>1, <2>2
<1> QED
  BY <1>2, <1>3, <1>4, <1>5, IInvPartsNext

-----------------------------------------------------------------------------
(* Commits: which keys a commit shows in, and that its handler goes on to   *)
(* delete each of them.                                                     *)

(* Calls made one after the other delete what each of them deletes. *)
LEMMA KeysOfBoth ==
  ASSUME NEW s \in Seq(Calls), NEW t \in Seq(Calls)
  PROVE  s \o t \in Seq(Calls) /\ KeysIn(s \o t) = KeysIn(s) \cup KeysIn(t)
<1> HIDE DEF Calls
<1>1. /\ s \o t \in Seq(Calls) /\ Len(s) \in Nat /\ Len(t) \in Nat
      /\ DOMAIN s = 1 .. Len(s) /\ DOMAIN t = 1 .. Len(t)
      /\ DOMAIN (s \o t) = 1 .. Len(s) + Len(t)
      /\ \A i \in 1 .. Len(s) + Len(t) :
           (s \o t)[i] = IF i <= Len(s) THEN s[i] ELSE t[i - Len(s)]
  OBVIOUS
<1>2. ASSUME NEW i \in DOMAIN (s \o t)
      PROVE  \/ i \in DOMAIN s /\ (s \o t)[i] = s[i]
             \/ i - Len(s) \in DOMAIN t /\ (s \o t)[i] = t[i - Len(s)]
  BY <1>1
<1>3. ASSUME NEW i \in DOMAIN s
      PROVE  i \in DOMAIN (s \o t) /\ (s \o t)[i] = s[i]
  BY <1>1
<1>4. ASSUME NEW i \in DOMAIN t
      PROVE  i + Len(s) \in DOMAIN (s \o t) /\ (s \o t)[i + Len(s)] = t[i]
  BY <1>1
<1>5. KeysIn(s \o t) \subseteq KeysIn(s) \cup KeysIn(t)
  BY <1>2 DEF KeysIn
<1>6. KeysIn(s) \subseteq KeysIn(s \o t)
  BY <1>3 DEF KeysIn
<1>7. KeysIn(t) \subseteq KeysIn(s \o t)
  BY <1>4 DEF KeysIn
<1> QED
  BY <1>1, <1>5, <1>6, <1>7

(* One call. *)
LEMMA KeysOfOne ==
  ASSUME NEW c \in Calls
  PROVE  <<c>> \in Seq(Calls) /\ KeysIn(<<c>>) = c.keys
<1> HIDE DEF Calls
<1>1. <<c>> \in Seq(Calls) /\ DOMAIN <<c>> = {1} /\ <<c>>[1] = c
  OBVIOUS
<1> QED
  BY <1>1 DEF KeysIn

(* delete and delete_pattern. *)
LEMMA CallKeys ==
  ASSUME NEW k \in Keys, NEW keys \in SUBSET Keys
  PROVE  /\ DeleteKey(k) \in Calls /\ DeleteKey(k).keys = {k}
         /\ DeletePattern(keys) \in Calls /\ DeletePattern(keys).keys = keys
BY DEF DeleteKey, DeletePattern, Call, Calls

(* The keys of the listings. *)
LEMMA ListingKeys ==
  /\ BookLists \subseteq Keys /\ LoanLists \subseteq Keys
  /\ \A u \in Users : UserLoans(u) \subseteq Keys
BY DEF Keys, KeyKinds

(* create_book deletes the listings. *)
LEMMA NewBookCalls ==
  /\ <<DeletePattern(BookLists)>> \in Seq(Calls)
  /\ KeysIn(<<DeletePattern(BookLists)>>) = BookLists
<1>1. DeletePattern(BookLists) \in Calls /\ DeletePattern(BookLists).keys = BookLists
  BY ListingKeys DEF DeletePattern, Call, Calls
<1> QED
  BY <1>1, KeysOfOne

(* A write to a book deletes its entry and the listings. *)
LEMMA BookCalls ==
  ASSUME NEW b \in Books
  PROVE  /\ InvalidateBook(b) \in Seq(Calls)
         /\ KeysIn(InvalidateBook(b)) = {BookKey(b)} \cup BookLists
<1>1. BookKey(b) \in Keys
  BY KeyDisjoint DEF BookKeys
<1>2. PICK c, d : c = DeleteKey(BookKey(b)) /\ d = DeletePattern(BookLists)
  OBVIOUS
<1>3. c \in Calls /\ c.keys = {BookKey(b)} /\ d \in Calls /\ d.keys = BookLists
  BY <1>1, <1>2, CallKeys, ListingKeys
<1> HIDE DEF Calls
<1>4. PICK s, t : s = <<c>> /\ t = <<d>>
  OBVIOUS
<1>5. InvalidateBook(b) = s \o t
  BY <1>2, <1>3, <1>4 DEF InvalidateBook
<1>6. s \in Seq(Calls) /\ t \in Seq(Calls) /\ KeysIn(s) = {BookKey(b)} /\ KeysIn(t) = BookLists
  BY <1>3, <1>4, KeysOfOne
<1> QED
  BY <1>5, <1>6, KeysOfBoth

(* A write to an author deletes every book and the listings. *)
LEMMA AuthorCalls ==
  /\ InvalidateAuthor \in Seq(Calls)
  /\ KeysIn(InvalidateAuthor) = BookKeys \cup BookLists
<1>1. PICK c, d : c = DeletePattern(BookKeys) /\ d = DeletePattern(BookLists)
  OBVIOUS
<1>2. c \in Calls /\ c.keys = BookKeys /\ d \in Calls /\ d.keys = BookLists
  BY <1>1, KeyDisjoint, ListingKeys DEF DeletePattern, Call, Calls
<1> HIDE DEF Calls
<1>3. InvalidateAuthor = <<c>> \o <<d>>
  BY <1>1, <1>2 DEF InvalidateAuthor
<1> QED
  BY <1>2, <1>3, KeysOfOne, KeysOfBoth

(* _invalidate_loan_cache deletes the loan's entry, the listings and those  *)
(* of its user.                                                             *)
LEMMA LoanCalls ==
  ASSUME NEW l \in LoanIds, NEW u \in Users
  PROVE  /\ InvalidateLoan(l, u) \in Seq(Calls)
         /\ KeysIn(InvalidateLoan(l, u)) = {LoanKey(l)} \cup LoanLists \cup UserLoans(u)
<1>1. LoanKey(l) \in Keys
  BY KeyDisjoint DEF LoanKeys
<1>2. PICK c, d, e : /\ c = DeleteKey(LoanKey(l)) /\ d = DeletePattern(LoanLists)
                     /\ e = DeletePattern(UserLoans(u))
  OBVIOUS
<1>3. /\ c \in Calls /\ c.keys = {LoanKey(l)} /\ d \in Calls /\ d.keys = LoanLists
      /\ e \in Calls /\ e.keys = UserLoans(u)
  BY <1>1, <1>2, CallKeys, ListingKeys
<1> HIDE DEF Calls
<1>4. PICK x, y, z : x = <<c>> /\ y = <<d>> /\ z = <<e>>
  OBVIOUS
<1>5. InvalidateLoan(l, u) = (x \o y) \o z
  BY <1>2, <1>3, <1>4 DEF InvalidateLoan
<1>6. /\ x \in Seq(Calls) /\ y \in Seq(Calls) /\ z \in Seq(Calls)
      /\ KeysIn(x) = {LoanKey(l)} /\ KeysIn(y) = LoanLists /\ KeysIn(z) = UserLoans(u)
  BY <1>3, <1>4, KeysOfOne
<1>7. PICK v : v = x \o y
  OBVIOUS
<1>8. v \in Seq(Calls) /\ KeysIn(v) = {LoanKey(l)} \cup LoanLists
  BY <1>6, <1>7, KeysOfBoth
<1>9. v \o z \in Seq(Calls) /\ KeysIn(v \o z) = KeysIn(v) \cup KeysIn(z)
  BY <1>6, <1>8, KeysOfBoth
<1> QED
  BY <1>5, <1>6, <1>7, <1>8, <1>9

(* A commit to a loan and to no book shows in the loan's keys alone. *)
LEMMA LoanAloneShows ==
  ASSUME UNCHANGED <<authors, books, users>>, NEW l, NEW u,
         DOMAIN loans' \ {l} = DOMAIN loans \ {l},
         \A m \in DOMAIN loans \ {l} : loans'[m] = loans[m],
         l \in DOMAIN loans => loans[l].user = u, l \in DOMAIN loans' => loans'[l].user = u,
         NEW k \in Keys, Current(k)' # Current(k)
  PROVE  k \in {LoanKey(l)} \cup LoanLists \cup UserLoans(u)
<1>1. k \in {LoanKey(l)} \cup LoanLists \cup UserLoans(u) \cup BookKeys \cup BookLists
  BY LoanShowsElsewhere
<1>2. ASSUME NEW b \in Books, k = BookKey(b)
      PROVE  FALSE
  <2>1. BookAnswer(b)' = BookAnswer(b)
    BY DEF BookAnswer, Visible, Shown
  <2> QED
    BY <1>2, <2>1, BookKeyShows
<1>3. ASSUME NEW p \in Pages, k = BookListKey(p)
      PROVE  FALSE
  <2>1. Listing(BookItems)' = Listing(BookItems)
    BY DEF Listing, BookItems, Visible, Shown
  <2> QED
    BY <1>3, <2>1, BookListShows
<1> QED
  BY <1>1, <1>2, <1>3 DEF BookKeys, BookLists

(* What a commit has to meet: it leaves the others their rows, and each key *)
(* that shows the change is deleted by the calls that follow, empty, or     *)
(* marked.                                                                  *)
LEMMA CommitStep ==
  ASSUME IInv, NEW r \in Requests, At(r, "commit"), NEW calls \in Seq(Calls), DoNext(r, calls),
         TablesOK', CacheOK', CachedRowsStored', OrphansWereInsertedMeanwhile',
         RowsKept(r),
         \A k \in Keys :
           \/ cache'[k] = cache[k]
                /\ (Current(k)' = Current(k) \/ k \in KeysIn(calls) \/ cache[k] = None)
           \/ cache'[k] = None \/ cache'[k].left_stale
  PROVE  IInv'
<1>1. DOMAIN session = Requests /\ SlotOK(r) /\ Pending(r) = {}
  BY IInvParts DEF SlotOK, RequestInv, At, Pending
<1>2. /\ DOMAIN session' = Requests
      /\ \A q \in Requests \ {r} : session'[q] = session[q]
      /\ SlotOK(r)' /\ Pending(r)' = KeysIn(calls) /\ ~AtCommit(r, "create_loan")'
  BY <1>1, DoNextEffect DEF AtCommit
<1>3. ASSUME NEW q \in Requests \ {r}
      PROVE  SlotOK(q)' /\ Pending(q)' = Pending(q)
  <2>1. AtCommit(r, "create_loan")' => \A p \in Requests : session[p].id # session'[r].id
    BY <1>2
  <2>2. \A p \in Requests \ {r} : session'[p] = session[p]
    BY <1>2
  <2>3. SlotOK(q)'
    BY <2>1, <2>2, OthersUndisturbed
  <2>4. session'[q] = session[q]
    BY <2>2
  <2> QED
    BY <2>3, <2>4 DEF Pending
<1>4. ASSUME NEW k \in Keys, Stale(k)', ~cache'[k].left_stale
      PROVE  \E q \in Requests : k \in Pending(q)'
  <2>1. /\ cache'[k] = cache[k] /\ cache[k] # None
        /\ Current(k)' = Current(k) \/ k \in KeysIn(calls)
    BY <1>4 DEF Stale
  <2>2. CASE k \in KeysIn(calls)
    BY <1>2, <2>2
  <2>3. CASE Current(k)' = Current(k)
    <3>1. Stale(k)
      BY <1>4, <2>1, <2>3 DEF Stale
    <3>2. PICK q \in Requests : k \in Pending(q)
      BY <1>4, <2>1, <3>1, IInvParts DEF Covered
    <3> QED
      BY <1>1, <1>3, <3>2
  <2> QED
    BY <2>1, <2>2, <2>3
<1>5. \A k \in Keys : Covered(k)'
  BY <1>4 DEF Covered
<1> QED
  BY <1>2, <1>3, <1>5, IInvPartsNext

(* A commit that leaves the cache alone. *)
LEMMA PlainCommit ==
  ASSUME IInv, NEW r \in Requests, At(r, "commit"), NEW calls \in Seq(Calls), DoNext(r, calls),
         cache' = cache, TablesOK', OrphansWereInsertedMeanwhile', RowsKept(r),
         \A k \in Keys :
           Current(k)' # Current(k) => k \in KeysIn(calls) \/ cache[k] = None
  PROVE  IInv'
<1>1. CacheOK'
  <2>1. \A k \in Keys : EntryOK(k)'
    BY IInvParts DEF CacheOK, EntryOK
  <2> QED
    BY <2>1, IInvParts DEF CacheOK
<1>2. CachedRowsStored'
  BY IInvParts DEF CachedRowsStored, RowsKept
<1>3. \A k \in Keys :
        \/ cache'[k] = cache[k]
             /\ (Current(k)' = Current(k) \/ k \in KeysIn(calls) \/ cache[k] = None)
        \/ cache'[k] = None \/ cache'[k].left_stale
  OBVIOUS
<1> QED
  BY <1>1, <1>2, <1>3, CommitStep

(* create_book: the new book's own key is empty. *)
LEMMA CommitCreateBookKeeps ==
  ASSUME IInv, NEW r \in Requests, CommitCreateBook(r)
  PROVE  IInv'
<1>1. PICK a, b : a = session[r].id /\ b = session[r].book
  OBVIOUS
<1>2. /\ AtCommit(r, "create_book") /\ UNCHANGED <<cache, authors, loans, users, writes, popular>>
      /\ At(r, "commit")
  BY DEF CommitCreateBook, AtCommit
<1>3. TablesOK /\ OrphansWereInsertedMeanwhile /\ CachedRowsStored /\ SlotOK(r)
  BY IInvParts
<1>4. a \in Authors /\ b \in Books
  BY <1>1, <1>2, <1>3 DEF SlotOK, RequestInv
<1>5. CASE b \in DOMAIN books
  <2>1. Finish(r) /\ UNCHANGED <<books, orphaned>>
    BY <1>1, <1>5 DEF CommitCreateBook
  <2>2. Pending(r) = {}
    BY <1>2, <1>3 DEF SlotOK, RequestInv, At, Pending
  <2>3. UNCHANGED <<cache, tables, orphaned, popular>>
    BY <1>2, <2>1 DEF tables
  <2> QED
    BY <1>2, <2>1, <2>2, <2>3, FinishEffect, SlotStep, WritesType DEF AtCommit
<1>6. CASE b \notin DOMAIN books
  <2>1. PICK row : row = [author |-> a, version |-> 0, is_active |-> TRUE]
    OBVIOUS
  <2>2. row \in Book /\ row.author = a
    BY <1>4, <2>1 DEF Book
  <2>3. /\ books' = Insert(books, b, row) /\ DoNext(r, <<DeletePattern(BookLists)>>)
        /\ orphaned \subseteq orphaned' /\ orphaned' \subseteq orphaned \cup {b}
        /\ ~authors[a].is_active => b \in orphaned'
        /\ \A q \in Requests :
             AtCommit(q, "delete_author") /\ session[q].id = a => b \in orphaned'
    BY <1>1, <1>6, <2>1 DEF CommitCreateBook
  <2>4. /\ DOMAIN books' = DOMAIN books \cup {b} /\ books'[b] = row
        /\ \A c \in DOMAIN books : books'[c] = books[c]
    BY <1>6, <2>3 DEF Insert
  <2>5. TablesOK'
    <3>1. DOMAIN books' \subseteq Books /\ orphaned' \subseteq DOMAIN books'
      BY <1>3, <1>4, <2>3, <2>4 DEF TablesOK
    <3>2. books' \in [DOMAIN books' -> Book]
      <4>1. \A c \in DOMAIN books' : books'[c] \in Book
        BY <1>3, <2>2, <2>4 DEF TablesOK
      <4>2. books' = [c \in DOMAIN books' |-> books'[c]]
        BY <2>3, <2>4 DEF Insert
      <4> QED
        BY <4>1, <4>2
    <3>3. \A l \in DOMAIN loans : loans[l].book \in DOMAIN books'
      BY <1>3, <2>4 DEF TablesOK
    <3>4. UNCHANGED <<authors, loans, users, writes, popular>>
      BY <1>2
    <3> QED
      BY <1>3, <3>1, <3>2, <3>3, <3>4 DEF TablesOK
  <2>6. OrphansWereInsertedMeanwhile'
    BY <1>2, <1>3, <2>2, <2>3, <2>4 DEF OrphansWereInsertedMeanwhile
  <2>7. RowsKept(r)
    BY <1>2, <2>2, <2>3, <2>4 DEF RowsKept
  <2>8. ASSUME NEW k \in Keys, Current(k)' # Current(k)
        PROVE  k \in BookLists \/ cache[k] = None
    <3>1. \A c \in Books \ {b} : BookAnswer(c)' = BookAnswer(c)
      BY <1>2, <2>4 DEF BookAnswer, Visible, Shown
    <3>2. k \in {BookKey(c) : c \in {b}} \cup BookLists
      BY <1>2, <2>8, <3>1, BooksShowElsewhere
    <3>3. cache[BookKey(b)] = None
      BY <1>3, <1>4, <1>6 DEF CachedRowsStored
    <3> QED
      BY <3>2, <3>3
  <2> QED
    BY <1>2, <2>3, <2>5, <2>6, <2>7, <2>8, NewBookCalls, PlainCommit
<1> QED
  BY <1>5, <1>6

(* A new version of a row has its type. *)
LEMMA NewVersionType ==
  /\ \A row \in Book : /\ NewVersion(row) \in Book /\ NewVersion(row).author = row.author
                       /\ NewVersion(row).is_active = row.is_active
  /\ \A row \in Loan : /\ NewVersion(row) \in Loan /\ NewVersion(row).user = row.user
                       /\ NewVersion(row).book = row.book
  /\ \A row \in Author : NewVersion(row) \in Author /\ NewVersion(row).is_active = row.is_active
<1>1. ASSUME NEW row \in Book
      PROVE  /\ NewVersion(row) \in Book /\ NewVersion(row).author = row.author
             /\ NewVersion(row).is_active = row.is_active
  BY DEF NewVersion, Book
<1>2. ASSUME NEW row \in Loan
      PROVE  /\ NewVersion(row) \in Loan /\ NewVersion(row).user = row.user
             /\ NewVersion(row).book = row.book
  BY DEF NewVersion, Loan
<1>3. ASSUME NEW row \in Author
      PROVE  NewVersion(row) \in Author /\ NewVersion(row).is_active = row.is_active
  BY DEF NewVersion, Author
<1> QED
  BY <1>1, <1>2, <1>3

(* update_book and delete_book. *)
LEMMA BookCommit ==
  ASSUME IInv, NEW r \in Requests, At(r, "commit"), NEW b \in DOMAIN books,
         NEW row \in Book, row.author = books[b].author, row.is_active => books[b].is_active,
         books' = [books EXCEPT ![b] = row], DoNext(r, InvalidateBook(b)),
         UNCHANGED <<cache, authors, loans, users, orphaned, writes, popular>>
  PROVE  IInv'
<1>1. TablesOK /\ OrphansWereInsertedMeanwhile /\ b \in Books
  BY IInvParts DEF TablesOK
<1>2. /\ DOMAIN books' = DOMAIN books /\ books'[b] = row
      /\ \A c \in DOMAIN books \ {b} : books'[c] = books[c]
  BY <1>1 DEF TablesOK
<1>3. TablesOK'
  BY <1>1, <1>2 DEF TablesOK
<1>4. OrphansWereInsertedMeanwhile'
  BY <1>1, <1>2 DEF OrphansWereInsertedMeanwhile
<1>5. RowsKept(r)
  BY <1>2 DEF RowsKept
<1>6. ASSUME NEW k \in Keys, Current(k)' # Current(k)
      PROVE  k \in {BookKey(b)} \cup BookLists
  <2>1. \A c \in Books \ {b} : BookAnswer(c)' = BookAnswer(c)
    BY <1>2 DEF BookAnswer, Visible, Shown
  <2>2. k \in {BookKey(c) : c \in {b}} \cup BookLists
    BY <1>6, <2>1, BooksShowElsewhere
  <2> QED
    BY <2>2
<1> QED
  BY <1>1, <1>3, <1>4, <1>5, <1>6, BookCalls, PlainCommit

(* update_book gives the book a new version.                                *)
LEMMA CommitUpdateBookKeeps ==
  ASSUME IInv, NEW r \in Requests, CommitUpdateBook(r)
  PROVE  IInv'
<1>1. PICK b : b = session[r].book
  OBVIOUS
<1>2. /\ AtCommit(r, "update_book") /\ At(r, "commit")
      /\ books' = [books EXCEPT ![b] = NewVersion(books[b])] /\ DoNext(r, InvalidateBook(b))
      /\ UNCHANGED <<cache, authors, loans, users, orphaned, writes, popular>>
  BY <1>1 DEF CommitUpdateBook, AtCommit
<1>3. b \in DOMAIN books /\ books[b] \in Book
  BY <1>1, <1>2, IInvParts DEF SlotOK, RequestInv, TablesOK
<1> QED
  BY <1>2, <1>3, NewVersionType, BookCommit

(* delete_book deactivates it.                                              *)
LEMMA CommitDeleteBookKeeps ==
  ASSUME IInv, NEW r \in Requests, CommitDeleteBook(r)
  PROVE  IInv'
<1>1. PICK b : b = session[r].book
  OBVIOUS
<1>2. /\ AtCommit(r, "delete_book") /\ At(r, "commit")
      /\ books' = [books EXCEPT ![b] = [books[b] EXCEPT !.is_active = FALSE]]
      /\ DoNext(r, InvalidateBook(b))
      /\ UNCHANGED <<cache, authors, loans, users, orphaned, writes, popular>>
  BY <1>1 DEF CommitDeleteBook, AtCommit
<1>3. b \in DOMAIN books /\ books[b] \in Book
  BY <1>1, <1>2, IInvParts DEF SlotOK, RequestInv, TablesOK
<1>4. PICK row : row = [books[b] EXCEPT !.is_active = FALSE]
  OBVIOUS
<1>5. row \in Book /\ row.author = books[b].author /\ row.is_active = FALSE
  BY <1>3, <1>4 DEF Book
<1>6. books' = [books EXCEPT ![b] = row]
  BY <1>2, <1>4
<1> QED
  BY <1>2, <1>3, <1>5, <1>6, BookCommit

(* update_author and delete_author: any book may show the change. *)
LEMMA AuthorCommit ==
  ASSUME IInv, NEW r \in Requests, At(r, "commit"), DoNext(r, InvalidateAuthor),
         TablesOK', OrphansWereInsertedMeanwhile', RowsKept(r),
         UNCHANGED <<cache, loans, users>>
  PROVE  IInv'
<1>1. ASSUME NEW k \in Keys, Current(k)' # Current(k)
      PROVE  k \in BookKeys \cup BookLists
  <2>1. \A b \in Books \ Books : BookAnswer(b)' = BookAnswer(b)
    OBVIOUS
  <2>2. k \in {BookKey(b) : b \in Books} \cup BookLists
    BY <1>1, <2>1, BooksShowElsewhere
  <2> QED
    BY <2>2 DEF BookKeys
<1>2. \A k \in Keys : Current(k)' # Current(k) => k \in KeysIn(InvalidateAuthor) \/ cache[k] = None
  BY <1>1, AuthorCalls
<1> QED
  BY <1>2, AuthorCalls, PlainCommit

(* update_author changes what the author's books show.                      *)
LEMMA CommitUpdateAuthorKeeps ==
  ASSUME IInv, NEW r \in Requests, CommitUpdateAuthor(r)
  PROVE  IInv'
<1>1. PICK a : a = session[r].id
  OBVIOUS
<1>2. /\ AtCommit(r, "update_author") /\ At(r, "commit") /\ DoNext(r, InvalidateAuthor)
      /\ authors' = [authors EXCEPT ![a] = NewVersion(authors[a])]
      /\ UNCHANGED <<cache, books, loans, users, orphaned, writes, popular>>
  BY <1>1 DEF CommitUpdateAuthor, AtCommit
<1>3. a \in Authors /\ TablesOK /\ OrphansWereInsertedMeanwhile
  BY <1>1, <1>2, IInvParts DEF SlotOK, RequestInv
<1>4. authors[a] \in Author
  BY <1>3 DEF TablesOK
<1>5. /\ authors' \in [Authors -> Author]
      /\ \A c \in Authors : authors'[c].is_active = authors[c].is_active
  BY <1>2, <1>3, <1>4, NewVersionType DEF TablesOK
<1>6. TablesOK'
  BY <1>2, <1>3, <1>5 DEF TablesOK
<1>7. OrphansWereInsertedMeanwhile'
  <2>1. \A b \in DOMAIN books : books[b].author \in Authors
    BY <1>3 DEF TablesOK, Book
  <2> QED
    BY <1>2, <1>3, <1>5, <2>1 DEF OrphansWereInsertedMeanwhile
<1>8. RowsKept(r)
  BY <1>2 DEF RowsKept
<1> QED
  BY <1>2, <1>6, <1>7, <1>8, AuthorCommit

(* delete_author: the author's books are among those it has loaded, or were *)
(* inserted meanwhile.                                                      *)
LEMMA CommitDeleteAuthorKeeps ==
  ASSUME IInv, NEW r \in Requests, CommitDeleteAuthor(r)
  PROVE  IInv'
<1>1. PICK a, loaded : a = session[r].id /\ loaded = session[r].loaded
  OBVIOUS
<1>2. /\ AtCommit(r, "delete_author") /\ At(r, "commit") /\ DoNext(r, InvalidateAuthor)
      /\ authors' = [authors EXCEPT ![a] = [authors[a] EXCEPT !.is_active = FALSE]]
      /\ books' = [b \in DOMAIN books |-> [books[b] EXCEPT
                     !.is_active = books[b].is_active /\ b \notin loaded]]
      /\ UNCHANGED <<cache, loans, users, orphaned, writes, popular>>
  BY <1>1 DEF CommitDeleteAuthor, AtCommit
<1>3. /\ a \in Authors /\ BooksOf(a) \subseteq loaded \cup orphaned
      /\ TablesOK /\ OrphansWereInsertedMeanwhile
  BY <1>1, <1>2, IInvParts DEF SlotOK, RequestInv
<1>4. authors[a] \in Author /\ \A b \in DOMAIN books : books[b] \in Book
  BY <1>3 DEF TablesOK
<1>5. /\ authors' \in [Authors -> Author] /\ authors'[a].is_active = FALSE
      /\ \A c \in Authors \ {a} : authors'[c] = authors[c]
  BY <1>2, <1>3, <1>4 DEF TablesOK, Author
<1>6. /\ DOMAIN books' = DOMAIN books
      /\ \A b \in DOMAIN books :
           /\ books'[b] \in Book /\ books'[b].author = books[b].author
           /\ books'[b].is_active => books[b].is_active /\ b \notin loaded
  <2>1. ASSUME NEW b \in DOMAIN books
        PROVE  /\ books'[b] \in Book /\ books'[b].author = books[b].author
               /\ books'[b].is_active => books[b].is_active /\ b \notin loaded
    <3>1. PICK active \in BOOLEAN : active = (books[b].is_active /\ b \notin loaded)
      OBVIOUS
    <3>2. books'[b] = [books[b] EXCEPT !.is_active = active]
      BY <1>2, <3>1
    <3>3. books'[b] \in Book /\ books'[b].author = books[b].author /\ books'[b].is_active = active
      BY <1>4, <3>2 DEF Book
    <3> QED
      BY <3>1, <3>3
  <2> QED
    BY <1>2, <2>1
<1>7. TablesOK'
  <2>1. books' \in [DOMAIN books' -> Book]
    BY <1>2, <1>6
  <2> QED
    BY <1>2, <1>3, <1>5, <1>6, <2>1 DEF TablesOK
<1>8. OrphansWereInsertedMeanwhile'
  <2> SUFFICES ASSUME NEW b \in DOMAIN books, books'[b].is_active,
                      ~authors'[books[b].author].is_active
               PROVE  b \in orphaned
    BY <1>2, <1>6 DEF OrphansWereInsertedMeanwhile
  <2>1. books[b].is_active /\ b \notin loaded /\ books[b].author \in Authors
    BY <1>4, <1>6 DEF Book
  <2>2. CASE books[b].author = a
    BY <1>3, <2>1, <2>2 DEF BooksOf
  <2>3. CASE books[b].author # a
    BY <1>3, <1>5, <2>1, <2>3 DEF OrphansWereInsertedMeanwhile
  <2> QED
    BY <2>2, <2>3
<1>9. RowsKept(r)
  BY <1>2, <1>6 DEF RowsKept
<1> QED
  BY <1>2, <1>7, <1>8, <1>9, AuthorCommit

(* create_loan, return_loan and cancel_loan: the loan, and a copy of its    *)
(* book.                                                                    *)
LEMMA LoanCommit ==
  ASSUME IInv, NEW r \in Requests, At(r, "commit"), NEW l \in LoanIds, NEW b \in DOMAIN books,
         NEW row \in Loan, DoNext(r, InvalidateBook(b) \o InvalidateLoan(l, row.user)),
         row.book \in DOMAIN books, books' = [books EXCEPT ![b] = NewVersion(@)],
         loans' = [m \in DOMAIN loans' |-> loans'[m]],
         DOMAIN loans' = DOMAIN loans \cup {l}, loans'[l] = row,
         \A m \in DOMAIN loans \ {l} : loans'[m] = loans[m],
         l \in DOMAIN loans => loans[l].user = row.user,
         l \notin DOMAIN loans => AtCommit(r, "create_loan") /\ l = session[r].id,
         UNCHANGED <<cache, authors, users, orphaned, writes, popular>>
  PROVE  IInv'
<1>1. /\ TablesOK /\ OrphansWereInsertedMeanwhile /\ b \in Books /\ books[b] \in Book
      /\ row.user \in Users
  BY IInvParts DEF TablesOK, Loan
<1>2. PICK copy : copy = NewVersion(books[b])
  OBVIOUS
<1>3. copy \in Book /\ copy.author = books[b].author /\ copy.is_active = books[b].is_active
  BY <1>1, <1>2, NewVersionType
<1>4. /\ DOMAIN books' = DOMAIN books /\ books'[b] = copy
      /\ \A c \in DOMAIN books \ {b} : books'[c] = books[c]
      /\ books' \in [DOMAIN books' -> Book]
  BY <1>1, <1>2, <1>3 DEF TablesOK
<1>5. DOMAIN loans' \ {l} = DOMAIN loans \ {l} /\ DOMAIN loans \subseteq DOMAIN loans'
  OBVIOUS
<1>6. TablesOK'
  <2>1. loans' \in [DOMAIN loans' -> Loan] /\ DOMAIN loans' \subseteq LoanIds
    <3>1. \A m \in DOMAIN loans' : loans'[m] \in Loan
      BY <1>1, <1>5 DEF TablesOK
    <3>2. DOMAIN loans' \subseteq LoanIds
      BY <1>1, <1>5 DEF TablesOK
    <3> QED
      BY <3>1, <3>2
  <2>2. UNCHANGED <<authors, users, orphaned, writes, popular>>
    OBVIOUS
  <2>3. \A m \in DOMAIN loans' : loans'[m].book \in DOMAIN books'
    BY <1>1, <1>4, <1>5 DEF TablesOK
  <2> QED
    BY <1>1, <1>4, <2>1, <2>2, <2>3 DEF TablesOK
<1>7. OrphansWereInsertedMeanwhile'
  BY <1>1, <1>3, <1>4 DEF OrphansWereInsertedMeanwhile
<1>8. RowsKept(r)
  BY <1>3, <1>4, <1>5 DEF RowsKept
<1>9. ASSUME NEW k \in Keys, Current(k)' # Current(k)
      PROVE  k \in {BookKey(b)} \cup BookLists \cup {LoanKey(l)} \cup LoanLists \cup UserLoans(row.user)
  <2>1. k \in {LoanKey(l)} \cup LoanLists \cup UserLoans(row.user) \cup BookKeys \cup BookLists
    BY <1>5, <1>9, LoanShowsElsewhere
  <2>2. ASSUME NEW c \in Books \ {b}, k = BookKey(c)
        PROVE  FALSE
    <3>1. BookAnswer(c)' = BookAnswer(c)
      BY <1>4 DEF BookAnswer, Visible, Shown
    <3> QED
      BY <1>9, <2>2, <3>1, BookKeyShows
  <2> QED
    BY <2>1, <2>2 DEF BookKeys
<1>10. PICK s, t : s = InvalidateBook(b) /\ t = InvalidateLoan(l, row.user)
  OBVIOUS
<1>11. /\ s \in Seq(Calls) /\ KeysIn(s) = {BookKey(b)} \cup BookLists
       /\ t \in Seq(Calls) /\ KeysIn(t) = {LoanKey(l)} \cup LoanLists \cup UserLoans(row.user)
  BY <1>1, <1>10, BookCalls, LoanCalls
<1>12. s \o t \in Seq(Calls) /\ KeysIn(s \o t) = KeysIn(s) \cup KeysIn(t)
  BY <1>11, KeysOfBoth
<1>13. PICK calls : calls = s \o t
  OBVIOUS
<1>14. \A k \in Keys : Current(k)' # Current(k) => k \in KeysIn(calls) \/ cache[k] = None
  BY <1>9, <1>11, <1>12, <1>13
<1>15. calls \in Seq(Calls) /\ DoNext(r, calls) /\ cache' = cache
  BY <1>10, <1>12, <1>13
<1> QED
  BY <1>6, <1>7, <1>8, <1>14, <1>15, PlainCommit

(* create_loan takes a copy: the book and the new loan are invalidated.     *)
LEMMA CommitCreateLoanKeeps ==
  ASSUME IInv, NEW r \in Requests, CommitCreateLoan(r)
  PROVE  IInv'
<1>1. PICK l, b, u : l = session[r].id /\ b = session[r].book /\ u = session[r].user
  OBVIOUS
<1>2. PICK row : row = [user |-> u, book |-> b, version |-> 0, active |-> TRUE]
  OBVIOUS
<1>3. /\ AtCommit(r, "create_loan") /\ At(r, "commit") /\ b \in DOMAIN books
      /\ DoNext(r, InvalidateBook(b) \o InvalidateLoan(l, u))
      /\ books' = [books EXCEPT ![b] = NewVersion(@)]
      /\ loans' = Insert(loans, l, row)
      /\ UNCHANGED <<cache, authors, users, orphaned, writes, popular>>
  BY <1>1, <1>2 DEF CommitCreateLoan, AtCommit
<1>4. l \in LoanIds \ DOMAIN loans /\ u \in Users /\ b \in Books
  BY <1>1, <1>3, IInvParts DEF SlotOK, RequestInv
<1>5. row \in Loan /\ row.user = u /\ row.book = b
  BY <1>2, <1>4 DEF Loan
<1>6. /\ DOMAIN loans' = DOMAIN loans \cup {l} /\ loans'[l] = row
      /\ \A m \in DOMAIN loans \ {l} : loans'[m] = loans[m]
      /\ loans' = [m \in DOMAIN loans' |-> loans'[m]]
  BY <1>3 DEF Insert
<1>7. /\ DoNext(r, InvalidateBook(b) \o InvalidateLoan(l, row.user))
      /\ row.book \in DOMAIN books /\ l \in LoanIds
      /\ l \in DOMAIN loans => loans[l].user = row.user
      /\ l \notin DOMAIN loans => AtCommit(r, "create_loan") /\ l = session[r].id
  BY <1>1, <1>3, <1>4, <1>5
<1> QED
  BY <1>3, <1>5, <1>6, <1>7, LoanCommit

(* What a loan operation has loaded is stored. *)
LEMMA LoanStored ==
  ASSUME IInv, NEW r \in Requests, At(r, "commit"), session[r].op \in LoanOps \cup {"update_loan"}
  PROVE  LET l == session[r].id IN
         /\ l \in DOMAIN loans /\ l \in LoanIds /\ loans[l] \in Loan
         /\ loans[l].user \in Users /\ loans[l].book \in DOMAIN books
BY IInvParts DEF SlotOK, RequestInv, TablesOK, Loan

(* return_loan and cancel_loan give it back.                                *)
LEMMA CommitCloseLoanKeeps ==
  ASSUME IInv, NEW r \in Requests, CommitCloseLoan(r)
  PROVE  IInv'
<1>1. PICK l : l = session[r].id
  OBVIOUS
<1>2. PICK b : b = loans[l].book
  OBVIOUS
<1>3. PICK row : row = [NewVersion(loans[l]) EXCEPT !.active = FALSE]
  OBVIOUS
<1>4. /\ At(r, "commit") /\ session[r].op \in LoanOps
      /\ loans' = [loans EXCEPT ![l] = row]
      /\ DoNext(r, InvalidateBook(b) \o InvalidateLoan(l, loans[l].user))
      /\ books' = [books EXCEPT ![b] = NewVersion(@)] /\ books[b].is_active
      /\ UNCHANGED <<cache, authors, users, orphaned, writes, popular>>
  BY <1>1, <1>2, <1>3 DEF CommitCloseLoan, AtCommit, LoanOps
<1>5. /\ l \in DOMAIN loans /\ l \in LoanIds /\ loans[l] \in Loan
      /\ b \in DOMAIN books
  BY <1>1, <1>2, <1>4, LoanStored
<1>6. row \in Loan /\ row.user = loans[l].user /\ row.book = b
  <2>1. PICK new : new = NewVersion(loans[l])
    OBVIOUS
  <2>2. new \in Loan /\ new.user = loans[l].user /\ new.book = b
    BY <1>2, <1>5, <2>1, NewVersionType
  <2>3. row = [new EXCEPT !.active = FALSE]
    BY <1>3, <2>1
  <2> QED
    BY <2>2, <2>3 DEF Loan
<1>7. /\ DOMAIN loans' = DOMAIN loans \cup {l} /\ loans'[l] = row
      /\ \A m \in DOMAIN loans \ {l} : loans'[m] = loans[m]
      /\ loans' = [m \in DOMAIN loans' |-> loans'[m]]
  BY <1>4, <1>5
<1> QED
  BY <1>4, <1>5, <1>6, <1>7, LoanCommit

(* A loan that was loaded gets a new version, its book none. *)
LEMMA NewLoanVersion ==
  ASSUME IInv, NEW r \in Requests, NEW l \in DOMAIN loans,
         loans' = [loans EXCEPT ![l] = NewVersion(@)],
         UNCHANGED <<authors, books, users, orphaned, writes, popular>>
  PROVE  /\ l \in LoanIds /\ loans[l].user \in Users
         /\ TablesOK' /\ OrphansWereInsertedMeanwhile' /\ RowsKept(r)
         /\ \A k \in Keys : Current(k)' # Current(k) =>
              k \in {LoanKey(l)} \cup LoanLists \cup UserLoans(loans[l].user)
<1>1. TablesOK /\ OrphansWereInsertedMeanwhile
  BY IInvParts
<1>2. l \in LoanIds /\ loans[l] \in Loan /\ loans[l].user \in Users
  BY <1>1 DEF TablesOK, Loan
<1>3. PICK row : row = NewVersion(loans[l])
  OBVIOUS
<1>4. row \in Loan /\ row.user = loans[l].user /\ row.book = loans[l].book
  BY <1>2, <1>3, NewVersionType
<1>5. /\ DOMAIN loans' = DOMAIN loans /\ loans'[l] = row
      /\ \A m \in DOMAIN loans \ {l} : loans'[m] = loans[m]
      /\ loans' \in [DOMAIN loans' -> Loan]
  BY <1>1, <1>3, <1>4 DEF TablesOK
<1>6. TablesOK'
  <2>1. \A m \in DOMAIN loans' : loans'[m].book \in DOMAIN books
    BY <1>1, <1>4, <1>5 DEF TablesOK
  <2> QED
    BY <1>1, <1>5, <2>1 DEF TablesOK
<1>7. OrphansWereInsertedMeanwhile' /\ RowsKept(r)
  BY <1>1, <1>5 DEF OrphansWereInsertedMeanwhile, RowsKept
<1>8. ASSUME NEW k \in Keys, Current(k)' # Current(k)
      PROVE  k \in {LoanKey(l)} \cup LoanLists \cup UserLoans(loans[l].user)
  BY <1>4, <1>5, <1>8, LoanAloneShows
<1> QED
  BY <1>2, <1>6, <1>7, <1>8

(* pay_fine and update_loan. *)
LEMMA CommitPaymentOrUpdateKeeps ==
  ASSUME IInv, NEW r \in Requests, CommitPaymentOrUpdate(r)
  PROVE  IInv'
<1>1. PICK l : l = session[r].id
  OBVIOUS
<1>2. /\ At(r, "commit") /\ session[r].op \in LoanOps \cup {"update_loan"}
      /\ loans' = [loans EXCEPT ![l] = NewVersion(@)]
      /\ DoNext(r, InvalidateLoan(l, loans[l].user))
      /\ UNCHANGED <<cache, authors, books, users, orphaned, writes, popular>>
  BY <1>1 DEF CommitPaymentOrUpdate, AtCommit, LoanOps
<1>3. l \in DOMAIN loans
  BY <1>1, <1>2, LoanStored
<1>4. /\ l \in LoanIds /\ loans[l].user \in Users
      /\ TablesOK' /\ OrphansWereInsertedMeanwhile' /\ RowsKept(r)
      /\ \A k \in Keys : Current(k)' # Current(k) =>
           k \in {LoanKey(l)} \cup LoanLists \cup UserLoans(loans[l].user)
  BY <1>2, <1>3, NewLoanVersion
<1>5. PICK calls : calls = InvalidateLoan(l, loans[l].user)
  OBVIOUS
<1>6. /\ calls \in Seq(Calls) /\ DoNext(r, calls)
      /\ KeysIn(calls) = {LoanKey(l)} \cup LoanLists \cup UserLoans(loans[l].user)
  BY <1>2, <1>4, <1>5, LoanCalls
<1>7. \A k \in Keys : Current(k)' # Current(k) => k \in KeysIn(calls) \/ cache[k] = None
  BY <1>4, <1>6
<1> QED
  BY <1>2, <1>4, <1>6, <1>7, PlainCommit

(* renew_loan deletes nothing: the keys that show it are marked. *)
LEMMA CommitRenewLoanKeeps ==
  ASSUME IInv, NEW r \in Requests, CommitRenewLoan(r)
  PROVE  IInv'
<1>1. PICK l : l = session[r].id
  OBVIOUS
<1>2. PICK marked : marked = {LoanKey(l)} \cup LoanLists \cup UserLoans(loans[l].user)
  OBVIOUS
<1>3. /\ At(r, "commit") /\ session[r].op \in LoanOps \cup {"update_loan"}
      /\ loans' = [loans EXCEPT ![l] = NewVersion(@)]
      /\ cache' = LeaveStale(marked) /\ Finish(r)
      /\ UNCHANGED <<authors, books, users, orphaned, writes, popular>>
  BY <1>1, <1>2 DEF CommitRenewLoan, AtCommit, LoanOps
<1>4. l \in DOMAIN loans
  BY <1>1, <1>3, LoanStored
<1>5. /\ TablesOK' /\ OrphansWereInsertedMeanwhile' /\ RowsKept(r)
      /\ \A k \in Keys : Current(k)' # Current(k) => k \in marked
  BY <1>2, <1>3, <1>4, NewLoanVersion
<1>6. PICK calls : calls = <<>>
  OBVIOUS
<1>7. calls \in Seq(Calls) /\ DoNext(r, calls)
  BY <1>3, <1>6 DEF Finish, DoNext
<1>8. CacheOK /\ CachedRowsStored
  BY IInvParts
<1>9. DOMAIN books \subseteq DOMAIN books' /\ DOMAIN loans \subseteq DOMAIN loans'
  BY <1>5 DEF RowsKept
<1>10. /\ CacheOK' /\ CachedRowsStored'
       /\ \A k \in Keys \ marked : cache'[k] = cache[k]
       /\ \A k \in marked : k \in Keys => cache'[k] = None \/ cache'[k].left_stale
  BY <1>3, <1>8, <1>9, MarkEffect
<1>11. ASSUME NEW k \in Keys
       PROVE  \/ cache'[k] = cache[k]
                   /\ (Current(k)' = Current(k) \/ k \in KeysIn(calls) \/ cache[k] = None)
              \/ cache'[k] = None \/ cache'[k].left_stale
  BY <1>5, <1>10
<1> QED
  BY <1>3, <1>5, <1>7, <1>10, <1>11, CommitStep

-----------------------------------------------------------------------------
(* The theorems. *)

(* Nothing is cached at the start, and no request has begun. *)
LEMMA InitIInv == Init => IInv
<1> SUFFICES ASSUME Init PROVE IInv
  OBVIOUS
<1>1. authors \in [Authors -> Author] /\ users \in [Users -> BOOLEAN]
  BY DEF Init, Author
<1>2. DOMAIN books = InitialBooks /\ books \in [DOMAIN books -> Book]
  <2>1. PICK author \in [InitialBooks -> Authors] :
          books = [b \in InitialBooks |->
                     [author |-> author[b], version |-> 0, is_active |-> TRUE]]
    BY DEF Init
  <2> QED
    BY <2>1 DEF Book
<1>3. /\ DOMAIN loans = InitialLoans /\ loans \in [DOMAIN loans -> Loan]
      /\ \A l \in DOMAIN loans : loans[l].book \in DOMAIN books
  <2>1. PICK book \in [InitialLoans -> InitialBooks], user \in [InitialLoans -> Users] :
          loans = [l \in InitialLoans |->
                     [user |-> user[l], book |-> book[l], version |-> 0, active |-> TRUE]]
    BY DEF Init
  <2> QED
    BY <1>2, <2>1, CatalogueAssumption DEF Loan
<1>4. /\ cache = [k \in Keys |-> None] /\ session = [r \in Requests |-> Idle]
      /\ orphaned = {} /\ writes = 0 /\ popular \in KeyKinds
  BY DEF Init
<1>5. TablesOK
  BY <1>1, <1>2, <1>3, <1>4, CatalogueAssumption DEF TablesOK
<1>6. CacheOK
  BY <1>4 DEF CacheOK, EntryOK
<1>7. CachedRowsStored
  <2>1. \A b \in Books : BookKey(b) \in Keys
    BY KeyDisjoint DEF BookKeys
  <2>2. \A l \in LoanIds : LoanKey(l) \in Keys
    BY KeyDisjoint DEF LoanKeys
  <2> QED
    BY <1>4, <2>1, <2>2 DEF CachedRowsStored
<1>8. OrphansWereInsertedMeanwhile
  <2>1. \A b \in DOMAIN books : books[b].author \in Authors
    BY <1>2 DEF Book
  <2>2. \A a \in Authors : authors[a].is_active
    BY DEF Init
  <2> QED
    BY <2>1, <2>2 DEF OrphansWereInsertedMeanwhile
<1>9. \A k \in Keys : Covered(k)
  BY <1>4 DEF Covered, Stale
<1>10. ASSUME NEW r \in Requests
       PROVE  SlotOK(r)
  <2>1. session[r] = Idle
    BY <1>4
  <2>2. /\ Idle.todo = <<>> /\ Idle.scanned = None /\ Idle.pc = "idle" /\ Idle.op = None
    BY DEF Idle
  <2>3. RequestInv(r) /\ Pending(r) = {}
    BY <2>1, <2>2 DEF RequestInv, At, AtCommit, Pending
  <2> QED
    BY <2>1, <2>2, <2>3 DEF SlotOK, PcSet, At
<1> QED
  BY <1>4, <1>5, <1>6, <1>7, <1>8, <1>9, <1>10, IInvParts

(* Every action keeps the invariant. *)
LEMMA NextIInv == IInv /\ [Next]_vars => IInv'
<1> SUFFICES ASSUME IInv, [Next]_vars PROVE IInv'
  OBVIOUS
<1>1. ASSUME NEW r \in Requests, Start(r)
      PROVE  IInv'
  BY <1>1, StartKeeps
<1>2. ASSUME NEW r \in Requests, Commit(r)
      PROVE  IInv'
  BY <1>2, CommitCreateBookKeeps, CommitUpdateBookKeeps, CommitDeleteBookKeeps,
     CommitUpdateAuthorKeeps, CommitDeleteAuthorKeeps, CommitCreateLoanKeeps,
     CommitCloseLoanKeeps, CommitPaymentOrUpdateKeeps, CommitRenewLoanKeeps DEF Commit
<1>3. ASSUME NEW r \in Requests, Invalidate(r)
      PROVE  IInv'
  BY <1>3, DeleteKeeps, ScanKeeps, DeleteScannedKeeps DEF Invalidate
<1>4. ASSUME NEW r \in Requests, Step(r)
      PROVE  IInv'
  BY <1>2, <1>3, <1>4, GetKeeps, SelectKeeps, CountRowsKeeps, FillKeeps, RefuseKeeps DEF Step
<1>5. ASSUME NEW r \in Requests, Fail(r)
      PROVE  IInv'
  BY <1>5, FailKeeps
<1>6. ASSUME NEW u \in Users, DeleteUser(u)
      PROVE  IInv'
  BY <1>6, DeleteUserKeeps
<1>7. ASSUME NEW k \in Keys, Expiry(k)
      PROVE  IInv'
  BY <1>7, ExpiryKeeps
<1>8. CASE UNCHANGED vars
  <2>1. UNCHANGED tables
    BY <1>8 DEF vars
  <2>2. UNCHANGED <<cache, session, authors, books, loans, users, orphaned, writes, popular>>
    BY <1>8 DEF vars, tables
  <2>3. /\ DOMAIN session' = Requests
        /\ \A q \in Requests : SlotOK(q)' /\ Pending(q)' = Pending(q)
    BY <2>2, SlotsKept
  <2>4. \A k \in Keys : EntryOK(k)'
    BY <2>2, IInvParts DEF CacheOK, EntryOK
  <2>5. TablesOK' /\ CacheOK' /\ CachedRowsStored' /\ OrphansWereInsertedMeanwhile'
    BY <2>2, <2>4, IInvParts DEF TablesOK, CacheOK, CachedRowsStored, OrphansWereInsertedMeanwhile
  <2>6. ASSUME NEW k \in Keys
        PROVE  Covered(k)'
    <3>1. Current(k)' = Current(k) /\ cache' = cache
      BY <2>1, <2>2, NothingShows
    <3>2. Covered(k)
      BY IInvParts
    <3> QED
      BY <2>3, <3>1, <3>2 DEF Covered, Stale
  <2> QED
    BY <2>3, <2>5, <2>6, IInvPartsNext
<1> QED
  BY <1>1, <1>4, <1>5, <1>6, <1>7, <1>8 DEF Next

(* The invariant of the proofs, of any number of requests, rows and keys. *)
THEOREM Invariance == Spec => []IInv
<1>1. Init => IInv
  BY InitIInv
<1>2. IInv /\ [Next]_vars => IInv'
  BY NextIInv
<1> QED
  BY <1>1, <1>2, PTL DEF Spec

(* Rows, entries and requests keep their types. *)
THEOREM TypeCorrect == Spec => []TypeOK
<1>1. IInv => TypeOK
  BY DEF IInv
<1> QED
  BY <1>1, Invariance, PTL

(* Whatever is set while a handler scans, and wherever a request ends:      *)
(* every entry that does not show the rows is still to be deleted, or was   *)
(* left so by a reader, a failure, renew_loan or delete_user.               *)
THEOREM StaleEntriesAreAccountedFor == Spec => []StaleEntriesAccountedFor
<1>1. IInv => StaleEntriesAccountedFor
  BY DEF IInv
<1> QED
  BY <1>1, Invariance, PTL

(* Of a deleted author's books only those stay active that were inserted    *)
(* while the deletion ran.                                                  *)
THEOREM OrphansAreInsertions == Spec => []OrphansWereInsertedMeanwhile
<1>1. IInv => OrphansWereInsertedMeanwhile
  BY DEF IInv
<1> QED
  BY <1>1, Invariance, PTL

-----------------------------------------------------------------------------
(* Deletions last. *)

(* What a step does to the rows of books and authors. *)
NoneRestored ==
  /\ \A b \in DOMAIN books : b \in DOMAIN books' /\ (books'[b].is_active => books[b].is_active)
  /\ \A a \in Authors : authors'[a].is_active => authors[a].is_active

(* A new version of a book or author is as active as the last. *)
LEMMA VersionsRestoreNothing ==
  ASSUME TablesOK, authors' = authors,
         NEW b \in DOMAIN books, books' = [books EXCEPT ![b] = NewVersion(@)]
  PROVE  NoneRestored
<1>1. PICK row : row = NewVersion(books[b])
  OBVIOUS
<1>2. row.is_active = books[b].is_active
  BY <1>1, NewVersionType DEF TablesOK
<1>3. /\ DOMAIN books' = DOMAIN books /\ books'[b] = row
      /\ \A c \in DOMAIN books \ {b} : books'[c] = books[c]
  BY <1>1
<1> QED
  BY <1>2, <1>3 DEF NoneRestored

(* No commit sets is_active of a row that is stored. *)
LEMMA CommitRestoresNothing ==
  ASSUME IInv, NEW r \in Requests, Commit(r)
  PROVE  NoneRestored
<1>1. TablesOK /\ SlotOK(r)
  BY IInvParts
<1>2. CASE CommitCreateBook(r)
  <2>1. authors' = authors
    BY <1>2 DEF CommitCreateBook
  <2>2. PICK b : b = session[r].book
    OBVIOUS
  <2>3. CASE b \in DOMAIN books
    <3>1. books' = books
      BY <1>2, <2>2, <2>3 DEF CommitCreateBook
    <3> QED
      BY <2>1, <3>1 DEF NoneRestored
  <2>4. CASE b \notin DOMAIN books
    <3>1. PICK row : books' = Insert(books, b, row)
      BY <1>2, <2>2, <2>4 DEF CommitCreateBook
    <3>2. \A c \in DOMAIN books : c \in DOMAIN books' /\ books'[c] = books[c]
      BY <2>4, <3>1 DEF Insert
    <3> QED
      BY <2>1, <3>2 DEF NoneRestored
  <2> QED
    BY <2>3, <2>4
<1>3. CASE CommitUpdateBook(r)
  <2>1. PICK b : b = session[r].book
    OBVIOUS
  <2>2. AtCommit(r, "update_book") /\ books' = [books EXCEPT ![b] = NewVersion(@)] /\ authors' = authors
    BY <1>3, <2>1 DEF CommitUpdateBook
  <2>3. b \in DOMAIN books
    BY <1>1, <2>1, <2>2 DEF SlotOK, RequestInv
  <2> QED
    BY <1>1, <2>2, <2>3, VersionsRestoreNothing
<1>4. CASE CommitDeleteBook(r)
  <2>1. PICK b : b = session[r].book
    OBVIOUS
  <2>2. PICK row : row = [books[b] EXCEPT !.is_active = FALSE]
    OBVIOUS
  <2>3. AtCommit(r, "delete_book") /\ books' = [books EXCEPT ![b] = row] /\ authors' = authors
    BY <1>4, <2>1, <2>2 DEF CommitDeleteBook
  <2>4. b \in DOMAIN books /\ books[b] \in Book
    BY <1>1, <2>1, <2>3 DEF SlotOK, RequestInv, TablesOK
  <2>5. row.is_active = FALSE
    BY <2>2, <2>4 DEF Book
  <2>6. /\ DOMAIN books' = DOMAIN books /\ books'[b] = row
        /\ \A c \in DOMAIN books \ {b} : books'[c] = books[c]
    BY <2>3, <2>4
  <2> QED
    BY <2>3, <2>5, <2>6 DEF NoneRestored
<1>5. CASE CommitUpdateAuthor(r)
  <2>1. PICK a : a = session[r].id
    OBVIOUS
  <2>2. PICK row : row = NewVersion(authors[a])
    OBVIOUS
  <2>3. /\ AtCommit(r, "update_author") /\ authors' = [authors EXCEPT ![a] = row]
        /\ books' = books
    BY <1>5, <2>1, <2>2 DEF CommitUpdateAuthor
  <2>4. a \in Authors
    BY <1>1, <2>1, <2>3 DEF SlotOK, RequestInv
  <2>5. row.is_active = authors[a].is_active
    BY <1>1, <2>2, <2>4, NewVersionType DEF TablesOK
  <2>6. authors'[a] = row /\ \A c \in Authors \ {a} : authors'[c] = authors[c]
    BY <1>1, <2>3, <2>4 DEF TablesOK
  <2> QED
    BY <2>3, <2>5, <2>6 DEF NoneRestored
<1>6. CASE CommitDeleteAuthor(r)
  <2>1. PICK a, loaded : a = session[r].id /\ loaded = session[r].loaded
    OBVIOUS
  <2>2. PICK row : row = [authors[a] EXCEPT !.is_active = FALSE]
    OBVIOUS
  <2>3. /\ AtCommit(r, "delete_author") /\ authors' = [authors EXCEPT ![a] = row]
        /\ books' = [b \in DOMAIN books |-> [books[b] EXCEPT
                       !.is_active = books[b].is_active /\ b \notin loaded]]
    BY <1>6, <2>1, <2>2 DEF CommitDeleteAuthor
  <2>4. a \in Authors
    BY <1>1, <2>1, <2>3 DEF SlotOK, RequestInv
  <2>5. row.is_active = FALSE
    BY <1>1, <2>2, <2>4 DEF TablesOK, Author
  <2>6. authors'[a] = row /\ \A c \in Authors \ {a} : authors'[c] = authors[c]
    BY <1>1, <2>3, <2>4 DEF TablesOK
  <2>7. ASSUME NEW b \in DOMAIN books
        PROVE  b \in DOMAIN books' /\ (books'[b].is_active => books[b].is_active)
    <3>1. PICK active \in BOOLEAN : active = (books[b].is_active /\ b \notin loaded)
      OBVIOUS
    <3>2. b \in DOMAIN books' /\ books'[b] = [books[b] EXCEPT !.is_active = active]
      BY <2>3, <3>1
    <3>3. books[b] \in Book
      BY <1>1 DEF TablesOK
    <3>4. books'[b].is_active = active
      BY <3>2, <3>3 DEF Book
    <3> QED
      BY <3>1, <3>2, <3>4
  <2> QED
    BY <2>5, <2>6, <2>7 DEF NoneRestored
<1>7. CASE CommitCreateLoan(r)
  <2>1. PICK b : b = session[r].book
    OBVIOUS
  <2>2. b \in DOMAIN books /\ books' = [books EXCEPT ![b] = NewVersion(@)] /\ authors' = authors
    BY <1>7, <2>1 DEF CommitCreateLoan
  <2> QED
    BY <1>1, <2>2, VersionsRestoreNothing
<1>8. CASE CommitCloseLoan(r)
  <2>1. PICK b : b = loans[session[r].id].book
    OBVIOUS
  <2>2. /\ At(r, "commit") /\ session[r].op \in LoanOps
        /\ books' = [books EXCEPT ![b] = NewVersion(@)] /\ authors' = authors
    BY <1>8, <2>1 DEF CommitCloseLoan, AtCommit, LoanOps
  <2>3. b \in DOMAIN books
    BY <2>1, <2>2, LoanStored
  <2> QED
    BY <1>1, <2>2, <2>3, VersionsRestoreNothing
<1>9. CASE CommitPaymentOrUpdate(r) \/ CommitRenewLoan(r)
  <2>1. books' = books /\ authors' = authors
    BY <1>9 DEF CommitPaymentOrUpdate, CommitRenewLoan
  <2> QED
    BY <2>1 DEF NoneRestored
<1> QED
  BY <1>2, <1>3, <1>4, <1>5, <1>6, <1>7, <1>8, <1>9 DEF Commit

(* No other step writes to books or authors. *)
LEMMA NextRestoresNothing == IInv /\ [Next]_vars => NoneRestored
<1> SUFFICES ASSUME IInv, [Next]_vars PROVE NoneRestored
  OBVIOUS
<1>1. CASE UNCHANGED <<authors, books>>
  BY <1>1 DEF NoneRestored
<1>2. ASSUME NEW r \in Requests, Start(r)
      PROVE  UNCHANGED tables
  <2>1. ASSUME NEW op, NEW k, Receive(r, op, k)
        PROVE  UNCHANGED tables
    BY <2>1 DEF Receive
  <2>2. ASSUME NEW op, NEW id, NEW book, NEW user, NEW loaded,
               Begin(r, op, id, book, user, loaded)
        PROVE  UNCHANGED tables
    BY <2>2 DEF Begin
  <2>3. \/ \E op, k : Receive(r, op, k)
        \/ \E op, id, book, user, loaded : Begin(r, op, id, book, user, loaded)
    BY <1>2, Zenon DEF Start, CreateBook, UpdateBook, DeleteBook, UpdateAuthor, DeleteAuthor,
       CreateLoan, UpdateLoan
  <2> QED
    BY <2>1, <2>2, <2>3
<1>3. ASSUME NEW r \in Requests, Step(r), ~Commit(r)
      PROVE  UNCHANGED tables
  BY <1>3 DEF Step, Get, Select, CountRows, Fill, Refuse, Invalidate
<1>4. ASSUME NEW r \in Requests, Fail(r)
      PROVE  UNCHANGED tables
  BY <1>4 DEF Fail
<1>5. ASSUME NEW u \in Users, DeleteUser(u)
      PROVE  UNCHANGED <<authors, books>>
  BY <1>5 DEF DeleteUser
<1>6. ASSUME NEW k \in Keys, Expiry(k)
      PROVE  UNCHANGED tables
  BY <1>6 DEF Expiry
<1>7. UNCHANGED vars => UNCHANGED tables
  BY DEF vars
<1>8. UNCHANGED tables => UNCHANGED <<authors, books>>
  BY DEF tables
<1> QED
  BY <1>1, <1>2, <1>3, <1>4, <1>5, <1>6, <1>7, <1>8, CommitRestoresNothing DEF Next

(* Whatever found a book or an author active and commits later, a deleted   *)
(* one stays deleted.                                                       *)
THEOREM DeletionsLast == Spec => DeletionsAreFinal
<1>1. IInv /\ [Next]_vars => NoneRestored
  BY NextRestoresNothing
<1>2. Spec => [][NoneRestored]_vars
  BY <1>1, Invariance, PTL DEF Spec
<1> QED
  BY <1>2 DEF DeletionsAreFinal, NoneRestored
=============================================================================
