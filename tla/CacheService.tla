----------------------------- MODULE CacheService -----------------------------
(* cache/redis_service.py over Redis, and the handlers of the services that *)
(* fill the cache and delete from it.  Redis runs one command at a time;    *)
(* between two commands of a handler any other request can run.             *)
EXTENDS Integers, Sequences, FiniteSets

CONSTANTS
  Authors, Users,      \* rows that exist from the start
  Books,               \* by ISBN, which is unique and stands for the id
  LoanIds,
  Pages,               \* page, size and filters of a listing
  Requests,            \* slots for concurrent requests
  None,
  Operations,          \* endpoints in use; "fail" for failures
  InitialBooks, InitialLoans,   \* rows stored from the start
  MaxWrites            \* bound on the writes that are started

VARIABLES
  cache,    \* for each key its entry, or None
  session   \* what each request is doing

-----------------------------------------------------------------------------
(* Keys, and the patterns that match them *)

BookKey(b) == <<"book", b>>
BookListKey(p) == <<"books:list", p>>
LoanKey(l) == <<"loans:item", l>>
LoanListKey(p) == <<"loans:list", p>>
UserLoansKey(u, p) == <<"loans:user", u, p>>

BookKeys == {BookKey(b) : b \in Books}
BookLists == {BookListKey(p) : p \in Pages}
LoanKeys == {LoanKey(l) : l \in LoanIds}
LoanLists == {LoanListKey(p) : p \in Pages}
UserLoans(u) == {UserLoansKey(u, p) : p \in Pages}

KeyKinds == {BookKeys, BookLists, LoanKeys, LoanLists} \cup {UserLoans(u) : u \in Users}

ListKeys == BookLists \cup LoanLists \cup UNION {UserLoans(u) : u \in Users}

Keys == UNION KeyKinds

-----------------------------------------------------------------------------
(* A request reads through the cache (pc "get" to "set"), commits a write   *)
(* ("commit") and deletes what its write has changed ("invalidate").        *)

(* seen: what a reader has selected.  loaded: the books delete_author has   *)
(* loaded with the author.  todo: the delete and delete_pattern calls that  *)
(* are left, in order.  scanned: the keys scan_iter still has to yield for  *)
(* the first of them, or None before it has begun.                          *)
Idle == [op |-> None, pc |-> "idle", id |-> None, book |-> None, user |-> None,
         key |-> None, seen |-> None, loaded |-> {}, todo |-> <<>>, scanned |-> None]

Call(keys, scans) == [keys |-> keys, scans |-> scans]

DeleteKey(k) == Call({k}, FALSE)          \* cache_service.delete(k)
DeletePattern(keys) == Call(keys, TRUE)   \* cache_service.delete_pattern(...)

At(r, pc) == session[r].pc = pc

Finish(r) == session' = [session EXCEPT ![r] = Idle]

(* The handler goes on to its next cache call, or returns. *)
DoNext(r, todo) ==
  session' = [session EXCEPT ![r] =
    IF todo = <<>> THEN Idle ELSE [@ EXCEPT !.pc = "invalidate", !.todo = todo, !.scanned = None]]

(* Faulty variant: set without ex, so that the entry never expires.         *)
Set_NoExpiry(k, value, stale) ==
  cache' = [cache EXCEPT ![k] = [value |-> value, ex |-> FALSE, left_stale |-> stale]]

(* set always gives ex.  left_stale is no part of the entry: it records     *)
(* that the entry does not show the rows and no handler is left to delete   *)
(* it.                                                                      *)
Set(k, value, stale) ==
  cache' = [cache EXCEPT ![k] = [value |-> value, ex |-> TRUE, left_stale |-> stale]]

Without(keys) == [k \in Keys |-> IF k \in keys THEN None ELSE cache[k]]

LeaveStale(keys) ==
  [k \in Keys |-> IF k \in keys /\ cache[k] # None
                  THEN [cache[k] EXCEPT !.left_stale = TRUE] ELSE cache[k]]

Present(keys) == {k \in keys : cache[k] # None}

Delete(r) ==
  /\ At(r, "invalidate")
  /\ ~Head(session[r].todo).scans
  /\ cache' = Without(Head(session[r].todo).keys)
  /\ DoNext(r, Tail(session[r].todo))

(* scan_iter is certain to yield the keys that are there from its start to  *)
(* its end.                                                                 *)
Scan(r) ==
  LET found == Present(Head(session[r].todo).keys) IN
  /\ At(r, "invalidate")
  /\ Head(session[r].todo).scans
  /\ session[r].scanned = None
  /\ IF found = {}
     THEN DoNext(r, Tail(session[r].todo))
     ELSE session' = [session EXCEPT ![r].scanned = found]
  /\ UNCHANGED cache

(* The loop deletes one key it was yielded, or one that was set meanwhile   *)
(* and that scan_iter may yield too.                                        *)
DeleteScanned(r) ==
  LET todo == session[r].todo IN
  /\ At(r, "invalidate")
  /\ session[r].scanned # None
  /\ \E k \in session[r].scanned \cup Present(Head(todo).keys) :
       /\ cache' = Without({k})
       /\ IF session[r].scanned = {k}
          THEN DoNext(r, Tail(todo))
          ELSE session' = [session EXCEPT ![r].scanned = @ \ {k}]

(* What r is still certain to delete. *)
Pending(r) ==
  LET todo == session[r].todo
      calls == {todo[i] : i \in DOMAIN todo}
  IN IF session[r].scanned = None
     THEN UNION {c.keys : c \in calls}
     ELSE session[r].scanned
            \cup UNION {todo[i].keys : i \in DOMAIN todo \ {1}}

(* Redis drops an entry whose time is over. *)
Expire(k) ==
  /\ cache[k] # None
  /\ cache[k].ex
  /\ cache' = Without({k})
  /\ UNCHANGED session
=============================================================================
