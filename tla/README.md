# A verification of the library API

TLA+ modules, TLC configurations and TLAPS proofs for the application in
`src/`: a FastAPI service over PostgreSQL and Redis that lends books, takes
reservations and collects fines. The modules are translated from the Python
code; file and line of every definition are in `PROJECT.json` under `map`.

## The system

| component | state | operations | what makes it hard |
|---|---|---|---|
| Loan lifecycle (`domain/loans`) | `loans`, `books.available_copies` | create, return, cancel, renew, pay-fine, update | row locks on loans and books, reads before and after them, events after the commit |
| Fine calculation (`fine_calculator.py`) | none | days late, amount | instants compared, dates subtracted |
| Book stock (`domain/books`) | `books` | create, update, soft delete, cached reads | `update_book` computes from an unlocked read and writes absolute values |
| Reservations (`domain/reservation`) | `reservations` | create, cancel | no locks, no unique constraint |
| Users, authentication (`domain/users`, `config/security`) | `users`, tokens | sign-up, login, update, role, soft delete | a token outlives its user; one session holds the caller and the row |
| Authors (`domain/authors`) | `authors`, `books.is_active` | create, update, soft delete with its books | a book inserted during the deletion |
| Event bus, notification handlers (`events/`, `domain/notifications`) | `notifications` | publish, send | runs after the commit, in the request's session; lost with the request |
| Due-loan job (`domain/notifications/jobs`, `schedule/`) | `notifications` | the manual run; the scheduled one never starts | three lists read once, `send_once_per_day` checks and then inserts, two connections |
| Redis cache (`cache/`) | cached rows and lists | get, set with expiry, delete, delete by pattern | readers fill it while writers invalidate it |
| Session and pool (`infra/database`) | connections, transactions | open, commit, roll back | limited, held while waiting |
| Listing, pagination, reports | none | reads | a page and a count in two statements |
| Middleware, metrics, logging, health | counters | | nothing depends on it |

The services meet in the tables. A request runs in one `AsyncSession` from
`get_db`; its handler is a coroutine of a single process, so another request
can run at every `await`, which is at every statement and every Redis command.
PostgreSQL adds the row locks (`with_for_update`), and the transaction is READ
COMMITTED: a plain `SELECT` sees what is committed at that moment, a `SELECT
... FOR UPDATE` and an `UPDATE` wait for the lock of the row. After the commit
a handler deletes cache keys and publishes an event, whose handler inserts a
notification and commits again in the same session.

What makes each part correct, as far as it is modelled:

- copies of a book on the shelf and copies on loan add up to its total;
- a loan is closed once, with the fine its lateness calls for, and that fine
  is paid first; renewals are bounded and each moves the due date once;
- notifications tell what happened, once; a reader hears of a loan that is due
  as often as there are runs of the job at a time, and not without a cause;
- handlers that wait for locks do not wait for each other, and all end;
- rules checked by an unlocked read (loan limit, reservations) can be broken
  by no more than the requests that raced;
- a cached answer that is out of date is about to be deleted, or has one of
  the causes the code leaves open, and goes when its time is over;
- what is deleted stays deleted: books, authors and users; a role changes only
  as an admin asked;
- emails are unique, and an admin who was deleted or demoted is one no more,
  whatever token they have.

`PROJECT.json` lists every component and, under `hazards`, what is hard to
test in it, with the properties that watch it.

## The modules

| module | models |
|---|---|
| `FineCalculator` | `fine_calculator.py`; a datetime is a number of ticks, `TicksPerDay` to the calendar day |
| `Database` | the tables, row locks, requests in flight and what their sessions have loaded; transactions; notifications |
| `LoanService` | `loan_controller.py`, `loan_service.py`, `loan_repository.py`: one action per read, lock and commit |
| `BookService` | `update_book`, `delete_book` and `delete_user` as they meet lending |
| `ReservationService` | `domain/reservation` |
| `Library` | composes the services; failures and time; their properties; the inductive invariant; fairness |
| `LendingLedger` | the abstract specification: lend, take back, void, pay, renew and restock as indivisible steps |
| `CacheService` | `redis_service.py` over Redis: keys, entries, and the steps of a handler that deletes them |
| `Catalogue` | authors, books and loans as the endpoints read them through the cache and write them; composes with `CacheService` |
| `DueLoans` | the due-loan job, its repository and `send_once_per_day`, and the connection pool |
| `Accounts` | `user_service.py`, `dependencies.py`, the tokens; the migration that seeds the admin |
| `MCLibrary`, `MCCatalogue`, `MCDueLoans`, `MCAccounts`, `MCFineCalculator` | small instances |
| `LibraryProofs`, `LoanProofs`, `LedgerProofs`, `RaceProofs` | the proofs about `Library`: the invariant, each loan, copies and the ledger, notices and unlocked checks |
| `CatalogueProofs`, `AccountsProofs`, `DueLoansProofs` | the proofs about those modules |
| `FineProofs` | the proofs about `MCFineCalculator` |

### Library

A request slot `r` has an `op` (the endpoint), a `pc` (where its handler
stands) and what its session knows: ids, the instances loaded (`loan_row`,
`book_row`), the instant `at` that `datetime.utcnow()` returned. A handler is
a chain of actions; each takes its guard from the code's conditions, in their
order, and an exception before the commit is `Rollback`, which frees locks and
slot. `return_loan`, for example, is `ReceiveLoanRequest` (the controller's
`get_loan`), `ReturnLoan` (`find_active_by_id_for_update` and the fine check),
`ClosingLoanLocksBook` (`get_book_for_update`), `CommitReturnLoan`, then
`PublishLoanEvent`. An operator named `X_Something` just before `X`, here and
in the other modules, is a faulty variant of `X`: what a plausible mistake in
that code would be. No specification uses one; each makes one property of one
run fail (`PROJECT.json`, `mutants`).

Choices that a reader of the code may question:

- Values the code writes from an instance are written from the instance
  (`book_row`, `loan_row`), not from the row: `available_copies -= 1` is an
  `UPDATE ... SET available_copies = <number>`. That this is right while the
  row is locked, and wrong in `update_book` and `update_loan`, is what
  several properties are about.
- SQLAlchemy sends no `UPDATE` when an instance did not change, and only the
  changed columns otherwise; so do `CommitUpdateLoan` and `CommitUpdateBook`.
- `cancel_reservation` reads the row twice in one session; the second read
  returns the instance already in the identity map, with its old status, so
  the check is one read.
- `with_for_update` does not refresh an instance that is already in the
  session. The loan endpoints load the loan and, joined, its book before they
  lock them; but `get_loan` returns a dictionary, the identity map holds its
  instances weakly, and they are gone when the service asks again. So
  `LockLoan` and `GetBookForUpdate` load the rows as they are when locked.
- Foreign keys take a `KEY SHARE` lock on the referenced row, which waits for
  `FOR UPDATE`: inserting a reservation waits for its book, inserting a loan's
  notification for its loan.
- flush and commit of one handler are one step: the rows are locked, or new,
  or written by one statement.
- `create_reservation` reads the user and the book in one step: no property
  depends on what changes between the two `SELECT`s.
- Soft deletes of books and users are one step, for the write does not depend
  on what the read saw. Authors are taken as active (`Catalogue` has them).
- `FULFILLED` is a value of `ReservationStatus` that no code assigns.
- A failure (`RequestFails`) may end a request at any step: an exception, a
  lost connection, a crash. Locks and an uncommitted transaction go; an event
  not yet published is never published.
- `update_loan` with no `due_date` changes nothing and is not an action.
- The deletes of cache keys after a commit change no state of `Library`; they
  are in `Catalogue`.

### Catalogue and CacheService

A request that reads goes through `get` (the key), `select` (the row, or the
page of a listing), `count` (a listing's second `SELECT`) and `set`. One that
writes has found its rows, then commits, then makes its `delete` and
`delete_pattern` calls in the order of the code: `todo` holds the calls that
are left and `scanned` the keys `scan_iter` has yet to yield. Between any two
of these steps every other request can run.

- Only whether a cached answer shows the rows matters, so a row is its
  version, and what a key would now answer (`Current`) is made of versions.
  What an answer holds besides the row (`days_late` and the current fine of a
  loan that are computed when it is serialised) is left out: it is as old as
  the entry is, also when the row has not changed.
- `left_stale` is no part of an entry. It is set where the code itself leaves
  an entry that does not show the rows, and the properties read it: a reader
  that stores what it selected before a commit, a request that ends before its
  deletes, and the two writers that delete nothing (`renew_loan`, `delete_user`).
- Books are named by their ISBN, which is unique; a deleted book keeps it.
- The locked transactions of the loan service are single commits here, for
  `Library` shows that they behave so, and they may be refused.
- `return_loan`, `cancel_loan`, `pay_fine` and `renew_loan` first load the loan
  through the cache, as the controller does to check its owner. `GET
  /loans/{id}` calls `get_loan` twice, which is a reader that comes again.
- A write that changes no column still deletes the keys; here every write
  makes a new version.
- `scan_iter` yields every key that is there from its start to its end, and
  may yield keys that were set meanwhile: that is what Redis promises of SCAN.
- `create_author` writes no row that a key shows, and the author endpoints
  are not cached.
- `popular` is the kind of key that clients read in a behaviour. It keeps the
  instance small; loan operations read their loan's key in any case.

### DueLoans

A run holds the connection of its request (`authenticate`), lists the loans of
a phase, and for each asks for today's notice, inserts and commits it, which
gives the second connection back, and refreshes, which takes one again. Loans
are closed and given other due dates meanwhile, days go by, runs fail. Only
runs started by an admin exist: `main.py` never passes the lifespan that starts
the scheduler to FastAPI. `PoolLimit` is what the other requests leave of
`pool_size + max_overflow`; waiting ends by `TimeOut` when none is free. The
clock of the server is UTC, so `date.today()` and `utcnow()` agree.

### Accounts

A request that needs an admin waits at `authenticate` with its token, loads the
caller, finds the user to change and commits. Caller and user are loaded in one
session: when they are the same user, the second read returns the instance of
the first (`GetById`), and a commit writes the columns that were assigned, no
others (`Flushed`). Passwords are not modelled beyond the step of logging in;
`Names` stands for every field without a rule. A token is in circulation until
it expires (`Expire`), its role is the one its user had then.

## The runs

| run | asks | shows |
|---|---|---|
| `fines` | one loan, two requests, seven instants of two-tick days, failures | types, `ReturnedLoansAreSettled`, `RenewalsAccountedFor`, `ClosedLoansAreFinal`, and that the rows implement `LendingLedger` |
| `lending` | two books, two loans, two requests, deletions, failures | `CopiesConserved`, `LoanNotificationsTruthful` and `OutcomesInv`, its inductive form, `LendingLedger` again with copies that run out |
| `edits` | every loan endpoint, `update_book`, `delete_book`, `create_reservation`; one loan, two requests, fair | `IInv`, the invariant of the proofs, `NoWaitCycle`, `LoansOfDeletedBooksStayOpen`; what an unlocked `update_loan` leaves of the rules: `RecordedFinesArePaid`, `PaymentsAreKept`, and, of a loan closed meanwhile, all but its due date (`ClosedLoansAreOnlyRedated`); and an unlocked `update_book`: no less than nothing on a shelf where `total_copies` is not negative (`NoCopyOverdrawn`); `EveryRequestEnds` |
| `overshoot` | three loans, three reservations, limit 1, two requests | how far unlocked checks can be overrun, and how often one reservation is cancelled; `RacesInv`, the inductive form of the three |
| `cache` | two books, two loans, a page of each listing, two requests, two writes, every endpoint, failures | which entries can be out of date, that they go in the end, that deletions last |
| `due_loans` | two loans, two runs, two connections, a day's change, one change to a loan | `IInv`; notices are bounded, complete and grounded, and every run ends |
| `accounts` | three users, two emails, two requests, two tokens | emails are unique, old tokens are not believed, the deleted stay deleted, roles change only by an admin's `update_role` (`RolesChangeByOrder`), and the lock-out of all admins |
| `fine_rule` | every due date and instant of five days of four ticks | days late are midnights passed; a fine grows by a day's amount at most |
| `loan_limit`, `total_below_loans` | two requests, one rule of the documents each | the rule is broken when two requests overlap |
| `renewal_cache_stale` | one request at a time | a renewal leaves an entry that is out of date |
| `scheduler_idle` | a day without an admin | the job does not run on it |

The four violations are rules that the documents, error messages or sequential
tests state and the code does not keep; `PROJECT.json`, `findings`, quotes
them.

Bounds. `LoanIds` and `ReservationIds` are the rows that may ever be created:
a `create` request needs a free id, so a run stops when all are used, which is
why most configurations switch the deadlock check off; `fines`, `due_loans` and
`accounts` keep it on, since there a request can always be received. Two
requests are enough for every race described here, as each is between two
handlers and a row, or an entry; three loans and three reservations let a
second overrun follow a first. `MaxNow` bounds the clock; in `fines` it covers a
loan that is late, paid, later still, paid again and returned, and one renewed
in time and then late, in `due_loans` a midnight during a run. `LOAN_DAYS`,
`RENEWAL_DAYS` and `MAX_RENEWALS` are 14, 7 and 2 in the code and 1 in the
runs, except that `LOAN_DAYS` is 0 in `edits`: a loan is then late at the second
of its two instants, and one of them suffices to pay before or after the due date
is moved. That run leaves out `delete_user` and `cancel_reservation`, which wait
for no lock; they are in `lending` and `overshoot`. `Copies` and `DueDates` are the values clients may send. Where `MaxNow` is
0 the property does not involve lateness. In `cache`, `MaxWrites` 2 lets one
write run across the invalidation of another, while one request reads; more
than one page of a listing would be deleted in the same scan. In `due_loans`,
`MaxChanges` 1 lets a loan change between any two steps of a run; `PoolLimit` 2
is the least for which two runs can hold every connection while both wait. In
`accounts`, two tokens are one before and one after a change of role. Symmetry
is used for ids and slots in the runs without liveness.

Fairness. In `Library`, `FairSpec` assumes strong fairness of each request's
own `Step`. The event loop resumes every ready coroutine, and PostgreSQL queues
those that wait for a row lock, so a handler whose lock becomes free again and
again is granted it. Weak fairness would not do there: a lock can be free and
taken, over and over, by newcomers. In `Catalogue` and `DueLoans` weak fairness
of each handler is enough, for its next step stays possible: Redis and
PostgreSQL answer, and the pool gives a connection or times out. `Catalogue`
assumes too that an entry whose time is over is dropped. Nothing is assumed of
clients, failures or time.

## The proofs

The theorems hold for any numbers of users, books, rows, pages and concurrent
requests and for any limits, from the assumptions `DatabaseAssumption`,
`TicksPerDayAssumption`, `CatalogueAssumption`, `AccountsAssumption`,
`DueLoansAssumption` and `MaxTimeAssumption`: ids are finite in number, limits
and instants are natural numbers, a day has at least one tick, what is stored at
the start is among the ids. Hypotheses that single theorems need besides are
named with them below.

### Library

`IInv` is the inductive invariant. The types alone are not inductive: that a
handler writes a row of its type depends on what it loaded. `IInv` says of each
request (`RequestInv`) which row locks it holds at each step (`LocksMatch`);
that the loan it is to create is new and its alone (`LoanIsNew`); that the
loan it names is stored (`LoanIsStored`); and, the heart of it, that while it
holds a lock, the instance its session loaded is still the row, and has passed
the checks of its handler (`LoanIsCurrent`, `BookIsCurrent`). The run `edits`
checks `IInv` with TLC.

`LibraryProofs` shows that every step keeps it. `OthersUndisturbed` is the
argument all share: a request that takes no step keeps its part of the
invariant if the locks it holds stay its own, the rows under them do not
change and rows are only added. `QuietStep`, `LoanCommit` and
`UnlockedCommit` specialise it for reads, commits under lock and commits
without; there is then one lemma for each action.

| theorem | says | along which argument |
|---|---|---|
| `TypeCorrect`, `Invariance` | `[]TypeOK`, `[]IInv` | one lemma per action |
| `DeadlockFree` | `[]NoWaitCycle` | a holder of a book's lock waits for nobody; a holder of a loan's lock waits for a holder of a book's lock |
| `ClosedLoansStayClosed` | `ClosedLoansAreFinal` | only the holder of a loan's lock changes its row, and it found the loan active |
| `ClosedLoansAreRedatedAtMost` | `ClosedLoansAreOnlyRedated` | as above; `update_loan` alone commits without the lock, and writes the due date alone |
| `LoansOfDeletedBooksAreStuck` | `LoansOfDeletedBooksStayOpen` | closing a loan needs the lock of its book, under which the book is not deleted |
| `FinesAreSettled` | `[]ReturnedLoansAreSettled` | the fine check is still true at the commit, for the row is locked |
| `ReturnsArePaid`, `PaymentsLast` | `[]RecordedFinesArePaid`, `PaymentsAreKept` | what a payment or a return compares is still the row when it commits; `update_loan` writes neither fine nor payment |
| `RenewalsAreAccountedFor` | `[]RenewalsAccountedFor` | a renewal adds to the row it has locked |
| `CopiesAreConserved` | `[]CopiesConserved`; that none is lent beyond the shelf only where `total_copies >= 0` | each commit moves one copy and opens or closes one loan |
| `CopiesAreNotOverdrawn` | `[]NoCopyOverdrawn`, which speaks of books with `total_copies >= 0` | `create_loan` finds a copy under the lock; `update_book` writes the difference of two numbers of one instance that it has compared (`BookIsCurrent`) |
| `LedgerIsImplemented` | `Spec => ImplementsLedger` | the instances a commit writes from are the rows it has locked, so each commit is one operation of the ledger; every other step leaves stock, shelf and entries alone |

`ClosedLoansStayClosed`, `FinesAreSettled` and `RenewalsAreAccountedFor` assume
`DueDates = {}`, that is, no client calls `PUT /loans/{id}`: `update_loan` writes
a due date over a loan that may have been closed meanwhile.
`CopiesAreConserved` and `LedgerIsImplemented` assume that none calls `PUT
/books/{id}`; the run `total_below_loans` shows why. That no more copies are
lent than a book has is said of books with `total_copies >= 0`: `create_book`
accepts any integer. The other theorems hold whatever
operations are in use: `ClosedLoansAreRedatedAtMost`, `ReturnsArePaid`,
`PaymentsLast` and `CopiesAreNotOverdrawn` say what is left of the rules when
those two endpoints are.

`RaceProofs` is about what requests do to each other beside the locks. The
bounds on what is stored are not inductive: a request that has passed its check
is going to add to it. So each invariant counts both, what is there and who is
on the way to it.

- `OutcomesInv`: the notices of an outcome and the requests about to publish it
  (`Telling`) come to one at most, and to none as long as the row does not show
  the outcome. The commit that brings it about holds the lock of the loan and
  has found it active (`IInv`), so nobody has told of it before; a failure
  between the commit and the event only loses the notice.
- `RacesInv`: active loans and the requests past the count (`Lending`) together
  exceed the limit by less than the number of requests. A request joins them
  while there is room for the loans stored, and then all others may be on the
  way: hence the bound, which holds for every request slot but none.
  Reservations and those past the check (`Reserving`) likewise. The requests
  that found a reservation active (`Cancelling`) and the notices of its
  cancellation are no more than the requests, for once one has committed nobody
  joins them; and a reservation to be inserted is new (`ReservationIsNew`).

| theorem | says | along which argument |
|---|---|---|
| `OutcomesInvariance`, `LoanNotificationsAreTruthful` | `[]OutcomesInv`, `[]LoanNotificationsTruthful` | which steps change the row of a loan, and which the notices (`LoanRowStep`, and a lemma for each outcome) |
| `RacesInvariance` | `[]RacesInv` | which steps put a request among those on the way, or take it away |
| `OvershootIsBounded`, `DuplicateReservationsAreBounded`, `CancellationsAreBounded` | `[]OvershootBounded`, `[]DuplicateReservationsBounded`, `[]CancellationsBounded` | from `RacesInv`, by the cardinalities of its sets |

The last two rows assume `Requests # {}`: with no request slot at all the bound
of `RacesInv` would be one less than the limit, and the limit may be 0.

### Catalogue

`IInv` adds to the types, to `StaleEntriesAccountedFor` and to
`OrphansWereInsertedMeanwhile`: what each step of a handler has found
(`RequestInv`), among it that an author's deletion has loaded every book of the
author that is not recorded as inserted across it; that only stored rows are
cached, so the key of a book that `create_book` inserts is empty, although it
deletes the listings alone; and that the books of loans are stored. The run
`cache` checks it with TLC.

`CatalogueProofs` begins with what each kind of key shows, and which keys a
commit can show in (`BooksShowElsewhere`, `LoanShowsElsewhere`, `LoanAloneShows`).
`PlainCommit` needs those to be among the keys that the handler's calls delete
(`BookCalls`, `AuthorCalls`, `LoanCalls`). `DropStep` covers the deletes: what is
no longer pending has been deleted or was absent, also when `scan_iter` began
before it was set. `MarkEffect` covers the steps that leave entries behind.

| theorem | says | along which argument |
|---|---|---|
| `TypeCorrect`, `Invariance` | `[]TypeOK`, `[]IInv` | one lemma per action |
| `StaleEntriesAreAccountedFor` | `[]StaleEntriesAccountedFor` | the keys that show a commit are pending when it is made, and cease to be so by their deletion |
| `OrphansAreInsertions` | `[]OrphansWereInsertedMeanwhile` | a deletion covers what it has loaded, and every later insert is recorded |
| `DeletionsLast` | `DeletionsAreFinal` | a commit writes a new version or FALSE, and none inserts over a stored row |

### Accounts

`IInv` adds to the types, `EmailsUnique` and `RevocationIsImmediate` that a
sign-up has an id of its own, that a request in the service has found its caller
active, and that one about to commit names a stored user. It only strengthens
these three for the proofs; the run `accounts` checks the three and not `IInv`.

| theorem | says | along which argument |
|---|---|---|
| `TypeCorrect`, `Invariance` | `[]TypeOK`, `[]IInv` | one step per action |
| `EmailsAreUnique` | `[]EmailsUnique` | the constraint at the insert; no other commit writes an email |
| `RevocationsAreImmediate` | `[]RevocationIsImmediate` | the caller is looked up, not taken from the token |
| `TheDeletedStayDeleted` | `DeletedUsersStayDeleted` | an instance that was active writes its own changed columns, and none assigns TRUE |
| `RolesAreOrdered` | `RolesChangeByOrder` | a commit writes a role that differs from the row only when it assigned it, and its caller was an admin when let in |
| `LockoutLasts` | `LockoutIsPermanent` | only a request that has loaded its caller as an admin assigns a role |

### DueLoans

`IInv` adds to the types, which hold the limit of the pool, what each run holds,
has listed and has told (`RunInv`): the connections of its step
(`ConnectionsMatch`); that it began in the past, and closes only with its last
list done (`StepMatches`); that what is still on the list is due, unless it
changed since the run began (`ListIsDue`); and that a loan that called for a notice all
the while has it or is still on the list (`NobodyIsLeftOut`), for `CompleteRunsNotify`
speaks of the last step alone. `NoticesInv` counts today's notices with the runs
that found none and are about to insert one, as `RacesInv` does, and adds that
there are none of a day to come, so midnight starts the count anew. The run
`due_loans` checks it with TLC.

| theorem | says | along which argument |
|---|---|---|
| `TypeCorrect`, `Invariance` | `[]TypeOK`, `[]IInv` | one lemma per action; a connection is taken only from a pool that has one |
| `NoticesAreBounded` | `[]NoticesBounded` | a run is about to insert only what it has not found, and notices of past days stay as they are |
| `CompleteRunsHaveNotified` | `[]CompleteRunsNotify` | a loan leaves the list when its notice is found or inserted, and notices are never deleted |
| `NoticesAreAlwaysGrounded` | `NoticesAreGrounded` | `ListIsDue` of the loan for which a run inserts |

### Fines

The state is a due date and an instant that moves on by ticks. `Carry` is the
arithmetic: a tick adds one to the quotient by the ticks of a day when the
remainder becomes 0, and nothing otherwise.

| theorem | says | along which argument |
|---|---|---|
| `DaysLateAreMidnights` | `[]DaysLateCountMidnights` | a tick is a midnight exactly when it moves the date on, and the set of midnights gains it then |
| `FinesGrowByTheDay` | `FineGrowsByTheDay` | the date moves on by one at most |

### What is only model-checked

Liveness: `EveryRequestEnds`, `CacheConverges` and `EveryRunEnds`, which is out
of the prover's reach. Every invariant and action property of the passing runs
is proved, some under the hypotheses named above. The four violations are
counterexamples, which TLC finds.

## Plan

1. Done: lending, reservations and stock over row locks, `LendingLedger` and
   the proof that the services implement it.
2. Done: the cache against every writer, with its proofs.
3. Done: the due-loan job, its notices and the pool.
4. Done: authors and books, the deletion of an author against a new book.
5. Done: users and authentication, with their proofs.
6. Done: proofs of the notices of lending, the bounds on overruns, the due-loan
   job and the rule of days late.
7. Done: what still holds of fines and copies when `PUT /loans/{id}` and `PUT
   /books/{id}` are in use.
8. Left: the same for renewals, and how far the copies of a book can be off when
   its updates overlap lending.

Not modelled, and why:

- Reports and the PDF and CSV export are single reads and layout.
- Middleware, metrics, logging, health checks and rate limiting keep no state
  that a service depends on.
- The order of rows: a page has an offset and no `ORDER BY`, so PostgreSQL may
  show a row on two pages or on none, and the code promises nothing else.
- `create_author` and the author's own listing: no other step reads what they
  write before it is there, and nothing of them is cached.
- Migrations other than the one that seeds the admin (`InitialUsers`).
- `EventBus.subscribe`: each request makes a bus and registers each handler
  once, so all have the same handlers (`EventType`).
- That a reservation can slip between the check and the commit of a renewal,
  and a copy come back between those of a reservation, is in `Library`'s
  behaviours, but no property speaks of it: either outcome could have come
  about in another order.
