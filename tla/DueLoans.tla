------------------------------- MODULE DueLoans -------------------------------
(* The due-loan notification job (notifications/jobs), started by admins,   *)
(* while loans are returned and given other due dates and days go by.  Each *)
(* run keeps the connection of its request and takes another of the same    *)
(* pool for the session of the job.                                         *)
EXTENDS FineCalculator, FiniteSets, Sequences

CONSTANTS
  LoanIds,
  Runs,        \* slots for concurrent requests
  None,
  DueDates,    \* due dates that loans have
  PoolLimit,   \* pool_size + max_overflow, less what others keep
  MaxChanges,  \* bound on the changes to loans
  MaxNow       \* bound on the clock

ASSUME DueLoansAssumption ==
  /\ IsFiniteSet(LoanIds) /\ IsFiniteSet(Runs)
  /\ DueDates \subseteq Nat
  /\ {PoolLimit, MaxChanges, MaxNow} \subseteq Nat

VARIABLES
  loans,          \* status and due_date of each loan
  notifications,  \* how many rows there are of a loan, type and date
  job,            \* what each run is doing
  started,        \* history: the dates on which runs began
  changes,        \* how often loans were changed
  now             \* datetime.utcnow(); the server's clock is UTC

vars == <<loans, notifications, job, started, changes, now>>

-----------------------------------------------------------------------------
today == Date(now)   \* date.today()

DAYS_BEFORE == 2     \* timedelta(days=2)

(* The three loops of execute, in order. *)
Phases == <<"LOAN_DUE_SOON", "LOAN_DUE_TODAY", "LOAN_OVERDUE">>
NotificationType == {Phases[i] : i \in DOMAIN Phases}

Loan == [active: BOOLEAN, due_date: DueDates]

(* at: when execute began.  todo: the loans of the list that are left.      *)
(* loan: the one that is being told.  held: connections of the run.         *)
(* changed, a history: the loans that others changed since.                 *)
Run == [pc: {"idle", "authenticate", "list", "exists", "create", "refresh", "close"},
        at: 0 .. MaxNow, phase: DOMAIN Phases, todo: SUBSET LoanIds,
        loan: LoanIds \cup {None}, held: 0 .. 2, changed: SUBSET LoanIds]

Idle == [pc |-> "idle", at |-> 0, phase |-> 1, todo |-> {}, loan |-> None,
         held |-> 0, changed |-> {}]

At(r, pc) == job[r].pc = pc

Type(r) == Phases[job[r].phase]

Step(r, row) == job' = [job EXCEPT ![r] = row]

(* The exception leaves both sessions, or the 204 does. *)
Finish(r) == Step(r, Idle)

-----------------------------------------------------------------------------
(* The connection pool *)

Holding(n) == {r \in Runs : job[r].held >= n}

InUse == Cardinality(Holding(1)) + Cardinality(Holding(2))

(* Faulty variant: one connection more than the limit.                      *)
Free_OneMore == InUse <= PoolLimit

Free == InUse < PoolLimit

(* A session takes a connection for its first statement and keeps it until  *)
(* its transaction ends.                                                    *)
SessionHolds(r) == job[r].held = 2

NeedsConnection(r) ==
  \/ At(r, "authenticate") \/ At(r, "refresh")
  \/ At(r, "list") /\ ~SessionHolds(r)

(* Faulty variant: a pool without a timeout.                                *)
TimeOut_Never(r) == FALSE /\ Finish(r) /\ UNCHANGED <<loans, notifications, started, changes, now>>

(* QueuePool raises TimeoutError after pool_timeout. *)
TimeOut(r) ==
  /\ NeedsConnection(r)
  /\ ~Free
  /\ Finish(r)
  /\ UNCHANGED <<loans, notifications, started, changes, now>>

-----------------------------------------------------------------------------
(* A run *)

(* POST /notifications/jobs/due-loans/run *)
RunDueLoansJob(r) ==
  /\ At(r, "idle")
  /\ Step(r, [Idle EXCEPT !.pc = "authenticate"])
  /\ UNCHANGED <<loans, notifications, started, changes, now>>

(* get_current_admin finds the admin through the session of the request,    *)
(* which is not committed or closed before the end; execute reads the date. *)
Authenticate(r) ==
  /\ At(r, "authenticate")
  /\ Free
  /\ Step(r, [Idle EXCEPT !.pc = "list", !.at = now, !.held = 1])
  /\ started' = started \cup {today}
  /\ UNCHANGED <<loans, notifications, changes, now>>

ListDueOnDate(date) == {l \in LoanIds : loans[l].active /\ Date(loans[l].due_date) = date}

(* Faulty variant: returned loans are listed too.                           *)
ListOverdue_AnyStatus == {l \in LoanIds : loans[l].due_date < now}

ListOverdue == {l \in LoanIds : loans[l].active /\ loans[l].due_date < now}

(* The next loan of the list, the next list, or the end of execute. *)
Proceed(row) ==
  IF row.todo # {} THEN [row EXCEPT !.pc = "exists"]
  ELSE IF row.phase < Len(Phases) THEN [row EXCEPT !.pc = "list", !.phase = @ + 1]
  ELSE [row EXCEPT !.pc = "close"]

(* What the query of a phase finds; the first two compare with the date     *)
(* that execute read when it began.                                         *)
LoansOfPhase(r) ==
  LET date == Date(job[r].at) IN
  CASE Type(r) = "LOAN_DUE_SOON" -> ListDueOnDate(date + DAYS_BEFORE)
    [] Type(r) = "LOAN_DUE_TODAY" -> ListDueOnDate(date)
    [] Type(r) = "LOAN_OVERDUE" -> ListOverdue

List(r) ==
  /\ At(r, "list")
  /\ SessionHolds(r) \/ Free
  /\ Step(r, Proceed([job[r] EXCEPT !.held = 2, !.todo = LoansOfPhase(r)]))
  /\ UNCHANGED <<loans, notifications, started, changes, now>>

(* Faulty variants: the timestamp itself is compared with the date, or the  *)
(* date is not looked at.                                                   *)
SentToday_Timestamp(l, type) == 0 * notifications[<<l, type, today>>]

SentToday_AnyDay(l, type) ==
  Cardinality({date \in 0 .. today : notifications[<<l, type, date>>] > 0})

(* Rows of the loan and type created on the date of this very moment. *)
SentToday(l, type) == notifications[<<l, type, today>>]

(* The loans of a list come in the order of the rows, which the query       *)
(* leaves open.  scalar_one_or_none raises MultipleResultsFound when there  *)
(* are two rows: the run ends, and the loans that are left are not told.    *)
ExistsForLoanToday(r) ==
  \E l \in job[r].todo :
    LET sent == SentToday(l, Type(r))
        row == [job[r] EXCEPT !.todo = @ \ {l}]
    IN
    /\ At(r, "exists")
    /\ \/ sent = 0 /\ Step(r, [row EXCEPT !.pc = "create", !.loan = l])
       \/ sent = 1 /\ Step(r, Proceed(row))
       \/ sent > 1 /\ Finish(r)
    /\ UNCHANGED <<loans, notifications, started, changes, now>>

(* INSERT and COMMIT, which gives the connection back. *)
Create(r) ==
  /\ At(r, "create")
  /\ notifications' = [notifications EXCEPT ![<<job[r].loan, Type(r), today>>] = @ + 1]
  /\ Step(r, [job[r] EXCEPT !.pc = "refresh", !.loan = None, !.held = 1])
  /\ UNCHANGED <<loans, started, changes, now>>

(* db.refresh begins the next transaction. *)
Refresh(r) ==
  /\ At(r, "refresh")
  /\ Free
  /\ Step(r, Proceed([job[r] EXCEPT !.held = 2]))
  /\ UNCHANGED <<loans, notifications, started, changes, now>>

(* Both sessions are closed. *)
Close(r) ==
  /\ At(r, "close")
  /\ Finish(r)
  /\ UNCHANGED <<loans, notifications, started, changes, now>>

(* An exception, a lost connection or the death of the process. *)
Fail(r) ==
  /\ ~At(r, "idle")
  /\ Finish(r)
  /\ UNCHANGED <<loans, notifications, started, changes, now>>

-----------------------------------------------------------------------------
(* Meanwhile *)

(* renew_loan and update_loan change the due date of an active loan,        *)
(* return_loan and cancel_loan close it (Library).                          *)
ChangeLoan(l, row) ==
  /\ changes < MaxChanges
  /\ changes' = changes + 1
  /\ loans[l].active
  /\ row # loans[l]
  /\ row.active \/ row.due_date = loans[l].due_date
  /\ loans' = [loans EXCEPT ![l] = row]
  /\ job' = [r \in Runs |-> IF job[r].pc \in {"idle", "authenticate"} THEN job[r]
                            ELSE [job[r] EXCEPT !.changed = @ \cup {l}]]
  /\ UNCHANGED <<notifications, started, now>>

Tick ==
  /\ now < MaxNow
  /\ now' = now + 1
  /\ UNCHANGED <<loans, notifications, job, started, changes>>

Init ==
  /\ loans \in [LoanIds -> [active: {TRUE}, due_date: DueDates]]
  /\ notifications = [n \in LoanIds \X NotificationType \X (0 .. Date(MaxNow)) |-> 0]
  /\ job = [r \in Runs |-> Idle]
  /\ started = {}
  /\ changes = 0
  /\ now = 0

(* What the event loop does next for a run. *)
RunStep(r) ==
  \/ Authenticate(r) \/ List(r) \/ ExistsForLoanToday(r)
  \/ Create(r) \/ Refresh(r) \/ Close(r) \/ TimeOut(r)

Next ==
  \/ \E r \in Runs : RunDueLoansJob(r) \/ RunStep(r) \/ Fail(r)
  \/ \E l \in LoanIds, row \in Loan : ChangeLoan(l, row)
  \/ Tick

Spec == Init /\ [][Next]_vars

(* The event loop resumes every run, and the pool answers it or times out. *)
FairSpec == Spec /\ \A r \in Runs : WF_vars(RunStep(r))

-----------------------------------------------------------------------------
(* Properties *)

(* Rows and runs have their types, and no more connections are in use than  *)
(* the pool may open.                                                       *)
TypeOK ==
  /\ loans \in [LoanIds -> Loan]
  /\ notifications \in [LoanIds \X NotificationType \X (0 .. Date(MaxNow)) -> Nat]
  /\ job \in [Runs -> Run]
  /\ started \subseteq 0 .. today
  /\ changes \in 0 .. MaxChanges
  /\ now \in 0 .. MaxNow
  /\ InUse <= PoolLimit

(* send_once_per_day looks and inserts in two transactions: a loan gets no  *)
(* more notices of a type on a day than requests that ran together, even by *)
(* runs that looked before midnight and inserted after it.                  *)
NoticesBounded ==
  \A n \in DOMAIN notifications : notifications[n] <= Cardinality(Runs)

(* What a run that began at t has to say of a loan. *)
Calls(l, t) ==
  {type \in NotificationType :
     CASE type = "LOAN_DUE_SOON" -> Date(loans[l].due_date) = Date(t) + DAYS_BEFORE
       [] type = "LOAN_DUE_TODAY" -> Date(loans[l].due_date) = Date(t)
       [] type = "LOAN_OVERDUE" -> loans[l].due_date < t}

(* The reader of the loan was told so on a day that the run has seen. *)
Told(r, l, type) ==
  \E date \in Date(job[r].at) .. today : notifications[<<l, type, date>>] > 0

(* A run that gets to its end leaves no loan out: each that was active and  *)
(* due all the while has its notice, from a day the run saw, its own or one *)
(* of another run, also of one that failed half way.                        *)
CompleteRunsNotify ==
  \A r \in Runs, l \in LoanIds :
    At(r, "close") /\ loans[l].active /\ l \notin job[r].changed =>
      \A type \in Calls(l, job[r].at) : Told(r, l, type)

(* A reader is told that a loan is due only if it is active and due so, or  *)
(* was when the run that tells it began and has been changed since; but     *)
(* past midnight a run goes on by the date on which it began.               *)
NoticesAreGrounded ==
  [][\A l \in LoanIds, type \in NotificationType :
       notifications'[<<l, type, today>>] > notifications[<<l, type, today>>] =>
         \E r \in Runs :
           /\ At(r, "create") /\ job[r].loan = l
           /\ \/ loans[l].active /\ type \in Calls(l, job[r].at)
              \/ loans[l].active /\ type = "LOAN_OVERDUE" /\ loans[l].due_date < now
              \/ l \in job[r].changed]_vars

(* Every run ends, although enough of them can hold all connections while   *)
(* each waits for its second: the timeout of the pool is what ends them.    *)
EveryRunEnds == \A r \in Runs : ~At(r, "idle") ~> At(r, "idle")

-----------------------------------------------------------------------------
(* The inductive invariant: what each run holds, has listed and has told.   *)

(* The connections of a run are those of its step. *)
ConnectionsMatch(r) ==
  /\ job[r].pc \in {"idle", "authenticate"} => job[r].held = 0
  /\ job[r].pc = "list" => job[r].held \in {1, 2}
  /\ job[r].pc = "refresh" => job[r].held = 1
  /\ job[r].pc \in {"exists", "create", "close"} => job[r].held = 2

(* The list of its phase is read. *)
Listed(r) == job[r].pc \in {"exists", "create", "refresh", "close"}

(* The loans of the list that the run has yet to tell. *)
Pending(r) == job[r].todo \cup {l \in LoanIds : At(r, "create") /\ job[r].loan = l}

(* A loan that is due as the list says. *)
IsDue(r, l) ==
  /\ loans[l].active
  /\ \/ Type(r) \in Calls(l, job[r].at)
     \/ Type(r) = "LOAN_OVERDUE" /\ loans[l].due_date < now

(* A run counts from an instant that has passed, and is done when its last  *)
(* list is.                                                                 *)
StepMatches(r) ==
  /\ job[r].at <= now
  /\ At(r, "create") => job[r].loan \in LoanIds
  /\ At(r, "close") => job[r].todo = {} /\ job[r].phase = Len(Phases)

(* What is still on the list is due, unless it changed since the run began. *)
ListIsDue(r) ==
  Listed(r) => \A l \in Pending(r) : IsDue(r, l) \/ l \in job[r].changed

(* A loan that called for a notice all the while has it, or is on the list. *)
NobodyIsLeftOut(r) ==
  \A l \in LoanIds, i \in DOMAIN Phases :
    /\ loans[l].active /\ l \notin job[r].changed
    /\ Phases[i] \in Calls(l, job[r].at)
    /\ job[r].pc \notin {"idle", "authenticate"}
    /\ i < job[r].phase \/ (i = job[r].phase /\ Listed(r))
    => Told(r, l, Phases[i]) \/ (i = job[r].phase /\ l \in Pending(r))

RunInv(r) ==
  ConnectionsMatch(r) /\ StepMatches(r) /\ ListIsDue(r) /\ NobodyIsLeftOut(r)

(* The runs that found no notice of the loan and are about to insert one.   *)
Creators(l, type) == {r \in Runs : At(r, "create") /\ job[r].loan = l /\ Type(r) = type}

(* Today's notices and those about to be inserted are no more than the      *)
(* runs, for a run joins them only while there is no notice; and there is   *)
(* none of a day to come.                                                   *)
NoticesInv ==
  /\ NoticesBounded
  /\ \A l \in LoanIds, type \in NotificationType :
       /\ notifications[<<l, type, today>>] + Cardinality(Creators(l, type)) <= Cardinality(Runs)
       /\ \A date \in today + 1 .. Date(MaxNow) : notifications[<<l, type, date>>] = 0

(* Whatever runs interleave, fail or time out, the pool is not exceeded,    *)
(* each run works through loans that are due, or were, leaves none out, and *)
(* few enough find that a notice is missing.                                *)
IInv == TypeOK /\ NoticesInv /\ \A r \in Runs : RunInv(r)

-----------------------------------------------------------------------------
(* The repository's README: APScheduler runs the job at set times.  But the *)
(* lifespan that starts the scheduler is not given to FastAPI, so a day on  *)
(* which no admin starts the job goes by without a run.                     *)
DailyRun == \A date \in 0 .. today - 1 : date \in started
=============================================================================
