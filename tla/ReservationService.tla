-------------------------- MODULE ReservationService --------------------------
(* The reservation endpoints (domain/reservation).  No statement here asks  *)
(* for a row lock.                                                          *)
EXTENDS Database

(* POST /reservations: the user and the book are found, and no copy of the  *)
(* book is available.                                                       *)
CreateReservation(r, u, b, v) ==
  /\ CanStart(r, "create_reservation")
  /\ users[u]
  /\ books[b].is_active
  /\ ~(books[b].available_copies > 0)
  /\ v \notin DOMAIN reservations
  /\ \A q \in Requests : req[q].reservation # v
  /\ req' = [req EXCEPT ![r] = [Idle EXCEPT
        !.op = "create_reservation", !.pc = "find_existing",
        !.user = u, !.book = b, !.reservation = v]]
  /\ UNCHANGED <<tables, locks, notifications, now>>

(* Faulty variant: more than one row counts as none. *)
FindExistingReservation_ExactlyOne(r) ==
  /\ At(r, "create_reservation", "find_existing")
  /\ IF Cardinality({v \in ActiveReservations :
          reservations[v].user = req[r].user /\ reservations[v].book = req[r].book}) = 1
     THEN Finish(r)
     ELSE Goto(r, "commit")
  /\ UNCHANGED <<tables, locks, notifications, now>>

(* find_active_by_user_and_book: one row is the "already reserved" error,   *)
(* two are MultipleResultsFound; either way the request ends.               *)
FindExistingReservation(r) ==
  /\ At(r, "create_reservation", "find_existing")
  /\ IF \E v \in ActiveReservations :
          reservations[v].user = req[r].user /\ reservations[v].book = req[r].book
     THEN Finish(r)
     ELSE Goto(r, "commit")
  /\ UNCHANGED <<tables, locks, notifications, now>>

(* The foreign key of the new row waits while the book row is FOR UPDATE.   *)
CommitCreateReservation(r) ==
  /\ At(r, "create_reservation", "commit")
  /\ Free(book_lock, req[r].book, r)
  /\ reservations' = Insert(reservations, req[r].reservation,
        [user |-> req[r].user, book |-> req[r].book, status |-> "ACTIVE"])
  /\ Goto(r, "publish")
  /\ UNCHANGED <<users, books, loans, locks, notifications, now>>

(* Faulty variant: the status is not checked. *)
CancelReservation_AnyStatus(r, v) ==
  /\ CanStart(r, "cancel_reservation")
  /\ v \in DOMAIN reservations
  /\ req' = [req EXCEPT ![r] = [Idle EXCEPT
        !.op = "cancel_reservation", !.pc = "commit", !.reservation = v]]
  /\ UNCHANGED <<tables, locks, notifications, now>>

(* POST /reservations/{id}/cancel: the controller loads the reservation and *)
(* keeps the instance, so the service's second find_by_id returns that same *)
(* instance from the session, with the status it had at the first read.     *)
CancelReservation(r, v) ==
  /\ CanStart(r, "cancel_reservation")
  /\ v \in ActiveReservations
  /\ req' = [req EXCEPT ![r] = [Idle EXCEPT
        !.op = "cancel_reservation", !.pc = "commit", !.reservation = v]]
  /\ UNCHANGED <<tables, locks, notifications, now>>

CommitCancelReservation(r) ==
  /\ At(r, "cancel_reservation", "commit")
  /\ reservations' = [reservations EXCEPT ![req[r].reservation].status = "CANCELLED"]
  /\ Goto(r, "publish")
  /\ UNCHANGED <<users, books, loans, locks, notifications, now>>

PublishReservationEvent(r) ==
  /\ req[r].op \in {"create_reservation", "cancel_reservation"} /\ req[r].pc = "publish"
  /\ Notify(EventType[req[r].op], req[r].reservation)
  /\ Finish(r)
  /\ UNCHANGED <<tables, locks, now>>

ReservationServiceStep(r) ==
  \/ FindExistingReservation(r) \/ CommitCreateReservation(r)
  \/ CommitCancelReservation(r) \/ PublishReservationEvent(r)

ReservationServiceStart(r) ==
  \/ \E u \in Users, b \in Books, v \in ReservationIds : CreateReservation(r, u, b, v)
  \/ \E v \in ReservationIds : CancelReservation(r, v)
=============================================================================
