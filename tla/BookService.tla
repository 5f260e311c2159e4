----------------------------- MODULE BookService -----------------------------
(* The endpoints of domain/books and domain/users that change rows the      *)
(* lending operations depend on.                                            *)
EXTENDS Database

(* PUT /books/{id}: find_by_id takes no lock; the bound on total_copies     *)
(* is checked against the copies that were then on loan.                    *)
UpdateBook(r, b, total_copies) ==
  /\ CanStart(r, "update_book")
  /\ books[b].is_active
  /\ ~(total_copies < books[b].total_copies - books[b].available_copies)
  /\ req' = [req EXCEPT ![r] = [Idle EXCEPT
        !.op = "update_book", !.pc = "commit", !.book = b, !.arg = total_copies,
        !.book_row = books[b]]]
  /\ UNCHANGED <<tables, locks, notifications, now>>

(* Faulty variant: available_copies changes relative to the row.            *)
CommitUpdateBook_Relative(r) ==
  LET difference == req[r].arg - req[r].book_row.total_copies IN
  /\ At(r, "update_book", "commit")
  /\ Free(book_lock, req[r].book, r)
  /\ books' = [books EXCEPT ![req[r].book].total_copies = @ + difference,
                            ![req[r].book].available_copies = @ + difference]
  /\ Finish(r)
  /\ UNCHANGED <<users, loans, reservations, locks, notifications, now>>

(* The UPDATE waits for the row's lock and writes both columns as computed  *)
(* from the instance; it is not sent when they did not change.              *)
CommitUpdateBook(r) ==
  LET row == req[r].book_row
      difference == req[r].arg - row.total_copies
  IN
  /\ At(r, "update_book", "commit")
  /\ IF difference = 0
     THEN UNCHANGED books
     ELSE /\ Free(book_lock, req[r].book, r)
          /\ books' = [books EXCEPT
                ![req[r].book].total_copies = req[r].arg,
                ![req[r].book].available_copies = row.available_copies + difference]
  /\ Finish(r)
  /\ UNCHANGED <<users, loans, reservations, locks, notifications, now>>

(* DELETE /books/{id} is a soft delete.  Its read and its write are one     *)
(* step: the write does not depend on anything the read saw.                *)
DeleteBook(b) ==
  /\ "delete_book" \in Operations
  /\ books[b].is_active
  /\ book_lock[b] = None
  /\ books' = [books EXCEPT ![b].is_active = FALSE]
  /\ UNCHANGED <<users, loans, reservations, locks, req, notifications, now>>

(* DELETE /users/{id}, likewise. *)
DeleteUser(u) ==
  /\ "delete_user" \in Operations
  /\ users[u]
  /\ users' = [users EXCEPT ![u] = FALSE]
  /\ UNCHANGED <<books, loans, reservations, locks, req, notifications, now>>
=============================================================================
