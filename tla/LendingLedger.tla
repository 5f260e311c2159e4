---------------------------- MODULE LendingLedger ----------------------------
(* What the library promises about copies and loans, each operation being   *)
(* one indivisible step: a copy leaves the shelf exactly when a loan is     *)
(* opened and comes back exactly when that loan is closed, a loan is closed *)
(* once, never returned with its fine unpaid and renewed a bounded number   *)
(* of times, and the stock never shrinks below what is out on loan.         *)
EXTENDS Integers

CONSTANTS Books, LoanIds, Copies, MaxRenewals, Money

VARIABLES
  stock,   \* copies owned, by book
  shelf,   \* copies that can be lent, by book
  ledger   \* the loans ever opened

Init ==
  /\ stock \in [Books -> Copies]
  /\ shelf = stock
  /\ ledger = [l \in {} |-> 0]

Set(l, entry) ==
  ledger' = [i \in DOMAIN ledger \cup {l} |-> IF i = l THEN entry ELSE ledger[i]]

Move(b, copies) ==
  /\ shelf' = [shelf EXCEPT ![b] = @ + copies]
  /\ UNCHANGED stock

Open(l) == l \in DOMAIN ledger /\ ledger[l].status = "ACTIVE"

Lend(l, b) ==
  /\ l \notin DOMAIN ledger
  /\ shelf[b] > 0
  /\ Set(l, [book |-> b, status |-> "ACTIVE", fine |-> 0, paid |-> 0, renewals |-> 0])
  /\ Move(b, -1)

(* The fine is fixed at the return and covered by what was paid. *)
TakeBack(l) ==
  /\ Open(l)
  /\ \E fine \in Money :
       /\ fine <= ledger[l].paid
       /\ Set(l, [ledger[l] EXCEPT !.status = "RETURNED", !.fine = fine])
  /\ Move(ledger[l].book, 1)

Void(l) ==
  /\ Open(l)
  /\ Set(l, [ledger[l] EXCEPT !.status = "CANCELLED", !.fine = 0])
  /\ Move(ledger[l].book, 1)

(* A payment brings what was paid up to the fine of the day. *)
Pay(l) ==
  /\ Open(l)
  /\ \E fine \in Money :
       /\ fine > ledger[l].paid
       /\ Set(l, [ledger[l] EXCEPT !.fine = fine, !.paid = fine])
  /\ UNCHANGED <<stock, shelf>>

Renew(l) ==
  /\ Open(l)
  /\ ledger[l].renewals < MaxRenewals
  /\ Set(l, [ledger[l] EXCEPT !.renewals = @ + 1])
  /\ UNCHANGED <<stock, shelf>>

Restock(b, copies) ==
  /\ copies >= stock[b] - shelf[b]
  /\ stock' = [stock EXCEPT ![b] = copies]
  /\ shelf' = [shelf EXCEPT ![b] = @ + copies - stock[b]]
  /\ UNCHANGED ledger

Next ==
  \/ \E l \in LoanIds, b \in Books : Lend(l, b)
  \/ \E l \in LoanIds : TakeBack(l) \/ Void(l) \/ Pay(l) \/ Renew(l)
  \/ \E b \in Books, copies \in Copies : Restock(b, copies)

Spec == Init /\ [][Next]_<<stock, shelf, ledger>>
=============================================================================
