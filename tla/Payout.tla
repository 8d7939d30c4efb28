------------------------------- MODULE Payout -------------------------------
(***************************************************************************)
(* What an airdrop promises, without processes, nodes or files: payments   *)
(* are made one at a time, each is entered in the book before the next is  *)
(* made or its entry is lost, and who is in the book is not paid again.    *)
(***************************************************************************)
EXTENDS Naturals

CONSTANTS Airdrops, Payees

VARIABLES
  payments,  \* the payments made, each with a number of its own
  book,      \* the payments that are entered
  open       \* the payment to be entered, if there is one

Payment == [run : Airdrops, to : Payees, id : Nat]

PayoutInit == payments = {} /\ book = {} /\ open = {}

InBook(r, a) == \E p \in book : p.run = r /\ p.to = a

\* A payment may go unnoticed by whoever makes it: then it is never entered.
Pay(p) ==
  /\ open = {}
  /\ p \in Payment
  /\ \A q \in payments : q.id < p.id
  /\ ~InBook(p.run, p.to)
  /\ payments' = payments \union {p}
  /\ open' \in {{p}, {}}
  /\ UNCHANGED book

Enter ==
  /\ open # {}
  /\ book' = book \union open
  /\ open' = {}
  /\ UNCHANGED payments

LoseEntry ==
  /\ open # {}
  /\ open' = {}
  /\ UNCHANGED <<payments, book>>

\* (A step that pays is told by the payment it adds: payments' needs no
\* enumeration of Payment, which is infinite.)
PayoutNext == (\E p \in payments' : Pay(p)) \/ Enter \/ LoseEntry

PayoutSpec == PayoutInit /\ [][PayoutNext]_<<payments, book, open>>
=============================================================================
