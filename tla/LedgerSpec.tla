----------------------------- MODULE LedgerSpec -----------------------------
(***************************************************************************)
(* What the credit ledger of one organisation promises its callers, as the *)
(* docstring of billing/ledger.py states it: a movement is applied at most *)
(* once per idempotency key, it is added to the balance that the movement  *)
(* before it left, and it is refused if the balance would go below zero.   *)
(* CreditLedger is the detailed specification.                             *)
(***************************************************************************)
EXTENDS Integers

CONSTANTS Key,          \* idempotency keys of movements
          Worth,        \* what the movement of a key adds to the balance, an integer
          Opening,      \* the balance the ledger starts with, a natural number
          OpeningKeys   \* the keys of its first rows

VARIABLES total,   \* the balance
          applied  \* the keys whose movement has been applied

lvars == <<total, applied>>

LInit ==
  /\ total = Opening
  /\ applied = OpeningKeys

\* One movement: a fresh key, added to the balance of now, never below zero.
Settle(k) ==
  /\ k \notin applied
  /\ total + Worth[k] >= 0
  /\ total' = total + Worth[k]
  /\ applied' = applied \cup {k}

LNext == \E k \in Key : Settle(k)

LSpec == LInit /\ [][LNext]_lvars
=============================================================================
