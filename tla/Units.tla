------------------------------- MODULE Units -------------------------------
(***************************************************************************)
(* Accounts whose balances are natural numbers, and what they hold in all: *)
(* a unit is its account and a number below the balance, so that the sum   *)
(* is the number of units.                                                 *)
(***************************************************************************)
EXTENDS Naturals, FiniteSets

Units(b) == UNION {{a} \X (1 .. b[a]) : a \in DOMAIN b}
Total(b) == Cardinality(Units(b))
=============================================================================
