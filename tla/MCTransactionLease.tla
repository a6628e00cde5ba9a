------------------------- MODULE MCTransactionLease -------------------------
(* Two providers of one connection id, one with a second client. *)
EXTENDS TransactionLease, TLC

CONSTANTS p1, p2

TwoProviders == {p1, p2}
UnevenPools == {<<p1, 1>>, <<p1, 2>>, <<p2, 1>>}

\* Accounts and requests differ in nothing but their names.
SessionSymmetry == Permutations(Users) \cup Permutations(Requests)

OneProvider == {p1}
OnePool == {<<p1, 1>>, <<p1, 2>>}
=============================================================================
