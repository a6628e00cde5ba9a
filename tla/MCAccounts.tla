---------------------------- MODULE MCAccounts ------------------------------
EXTENDS Accounts, TLC

\* The bodies a PATCH may have, one field at a time.
MCPatches ==
    { [role |-> "admin"], [role |-> "user"],
      [disabled |-> TRUE], [disabled |-> FALSE],
      [password |-> "new"], [clearTotp |-> TRUE],
      [password |-> "new", keepPasskeys |-> TRUE],
      [clearPasskeys |-> TRUE] }

Symmetry == Permutations(Requests) \cup Permutations(KeyIds)
=============================================================================
