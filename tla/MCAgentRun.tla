----------------------------- MODULE MCAgentRun -----------------------------
(* Constants of AgentRun for TLC.                                          *)
EXTENDS AgentRun, TLC

\* getAgentRunService builds a store for every drive.
OwnStores   == Drives
OwnStoresOf == [d \in Drives |-> d]

Symmetry ==
    Permutations(Drives) \cup Permutations(Clients) \cup Permutations(Steps)
=============================================================================
