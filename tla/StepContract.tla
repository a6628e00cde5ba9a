---------------------------- MODULE StepContract ----------------------------
(***************************************************************************)
(* What the write-ahead ledger promises of a run's tool calls: a step is   *)
(* recorded before it reaches the database, reaches it at most once, and   *)
(* settles at most once.  A step that is invoked and never settles stays   *)
(* so.  Who performs the steps, and how often that dies, is left open.     *)
(* The promise ends with the first accepted write that is not stored, and  *)
(* with the first two claims that cross.                                   *)
(***************************************************************************)
EXTENDS Naturals

CONSTANT Steps

VARIABLES
    invoked,  \* recorded as about to run
    settled,  \* recorded with an outcome
    times,    \* how often each step reached the database
    kept      \* every accepted write was stored, and no two claims crossed

contractVars == <<invoked, settled, times, kept>>

Init ==
    /\ invoked = {} /\ settled = {}
    /\ times = [s \in Steps |-> 0]
    /\ kept = TRUE

Invoke(s) ==
    /\ s \notin invoked
    /\ invoked' = invoked \cup {s}
    /\ UNCHANGED <<settled, times, kept>>

Perform(s) ==
    /\ s \in invoked \ settled
    /\ times[s] = 0
    /\ times' = [times EXCEPT ![s] = 1]
    /\ UNCHANGED <<invoked, settled, kept>>

\* Settling without having been performed is a refusal before the database.
Settle(s) ==
    /\ s \in invoked \ settled
    /\ settled' = settled \cup {s}
    /\ UNCHANGED <<invoked, times, kept>>

\* Nothing is promised of a step by which, or after which, that ends.
Lose == kept' = FALSE

Next == Lose \/ \E s \in Steps : Invoke(s) \/ Perform(s) \/ Settle(s)

Spec == Init /\ [][Next]_contractVars
=============================================================================
