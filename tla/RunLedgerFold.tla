--------------------------- MODULE RunLedgerFold ---------------------------
(***************************************************************************)
(* The whole fold of a ledger (foldLedger in lib/agent/run-store.ts)       *)
(* against a definition of what each part of the view means.               *)
(*                                                                         *)
(* foldLedger is one loop over the entries after the header.  Its          *)
(* locals are the view; each step here is one turn of the loop, over any   *)
(* entry, so that the behaviours are the folds of all ledgers and each     *)
(* state is where the fold of one ledger ends.  The ledgers are of every   *)
(* length: RunLedgerFoldProofs proves what this module states.             *)
(***************************************************************************)
EXTENDS RunLedger, Naturals, Sequences

VARIABLES
    entries,    \* the entries the loop has read, in stream order
    view        \* what its locals say of the run

vars == <<entries, view>>

\* The locals as they are declared, before the first entry.
Init == entries = <<>> /\ view = EmptyView

\* One turn of the loop.
ReadEntry(e) ==
    /\ entries' = Append(entries, e)
    /\ view' = FoldEntry(view, e)

Next == \E e \in Entries : ReadEntry(e)

Spec == Init /\ [][Next]_vars

-----------------------------------------------------------------------------
(* What the view means, by the places of the entries in the ledger.        *)

Places(kinds) == {i \in DOMAIN entries : entries[i].kind \in kinds}

StatusChanges == Places({"run-started", "run-paused", "run-resumed", "run-finished"})

LastChange == CHOOSE i \in StatusChanges : \A j \in StatusChanges : j <= i

\* The status that a change leaves the run in.
StatusSetBy(e) ==
    CASE e.kind = "run-paused"   -> "paused"
      [] e.kind = "run-finished" -> e.status
      [] OTHER                   -> "running"

LastStatus ==
    IF StatusChanges = {} THEN "queued" ELSE StatusSetBy(entries[LastChange])

\* Whoever claimed last and has not given the claim back since.
Holder(d) ==
    \E i \in Places({"drive-claimed"}) :
        /\ entries[i].drive = d
        /\ \A j \in Places({"drive-claimed"}) : j <= i
        /\ ~\E j \in Places({"drive-released"}) : j > i /\ entries[j].drive = d

StepsOf(kind) == {entries[i].step : i \in Places({kind})}

\* The fold of a ledger says of its run what the entries say: the status of
\* the last change, a claim only its own drive released, and as unsettled
\* the invocations that no outcome answers, wherever it stands.
FoldMeansTheLedger ==
    /\ view.status = LastStatus
    /\ view.cancelReq = (Places({"cancellation-requested"}) # {})
    /\ \A d \in Drives : view.claim = d <=> Holder(d)
    /\ Unsettled(view) = StepsOf("tool-invoked") \ StepsOf("tool-settled")
    /\ IsTerminal(view) => view.ended
=============================================================================
