----------------------------- MODULE RunLedger -----------------------------
(***************************************************************************)
(* The durable ledger of one agent run (lib/agent/run-store.ts).           *)
(*                                                                         *)
(* A ledger is a header followed by entries, and everything the service    *)
(* knows of a run is the left fold of those entries.  FoldEntry is one     *)
(* step of that fold, so a state machine may keep the folded view and      *)
(* apply FoldEntry at each append (RunLedgerFold holds the whole fold).     *)
(*                                                                         *)
(* A drive id stands for the random uuid of one claim, a step id for the   *)
(* hash of one tool call.  Entries that the fold reads nothing from        *)
(* (drafts, prose, reports, the driver) are all Narrative.                 *)
(***************************************************************************)
CONSTANTS
    Drives,     \* ids a drive may claim the run with
    Steps,      \* step ids a model may ask for
    NoDrive     \* no claim

ASSUME NoDriveAssumption == NoDrive \notin Drives

TerminalStatuses == {"succeeded", "failed", "cancelled"}
Statuses == {"queued", "running", "paused"} \cup TerminalStatuses

-----------------------------------------------------------------------------
(* The entries.                                                            *)

Header        == [kind |-> "run-opened"]
RunStarted    == [kind |-> "run-started"]
RunPaused     == [kind |-> "run-paused"]
RunResumed    == [kind |-> "run-resumed"]
RunFinished(status) == [kind |-> "run-finished", status |-> status]
ToolInvoked(s)      == [kind |-> "tool-invoked", step |-> s]
ToolSettled(s)      == [kind |-> "tool-settled", step |-> s]
Narrative           == [kind |-> "narrative"]
CancellationRequested == [kind |-> "cancellation-requested"]
DriveClaimed(d)       == [kind |-> "drive-claimed", drive |-> d]
DriveReleased(d)      == [kind |-> "drive-released", drive |-> d]

Entries ==
    {RunStarted, RunPaused, RunResumed, CancellationRequested, Narrative}
        \cup {RunFinished(t) : t \in TerminalStatuses}
        \cup {ToolInvoked(s) : s \in Steps} \cup {ToolSettled(s) : s \in Steps}
        \cup {DriveClaimed(d) : d \in Drives} \cup {DriveReleased(d) : d \in Drives}

-----------------------------------------------------------------------------
(* The view a ledger folds to.  ended says that some run-finished entry is *)
(* among the record's events, which is what the history of the run shows.  *)

Views == [status    : Statuses,
          cancelReq : BOOLEAN,
          claim     : Drives \cup {NoDrive},
          invoked   : SUBSET Steps,
          settled   : SUBSET Steps,
          ended     : BOOLEAN]

\* The ledger of a run that was just opened: its header only.
EmptyView == [status |-> "queued", cancelReq |-> FALSE, claim |-> NoDrive,
              invoked |-> {}, settled |-> {}, ended |-> FALSE]

\* Mutant: a resumed run goes back to the queue.
NextStatusRequeued(current, e) ==
    CASE e.kind = "run-started"  -> "running"
      [] e.kind = "run-paused"   -> "paused"
      [] e.kind = "run-resumed"  -> "queued"
      [] e.kind = "run-finished" -> e.status
      [] OTHER                   -> current

NextStatus(current, e) ==
    CASE e.kind = "run-started"  -> "running"
      [] e.kind = "run-paused"   -> "paused"
      [] e.kind = "run-resumed"  -> "running"
      [] e.kind = "run-finished" -> e.status
      [] OTHER                   -> current

\* A stray drive-released of another drive clears nothing.
AfterRelease(claim, d) == IF claim = d THEN NoDrive ELSE claim

FoldEntry(v, e) ==
    CASE e.kind = "cancellation-requested" -> [v EXCEPT !.cancelReq = TRUE]
      [] e.kind = "drive-claimed"  -> [v EXCEPT !.claim = e.drive]
      [] e.kind = "drive-released" -> [v EXCEPT !.claim = AfterRelease(@, e.drive)]
      [] e.kind = "tool-invoked"   -> [v EXCEPT !.invoked = @ \cup {e.step}]
      [] e.kind = "tool-settled"   -> [v EXCEPT !.settled = @ \cup {e.step}]
      [] e.kind = "run-finished"   -> [v EXCEPT !.status = NextStatus(@, e),
                                                !.ended  = TRUE]
      [] OTHER                     -> [v EXCEPT !.status = NextStatus(@, e)]

IsTerminal(v) == v.status \notin {"queued", "running", "paused"}

\* Mutants: the invocations without outcome are not kept, or the filter is
\* turned round.
UnsettledForgotten(v) == {}
UnsettledInverted(v)  == v.invoked \cap v.settled

Unsettled(v) == v.invoked \ v.settled
=============================================================================
