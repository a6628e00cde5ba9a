------------------------------ MODULE AgentRun ------------------------------
(***************************************************************************)
(* One durable agent run: the run service (lib/agent/run-service.ts), the  *)
(* drives that carry the run (runtime.ts, investigation.ts), the requests  *)
(* that stop or continue it (app/api/agent/runs) and the resume sweep.     *)
(*                                                                         *)
(* Every operation of the service reads the whole ledger and appends to it *)
(* later, with an await between the two.  An actor therefore takes one     *)
(* step per read and one per append, and every other actor may act in      *)
(* between.  A crash loses the process and keeps the ledger.               *)
(***************************************************************************)
EXTENDS RunLedger, Naturals

CONSTANTS
    Clients,    \* concurrent requests to the run's route
    Stores,     \* AgentRunStore instances of the process
    StoreOf,    \* the instance each drive's service was built over
    NoStep,     \* no tool call in hand
    Ops,        \* operations clients ask for
    Faults,     \* failures injected: "prepare", "turn", "tool"
    MaxMoves,   \* model turns and tool calls one drive may take
    MaxCalls,   \* drives asked for by the start and drive routes
    MaxCrashes  \* process deaths

Actors == Drives \cup Clients

ASSUME ActorsAssumption  == Drives \cap Clients = {}
ASSUME StoresAssumption  == StoreOf \in [Drives -> Stores]
ASSUME StepsAssumption   == NoStep \notin Steps
ASSUME OpsAssumption     == Ops \subseteq {"pause", "resume", "cancel"}
ASSUME BoundsAssumption  ==
    MaxMoves \in Nat /\ MaxCalls \in Nat /\ MaxCrashes \in Nat

VARIABLES
    view,           \* what the ledger folds to (durable)
    lapsed,         \* the claim in the view is past its expiry
    streamClosed,   \* the backend holds the stream's end marker (durable)
    closed,         \* the run is in this process's closedStreams
    past,           \* actors whose append passed that check before the mark
    active,         \* the run's entry in this process's activeDrives
    lock,           \* who holds each store's claim queue
    pc,             \* where each actor stands
    loc,            \* what each drive remembers across its awaits
    calls, crashes, \* bounded counters
    \* history of the run, never read by an action
    lost,           \* a write was accepted and never stored
    crossed,        \* a claim landed while another was about to
    done, repeated, \* steps that reached the database once, and again
    inherited,      \* steps on the ledger when this process started
    late            \* per drive, steps it invoked on a run told to stop

durable  == <<view, lapsed, streamClosed, lost>>
process  == <<closed, past, active, lock>>
counters == <<calls, crashes>>
effects  == <<crossed, done, repeated, inherited>>
vars == <<durable, process, pc, loc, counters, effects, late>>

-----------------------------------------------------------------------------
(* Vocabulary.                                                             *)

IdleLoc == [fresh |-> FALSE, at |-> NoStep, mine |-> NoDrive,
            moves |-> 0, failing |-> FALSE, ending |-> "failed"]

\* Mutants of ClaimLive: the comparison with now turned round, no expiry at
\* all, no claim at all.
ClaimFlipped  == view.claim # NoDrive /\ lapsed
ClaimEndless  == view.claim # NoDrive
ClaimIgnored  == FALSE

\* The ledger's clock-free reading of driveClaim.expiresAtMs > now.
ClaimLive == view.claim # NoDrive /\ ~lapsed

\* ExecutionBudgetTracker.usage(runId).activeExecutions > 0
Live == \E d \in Drives : pc[d] = "executing"

\* The ending an actor is about to record: a request only ever cancels.
Ending(a) == IF a \in Clients THEN "cancelled" ELSE loc[a].ending

\* Another drive has read the ledger for its claim and not appended it yet.
ClaimsOverlap(d) == \E x \in Drives \ {d} : pc[x] = "claimAppend"

\* What a drive is told to stop by.
Stopped == view.cancelReq \/ view.status = "paused" \/ IsTerminal(view)

\* Mutant: the ceiling admits one more.
MovesLeftPlusOne(d) == loc[d].moves <= MaxMoves

\* turns >= maxTurns ends the run.
MovesLeft(d) == loc[d].moves < MaxMoves

\* Mutant: runStep without its cancellation checkpoint.
StepAdmittedCancelled == view.status = "running"

\* runStep admits a step of a running run with no stop pending.
StepAdmitted == view.status = "running" /\ ~view.cancelReq

At(a, label)  == pc[a] = label
Goto(a, label) == pc' = [pc EXCEPT ![a] = label]

AppendLabels ==
    {"claimAppend", "startAppend", "invoke", "settle", "finishAppend",
     "pauseAppend", "resumeAppend", "cancelAppend"}

\* AgentRunStore.append looks at closedStreams when it is called and its
\* write lands later: an append called before the mark is not refused.
Refused(a) == closed /\ a \notin past

Answered(a) == past' = past \ {a} /\ UNCHANGED <<closed, active, lock>>

\* The landing: a write to a stream the backend has ended resolves, and no
\* read ever returns it.
Write(entry) ==
    IF streamClosed
    THEN lost' = TRUE /\ UNCHANGED view
    ELSE view' = FoldEntry(view, entry) /\ UNCHANGED lost

\* A drive leaves for good.
Quit(d) == Goto(d, "off") /\ loc' = [loc EXCEPT ![d] = IdleLoc]

\* An exception before the claim reaches driveAgentRun's catch directly.
FailUnclaimed(d) ==
    Goto(d, "failed") /\ loc' = [loc EXCEPT ![d].failing = TRUE]

\* After the claim the finally block releases it first, whether the drive
\* returned or threw.
Leave(d, threw) ==
    Goto(d, "release") /\ loc' = [loc EXCEPT ![d].failing = threw]

\* Where finalize hands control back to: a drive inside its try block, the
\* catch that swallows the result, or a request that ends.
HandBack(a, threw) ==
    CASE a \in Drives /\ ~loc[a].failing -> Leave(a, threw)
      [] a \in Drives /\ loc[a].failing  -> Quit(a)
      [] OTHER -> Goto(a, "off") /\ UNCHANGED loc

\* From its claim to the release of that claim a drive carries the run.
Carrying(d) ==
    \/ pc[d] \in {"start", "startAppend", "driver", "loop", "turn", "step",
                  "invoke", "invoked", "executing", "settle", "conclude",
                  "finish", "release"}
    \/ /\ pc[d] \in {"finishAppend", "closing", "eof", "eofThrow"}
       /\ ~loc[d].failing

-----------------------------------------------------------------------------
(* A drive starts: driveAgentRun.                                          *)

BeginDrive(d) ==
    /\ At(d, "off")
    /\ view.claim # d /\ active # d       \* each claim mints a fresh id
    /\ Goto(d, "prepare")
    /\ late' = [late EXCEPT ![d] = 0]
    /\ UNCHANGED <<durable, process, loc, effects>>

\* POST /api/agent/runs after opening the run, or POST /api/agent/drive.
DriveRequested(d) ==
    /\ calls < MaxCalls
    /\ BeginDrive(d)
    /\ calls' = calls + 1
    /\ UNCHANGED crashes

\* sweepStaleRuns.  isStaleRun looks at the time of the run's last event only,
\* so a quiet drive may still carry the run: its claim is what refuses.
Sweep(d) ==
    /\ view.status = "running"
    /\ BeginDrive(d)
    /\ UNCHANGED counters

\* Resolving the connection, reading capabilities or building the model
\* throws.
PrepareFails(d) ==
    /\ At(d, "prepare") /\ "prepare" \in Faults
    /\ FailUnclaimed(d)
    /\ UNCHANGED <<durable, process, counters, effects, late>>

\* runInvestigation's first read: AgentRunService.resume.
ReadResume(d) ==
    /\ At(d, "prepare")
    /\ \/ /\ IsTerminal(view)
          /\ FailUnclaimed(d)
       \/ /\ view.status = "paused"
          /\ Quit(d)
       \/ /\ view.status \in {"queued", "running"}
          /\ Goto(d, "check")
          /\ loc' = [loc EXCEPT ![d].fresh = (view.status = "queued")]
    /\ UNCHANGED <<durable, process, counters, effects, late>>

\* claimDrive: the in-process map refuses first.
CheckActive(d) ==
    /\ At(d, "check")
    /\ \/ active # NoDrive /\ Quit(d)
       \/ active = NoDrive /\ Goto(d, "claim") /\ UNCHANGED loc
    /\ UNCHANGED <<durable, process, counters, effects, late>>

\* tryClaimDrive under the store's claim lock: the read ...
ReadClaim(d) ==
    /\ At(d, "claim")
    /\ lock[StoreOf[d]] = NoDrive
    /\ \/ /\ IsTerminal(view) \/ ClaimLive
          /\ Quit(d)                      \* RUN_ALREADY_DRIVEN either way
          /\ UNCHANGED lock
       \/ /\ ~IsTerminal(view) /\ ~ClaimLive
          /\ lock' = [lock EXCEPT ![StoreOf[d]] = d]
          /\ Goto(d, "claimAppend")
          /\ UNCHANGED loc
    /\ UNCHANGED <<durable, closed, past, active, counters, effects, late>>

\* ... and the append, after which the drive is registered in activeDrives.
\* A drive with a store of its own may stand between the same two.
AppendClaim(d) ==
    /\ At(d, "claimAppend")
    /\ lock' = [lock EXCEPT ![StoreOf[d]] = NoDrive]
    /\ past' = past \ {d}
    /\ \/ /\ Refused(d)
          /\ FailUnclaimed(d)
          /\ UNCHANGED <<durable, active, crossed>>
       \/ /\ ~Refused(d)
          /\ Write(DriveClaimed(d))
          /\ crossed' = (crossed \/ ClaimsOverlap(d))
          /\ lapsed' = (streamClosed /\ lapsed)
          /\ active' = d
          /\ Goto(d, "start")
          /\ UNCHANGED <<loc, streamClosed>>
    /\ UNCHANGED <<closed, counters, done, repeated, inherited, late>>

\* The claim's expiry outlives the run's deadline, so it passes only once
\* the drive that took the claim is gone.
ClaimLapses ==
    /\ ClaimLive
    /\ At(view.claim, "off")
    /\ lapsed' = TRUE
    /\ UNCHANGED <<view, streamClosed, lost, process, pc, loc,
                   counters, effects, late>>

-----------------------------------------------------------------------------
(* The claimed drive: runInvestigation's body.                             *)

\* A queued snapshot calls markRunning, which reads the status again.
Start(d) ==
    /\ At(d, "start")
    /\ \/ ~loc[d].fresh /\ Goto(d, "driver") /\ UNCHANGED loc
       \/ loc[d].fresh /\ view.status = "queued"
            /\ Goto(d, "startAppend") /\ UNCHANGED loc
       \/ loc[d].fresh /\ view.status # "queued" /\ Leave(d, TRUE)
    /\ UNCHANGED <<durable, process, counters, effects, late>>

AppendStarted(d) ==
    /\ At(d, "startAppend")
    /\ Answered(d)
    /\ \/ /\ Refused(d)
          /\ Leave(d, TRUE)
          /\ UNCHANGED <<durable, late>>
       \/ /\ ~Refused(d)
          /\ Write(RunStarted)
          /\ Goto(d, "driver")
          /\ late' = [x \in Drives |-> 0]
          /\ UNCHANGED <<loc, lapsed, streamClosed>>
    /\ UNCHANGED <<counters, effects>>

\* recordDriver writes only on a running run; its entry folds to nothing, so
\* its read and its append are one step.
RecordDriver(d) ==
    /\ At(d, "driver")
    /\ \/ /\ view.status # "running" \/ closed
          /\ Leave(d, TRUE)
          /\ UNCHANGED <<view, lost>>
       \/ /\ view.status = "running" /\ ~closed
          /\ Write(Narrative)
          /\ Goto(d, "loop")
          /\ UNCHANGED loc
    /\ UNCHANGED <<lapsed, streamClosed, process, counters, effects, late>>

\* The read between two turns.  The deadline may be spent at any of them.
BetweenTurns(d) ==
    /\ At(d, "loop")
    /\ \/ /\ view.cancelReq
          /\ Goto(d, "conclude")
          /\ loc' = [loc EXCEPT ![d].ending = "cancelled"]
       \/ /\ ~view.cancelReq /\ view.status = "paused"
          /\ Leave(d, FALSE)
       \/ /\ ~view.cancelReq /\ view.status # "paused"
          /\ Goto(d, "conclude")                \* deadline, turn limit
          /\ loc' = [loc EXCEPT ![d].ending = "failed"]
       \/ /\ ~view.cancelReq /\ view.status # "paused"
          /\ MovesLeft(d)
          /\ Goto(d, "turn")
          /\ loc' = [loc EXCEPT ![d].moves = @ + 1]
    /\ UNCHANGED <<durable, process, counters, effects, late>>

\* The model's answer: one more tool call, its report or a refusal to go on,
\* the turn's end, or an error.  Its prose and drafts are entries the fold
\* reads nothing from; recordEvent throws at them once the run has ended.
ModelTurn(d) ==
    /\ At(d, "turn")
    /\ \/ /\ MovesLeft(d)
          /\ \E s \in Steps :
                loc' = [loc EXCEPT ![d].at = s, ![d].moves = @ + 1]
          /\ Goto(d, "step")
       \/ /\ Goto(d, "conclude")
          /\ \E t \in {"succeeded", "failed"} :
                loc' = [loc EXCEPT ![d].ending = t]
       \/ /\ Goto(d, "loop")
          /\ UNCHANGED loc
       \/ /\ "turn" \in Faults \/ IsTerminal(view) \/ closed
          /\ Leave(d, TRUE)
    /\ UNCHANGED <<durable, process, counters, effects, late>>

\* runStep's checkpoint.
ReadStep(d) ==
    /\ At(d, "step")
    /\ \/ /\ IsTerminal(view) \/ view.status = "queued"
          /\ Leave(d, TRUE)
       \/ /\ view.status = "paused"
          /\ Leave(d, FALSE)
       \/ /\ view.status = "running" /\ ~StepAdmitted       \* finalize
          /\ \/ Live  /\ Leave(d, TRUE)
             \/ /\ ~Live /\ Goto(d, "finishAppend")
                /\ loc' = [loc EXCEPT ![d].ending = "cancelled"]
       \/ /\ StepAdmitted
          /\ loc[d].at \in view.settled \cup Unsettled(view)
          /\ Goto(d, "turn")                     \* replayed or indeterminate
          /\ loc' = [loc EXCEPT ![d].at = NoStep]
       \/ /\ StepAdmitted
          /\ loc[d].at \notin view.settled \cup Unsettled(view)
          /\ Goto(d, "invoke")
          /\ UNCHANGED loc
    /\ UNCHANGED <<durable, process, counters, effects, late>>

\* The invocation is made durable before the effect.
AppendInvoked(d) ==
    /\ At(d, "invoke")
    /\ Answered(d)
    /\ \/ /\ Refused(d)
          /\ Leave(d, TRUE)
          /\ UNCHANGED <<view, lost, late>>
       \/ /\ ~Refused(d)
          /\ Write(ToolInvoked(loc[d].at))
          /\ Goto(d, "invoked")
          /\ late' = [late EXCEPT ![d] =
                         IF Stopped /\ @ < 2 THEN @ + 1 ELSE @]
          /\ UNCHANGED loc
    /\ UNCHANGED <<lapsed, streamClosed, counters, effects>>

\* The tool layer admits the call (beginExecution) and the statement runs,
\* or it refuses before reaching the database, with a refusal to record or
\* with none (not-attempted).
BeginExecution(d) ==
    /\ At(d, "invoked")
    /\ \/ /\ Goto(d, "executing")
          /\ done' = done \cup {loc[d].at}
          /\ repeated' = repeated \cup ({loc[d].at} \cap done)
          /\ UNCHANGED loc
       \/ /\ Goto(d, "settle")
          /\ UNCHANGED <<done, repeated, loc>>
       \/ /\ Goto(d, "turn")
          /\ loc' = [loc EXCEPT ![d].at = NoStep]
          /\ UNCHANGED <<done, repeated>>
    /\ UNCHANGED <<durable, process, counters, crossed, inherited, late>>

\* endExecution runs on the throwing path too; a throw leaves the step
\* unsettled.  A profile is narrated before its step settles, and recordEvent
\* throws once the run has ended.
EndExecution(d) ==
    /\ At(d, "executing")
    /\ \/ Goto(d, "settle") /\ UNCHANGED loc
       \/ /\ "tool" \in Faults \/ IsTerminal(view) \/ closed
          /\ Leave(d, TRUE)
    /\ UNCHANGED <<durable, process, counters, effects, late>>

AppendSettled(d) ==
    /\ At(d, "settle")
    /\ Answered(d)
    /\ \/ /\ Refused(d)
          /\ Leave(d, TRUE)
          /\ UNCHANGED <<view, lost>>
       \/ /\ ~Refused(d)
          /\ Write(ToolSettled(loc[d].at))
          /\ Goto(d, "turn")
          /\ loc' = [loc EXCEPT ![d].at = NoStep]
    /\ UNCHANGED <<lapsed, streamClosed, counters, effects, late>>

\* conclude: a pause that landed meanwhile wins.
Conclude(d) ==
    /\ At(d, "conclude")
    /\ \/ view.status = "paused" /\ Leave(d, FALSE)
       \/ view.status # "paused" /\ Goto(d, "finish") /\ UNCHANGED loc
    /\ UNCHANGED <<durable, process, counters, effects, late>>

-----------------------------------------------------------------------------
(* Ending a run: finish and finalize.                                      *)

\* finish's read and finalize's live-execution check.  "failed" is
\* recordDriveFailure in driveAgentRun's catch.
ReadFinish(d) ==
    /\ At(d, "finish") \/ At(d, "failed")
    /\ \/ /\ IsTerminal(view) \/ view.status = "paused" \/ Live
          /\ HandBack(d, TRUE)
       \/ /\ ~(IsTerminal(view) \/ view.status = "paused" \/ Live)
          /\ Goto(d, "finishAppend")
          /\ loc' = [loc EXCEPT ![d].ending =
                        IF At(d, "failed") THEN "failed" ELSE @]
    /\ UNCHANGED <<durable, process, counters, effects, late>>

AppendFinished(a) ==
    /\ At(a, "finishAppend")
    /\ Answered(a)
    /\ \/ /\ Refused(a)
          /\ HandBack(a, TRUE)
          /\ UNCHANGED <<view, lost>>
       \/ /\ ~Refused(a)
          /\ Write(RunFinished(Ending(a)))
          /\ Goto(a, "closing")
          /\ UNCHANGED loc
    /\ UNCHANGED <<lapsed, streamClosed, counters, effects, late>>

\* Once the history entry is written: the resources go, which refuses while
\* a statement runs, and in any case the run is marked closed ...
MarkClosed(a) ==
    /\ At(a, "closing")
    /\ closed' = TRUE
    /\ IF closed
       THEN UNCHANGED past
       ELSE past' \in SUBSET {x \in Actors : pc[x] \in AppendLabels}
    /\ Goto(a, IF Live THEN "eofThrow" ELSE "eof")
    /\ UNCHANGED <<durable, active, lock, loc, counters, effects, late>>

\* ... and the backend's stream is ended.
CloseStream(a) ==
    /\ At(a, "eof") \/ At(a, "eofThrow")
    /\ streamClosed' = TRUE
    /\ HandBack(a, At(a, "eofThrow"))
    /\ UNCHANGED <<view, lapsed, lost, process, counters, effects, late>>

\* releaseDrive: the map entry goes at once, whoever's it is ...
ReleaseActive(d) ==
    /\ At(d, "release")
    /\ active' = NoDrive
    /\ IF active = NoDrive
       THEN \/ loc[d].failing /\ Goto(d, "failed") /\ UNCHANGED loc
            \/ ~loc[d].failing /\ Quit(d)
       ELSE Goto(d, "released") /\ loc' = [loc EXCEPT ![d].mine = active]
    /\ UNCHANGED <<durable, closed, past, lock, counters, effects, late>>

\* ... and the durable release follows, unless the run has ended.  A refused
\* append is logged and dropped.  The read and the append are one step here: an
\* ending between the two commutes with the release.
AppendReleased(d) ==
    /\ At(d, "released")
    /\ \/ (IsTerminal(view) \/ closed) /\ UNCHANGED <<view, lost>>
       \/ /\ ~IsTerminal(view) /\ ~closed
          /\ lock[StoreOf[d]] = NoDrive
          /\ Write(DriveReleased(loc[d].mine))
    /\ IF loc[d].failing
       THEN Goto(d, "failed") /\ loc' = [loc EXCEPT ![d].mine = NoDrive]
       ELSE Quit(d)
    /\ UNCHANGED <<lapsed, streamClosed, process, counters, effects, late>>

-----------------------------------------------------------------------------
(* Requests: PATCH (pause, resume) and DELETE (cancel) of a run.           *)

ReadLabel ==
    [pause |-> "pauseRead", resume |-> "resumeRead", cancel |-> "cancelRead"]

Request(c) ==
    /\ At(c, "off")
    /\ \E op \in Ops : Goto(c, ReadLabel[op])
    /\ UNCHANGED <<durable, process, loc, counters, effects, late>>

ReadPause(c) ==
    /\ At(c, "pauseRead")
    /\ Goto(c, IF view.status = "running" /\ ~view.cancelReq
               THEN "pauseAppend" ELSE "off")
    /\ UNCHANGED <<durable, process, loc, counters, effects, late>>

AppendPaused(c) ==
    /\ At(c, "pauseAppend")
    /\ Answered(c)
    /\ Goto(c, "off")
    /\ IF Refused(c) THEN UNCHANGED <<view, lost>> ELSE Write(RunPaused)
    /\ UNCHANGED <<lapsed, streamClosed, loc, counters, effects, late>>

ReadUnpause(c) ==
    /\ At(c, "resumeRead")
    /\ Goto(c, IF view.status = "paused" THEN "resumeAppend" ELSE "off")
    /\ UNCHANGED <<durable, process, loc, counters, effects, late>>

AppendResumed(c) ==
    /\ At(c, "resumeAppend")
    /\ Answered(c)
    /\ \/ /\ Refused(c)
          /\ Goto(c, "off")
          /\ UNCHANGED <<view, lost, late>>
       \/ /\ ~Refused(c)
          /\ Write(RunResumed)
          /\ Goto(c, "resumeCheck")
          /\ late' = [x \in Drives |-> 0]
    /\ UNCHANGED <<lapsed, streamClosed, loc, counters, effects>>

\* The route starts a drive when the record it got back is running.
DriveResumed(c, d) ==
    /\ At(c, "resumeCheck")
    /\ view.status = "running"
    /\ At(d, "off") /\ view.claim # d /\ active # d
    /\ pc' = [pc EXCEPT ![c] = "off", ![d] = "prepare"]
    /\ late' = [late EXCEPT ![d] = 0]
    /\ UNCHANGED <<durable, process, loc, counters, effects>>

ResumeAnswered(c) ==
    /\ At(c, "resumeCheck")
    /\ view.status # "running"
    /\ Goto(c, "off")
    /\ UNCHANGED <<durable, process, loc, counters, effects, late>>

\* A queued or paused run is ended by the request itself.
ReadCancel(c) ==
    /\ At(c, "cancelRead")
    /\ \/ /\ IsTerminal(view)
          /\ Goto(c, "off")
       \/ /\ view.status \in {"queued", "paused"}
          /\ Goto(c, IF Live THEN "off" ELSE "finishAppend")
       \/ /\ view.status = "running"
          /\ Goto(c, "cancelAppend")
    /\ UNCHANGED <<durable, process, loc, counters, effects, late>>

AppendCancel(c) ==
    /\ At(c, "cancelAppend")
    /\ Answered(c)
    /\ Goto(c, "off")
    /\ IF Refused(c) THEN UNCHANGED <<view, lost>> ELSE Write(CancellationRequested)
    /\ UNCHANGED <<lapsed, streamClosed, loc, counters, effects, late>>

-----------------------------------------------------------------------------
\* The process dies and starts again over the same ledger.
Crash ==
    /\ crashes < MaxCrashes
    /\ crashes' = crashes + 1
    /\ closed' = FALSE
    /\ past' = {}
    /\ active' = NoDrive
    /\ lock' = [s \in Stores |-> NoDrive]
    /\ pc' = [a \in Actors |-> "off"]
    /\ loc' = [d \in Drives |-> IdleLoc]
    /\ inherited' = view.invoked
    /\ UNCHANGED <<durable, calls, crossed, done, repeated, late>>

Init ==
    /\ view = EmptyView
    /\ lapsed = FALSE /\ streamClosed = FALSE /\ lost = FALSE
    /\ closed = FALSE /\ past = {}
    /\ active = NoDrive
    /\ lock = [s \in Stores |-> NoDrive]
    /\ pc = [a \in Actors |-> "off"]
    /\ loc = [d \in Drives |-> IdleLoc]
    /\ calls = 0 /\ crashes = 0
    /\ crossed = FALSE
    /\ done = {} /\ repeated = {} /\ inherited = {}
    /\ late = [d \in Drives |-> 0]

\* A step of a drive that is under way.
DriveStep(d) ==
    \/ PrepareFails(d) \/ ReadResume(d) \/ CheckActive(d) \/ ReadClaim(d)
    \/ AppendClaim(d) \/ Start(d) \/ AppendStarted(d) \/ RecordDriver(d)
    \/ BetweenTurns(d) \/ ModelTurn(d) \/ ReadStep(d) \/ AppendInvoked(d)
    \/ BeginExecution(d) \/ EndExecution(d) \/ AppendSettled(d)
    \/ Conclude(d) \/ ReadFinish(d) \/ ReleaseActive(d) \/ AppendReleased(d)

\* A step of an actor that is ending the run.
FinalizeStep(a) == AppendFinished(a) \/ MarkClosed(a) \/ CloseStream(a)

\* A step of a request that is under way.
ClientStep(c) ==
    \/ ReadPause(c) \/ AppendPaused(c) \/ ReadUnpause(c) \/ AppendResumed(c)
    \/ ResumeAnswered(c) \/ (\E d \in Drives : DriveResumed(c, d))
    \/ ReadCancel(c) \/ AppendCancel(c)

Next ==
    \/ \E d \in Drives : DriveRequested(d) \/ Sweep(d) \/ DriveStep(d)
    \/ \E a \in Actors : FinalizeStep(a)
    \/ \E c \in Clients : Request(c) \/ ClientStep(c)
    \/ ClaimLapses
    \/ Crash

Spec == Init /\ [][Next]_vars

\* What is under way is carried on, the timer sweeps and the clock advances.
\* Requests, failures and crashes are never owed.
Fairness ==
    /\ \A d \in Drives : WF_vars(DriveStep(d))
    /\ \A a \in Actors : WF_vars(FinalizeStep(a))
    /\ \A c \in Clients : WF_vars(ClientStep(c))
    /\ WF_vars(\E d \in Drives : Sweep(d))
    /\ WF_vars(ClaimLapses)

FairSpec == Spec /\ Fairness

-----------------------------------------------------------------------------
(* Properties.                                                             *)

PCs == {"off", "prepare", "check", "claim", "claimAppend", "start",
        "startAppend", "driver", "loop", "turn", "step", "invoke", "invoked",
        "executing", "settle", "conclude", "finish", "failed",
        "finishAppend", "closing", "eof", "eofThrow", "release", "released",
        "pauseRead", "pauseAppend", "resumeRead", "resumeAppend",
        "resumeCheck", "cancelRead", "cancelAppend"}

Locs == [fresh : BOOLEAN, at : Steps \cup {NoStep},
         mine : Drives \cup {NoDrive}, moves : 0..MaxMoves,
         failing : BOOLEAN, ending : TerminalStatuses]

\* The types of the state.
TypeOK ==
    /\ view \in Views
    /\ lapsed \in BOOLEAN /\ streamClosed \in BOOLEAN /\ lost \in BOOLEAN
    /\ closed \in BOOLEAN /\ past \subseteq Actors
    /\ active \in Drives \cup {NoDrive}
    /\ lock \in [Stores -> Drives \cup {NoDrive}]
    /\ pc \in [Actors -> PCs]
    /\ loc \in [Drives -> Locs]
    /\ calls \in 0..MaxCalls /\ crashes \in 0..MaxCrashes
    /\ crossed \in BOOLEAN
    /\ done \subseteq Steps /\ repeated \subseteq Steps
    /\ inherited \subseteq Steps
    /\ late \in [Drives -> 0..2]

\* A step whose invocation a process finds on the ledger when it starts is
\* never invoked or run by that process: a death between the invocation and
\* its outcome leaves the step indeterminate for good (runStep).
NoRepeatAfterRestart ==
    \A d \in Drives :
        pc[d] \in {"invoke", "invoked", "executing"} =>
            loc[d].at \notin inherited

\* A cancellation, a pause or the run's end lets each drive invoke at most
\* the one step whose checkpoint it had already passed (runStep, the read
\* between turns).
StopIsHonoured == \A d \in Drives : late[d] <= 1

\* "A queued run has nothing in flight": cancel ends a queued run on the spot
\* because it believes so (runStep's status check).
QueuedIsUntouched == view.status = "queued" => done = {} /\ ~Live

\* The drive claim is single-flight (claimDrive, tryClaimDrive), as long as
\* every write that was accepted was stored.
OneDriver ==
    lost \/ \A x, y \in Drives : Carrying(x) /\ Carrying(y) => x = y

\* Whatever serializes the claims, two drives carry the run only after the
\* claim of one landed between the other's read and its append (tryClaimDrive).
\* A drive that is released, swept, resumed, started by a second request or
\* left by a dead process lets another in in no other way.
OneDriverUnlessClaimsCross == crossed \/ OneDriver

\* The write-ahead ledger makes every step reach the database at most once,
\* across pauses, failures and restarts, unless claims crossed (runStep).
StepsPerformedOnce == lost \/ crossed \/ repeated = {}

Contract ==
    INSTANCE StepContract WITH
        invoked <- view.invoked,
        settled <- view.settled,
        times   <- [s \in Steps |-> IF s \in repeated THEN 2
                                    ELSE IF s \in done THEN 1 ELSE 0],
        kept    <- ~lost /\ ~crossed

\* The run implements the step contract: whatever interleaves, the ledger and
\* the database agree that no step ran before its invocation, after its
\* outcome, or twice, until a write is lost or two claims cross (runStep).
ImplementsContract == Contract!Spec

\* A running run ends or is paused, whatever dies in between: its drive ends
\* it, or the sweep drives it again once the dead drive's claim has lapsed.
RunEnds ==
    (view.status = "running" /\ ~view.ended)
        ~> (view.ended \/ view.status = "paused")
=============================================================================
