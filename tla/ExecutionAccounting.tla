------------------------ MODULE ExecutionAccounting ------------------------
(***************************************************************************)
(* What one agent process accounts for the statements of its runs: the     *)
(* budget tracker (db/operations/budgets.ts), the artifact store           *)
(* (artifacts.ts), the calls of executeAuditedOperation (execution.ts)     *)
(* between them, and what drives and finalizers do to both (runtime.ts,    *)
(* drive-budget.ts, run-service.ts).                                       *)
(*                                                                         *)
(* A step is what runs between two awaits.  A crash loses everything but   *)
(* the ledger, of which this module keeps a run's status and the number of *)
(* its tool-completed entries.                                             *)
(***************************************************************************)
EXTENDS FiniteSets, Integers

CONSTANTS
    Runs, Calls,    \* runs, and calls that may be under way at once
    MaxConcurrent,  \* maxConcurrentExecutions
    MaxStatements,  \* maxStatementsPerRun
    Cap,            \* AGENT_MAX_ARTIFACTS
    TTL,            \* AGENT_ARTIFACT_TTL_MS
    MaxTime, MaxDrives, MaxRestarts, MaxBegun  \* bounds

ASSUME AccountingAssumption ==
    /\ IsFiniteSet(Calls)
    /\ MaxConcurrent \in Nat \ {0} /\ MaxStatements \in Nat \ {0}
    /\ Cap \in Nat \ {0} /\ TTL \in Nat \ {0}
    /\ MaxTime \in Nat /\ MaxDrives \in Nat /\ MaxRestarts \in Nat
    /\ MaxBegun \in Nat

VARIABLES
    status, completed,  \* the ledger: a run's status, its tool-completed's
    driven,             \* some drive of the run is in its loop
    account,            \* the tracker's account of a run
    allowance, store,   \* runAllowances (0 for none), and the artifacts
    puts,               \* the order they were stored in
    call,               \* the calls under way
    closing,            \* where the finalizer of a run stands
    now, drives, restarts, begun,  \* the clock and bounded counters
    spent,              \* history: statements of a run that ever began
    lost,               \* history: those no tool-completed records
    late                \* history: runs registered, or executing, too late

ledger == <<status, completed>>
books == <<account, allowance, store, puts>>
counts == <<now, drives, restarts, begun>>
history == <<spent, lost, late>>
vars == <<ledger, driven, books, call, closing, counts, history>>

-----------------------------------------------------------------------------

NoAccount == [open |-> FALSE, active |-> 0, executed |-> 0]
Account(n) == [open |-> TRUE, active |-> 0, executed |-> n]

Idle == [st |-> "idle"]
Under(r, st) == {c \in Calls : call[c].st = st /\ call[c].run = r}
Executing(r) == Under(r, "executing")
Busy(r) == \E c \in Calls : call[c].st # "idle" /\ call[c].run = r

Over(r) == status[r] = "ended" /\ closing[r] = "no"

SetCall(c, k) == call' = [call EXCEPT ![c] = k]

-----------------------------------------------------------------------------
(* The tracker.                                                            *)

\* Mutant: the concurrency was read before an await.
AdmitsStale(u) == u.executed + 1 <= MaxStatements

\* Stage 6 of the policy, on tracker.usage.
Admits(u) == u.active < MaxConcurrent /\ u.executed + 1 <= MaxStatements

\* Mutant: the account is seeded again on every drive.
SeededAgain(u, executed) == Account(executed)

Seeded(u, executed) == IF u.open THEN u ELSE Account(executed)

Begun(u) == [open |-> TRUE, active |-> u.active + 1,
             executed |-> u.executed]

Ended(u) == [open |-> u.open, active |-> u.active - 1,
             executed |-> u.executed + 1]

\* Mutant: "dropping live usage would reset the concurrency mid-flight".
RefusesNever(u) == FALSE

\* endRun throws.
Refuses(u) == u.active > 0

-----------------------------------------------------------------------------
(* The artifact store.                                                     *)

Expired(a) == now - a.start >= TTL
HeldBy(s, r) == {a \in s : a.run = r}
Oldest(s) == {a \in s : \A b \in s : a.at <= b.at}

\* Mutant: the oldest of the store, whoever's it is.
EvictOldest(s, r) == s \ Oldest(s)

\* evictOldestOf: "preferring runId's own oldest".
Evict(s, r) == s \ Oldest(IF HeldBy(s, r) = {} THEN s ELSE HeldBy(s, r))

WithinCap(s, r) == IF Cardinality(s) >= Cap THEN Evict(s, r) ELSE s

WithinAllowance(s, r) ==
    IF allowance[r] > 0 /\ Cardinality(HeldBy(s, r)) >= allowance[r]
    THEN Evict(s, r) ELSE s

Put(a) ==
    /\ puts' = puts + 1
    /\ store' = WithinAllowance(WithinCap({b \in store : ~Expired(b)}, a.run),
                                a.run) \cup {a}

-----------------------------------------------------------------------------
(* Drives: driveAgentRun and the loop.                                     *)

\* Mutant: a resumed drive may hold as much as it has left to spend.
AllowanceLeft(executed) == IF executed < MaxStatements
                           THEN MaxStatements - executed ELSE 1

\* deriveDriveCeilings' artifactAllowance.
AllowanceOf(executed) == MaxStatements

\* Both are registered before the drive learns whether the run has ended, or is
\* driven already: claims that crossed let two drives carry it.
DriveStart(r) ==
    /\ drives < MaxDrives
    /\ drives' = drives + 1
    /\ account' = [account EXCEPT ![r] = Seeded(@, completed[r])]
    /\ allowance' = [allowance EXCEPT ![r] = AllowanceOf(completed[r])]
    /\ driven' = [driven EXCEPT ![r] = @ \/ status[r] = "running"]
    /\ late' = IF Over(r) THEN late \cup {r} ELSE late
    /\ UNCHANGED <<ledger, store, puts, call, closing, now, restarts, begun,
                   spent, lost>>

\* The last loop stops, at a checkpoint or for any failure of its own.
DriveStop(r) ==
    /\ driven[r] /\ ~Busy(r)
    /\ driven' = [driven EXCEPT ![r] = FALSE]
    /\ UNCHANGED <<ledger, books, call, closing, counts, history>>

\* runStep reads a run that is running, and writes the invocation.
Checkpoint(c, r) ==
    /\ call[c].st = "idle" /\ driven[r] /\ status[r] = "running"
    /\ SetCall(c, [st |-> "checked", run |-> r])
    /\ UNCHANGED <<ledger, driven, books, closing, counts, history>>

-----------------------------------------------------------------------------
(* executeAuditedOperation.                                                *)

Deny(c) ==
    /\ call[c].st = "checked"
    /\ ~Admits(account[call[c].run])
    /\ SetCall(c, Idle)
    /\ UNCHANGED <<ledger, driven, books, closing, counts, history>>

Begin(c) ==
    /\ call[c].st = "checked" /\ begun < MaxBegun
    /\ begun' = begun + 1
    /\ LET r == call[c].run IN
         /\ Admits(account[r])
         /\ account' = [account EXCEPT ![r] = Begun(@)]
         /\ SetCall(c, [st |-> "executing", run |-> r, start |-> now])
         /\ spent' = [spent EXCEPT ![r] = @ + 1]
         /\ late' = IF Over(r) THEN late \cup {r} ELSE late
    /\ UNCHANGED <<ledger, driven, allowance, store, puts, closing, now, drives,
                   restarts, lost>>

Succeed(c) ==
    /\ call[c].st = "executing"
    /\ LET r == call[c].run IN
         /\ account' = [account EXCEPT ![r] = Ended(@)]
         /\ Put([run |-> r, start |-> call[c].start, at |-> puts])
         /\ SetCall(c, [st |-> "settling", run |-> r])
    /\ UNCHANGED <<ledger, driven, allowance, closing, counts, history>>

\* The provider throws: the ledger records a refusal, or nothing.
Fail(c) ==
    /\ call[c].st = "executing"
    /\ LET r == call[c].run IN
         /\ account' = [account EXCEPT ![r] = Ended(@)]
         /\ lost' = [lost EXCEPT ![r] = @ + 1]
    /\ SetCall(c, Idle)
    /\ UNCHANGED <<ledger, driven, allowance, store, puts, closing, counts,
                   spent, late>>

\* tool-completed is appended, or the append fails.
Settle(c) ==
    /\ call[c].st = "settling"
    /\ LET r == call[c].run IN
         \/ /\ status[r] # "ended"
            /\ completed' = [completed EXCEPT ![r] = @ + 1]
            /\ UNCHANGED lost
         \/ /\ lost' = [lost EXCEPT ![r] = @ + 1]
            /\ UNCHANGED completed
    /\ SetCall(c, Idle)
    /\ UNCHANGED <<status, driven, books, closing, counts, spent, late>>

-----------------------------------------------------------------------------
(* Pausing, and ending: finalize.                                          *)

Pause(r) ==
    /\ \/ status[r] = "running" /\ status' = [status EXCEPT ![r] = "paused"]
       \/ status[r] = "paused" /\ status' = [status EXCEPT ![r] = "running"]
    /\ UNCHANGED <<completed, driven, books, call, closing, counts, history>>

\* A loop at its end, a drive that failed before its loop (recordDriveFailure),
\* or a cancel that finds the run paused reads the account before any of its
\* awaits; calls of another drive may be under way.
Finalize(r) ==
    /\ closing[r] = "no" /\ status[r] # "ended"
    /\ ~Refuses(account[r])
    /\ closing' = [closing EXCEPT ![r] = "appending"]
    /\ UNCHANGED <<ledger, driven, books, call, counts, history>>

Finish(r) ==
    /\ closing[r] = "appending"
    /\ status' = [status EXCEPT ![r] = "ended"]
    /\ closing' = [closing EXCEPT ![r] = "releasing"]
    /\ UNCHANGED <<completed, driven, books, call, counts, history>>

\* Mutant: the artifacts go before the tracker can refuse.
ReleaseArtifactsFirst(r) ==
    /\ store' = store \ HeldBy(store, r)
    /\ allowance' = [allowance EXCEPT ![r] = 0]
    /\ account' = [account EXCEPT ![r] = IF Refuses(@) THEN @ ELSE NoAccount]
    /\ UNCHANGED puts

\* Mutant: the artifacts are left to their TTL.
ReleaseAccount(r) ==
    /\ account' = [account EXCEPT ![r] = IF Refuses(@) THEN @ ELSE NoAccount]
    /\ UNCHANGED <<allowance, store, puts>>

\* releaseExecutionRun: "the tracker goes first".
Release(r) ==
    IF Refuses(account[r]) THEN UNCHANGED books
    ELSE /\ account' = [account EXCEPT ![r] = NoAccount]
         /\ allowance' = [allowance EXCEPT ![r] = 0]
         /\ store' = store \ HeldBy(store, r)
         /\ UNCHANGED puts

\* What cannot be released stays; the finally closes the stream all the same.
Close(r) ==
    /\ closing[r] = "releasing"
    /\ Release(r)
    /\ closing' = [closing EXCEPT ![r] = "no"]
    /\ late' = IF Refuses(account[r]) THEN late \cup {r} ELSE late
    /\ UNCHANGED <<ledger, driven, call, counts, spent, lost>>

-----------------------------------------------------------------------------

Tick ==
    /\ now < MaxTime /\ now' = now + 1
    /\ UNCHANGED <<ledger, driven, books, call, closing, drives, restarts,
                   begun, history>>

\* The process dies and another starts.
Restart ==
    /\ restarts < MaxRestarts /\ restarts' = restarts + 1
    /\ driven' = [r \in Runs |-> FALSE]
    /\ account' = [r \in Runs |-> NoAccount]
    /\ allowance' = [r \in Runs |-> 0]
    /\ store' = {}
    /\ call' = [c \in Calls |-> Idle]
    /\ closing' = [r \in Runs |-> "no"]
    /\ lost' = [r \in Runs |-> lost[r] + Cardinality(Executing(r))
                                       + Cardinality(Under(r, "settling"))]
    /\ late' = {}
    /\ UNCHANGED <<ledger, puts, now, drives, begun, spent>>

Init ==
    /\ status = [r \in Runs |-> "running"] /\ completed = [r \in Runs |-> 0]
    /\ driven = [r \in Runs |-> FALSE]
    /\ account = [r \in Runs |-> NoAccount]
    /\ allowance = [r \in Runs |-> 0] /\ store = {} /\ puts = 0
    /\ call = [c \in Calls |-> Idle]
    /\ closing = [r \in Runs |-> "no"]
    /\ now = 0 /\ drives = 0 /\ restarts = 0 /\ begun = 0
    /\ spent = [r \in Runs |-> 0] /\ lost = [r \in Runs |-> 0] /\ late = {}

RunStep(r) ==
    DriveStart(r) \/ DriveStop(r) \/ Pause(r) \/ Finalize(r) \/ Finish(r)
        \/ Close(r)

CallStep(c) ==
    \/ \E r \in Runs : Checkpoint(c, r)
    \/ Deny(c) \/ Begin(c) \/ Succeed(c) \/ Fail(c) \/ Settle(c)

Next ==
    (\E r \in Runs : RunStep(r)) \/ (\E c \in Calls : CallStep(c)) \/ Tick
        \/ Restart

Spec == Init /\ [][Next]_vars

-----------------------------------------------------------------------------

CallType ==
    [st : {"idle"}]
      \cup [st : {"checked", "settling"}, run : Runs]
      \cup [st : {"executing"}, run : Runs, start : Nat]

AccountType == [open : BOOLEAN, active : Nat, executed : Nat]

TypeOK ==
    /\ status \in [Runs -> {"running", "paused", "ended"}]
    /\ completed \in [Runs -> Nat]
    /\ driven \in [Runs -> BOOLEAN]
    /\ account \in [Runs -> AccountType]
    /\ allowance \in [Runs -> Nat]
    /\ store \subseteq [run : Runs, start : Nat, at : Nat] /\ puts \in Nat
    /\ call \in [Calls -> CallType]
    /\ closing \in [Runs -> {"no", "appending", "releasing"}]
    /\ now \in Nat /\ drives \in Nat /\ restarts \in Nat /\ begun \in Nat
    /\ spent \in [Runs -> Nat] /\ lost \in [Runs -> Nat]
    /\ late \subseteq Runs

\* "Every accounting error throws instead of clamping": the tracker counts as
\* live exactly the executions that are, through failures, resumes, endings and
\* crashes, so endExecution is never unbalanced.
ActiveIsTheCount ==
    \A r \in Runs : account[r].active = Cardinality(Executing(r))

\* However many calls of executeAuditedOperation a run has under way, and even
\* when its accounting is released between two of them, no more statements run
\* at once than the policy allows.
WithinConcurrency ==
    \A r \in Runs : Cardinality(Executing(r)) <= MaxConcurrent

\* A run that is resumed keeps its ceiling (deriveDriveCeilings, seedUsage): in
\* one process it is exact, and each crash hands back only the statements that
\* failed or that the ledger never recorded as completed.
CeilingKept ==
    \A r \in Runs : status[r] # "ended" =>
        spent[r] <= MaxStatements + MaxConcurrent - 1
                      + (IF restarts = 0 THEN 0 ELSE lost[r])

\* releaseExecutionRun: "its artifacts and its budget accounting are released
\* together, so neither outlives the other", nor the run, unless a drive or a
\* statement was late for its ending.
NothingOutlives ==
    \A r \in Runs : Over(r) /\ r \notin late =>
        ~account[r].open /\ allowance[r] = 0 /\ HeldBy(store, r) = {}

\* A result a run may still cite is not lost under it (#999): only an ending
\* with nothing live releases it, and only a full store evicts it, for its own
\* run's next or for the first of a run that holds none.
EvidenceKept ==
    [][\A a \in store \ store' :
         ~Expired(a) /\ restarts' = restarts =>
           \/ status[a.run] = "ended" /\ Executing(a.run) = {}
           \/ LET kept == {b \in store : ~Expired(b)} IN
                /\ Cardinality(kept) >= Cap
                /\ \E b \in store' \ store :
                     b.run = a.run \/ HeldBy(kept, b.run) = {}]_vars
=============================================================================
