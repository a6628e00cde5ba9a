--------------------------- MODULE AgentRunProofs ---------------------------
(***************************************************************************)
(* Theorems about AgentRun for any number of drives, requests, stores,     *)
(* steps, moves, deliveries and crashes.                                   *)
(***************************************************************************)
EXTENDS AgentRun, TLAPS

-----------------------------------------------------------------------------
(* The ledger: what each entry does to the view.                           *)

\* What foldLedger makes of the entries that carry nothing.
LEMMA FoldEach ==
    ASSUME NEW v \in Views
    PROVE  /\ FoldEntry(v, RunStarted) = [v EXCEPT !.status = "running"]
           /\ FoldEntry(v, RunPaused) = [v EXCEPT !.status = "paused"]
           /\ FoldEntry(v, RunResumed) = [v EXCEPT !.status = "running"]
           /\ FoldEntry(v, Narrative) = [v EXCEPT !.status = @]
           /\ FoldEntry(v, CancellationRequested) = [v EXCEPT !.cancelReq = TRUE]
<1> USE DEF Views
<1>1. FoldEntry(v, RunStarted) = [v EXCEPT !.status = "running"]
    BY DEF FoldEntry, NextStatus, RunStarted
<1>2. FoldEntry(v, RunPaused) = [v EXCEPT !.status = "paused"]
    BY DEF FoldEntry, NextStatus, RunPaused
<1>3. FoldEntry(v, RunResumed) = [v EXCEPT !.status = "running"]
    BY DEF FoldEntry, NextStatus, RunResumed
<1>4. FoldEntry(v, Narrative) = [v EXCEPT !.status = @]
    BY DEF FoldEntry, NextStatus, Narrative
<1>5. FoldEntry(v, CancellationRequested) = [v EXCEPT !.cancelReq = TRUE]
    BY DEF FoldEntry, CancellationRequested
<1> QED
    BY <1>1, <1>2, <1>3, <1>4, <1>5

\* Folding an entry keeps the view a view, whichever entry it is (foldLedger).
LEMMA FoldType ==
    ASSUME NEW v \in Views
    PROVE  /\ FoldEntry(v, RunStarted) \in Views
           /\ FoldEntry(v, RunPaused) \in Views
           /\ FoldEntry(v, RunResumed) \in Views
           /\ FoldEntry(v, Narrative) \in Views
           /\ FoldEntry(v, CancellationRequested) \in Views
           /\ \A t \in TerminalStatuses : FoldEntry(v, RunFinished(t)) \in Views
           /\ \A s \in Steps : FoldEntry(v, ToolInvoked(s)) \in Views
           /\ \A s \in Steps : FoldEntry(v, ToolSettled(s)) \in Views
           /\ \A d \in Drives : FoldEntry(v, DriveClaimed(d)) \in Views
           /\ \A d \in Drives \cup {NoDrive} : FoldEntry(v, DriveReleased(d)) \in Views
<1>1. \A t \in Statuses : [v EXCEPT !.status = t] \in Views
    BY DEF Views
<1>2. [v EXCEPT !.status = @] \in Views /\ [v EXCEPT !.cancelReq = TRUE] \in Views
    BY DEF Views
<1>3. \A t \in TerminalStatuses : FoldEntry(v, RunFinished(t)) \in Views
    BY DEF FoldEntry, NextStatus, RunFinished, Views, Statuses, TerminalStatuses
<1>4. \A s \in Steps : FoldEntry(v, ToolInvoked(s)) \in Views
    BY DEF FoldEntry, ToolInvoked, Views
<1>5. \A s \in Steps : FoldEntry(v, ToolSettled(s)) \in Views
    BY DEF FoldEntry, ToolSettled, Views
<1>6. \A d \in Drives : FoldEntry(v, DriveClaimed(d)) \in Views
    BY DEF FoldEntry, DriveClaimed, Views
<1>7. \A d \in Drives \cup {NoDrive} : FoldEntry(v, DriveReleased(d)) \in Views
    BY DEF FoldEntry, DriveReleased, AfterRelease, Views
<1>8. "running" \in Statuses /\ "paused" \in Statuses
    BY DEF Statuses
<1>9. /\ FoldEntry(v, RunStarted) \in Views
      /\ FoldEntry(v, RunPaused) \in Views
      /\ FoldEntry(v, RunResumed) \in Views
      /\ FoldEntry(v, Narrative) \in Views
      /\ FoldEntry(v, CancellationRequested) \in Views
    BY <1>1, <1>2, <1>8, FoldEach
<1> QED
    BY <1>3, <1>4, <1>5, <1>6, <1>7, <1>9

-----------------------------------------------------------------------------
(* Types.                                                                  *)

\* Each update of what a drive remembers keeps its type.

LEMMA FailingType == \A l \in Locs, b \in BOOLEAN : [l EXCEPT !.failing = b] \in Locs
BY DEF Locs

LEMMA FreshType == \A l \in Locs, b \in BOOLEAN : [l EXCEPT !.fresh = b] \in Locs
BY DEF Locs

LEMMA AtType == \A l \in Locs, x \in Steps \cup {NoStep} : [l EXCEPT !.at = x] \in Locs
BY DEF Locs

LEMMA MineType == \A l \in Locs, x \in Drives \cup {NoDrive} : [l EXCEPT !.mine = x] \in Locs
BY DEF Locs

LEMMA EndingType ==
    \A l \in Locs : /\ l.ending \in TerminalStatuses
                    /\ \A t \in TerminalStatuses : [l EXCEPT !.ending = t] \in Locs
BY DEF Locs

LEMMA MovesType ==
    \A l \in Locs : l.moves < MaxMoves =>
        /\ [l EXCEPT !.moves = @ + 1] \in Locs
        /\ \A x \in Steps : [l EXCEPT !.at = x, !.moves = @ + 1] \in Locs
<1>1. ASSUME NEW l \in Locs, l.moves < MaxMoves PROVE l.moves + 1 \in 0..MaxMoves
    BY <1>1, BoundsAssumption DEF Locs, BoundsAssumption
<1> QED
    BY <1>1 DEF Locs

LEMMA IdleType == IdleLoc \in Locs
BY StepsAssumption, NoDriveAssumption, BoundsAssumption
DEF BoundsAssumption, IdleLoc, Locs, TerminalStatuses


\* Leaving a drive, in each of the ways there are, keeps the types.
LEMMA LeaveLoc ==
    ASSUME loc \in [Drives -> Locs], NEW d \in Drives, NEW t \in BOOLEAN, Leave(d, t)
    PROVE  loc' \in [Drives -> Locs]
BY FailingType DEF Leave

LEMMA QuitLoc ==
    ASSUME loc \in [Drives -> Locs], NEW d \in Drives, Quit(d)
    PROVE  loc' \in [Drives -> Locs]
BY IdleType DEF Quit

LEMMA HandBackLoc ==
    ASSUME loc \in [Drives -> Locs], NEW a \in Actors, NEW t \in BOOLEAN, HandBack(a, t)
    PROVE  loc' \in [Drives -> Locs]
BY LeaveLoc, QuitLoc DEF HandBack

LEMMA FailUnclaimedLoc ==
    ASSUME loc \in [Drives -> Locs], NEW d \in Drives, FailUnclaimed(d)
    PROVE  loc' \in [Drives -> Locs]
BY FailingType DEF FailUnclaimed

\* An append keeps the view a view.
LEMMA WriteType ==
    ASSUME view \in Views, lost \in BOOLEAN,
           NEW e, FoldEntry(view, e) \in Views, Write(e)
    PROVE  view' \in Views /\ lost' \in BOOLEAN
BY DEF Write

\* A drive has a step in hand from its request to its outcome.
InHand ==
    \A x \in Drives :
        pc[x] \in {"step", "invoke", "invoked", "executing", "settle"} =>
            loc[x].at \in Steps

TypeInv == TypeOK /\ InHand

LEMMA TypeInductive == TypeInv /\ [Next]_vars => TypeInv'
<1> SUFFICES ASSUME TypeInv, [Next]_vars PROVE TypeInv'
    OBVIOUS
<1>a. /\ pc \in [Actors -> PCs] /\ loc \in [Drives -> Locs] /\ InHand
      /\ view \in Views /\ lost \in BOOLEAN
    BY DEF TypeInv, TypeOK
<1>b. pc \in [Actors -> PCs] /\ loc \in [Drives -> Locs] /\ InHand
    BY <1>a
<1>1. ASSUME NEW d \in Drives, DriveRequested(d) PROVE TypeInv'
  <2>1. pc' \in [Actors -> PCs]
    BY <1>1, <1>a DEF DriveRequested, BeginDrive, At, Goto, PCs, Actors
  <2>2. loc' \in [Drives -> Locs]
    BY <1>1, <1>a DEF DriveRequested, BeginDrive
  <2>3. InHand'
    BY <1>1, <1>a, ActorsAssumption
    DEF DriveRequested, BeginDrive, At, Goto, InHand, Actors, Locs, IdleLoc,
        process
  <2>4. calls' \in 0..MaxCalls
    BY <1>1, BoundsAssumption
    DEF DriveRequested, BoundsAssumption, TypeInv, TypeOK
  <2>5. late' \in [Drives -> 0..2]
    BY <1>1 DEF DriveRequested, BeginDrive, TypeInv, TypeOK
  <2> QED
    BY <1>1, <1>a, <2>1, <2>2, <2>3, <2>4, <2>5
    DEF DriveRequested, BeginDrive, TypeInv, TypeOK, InHand, durable, process,
        counters, effects
<1>2. ASSUME NEW d \in Drives, Sweep(d) PROVE TypeInv'
  <2>1. pc' \in [Actors -> PCs]
    BY <1>2, <1>a DEF Sweep, BeginDrive, At, Goto, PCs, Actors
  <2>2. loc' \in [Drives -> Locs]
    BY <1>2, <1>a DEF Sweep, BeginDrive
  <2>3. InHand'
    BY <1>2, <1>a, ActorsAssumption
    DEF Sweep, BeginDrive, At, Goto, InHand, Actors, Locs, IdleLoc, process
  <2> QED
    BY <1>2, <1>a, <2>1, <2>2, <2>3
    DEF Sweep, BeginDrive, TypeInv, TypeOK, InHand, durable, process,
        counters, effects
<1>3. ASSUME NEW d \in Drives, PrepareFails(d) PROVE TypeInv'
  <2>1. pc' \in [Actors -> PCs]
    BY <1>3, <1>a DEF PrepareFails, FailUnclaimed, At, Goto, PCs, Actors
  <2>2. loc' \in [Drives -> Locs]
    BY <1>3, <1>a, FailUnclaimedLoc DEF PrepareFails, At, Actors
  <2>3. InHand'
    BY <1>3, <1>a, ActorsAssumption
    DEF PrepareFails, FailUnclaimed, At, Goto, InHand, Actors, Locs, IdleLoc,
        process
  <2> QED
    BY <1>3, <1>a, <2>1, <2>2, <2>3
    DEF PrepareFails, TypeInv, TypeOK, InHand, durable, process, counters,
        effects
<1>4. ASSUME NEW d \in Drives, ReadResume(d) PROVE TypeInv'
  <2>1. pc' \in [Actors -> PCs]
    BY <1>4, <1>a DEF ReadResume, FailUnclaimed, Quit, At, Goto, PCs, Actors
  <2>2. loc' \in [Drives -> Locs]
    <3>1. CASE FailUnclaimed(d)
      BY <3>1, <1>a, FailUnclaimedLoc
    <3>2. CASE Quit(d)
      BY <3>2, <1>a, QuitLoc
    <3>3. CASE loc' = [loc EXCEPT ![d].fresh = (view.status = "queued")]
      BY <3>3, <1>a, FreshType
    <3> QED
      BY <1>4, <3>1, <3>2, <3>3 DEF ReadResume
  <2>3. InHand'
    BY <1>4, <1>a, ActorsAssumption
    DEF ReadResume, FailUnclaimed, Quit, At, Goto, InHand, Actors, Locs,
        IdleLoc, process
  <2> QED
    BY <1>4, <1>a, <2>1, <2>2, <2>3
    DEF ReadResume, TypeInv, TypeOK, InHand, durable, process, counters,
        effects
<1>5. ASSUME NEW d \in Drives, CheckActive(d) PROVE TypeInv'
  <2>1. pc' \in [Actors -> PCs]
    BY <1>5, <1>a DEF CheckActive, Quit, At, Goto, PCs, Actors
  <2>2. loc' \in [Drives -> Locs]
    BY <1>5, <1>a, QuitLoc DEF CheckActive, At, Actors
  <2>3. InHand'
    BY <1>5, <1>a, ActorsAssumption
    DEF CheckActive, Quit, At, Goto, InHand, Actors, Locs, IdleLoc, process
  <2> QED
    BY <1>5, <1>a, <2>1, <2>2, <2>3
    DEF CheckActive, TypeInv, TypeOK, InHand, durable, process, counters,
        effects
<1>6. ASSUME NEW d \in Drives, ReadClaim(d) PROVE TypeInv'
  <2>1. pc' \in [Actors -> PCs]
    BY <1>6, <1>a DEF ReadClaim, Quit, At, Goto, PCs, Actors
  <2>2. loc' \in [Drives -> Locs]
    BY <1>6, <1>a, QuitLoc DEF ReadClaim, At, Actors
  <2>3. InHand'
    BY <1>6, <1>a, ActorsAssumption
    DEF ReadClaim, Quit, At, Goto, InHand, Actors, Locs, IdleLoc, process
  <2> QED
    BY <1>6, <1>a, <2>1, <2>2, <2>3
    DEF ReadClaim, TypeInv, TypeOK, InHand, durable, process, counters,
        effects
<1>7. ASSUME NEW d \in Drives, AppendClaim(d) PROVE TypeInv'
  <2>1. pc' \in [Actors -> PCs]
    BY <1>7, <1>a DEF AppendClaim, FailUnclaimed, At, Goto, PCs, Actors
  <2>2. InHand'
    BY <1>7, <1>a, ActorsAssumption
    DEF AppendClaim, FailUnclaimed, At, Goto, InHand, Actors, Locs, IdleLoc,
        process
  <2>3. view' \in Views /\ lost' \in BOOLEAN
    <3>1. CASE Refused(d)
      BY <1>7, <1>a, <3>1 DEF AppendClaim, durable
    <3>2. CASE ~Refused(d)
      BY <1>7, <1>a, <3>2, FoldType, WriteType DEF AppendClaim
    <3> QED
      BY <3>1, <3>2
  <2>4. /\ lapsed' \in BOOLEAN /\ streamClosed' = streamClosed
        /\ active' \in Drives \cup {NoDrive}
        /\ lock' \in [Stores -> Drives \cup {NoDrive}]
    BY <1>7, StoresAssumption
    DEF AppendClaim, TypeInv, TypeOK, durable, StoresAssumption
  <2>5. /\ UNCHANGED <<closed, calls, crashes, done, repeated, inherited, late>>
        /\ past' \subseteq past /\ crossed' \in BOOLEAN
    BY <1>7 DEF AppendClaim, TypeInv, TypeOK, counters
  <2>6. loc' \in [Drives -> Locs]
    BY <1>7, <1>a, FailUnclaimedLoc DEF AppendClaim
  <2> QED
    BY <1>a, <2>1, <2>2, <2>3, <2>4, <2>5, <2>6 DEF TypeInv, TypeOK
<1>8. ASSUME NEW d \in Drives, Start(d) PROVE TypeInv'
  <2>1. pc' \in [Actors -> PCs]
    BY <1>8, <1>a DEF Start, Leave, At, Goto, PCs, Actors
  <2>2. loc' \in [Drives -> Locs]
    BY <1>8, <1>a, LeaveLoc DEF Start, At, Actors
  <2>3. InHand'
    BY <1>8, <1>a, ActorsAssumption
    DEF Start, Leave, At, Goto, InHand, Actors, Locs, IdleLoc, process
  <2> QED
    BY <1>8, <1>a, <2>1, <2>2, <2>3
    DEF Start, TypeInv, TypeOK, InHand, durable, process, counters, effects
<1>9. ASSUME NEW d \in Drives, AppendStarted(d) PROVE TypeInv'
  <2>1. pc' \in [Actors -> PCs]
    BY <1>9, <1>a DEF AppendStarted, Answered, Leave, At, Goto, PCs, Actors
  <2>2. InHand'
    BY <1>9, <1>a, ActorsAssumption
    DEF AppendStarted, Answered, Leave, At, Goto, InHand, Actors, Locs,
        IdleLoc, process
  <2>3. view' \in Views /\ lost' \in BOOLEAN
    <3>1. CASE Refused(d)
      BY <1>9, <1>a, <3>1 DEF AppendStarted, Answered, durable
    <3>2. CASE ~Refused(d)
      BY <1>9, <1>a, <3>2, FoldType, WriteType DEF AppendStarted, Answered
    <3> QED
      BY <3>1, <3>2
  <2>4. late' \in [Drives -> 0..2]
    <3>1. late' = late \/ late' = [x \in Drives |-> 0]
      BY <1>9 DEF AppendStarted, Answered
    <3> QED
      BY <3>1 DEF TypeInv, TypeOK
  <2>5. /\ UNCHANGED <<lapsed, streamClosed, closed, active, lock, counters, effects>>
        /\ past' \subseteq past
    BY <1>9 DEF AppendStarted, Answered, durable
  <2>6. loc' \in [Drives -> Locs]
    BY <1>9, <1>a, LeaveLoc DEF AppendStarted, Answered
  <2> QED
    BY <1>a, <2>1, <2>2, <2>3, <2>4, <2>5, <2>6
    DEF TypeInv, TypeOK, process, counters, effects
<1>10. ASSUME NEW d \in Drives, RecordDriver(d) PROVE TypeInv'
  <2>1. pc' \in [Actors -> PCs]
    BY <1>10, <1>a DEF RecordDriver, Leave, At, Goto, PCs, Actors
  <2>2. loc' \in [Drives -> Locs]
    BY <1>10, <1>a, LeaveLoc DEF RecordDriver, At, Actors
  <2>3. InHand'
    BY <1>10, <1>a, ActorsAssumption
    DEF RecordDriver, Leave, At, Goto, InHand, Actors, Locs, IdleLoc, process
  <2>4. view' \in Views /\ lost' \in BOOLEAN
    BY <1>10, <1>a, FoldType, WriteType DEF RecordDriver
  <2> QED
    BY <1>10, <1>a, <2>1, <2>2, <2>3, <2>4
    DEF RecordDriver, TypeInv, TypeOK, InHand, durable, process, counters,
        effects
<1>11. ASSUME NEW d \in Drives, BetweenTurns(d) PROVE TypeInv'
  <2>1. pc' \in [Actors -> PCs]
    BY <1>11, <1>a DEF BetweenTurns, Leave, MovesLeft, At, Goto, PCs, Actors
  <2>2. loc' \in [Drives -> Locs]
    <3>1. CASE Leave(d, FALSE)
      BY <3>1, <1>a, LeaveLoc
    <3>2. CASE \E t \in TerminalStatuses : loc' = [loc EXCEPT ![d].ending = t]
      BY <3>2, <1>a, EndingType
    <3>3. CASE MovesLeft(d) /\ loc' = [loc EXCEPT ![d].moves = @ + 1]
      BY <3>3, <1>a, MovesType DEF MovesLeft
    <3> QED
      BY <1>11, <3>1, <3>2, <3>3 DEF BetweenTurns, TerminalStatuses
  <2>3. InHand'
    BY <1>11, <1>a, ActorsAssumption
    DEF BetweenTurns, Leave, MovesLeft, At, Goto, InHand, Actors, Locs,
        IdleLoc, process
  <2> QED
    BY <1>11, <1>a, <2>1, <2>2, <2>3
    DEF BetweenTurns, TypeInv, TypeOK, InHand, durable, process, counters,
        effects
<1>12. ASSUME NEW d \in Drives, ModelTurn(d) PROVE TypeInv'
  <2>1. pc' \in [Actors -> PCs]
    BY <1>12, <1>a DEF ModelTurn, Leave, MovesLeft, At, Goto, PCs, Actors
  <2>2. loc' \in [Drives -> Locs]
    <3>1. CASE Leave(d, TRUE)
      BY <3>1, <1>a, LeaveLoc
    <3>2. CASE \E t \in TerminalStatuses : loc' = [loc EXCEPT ![d].ending = t]
      BY <3>2, <1>a, EndingType
    <3>3. CASE MovesLeft(d) /\ \E s \in Steps : loc' = [loc EXCEPT ![d].at = s, ![d].moves = @ + 1]
      <4>1. PICK s \in Steps : loc' = [loc EXCEPT ![d].at = s, ![d].moves = @ + 1]
        BY <3>3
      <4> QED
        BY <3>3, <4>1, <1>a, MovesType DEF MovesLeft
    <3>4. CASE UNCHANGED loc
      BY <3>4, <1>a
    <3> QED
      BY <1>12, <3>1, <3>2, <3>3, <3>4 DEF ModelTurn, TerminalStatuses
  <2>3. InHand'
    BY <1>12, <1>b DEF ModelTurn, Leave, Goto, At, InHand, Actors, Locs
  <2> QED
    BY <1>12, <1>a, <2>1, <2>2, <2>3
    DEF ModelTurn, TypeInv, TypeOK, InHand, durable, process, counters,
        effects
<1>13. ASSUME NEW d \in Drives, ReadStep(d) PROVE TypeInv'
  <2>1. pc' \in [Actors -> PCs]
    BY <1>13, <1>a DEF ReadStep, Leave, At, Goto, PCs, Actors
  <2>2. loc' \in [Drives -> Locs]
    <3>1. CASE \E t \in BOOLEAN : Leave(d, t)
      BY <3>1, <1>a, LeaveLoc
    <3>2. CASE loc' = [loc EXCEPT ![d].ending = "cancelled"]
      BY <3>2, <1>a, EndingType DEF TerminalStatuses
    <3>3. CASE loc' = [loc EXCEPT ![d].at = NoStep]
      BY <3>3, <1>a, AtType
    <3>4. CASE UNCHANGED loc
      BY <3>4, <1>a
    <3> QED
      BY <1>13, <3>1, <3>2, <3>3, <3>4 DEF ReadStep
  <2>3. InHand'
    BY <1>13, <1>a, ActorsAssumption
    DEF ReadStep, Leave, At, Goto, InHand, Actors, Locs, IdleLoc, process
  <2> QED
    BY <1>13, <1>a, <2>1, <2>2, <2>3
    DEF ReadStep, TypeInv, TypeOK, InHand, durable, process, counters, effects
<1>14. ASSUME NEW d \in Drives, AppendInvoked(d) PROVE TypeInv'
  <2>1. pc' \in [Actors -> PCs]
    BY <1>14, <1>a DEF AppendInvoked, Answered, Leave, At, Goto, PCs, Actors
  <2>2. loc' \in [Drives -> Locs]
    BY <1>14, <1>a, LeaveLoc DEF AppendInvoked, Answered, At, Actors
  <2>3. InHand'
    BY <1>14, <1>a, ActorsAssumption
    DEF AppendInvoked, Answered, Leave, At, Goto, InHand, Actors, Locs,
        IdleLoc, process
  <2>4. view' \in Views /\ lost' \in BOOLEAN
    BY <1>14, <1>a, FoldType, WriteType DEF AppendInvoked, Answered, InHand, At
  <2>5. late' \in [Drives -> 0..2]
    <3>1. late \in [Drives -> 0..2]
      BY DEF TypeInv, TypeOK
    <3>2. \/ late' = late
          \/ late[d] < 2 /\ late' = [late EXCEPT ![d] = @ + 1]
      BY <1>14, <3>1 DEF AppendInvoked, Answered
    <3> QED
      BY <3>1, <3>2
  <2> QED
    BY <1>14, <1>a, <2>1, <2>2, <2>3, <2>4, <2>5
    DEF AppendInvoked, Answered, TypeInv, TypeOK, InHand, durable, process,
        counters,
        effects
<1>15. ASSUME NEW d \in Drives, BeginExecution(d) PROVE TypeInv'
  <2>1. pc' \in [Actors -> PCs]
    BY <1>15, <1>a DEF BeginExecution, At, Goto, PCs, Actors
  <2>2. InHand'
    BY <1>15, <1>a, ActorsAssumption
    DEF BeginExecution, At, Goto, InHand, Actors, Locs, IdleLoc, process
  <2>3. loc' \in [Drives -> Locs]
    BY <1>15, <1>a, AtType DEF BeginExecution
  <2>4. done' \subseteq Steps /\ repeated' \subseteq Steps
    <3>1. loc[d].at \in Steps
      BY <1>15, <1>a DEF BeginExecution, At, InHand
    <3> QED
      BY <1>15, <3>1 DEF BeginExecution, TypeInv, TypeOK
  <2> QED
    BY <1>15, <1>a, <2>1, <2>2, <2>3, <2>4
    DEF BeginExecution, TypeInv, TypeOK, InHand, durable, process, counters,
        effects
<1>16. ASSUME NEW d \in Drives, EndExecution(d) PROVE TypeInv'
  <2>1. pc' \in [Actors -> PCs]
    BY <1>16, <1>a DEF EndExecution, Leave, At, Goto, PCs, Actors
  <2>2. loc' \in [Drives -> Locs]
    BY <1>16, <1>a, LeaveLoc DEF EndExecution, At, Actors
  <2>3. InHand'
    BY <1>16, <1>a, ActorsAssumption
    DEF EndExecution, Leave, At, Goto, InHand, Actors, Locs, IdleLoc, process
  <2> QED
    BY <1>16, <1>a, <2>1, <2>2, <2>3
    DEF EndExecution, TypeInv, TypeOK, InHand, durable, process, counters,
        effects
<1>17. ASSUME NEW d \in Drives, AppendSettled(d) PROVE TypeInv'
  <2>1. pc' \in [Actors -> PCs]
    BY <1>17, <1>a DEF AppendSettled, Answered, Leave, At, Goto, PCs, Actors
  <2>2. loc' \in [Drives -> Locs]
    <3>1. CASE Leave(d, TRUE)
      BY <3>1, <1>a, LeaveLoc
    <3>2. CASE loc' = [loc EXCEPT ![d].at = NoStep]
      BY <3>2, <1>a, AtType
    <3> QED
      BY <1>17, <3>1, <3>2 DEF AppendSettled, Answered
  <2>3. InHand'
    BY <1>17, <1>a, ActorsAssumption
    DEF AppendSettled, Answered, Leave, At, Goto, InHand, Actors, Locs,
        IdleLoc, process
  <2>4. view' \in Views /\ lost' \in BOOLEAN
    BY <1>17, <1>a, FoldType, WriteType DEF AppendSettled, Answered, InHand, At
  <2> QED
    BY <1>17, <1>a, <2>1, <2>2, <2>3, <2>4
    DEF AppendSettled, Answered, TypeInv, TypeOK, InHand, durable, process,
        counters,
        effects
<1>18. ASSUME NEW d \in Drives, Conclude(d) PROVE TypeInv'
  <2>1. pc' \in [Actors -> PCs]
    BY <1>18, <1>a DEF Conclude, Leave, At, Goto, PCs, Actors
  <2>2. loc' \in [Drives -> Locs]
    BY <1>18, <1>a, LeaveLoc DEF Conclude, At, Actors
  <2>3. InHand'
    BY <1>18, <1>a, ActorsAssumption
    DEF Conclude, Leave, At, Goto, InHand, Actors, Locs, IdleLoc, process
  <2> QED
    BY <1>18, <1>a, <2>1, <2>2, <2>3
    DEF Conclude, TypeInv, TypeOK, InHand, durable, process, counters, effects
<1>19. ASSUME NEW d \in Drives, ReadFinish(d) PROVE TypeInv'
  <2>1. pc' \in [Actors -> PCs]
    BY <1>19, <1>a
    DEF ReadFinish, HandBack, At, Goto, Quit, Leave, PCs, Actors
  <2>2. loc' \in [Drives -> Locs]
    <3>1. CASE HandBack(d, TRUE)
      BY <3>1, <1>a, HandBackLoc DEF Actors
    <3>2. CASE loc' = [loc EXCEPT ![d].ending = IF At(d, "failed") THEN "failed" ELSE @]
      BY <3>2, <1>a, EndingType DEF TerminalStatuses
    <3> QED
      BY <1>19, <3>1, <3>2 DEF ReadFinish
  <2>3. InHand'
    BY <1>19, <1>a, ActorsAssumption
    DEF ReadFinish, HandBack, At, Goto, Quit, Leave, InHand, Actors, Locs,
        IdleLoc, process
  <2> QED
    BY <1>19, <1>a, <2>1, <2>2, <2>3
    DEF ReadFinish, TypeInv, TypeOK, InHand, durable, process, counters,
        effects
<1>20. ASSUME NEW d \in Drives, ReleaseActive(d) PROVE TypeInv'
  <2>1. pc' \in [Actors -> PCs]
    BY <1>20, <1>a DEF ReleaseActive, Quit, At, Goto, PCs, Actors
  <2>2. loc' \in [Drives -> Locs]
    BY <1>20, <1>a, QuitLoc, MineType
    DEF ReleaseActive, At, Actors, TypeInv, TypeOK
  <2>3. InHand'
    BY <1>20, <1>a, ActorsAssumption
    DEF ReleaseActive, Quit, At, Goto, InHand, Actors, Locs, IdleLoc, process
  <2> QED
    BY <1>20, <1>a, <2>1, <2>2, <2>3
    DEF ReleaseActive, TypeInv, TypeOK, InHand, durable, process, counters,
        effects
<1>21. ASSUME NEW d \in Drives, AppendReleased(d) PROVE TypeInv'
  <2>1. pc' \in [Actors -> PCs]
    BY <1>21, <1>a DEF AppendReleased, Quit, At, Goto, PCs, Actors
  <2>2. loc' \in [Drives -> Locs]
    <3>1. CASE Quit(d)
      BY <3>1, <1>a, QuitLoc
    <3>2. CASE loc' = [loc EXCEPT ![d].mine = NoDrive]
      BY <3>2, <1>a, MineType
    <3> QED
      BY <1>21, <3>1, <3>2 DEF AppendReleased
  <2>3. InHand'
    BY <1>21, <1>a, ActorsAssumption
    DEF AppendReleased, Quit, At, Goto, InHand, Actors, Locs, IdleLoc, process
  <2>4. view' \in Views /\ lost' \in BOOLEAN
    <3>1. loc[d].mine \in Drives \cup {NoDrive}
      BY <1>a DEF Locs
    <3> QED
      BY <1>21, <3>1, <1>a, FoldType, WriteType DEF AppendReleased
  <2> QED
    BY <1>21, <1>a, <2>1, <2>2, <2>3, <2>4
    DEF AppendReleased, TypeInv, TypeOK, InHand, durable, process, counters,
        effects
<1>22. ASSUME NEW a \in Actors, AppendFinished(a) PROVE TypeInv'
  <2>1. pc' \in [Actors -> PCs]
    BY <1>22, <1>a
    DEF AppendFinished, Answered, HandBack, Ending, At, Goto, Quit, Leave, PCs,
        Actors
  <2>2. loc' \in [Drives -> Locs]
    BY <1>22, <1>a, HandBackLoc DEF AppendFinished, Answered, At, Actors
  <2>3. InHand'
    BY <1>22, <1>a, ActorsAssumption
    DEF AppendFinished, Answered, HandBack, Ending, At, Goto, Quit, Leave,
        InHand,
        Actors, Locs, IdleLoc, process
  <2>4. view' \in Views /\ lost' \in BOOLEAN
    <3>1. Ending(a) \in TerminalStatuses
      BY <1>a, EndingType DEF Ending, Actors, TerminalStatuses
    <3> QED
      BY <1>22, <3>1, <1>a, FoldType, WriteType DEF AppendFinished, Answered
  <2> QED
    BY <1>22, <1>a, <2>1, <2>2, <2>3, <2>4
    DEF AppendFinished, Answered, TypeInv, TypeOK, InHand, durable, process,
        counters,
        effects
<1>23. ASSUME NEW a \in Actors, MarkClosed(a) PROVE TypeInv'
  <2>1. pc' \in [Actors -> PCs]
    BY <1>23, <1>a DEF MarkClosed, At, Goto, PCs, Actors
  <2>2. InHand'
    BY <1>23, <1>a, ActorsAssumption
    DEF MarkClosed, At, Goto, InHand, Actors, Locs, IdleLoc, process
  <2> QED
    BY <1>23, <1>a, <2>1, <2>2
    DEF MarkClosed, TypeInv, TypeOK, InHand, durable, process, counters,
        effects
<1>24. ASSUME NEW a \in Actors, CloseStream(a) PROVE TypeInv'
  <2>1. pc' \in [Actors -> PCs]
    BY <1>24, <1>a
    DEF CloseStream, HandBack, At, Quit, Leave, Goto, PCs, Actors
  <2>2. loc' \in [Drives -> Locs]
    BY <1>24, <1>a, HandBackLoc DEF CloseStream, At, Actors
  <2>3. InHand'
    BY <1>24, <1>a, ActorsAssumption
    DEF CloseStream, HandBack, At, Quit, Leave, Goto, InHand, Actors, Locs,
        IdleLoc, process
  <2> QED
    BY <1>24, <1>a, <2>1, <2>2, <2>3
    DEF CloseStream, TypeInv, TypeOK, InHand, durable, process, counters,
        effects
<1>25. ASSUME NEW c \in Clients, Request(c) PROVE TypeInv'
  <2>1. \A op \in {"pause", "resume", "cancel"} : ReadLabel[op] \in PCs
    BY DEF ReadLabel, PCs
  <2>2. pc' \in [Actors -> PCs]
    BY <1>25, <1>a, <2>1, OpsAssumption DEF Request, Goto, Actors, OpsAssumption
  <2>3. InHand'
    BY <1>25, <1>a, ActorsAssumption
    DEF Request, ReadLabel, At, Goto, InHand, Actors, Locs, IdleLoc, process
  <2> QED
    BY <1>25, <1>a, <2>1, <2>2, <2>3
    DEF Request, TypeInv, TypeOK, InHand, durable, process, counters, effects
<1>26. ASSUME NEW c \in Clients, ReadPause(c) PROVE TypeInv'
  <2>1. pc' \in [Actors -> PCs]
    BY <1>26, <1>a DEF ReadPause, At, Goto, PCs, Actors
  <2>2. InHand'
    BY <1>26, <1>a, ActorsAssumption
    DEF ReadPause, At, Goto, InHand, Actors, Locs, IdleLoc, process
  <2> QED
    BY <1>26, <1>a, <2>1, <2>2
    DEF ReadPause, TypeInv, TypeOK, InHand, durable, process, counters,
        effects
<1>27. ASSUME NEW c \in Clients, AppendPaused(c) PROVE TypeInv'
  <2>1. pc' \in [Actors -> PCs]
    BY <1>27, <1>a DEF AppendPaused, Answered, At, Goto, PCs, Actors
  <2>2. InHand'
    BY <1>27, <1>a, ActorsAssumption
    DEF AppendPaused, Answered, At, Goto, InHand, Actors, Locs, IdleLoc, process
  <2>3. view' \in Views /\ lost' \in BOOLEAN
    BY <1>27, <1>a, FoldType, WriteType DEF AppendPaused, Answered
  <2> QED
    BY <1>27, <1>a, <2>1, <2>2, <2>3
    DEF AppendPaused, Answered, TypeInv, TypeOK, InHand, durable, process,
        counters,
        effects
<1>28. ASSUME NEW c \in Clients, ReadUnpause(c) PROVE TypeInv'
  <2>1. pc' \in [Actors -> PCs]
    BY <1>28, <1>a DEF ReadUnpause, At, Goto, PCs, Actors
  <2>2. InHand'
    BY <1>28, <1>a, ActorsAssumption
    DEF ReadUnpause, At, Goto, InHand, Actors, Locs, IdleLoc, process
  <2> QED
    BY <1>28, <1>a, <2>1, <2>2
    DEF ReadUnpause, TypeInv, TypeOK, InHand, durable, process, counters,
        effects
<1>29. ASSUME NEW c \in Clients, AppendResumed(c) PROVE TypeInv'
  <2>1. pc' \in [Actors -> PCs]
    BY <1>29, <1>a DEF AppendResumed, Answered, At, Goto, PCs, Actors
  <2>2. InHand'
    BY <1>29, <1>a, ActorsAssumption
    DEF AppendResumed, Answered, At, Goto, InHand, Actors, Locs, IdleLoc,
        process
  <2>3. view' \in Views /\ lost' \in BOOLEAN
    BY <1>29, <1>a, FoldType, WriteType DEF AppendResumed, Answered
  <2> QED
    BY <1>29, <1>a, <2>1, <2>2, <2>3
    DEF AppendResumed, Answered, TypeInv, TypeOK, InHand, durable, process,
        counters,
        effects
<1>30. ASSUME NEW c \in Clients, ResumeAnswered(c) PROVE TypeInv'
  <2>1. pc' \in [Actors -> PCs]
    BY <1>30, <1>a DEF ResumeAnswered, At, Goto, PCs, Actors
  <2>2. InHand'
    BY <1>30, <1>a, ActorsAssumption
    DEF ResumeAnswered, At, Goto, InHand, Actors, Locs, IdleLoc, process
  <2> QED
    BY <1>30, <1>a, <2>1, <2>2
    DEF ResumeAnswered, TypeInv, TypeOK, InHand, durable, process, counters,
        effects
<1>31. ASSUME NEW c \in Clients, ReadCancel(c) PROVE TypeInv'
  <2>1. pc' \in [Actors -> PCs]
    BY <1>31, <1>a DEF ReadCancel, At, Goto, PCs, Actors
  <2>2. InHand'
    BY <1>31, <1>a, ActorsAssumption
    DEF ReadCancel, At, Goto, InHand, Actors, Locs, IdleLoc, process
  <2> QED
    BY <1>31, <1>a, <2>1, <2>2
    DEF ReadCancel, TypeInv, TypeOK, InHand, durable, process, counters,
        effects
<1>32. ASSUME NEW c \in Clients, AppendCancel(c) PROVE TypeInv'
  <2>1. pc' \in [Actors -> PCs]
    BY <1>32, <1>a DEF AppendCancel, Answered, At, Goto, PCs, Actors
  <2>2. InHand'
    BY <1>32, <1>a, ActorsAssumption
    DEF AppendCancel, Answered, At, Goto, InHand, Actors, Locs, IdleLoc, process
  <2>3. view' \in Views /\ lost' \in BOOLEAN
    BY <1>32, <1>a, FoldType, WriteType DEF AppendCancel, Answered
  <2> QED
    BY <1>32, <1>a, <2>1, <2>2, <2>3
    DEF AppendCancel, Answered, TypeInv, TypeOK, InHand, durable, process,
        counters,
        effects
<1>33. ASSUME NEW c \in Clients, NEW d \in Drives, DriveResumed(c, d) PROVE TypeInv'
  <2>1. pc' \in [Actors -> PCs]
    BY <1>33, <1>a DEF DriveResumed, PCs, Actors
  <2>2. InHand'
    BY <1>33, <1>b, ActorsAssumption DEF DriveResumed, InHand, Actors
  <2>3. late' \in [Drives -> 0..2]
    BY <1>33 DEF DriveResumed, TypeInv, TypeOK
  <2> QED
    BY <1>33, <1>a, <2>1, <2>2, <2>3
    DEF DriveResumed, TypeInv, TypeOK, durable, process, counters, effects
<1>34. CASE ClaimLapses
    BY <1>34
    DEF ClaimLapses, TypeInv, TypeOK, InHand, process, counters, effects
<1>35. CASE Crash
  <2>1. crashes' \in 0..MaxCrashes
    BY <1>35, BoundsAssumption DEF Crash, BoundsAssumption, TypeInv, TypeOK
  <2>2. pc' \in [Actors -> PCs] /\ loc' \in [Drives -> Locs] /\ InHand'
    BY <1>35, IdleType DEF Crash, PCs, InHand, Actors
  <2>3. inherited' \subseteq Steps
    BY <1>35, <1>a DEF Crash, Views
  <2>4. lock' \in [Stores -> Drives \cup {NoDrive}]
    BY <1>35 DEF Crash
  <2> QED
    BY <1>35, <1>a, <2>1, <2>2, <2>3, <2>4 DEF Crash, TypeInv, TypeOK, durable
<1>36. CASE UNCHANGED vars
    BY <1>36
    DEF vars, durable, process, counters, effects, TypeInv, TypeOK, InHand
<1> QED
    BY <1>1, <1>2, <1>3, <1>4, <1>5, <1>6, <1>7, <1>8, <1>9, <1>10, <1>11,
       <1>12, <1>13, <1>14, <1>15, <1>16, <1>17, <1>18, <1>19, <1>20, <1>21,
       <1>22, <1>23, <1>24, <1>25, <1>26, <1>27, <1>28, <1>29, <1>30, <1>31,
       <1>32, <1>33, <1>34, <1>35, <1>36
    DEF Next, DriveStep, FinalizeStep, ClientStep

LEMMA InitType == Init => TypeInv
<1> SUFFICES ASSUME Init PROVE TypeInv
    OBVIOUS
<1>1. EmptyView \in Views
    BY DEF EmptyView, Views, Statuses
<1>2. pc \in [Actors -> PCs] /\ loc \in [Drives -> Locs] /\ InHand
    BY IdleType DEF Init, PCs, InHand, Actors
<1>3. lock \in [Stores -> Drives \cup {NoDrive}] /\ late \in [Drives -> 0..2]
    BY DEF Init
<1>4. calls \in 0..MaxCalls /\ crashes \in 0..MaxCrashes
    BY BoundsAssumption DEF Init, BoundsAssumption
<1> QED
    BY <1>1, <1>2, <1>3, <1>4 DEF Init, TypeInv, TypeOK

\* Every state of the run is well typed, and a drive that asks for, invokes,
\* performs or settles a step has one in hand.
THEOREM TypeCorrect == Spec => []TypeOK
<1>1. TypeInv => TypeOK
    BY DEF TypeInv
<1> QED
    BY <1>1, InitType, TypeInductive, PTL DEF Spec

-----------------------------------------------------------------------------
(* Appends, field by field: a write to an ended stream changes nothing and *)
(* is lost, any other leaves the view with these fields.                   *)

Wrote(status, cancelReq, claim, invoked, settled, ended) ==
    IF streamClosed
    THEN lost' = TRUE /\ view' = view
    ELSE /\ lost' = lost
         /\ view'.status = status
         /\ view'.cancelReq = cancelReq
         /\ view'.claim = claim
         /\ view'.invoked = invoked
         /\ view'.settled = settled
         /\ view'.ended = ended

LEMMA WriteStarted ==
    ASSUME view \in Views, Write(RunStarted)
    PROVE  Wrote("running", view.cancelReq, view.claim,
                 view.invoked, view.settled, view.ended)
BY DEF Write, Wrote, FoldEntry, NextStatus, RunStarted, Views

LEMMA WritePaused ==
    ASSUME view \in Views, Write(RunPaused)
    PROVE  Wrote("paused", view.cancelReq, view.claim,
                 view.invoked, view.settled, view.ended)
BY DEF Write, Wrote, FoldEntry, NextStatus, RunPaused, Views

LEMMA WriteResumed ==
    ASSUME view \in Views, Write(RunResumed)
    PROVE  Wrote("running", view.cancelReq, view.claim,
                 view.invoked, view.settled, view.ended)
BY DEF Write, Wrote, FoldEntry, NextStatus, RunResumed, Views

LEMMA WriteNarrative ==
    ASSUME view \in Views, Write(Narrative)
    PROVE  Wrote(view.status, view.cancelReq, view.claim,
                 view.invoked, view.settled, view.ended)
BY DEF Write, Wrote, FoldEntry, NextStatus, Narrative, Views

LEMMA WriteCancel ==
    ASSUME view \in Views, Write(CancellationRequested)
    PROVE  Wrote(view.status, TRUE, view.claim,
                 view.invoked, view.settled, view.ended)
BY DEF Write, Wrote, FoldEntry, CancellationRequested, Views

LEMMA WriteFinished ==
    ASSUME view \in Views, NEW t, Write(RunFinished(t))
    PROVE  Wrote(t, view.cancelReq, view.claim,
                 view.invoked, view.settled, TRUE)
BY DEF Write, Wrote, FoldEntry, NextStatus, RunFinished, Views

LEMMA WriteInvoked ==
    ASSUME view \in Views, NEW s, Write(ToolInvoked(s))
    PROVE  Wrote(view.status, view.cancelReq, view.claim,
                 view.invoked \cup {s}, view.settled, view.ended)
BY DEF Write, Wrote, FoldEntry, ToolInvoked, Views

LEMMA WriteSettled ==
    ASSUME view \in Views, NEW s, Write(ToolSettled(s))
    PROVE  Wrote(view.status, view.cancelReq, view.claim,
                 view.invoked, view.settled \cup {s}, view.ended)
BY DEF Write, Wrote, FoldEntry, ToolSettled, Views

LEMMA WriteClaimed ==
    ASSUME view \in Views, NEW d, Write(DriveClaimed(d))
    PROVE  Wrote(view.status, view.cancelReq, d,
                 view.invoked, view.settled, view.ended)
BY DEF Write, Wrote, FoldEntry, DriveClaimed, Views

LEMMA WriteReleased ==
    ASSUME view \in Views, NEW d, Write(DriveReleased(d))
    PROVE  Wrote(view.status, view.cancelReq, AfterRelease(view.claim, d),
                 view.invoked, view.settled, view.ended)
BY DEF Write, Wrote, FoldEntry, DriveReleased, Views

-----------------------------------------------------------------------------
(* Stopping.                                                               *)

\* A drive that has not yet written the invocation it was admitted to has
\* invoked nothing since the stop, and whoever did sees the stop still.
StopInv ==
    \A x \in Drives :
        /\ pc[x] = "invoke" => late[x] = 0
        /\ late[x] <= 1
        /\ late[x] > 0 => Stopped

LEMMA StopInductive == TypeInv /\ StopInv /\ [Next]_vars => StopInv'
<1> SUFFICES ASSUME TypeInv, StopInv, [Next]_vars PROVE StopInv'
    OBVIOUS
<1>a. /\ pc \in [Actors -> PCs] /\ late \in [Drives -> 0..2] /\ view \in Views
      /\ loc \in [Drives -> Locs]
    BY DEF TypeInv, TypeOK
<1>1. ASSUME NEW d \in Drives, DriveRequested(d) PROVE StopInv'
    BY <1>1, <1>a, ActorsAssumption
    DEF DriveRequested, BeginDrive, At, Goto, StopInv, Stopped, IsTerminal,
        Actors, durable, process, counters, effects
<1>2. ASSUME NEW d \in Drives, Sweep(d) PROVE StopInv'
    BY <1>2, <1>a, ActorsAssumption
    DEF Sweep, BeginDrive, At, Goto, StopInv, Stopped, IsTerminal, Actors,
        durable, process, counters, effects
<1>3. ASSUME NEW d \in Drives, PrepareFails(d) PROVE StopInv'
    BY <1>3, <1>a, ActorsAssumption
    DEF PrepareFails, FailUnclaimed, At, Goto, StopInv, Stopped, IsTerminal,
        Actors, durable, process, counters, effects
<1>4. ASSUME NEW d \in Drives, ReadResume(d) PROVE StopInv'
    BY <1>4, <1>a, ActorsAssumption
    DEF ReadResume, FailUnclaimed, Quit, At, Goto, StopInv, Stopped,
        IsTerminal, Actors, durable, process, counters, effects
<1>5. ASSUME NEW d \in Drives, CheckActive(d) PROVE StopInv'
    BY <1>5, <1>a, ActorsAssumption
    DEF CheckActive, Quit, At, Goto, StopInv, Stopped, IsTerminal, Actors,
        durable, process, counters, effects
<1>6. ASSUME NEW d \in Drives, ReadClaim(d) PROVE StopInv'
    BY <1>6, <1>a, ActorsAssumption
    DEF ReadClaim, Quit, ClaimLive, At, Goto, StopInv, Stopped, IsTerminal,
        Actors, durable, process, counters, effects
<1>7. ASSUME NEW d \in Drives, AppendClaim(d) PROVE StopInv'
  <2>1. view'.status = view.status /\ view'.cancelReq = view.cancelReq
    BY <1>7, <1>a, WriteClaimed DEF AppendClaim, Wrote, durable
  <2> QED
    BY <1>7, <1>a, <2>1, ActorsAssumption
    DEF AppendClaim, FailUnclaimed, At, Goto, StopInv, Stopped, IsTerminal,
        Actors, durable, process, counters, effects
<1>8. ASSUME NEW d \in Drives, Start(d) PROVE StopInv'
    BY <1>8, <1>a, ActorsAssumption
    DEF Start, Leave, At, Goto, StopInv, Stopped, IsTerminal, Actors, durable,
        process, counters, effects
<1>9. ASSUME NEW d \in Drives, AppendStarted(d) PROVE StopInv'
  <2>1. view'.cancelReq = view.cancelReq /\ (Refused(d) => view' = view)
    BY <1>9, <1>a, WriteStarted DEF AppendStarted, Answered, Wrote, durable
  <2> QED
    BY <1>9, <1>a, <2>1, ActorsAssumption
    DEF AppendStarted, Answered, Leave, At, Goto, StopInv, Stopped, IsTerminal,
        Actors,
        durable, process, counters, effects
<1>10. ASSUME NEW d \in Drives, RecordDriver(d) PROVE StopInv'
  <2>1. view'.status = view.status /\ view'.cancelReq = view.cancelReq
    BY <1>10, <1>a, WriteNarrative DEF RecordDriver, Wrote
  <2> QED
    BY <1>10, <1>a, <2>1, ActorsAssumption
    DEF RecordDriver, Leave, At, Goto, StopInv, Stopped, IsTerminal, Actors,
        durable, process, counters, effects
<1>11. ASSUME NEW d \in Drives, BetweenTurns(d) PROVE StopInv'
    BY <1>11, <1>a, ActorsAssumption
    DEF BetweenTurns, Leave, MovesLeft, At, Goto, StopInv, Stopped,
        IsTerminal, Actors, durable, process, counters, effects
<1>12. ASSUME NEW d \in Drives, ModelTurn(d) PROVE StopInv'
    BY <1>12, <1>a, ActorsAssumption
    DEF ModelTurn, Leave, MovesLeft, At, Goto, StopInv, Stopped, IsTerminal,
        Actors, durable, process, counters, effects
<1>13. ASSUME NEW d \in Drives, ReadStep(d) PROVE StopInv'
  <2> SUFFICES ASSUME NEW x \in Drives
               PROVE  /\ pc'[x] = "invoke" => late'[x] = 0
                      /\ late'[x] <= 1
                      /\ late'[x] > 0 => Stopped'
    BY DEF StopInv
  <2>1. UNCHANGED <<view, late>>
    BY <1>13 DEF ReadStep, durable
  <2>2. pc'[x] = "invoke" => pc[x] = "invoke" \/ StepAdmitted
    BY <1>13, <1>a DEF ReadStep, Leave, Goto, Actors
  <2>3. StepAdmitted => ~Stopped
    BY DEF StepAdmitted, Stopped, IsTerminal
  <2> QED
    BY <1>a, <2>1, <2>2, <2>3 DEF StopInv, Stopped, IsTerminal
<1>14. ASSUME NEW d \in Drives, AppendInvoked(d) PROVE StopInv'
  <2>1. view'.status = view.status /\ view'.cancelReq = view.cancelReq
    BY <1>14, <1>a, WriteInvoked DEF AppendInvoked, Answered, Wrote
  <2> QED
    BY <1>14, <1>a, <2>1, ActorsAssumption
    DEF AppendInvoked, Answered, Leave, At, Goto, StopInv, Stopped, IsTerminal,
        Actors,
        durable, process, counters, effects
<1>15. ASSUME NEW d \in Drives, BeginExecution(d) PROVE StopInv'
    BY <1>15, <1>a, ActorsAssumption
    DEF BeginExecution, At, Goto, StopInv, Stopped, IsTerminal, Actors,
        durable, process, counters, effects
<1>16. ASSUME NEW d \in Drives, EndExecution(d) PROVE StopInv'
    BY <1>16, <1>a, ActorsAssumption
    DEF EndExecution, Leave, At, Goto, StopInv, Stopped, IsTerminal, Actors,
        durable, process, counters, effects
<1>17. ASSUME NEW d \in Drives, AppendSettled(d) PROVE StopInv'
  <2>1. view'.status = view.status /\ view'.cancelReq = view.cancelReq
    BY <1>17, <1>a, WriteSettled DEF AppendSettled, Answered, Wrote
  <2> QED
    BY <1>17, <1>a, <2>1, ActorsAssumption
    DEF AppendSettled, Answered, Leave, At, Goto, StopInv, Stopped, IsTerminal,
        Actors,
        durable, process, counters, effects
<1>18. ASSUME NEW d \in Drives, Conclude(d) PROVE StopInv'
    BY <1>18, <1>a, ActorsAssumption
    DEF Conclude, Leave, At, Goto, StopInv, Stopped, IsTerminal, Actors,
        durable, process, counters, effects
<1>19. ASSUME NEW d \in Drives, ReadFinish(d) PROVE StopInv'
    BY <1>19, <1>a, ActorsAssumption
    DEF ReadFinish, HandBack, Live, At, Goto, Quit, Leave, StopInv, Stopped,
        IsTerminal, Actors, durable, process, counters, effects
<1>20. ASSUME NEW d \in Drives, ReleaseActive(d) PROVE StopInv'
    BY <1>20, <1>a, ActorsAssumption
    DEF ReleaseActive, Quit, At, Goto, StopInv, Stopped, IsTerminal, Actors,
        durable, process, counters, effects
<1>21. ASSUME NEW d \in Drives, AppendReleased(d) PROVE StopInv'
  <2>1. view'.status = view.status /\ view'.cancelReq = view.cancelReq
    BY <1>21, <1>a, WriteReleased DEF AppendReleased, Wrote
  <2> QED
    BY <1>21, <1>a, <2>1, ActorsAssumption
    DEF AppendReleased, Quit, At, Goto, StopInv, Stopped, IsTerminal, Actors,
        durable, process, counters, effects
<1>22. ASSUME NEW a \in Actors, AppendFinished(a) PROVE StopInv'
  <2>1. Ending(a) \in TerminalStatuses
    BY <1>a, EndingType DEF Ending, Actors, TerminalStatuses
  <2>2. /\ view'.cancelReq = view.cancelReq
        /\ view'.status \in {view.status} \cup TerminalStatuses
    BY <1>22, <1>a, WriteFinished, <2>1 DEF AppendFinished, Answered, Wrote
  <2> QED
    BY <1>22, <1>a, <2>2, ActorsAssumption
    DEF AppendFinished, Answered, HandBack, Ending, At, Goto, Quit, Leave,
        StopInv,
        Stopped, IsTerminal, Actors, durable, process, counters, effects,
        TerminalStatuses
<1>23. ASSUME NEW a \in Actors, MarkClosed(a) PROVE StopInv'
    BY <1>23, <1>a, ActorsAssumption
    DEF MarkClosed, Live, At, Goto, StopInv, Stopped, IsTerminal, Actors,
        durable, process, counters, effects
<1>24. ASSUME NEW a \in Actors, CloseStream(a) PROVE StopInv'
    BY <1>24, <1>a, ActorsAssumption
    DEF CloseStream, HandBack, At, Quit, Leave, Goto, StopInv, Stopped,
        IsTerminal, Actors, durable, process, counters, effects
<1>25. ASSUME NEW c \in Clients, Request(c) PROVE StopInv'
    BY <1>25, <1>a, ActorsAssumption
    DEF Request, ReadLabel, At, Goto, StopInv, Stopped, IsTerminal, Actors,
        durable, process, counters, effects
<1>26. ASSUME NEW c \in Clients, ReadPause(c) PROVE StopInv'
    BY <1>26, <1>a, ActorsAssumption
    DEF ReadPause, At, Goto, StopInv, Stopped, IsTerminal, Actors, durable,
        process, counters, effects
<1>27. ASSUME NEW c \in Clients, AppendPaused(c) PROVE StopInv'
  <2>1. view'.cancelReq = view.cancelReq /\ view'.status \in {view.status, "paused"}
    BY <1>27, <1>a, WritePaused DEF AppendPaused, Answered, Wrote
  <2> QED
    BY <1>27, <1>a, <2>1, ActorsAssumption
    DEF AppendPaused, Answered, At, Goto, StopInv, Stopped, IsTerminal, Actors,
        durable,
        process, counters, effects
<1>28. ASSUME NEW c \in Clients, ReadUnpause(c) PROVE StopInv'
    BY <1>28, <1>a, ActorsAssumption
    DEF ReadUnpause, At, Goto, StopInv, Stopped, IsTerminal, Actors, durable,
        process, counters, effects
<1>29. ASSUME NEW c \in Clients, AppendResumed(c) PROVE StopInv'
  <2>1. view'.cancelReq = view.cancelReq /\ (Refused(c) => view' = view)
    BY <1>29, <1>a, WriteResumed DEF AppendResumed, Answered, Wrote
  <2> QED
    BY <1>29, <1>a, <2>1, ActorsAssumption
    DEF AppendResumed, Answered, At, Goto, StopInv, Stopped, IsTerminal, Actors,
        durable, process, counters, effects
<1>30. ASSUME NEW c \in Clients, ResumeAnswered(c) PROVE StopInv'
    BY <1>30, <1>a, ActorsAssumption
    DEF ResumeAnswered, At, Goto, StopInv, Stopped, IsTerminal, Actors,
        durable, process, counters, effects
<1>31. ASSUME NEW c \in Clients, ReadCancel(c) PROVE StopInv'
    BY <1>31, <1>a, ActorsAssumption
    DEF ReadCancel, Live, At, Goto, StopInv, Stopped, IsTerminal, Actors,
        durable, process, counters, effects
<1>32. ASSUME NEW c \in Clients, AppendCancel(c) PROVE StopInv'
  <2>1. view'.status = view.status /\ (view.cancelReq => view'.cancelReq)
    BY <1>32, <1>a, WriteCancel DEF AppendCancel, Answered, Wrote
  <2> QED
    BY <1>32, <1>a, <2>1, ActorsAssumption
    DEF AppendCancel, Answered, At, Goto, StopInv, Stopped, IsTerminal, Actors,
        durable,
        process, counters, effects
<1>33. ASSUME NEW c \in Clients, NEW d \in Drives, DriveResumed(c, d) PROVE StopInv'
    BY <1>33, <1>a, ActorsAssumption
    DEF DriveResumed, At, StopInv, Stopped, IsTerminal, Goto, Actors, durable,
        process, counters, effects
<1>34. CASE ClaimLapses
    BY <1>34, <1>a, ActorsAssumption
    DEF ClaimLapses, ClaimLive, At, StopInv, Stopped, IsTerminal, Goto,
        Actors, durable, process, counters, effects
<1>35. CASE Crash
    BY <1>35, <1>a, ActorsAssumption
    DEF Crash, StopInv, Stopped, IsTerminal, At, Goto, Actors, durable,
        process, counters, effects
<1>36. CASE UNCHANGED vars
    BY <1>36
    DEF vars, StopInv, Stopped, IsTerminal, At, Goto, Actors, durable,
        process, counters, effects
<1> QED
    BY <1>1, <1>2, <1>3, <1>4, <1>5, <1>6, <1>7, <1>8, <1>9, <1>10, <1>11,
       <1>12, <1>13, <1>14, <1>15, <1>16, <1>17, <1>18, <1>19, <1>20, <1>21,
       <1>22, <1>23, <1>24, <1>25, <1>26, <1>27, <1>28, <1>29, <1>30, <1>31,
       <1>32, <1>33, <1>34, <1>35, <1>36
    DEF Next, DriveStep, FinalizeStep, ClientStep

\* A stop lets each drive invoke at most the one step whose checkpoint it had
\* passed (runStep, the read between turns), whichever stores the drives have.
THEOREM StopTheorem == Spec => []StopIsHonoured
<1>1. Init => StopInv
    BY DEF Init, StopInv
<1>2. StopInv => StopIsHonoured
    BY DEF StopInv, StopIsHonoured
<1>3. Init => TypeInv
    BY InitType
<1> QED
    BY <1>1, <1>2, <1>3, TypeInductive, StopInductive, PTL DEF Spec

-----------------------------------------------------------------------------
(* Restarting.                                                             *)

\* What a process found on the ledger stays there, and nothing of it is in
\* hand for the database.
RestartInv == inherited \subseteq view.invoked /\ NoRepeatAfterRestart

LEMMA RestartInductive == TypeInv /\ RestartInv /\ [Next]_vars => RestartInv'
<1> SUFFICES ASSUME TypeInv, RestartInv, [Next]_vars PROVE RestartInv'
    OBVIOUS
<1>a. /\ pc \in [Actors -> PCs] /\ loc \in [Drives -> Locs] /\ view \in Views
    BY DEF TypeInv, TypeOK
<1>1. ASSUME NEW d \in Drives, DriveRequested(d) PROVE RestartInv'
    BY <1>1, <1>a, ActorsAssumption
    DEF DriveRequested, BeginDrive, At, Goto, RestartInv,
        NoRepeatAfterRestart, Actors, durable, process, counters, effects,
        Locs, IdleLoc
<1>2. ASSUME NEW d \in Drives, Sweep(d) PROVE RestartInv'
    BY <1>2, <1>a, ActorsAssumption
    DEF Sweep, BeginDrive, At, Goto, RestartInv, NoRepeatAfterRestart, Actors,
        durable, process, counters, effects, Locs, IdleLoc
<1>3. ASSUME NEW d \in Drives, PrepareFails(d) PROVE RestartInv'
    BY <1>3, <1>a, ActorsAssumption
    DEF PrepareFails, FailUnclaimed, At, Goto, RestartInv,
        NoRepeatAfterRestart, Actors, durable, process, counters, effects,
        Locs, IdleLoc
<1>4. ASSUME NEW d \in Drives, ReadResume(d) PROVE RestartInv'
    BY <1>4, <1>a, ActorsAssumption
    DEF ReadResume, FailUnclaimed, Quit, At, Goto, RestartInv,
        NoRepeatAfterRestart, Actors, durable, process, counters, effects,
        Locs, IdleLoc
<1>5. ASSUME NEW d \in Drives, CheckActive(d) PROVE RestartInv'
    BY <1>5, <1>a, ActorsAssumption
    DEF CheckActive, Quit, At, Goto, RestartInv, NoRepeatAfterRestart, Actors,
        durable, process, counters, effects, Locs, IdleLoc
<1>6. ASSUME NEW d \in Drives, ReadClaim(d) PROVE RestartInv'
    BY <1>6, <1>a, ActorsAssumption
    DEF ReadClaim, Quit, ClaimLive, At, Goto, RestartInv,
        NoRepeatAfterRestart, Actors, durable, process, counters, effects,
        Locs, IdleLoc
<1>7. ASSUME NEW d \in Drives, AppendClaim(d) PROVE RestartInv'
  <2>1. view.invoked \subseteq view'.invoked
    BY <1>7, <1>a, WriteClaimed DEF AppendClaim, Wrote, durable
  <2> QED
    BY <1>7, <1>a, <2>1, ActorsAssumption
    DEF AppendClaim, FailUnclaimed, At, Goto, RestartInv,
        NoRepeatAfterRestart, Actors, durable, process, counters, effects,
        Locs, IdleLoc
<1>8. ASSUME NEW d \in Drives, Start(d) PROVE RestartInv'
    BY <1>8, <1>a, ActorsAssumption
    DEF Start, Leave, At, Goto, RestartInv, NoRepeatAfterRestart, Actors,
        durable, process, counters, effects, Locs, IdleLoc
<1>9. ASSUME NEW d \in Drives, AppendStarted(d) PROVE RestartInv'
  <2>1. view.invoked \subseteq view'.invoked
    BY <1>9, <1>a, WriteStarted DEF AppendStarted, Answered, Wrote, durable
  <2> QED
    BY <1>9, <1>a, <2>1, ActorsAssumption
    DEF AppendStarted, Answered, Leave, At, Goto, RestartInv,
        NoRepeatAfterRestart,
        Actors, durable, process, counters, effects, Locs, IdleLoc
<1>10. ASSUME NEW d \in Drives, RecordDriver(d) PROVE RestartInv'
  <2>1. view.invoked \subseteq view'.invoked
    BY <1>10, <1>a, WriteNarrative DEF RecordDriver, Wrote
  <2> QED
    BY <1>10, <1>a, <2>1, ActorsAssumption
    DEF RecordDriver, Leave, At, Goto, RestartInv, NoRepeatAfterRestart,
        Actors, durable, process, counters, effects, Locs, IdleLoc
<1>11. ASSUME NEW d \in Drives, BetweenTurns(d) PROVE RestartInv'
    BY <1>11, <1>a, ActorsAssumption
    DEF BetweenTurns, Leave, MovesLeft, At, Goto, RestartInv,
        NoRepeatAfterRestart, Actors, durable, process, counters, effects,
        Locs, IdleLoc
<1>12. ASSUME NEW d \in Drives, ModelTurn(d) PROVE RestartInv'
    BY <1>12, <1>a, ActorsAssumption
    DEF ModelTurn, Leave, MovesLeft, At, Goto, RestartInv,
        NoRepeatAfterRestart, Actors, durable, process, counters, effects,
        Locs, IdleLoc
<1>13. ASSUME NEW d \in Drives, ReadStep(d) PROVE RestartInv'
  <2>1. UNCHANGED <<view, inherited>>
    BY <1>13 DEF ReadStep, durable, effects
  <2>2. ASSUME NEW x \in Drives, pc'[x] \in {"invoke", "invoked", "executing"}
        PROVE  loc'[x].at \notin inherited
    <3>1. \/ pc[x] \in {"invoke", "invoked", "executing"} /\ loc'[x].at = loc[x].at
          \/ loc'[x].at \notin view.settled \cup Unsettled(view)
      BY <1>13, <1>a, <2>2 DEF ReadStep, Leave, At, Goto, Actors, Locs
    <3> QED
      BY <3>1 DEF RestartInv, NoRepeatAfterRestart, Unsettled
  <2> QED
    BY <2>1, <2>2 DEF RestartInv, NoRepeatAfterRestart
<1>14. ASSUME NEW d \in Drives, AppendInvoked(d) PROVE RestartInv'
  <2>1. view.invoked \subseteq view'.invoked
    BY <1>14, <1>a, WriteInvoked DEF AppendInvoked, Answered, Wrote
  <2> QED
    BY <1>14, <1>a, <2>1, ActorsAssumption
    DEF AppendInvoked, Answered, Leave, At, Goto, RestartInv,
        NoRepeatAfterRestart,
        Actors, durable, process, counters, effects, Locs, IdleLoc
<1>15. ASSUME NEW d \in Drives, BeginExecution(d) PROVE RestartInv'
    BY <1>15, <1>a, ActorsAssumption
    DEF BeginExecution, At, Goto, RestartInv, NoRepeatAfterRestart, Actors,
        durable, process, counters, effects, Locs, IdleLoc
<1>16. ASSUME NEW d \in Drives, EndExecution(d) PROVE RestartInv'
    BY <1>16, <1>a, ActorsAssumption
    DEF EndExecution, Leave, At, Goto, RestartInv, NoRepeatAfterRestart,
        Actors, durable, process, counters, effects, Locs, IdleLoc
<1>17. ASSUME NEW d \in Drives, AppendSettled(d) PROVE RestartInv'
  <2>1. view.invoked \subseteq view'.invoked
    BY <1>17, <1>a, WriteSettled DEF AppendSettled, Answered, Wrote
  <2> QED
    BY <1>17, <1>a, <2>1, ActorsAssumption
    DEF AppendSettled, Answered, Leave, At, Goto, RestartInv,
        NoRepeatAfterRestart,
        Actors, durable, process, counters, effects, Locs, IdleLoc
<1>18. ASSUME NEW d \in Drives, Conclude(d) PROVE RestartInv'
    BY <1>18, <1>a, ActorsAssumption
    DEF Conclude, Leave, At, Goto, RestartInv, NoRepeatAfterRestart, Actors,
        durable, process, counters, effects, Locs, IdleLoc
<1>19. ASSUME NEW d \in Drives, ReadFinish(d) PROVE RestartInv'
    BY <1>19, <1>a, ActorsAssumption
    DEF ReadFinish, HandBack, Live, At, Goto, Quit, Leave, RestartInv,
        NoRepeatAfterRestart, Actors, durable, process, counters, effects,
        Locs, IdleLoc
<1>20. ASSUME NEW d \in Drives, ReleaseActive(d) PROVE RestartInv'
    BY <1>20, <1>a, ActorsAssumption
    DEF ReleaseActive, Quit, At, Goto, RestartInv, NoRepeatAfterRestart,
        Actors, durable, process, counters, effects, Locs, IdleLoc
<1>21. ASSUME NEW d \in Drives, AppendReleased(d) PROVE RestartInv'
  <2>1. view.invoked \subseteq view'.invoked
    BY <1>21, <1>a, WriteReleased DEF AppendReleased, Wrote
  <2> QED
    BY <1>21, <1>a, <2>1, ActorsAssumption
    DEF AppendReleased, Quit, At, Goto, RestartInv, NoRepeatAfterRestart,
        Actors, durable, process, counters, effects, Locs, IdleLoc
<1>22. ASSUME NEW a \in Actors, AppendFinished(a) PROVE RestartInv'
  <2>1. view.invoked \subseteq view'.invoked
    BY <1>22, <1>a, WriteFinished DEF AppendFinished, Answered, Wrote
  <2> QED
    BY <1>22, <1>a, <2>1, ActorsAssumption
    DEF AppendFinished, Answered, HandBack, Ending, At, Goto, Quit, Leave,
        RestartInv,
        NoRepeatAfterRestart, Actors, durable, process, counters, effects,
        Locs, IdleLoc
<1>23. ASSUME NEW a \in Actors, MarkClosed(a) PROVE RestartInv'
    BY <1>23, <1>a, ActorsAssumption
    DEF MarkClosed, Live, At, Goto, RestartInv, NoRepeatAfterRestart, Actors,
        durable, process, counters, effects, Locs, IdleLoc
<1>24. ASSUME NEW a \in Actors, CloseStream(a) PROVE RestartInv'
    BY <1>24, <1>a, ActorsAssumption
    DEF CloseStream, HandBack, At, Quit, Leave, Goto, RestartInv,
        NoRepeatAfterRestart, Actors, durable, process, counters, effects,
        Locs, IdleLoc
<1>25. ASSUME NEW c \in Clients, Request(c) PROVE RestartInv'
    BY <1>25, <1>a, ActorsAssumption
    DEF Request, ReadLabel, At, Goto, RestartInv, NoRepeatAfterRestart,
        Actors, durable, process, counters, effects, Locs, IdleLoc
<1>26. ASSUME NEW c \in Clients, ReadPause(c) PROVE RestartInv'
    BY <1>26, <1>a, ActorsAssumption
    DEF ReadPause, At, Goto, RestartInv, NoRepeatAfterRestart, Actors,
        durable, process, counters, effects, Locs, IdleLoc
<1>27. ASSUME NEW c \in Clients, AppendPaused(c) PROVE RestartInv'
  <2>1. view.invoked \subseteq view'.invoked
    BY <1>27, <1>a, WritePaused DEF AppendPaused, Answered, Wrote
  <2> QED
    BY <1>27, <1>a, <2>1, ActorsAssumption
    DEF AppendPaused, Answered, At, Goto, RestartInv, NoRepeatAfterRestart,
        Actors,
        durable, process, counters, effects, Locs, IdleLoc
<1>28. ASSUME NEW c \in Clients, ReadUnpause(c) PROVE RestartInv'
    BY <1>28, <1>a, ActorsAssumption
    DEF ReadUnpause, At, Goto, RestartInv, NoRepeatAfterRestart, Actors,
        durable, process, counters, effects, Locs, IdleLoc
<1>29. ASSUME NEW c \in Clients, AppendResumed(c) PROVE RestartInv'
  <2>1. view.invoked \subseteq view'.invoked
    BY <1>29, <1>a, WriteResumed DEF AppendResumed, Answered, Wrote
  <2> QED
    BY <1>29, <1>a, <2>1, ActorsAssumption
    DEF AppendResumed, Answered, At, Goto, RestartInv, NoRepeatAfterRestart,
        Actors,
        durable, process, counters, effects, Locs, IdleLoc
<1>30. ASSUME NEW c \in Clients, ResumeAnswered(c) PROVE RestartInv'
    BY <1>30, <1>a, ActorsAssumption
    DEF ResumeAnswered, At, Goto, RestartInv, NoRepeatAfterRestart, Actors,
        durable, process, counters, effects, Locs, IdleLoc
<1>31. ASSUME NEW c \in Clients, ReadCancel(c) PROVE RestartInv'
    BY <1>31, <1>a, ActorsAssumption
    DEF ReadCancel, Live, At, Goto, RestartInv, NoRepeatAfterRestart, Actors,
        durable, process, counters, effects, Locs, IdleLoc
<1>32. ASSUME NEW c \in Clients, AppendCancel(c) PROVE RestartInv'
  <2>1. view.invoked \subseteq view'.invoked
    BY <1>32, <1>a, WriteCancel DEF AppendCancel, Answered, Wrote
  <2> QED
    BY <1>32, <1>a, <2>1, ActorsAssumption
    DEF AppendCancel, Answered, At, Goto, RestartInv, NoRepeatAfterRestart,
        Actors,
        durable, process, counters, effects, Locs, IdleLoc
<1>33. ASSUME NEW c \in Clients, NEW d \in Drives, DriveResumed(c, d) PROVE RestartInv'
    BY <1>33, <1>a, ActorsAssumption
    DEF DriveResumed, At, RestartInv, NoRepeatAfterRestart, Goto, Actors,
        durable, process, counters, effects, Locs, IdleLoc
<1>34. CASE ClaimLapses
    BY <1>34, <1>a, ActorsAssumption
    DEF ClaimLapses, ClaimLive, At, RestartInv, NoRepeatAfterRestart, Goto,
        Actors, durable, process, counters, effects, Locs, IdleLoc
<1>35. CASE Crash
    BY <1>35, <1>a, ActorsAssumption
    DEF Crash, RestartInv, NoRepeatAfterRestart, At, Goto, Actors, durable,
        process, counters, effects, Locs, IdleLoc
<1>36. CASE UNCHANGED vars
    BY <1>36
    DEF vars, RestartInv, NoRepeatAfterRestart, At, Goto, Actors, durable,
        process, counters, effects, Locs, IdleLoc
<1> QED
    BY <1>1, <1>2, <1>3, <1>4, <1>5, <1>6, <1>7, <1>8, <1>9, <1>10, <1>11,
       <1>12, <1>13, <1>14, <1>15, <1>16, <1>17, <1>18, <1>19, <1>20, <1>21,
       <1>22, <1>23, <1>24, <1>25, <1>26, <1>27, <1>28, <1>29, <1>30, <1>31,
       <1>32, <1>33, <1>34, <1>35, <1>36
    DEF Next, DriveStep, FinalizeStep, ClientStep

\* A step whose invocation a process finds on the ledger is never invoked or
\* run by that process, whichever stores the drives have (runStep).
THEOREM RestartTheorem == Spec => []NoRepeatAfterRestart
<1>1. Init => RestartInv
    BY DEF Init, RestartInv, NoRepeatAfterRestart, Actors
<1>2. RestartInv => NoRepeatAfterRestart
    BY DEF RestartInv
<1> QED
    BY <1>1, <1>2, InitType, TypeInductive, RestartInductive, PTL DEF Spec

-----------------------------------------------------------------------------
(* Queued runs.                                                            *)

\* While a run reads queued no drive is past its start, whoever is before it
\* will start the run, and nobody has written its end.
QueueInv ==
    view.status = "queued" =>
        /\ done = {} /\ ~streamClosed
        /\ \A x \in Drives :
              /\ pc[x] \notin {"driver", "loop", "turn", "step", "invoke", "invoked",
                               "executing", "settle"}
              /\ pc[x] \in {"check", "claim", "claimAppend", "start", "startAppend"} =>
                    loc[x].fresh
        /\ \A a \in Actors : pc[a] \notin {"closing", "eof", "eofThrow"}

LEMMA QueueInductive == TypeInv /\ QueueInv /\ [Next]_vars => QueueInv'
<1> SUFFICES ASSUME TypeInv, QueueInv, [Next]_vars PROVE QueueInv'
    OBVIOUS
<1>a. /\ pc \in [Actors -> PCs] /\ loc \in [Drives -> Locs] /\ view \in Views
    BY DEF TypeInv, TypeOK
<1>1. ASSUME NEW d \in Drives, DriveRequested(d) PROVE QueueInv'
    BY <1>1, <1>a, ActorsAssumption
    DEF DriveRequested, BeginDrive, At, Goto, QueueInv, Actors, durable,
        process, counters, effects, Locs, IdleLoc
<1>2. ASSUME NEW d \in Drives, Sweep(d) PROVE QueueInv'
    BY <1>2, <1>a, ActorsAssumption
    DEF Sweep, BeginDrive, At, Goto, QueueInv, Actors, durable, process,
        counters, effects, Locs, IdleLoc
<1>3. ASSUME NEW d \in Drives, PrepareFails(d) PROVE QueueInv'
    BY <1>3, <1>a, ActorsAssumption
    DEF PrepareFails, FailUnclaimed, At, Goto, QueueInv, Actors, durable,
        process, counters, effects, Locs, IdleLoc
<1>4. ASSUME NEW d \in Drives, ReadResume(d) PROVE QueueInv'
  <2>1. UNCHANGED <<view, streamClosed, done>>
    BY <1>4 DEF ReadResume, durable, effects
  <2>2. /\ pc'[d] \in {"failed", "off", "check"}
        /\ \A a \in Actors : a # d => pc'[a] = pc[a]
        /\ \A x \in Drives : x # d => loc'[x] = loc[x]
    BY <1>4, <1>a DEF ReadResume, FailUnclaimed, Quit, Goto, Actors
  <2>3. pc'[d] = "check" => loc' = [loc EXCEPT ![d].fresh = (view.status = "queued")]
    BY <1>4, <1>a DEF ReadResume, FailUnclaimed, Quit, Goto, Actors
  <2>4. pc'[d] = "check" /\ view.status = "queued" => loc'[d].fresh
    BY <2>3, <1>a DEF Locs
  <2> QED
    BY <2>1, <2>2, <2>4 DEF QueueInv, Actors
<1>5. ASSUME NEW d \in Drives, CheckActive(d) PROVE QueueInv'
    BY <1>5, <1>a, ActorsAssumption
    DEF CheckActive, Quit, At, Goto, QueueInv, Actors, durable, process,
        counters, effects, Locs, IdleLoc
<1>6. ASSUME NEW d \in Drives, ReadClaim(d) PROVE QueueInv'
    BY <1>6, <1>a, ActorsAssumption
    DEF ReadClaim, Quit, ClaimLive, At, Goto, QueueInv, Actors, durable,
        process, counters, effects, Locs, IdleLoc
<1>7. ASSUME NEW d \in Drives, AppendClaim(d) PROVE QueueInv'
  <2>1. view'.status = "queued" => view.status = "queued"
    BY <1>7, <1>a, WriteClaimed DEF AppendClaim, Wrote, durable
  <2> QED
    BY <1>7, <1>a, <2>1, ActorsAssumption
    DEF AppendClaim, FailUnclaimed, At, Goto, QueueInv, Actors, durable,
        process, counters, effects, Locs, IdleLoc
<1>8. ASSUME NEW d \in Drives, Start(d) PROVE QueueInv'
    BY <1>8, <1>a, ActorsAssumption
    DEF Start, Leave, At, Goto, QueueInv, Actors, durable, process, counters,
        effects, Locs, IdleLoc
<1>9. ASSUME NEW d \in Drives, AppendStarted(d) PROVE QueueInv'
  <2>1. /\ view'.status = "queued" => view.status = "queued"
        /\ ~Refused(d) /\ ~streamClosed => view'.status # "queued"
    BY <1>9, <1>a, WriteStarted DEF AppendStarted, Answered, Wrote, durable
  <2> QED
    BY <1>9, <1>a, <2>1, ActorsAssumption
    DEF AppendStarted, Answered, Leave, At, Goto, QueueInv, Actors, durable,
        process,
        counters, effects, Locs, IdleLoc
<1>10. ASSUME NEW d \in Drives, RecordDriver(d) PROVE QueueInv'
  <2>1. view'.status = "queued" => view.status = "queued"
    BY <1>10, <1>a, WriteNarrative DEF RecordDriver, Wrote
  <2> QED
    BY <1>10, <1>a, <2>1, ActorsAssumption
    DEF RecordDriver, Leave, At, Goto, QueueInv, Actors, durable, process,
        counters, effects, Locs, IdleLoc
<1>11. ASSUME NEW d \in Drives, BetweenTurns(d) PROVE QueueInv'
    BY <1>11, <1>a, ActorsAssumption
    DEF BetweenTurns, Leave, MovesLeft, At, Goto, QueueInv, Actors, durable,
        process, counters, effects, Locs, IdleLoc
<1>12. ASSUME NEW d \in Drives, ModelTurn(d) PROVE QueueInv'
    BY <1>12, <1>a, ActorsAssumption
    DEF ModelTurn, Leave, MovesLeft, At, Goto, QueueInv, Actors, durable,
        process, counters, effects, Locs, IdleLoc
<1>13. ASSUME NEW d \in Drives, ReadStep(d) PROVE QueueInv'
    BY <1>13, <1>a, ActorsAssumption
    DEF ReadStep, Leave, Live, At, Goto, QueueInv, Actors, durable, process,
        counters, effects, Locs, IdleLoc
<1>14. ASSUME NEW d \in Drives, AppendInvoked(d) PROVE QueueInv'
  <2>1. view'.status = "queued" => view.status = "queued"
    BY <1>14, <1>a, WriteInvoked DEF AppendInvoked, Answered, Wrote
  <2> QED
    BY <1>14, <1>a, <2>1, ActorsAssumption
    DEF AppendInvoked, Answered, Leave, At, Goto, QueueInv, Actors, durable,
        process,
        counters, effects, Locs, IdleLoc
<1>15. ASSUME NEW d \in Drives, BeginExecution(d) PROVE QueueInv'
    BY <1>15, <1>a, ActorsAssumption
    DEF BeginExecution, At, Goto, QueueInv, Actors, durable, process,
        counters, effects, Locs, IdleLoc
<1>16. ASSUME NEW d \in Drives, EndExecution(d) PROVE QueueInv'
    BY <1>16, <1>a, ActorsAssumption
    DEF EndExecution, Leave, At, Goto, QueueInv, Actors, durable, process,
        counters, effects, Locs, IdleLoc
<1>17. ASSUME NEW d \in Drives, AppendSettled(d) PROVE QueueInv'
  <2>1. view'.status = "queued" => view.status = "queued"
    BY <1>17, <1>a, WriteSettled DEF AppendSettled, Answered, Wrote
  <2> QED
    BY <1>17, <1>a, <2>1, ActorsAssumption
    DEF AppendSettled, Answered, Leave, At, Goto, QueueInv, Actors, durable,
        process,
        counters, effects, Locs, IdleLoc
<1>18. ASSUME NEW d \in Drives, Conclude(d) PROVE QueueInv'
    BY <1>18, <1>a, ActorsAssumption
    DEF Conclude, Leave, At, Goto, QueueInv, Actors, durable, process,
        counters, effects, Locs, IdleLoc
<1>19. ASSUME NEW d \in Drives, ReadFinish(d) PROVE QueueInv'
    BY <1>19, <1>a, ActorsAssumption
    DEF ReadFinish, HandBack, Live, At, Goto, Quit, Leave, QueueInv, Actors,
        durable, process, counters, effects, Locs, IdleLoc
<1>20. ASSUME NEW d \in Drives, ReleaseActive(d) PROVE QueueInv'
    BY <1>20, <1>a, ActorsAssumption
    DEF ReleaseActive, Quit, At, Goto, QueueInv, Actors, durable, process,
        counters, effects, Locs, IdleLoc
<1>21. ASSUME NEW d \in Drives, AppendReleased(d) PROVE QueueInv'
  <2>1. view'.status = "queued" => view.status = "queued"
    BY <1>21, <1>a, WriteReleased DEF AppendReleased, Wrote
  <2> QED
    BY <1>21, <1>a, <2>1, ActorsAssumption
    DEF AppendReleased, Quit, At, Goto, QueueInv, Actors, durable, process,
        counters, effects, Locs, IdleLoc
<1>22. ASSUME NEW a \in Actors, AppendFinished(a) PROVE QueueInv'
  <2>1. Ending(a) \in TerminalStatuses
    BY <1>a, EndingType DEF Ending, Actors, TerminalStatuses
  <2>2. /\ view'.status = "queued" => view.status = "queued"
        /\ ~Refused(a) /\ ~streamClosed => view'.status # "queued"
    BY <1>22, <1>a, WriteFinished, <2>1
    DEF AppendFinished, Answered, Wrote, TerminalStatuses
  <2> QED
    BY <1>22, <1>a, <2>2, ActorsAssumption
    DEF AppendFinished, Answered, HandBack, Ending, At, Goto, Quit, Leave,
        QueueInv,
        Actors, durable, process, counters, effects, Locs, IdleLoc
<1>23. ASSUME NEW a \in Actors, MarkClosed(a) PROVE QueueInv'
    BY <1>23, <1>a, ActorsAssumption
    DEF MarkClosed, Live, At, Goto, QueueInv, Actors, durable, process,
        counters, effects, Locs, IdleLoc
<1>24. ASSUME NEW a \in Actors, CloseStream(a) PROVE QueueInv'
    BY <1>24, <1>a, ActorsAssumption
    DEF CloseStream, HandBack, At, Quit, Leave, Goto, QueueInv, Actors,
        durable, process, counters, effects, Locs, IdleLoc
<1>25. ASSUME NEW c \in Clients, Request(c) PROVE QueueInv'
  <2>1. \A op \in {"pause", "resume", "cancel"} :
            ReadLabel[op] \in {"pauseRead", "resumeRead", "cancelRead"}
    BY DEF ReadLabel
  <2>2. /\ pc'[c] \in {"pauseRead", "resumeRead", "cancelRead"}
        /\ \A a \in Actors : a # c => pc'[a] = pc[a]
    BY <1>25, <1>a, <2>1, OpsAssumption DEF Request, Goto, Actors, OpsAssumption
  <2>3. UNCHANGED <<view, streamClosed, done, loc>>
    BY <1>25 DEF Request, durable, effects
  <2> QED
    BY <2>2, <2>3, ActorsAssumption DEF QueueInv, Actors
<1>26. ASSUME NEW c \in Clients, ReadPause(c) PROVE QueueInv'
    BY <1>26, <1>a, ActorsAssumption
    DEF ReadPause, At, Goto, QueueInv, Actors, durable, process, counters,
        effects, Locs, IdleLoc
<1>27. ASSUME NEW c \in Clients, AppendPaused(c) PROVE QueueInv'
  <2>1. view'.status = "queued" => view.status = "queued"
    BY <1>27, <1>a, WritePaused DEF AppendPaused, Answered, Wrote
  <2> QED
    BY <1>27, <1>a, <2>1, ActorsAssumption
    DEF AppendPaused, Answered, At, Goto, QueueInv, Actors, durable, process,
        counters,
        effects, Locs, IdleLoc
<1>28. ASSUME NEW c \in Clients, ReadUnpause(c) PROVE QueueInv'
    BY <1>28, <1>a, ActorsAssumption
    DEF ReadUnpause, At, Goto, QueueInv, Actors, durable, process, counters,
        effects, Locs, IdleLoc
<1>29. ASSUME NEW c \in Clients, AppendResumed(c) PROVE QueueInv'
  <2>1. view'.status = "queued" => view.status = "queued"
    BY <1>29, <1>a, WriteResumed DEF AppendResumed, Answered, Wrote
  <2> QED
    BY <1>29, <1>a, <2>1, ActorsAssumption
    DEF AppendResumed, Answered, At, Goto, QueueInv, Actors, durable, process,
        counters,
        effects, Locs, IdleLoc
<1>30. ASSUME NEW c \in Clients, ResumeAnswered(c) PROVE QueueInv'
    BY <1>30, <1>a, ActorsAssumption
    DEF ResumeAnswered, At, Goto, QueueInv, Actors, durable, process,
        counters, effects, Locs, IdleLoc
<1>31. ASSUME NEW c \in Clients, ReadCancel(c) PROVE QueueInv'
    BY <1>31, <1>a, ActorsAssumption
    DEF ReadCancel, Live, At, Goto, QueueInv, Actors, durable, process,
        counters, effects, Locs, IdleLoc
<1>32. ASSUME NEW c \in Clients, AppendCancel(c) PROVE QueueInv'
  <2>1. view'.status = "queued" => view.status = "queued"
    BY <1>32, <1>a, WriteCancel DEF AppendCancel, Answered, Wrote
  <2> QED
    BY <1>32, <1>a, <2>1, ActorsAssumption
    DEF AppendCancel, Answered, At, Goto, QueueInv, Actors, durable, process,
        counters,
        effects, Locs, IdleLoc
<1>33. ASSUME NEW c \in Clients, NEW d \in Drives, DriveResumed(c, d) PROVE QueueInv'
    BY <1>33, <1>a, ActorsAssumption
    DEF DriveResumed, At, QueueInv, Goto, Actors, durable, process, counters,
        effects, Locs, IdleLoc
<1>34. CASE ClaimLapses
    BY <1>34, <1>a, ActorsAssumption
    DEF ClaimLapses, ClaimLive, At, QueueInv, Goto, Actors, durable, process,
        counters, effects, Locs, IdleLoc
<1>35. CASE Crash
    BY <1>35, <1>a, ActorsAssumption
    DEF Crash, QueueInv, At, Goto, Actors, durable, process, counters,
        effects, Locs, IdleLoc
<1>36. CASE UNCHANGED vars
    BY <1>36
    DEF vars, QueueInv, At, Goto, Actors, durable, process, counters, effects,
        Locs, IdleLoc
<1> QED
    BY <1>1, <1>2, <1>3, <1>4, <1>5, <1>6, <1>7, <1>8, <1>9, <1>10, <1>11,
       <1>12, <1>13, <1>14, <1>15, <1>16, <1>17, <1>18, <1>19, <1>20, <1>21,
       <1>22, <1>23, <1>24, <1>25, <1>26, <1>27, <1>28, <1>29, <1>30, <1>31,
       <1>32, <1>33, <1>34, <1>35, <1>36
    DEF Next, DriveStep, FinalizeStep, ClientStep

\* A queued run has nothing in flight and nothing behind it, which is what
\* lets a cancel end it on the spot (runStep's status check, cancel).
THEOREM QueuedTheorem == Spec => []QueuedIsUntouched
<1>1. Init => QueueInv
    BY DEF Init, QueueInv, Actors
<1>2. QueueInv => QueuedIsUntouched
    BY DEF QueueInv, QueuedIsUntouched, Live
<1> QED
    BY <1>1, <1>2, InitType, TypeInductive, QueueInductive, PTL DEF Spec
=============================================================================
