------------------------ MODULE AgentRunClaimProofs -------------------------
(***************************************************************************)
(* What the drive claim guarantees of AgentRun, whichever stores the        *)
(* drives have: one drive at a time, and no step performed twice, until a  *)
(* write is lost or two claims cross.                                      *)
(***************************************************************************)
EXTENDS AgentRunProofs

\* As long as no accepted write was lost and no claims crossed: whoever carries
\* the run is the one the process knows of and holds a live claim on the
\* ledger; a drive on its way out still holds it; and who is about to append a
\* claim has no live claim before it.
ClaimInv ==
    /\ \A x \in Drives : pc[x] = "failed" => loc[x].failing
    /\ lost \/ crossed \/
        /\ \A x \in Drives : Carrying(x) => active = x /\ view.claim = x /\ ~lapsed
        /\ \A x \in Drives :
              pc[x] = "released" => loc[x].mine = x /\ view.claim = x /\ ~lapsed
        /\ \A x \in Drives : pc[x] = "claimAppend" => ~ClaimLive

LEMMA ClaimInductive ==
    TypeInv /\ ClaimInv /\ [Next]_vars => ClaimInv'
<1> SUFFICES ASSUME TypeInv, ClaimInv, [Next]_vars PROVE ClaimInv'
    OBVIOUS
<1>a. /\ pc \in [Actors -> PCs] /\ loc \in [Drives -> Locs] /\ view \in Views
      /\ lock \in [Stores -> Drives \cup {NoDrive}] /\ active \in Drives \cup {NoDrive}
    BY DEF TypeInv, TypeOK
<1>1. ASSUME NEW d \in Drives, DriveRequested(d) PROVE ClaimInv'
    BY <1>1, <1>a, ActorsAssumption, NoDriveAssumption, StoresAssumption
    DEF DriveRequested, BeginDrive, At, Goto, ClaimInv, Carrying,
        ClaimLive, Actors, durable, process, counters, effects, Locs, IdleLoc
<1>2. ASSUME NEW d \in Drives, Sweep(d) PROVE ClaimInv'
    BY <1>2, <1>a, ActorsAssumption, NoDriveAssumption, StoresAssumption
    DEF Sweep, BeginDrive, At, Goto, ClaimInv, Carrying, ClaimLive,
        Actors, durable, process, counters, effects, Locs, IdleLoc
<1>3. ASSUME NEW d \in Drives, PrepareFails(d) PROVE ClaimInv'
    BY <1>3, <1>a, ActorsAssumption, NoDriveAssumption, StoresAssumption
    DEF PrepareFails, FailUnclaimed, At, Goto, ClaimInv, Carrying,
        ClaimLive, Actors, durable, process, counters, effects, Locs, IdleLoc
<1>4. ASSUME NEW d \in Drives, ReadResume(d) PROVE ClaimInv'
    BY <1>4, <1>a, ActorsAssumption, NoDriveAssumption, StoresAssumption
    DEF ReadResume, FailUnclaimed, Quit, At, Goto, ClaimInv, 
        Carrying, ClaimLive, Actors, durable, process, counters, effects,
        Locs, IdleLoc
<1>5. ASSUME NEW d \in Drives, CheckActive(d) PROVE ClaimInv'
    BY <1>5, <1>a, ActorsAssumption, NoDriveAssumption, StoresAssumption
    DEF CheckActive, Quit, At, Goto, ClaimInv, Carrying, ClaimLive,
        Actors, durable, process, counters, effects, Locs, IdleLoc
<1>6. ASSUME NEW d \in Drives, ReadClaim(d) PROVE ClaimInv'
    BY <1>6, <1>a, ActorsAssumption, NoDriveAssumption, StoresAssumption
    DEF ReadClaim, Quit, ClaimLive, At, Goto, ClaimInv, Carrying,
        Actors, durable, process, counters, effects, Locs, IdleLoc
<1>7. ASSUME NEW d \in Drives, AppendClaim(d) PROVE ClaimInv'
  <2>1. CASE Refused(d)
    BY <1>7, <1>a, <2>1, ActorsAssumption
    DEF AppendClaim, FailUnclaimed, Goto, At, ClaimInv, Carrying, ClaimLive,
        durable, Actors, Locs
  <2>2. CASE ~Refused(d)
    <3>1. lost' \/ (~lost /\ view'.claim = d /\ ~lapsed' /\ active' = d)
      BY <1>7, <1>a, <2>2, WriteClaimed DEF AppendClaim, Wrote
    <3>2. ~lost /\ ~crossed => \A x \in Drives : ~Carrying(x) /\ pc[x] # "released"
      BY <1>7, NoDriveAssumption DEF AppendClaim, At, ClaimInv, ClaimLive
    <3>3. \/ crossed'
          \/ ~crossed /\ \A x \in Drives : pc[x] = "claimAppend" => x = d
      BY <1>7, <2>2 DEF AppendClaim, ClaimsOverlap
    <3>4. pc' = [pc EXCEPT ![d] = "start"] /\ loc' = loc
      BY <1>7, <2>2 DEF AppendClaim, Goto
    <3>5. \A x \in Drives : x # d => pc'[x] = pc[x]
      BY <3>4, <1>a DEF Actors
    <3>6. pc'[d] = "start"
      BY <3>4, <1>a DEF Actors
    <3> QED
      BY <3>1, <3>2, <3>3, <3>4, <3>5, <3>6 DEF ClaimInv, Carrying
  <2> QED
    BY <2>1, <2>2
<1>8. ASSUME NEW d \in Drives, Start(d) PROVE ClaimInv'
    BY <1>8, <1>a, ActorsAssumption, NoDriveAssumption, StoresAssumption
    DEF Start, Leave, At, Goto, ClaimInv, Carrying, ClaimLive,
        Actors, durable, process, counters, effects, Locs, IdleLoc
<1>9. ASSUME NEW d \in Drives, AppendStarted(d) PROVE ClaimInv'
  <2>1. lost' \/ (~lost /\ view'.claim = view.claim)
    BY <1>9, <1>a, WriteStarted DEF AppendStarted, Answered, Wrote, durable
  <2> QED
    BY <1>9, <1>a, <2>1, ActorsAssumption
    DEF AppendStarted, Answered, Leave, At, Goto, ClaimInv, Carrying,
        ClaimLive, Actors, durable, process, counters, effects, Locs, IdleLoc
<1>10. ASSUME NEW d \in Drives, RecordDriver(d) PROVE ClaimInv'
  <2>1. lost' \/ (~lost /\ view'.claim = view.claim)
    BY <1>10, <1>a, WriteNarrative DEF RecordDriver, Wrote
  <2> QED
    BY <1>10, <1>a, <2>1, ActorsAssumption
    DEF RecordDriver, Leave, At, Goto, ClaimInv, Carrying,
        ClaimLive, Actors, durable, process, counters, effects, Locs, IdleLoc
<1>11. ASSUME NEW d \in Drives, BetweenTurns(d) PROVE ClaimInv'
    BY <1>11, <1>a, ActorsAssumption, NoDriveAssumption, StoresAssumption
    DEF BetweenTurns, Leave, MovesLeft, At, Goto, ClaimInv, 
        Carrying, ClaimLive, Actors, durable, process, counters, effects,
        Locs, IdleLoc
<1>12. ASSUME NEW d \in Drives, ModelTurn(d) PROVE ClaimInv'
  <2>1. pc[d] = "turn" /\ pc'[d] \in {"step", "conclude", "loop", "release"}
    BY <1>12, <1>a DEF ModelTurn, Leave, At, Goto, Actors
  <2>2. \A x \in Drives : x # d => pc'[x] = pc[x] /\ loc'[x] = loc[x]
    BY <1>12, <1>a DEF ModelTurn, Leave, Goto, Actors
  <2>3. UNCHANGED <<view, lapsed, lost, crossed, active, lock>>
    BY <1>12 DEF ModelTurn, durable, process, effects
  <2> QED
    BY <2>1, <2>2, <2>3 DEF ClaimInv, Carrying, ClaimLive
<1>13. ASSUME NEW d \in Drives, ReadStep(d) PROVE ClaimInv'
    BY <1>13, <1>a, ActorsAssumption, NoDriveAssumption, StoresAssumption
    DEF ReadStep, Leave, Live, At, Goto, ClaimInv, Carrying,
        ClaimLive, Actors, durable, process, counters, effects, Locs, IdleLoc
<1>14. ASSUME NEW d \in Drives, AppendInvoked(d) PROVE ClaimInv'
  <2>1. lost' \/ (~lost /\ view'.claim = view.claim)
    BY <1>14, <1>a, WriteInvoked DEF AppendInvoked, Answered, Wrote
  <2> QED
    BY <1>14, <1>a, <2>1, ActorsAssumption
    DEF AppendInvoked, Answered, Leave, At, Goto, ClaimInv, Carrying,
        ClaimLive, Actors, durable, process, counters, effects, Locs, IdleLoc
<1>15. ASSUME NEW d \in Drives, BeginExecution(d) PROVE ClaimInv'
    BY <1>15, <1>a, ActorsAssumption, NoDriveAssumption, StoresAssumption
    DEF BeginExecution, At, Goto, ClaimInv, Carrying, ClaimLive,
        Actors, durable, process, counters, effects, Locs, IdleLoc
<1>16. ASSUME NEW d \in Drives, EndExecution(d) PROVE ClaimInv'
    BY <1>16, <1>a, ActorsAssumption, NoDriveAssumption, StoresAssumption
    DEF EndExecution, Leave, At, Goto, ClaimInv, Carrying,
        ClaimLive, Actors, durable, process, counters, effects, Locs, IdleLoc
<1>17. ASSUME NEW d \in Drives, AppendSettled(d) PROVE ClaimInv'
  <2>1. lost' \/ (~lost /\ view'.claim = view.claim)
    BY <1>17, <1>a, WriteSettled DEF AppendSettled, Answered, Wrote
  <2> QED
    BY <1>17, <1>a, <2>1, ActorsAssumption
    DEF AppendSettled, Answered, Leave, At, Goto, ClaimInv, Carrying,
        ClaimLive, Actors, durable, process, counters, effects, Locs, IdleLoc
<1>18. ASSUME NEW d \in Drives, Conclude(d) PROVE ClaimInv'
    BY <1>18, <1>a, ActorsAssumption, NoDriveAssumption, StoresAssumption
    DEF Conclude, Leave, At, Goto, ClaimInv, Carrying, ClaimLive,
        Actors, durable, process, counters, effects, Locs, IdleLoc
<1>19. ASSUME NEW d \in Drives, ReadFinish(d) PROVE ClaimInv'
    BY <1>19, <1>a, ActorsAssumption, NoDriveAssumption, StoresAssumption
    DEF ReadFinish, HandBack, Live, At, Goto, Quit, Leave, ClaimInv,
        Carrying, ClaimLive, Actors, durable, process, counters,
        effects, Locs, IdleLoc
<1>20. ASSUME NEW d \in Drives, ReleaseActive(d) PROVE ClaimInv'
    BY <1>20, <1>a, ActorsAssumption, NoDriveAssumption, StoresAssumption
    DEF ReleaseActive, Quit, At, Goto, ClaimInv, Carrying,
        ClaimLive, Actors, durable, process, counters, effects, Locs, IdleLoc
<1>21. ASSUME NEW d \in Drives, AppendReleased(d) PROVE ClaimInv'
    BY <1>21, <1>a, ActorsAssumption, NoDriveAssumption, StoresAssumption,
       FoldEach
    DEF AppendReleased, Quit, Write, At, Goto, ClaimInv, Carrying,
        ClaimLive, Actors, durable, process, counters, effects, Locs, IdleLoc
<1>22. ASSUME NEW a \in Actors, AppendFinished(a) PROVE ClaimInv'
  <2>1. lost' \/ (~lost /\ view'.claim = view.claim)
    BY <1>22, <1>a, WriteFinished DEF AppendFinished, Answered, Wrote
  <2> QED
    BY <1>22, <1>a, <2>1, ActorsAssumption
    DEF AppendFinished, Answered, HandBack, Ending, At, Goto, Quit, Leave,
        ClaimInv,
        Carrying, ClaimLive, Actors, durable, process, counters,
        effects, Locs, IdleLoc
<1>23. ASSUME NEW a \in Actors, MarkClosed(a) PROVE ClaimInv'
    BY <1>23, <1>a, ActorsAssumption, NoDriveAssumption, StoresAssumption
    DEF MarkClosed, Live, At, Goto, ClaimInv, Carrying, ClaimLive,
        Actors, durable, process, counters, effects, Locs, IdleLoc
<1>24. ASSUME NEW a \in Actors, CloseStream(a) PROVE ClaimInv'
    BY <1>24, <1>a, ActorsAssumption, NoDriveAssumption, StoresAssumption
    DEF CloseStream, HandBack, At, Quit, Leave, Goto, ClaimInv, 
        Carrying, ClaimLive, Actors, durable, process, counters, effects,
        Locs, IdleLoc
<1>25. ASSUME NEW c \in Clients, Request(c) PROVE ClaimInv'
    BY <1>25, <1>a, ActorsAssumption, NoDriveAssumption, StoresAssumption
    DEF Request, ReadLabel, At, Goto, ClaimInv, Carrying,
        ClaimLive, Actors, durable, process, counters, effects, Locs, IdleLoc
<1>26. ASSUME NEW c \in Clients, ReadPause(c) PROVE ClaimInv'
    BY <1>26, <1>a, ActorsAssumption, NoDriveAssumption, StoresAssumption
    DEF ReadPause, At, Goto, ClaimInv, Carrying, ClaimLive, Actors,
        durable, process, counters, effects, Locs, IdleLoc
<1>27. ASSUME NEW c \in Clients, AppendPaused(c) PROVE ClaimInv'
  <2>1. lost' \/ (~lost /\ view'.claim = view.claim)
    BY <1>27, <1>a, WritePaused DEF AppendPaused, Answered, Wrote
  <2> QED
    BY <1>27, <1>a, <2>1, ActorsAssumption
    DEF AppendPaused, Answered, At, Goto, ClaimInv, Carrying,
        ClaimLive,
        Actors, durable, process, counters, effects, Locs, IdleLoc
<1>28. ASSUME NEW c \in Clients, ReadUnpause(c) PROVE ClaimInv'
    BY <1>28, <1>a, ActorsAssumption, NoDriveAssumption, StoresAssumption
    DEF ReadUnpause, At, Goto, ClaimInv, Carrying, ClaimLive,
        Actors, durable, process, counters, effects, Locs, IdleLoc
<1>29. ASSUME NEW c \in Clients, AppendResumed(c) PROVE ClaimInv'
  <2>1. lost' \/ (~lost /\ view'.claim = view.claim)
    BY <1>29, <1>a, WriteResumed DEF AppendResumed, Answered, Wrote
  <2> QED
    BY <1>29, <1>a, <2>1, ActorsAssumption
    DEF AppendResumed, Answered, At, Goto, ClaimInv, Carrying,
        ClaimLive,
        Actors, durable, process, counters, effects, Locs, IdleLoc
<1>30. ASSUME NEW c \in Clients, ResumeAnswered(c) PROVE ClaimInv'
    BY <1>30, <1>a, ActorsAssumption, NoDriveAssumption, StoresAssumption
    DEF ResumeAnswered, At, Goto, ClaimInv, Carrying, ClaimLive,
        Actors, durable, process, counters, effects, Locs, IdleLoc
<1>31. ASSUME NEW c \in Clients, ReadCancel(c) PROVE ClaimInv'
    BY <1>31, <1>a, ActorsAssumption, NoDriveAssumption, StoresAssumption
    DEF ReadCancel, Live, At, Goto, ClaimInv, Carrying, ClaimLive,
        Actors, durable, process, counters, effects, Locs, IdleLoc
<1>32. ASSUME NEW c \in Clients, AppendCancel(c) PROVE ClaimInv'
  <2>1. lost' \/ (~lost /\ view'.claim = view.claim)
    BY <1>32, <1>a, WriteCancel DEF AppendCancel, Answered, Wrote
  <2> QED
    BY <1>32, <1>a, <2>1, ActorsAssumption
    DEF AppendCancel, Answered, At, Goto, ClaimInv, Carrying,
        ClaimLive,
        Actors, durable, process, counters, effects, Locs, IdleLoc
<1>33. ASSUME NEW c \in Clients, NEW d \in Drives, DriveResumed(c, d) PROVE ClaimInv'
    BY <1>33, <1>a, ActorsAssumption, NoDriveAssumption, StoresAssumption
    DEF DriveResumed, At, ClaimInv, Carrying, ClaimLive, Goto,
        Actors, durable, process, counters, effects, Locs, IdleLoc
<1>34. CASE ClaimLapses
    BY <1>34, <1>a, ActorsAssumption, NoDriveAssumption, StoresAssumption
    DEF ClaimLapses, ClaimLive, At, ClaimInv, Carrying, Goto,
        Actors, durable, process, counters, effects, Locs, IdleLoc
<1>35. CASE Crash
    BY <1>35, <1>a, ActorsAssumption, NoDriveAssumption, StoresAssumption
    DEF Crash, ClaimInv, Carrying, ClaimLive, At, Goto, Actors,
        durable, process, counters, effects, Locs, IdleLoc
<1>36. CASE UNCHANGED vars
    BY <1>36
    DEF vars, ClaimInv, Carrying, ClaimLive, At, Goto, Actors,
        durable, process, counters, effects, Locs, IdleLoc
<1> QED
    BY <1>1, <1>2, <1>3, <1>4, <1>5, <1>6, <1>7, <1>8, <1>9, <1>10, <1>11,
       <1>12, <1>13, <1>14, <1>15, <1>16, <1>17, <1>18, <1>19, <1>20, <1>21,
       <1>22, <1>23, <1>24, <1>25, <1>26, <1>27, <1>28, <1>29, <1>30, <1>31,
       <1>32, <1>33, <1>34, <1>35, <1>36
    DEF Next, DriveStep, FinalizeStep, ClientStep

\* Whichever stores the drives have, two of them carry the run only after two
\* claims crossed or a write was lost.
THEOREM OneDriverTheorem == Spec => []OneDriverUnlessClaimsCross
<1>1. Init => ClaimInv
    BY NoDriveAssumption DEF Init, ClaimInv, Carrying, Actors
<1>2. ClaimInv => OneDriverUnlessClaimsCross
    BY DEF ClaimInv, OneDriver, OneDriverUnlessClaimsCross
<1>3. TypeInv /\ ClaimInv /\ [Next]_vars => ClaimInv'
    BY ClaimInductive
<1> QED
    BY <1>1, <1>2, <1>3, InitType, TypeInductive, PTL DEF Spec

-----------------------------------------------------------------------------
(* Steps.                                                                  *)

\* As long as no accepted write was lost: what ran or settled is on the ledger,
\* a drive about to write an invocation has a step nobody wrote before, and one
\* that acts on an invocation it wrote has a step that has not settled, nor run
\* if it is still about to run it.
OnceInv ==
    lost \/ crossed \/
        /\ repeated = {} /\ done \subseteq view.invoked
        /\ view.settled \subseteq view.invoked
        /\ \A x \in Drives : pc[x] = "invoke" => loc[x].at \notin view.invoked
        /\ \A x \in Drives : pc[x] = "invoked" => loc[x].at \notin done
        /\ \A x \in Drives :
              pc[x] \in {"invoked", "executing", "settle"} =>
                  loc[x].at \in view.invoked \ view.settled

LEMMA OnceInductive ==
    OneDriverUnlessClaimsCross /\ TypeInv /\ OnceInv /\ [Next]_vars => OnceInv'
<1> SUFFICES ASSUME OneDriverUnlessClaimsCross, TypeInv, OnceInv, [Next]_vars
             PROVE  OnceInv'
    OBVIOUS
<1>a. /\ pc \in [Actors -> PCs] /\ loc \in [Drives -> Locs] /\ view \in Views
    BY DEF TypeInv, TypeOK
<1>1. ASSUME NEW d \in Drives, DriveRequested(d) PROVE OnceInv'
    BY <1>1, <1>a, ActorsAssumption
    DEF DriveRequested, BeginDrive, At, Goto, OnceInv, Actors, durable,
        process, counters, effects, Locs, IdleLoc
<1>2. ASSUME NEW d \in Drives, Sweep(d) PROVE OnceInv'
    BY <1>2, <1>a, ActorsAssumption
    DEF Sweep, BeginDrive, At, Goto, OnceInv, Actors, durable, process,
        counters, effects, Locs, IdleLoc
<1>3. ASSUME NEW d \in Drives, PrepareFails(d) PROVE OnceInv'
    BY <1>3, <1>a, ActorsAssumption
    DEF PrepareFails, FailUnclaimed, At, Goto, OnceInv, Actors, durable,
        process, counters, effects, Locs, IdleLoc
<1>4. ASSUME NEW d \in Drives, ReadResume(d) PROVE OnceInv'
    BY <1>4, <1>a, ActorsAssumption
    DEF ReadResume, FailUnclaimed, Quit, At, Goto, OnceInv, Actors, durable,
        process, counters, effects, Locs, IdleLoc
<1>5. ASSUME NEW d \in Drives, CheckActive(d) PROVE OnceInv'
    BY <1>5, <1>a, ActorsAssumption
    DEF CheckActive, Quit, At, Goto, OnceInv, Actors, durable, process,
        counters, effects, Locs, IdleLoc
<1>6. ASSUME NEW d \in Drives, ReadClaim(d) PROVE OnceInv'
    BY <1>6, <1>a, ActorsAssumption
    DEF ReadClaim, Quit, ClaimLive, At, Goto, OnceInv, Actors, durable,
        process, counters, effects, Locs, IdleLoc
<1>7. ASSUME NEW d \in Drives, AppendClaim(d) PROVE OnceInv'
  <2>1. lost' \/ (~lost /\ view'.invoked = view.invoked /\ view'.settled = view.settled)
    BY <1>7, <1>a, WriteClaimed DEF AppendClaim, Wrote, durable
  <2> QED
    BY <1>7, <1>a, <2>1, ActorsAssumption
    DEF AppendClaim, FailUnclaimed, At, Goto, OnceInv, Actors, durable,
        process, counters, effects, Locs, IdleLoc
<1>8. ASSUME NEW d \in Drives, Start(d) PROVE OnceInv'
    BY <1>8, <1>a, ActorsAssumption
    DEF Start, Leave, At, Goto, OnceInv, Actors, durable, process, counters,
        effects, Locs, IdleLoc
<1>9. ASSUME NEW d \in Drives, AppendStarted(d) PROVE OnceInv'
  <2>1. lost' \/ (~lost /\ view'.invoked = view.invoked /\ view'.settled = view.settled)
    BY <1>9, <1>a, WriteStarted DEF AppendStarted, Answered, Wrote, durable
  <2> QED
    BY <1>9, <1>a, <2>1, ActorsAssumption
    DEF AppendStarted, Answered, Leave, At, Goto, OnceInv, Actors, durable,
        process,
        counters, effects, Locs, IdleLoc
<1>10. ASSUME NEW d \in Drives, RecordDriver(d) PROVE OnceInv'
  <2>1. lost' \/ (~lost /\ view'.invoked = view.invoked /\ view'.settled = view.settled)
    BY <1>10, <1>a, WriteNarrative DEF RecordDriver, Wrote
  <2> QED
    BY <1>10, <1>a, <2>1, ActorsAssumption
    DEF RecordDriver, Leave, At, Goto, OnceInv, Actors, durable, process,
        counters, effects, Locs, IdleLoc
<1>11. ASSUME NEW d \in Drives, BetweenTurns(d) PROVE OnceInv'
    BY <1>11, <1>a, ActorsAssumption
    DEF BetweenTurns, Leave, MovesLeft, At, Goto, OnceInv, Actors, durable,
        process, counters, effects, Locs, IdleLoc
<1>12. ASSUME NEW d \in Drives, ModelTurn(d) PROVE OnceInv'
  <2>1. pc[d] = "turn" /\ pc'[d] \in {"step", "conclude", "loop", "release"}
    BY <1>12, <1>a DEF ModelTurn, Leave, At, Goto, Actors
  <2>2. \A x \in Drives : x # d => pc'[x] = pc[x] /\ loc'[x] = loc[x]
    BY <1>12, <1>a DEF ModelTurn, Leave, Goto, Actors
  <2>3. UNCHANGED <<view, lost, crossed, done, repeated>>
    BY <1>12 DEF ModelTurn, durable, effects
  <2> QED
    BY <2>1, <2>2, <2>3 DEF OnceInv
<1>13. ASSUME NEW d \in Drives, ReadStep(d) PROVE OnceInv'
  <2>1. UNCHANGED <<lost, crossed, view, done, repeated>>
    BY <1>13 DEF ReadStep, durable, effects
  <2>2. ASSUME NEW x \in Drives, pc'[x] = "invoke"
        PROVE  \/ pc[x] = "invoke" /\ loc'[x].at = loc[x].at
               \/ loc'[x].at \notin view.settled \cup Unsettled(view)
    BY <1>13, <1>a, <2>2 DEF ReadStep, Leave, At, Goto, Actors, Locs
  <2>3. ASSUME NEW x \in Drives, pc'[x] \in {"invoked", "executing", "settle"}
        PROVE  pc[x] = pc'[x] /\ loc'[x].at = loc[x].at
    BY <1>13, <1>a, <2>3 DEF ReadStep, Leave, At, Goto, Actors, Locs
  <2> QED
    BY <2>1, <2>2, <2>3 DEF OnceInv, Unsettled
<1>14. ASSUME NEW d \in Drives, AppendInvoked(d) PROVE OnceInv'
  <2>1. \A x \in Drives : x # d => pc'[x] = pc[x] /\ loc'[x].at = loc[x].at
    BY <1>14, <1>a DEF AppendInvoked, Answered, Leave, Goto, Actors, Locs
  <2>2. CASE Refused(d)
    <3>1. UNCHANGED <<view, lost, crossed, done, repeated>> /\ pc'[d] = "release"
      BY <1>14, <1>a, <2>2
      DEF AppendInvoked, Answered, Leave, Goto, Actors, effects
    <3> QED
      BY <2>1, <3>1 DEF OnceInv
  <2>3. CASE ~Refused(d)
    <3>1. lost' \/ /\ ~lost /\ view'.invoked = view.invoked \cup {loc[d].at}
                   /\ view'.settled = view.settled
      BY <1>14, <1>a, <2>3, WriteInvoked DEF AppendInvoked, Answered, Wrote
    <3>2. pc'[d] = "invoked" /\ loc' = loc /\ UNCHANGED <<crossed, done, repeated>>
      BY <1>14, <1>a, <2>3 DEF AppendInvoked, Answered, Goto, Actors, effects
    <3>3. ~lost /\ ~crossed => \A x \in Drives : pc[x] = "invoke" => x = d
      BY <1>14 DEF AppendInvoked, Answered, At, OneDriver, OneDriverUnlessClaimsCross,
          Carrying
    <3>4. pc[d] = "invoke"
      BY <1>14 DEF AppendInvoked, Answered, At
    <3> QED
      BY <2>1, <3>1, <3>2, <3>3, <3>4 DEF OnceInv
  <2> QED
    BY <2>2, <2>3
<1>15. ASSUME NEW d \in Drives, BeginExecution(d) PROVE OnceInv'
  <2>1. \A x \in Drives : x # d => pc'[x] = pc[x] /\ loc'[x].at = loc[x].at
    BY <1>15, <1>a DEF BeginExecution, Goto, Actors, Locs
  <2>2. pc[d] = "invoked" /\ pc'[d] \in {"executing", "settle", "turn"}
    BY <1>15, <1>a DEF BeginExecution, At, Goto, Actors
  <2>3. UNCHANGED <<view, lost, crossed>>
    BY <1>15 DEF BeginExecution, durable
  <2>4. ~lost /\ ~crossed => \A x \in Drives : pc[x] = "invoked" => x = d
    BY <2>2 DEF OneDriver, OneDriverUnlessClaimsCross, Carrying
  <2>5. /\ done' \in {done, done \cup {loc[d].at}}
        /\ repeated' \in {repeated, repeated \cup ({loc[d].at} \cap done)}
    BY <1>15 DEF BeginExecution
  <2>6. pc'[d] \in {"executing", "settle"} => loc'[d].at = loc[d].at
    BY <1>15, <1>a DEF BeginExecution, At, Goto, Actors, Locs
  <2> QED
    BY <2>1, <2>2, <2>3, <2>4, <2>5, <2>6 DEF OnceInv
<1>16. ASSUME NEW d \in Drives, EndExecution(d) PROVE OnceInv'
    BY <1>16, <1>a, ActorsAssumption
    DEF EndExecution, Leave, At, Goto, OnceInv, Actors, durable, process,
        counters, effects, Locs, IdleLoc
<1>17. ASSUME NEW d \in Drives, AppendSettled(d) PROVE OnceInv'
  <2>1. CASE Refused(d)
    BY <1>17, <1>a, <2>1, ActorsAssumption
    DEF AppendSettled, Answered, Leave, At, Goto, OnceInv, Actors, effects, Locs
  <2>2. CASE ~Refused(d)
    <3>1. lost' \/ /\ ~lost /\ view'.invoked = view.invoked
                   /\ view'.settled = view.settled \cup {loc[d].at}
      BY <1>17, <1>a, <2>2, WriteSettled DEF AppendSettled, Answered, Wrote
    <3>2. pc[d] = "settle" /\ pc'[d] = "turn" /\ UNCHANGED <<crossed, done, repeated>>
      BY <1>17, <1>a, <2>2
      DEF AppendSettled, Answered, At, Goto, Actors, effects
    <3>3. \A x \in Drives : x # d => pc'[x] = pc[x] /\ loc'[x].at = loc[x].at
      BY <1>17, <1>a, <2>2 DEF AppendSettled, Answered, Goto, Actors, Locs
    <3>4. ~lost /\ ~crossed => \A x \in Drives :
              pc[x] \in {"invoked", "executing", "settle"} => x = d
      BY <3>2 DEF OneDriver, OneDriverUnlessClaimsCross, Carrying
    <3> QED
      BY <3>1, <3>2, <3>3, <3>4 DEF OnceInv
  <2> QED
    BY <2>1, <2>2
<1>18. ASSUME NEW d \in Drives, Conclude(d) PROVE OnceInv'
    BY <1>18, <1>a, ActorsAssumption
    DEF Conclude, Leave, At, Goto, OnceInv, Actors, durable, process,
        counters, effects, Locs, IdleLoc
<1>19. ASSUME NEW d \in Drives, ReadFinish(d) PROVE OnceInv'
    BY <1>19, <1>a, ActorsAssumption
    DEF ReadFinish, HandBack, Live, At, Goto, Quit, Leave, OnceInv, Actors,
        durable, process, counters, effects, Locs, IdleLoc
<1>20. ASSUME NEW d \in Drives, ReleaseActive(d) PROVE OnceInv'
    BY <1>20, <1>a, ActorsAssumption
    DEF ReleaseActive, Quit, At, Goto, OnceInv, Actors, durable, process,
        counters, effects, Locs, IdleLoc
<1>21. ASSUME NEW d \in Drives, AppendReleased(d) PROVE OnceInv'
  <2>1. lost' \/ (~lost /\ view'.invoked = view.invoked /\ view'.settled = view.settled)
    BY <1>21, <1>a, WriteReleased DEF AppendReleased, Wrote
  <2> QED
    BY <1>21, <1>a, <2>1, ActorsAssumption
    DEF AppendReleased, Quit, At, Goto, OnceInv, Actors, durable, process,
        counters, effects, Locs, IdleLoc
<1>22. ASSUME NEW a \in Actors, AppendFinished(a) PROVE OnceInv'
  <2>1. lost' \/ (~lost /\ view'.invoked = view.invoked /\ view'.settled = view.settled)
    BY <1>22, <1>a, WriteFinished DEF AppendFinished, Answered, Wrote
  <2> QED
    BY <1>22, <1>a, <2>1, ActorsAssumption
    DEF AppendFinished, Answered, HandBack, Ending, At, Goto, Quit, Leave,
        OnceInv,
        Actors, durable, process, counters, effects, Locs, IdleLoc
<1>23. ASSUME NEW a \in Actors, MarkClosed(a) PROVE OnceInv'
    BY <1>23, <1>a, ActorsAssumption
    DEF MarkClosed, Live, At, Goto, OnceInv, Actors, durable, process,
        counters, effects, Locs, IdleLoc
<1>24. ASSUME NEW a \in Actors, CloseStream(a) PROVE OnceInv'
    BY <1>24, <1>a, ActorsAssumption
    DEF CloseStream, HandBack, At, Quit, Leave, Goto, OnceInv, Actors,
        durable, process, counters, effects, Locs, IdleLoc
<1>25. ASSUME NEW c \in Clients, Request(c) PROVE OnceInv'
    BY <1>25, <1>a, ActorsAssumption
    DEF Request, ReadLabel, At, Goto, OnceInv, Actors, durable, process,
        counters, effects, Locs, IdleLoc
<1>26. ASSUME NEW c \in Clients, ReadPause(c) PROVE OnceInv'
    BY <1>26, <1>a, ActorsAssumption
    DEF ReadPause, At, Goto, OnceInv, Actors, durable, process, counters,
        effects, Locs, IdleLoc
<1>27. ASSUME NEW c \in Clients, AppendPaused(c) PROVE OnceInv'
  <2>1. lost' \/ (~lost /\ view'.invoked = view.invoked /\ view'.settled = view.settled)
    BY <1>27, <1>a, WritePaused DEF AppendPaused, Answered, Wrote
  <2> QED
    BY <1>27, <1>a, <2>1, ActorsAssumption
    DEF AppendPaused, Answered, At, Goto, OnceInv, Actors, durable, process,
        counters,
        effects, Locs, IdleLoc
<1>28. ASSUME NEW c \in Clients, ReadUnpause(c) PROVE OnceInv'
    BY <1>28, <1>a, ActorsAssumption
    DEF ReadUnpause, At, Goto, OnceInv, Actors, durable, process, counters,
        effects, Locs, IdleLoc
<1>29. ASSUME NEW c \in Clients, AppendResumed(c) PROVE OnceInv'
  <2>1. lost' \/ (~lost /\ view'.invoked = view.invoked /\ view'.settled = view.settled)
    BY <1>29, <1>a, WriteResumed DEF AppendResumed, Answered, Wrote
  <2> QED
    BY <1>29, <1>a, <2>1, ActorsAssumption
    DEF AppendResumed, Answered, At, Goto, OnceInv, Actors, durable, process,
        counters,
        effects, Locs, IdleLoc
<1>30. ASSUME NEW c \in Clients, ResumeAnswered(c) PROVE OnceInv'
    BY <1>30, <1>a, ActorsAssumption
    DEF ResumeAnswered, At, Goto, OnceInv, Actors, durable, process, counters,
        effects, Locs, IdleLoc
<1>31. ASSUME NEW c \in Clients, ReadCancel(c) PROVE OnceInv'
    BY <1>31, <1>a, ActorsAssumption
    DEF ReadCancel, Live, At, Goto, OnceInv, Actors, durable, process,
        counters, effects, Locs, IdleLoc
<1>32. ASSUME NEW c \in Clients, AppendCancel(c) PROVE OnceInv'
  <2>1. lost' \/ (~lost /\ view'.invoked = view.invoked /\ view'.settled = view.settled)
    BY <1>32, <1>a, WriteCancel DEF AppendCancel, Answered, Wrote
  <2> QED
    BY <1>32, <1>a, <2>1, ActorsAssumption
    DEF AppendCancel, Answered, At, Goto, OnceInv, Actors, durable, process,
        counters,
        effects, Locs, IdleLoc
<1>33. ASSUME NEW c \in Clients, NEW d \in Drives, DriveResumed(c, d) PROVE OnceInv'
    BY <1>33, <1>a, ActorsAssumption
    DEF DriveResumed, At, OnceInv, Goto, Actors, durable, process, counters,
        effects, Locs, IdleLoc
<1>34. CASE ClaimLapses
    BY <1>34, <1>a, ActorsAssumption
    DEF ClaimLapses, ClaimLive, At, OnceInv, Goto, Actors, durable, process,
        counters, effects, Locs, IdleLoc
<1>35. CASE Crash
    BY <1>35, <1>a, ActorsAssumption
    DEF Crash, OnceInv, At, Goto, Actors, durable, process, counters, effects,
        Locs, IdleLoc
<1>36. CASE UNCHANGED vars
    BY <1>36
    DEF vars, OnceInv, At, Goto, Actors, durable, process, counters, effects,
        Locs, IdleLoc
<1> QED
    BY <1>1, <1>2, <1>3, <1>4, <1>5, <1>6, <1>7, <1>8, <1>9, <1>10, <1>11,
       <1>12, <1>13, <1>14, <1>15, <1>16, <1>17, <1>18, <1>19, <1>20, <1>21,
       <1>22, <1>23, <1>24, <1>25, <1>26, <1>27, <1>28, <1>29, <1>30, <1>31,
       <1>32, <1>33, <1>34, <1>35, <1>36
    DEF Next, DriveStep, FinalizeStep, ClientStep

\* Under the same condition the ledger lets every step reach the database at
\* most once, across pauses, failures and restarts.
THEOREM StepsOnceTheorem == Spec => []StepsPerformedOnce
<1>1. Init => ClaimInv /\ OnceInv
    BY NoDriveAssumption
    DEF Init, ClaimInv, Carrying, Actors, OnceInv, EmptyView
<1>2. ClaimInv => OneDriverUnlessClaimsCross
    BY DEF ClaimInv, OneDriver, OneDriverUnlessClaimsCross
<1>3. TypeInv /\ ClaimInv /\ [Next]_vars => ClaimInv'
    BY ClaimInductive
<1>4. OnceInv => StepsPerformedOnce
    BY DEF OnceInv, StepsPerformedOnce
<1> QED
    BY <1>1, <1>2, <1>3, <1>4, InitType, TypeInductive, OnceInductive, PTL
    DEF Spec

-----------------------------------------------------------------------------
(* The step contract.                                                      *)

\* Three actions touch what the contract speaks of; any other leaves it
\* alone, or is the write that is lost or the claim that crosses another.
Touches(d) == AppendInvoked(d) \/ BeginExecution(d) \/ AppendSettled(d)

ContractUntouched ==
    UNCHANGED <<view.invoked, view.settled, lost, crossed, done, repeated>>

LEMMA TouchedByThree ==
    TypeInv /\ [Next]_vars =>
        lost' \/ crossed' \/ ContractUntouched \/ \E d \in Drives : Touches(d)
<1> SUFFICES ASSUME TypeInv, [Next]_vars, ~lost', ~crossed',
                    ~ \E d \in Drives : Touches(d)
             PROVE  ContractUntouched
    OBVIOUS
<1>a. view \in Views
    BY DEF TypeInv, TypeOK
<1> USE DEF ContractUntouched
<1>1. ASSUME NEW d \in Drives, DriveRequested(d) PROVE ContractUntouched
    BY <1>1 DEF DriveRequested, BeginDrive, durable, effects
<1>2. ASSUME NEW d \in Drives, Sweep(d) PROVE ContractUntouched
    BY <1>2 DEF Sweep, BeginDrive, durable, effects
<1>3. ASSUME NEW d \in Drives, PrepareFails(d) PROVE ContractUntouched
    BY <1>3 DEF PrepareFails, durable, effects
<1>4. ASSUME NEW d \in Drives, ReadResume(d) PROVE ContractUntouched
    BY <1>4 DEF ReadResume, durable, effects
<1>5. ASSUME NEW d \in Drives, CheckActive(d) PROVE ContractUntouched
    BY <1>5 DEF CheckActive, durable, effects
<1>6. ASSUME NEW d \in Drives, ReadClaim(d) PROVE ContractUntouched
    BY <1>6 DEF ReadClaim, durable, effects
<1>7. ASSUME NEW d \in Drives, AppendClaim(d) PROVE ContractUntouched
  <2>1. crossed' = crossed
    <3>1. crossed \in BOOLEAN
      BY DEF TypeInv, TypeOK
    <3>2. crossed' = crossed \/ crossed' = (crossed \/ ClaimsOverlap(d))
      BY <1>7 DEF AppendClaim
    <3> QED
      BY <3>1, <3>2
  <2>2. UNCHANGED <<view.invoked, view.settled, lost>>
    BY <1>7, <1>a, WriteClaimed DEF AppendClaim, Wrote, durable
  <2> QED
    BY <1>7, <2>1, <2>2 DEF AppendClaim
<1>8. ASSUME NEW d \in Drives, Start(d) PROVE ContractUntouched
    BY <1>8 DEF Start, durable, effects
<1>9. ASSUME NEW d \in Drives, AppendStarted(d) PROVE ContractUntouched
    BY <1>9, <1>a, WriteStarted
    DEF AppendStarted, Answered, Wrote, durable, effects
<1>10. ASSUME NEW d \in Drives, RecordDriver(d) PROVE ContractUntouched
    BY <1>10, <1>a, WriteNarrative DEF RecordDriver, Wrote, durable, effects
<1>11. ASSUME NEW d \in Drives, BetweenTurns(d) PROVE ContractUntouched
    BY <1>11 DEF BetweenTurns, durable, effects
<1>12. ASSUME NEW d \in Drives, ModelTurn(d) PROVE ContractUntouched
    BY <1>12 DEF ModelTurn, durable, effects
<1>13. ASSUME NEW d \in Drives, ReadStep(d) PROVE ContractUntouched
    BY <1>13 DEF ReadStep, durable, effects
<1>14. ASSUME NEW d \in Drives, EndExecution(d) PROVE ContractUntouched
    BY <1>14 DEF EndExecution, durable, effects
<1>15. ASSUME NEW d \in Drives, Conclude(d) PROVE ContractUntouched
    BY <1>15 DEF Conclude, durable, effects
<1>16. ASSUME NEW d \in Drives, ReadFinish(d) PROVE ContractUntouched
    BY <1>16 DEF ReadFinish, durable, effects
<1>17. ASSUME NEW d \in Drives, ReleaseActive(d) PROVE ContractUntouched
    BY <1>17 DEF ReleaseActive, durable, effects
<1>18. ASSUME NEW d \in Drives, AppendReleased(d) PROVE ContractUntouched
    BY <1>18, <1>a, WriteReleased DEF AppendReleased, Wrote, durable, effects
<1>19. ASSUME NEW a \in Actors, AppendFinished(a) PROVE ContractUntouched
    BY <1>19, <1>a, WriteFinished
    DEF AppendFinished, Answered, Wrote, durable, effects
<1>20. ASSUME NEW a \in Actors, MarkClosed(a) PROVE ContractUntouched
    BY <1>20 DEF MarkClosed, durable, effects
<1>21. ASSUME NEW a \in Actors, CloseStream(a) PROVE ContractUntouched
    BY <1>21 DEF CloseStream, durable, effects
<1>22. ASSUME NEW c \in Clients, Request(c) PROVE ContractUntouched
    BY <1>22 DEF Request, durable, effects
<1>23. ASSUME NEW c \in Clients, ReadPause(c) PROVE ContractUntouched
    BY <1>23 DEF ReadPause, durable, effects
<1>24. ASSUME NEW c \in Clients, AppendPaused(c) PROVE ContractUntouched
    BY <1>24, <1>a, WritePaused
    DEF AppendPaused, Answered, Wrote, durable, effects
<1>25. ASSUME NEW c \in Clients, ReadUnpause(c) PROVE ContractUntouched
    BY <1>25 DEF ReadUnpause, durable, effects
<1>26. ASSUME NEW c \in Clients, AppendResumed(c) PROVE ContractUntouched
    BY <1>26, <1>a, WriteResumed
    DEF AppendResumed, Answered, Wrote, durable, effects
<1>27. ASSUME NEW c \in Clients, ResumeAnswered(c) PROVE ContractUntouched
    BY <1>27 DEF ResumeAnswered, durable, effects
<1>28. ASSUME NEW c \in Clients, ReadCancel(c) PROVE ContractUntouched
    BY <1>28 DEF ReadCancel, durable, effects
<1>29. ASSUME NEW c \in Clients, AppendCancel(c) PROVE ContractUntouched
    BY <1>29, <1>a, WriteCancel
    DEF AppendCancel, Answered, Wrote, durable, effects
<1>30. ASSUME NEW c \in Clients, NEW d \in Drives, DriveResumed(c, d)
      PROVE  ContractUntouched
    BY <1>30 DEF DriveResumed, durable, effects
<1>31. CASE ClaimLapses
    BY <1>31 DEF ClaimLapses, effects
<1>32. CASE Crash
    BY <1>32 DEF Crash, durable
<1>33. CASE UNCHANGED vars
    BY <1>33 DEF vars, durable, effects
<1> QED
    BY <1>1, <1>2, <1>3, <1>4, <1>5, <1>6, <1>7, <1>8, <1>9, <1>10,
       <1>11, <1>12, <1>13, <1>14, <1>15, <1>16, <1>17, <1>18, <1>19,
       <1>20, <1>21, <1>22, <1>23, <1>24, <1>25, <1>26, <1>27, <1>28,
       <1>29, <1>30, <1>31, <1>32, <1>33
    DEF Next, DriveStep, FinalizeStep, ClientStep, Touches

LEMMA ContractStep ==
    TypeInv /\ OnceInv /\ [Next]_vars => [Contract!Next]_Contract!contractVars
<1> SUFFICES ASSUME TypeInv, OnceInv, [Next]_vars
             PROVE  [Contract!Next]_Contract!contractVars
    OBVIOUS
<1>a. /\ pc \in [Actors -> PCs] /\ loc \in [Drives -> Locs] /\ view \in Views
    BY DEF TypeInv, TypeOK
<1> DEFINE times == [s \in Steps |-> IF s \in repeated THEN 2
                                     ELSE IF s \in done THEN 1 ELSE 0]
<1>1. CASE lost' \/ crossed'
    BY <1>1 DEF Contract!Next, Contract!Lose
<1>2. CASE ContractUntouched
    BY <1>2 DEF ContractUntouched, Contract!contractVars
<1>3. ASSUME NEW d \in Drives, AppendInvoked(d), ~lost', ~crossed'
      PROVE  [Contract!Next]_Contract!contractVars
  <2>1. loc[d].at \in Steps
    BY <1>3 DEF AppendInvoked, Answered, At, TypeInv, InHand
  <2>2. UNCHANGED <<crossed, done, repeated>>
    BY <1>3 DEF AppendInvoked, Answered, effects
  <2>3. CASE Refused(d)
    BY <1>3, <2>2, <2>3 DEF AppendInvoked, Answered, Contract!contractVars
  <2>4. CASE ~Refused(d)
    <3>1. /\ ~lost /\ view'.invoked = view.invoked \cup {loc[d].at}
          /\ view'.settled = view.settled
      BY <1>3, <1>a, <2>4, WriteInvoked DEF AppendInvoked, Answered, Wrote
    <3>2. loc[d].at \notin view.invoked
      BY <1>3, <2>2, <3>1 DEF AppendInvoked, Answered, At, OnceInv
    <3>3. Contract!Invoke(loc[d].at)
      BY <1>3, <2>2, <3>1, <3>2 DEF Contract!Invoke
    <3> QED
      BY <2>1, <3>3 DEF Contract!Next
  <2> QED
    BY <2>3, <2>4
<1>4. ASSUME NEW d \in Drives, BeginExecution(d), ~lost', ~crossed'
      PROVE  [Contract!Next]_Contract!contractVars
  <2>1. loc[d].at \in Steps
    BY <1>4 DEF BeginExecution, At, TypeInv, InHand
  <2>2. UNCHANGED <<view, lost, crossed>> /\ ~lost /\ ~crossed
    BY <1>4 DEF BeginExecution, durable
  <2>3. /\ loc[d].at \in view.invoked \ view.settled
        /\ loc[d].at \notin done /\ repeated = {}
    BY <1>4, <2>2 DEF BeginExecution, At, OnceInv
  <2>4. CASE UNCHANGED <<done, repeated>>
    BY <2>2, <2>4 DEF Contract!contractVars
  <2>5. CASE done' = done \cup {loc[d].at} /\ repeated' = repeated
    <3>1. times' = [times EXCEPT ![loc[d].at] = 1] /\ times[loc[d].at] = 0
      BY <2>1, <2>3, <2>5
    <3>2. \E s \in Steps : Contract!Perform(s)
      BY <2>1, <2>2, <2>3, <3>1 DEF Contract!Perform
    <3> QED
      BY <3>2 DEF Contract!Next
  <2> QED
    BY <1>4, <2>3, <2>4, <2>5 DEF BeginExecution
<1>5. ASSUME NEW d \in Drives, AppendSettled(d), ~lost', ~crossed'
      PROVE  [Contract!Next]_Contract!contractVars
  <2>1. loc[d].at \in Steps
    BY <1>5 DEF AppendSettled, Answered, At, TypeInv, InHand
  <2>2. UNCHANGED <<crossed, done, repeated>>
    BY <1>5 DEF AppendSettled, Answered, effects
  <2>3. CASE Refused(d)
    BY <1>5, <2>2, <2>3 DEF AppendSettled, Answered, Contract!contractVars
  <2>4. CASE ~Refused(d)
    <3>1. /\ ~lost /\ view'.settled = view.settled \cup {loc[d].at}
          /\ view'.invoked = view.invoked
      BY <1>5, <1>a, <2>4, WriteSettled DEF AppendSettled, Answered, Wrote
    <3>2. loc[d].at \in view.invoked \ view.settled
      BY <1>5, <2>2, <3>1 DEF AppendSettled, Answered, At, OnceInv
    <3>3. Contract!Settle(loc[d].at)
      BY <1>5, <2>2, <3>1, <3>2 DEF Contract!Settle
    <3> QED
      BY <2>1, <3>3 DEF Contract!Next
  <2> QED
    BY <2>3, <2>4
<1> QED
    BY <1>1, <1>2, <1>3, <1>4, <1>5, TouchedByThree DEF Touches

\* Under the same condition the run implements the step contract: it starts as
\* the contract does, and each of its steps is one of the contract's or none.
THEOREM ContractTheorem == Spec => ImplementsContract
<1>1. Init => ClaimInv /\ OnceInv
    BY NoDriveAssumption
    DEF Init, ClaimInv, Carrying, Actors, OnceInv, EmptyView
<1>2. ClaimInv => OneDriverUnlessClaimsCross
    BY DEF ClaimInv, OneDriver, OneDriverUnlessClaimsCross
<1>3. TypeInv /\ ClaimInv /\ [Next]_vars => ClaimInv'
    BY ClaimInductive
<1>4. Init => Contract!Init
    BY DEF Init, Contract!Init, EmptyView
<1> QED
    BY <1>1, <1>2, <1>3, <1>4, InitType, TypeInductive, OnceInductive,
       ContractStep, PTL DEF Spec, ImplementsContract, Contract!Spec
=============================================================================
