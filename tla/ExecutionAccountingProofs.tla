--------------------- MODULE ExecutionAccountingProofs ---------------------
(***************************************************************************)
(* Theorems about ExecutionAccounting for any runs, any finite set of      *)
(* calls, and any ceilings.                                                *)
(***************************************************************************)
EXTENDS ExecutionAccounting, FiniteSetTheorems, TLAPS

-----------------------------------------------------------------------------
(* The inductive invariant.                                                *)

Num(r, st) == Cardinality(Under(r, st))
States == {"executing", "settling"}
Ceiling == MaxStatements + MaxConcurrent - 1

\* ActiveIsTheCount, of one run.
Balanced(r) == account[r].active = Num(r, "executing")

\* finalize appends before it releases.
ClosingEnded(r) == closing[r] = "releasing" => status[r] = "ended"

\* A drive registered every run that has calls, and only an ending removes it.
Registered(r) == status[r] # "ended" /\ ~account[r].open => ~driven[r] /\ ~Busy(r)

\* The policy's two ceilings, of an account and of what may be seeded.
AccountKept(r) ==
    /\ account[r].active <= MaxConcurrent
    /\ account[r].executed + account[r].active <= Ceiling
    /\ completed[r] <= Ceiling
    /\ ~account[r].open => account[r].active = 0 /\ account[r].executed = 0

\* The account has counted whatever the ledger has, and what it is about to.
LedgerBehind(r) ==
    status[r] # "ended" /\ account[r].open =>
        completed[r] + Num(r, "settling") <= account[r].executed

\* Every statement is under way, recorded or lost.
SpentIsKnown(r) ==
    status[r] # "ended" =>
        spent[r] = completed[r] + lost[r] + Num(r, "executing")
                     + Num(r, "settling")

\* Without a crash the account counts them all.
SpentExactly(r) ==
    restarts = 0 /\ status[r] # "ended" =>
        /\ spent[r] = account[r].executed + account[r].active
        /\ ~account[r].open => completed[r] = 0

RunInv(r) == /\ Balanced(r) /\ ClosingEnded(r) /\ Registered(r)
             /\ AccountKept(r) /\ LedgerBehind(r) /\ SpentIsKnown(r)
             /\ SpentExactly(r)

CountInv == TypeOK /\ \A r \in Runs : RunInv(r)

-----------------------------------------------------------------------------
(* Counting calls.                                                         *)

\* The calls of a run in a state are finitely many, and none when their number
\* is zero.
LEMMA Counted ==
    ASSUME NEW r \in Runs, NEW st \in States
    PROVE  /\ IsFiniteSet(Under(r, st))
           /\ Num(r, st) \in Nat
           /\ Num(r, st) = 0 <=> Under(r, st) = {}
<1>1. Under(r, st) \in SUBSET Calls
    BY DEF Under
<1>2. IsFiniteSet(Under(r, st))
    BY <1>1, FS_Subset, AccountingAssumption
<1> QED
    BY <1>2, FS_CardinalityType, FS_EmptySet DEF Num

\* A call that moves leaves one count and joins another.
LEMMA CallMoves ==
    ASSUME TypeOK, NEW c \in Calls, NEW k, SetCall(c, k),
           NEW r \in Runs, NEW st \in States
    PROVE  Num(r, st)' = Num(r, st)
                           + (IF k.st = st /\ k.run = r THEN 1 ELSE 0)
                           - (IF c \in Under(r, st) THEN 1 ELSE 0)
<1> DEFINE Rest == Under(r, st) \ {c}
<1>1. /\ IsFiniteSet(Rest)
      /\ Cardinality(Rest) = IF c \in Under(r, st) THEN Num(r, st) - 1
                                                   ELSE Num(r, st)
    BY Counted, FS_RemoveElement DEF Num
<1>2. Num(r, st) \in Nat /\ Cardinality(Rest) \in Nat
    BY <1>1, Counted, FS_CardinalityType
<1>3. \A d \in Calls : call'[d] = IF d = c THEN k ELSE call[d]
    BY DEF SetCall, TypeOK
<1>4. CASE k.st = st /\ k.run = r
    <2>1. Under(r, st)' = Rest \cup {c}
        BY <1>3, <1>4 DEF Under
    <2>2. Cardinality(Rest \cup {c}) = Cardinality(Rest) + 1
        BY <1>1, FS_AddElement
    <2> QED
        BY <1>1, <1>2, <1>4, <2>1, <2>2 DEF Num
<1>5. CASE ~(k.st = st /\ k.run = r)
    <2>1. Under(r, st)' = Rest
        BY <1>3, <1>5 DEF Under
    <2> QED
        BY <1>1, <1>2, <1>5, <2>1 DEF Num
<1> QED
    BY <1>4, <1>5

\* When no call moves no count changes.
LEMMA CallStays ==
    ASSUME UNCHANGED call, NEW r \in Runs
    PROVE  /\ \A st \in States : Num(r, st)' = Num(r, st)
           /\ Busy(r)' = Busy(r)
           /\ Executing(r)' = Executing(r)
BY DEF Num, Under, Busy, Executing

-----------------------------------------------------------------------------
(* Types.                                                                  *)

\* An execution that returns is one its account counts.
LEMMA ExecutingIsActive ==
    ASSUME TypeOK, ActiveIsTheCount, NEW c \in Calls, call[c].st = "executing"
    PROVE  /\ call[c].run \in Runs
           /\ c \in Executing(call[c].run)
           /\ account[call[c].run].active \in Nat \ {0}
<1>1. call[c] \in CallType
    BY DEF TypeOK
<1>2. call[c].run \in Runs
    BY <1>1 DEF CallType
<1>3. c \in Executing(call[c].run)
    BY DEF Executing, Under
<1>4. Num(call[c].run, "executing") \in Nat \ {0}
    BY <1>2, <1>3, Counted DEF States, Executing
<1> QED
    BY <1>2, <1>3, <1>4 DEF ActiveIsTheCount, Num, Executing

\* The other states a call has a run in.
LEMMA CallHasRun ==
    ASSUME TypeOK, NEW c \in Calls, call[c].st # "idle"
    PROVE  call[c].run \in Runs
<1>1. call[c] \in CallType
    BY DEF TypeOK
<1> QED
    BY <1>1 DEF CallType

\* The store only ever holds artifacts.
LEMMA PutType ==
    ASSUME TypeOK, NEW r \in Runs, NEW t \in Nat,
           Put([run |-> r, start |-> t, at |-> puts])
    PROVE  /\ store' \subseteq [run : Runs, start : Nat, at : Nat]
           /\ puts' \in Nat
BY DEF TypeOK, Put, WithinAllowance, WithinCap, Evict, HeldBy

\* What the tracker's operations make of an account is an account.
LEMMA AccountTypes ==
    ASSUME NEW u \in AccountType
    PROVE  /\ NoAccount \in AccountType
           /\ \A n \in Nat : Seeded(u, n) \in AccountType
           /\ Begun(u) \in AccountType
           /\ u.active # 0 => Ended(u) \in AccountType
<1>1. u.active \in Nat /\ u.executed \in Nat /\ u.open \in BOOLEAN
    BY DEF AccountType
<1>2. \A n \in Nat : Account(n) \in AccountType
    BY DEF Account, AccountType
<1>3. Begun(u) \in AccountType
    BY <1>1 DEF Begun, AccountType
<1>4. ASSUME u.active # 0
      PROVE  Ended(u) \in AccountType
    <2>1. u.active - 1 \in Nat /\ u.executed + 1 \in Nat
        BY <1>1, <1>4
    <2> QED
        BY <1>1, <2>1 DEF Ended, AccountType
<1>5. NoAccount \in AccountType
    BY DEF NoAccount, AccountType
<1> QED
    BY <1>2, <1>3, <1>4, <1>5 DEF Seeded

LEMMA TypeInit == Init => TypeOK
BY DEF NoAccount, AccountType, Init, TypeOK, Idle, CallType

LEMMA TypeRunStep ==
    ASSUME TypeOK, ActiveIsTheCount, NEW r \in Runs, RunStep(r)
    PROVE  TypeOK'
<1> USE DEF TypeOK
<1>1. CASE DriveStart(r)
    <2>1. account' \in [Runs -> AccountType]
        BY <1>1, AccountTypes DEF DriveStart
    <2>2. allowance' \in [Runs -> Nat]
        BY <1>1, AccountingAssumption DEF DriveStart, AllowanceOf
    <2>3. late' \subseteq Runs
        BY <1>1 DEF DriveStart
    <2> QED
        BY <1>1, <2>1, <2>2, <2>3 DEF DriveStart, ledger
<1>2. CASE DriveStop(r)
    BY <1>2 DEF DriveStop, ledger, books, counts, history
<1>3. CASE Pause(r)
    BY <1>3 DEF Pause, books, counts, history
<1>4. CASE Finalize(r)
    BY <1>4 DEF Finalize, ledger, books, counts, history
<1>5. CASE Finish(r)
    BY <1>5 DEF Finish, books, counts, history
<1>6. CASE Close(r)
    <2>1. NoAccount \in AccountType
        BY DEF NoAccount, AccountType
    <2>2. CASE Refuses(account[r])
        BY <1>6, <2>2 DEF Close, Release, books, ledger, counts
    <2>3. CASE ~Refuses(account[r])
        BY <1>6, <2>1, <2>3 DEF Close, Release, HeldBy, ledger, counts
    <2> QED
        BY <2>2, <2>3
<1> QED
    BY <1>1, <1>2, <1>3, <1>4, <1>5, <1>6 DEF RunStep

LEMMA TypeCallStep ==
    ASSUME TypeOK, ActiveIsTheCount, NEW c \in Calls, CallStep(c)
    PROVE  TypeOK'
<1> USE DEF TypeOK
<1>1. ASSUME NEW r \in Runs, Checkpoint(c, r)
      PROVE  TypeOK'
    <2>1. call' \in [Calls -> CallType]
        BY <1>1 DEF Checkpoint, SetCall, CallType
    <2> QED
        BY <1>1, <2>1 DEF Checkpoint, ledger, books, counts, history
<1>2. CASE Deny(c)
    <2>1. call' \in [Calls -> CallType]
        BY <1>2 DEF Deny, SetCall, CallType, Idle
    <2> QED
        BY <1>2, <2>1 DEF Deny, ledger, books, counts, history
<1>3. CASE Begin(c)
    <2>1. call[c].run \in Runs
        BY <1>3, CallHasRun DEF Begin
    <2>2. call' \in [Calls -> CallType]
        BY <1>3, <2>1 DEF Begin, SetCall, CallType
    <2>3. account' \in [Runs -> AccountType]
        BY <1>3, <2>1, AccountTypes DEF Begin
    <2> QED
        BY <1>3, <2>1, <2>2, <2>3 DEF Begin, ledger
<1>4. CASE Succeed(c)
    <2>1. call[c].run \in Runs /\ account[call[c].run].active \in Nat \ {0}
        BY <1>4, ExecutingIsActive DEF Succeed
    <2>2. call[c].start \in Nat
        BY <1>4 DEF Succeed, CallType
    <2>3. call' \in [Calls -> CallType]
        BY <1>4, <2>1 DEF Succeed, SetCall, CallType
    <2>4. account' \in [Runs -> AccountType]
        BY <1>4, <2>1, AccountTypes DEF Succeed
    <2>5. /\ store' \subseteq [run : Runs, start : Nat, at : Nat]
          /\ puts' \in Nat
        BY <1>4, <2>1, <2>2, PutType DEF Succeed
    <2> QED
        BY <1>4, <2>3, <2>4, <2>5 DEF Succeed, ledger, counts, history
<1>5. CASE Fail(c)
    <2>1. call[c].run \in Runs /\ account[call[c].run].active \in Nat \ {0}
        BY <1>5, ExecutingIsActive DEF Fail
    <2>2. call' \in [Calls -> CallType]
        BY <1>5 DEF Fail, SetCall, CallType, Idle
    <2>3. /\ account' = [account EXCEPT ![call[c].run] = Ended(@)]
          /\ lost' = [lost EXCEPT ![call[c].run] = @ + 1]
        BY <1>5 DEF Fail
    <2>4. account' \in [Runs -> AccountType]
        BY <2>1, <2>3, AccountTypes
    <2>5. lost' \in [Runs -> Nat]
        BY <2>1, <2>3
    <2> QED
        BY <1>5, <2>2, <2>4, <2>5 DEF Fail, ledger, counts
<1>6. CASE Settle(c)
    <2>1. call[c].run \in Runs
        BY <1>6, CallHasRun DEF Settle
    <2>2. call' \in [Calls -> CallType]
        BY <1>6 DEF Settle, SetCall, CallType, Idle
    <2>3. completed' \in [Runs -> Nat] /\ lost' \in [Runs -> Nat]
        BY <1>6, <2>1 DEF Settle
    <2> QED
        BY <1>6, <2>2, <2>3 DEF Settle, books, counts
<1> QED
    BY <1>1, <1>2, <1>3, <1>4, <1>5, <1>6 DEF CallStep

LEMMA TypeRestart ==
    ASSUME TypeOK, Restart
    PROVE  TypeOK'
<1> USE DEF TypeOK, Restart
<1>1. account' \in [Runs -> AccountType]
    BY DEF NoAccount, AccountType
<1>2. call' \in [Calls -> CallType]
    BY DEF Idle, CallType
<1>3. \A r \in Runs : /\ Cardinality(Executing(r)) \in Nat
                      /\ Cardinality(Under(r, "settling")) \in Nat
    BY Counted DEF States, Num, Executing
<1>4. lost' \in [Runs -> Nat]
    BY <1>3
<1> QED
    BY <1>1, <1>2, <1>4 DEF ledger

\* Every step keeps the types, given that the tracker is balanced: endExecution
\* never takes an active count below zero.
LEMMA TypeNext ==
    ASSUME TypeOK, ActiveIsTheCount, [Next]_vars
    PROVE  TypeOK'
<1>1. CASE UNCHANGED vars
    BY <1>1 DEF TypeOK, vars, ledger, books, counts, history
<1>2. CASE Tick
    BY <1>2 DEF Tick, TypeOK, ledger, books, history
<1> QED
    BY <1>1, <1>2, TypeRunStep, TypeCallStep, TypeRestart DEF Next

-----------------------------------------------------------------------------
(* One step of one run.                                                    *)

\* What a run's invariant speaks of.
Unmoved(r) ==
    /\ account'[r] = account[r] /\ closing'[r] = closing[r]
    /\ completed'[r] = completed[r] /\ spent'[r] = spent[r]
    /\ lost'[r] = lost[r] /\ restarts' = restarts
    /\ \A st \in States : Num(r, st)' = Num(r, st)

\* A step that leaves a run's books and its calls' counts alone, and gives it
\* neither a drive nor a call it may not have, keeps its invariant.
LEMMA UnmovedKeeps ==
    ASSUME NEW r \in Runs, RunInv(r), Unmoved(r),
           status'[r] # "ended" => status[r] # "ended",
           closing[r] = "releasing" => status'[r] = status[r],
           driven'[r] /\ status'[r] # "ended" => driven[r] \/ account[r].open,
           Busy(r)' => Busy(r) \/ account[r].open
    PROVE  RunInv(r)'
<1> USE DEF RunInv, Unmoved, States
<1>1. Balanced(r)'
    BY DEF Balanced
<1>2. ClosingEnded(r)'
    BY DEF ClosingEnded
<1>3. Registered(r)'
    BY DEF Registered
<1>4. AccountKept(r)'
    BY DEF AccountKept
<1>5. LedgerBehind(r)'
    BY DEF LedgerBehind
<1>6. SpentIsKnown(r)'
    BY DEF SpentIsKnown
<1>7. SpentExactly(r)'
    BY DEF SpentExactly
<1> QED
    BY <1>1, <1>2, <1>3, <1>4, <1>5, <1>6, <1>7

\* The types a run's arithmetic needs.
LEMMA RunTypes ==
    ASSUME TypeOK, NEW r \in Runs
    PROVE  /\ account[r].active \in Nat /\ account[r].executed \in Nat
           /\ account[r].open \in BOOLEAN
           /\ completed[r] \in Nat /\ spent[r] \in Nat /\ lost[r] \in Nat
           /\ Num(r, "executing") \in Nat /\ Num(r, "settling") \in Nat
           /\ Ceiling \in Nat /\ MaxConcurrent \in Nat \ {0}
           /\ Ceiling = MaxStatements + MaxConcurrent - 1
           /\ MaxStatements \in Nat \ {0}
<1>1. account[r] \in AccountType
    BY DEF TypeOK
<1>2. Num(r, "executing") \in Nat /\ Num(r, "settling") \in Nat
    BY Counted DEF States
<1> QED
    BY <1>1, <1>2, AccountingAssumption DEF TypeOK, AccountType, Ceiling

\* A call that moves concerns its own run: another's counts stay.
LEMMA OthersStay ==
    ASSUME TypeOK, NEW c \in Calls, NEW k, SetCall(c, k), call[c].st # "idle",
           NEW q \in Runs, q # call[c].run, k.st = "idle" \/ k.run # q
    PROVE  /\ \A st \in States : Num(q, st)' = Num(q, st)
           /\ Busy(q)' => Busy(q)
<1>1. ASSUME NEW st \in States
      PROVE  Num(q, st)' = Num(q, st)
    <2>1. c \notin Under(q, st)
        BY DEF Under
    <2>2. ~(k.st = st /\ k.run = q)
        BY DEF States
    <2> QED
        BY <2>1, <2>2, CallMoves, Counted
<1>2. Busy(q)' => Busy(q)
    BY DEF Busy, SetCall, TypeOK
<1> QED
    BY <1>1, <1>2

-----------------------------------------------------------------------------
(* Steps of a run.                                                         *)

\* seedUsage opens the account of a run with what the ledger shows, when there
\* is none; nothing of the run is under way then.
LEMMA DriveStartKeeps ==
    ASSUME CountInv, NEW r \in Runs, DriveStart(r), NEW q \in Runs
    PROVE  RunInv(q)'
<1>1. /\ \A st \in States : Num(q, st)' = Num(q, st)
      /\ Busy(q)' = Busy(q)
    BY CallStays DEF DriveStart
<1>2. TypeOK /\ RunInv(q)
    BY DEF CountInv
<1>3. /\ account' = [account EXCEPT ![r] = Seeded(@, completed[r])]
      /\ driven' = [driven EXCEPT ![r] = @ \/ status[r] = "running"]
      /\ UNCHANGED <<status, completed, closing, restarts, spent, lost>>
    BY DEF DriveStart, ledger
<1>4. CASE q = r /\ ~account[r].open
    <2>1. account'[q] = Account(completed[q])
        BY <1>2, <1>3, <1>4 DEF Seeded, TypeOK
    <2>2. /\ account'[q].active = 0 /\ account'[q].executed = completed[q]
          /\ account'[q].open
        BY <2>1 DEF Account
    <2> HIDE DEF TypeOK
    <2>3. account[q].active = 0 /\ account[q].executed = 0
        BY <1>2, <1>4 DEF RunInv, AccountKept
    <2>4. Num(q, "executing") = 0
        BY <1>2, <2>3 DEF RunInv, Balanced
    <2>5. Num(q, "settling") = 0 \/ status[q] = "ended"
        <3>1. ~Busy(q) => Under(q, "settling") = {}
            BY DEF Busy, Under
        <3> QED
            BY <1>2, <1>4, <3>1, Counted DEF RunInv, Registered, States
    <2>6. Balanced(q)' /\ ClosingEnded(q)' /\ Registered(q)'
        BY <1>1, <1>2, <1>3, <2>2, <2>4
           DEF Balanced, ClosingEnded, Registered, RunInv, States
    <2>7. AccountKept(q)'
        BY <1>2, <1>3, <2>2, RunTypes DEF AccountKept, RunInv, Ceiling
    <2>8. LedgerBehind(q)'
        BY <1>1, <1>2, <1>3, <2>2, <2>5, RunTypes DEF LedgerBehind, States
    <2>9. SpentIsKnown(q)'
        BY <1>1, <1>2, <1>3 DEF SpentIsKnown, RunInv, States
    <2>10. SpentExactly(q)'
        BY <1>2, <1>3, <1>4, <2>2, <2>3 DEF SpentExactly, RunInv
    <2> QED
        BY <2>6, <2>7, <2>8, <2>9, <2>10 DEF RunInv
<1>5. CASE ~(q = r /\ ~account[r].open)
    <2>1. account'[q] = account[q]
        BY <1>2, <1>3, <1>5 DEF Seeded, TypeOK
    <2>2. driven'[q] => driven[q] \/ account[q].open
        BY <1>2, <1>3, <1>5 DEF TypeOK
    <2> QED
        BY <1>1, <1>2, <1>3, <2>1, <2>2, UnmovedKeeps DEF Unmoved
<1> QED
    BY <1>4, <1>5

\* The other steps of a drive and of a finalizer move no count but Close's.
LEMMA RunStepKeeps ==
    ASSUME CountInv, NEW r \in Runs, RunStep(r), NEW q \in Runs
    PROVE  RunInv(q)'
<1>1. TypeOK /\ RunInv(q) /\ RunInv(r)
    BY DEF CountInv
<1>2. CASE DriveStop(r) \/ Pause(r) \/ Finalize(r)
    <2>2. Busy(q)' = Busy(q) /\ \A st \in States : Num(q, st)' = Num(q, st)
        BY <1>2, CallStays DEF DriveStop, Pause, Finalize
    <2>3. /\ driven'[q] => driven[q]
          /\ status'[q] # "ended" => status[q] # "ended"
        BY <1>1, <1>2
           DEF TypeOK, DriveStop, Pause, Finalize, ledger
    <2>4. CASE DriveStop(r) \/ Pause(r)
        <3>1. closing[q] = "releasing" => status'[q] = status[q]
            BY <1>1, <2>4 DEF TypeOK, DriveStop, Pause, ledger, RunInv,
                              ClosingEnded
        <3>2. Unmoved(q)
            BY <2>4, CallStays
               DEF Unmoved, DriveStop, Pause, ledger, books, counts, history
        <3> QED
            BY <1>1, <2>2, <2>3, <3>1, <3>2, UnmovedKeeps
    <2>5. CASE Finalize(r)
        <3>1. /\ UNCHANGED <<status, completed, account, restarts, spent, lost>>
              /\ closing'[q] = closing[q] \/ closing'[q] = "appending"
            BY <1>1, <2>5
               DEF TypeOK, Finalize, ledger, books, counts, history
        <3> QED
            BY <1>1, <2>2, <2>3, <3>1
               DEF RunInv, Balanced, ClosingEnded, Registered, AccountKept,
                   LedgerBehind, SpentIsKnown, SpentExactly, States
    <2> QED
        BY <1>2, <2>4, <2>5
<1>3. CASE Finish(r)
    <2>1. Busy(q)' = Busy(q) /\ \A st \in States : Num(q, st)' = Num(q, st)
        BY <1>3, CallStays DEF Finish
    <2>2. /\ UNCHANGED <<completed, driven, account, restarts, spent, lost>>
          /\ IF q = r THEN status'[q] = "ended"
                      ELSE status'[q] = status[q] /\ closing'[q] = closing[q]
        BY <1>1, <1>3 DEF TypeOK, Finish, books, counts, history
    <2> QED
        BY <1>1, <2>1, <2>2
           DEF RunInv, Balanced, ClosingEnded, Registered, AccountKept,
               LedgerBehind, SpentIsKnown, SpentExactly, States
<1>4. CASE Close(r)
    <2>1. Busy(q)' = Busy(q) /\ \A st \in States : Num(q, st)' = Num(q, st)
        BY <1>4, CallStays DEF Close
    <2>2. /\ UNCHANGED <<status, completed, driven, restarts, spent, lost>>
          /\ closing'[q] = IF q = r THEN "no" ELSE closing[q]
          /\ status[r] = "ended"
        BY <1>1, <1>4
           DEF TypeOK, Close, ledger, counts, RunInv, ClosingEnded
    <2>3. \/ account'[q] = account[q]
          \/ /\ q = r /\ account[q].active = 0
             /\ account'[q] = NoAccount
        BY <1>1, <1>4, RunTypes DEF TypeOK, Close, Release, Refuses, books
    <2>4. NoAccount.active = 0 /\ NoAccount.executed = 0 /\ ~NoAccount.open
        BY DEF NoAccount
    <2>5. AccountKept(q)'
        BY <1>1, <2>2, <2>3, <2>4, RunTypes DEF AccountKept, RunInv, Ceiling
    <2> QED
        BY <1>1, <2>1, <2>2, <2>3, <2>4, <2>5
           DEF RunInv, Balanced, ClosingEnded, Registered,
               LedgerBehind, SpentIsKnown, SpentExactly, States
<1> QED
    BY <1>2, <1>3, <1>4, DriveStartKeeps DEF RunStep

-----------------------------------------------------------------------------
(* Steps of a call.                                                        *)

\* Checkpoint and Deny move no count: they only start and drop a call.
LEMMA CheckpointKeeps ==
    ASSUME CountInv, NEW c \in Calls, NEW r \in Runs, Checkpoint(c, r),
           NEW q \in Runs
    PROVE  RunInv(q)'
<1>1. TypeOK /\ RunInv(q)
    BY DEF CountInv
<1>2. \A st \in States : Num(q, st)' = Num(q, st)
    <2> SUFFICES ASSUME NEW st \in States
                 PROVE  Num(q, st)' = Num(q, st)
        OBVIOUS
    <2>1. c \notin Under(q, st)
        BY DEF Checkpoint, Under, States
    <2>2. Num(q, st)' = Num(q, st) + 0 - 0
        BY <1>1, <2>1, CallMoves DEF Checkpoint, States
    <2> QED
        BY <2>2, Counted
<1>3. Busy(q)' => Busy(q) \/ account[q].open
    <2>1. CASE q = r
        BY <1>1, <2>1 DEF Checkpoint, RunInv, Registered
    <2>2. CASE q # r
        BY <1>1, <2>2 DEF Checkpoint, SetCall, Busy, TypeOK
    <2> QED
        BY <2>1, <2>2
<1>4. Unmoved(q)
    BY <1>2 DEF Unmoved, Checkpoint, ledger, books, counts, history
<1> QED
    BY <1>1, <1>3, <1>4, UnmovedKeeps
       DEF Checkpoint, ledger, RunInv, ClosingEnded

LEMMA DenyKeeps ==
    ASSUME CountInv, NEW c \in Calls, Deny(c), NEW q \in Runs
    PROVE  RunInv(q)'
<1>1. TypeOK /\ RunInv(q)
    BY DEF CountInv
<1>2. \A st \in States : Num(q, st)' = Num(q, st)
    <2> SUFFICES ASSUME NEW st \in States
                 PROVE  Num(q, st)' = Num(q, st)
        OBVIOUS
    <2>1. c \notin Under(q, st)
        BY DEF Deny, Under, States
    <2>2. Num(q, st)' = Num(q, st) + 0 - 0
        BY <1>1, <2>1, CallMoves DEF Deny, States, Idle
    <2> QED
        BY <2>2, Counted
<1>3. Busy(q)' => Busy(q)
    BY <1>1 DEF Deny, SetCall, Busy, TypeOK, Idle
<1>4. Unmoved(q)
    BY <1>2 DEF Unmoved, Deny, ledger, books, counts, history
<1> QED
    BY <1>1, <1>3, <1>4, UnmovedKeeps DEF Deny, ledger, RunInv, ClosingEnded

\* beginExecution, after the policy: one more live, within both ceilings.
LEMMA BeginKeeps ==
    ASSUME CountInv, NEW c \in Calls, Begin(c), NEW q \in Runs
    PROVE  RunInv(q)'
<1> DEFINE r == call[c].run
           k == [st |-> "executing", run |-> r, start |-> now]
<1>1. TypeOK /\ RunInv(q) /\ r \in Runs
    BY CallHasRun DEF CountInv, Begin
<1>2. /\ call[c].st = "checked" /\ Admits(account[r])
      /\ account' = [account EXCEPT ![r] = Begun(@)]
      /\ SetCall(c, k)
      /\ spent' = [spent EXCEPT ![r] = @ + 1]
      /\ UNCHANGED <<status, completed, driven, closing, restarts, lost>>
    BY DEF Begin, ledger
<1>3. CASE q # r
    <2>1. /\ \A st \in States : Num(q, st)' = Num(q, st)
          /\ Busy(q)' => Busy(q)
        BY <1>1, <1>2, <1>3, OthersStay
    <2>2. Unmoved(q)
        BY <1>1, <1>2, <1>3, <2>1 DEF Unmoved, TypeOK
    <2> QED
        BY <1>1, <1>2, <2>1, <2>2, UnmovedKeeps DEF RunInv, ClosingEnded
<1>4. CASE q = r
    <2>1. /\ c \notin Under(r, "executing") /\ c \notin Under(r, "settling")
          /\ Busy(r)
        BY <1>2 DEF Under, Busy
    <2>2. /\ Num(q, "executing")' = Num(q, "executing") + 1
          /\ Num(q, "settling")' = Num(q, "settling")
        BY <1>1, <1>2, <1>4, <2>1, CallMoves, RunTypes DEF States
    <2>3. /\ account'[q].active = account[q].active + 1
          /\ account'[q].executed = account[q].executed /\ account'[q].open
          /\ spent'[q] = spent[q] + 1
        BY <1>1, <1>2, <1>4 DEF Begun, TypeOK
    <2>4. /\ account[q].active < MaxConcurrent
          /\ account[q].executed + 1 <= MaxStatements
        BY <1>2, <1>4 DEF Admits
    <2>5. status[q] # "ended" => account[q].open
        BY <1>1, <1>4, <2>1 DEF RunInv, Registered
    <2>6. Balanced(q)' /\ ClosingEnded(q)' /\ Registered(q)'
        BY <1>1, <1>2, <2>2, <2>3
           DEF Balanced, ClosingEnded, Registered, RunInv
    <2>7. AccountKept(q)'
        BY <1>1, <1>2, <2>3, <2>4, RunTypes DEF AccountKept, RunInv, Ceiling
    <2>8. LedgerBehind(q)'
        BY <1>1, <1>2, <2>2, <2>3, <2>5 DEF LedgerBehind, RunInv
    <2>9. SpentIsKnown(q)'
        BY <1>1, <1>2, <2>2, <2>3, RunTypes DEF SpentIsKnown, RunInv
    <2>10. SpentExactly(q)'
        BY <1>1, <1>2, <2>3, RunTypes DEF SpentExactly, RunInv
    <2> QED
        BY <2>6, <2>7, <2>8, <2>9, <2>10 DEF RunInv
<1> QED
    BY <1>3, <1>4

\* endExecution on either path: one live execution fewer, one executed more;
\* what succeeded is about to be recorded, and what failed is lost.
LEMMA EndKeeps ==
    ASSUME CountInv, NEW c \in Calls, Succeed(c) \/ Fail(c), NEW q \in Runs
    PROVE  RunInv(q)'
<1> DEFINE r == call[c].run
           ok == [st |-> "settling", run |-> r]
<1>1. TypeOK /\ RunInv(q) /\ ActiveIsTheCount
    BY DEF CountInv, RunInv, Balanced, ActiveIsTheCount, Num, Executing
<1>2. call[c].st = "executing"
    BY DEF Succeed, Fail
<1>3. r \in Runs /\ c \in Executing(r) /\ account[r].active \in Nat \ {0}
    BY <1>1, <1>2, ExecutingIsActive
<1>4. /\ account' = [account EXCEPT ![r] = Ended(@)]
      /\ UNCHANGED <<status, completed, driven, closing, restarts, spent>>
      /\ \/ SetCall(c, ok) /\ UNCHANGED lost
         \/ SetCall(c, Idle) /\ lost' = [lost EXCEPT ![r] = @ + 1]
    BY DEF Succeed, Fail, ledger, counts, history
<1>5. CASE q # r
    <2>1. /\ \A st \in States : Num(q, st)' = Num(q, st)
          /\ Busy(q)' => Busy(q)
        BY <1>1, <1>2, <1>4, <1>5, OthersStay DEF Idle
    <2>2. Unmoved(q)
        BY <1>1, <1>3, <1>4, <1>5, <2>1 DEF Unmoved, TypeOK
    <2> QED
        BY <1>1, <1>4, <2>1, <2>2, UnmovedKeeps DEF RunInv, ClosingEnded
<1>6. CASE q = r
    <2>1. c \in Under(r, "executing") /\ c \notin Under(r, "settling")
        BY <1>2, <1>3 DEF Under, Executing
    <2>2. Num(q, "executing")' = Num(q, "executing") - 1
        BY <1>1, <1>3, <1>4, <1>6, <2>1, CallMoves, RunTypes DEF States, Idle
    <2>3. \/ /\ Num(q, "settling")' = Num(q, "settling") + 1
             /\ lost'[q] = lost[q]
          \/ /\ Num(q, "settling")' = Num(q, "settling")
             /\ lost'[q] = lost[q] + 1
        BY <1>1, <1>3, <1>4, <1>6, <2>1, CallMoves, RunTypes
           DEF States, Idle, TypeOK
    <2>4. /\ account'[q].active = account[q].active - 1
          /\ account'[q].executed = account[q].executed + 1
          /\ account'[q].open = account[q].open
        BY <1>1, <1>3, <1>4, <1>6 DEF Ended, TypeOK
    <2>5. account[q].open
        BY <1>1, <1>3, <1>6 DEF RunInv, AccountKept
    <2>6. Balanced(q)' /\ ClosingEnded(q)' /\ Registered(q)'
        BY <1>1, <1>4, <2>2, <2>4, <2>5
           DEF Balanced, ClosingEnded, Registered, RunInv
    <2>6a. /\ account'[q].executed + account'[q].active
               = account[q].executed + account[q].active
           /\ account'[q].active <= account[q].active
        BY <1>1, <2>4, RunTypes
    <2>7. AccountKept(q)'
        <3>1. AccountKept(q) /\ MaxConcurrent \in Nat
            BY <1>1, RunTypes DEF RunInv
        <3>2. account'[q].active <= MaxConcurrent
            BY <1>1, <2>4, <3>1, RunTypes DEF AccountKept
        <3> QED
            BY <1>4, <2>4, <2>5, <2>6a, <3>1, <3>2 DEF AccountKept, Ceiling
    <2>8. LedgerBehind(q)'
        BY <1>1, <1>4, <2>3, <2>4, RunTypes DEF LedgerBehind, RunInv
    <2>9. SpentIsKnown(q)'
        BY <1>1, <1>4, <2>2, <2>3, RunTypes DEF SpentIsKnown, RunInv
    <2>10. SpentExactly(q)'
        BY <1>1, <1>4, <2>4, <2>5, <2>6a DEF SpentExactly, RunInv
    <2> QED
        BY <2>6, <2>7, <2>8, <2>9, <2>10 DEF RunInv
<1> QED
    BY <1>5, <1>6

\* What was about to be recorded is, or is lost.
LEMMA SettleKeeps ==
    ASSUME CountInv, NEW c \in Calls, Settle(c), NEW q \in Runs
    PROVE  RunInv(q)'
<1> DEFINE r == call[c].run
<1>1. TypeOK /\ RunInv(q) /\ r \in Runs
    BY CallHasRun DEF CountInv, Settle
<1>2. /\ call[c].st = "settling" /\ SetCall(c, Idle)
      /\ UNCHANGED <<status, driven, account, closing, restarts, spent>>
      /\ \/ /\ status[r] # "ended" /\ UNCHANGED lost
            /\ completed' = [completed EXCEPT ![r] = @ + 1]
         \/ /\ lost' = [lost EXCEPT ![r] = @ + 1] /\ UNCHANGED completed
    BY DEF Settle, books, counts
<1>3. Busy(q)' => Busy(q)
    BY <1>1, <1>2 DEF SetCall, Busy, TypeOK, Idle
<1>4. CASE q # r
    <2>1. \A st \in States : Num(q, st)' = Num(q, st)
        BY <1>1, <1>2, <1>4, OthersStay DEF Idle
    <2>2. Unmoved(q)
        BY <1>1, <1>2, <1>4, <2>1 DEF Unmoved, TypeOK
    <2> QED
        BY <1>1, <1>2, <1>3, <2>2, UnmovedKeeps DEF RunInv, ClosingEnded
<1>5. CASE q = r
    <2>1. /\ c \notin Under(r, "executing") /\ c \in Under(r, "settling")
          /\ Busy(r)
        BY <1>2 DEF Under, Busy
    <2>2. /\ Num(q, "executing")' = Num(q, "executing")
          /\ Num(q, "settling")' = Num(q, "settling") - 1
          /\ Num(q, "settling") \in Nat \ {0}
        BY <1>1, <1>2, <1>5, <2>1, CallMoves, RunTypes, Counted
           DEF States, Idle
    <2>3. status[q] # "ended" => account[q].open
        BY <1>1, <1>5, <2>1 DEF RunInv, Registered
    <2>4. \/ /\ status[q] # "ended" /\ lost'[q] = lost[q]
             /\ completed'[q] = completed[q] + 1
          \/ lost'[q] = lost[q] + 1 /\ completed'[q] = completed[q]
        BY <1>1, <1>2, <1>5 DEF TypeOK
    <2>5. Balanced(q)' /\ ClosingEnded(q)' /\ Registered(q)'
        BY <1>1, <1>2, <1>3, <2>2
           DEF Balanced, ClosingEnded, Registered, RunInv
    <2>6. LedgerBehind(q)'
        BY <1>1, <1>2, <2>2, <2>4, RunTypes DEF LedgerBehind, RunInv
    <2>7. completed'[q] <= Ceiling
        <3>1. CASE completed'[q] = completed[q]
            BY <1>1, <3>1 DEF RunInv, AccountKept
        <3>2. CASE status[q] # "ended" /\ completed'[q] = completed[q] + 1
            <4>1. completed'[q] <= account[q].executed
                BY <1>1, <2>2, <2>3, <3>2, RunTypes DEF RunInv, LedgerBehind
            <4> QED
                BY <1>1, <3>2, <4>1, RunTypes DEF RunInv, AccountKept
        <3> QED
            BY <2>4, <3>1, <3>2
    <2>8. AccountKept(q)'
        BY <1>1, <1>2, <2>7 DEF AccountKept, RunInv, Ceiling
    <2>9. SpentIsKnown(q)'
        BY <1>1, <1>2, <2>2, <2>4, RunTypes DEF SpentIsKnown, RunInv
    <2>10. SpentExactly(q)'
        BY <1>1, <1>2, <2>3 DEF SpentExactly, RunInv
    <2> QED
        BY <2>5, <2>6, <2>8, <2>9, <2>10 DEF RunInv
<1> QED
    BY <1>4, <1>5

\* A crash empties the tracker and the calls together, and what the ledger has
\* not recorded is lost.
LEMMA RestartKeeps ==
    ASSUME CountInv, Restart, NEW q \in Runs
    PROVE  RunInv(q)'
<1>1. TypeOK /\ RunInv(q)
    BY DEF CountInv
<1>2. /\ account'[q] = NoAccount /\ closing'[q] = "no"
      /\ driven'[q] = FALSE
      /\ restarts' # 0
      /\ UNCHANGED <<status, completed, spent>>
    BY <1>1 DEF Restart, TypeOK, ledger
<1>3. lost'[q] = lost[q] + Num(q, "executing") + Num(q, "settling")
    BY DEF Restart, Num, Executing
<1>4. ~Busy(q)' /\ \A st \in States : Num(q, st)' = 0
    <2>1. \A c \in Calls : call'[c].st = "idle"
        BY DEF Restart, Idle
    <2>2. \A st \in States : Under(q, st)' = {}
        BY <2>1 DEF Under, States
    <2> QED
        BY <2>1, <2>2, FS_EmptySet DEF Busy, Num
<1>5. NoAccount.active = 0 /\ NoAccount.executed = 0 /\ ~NoAccount.open
    BY DEF NoAccount
<1>6. Balanced(q)' /\ ClosingEnded(q)' /\ Registered(q)'
    BY <1>2, <1>4, <1>5 DEF Balanced, ClosingEnded, Registered, States
<1>7. AccountKept(q)'
    BY <1>1, <1>2, <1>5, RunTypes DEF AccountKept, RunInv, Ceiling
<1>8. SpentIsKnown(q)'
    BY <1>1, <1>2, <1>3, <1>4, RunTypes DEF SpentIsKnown, RunInv, States
<1>9. LedgerBehind(q)' /\ SpentExactly(q)'
    BY <1>2, <1>5 DEF LedgerBehind, SpentExactly
<1> QED
    BY <1>6, <1>7, <1>8, <1>9 DEF RunInv

-----------------------------------------------------------------------------
(* Theorems.                                                               *)

LEMMA CountInit == Init => CountInv
<1> SUFFICES ASSUME Init
             PROVE  CountInv
    OBVIOUS
<1>1. TypeOK
    BY TypeInit
<1>2. ASSUME NEW r \in Runs
      PROVE  RunInv(r)
    <2>1. ~Busy(r) /\ \A st \in States : Num(r, st) = 0
        <3>1. \A c \in Calls : call[c].st = "idle"
            BY DEF Init, Idle
        <3>2. \A st \in States : Under(r, st) = {}
            BY <3>1 DEF Under, States
        <3> QED
            BY <3>1, <3>2, FS_EmptySet DEF Busy, Num
    <2>2. account[r].active = 0 /\ account[r].executed = 0 /\ ~account[r].open
        BY DEF Init, NoAccount
    <2>3. /\ ~driven[r] /\ closing[r] = "no" /\ completed[r] = 0
          /\ spent[r] = 0 /\ lost[r] = 0
        BY DEF Init
    <2>4. AccountKept(r)
        BY <1>1, <2>2, <2>3, RunTypes DEF AccountKept
    <2> QED
        BY <2>1, <2>2, <2>3, <2>4
           DEF RunInv, Balanced, ClosingEnded, Registered, LedgerBehind,
               SpentIsKnown, SpentExactly, States
<1> QED
    BY <1>1, <1>2 DEF CountInv

LEMMA CountNext == CountInv /\ [Next]_vars => CountInv'
<1> SUFFICES ASSUME CountInv, [Next]_vars
             PROVE  CountInv'
    OBVIOUS
<1>1. TypeOK /\ ActiveIsTheCount
    BY DEF CountInv, RunInv, Balanced, ActiveIsTheCount, Num, Executing
<1>2. TypeOK'
    BY <1>1, TypeNext
<1>3. ASSUME NEW q \in Runs
      PROVE  RunInv(q)'
    <2>1. CASE UNCHANGED vars \/ Tick
        <3>1. /\ UNCHANGED <<status, completed, driven, account, call, closing,
                            restarts, spent, lost>>
            BY <2>1 DEF vars, Tick, ledger, books, counts, history
        <3>2. Unmoved(q) /\ Busy(q)' = Busy(q)
            BY <3>1, CallStays DEF Unmoved
        <3> QED
            BY <3>1, <3>2, UnmovedKeeps DEF CountInv
    <2>2. ASSUME NEW c \in Calls, CallStep(c)
          PROVE  RunInv(q)'
        BY <2>2, CheckpointKeeps, DenyKeeps, BeginKeeps, EndKeeps, SettleKeeps
           DEF CallStep
    <2> QED
        BY <2>1, <2>2, RunStepKeeps, RestartKeeps DEF Next
<1> QED
    BY <1>2, <1>3 DEF CountInv

\* The inductive invariant holds of every behaviour.
THEOREM CountsHold == Spec => []CountInv
BY CountInit, CountNext, PTL DEF Spec

\* The module's state always has its types: no step takes an account's active
\* count below zero.
THEOREM TypesHold == Spec => []TypeOK
<1>1. CountInv => TypeOK
    BY DEF CountInv
<1> QED
    BY <1>1, CountsHold, PTL

\* endExecution is never unbalanced: the tracker's live count is the number of
\* statements running, whatever fails, pauses, resumes, ends or crashes.
THEOREM TrackerIsBalanced == Spec => []ActiveIsTheCount
<1>1. CountInv => ActiveIsTheCount
    BY DEF CountInv, RunInv, Balanced, ActiveIsTheCount, Num, Executing
<1> QED
    BY <1>1, CountsHold, PTL

\* No run has more statements running than maxConcurrentExecutions.
THEOREM ConcurrencyHolds == Spec => []WithinConcurrency
<1>1. CountInv => WithinConcurrency
    BY DEF CountInv, RunInv, Balanced, AccountKept, WithinConcurrency, Num,
           Executing
<1> QED
    BY <1>1, CountsHold, PTL

\* A run keeps its statement ceiling over its resumes, and over crashes up to
\* what failed or was never recorded.
THEOREM CeilingHolds == Spec => []CeilingKept
<1>1. ASSUME CountInv, NEW r \in Runs, status[r] # "ended"
      PROVE  spent[r] <= MaxStatements + MaxConcurrent - 1
                           + (IF restarts = 0 THEN 0 ELSE lost[r])
    <2>1. TypeOK /\ RunInv(r)
        BY <1>1 DEF CountInv
    <2>2. CASE restarts = 0
        BY <1>1, <2>1, <2>2, RunTypes DEF RunInv, SpentExactly, AccountKept
    <2>3. CASE restarts # 0
        <3>1. spent[r] = completed[r] + lost[r] + Num(r, "executing")
                           + Num(r, "settling")
            BY <1>1, <2>1 DEF RunInv, SpentIsKnown
        <3>2. CASE account[r].open
            <4>1. completed[r] + Num(r, "settling") + Num(r, "executing")
                    <= Ceiling
                BY <1>1, <2>1, <3>2, RunTypes
                   DEF RunInv, LedgerBehind, AccountKept, Balanced
            <4> QED
                BY <2>1, <2>3, <3>1, <4>1, RunTypes
        <3>3. CASE ~account[r].open
            <4>1. Under(r, "executing") = {} /\ Under(r, "settling") = {}
                BY <1>1, <2>1, <3>3 DEF RunInv, Registered, Busy, Under
            <4>2. Num(r, "executing") = 0 /\ Num(r, "settling") = 0
                BY <4>1, Counted DEF States
            <4> QED
                BY <2>1, <2>3, <3>1, <4>2, RunTypes DEF RunInv, AccountKept
        <3> QED
            BY <3>2, <3>3
    <2> QED
        BY <2>2, <2>3
<1>2. CountInv => CeilingKept
    BY <1>1 DEF CeilingKept
<1> QED
    BY <1>2, CountsHold, PTL

-----------------------------------------------------------------------------
(* The artifact store.                                                     *)

\* An eviction, a sweep and a put only ever add the artifact that is put.
LEMMA PutAdds ==
    ASSUME NEW r, NEW t, Put([run |-> r, start |-> t, at |-> puts])
    PROVE  store' \subseteq store \cup {[run |-> r, start |-> t, at |-> puts]}
BY DEF Put, WithinAllowance, WithinCap, Evict

\* An execution in progress keeps its run's account open, so nothing puts an
\* artifact into a run that was released.
LEMMA OutlivesCallStep ==
    ASSUME CountInv, NothingOutlives, NEW c \in Calls, CallStep(c)
    PROVE  NothingOutlives'
<1> SUFFICES ASSUME NEW q \in Runs, Over(q)', (q \notin late)'
             PROVE  /\ ~account'[q].open /\ allowance'[q] = 0
                    /\ HeldBy(store', q) = {}
    BY DEF NothingOutlives, HeldBy
<1>1. TypeOK /\ ActiveIsTheCount /\ RunInv(q)
    BY DEF CountInv, RunInv, Balanced, ActiveIsTheCount, Num, Executing
<1>2. UNCHANGED <<status, closing, allowance>> /\ late \subseteq late'
    BY DEF CallStep, Checkpoint, Deny, Begin, Succeed, Fail, Settle, ledger,
           books, history, counts
<1>3. Over(q) /\ q \notin late
    BY <1>2 DEF Over
<1>4. ~account[q].open /\ allowance[q] = 0 /\ HeldBy(store, q) = {}
    BY <1>3 DEF NothingOutlives
<1>5. CASE Begin(c)
    <2>1. call[c].run # q
        BY <1>2, <1>3, <1>5 DEF Begin
    <2> QED
        BY <1>1, <1>2, <1>4, <1>5, <2>1 DEF Begin, TypeOK
<1>6. CASE Succeed(c) \/ Fail(c)
    <2>1. /\ call[c].run \in Runs
          /\ account[call[c].run].active \in Nat \ {0}
        BY <1>1, <1>6, ExecutingIsActive DEF Succeed, Fail
    <2>2. call[c].run # q
        BY <1>1, <1>4, <2>1 DEF RunInv, AccountKept
    <2>3. account'[q] = account[q]
        BY <1>1, <1>6, <2>2 DEF Succeed, Fail, TypeOK
    <2>4. HeldBy(store', q) = {}
        <3>1. CASE Succeed(c)
            <4>1. store' \subseteq store \cup {[run |-> call[c].run,
                                     start |-> call[c].start, at |-> puts]}
                BY <3>1, PutAdds DEF Succeed
            <4> QED
                BY <1>4, <2>2, <4>1 DEF HeldBy
        <3>2. CASE Fail(c)
            BY <1>4, <3>2 DEF Fail
        <3> QED
            BY <1>6, <3>1, <3>2
    <2> QED
        BY <1>2, <1>4, <2>3, <2>4
<1>7. CASE (\E r \in Runs : Checkpoint(c, r)) \/ Deny(c) \/ Settle(c)
    BY <1>2, <1>4, <1>7 DEF Checkpoint, Deny, Settle, books
<1> QED
    BY <1>5, <1>6, <1>7 DEF CallStep

\* Only Close ends the closing of a run, and it releases everything or finds
\* the run late; and a drive of a run that is over makes it late.
LEMMA OutlivesRunStep ==
    ASSUME CountInv, NothingOutlives, NEW r \in Runs, RunStep(r)
    PROVE  NothingOutlives'
<1> SUFFICES ASSUME NEW q \in Runs, Over(q)', (q \notin late)'
             PROVE  /\ ~account'[q].open /\ allowance'[q] = 0
                    /\ HeldBy(store', q) = {}
    BY DEF NothingOutlives, HeldBy
<1>1. TypeOK
    BY DEF CountInv
<1>2. CASE DriveStart(r)
    <2>1. Over(q) /\ q \notin late /\ q # r
        BY <1>2 DEF DriveStart, Over, ledger
    <2> QED
        BY <1>1, <1>2, <2>1 DEF DriveStart, NothingOutlives, TypeOK
<1>3. CASE DriveStop(r) \/ Pause(r) \/ Finalize(r) \/ Finish(r)
    <2>1. /\ UNCHANGED <<books, late>>
          /\ Over(q)
        BY <1>1, <1>3
           DEF DriveStop, Pause, Finalize, Finish, Over, TypeOK, ledger, history
    <2> QED
        BY <2>1 DEF NothingOutlives, books
<1>4. CASE Close(r)
    <2>1. CASE q = r
        BY <1>1, <1>4, <2>1 DEF Close, Release, NoAccount, HeldBy, TypeOK
    <2>2. CASE q # r
        <3>1. Over(q) /\ q \notin late
            BY <1>1, <1>4, <2>2 DEF Close, Over, TypeOK, ledger
        <3> QED
            BY <1>1, <1>4, <2>2, <3>1
               DEF Close, Release, NothingOutlives, HeldBy, TypeOK, books
    <2> QED
        BY <2>1, <2>2
<1> QED
    BY <1>2, <1>3, <1>4 DEF RunStep

\* A run that has ended holds neither account nor allowance nor artifacts,
\* unless a drive or a statement came too late for its release.
THEOREM ReleaseIsComplete == Spec => []NothingOutlives
<1>1. Init => NothingOutlives
    BY DEF Init, NothingOutlives, Over
<1>2. CountInv /\ NothingOutlives /\ [Next]_vars => NothingOutlives'
    <2> SUFFICES ASSUME CountInv, NothingOutlives, [Next]_vars
                 PROVE  NothingOutlives'
        OBVIOUS
    <2>1. CASE UNCHANGED vars \/ Tick
        BY <2>1 DEF vars, Tick, NothingOutlives, Over, HeldBy, ledger, books,
                    history
    <2>2. CASE Restart
        BY <2>2 DEF Restart, NothingOutlives, NoAccount, HeldBy
    <2> QED
        BY <2>1, <2>2, OutlivesRunStep, OutlivesCallStep DEF Next
<1> QED
    BY <1>1, <1>2, CountsHold, PTL DEF Spec

\* No run holds more artifacts than the statements its account has executed,
\* and its allowance is never what is left of them (#999).
Held(r) == /\ IsFiniteSet(HeldBy(store, r))
           /\ Cardinality(HeldBy(store, r)) <= account[r].executed
           /\ allowance[r] \in {0, MaxStatements}

\* No artifact is numbered as the next one will be.
InOrder == \A a \in store : a.at < puts

StoreInv == InOrder /\ \A r \in Runs : Held(r)

\* Fewer artifacts, no fewer executed.
LEMMA FewerHeld ==
    ASSUME NEW S, IsFiniteSet(S), NEW T, T \subseteq S
    PROVE  IsFiniteSet(T) /\ Cardinality(T) <= Cardinality(S)
                          /\ Cardinality(T) \in Nat /\ Cardinality(S) \in Nat
BY FS_Subset, FS_CardinalityType

LEMMA HeldCallStep ==
    ASSUME CountInv, StoreInv, NEW c \in Calls, CallStep(c)
    PROVE  StoreInv'
<1>1. TypeOK /\ ActiveIsTheCount
    BY DEF CountInv, RunInv, Balanced, ActiveIsTheCount, Num, Executing
<1>2. CASE Succeed(c)
    <2> DEFINE r == call[c].run
               new == [run |-> r, start |-> call[c].start, at |-> puts]
    <2>1. r \in Runs /\ puts \in Nat /\ puts' = puts + 1
        BY <1>1, <1>2, CallHasRun DEF Succeed, Put, TypeOK
    <2>2. store' \subseteq store \cup {new}
        BY <1>2, PutAdds DEF Succeed
    <2>3. InOrder'
        BY <1>1, <2>1, <2>2 DEF StoreInv, InOrder, TypeOK
    <2>4. ASSUME NEW q \in Runs
          PROVE  Held(q)'
        <3>1. /\ IsFiniteSet(HeldBy(store, q))
              /\ Cardinality(HeldBy(store, q)) <= account[q].executed
              /\ allowance'[q] \in {0, MaxStatements}
            BY <1>2 DEF StoreInv, Held, Succeed
        <3>2. account[q].executed \in Nat
            BY <1>1, RunTypes
        <3>3. CASE q # r
            <4>1. HeldBy(store', q) \subseteq HeldBy(store, q)
                BY <2>2, <3>3 DEF HeldBy
            <4>2. account'[q] = account[q]
                BY <1>1, <1>2, <3>3 DEF Succeed, TypeOK
            <4> QED
                BY <3>1, <3>2, <4>1, <4>2, FewerHeld DEF Held, HeldBy
        <3>4. CASE q = r
            <4>1. HeldBy(store', q) \subseteq HeldBy(store, q) \cup {new}
                BY <2>2 DEF HeldBy
            <4>2. account'[q].executed = account[q].executed + 1
                BY <1>1, <1>2, <3>4 DEF Succeed, TypeOK, Ended
            <4>3. /\ IsFiniteSet(HeldBy(store, q) \cup {new})
                  /\ Cardinality(HeldBy(store, q) \cup {new})
                       <= Cardinality(HeldBy(store, q)) + 1
                <5>1. Cardinality(HeldBy(store, q)) \in Nat
                    BY <3>1, FS_CardinalityType
                <5>2. /\ IsFiniteSet(HeldBy(store, q) \cup {new})
                      /\ Cardinality(HeldBy(store, q) \cup {new})
                           = IF new \in HeldBy(store, q)
                             THEN Cardinality(HeldBy(store, q))
                             ELSE Cardinality(HeldBy(store, q)) + 1
                    <6> HIDE DEF new
                    <6> QED
                        BY <3>1, FS_AddElement
                <5> QED
                    BY <5>1, <5>2
            <4>4. /\ IsFiniteSet(HeldBy(store', q))
                  /\ Cardinality(HeldBy(store', q))
                       <= Cardinality(HeldBy(store, q) \cup {new})
                  /\ Cardinality(HeldBy(store', q)) \in Nat
                  /\ Cardinality(HeldBy(store, q) \cup {new}) \in Nat
                  /\ Cardinality(HeldBy(store, q)) \in Nat
                BY <3>1, <4>1, <4>3, FewerHeld
            <4>5. Cardinality(HeldBy(store', q)) <= account'[q].executed
                BY <3>1, <3>2, <4>2, <4>3, <4>4
            <4> QED
                BY <3>1, <4>4, <4>5 DEF Held, HeldBy
        <3> QED
            BY <3>3, <3>4
    <2> QED
        BY <2>3, <2>4 DEF StoreInv
<1>3. CASE Begin(c) \/ Fail(c)
    <2>1. call[c].run \in Runs /\ UNCHANGED <<store, puts, allowance>>
        BY <1>1, <1>3, CallHasRun DEF Begin, Fail
    <2>2. ASSUME NEW q \in Runs
          PROVE  account'[q].executed \in {account[q].executed,
                                           account[q].executed + 1}
        BY <1>1, <1>3 DEF Begin, Fail, Begun, Ended, TypeOK
    <2>3. ASSUME NEW q \in Runs
          PROVE  Held(q)'
        <3>1. Cardinality(HeldBy(store, q)) \in Nat
            BY FS_CardinalityType DEF StoreInv, Held
        <3> QED
            BY <1>1, <2>1, <2>2, <3>1, RunTypes DEF StoreInv, Held, HeldBy
    <2> QED
        BY <2>1, <2>3 DEF StoreInv, InOrder
<1>4. CASE (\E r \in Runs : Checkpoint(c, r)) \/ Deny(c) \/ Settle(c)
    BY <1>4 DEF Checkpoint, Deny, Settle, books, StoreInv, InOrder, Held, HeldBy
<1> QED
    BY <1>2, <1>3, <1>4 DEF CallStep

LEMMA HeldRunStep ==
    ASSUME CountInv, StoreInv, NEW r \in Runs, RunStep(r)
    PROVE  StoreInv'
<1>1. TypeOK
    BY DEF CountInv
<1>2. CASE DriveStart(r)
    <2>1. UNCHANGED <<store, puts>>
        BY <1>2 DEF DriveStart
    <2>2. ASSUME NEW q \in Runs
          PROVE  Held(q)'
        <3>1. RunInv(q) /\ account[q].executed \in Nat /\ completed[q] \in Nat
            BY <1>1, RunTypes DEF CountInv
        <3>2. account'[q].executed >= account[q].executed
            BY <1>1, <1>2, <3>1
               DEF DriveStart, Seeded, Account, TypeOK, RunInv, AccountKept
        <3>3. allowance'[q] \in {0, MaxStatements}
            BY <1>1, <1>2 DEF DriveStart, AllowanceOf, StoreInv, Held, TypeOK
        <3>4. account'[q].executed \in Nat
            BY <1>1, <1>2, <3>1 DEF DriveStart, Seeded, Account, TypeOK
        <3>5. Cardinality(HeldBy(store, q)) \in Nat
            BY FS_CardinalityType DEF StoreInv, Held
        <3> QED
            BY <2>1, <3>1, <3>2, <3>3, <3>4, <3>5 DEF StoreInv, Held, HeldBy
    <2> QED
        BY <2>1, <2>2 DEF StoreInv, InOrder
<1>3. CASE DriveStop(r) \/ Pause(r) \/ Finalize(r) \/ Finish(r)
    BY <1>3 DEF DriveStop, Pause, Finalize, Finish, books, StoreInv, InOrder,
                Held, HeldBy
<1>4. CASE Close(r)
    <2>1. CASE Refuses(account[r])
        BY <1>4, <2>1 DEF Close, Release, books, StoreInv, InOrder, Held, HeldBy
    <2>2. CASE ~Refuses(account[r])
        <3>1. /\ account' = [account EXCEPT ![r] = NoAccount]
              /\ allowance' = [allowance EXCEPT ![r] = 0]
              /\ store' = store \ HeldBy(store, r) /\ puts' = puts
            BY <1>4, <2>2 DEF Close, Release
        <3>2. ASSUME NEW q \in Runs
              PROVE  Held(q)'
            <4>1. CASE q = r
                <5>1. HeldBy(store', q) = {}
                    BY <3>1, <4>1 DEF HeldBy
                <5>2. account'[q].executed = 0 /\ allowance'[q] = 0
                    BY <1>1, <3>1, <4>1 DEF TypeOK, NoAccount
                <5>3. /\ IsFiniteSet(HeldBy(store', q))
                      /\ Cardinality(HeldBy(store', q)) = 0
                    BY <5>1, FS_EmptySet
                <5> QED
                    BY <5>2, <5>3 DEF Held, HeldBy
            <4>2. CASE q # r
                <5>1. HeldBy(store', q) = HeldBy(store, q)
                    BY <3>1, <4>2 DEF HeldBy
                <5>2. account'[q] = account[q] /\ allowance'[q] = allowance[q]
                    BY <1>1, <3>1, <4>2 DEF TypeOK
                <5> QED
                    BY <5>1, <5>2 DEF StoreInv, Held, HeldBy
            <4> QED
                BY <4>1, <4>2
        <3> QED
            BY <3>1, <3>2 DEF StoreInv, InOrder
    <2> QED
        BY <2>1, <2>2
<1> QED
    BY <1>2, <1>3, <1>4 DEF RunStep

LEMMA StoreHolds == Spec => []StoreInv
<1>1. Init => StoreInv
    <2> SUFFICES ASSUME Init
                 PROVE  StoreInv
        OBVIOUS
    <2>1. ASSUME NEW r \in Runs
          PROVE  Held(r)
        <3>1. HeldBy(store, r) = {}
            BY DEF Init, HeldBy
        <3> QED
            BY <3>1, FS_EmptySet DEF Init, Held, NoAccount
    <2> QED
        BY <2>1 DEF Init, StoreInv, InOrder
<1>2. CountInv /\ StoreInv /\ [Next]_vars => StoreInv'
    <2> SUFFICES ASSUME CountInv, StoreInv, [Next]_vars
                 PROVE  StoreInv'
        OBVIOUS
    <2>1. CASE UNCHANGED vars \/ Tick
        BY <2>1 DEF vars, Tick, books, StoreInv, InOrder, Held, HeldBy
    <2>2. CASE Restart
        <3>1. ASSUME NEW r \in Runs
              PROVE  Held(r)'
            <4>1. HeldBy(store', r) = {}
                BY <2>2 DEF Restart, HeldBy
            <4>2. account'[r].executed = 0 /\ allowance'[r] = 0
                BY <2>2 DEF Restart, NoAccount
            <4> QED
                BY <4>1, <4>2, FS_EmptySet DEF Held, HeldBy
        <3> QED
            BY <2>2, <3>1 DEF Restart, StoreInv, InOrder
    <2> QED
        BY <2>1, <2>2, HeldRunStep, HeldCallStep DEF Next
<1> QED
    BY <1>1, <1>2, CountsHold, PTL DEF Spec

\* A put with one statement at a time evicts nothing by the allowance: a run
\* holds fewer artifacts than the statements it has executed, and this one is
\* within its ceiling.
LEMMA PutKeeps ==
    ASSUME CountInv, StoreInv, MaxConcurrent = 1, NEW c \in Calls, Succeed(c),
           NEW a \in store \ store', ~Expired(a)
    PROVE  /\ Cardinality({b \in store : ~Expired(b)}) >= Cap
           /\ \E b \in store' \ store :
                b.run = a.run \/ HeldBy({d \in store : ~Expired(d)}, b.run) = {}
<1> DEFINE r == call[c].run
           new == [run |-> r, start |-> call[c].start, at |-> puts]
           kept == {b \in store : ~Expired(b)}
<1>1. /\ TypeOK /\ ActiveIsTheCount /\ r \in Runs
      /\ account[r].active \in Nat \ {0}
    BY ExecutingIsActive
       DEF CountInv, RunInv, Balanced, ActiveIsTheCount, Num, Executing, Succeed
<1>2. store' = WithinAllowance(WithinCap(kept, r), r) \cup {new}
    BY DEF Succeed, Put
<1>3. new \in store' \ store
    <2>1. puts \in Nat /\ \A b \in store : b.at \in Nat /\ b.at < puts
        BY <1>1 DEF TypeOK, StoreInv, InOrder
    <2>2. new \notin store
        BY <2>1
    <2> QED
        BY <1>2, <2>2
<1>4. a \in kept /\ a \notin WithinAllowance(WithinCap(kept, r), r)
    BY <1>2
<1>5. \A s : a \in s /\ a \notin WithinAllowance(s, r) =>
         a.run = r /\ allowance[r] > 0 /\ Cardinality(HeldBy(s, r)) >= allowance[r]
    <2> SUFFICES ASSUME NEW s, a \in s, a \notin WithinAllowance(s, r)
                 PROVE  /\ a.run = r /\ allowance[r] > 0
                        /\ Cardinality(HeldBy(s, r)) >= allowance[r]
        OBVIOUS
    <2>1. /\ allowance[r] > 0 /\ Cardinality(HeldBy(s, r)) >= allowance[r]
          /\ a \in Oldest(IF HeldBy(s, r) = {} THEN s ELSE HeldBy(s, r))
        BY DEF WithinAllowance, Evict
    <2>2. HeldBy(s, r) # {}
        <3>1. allowance[r] \in Nat
            BY <1>1 DEF TypeOK
        <3>2. Cardinality({}) = 0
            BY FS_EmptySet
        <3>3. ~(0 >= allowance[r])
            BY <2>1, <3>1
        <3> QED
            BY <2>1, <3>2, <3>3
    <2> QED
        BY <2>1, <2>2 DEF Oldest, HeldBy
<1>6. CASE Cardinality(kept) >= Cap
    <2>1. CASE a \in WithinCap(kept, r)
        <3>1. a.run = r
            BY <1>4, <1>5, <2>1
        <3> QED
            BY <1>3, <1>6, <3>1
    <2>2. CASE a \notin WithinCap(kept, r)
        <3>1. a \in Oldest(IF HeldBy(kept, r) = {} THEN kept ELSE HeldBy(kept, r))
            BY <1>4, <1>6, <2>2 DEF WithinCap, Evict
        <3>2. a.run = r \/ HeldBy(kept, r) = {}
            BY <3>1 DEF Oldest, HeldBy
        <3> QED
            BY <1>3, <1>6, <3>2
    <2> QED
        BY <2>1, <2>2
<1>7. CASE ~(Cardinality(kept) >= Cap)
    <2>1. WithinCap(kept, r) = kept
        BY <1>7 DEF WithinCap
    <2>2. /\ allowance[r] > 0
          /\ Cardinality(HeldBy(kept, r)) >= allowance[r]
        BY <1>4, <1>5, <2>1
    <2>3. /\ IsFiniteSet(HeldBy(store, r))
          /\ Cardinality(HeldBy(store, r)) <= account[r].executed
          /\ allowance[r] \in {0, MaxStatements}
        BY <1>1 DEF StoreInv, Held
    <2>4. /\ Cardinality(HeldBy(kept, r)) <= Cardinality(HeldBy(store, r))
          /\ Cardinality(HeldBy(kept, r)) \in Nat
          /\ Cardinality(HeldBy(store, r)) \in Nat
        <3>1. HeldBy(kept, r) \subseteq HeldBy(store, r)
            BY DEF HeldBy
        <3> QED
            BY <2>3, <3>1, FewerHeld
    <2>5. account[r].executed + account[r].active <= MaxStatements
        <3>1. account[r].executed + account[r].active <= Ceiling
            BY <1>1 DEF CountInv, RunInv, AccountKept
        <3> QED
            BY <1>1, <3>1, RunTypes
    <2>6. account[r].executed < MaxStatements
        BY <1>1, <2>5, RunTypes
    <2> QED
        BY <1>1, <2>2, <2>3, <2>4, <2>6, RunTypes
<1> QED
    BY <1>6, <1>7

\* With the product's maxConcurrentExecutions of one, a result its run may still
\* cite is evicted only from a full store, by its own run or by the first result
\* of a run that has none.
THEOREM EvidenceHolds ==
    ASSUME MaxConcurrent = 1
    PROVE  Spec => EvidenceKept
<1> DEFINE Kept ==
      \A a \in store \ store' :
         ~Expired(a) /\ restarts' = restarts =>
           \/ status[a.run] = "ended" /\ Executing(a.run) = {}
           \/ LET kept == {b \in store : ~Expired(b)} IN
                /\ Cardinality(kept) >= Cap
                /\ \E b \in store' \ store :
                     b.run = a.run \/ HeldBy(kept, b.run) = {}
<1>1. CountInv /\ StoreInv /\ [Next]_vars => [Kept]_vars
    <2> SUFFICES ASSUME CountInv, StoreInv, Next,
                        NEW a \in store \ store', ~Expired(a),
                        restarts' = restarts
                 PROVE  \/ status[a.run] = "ended" /\ Executing(a.run) = {}
                        \/ LET kept == {b \in store : ~Expired(b)} IN
                             /\ Cardinality(kept) >= Cap
                             /\ \E b \in store' \ store :
                                  b.run = a.run \/ HeldBy(kept, b.run) = {}
        OBVIOUS
    <2>1. ASSUME NEW r \in Runs, RunStep(r)
          PROVE  status[a.run] = "ended" /\ Executing(a.run) = {}
        <3>1. Close(r) /\ ~Refuses(account[r]) /\ a.run = r
            BY <2>1
               DEF RunStep, DriveStart, DriveStop, Pause, Finalize, Finish,
                   Close, Release, books, HeldBy
        <3>2. TypeOK /\ RunInv(r)
            BY DEF CountInv
        <3>3. account[r].active = 0
            BY <3>1, <3>2, RunTypes DEF Refuses
        <3>4. Executing(r) = {}
            BY <3>2, <3>3, Counted DEF RunInv, Balanced, States, Executing
        <3> QED
            BY <3>1, <3>2, <3>4 DEF Close, RunInv, ClosingEnded
    <2>2. ASSUME NEW c \in Calls, CallStep(c)
          PROVE  Succeed(c)
        BY <2>2 DEF CallStep, Checkpoint, Deny, Begin, Fail, Settle, books
    <2>3. ~Tick
        BY DEF Tick, books
    <2>4. ~Restart
        <3>1. restarts \in Nat
            BY DEF CountInv, TypeOK
        <3> QED
            BY <3>1 DEF Restart
    <2> QED
        BY <2>1, <2>2, <2>3, <2>4, PutKeeps DEF Next
<1> QED
    BY <1>1, CountsHold, StoreHolds, PTL DEF Spec, EvidenceKept
=============================================================================
