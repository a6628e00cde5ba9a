-------------------------- MODULE StorageSyncProofs --------------------------
(***************************************************************************)
(* Proofs about StorageSync, for every set of collections and of flushes   *)
(* and every bound: what holds of the timers whatever happens, and what    *)
(* holds of the copies as long as none of the races in "raced" happened.   *)
(* The second half ends in the refinement: step by step, a browser without *)
(* a race does what WriteBehind does.                                      *)
(***************************************************************************)
EXTENDS StorageSync, TLAPS

-----------------------------------------------------------------------------
(* The inductive invariant.                                                *)

\* The flushes that outlive an unmount are marked, so that none of them finds
\* its refs alive: without it NoTimerAfterTeardown is not inductive, for a
\* flush in flight would arm a timer of a component that is gone.
NoneLiveWhenOff == ~up => \A f \in Flushes : ~flush[f].live

\* The listener's effect runs before the pull's first answer is written.
ReadyListens == mode = "ready" => listening

\* What is in flight never lies outside the two copies: a push of c carries
\* something between the server's copy and the browser's, at most one push of c
\* has yet to be seen, a migration carries what no push and no other migration
\* carries, what a pull has read the server still has, or something newer, and
\* a request that was given up carries nothing newer than what was sent since.
SentBetween(c) ==
    \A f \in Flushes :
        flush[f].st[c] = "sent" =>
            server[c] <= flush[f].val[c] /\ flush[f].val[c] <= local[c]

SentOnce(c) ==
    \A f, g \in Flushes :
        flush[f].st[c] = "sent" /\ flush[g].st[c] = "sent" => f = g

Migrates(m, c) == init[m].at = "migrating" /\ init[m].snap[c] # 0

MigrationBetween(c) ==
    \A m \in Mounts : Migrates(m, c) =>
        /\ server[c] <= init[m].snap[c] /\ init[m].snap[c] <= local[c]
        /\ \A f \in Flushes : flush[f].st[c] # "sent"
        /\ \A n \in Mounts : Migrates(n, c) => n = m

PullBehind(c) ==
    \A m \in Mounts : init[m].at = "pulled" => init[m].snap[c] <= server[c]

LateBehind(c) ==
    \A req \in late :
        /\ req[c] <= local[c]
        /\ \A f \in Flushes : flush[f].st[c] = "sent" => req[c] <= flush[f].val[c]
        /\ \A m \in Mounts : Migrates(m, c) => req[c] <= init[m].snap[c]

Numbered(c) == local[c] <= edits + 2 /\ server[c] <= edits + 2

Between(c) ==
    /\ Numbered(c) /\ SentBetween(c) /\ SentOnce(c)
    /\ MigrationBetween(c) /\ PullBehind(c) /\ LateBehind(c)

InFlightBetween == raced = {} => \A c \in Colls : Between(c)

Timers == PendingHasTimer /\ NoTimerAfterTeardown /\ NoneLiveWhenOff

SyncInv ==
    TypeOK /\ Timers /\ ReadyListens /\ InFlightBetween /\ NothingForgotten

-----------------------------------------------------------------------------
(* What the operators and the flush-writing steps do.                      *)

LEMMA NoFlushFacts ==
    /\ ~NoFlush.live
    /\ \A c \in Colls : NoFlush.st[c] = "none" /\ NoFlush.val[c] = 0
BY DEF NoFlush, Nothing

\* SetSt changes the standing of one push of one flush.
LEMMA SetStFacts ==
    ASSUME TypeOK, NEW f \in Flushes, NEW c \in Colls,
           NEW st \in {"none", "sent", "stored", "failed"},
           SetSt(f, c, st)
    PROVE  /\ flush' \in [Flushes -> [live : BOOLEAN, val : [Colls -> Nat],
                st : [Colls -> {"none", "sent", "stored", "failed"}]]]
           /\ \A g \in Flushes : flush'[g].live = flush[g].live
           /\ flush'[f].st[c] = st
           /\ \A g \in Flushes, d \in Colls :
                 g # f \/ d # c => /\ flush'[g].st[d] = flush[g].st[d]
                                  /\ flush'[g].val[d] = flush[g].val[d]
BY DEF TypeOK, SetSt

\* A settled flush is the empty slot; the others stand as they stood.
LEMMA SettleFacts ==
    ASSUME TypeOK, NEW f \in Flushes, Settle(f)
    PROVE  /\ flush' \in [Flushes -> [live : BOOLEAN, val : [Colls -> Nat],
                st : [Colls -> {"none", "sent", "stored", "failed"}]]]
           /\ \A g \in Flushes : g # f => flush'[g] = flush[g]
           /\ ~flush'[f].live
           /\ \A c \in Colls : flush'[f].st[c] = "none"
<1>1. flush' = [flush EXCEPT ![f] = NoFlush]
  BY DEF Settle
<1>2. NoFlush \in [live : BOOLEAN, val : [Colls -> Nat],
                   st : [Colls -> {"none", "sent", "stored", "failed"}]]
  BY DEF NoFlush, Nothing
<1> QED
  BY <1>1, <1>2, NoFlushFacts DEF TypeOK

\* A timer that fires sends what is pending, with what the browser holds of
\* it, in a slot that was empty; or nothing was pending.
LEMMA FireFacts ==
    ASSUME TypeOK, Fire
    PROVE  \/ pending = {} /\ UNCHANGED flush
           \/ \E f \in Flushes :
                /\ \A c \in Colls : flush[f].st[c] = "none"
                /\ \A g \in Flushes : g # f => flush'[g] = flush[g]
                /\ flush'[f].live
                /\ \A c \in Colls :
                     IF c \in pending
                     THEN /\ flush'[f].st[c] = "sent"
                          /\ flush'[f].val[c] = local[c]
                     ELSE flush'[f].st[c] = "none"
                /\ flush'[f].val \in [Colls -> Nat]
                /\ flush' \in [Flushes -> [live : BOOLEAN, val : [Colls -> Nat],
                     st : [Colls -> {"none", "sent", "stored", "failed"}]]]
<1>1. CASE pending = {}
  BY <1>1 DEF Fire
<1>2. CASE pending # {}
  <2>0. PICK f \in Free : f = CHOOSE g \in Free : TRUE
    BY <1>2 DEF Fire
  <2>1. /\ f \in Flushes /\ flush[f] = NoFlush
          /\ flush' = [flush EXCEPT ![f] =
                [live |-> TRUE,
                 val |-> [c \in Colls |-> IF c \in pending THEN local[c] ELSE 0],
                 st |-> [c \in Colls |-> IF c \in pending THEN "sent"
                                                          ELSE "none"]]]
    BY <1>2, <2>0 DEF Fire, Free
  <2> QED
    BY <2>1, NoFlushFacts DEF TypeOK
<1> QED
  BY <1>1, <1>2

\* An unmount leaves every flush as it stands, with nobody to answer to.
LEMMA UnmountFacts ==
    ASSUME TypeOK, Unmount
    PROVE  /\ flush' \in [Flushes -> [live : BOOLEAN, val : [Colls -> Nat],
                st : [Colls -> {"none", "sent", "stored", "failed"}]]]
           /\ \A f \in Flushes : /\ ~flush'[f].live
                                 /\ flush'[f].val = flush[f].val
                                 /\ flush'[f].st = flush[f].st
BY DEF TypeOK, Unmount

\* A mount starts an init() of its own, and an unmount cancels its one.
LEMMA MountFacts ==
    ASSUME TypeOK, Mount
    PROVE  /\ init' \in [Mounts -> [at : Places, snap : [Colls -> Nat]]]
           /\ mounts' \in Mounts /\ mounts' \in 0..MaxMounts
           /\ init'[mounts'].at = "config"
           /\ \A n \in Mounts : n # mounts' => init'[n] = init[n]
<1>1. mounts + 1 \in Mounts /\ mounts' = mounts + 1 /\ mounts' \in 0..MaxMounts
  BY SyncAssumption DEF TypeOK, Mount, Mounts
<1>r. init[mounts + 1] \in [at : Places, snap : [Colls -> Nat]]
  BY <1>1 DEF TypeOK
<1>2. init' = [init EXCEPT ![mounts + 1] =
                 [at |-> "config", snap |-> init[mounts + 1].snap]]
  <2>1. init' = [init EXCEPT ![mounts + 1] =
                   [init[mounts + 1] EXCEPT !.at = "config"]]
    BY DEF Mount
  <2>2. [init[mounts + 1] EXCEPT !.at = "config"]
          = [at |-> "config", snap |-> init[mounts + 1].snap]
    BY <1>r
  <2> QED
    BY <2>1, <2>2
<1>3. [at |-> "config", snap |-> init[mounts + 1].snap]
        \in [at : Places, snap : [Colls -> Nat]]
  BY <1>1 DEF TypeOK, Places
<1> QED
  BY <1>1, <1>2, <1>3 DEF TypeOK

LEMMA CancelFacts ==
    ASSUME TypeOK, Unmount
    PROVE  /\ init' \in [Mounts -> [at : Places, snap : [Colls -> Nat]]]
           /\ \A n \in Mounts : /\ init'[n].snap = init[n].snap
                                /\ \/ init'[n].at = init[n].at
                                   \/ init'[n].at = "off"
<1>1. mounts \in Mounts
  BY SyncAssumption DEF TypeOK, Unmount, Mounts
<1>r. init[mounts] \in [at : Places, snap : [Colls -> Nat]]
  BY <1>1 DEF TypeOK
<1>w. init' = [init EXCEPT ![mounts] =
        [init[mounts] EXCEPT !.at =
           IF init[mounts].at \in {"config", "local", "ready"} THEN "off"
           ELSE init[mounts].at]]
  BY DEF Unmount
<1>2. PICK at \in Places :
        /\ at = init[mounts].at \/ at = "off"
        /\ init' = [init EXCEPT ![mounts] = [at |-> at, snap |-> init[mounts].snap]]
  <2>1. PICK at \in Places :
          /\ at = init[mounts].at \/ at = "off"
          /\ at = IF init[mounts].at \in {"config", "local", "ready"} THEN "off"
                  ELSE init[mounts].at
    BY <1>r DEF Places
  <2>2. init' = [init EXCEPT ![mounts] = [init[mounts] EXCEPT !.at = at]]
    BY <1>w, <2>1
  <2>3. [init[mounts] EXCEPT !.at = at] = [at |-> at, snap |-> init[mounts].snap]
    BY <1>r
  <2> QED
    BY <2>1, <2>2, <2>3
<1>3. [at |-> at, snap |-> init[mounts].snap]
        \in [at : Places, snap : [Colls -> Nat]]
  BY <1>1 DEF TypeOK
<1> QED
  BY <1>1, <1>2, <1>3 DEF TypeOK

\* A step of one mount's init() leaves those of the others alone.
LEMMA ReachesFacts ==
    ASSUME TypeOK, NEW m \in Mounts, NEW at \in Places,
           NEW snap \in [Colls -> Nat], Reaches(m, at, snap)
    PROVE  /\ init' \in [Mounts -> [at : Places, snap : [Colls -> Nat]]]
           /\ init'[m].at = at /\ init'[m].snap = snap
           /\ \A n \in Mounts : n # m => init'[n] = init[n]
BY DEF TypeOK, Reaches

LEMMA PassesFacts ==
    ASSUME TypeOK, NEW m \in Mounts, NEW at \in Places, Passes(m, at)
    PROVE  /\ init' \in [Mounts -> [at : Places, snap : [Colls -> Nat]]]
           /\ init'[m].at = IF Current(m) THEN at ELSE "off"
           /\ \A n \in Mounts : n # m => init'[n] = init[n]
<1>1. Nothing \in [Colls -> Nat]
  BY DEF Nothing
<1> QED
  BY <1>1, ReachesFacts DEF Passes, Places

-----------------------------------------------------------------------------
(* Types.                                                                  *)

LEMMA InitType == Init => TypeOK
<1> SUFFICES ASSUME Init PROVE TypeOK
  OBVIOUS
<1>1. NoFlush \in [live : BOOLEAN, val : [Colls -> Nat],
                   st : [Colls -> {"none", "sent", "stored", "failed"}]]
  BY DEF NoFlush, Nothing
<1>2. flush \in [Flushes -> [live : BOOLEAN, val : [Colls -> Nat],
              st : [Colls -> {"none", "sent", "stored", "failed"}]]]
  BY <1>1 DEF Init
<1>3. local \in [Colls -> Nat] /\ server \in [Colls -> Nat]
  <2>1. PICK start \in Starts :
          /\ local = [c \in Colls |-> start[c][1]]
          /\ server = [c \in Colls |-> start[c][2]]
    BY DEF Init
  <2>2. start \in [Colls -> (0..2) \X (0..2)]
    BY SyncAssumption
  <2> QED
    BY <2>1, <2>2
<1>4. /\ edits \in 0..MaxEdits /\ fails \in 0..MaxFails
      /\ mounts \in 0..MaxMounts
  BY SyncAssumption DEF Init
<1>5. /\ migrated \in BOOLEAN /\ up = FALSE /\ listening \in BOOLEAN
      /\ pending = {} /\ debounce \in BOOLEAN /\ retry \in BOOLEAN
      /\ raced = {} /\ late = {}
  BY DEF Init
<1>6. init \in [Mounts -> [at : Places, snap : [Colls -> Nat]]]
  BY DEF Init, NoInit, Nothing, Places
<1> QED
  BY <1>2, <1>3, <1>4, <1>5, <1>6 DEF TypeOK

\* A race has one of the names.
LEMMA RaceType ==
    ASSUME TypeOK, NEW kinds, kinds \subseteq Races, Race(kinds)
    PROVE  raced' \subseteq Races
BY DEF TypeOK, Race

\* Where a step of init() leads, and what it leaves as it was.
LEMMA StartingType ==
    ASSUME TypeOK, NEW m \in Mounts, Starting(m) PROVE TypeOK'
<1> USE SyncAssumption
<1>0. Nothing \in [Colls -> Nat]
  BY DEF Nothing
<1>p. {"migrating", "pulling", "local", "migrated", "pulled", "ready"}
        \subseteq Places
  BY DEF Places
<1>m. init[m].snap \in [Colls -> Nat]
  BY DEF TypeOK
<1>1. CASE ServerMode(m)
  <2>1. raced' \subseteq Races
    <3>1. CASE UNCHANGED raced
      BY <3>1 DEF TypeOK
    <3>2. CASE Race({"crossed" : c \in {d \in Colls : local[d] # 0 /\ Unseen(d)}}
                      \cup {"merged" : c \in {d \in Colls :
                                          local[d] < server[d]
                                            /\ local[d] # 0}})
      BY <3>2, RaceType DEF Races
    <3> QED
      BY <1>1, <3>1, <3>2 DEF ServerMode
  <2>2. Reaches(m, "migrating", local) \/ Reaches(m, "pulling", Nothing)
    BY <1>1 DEF ServerMode
  <2>l. local \in [Colls -> Nat]
    BY DEF TypeOK
  <2>3. init' \in [Mounts -> [at : Places, snap : [Colls -> Nat]]]
    BY <2>2, <2>l, <1>0, <1>p, ReachesFacts
  <2>4. migrated' \in BOOLEAN
    BY <1>1 DEF ServerMode, TypeOK
  <2> QED
    BY <1>1, <2>1, <2>3, <2>4
    DEF TypeOK, ServerMode, copies, timers, sent, counts
<1>2. CASE LocalMode(m)
  <2>1. init' \in [Mounts -> [at : Places, snap : [Colls -> Nat]]]
    BY <1>2, <1>0, <1>p, ReachesFacts DEF LocalMode
  <2> QED
    BY <1>2, <2>1 DEF TypeOK, LocalMode, copies, timers, sent
<1>3. CASE Merged(m)
  <2>1. init' \in [Mounts -> [at : Places, snap : [Colls -> Nat]]]
    BY <1>3, <1>0, <1>p, ReachesFacts DEF Merged
  <2>2. server' \in [Colls -> Nat]
    BY <1>3, <1>m DEF TypeOK, Merged, AfterMerge
  <2> QED
    BY <1>3, <2>1, <2>2 DEF TypeOK, Merged, timers, sent, counts
<1>4. CASE MigrationAnswered(m)
  <2>1. init' \in [Mounts -> [at : Places, snap : [Colls -> Nat]]]
    BY <1>4, <1>p, PassesFacts DEF MigrationAnswered
  <2> QED
    BY <1>4, <2>1 DEF TypeOK, MigrationAnswered, copies, timers, sent, counts
<1>5. CASE MigrationFails(m)
  <2>1. init' \in [Mounts -> [at : Places, snap : [Colls -> Nat]]]
    BY <1>5, <1>p, PassesFacts DEF MigrationFails
  <2>2. late' \subseteq [Colls -> Nat]
    BY <1>5, <1>m DEF TypeOK, MigrationFails
  <2> QED
    BY <1>5, <2>1, <2>2 DEF TypeOK, MigrationFails, copies, timers
<1>6. CASE PullRead(m)
  <2>s. server \in [Colls -> Nat]
    BY DEF TypeOK
  <2>1. init' \in [Mounts -> [at : Places, snap : [Colls -> Nat]]]
    BY <1>6, <2>s, <1>p, ReachesFacts DEF PullRead
  <2> QED
    BY <1>6, <2>1 DEF TypeOK, PullRead, copies, timers, sent, counts
<1>7. CASE PullWritten(m)
  <2>1. init' \in [Mounts -> [at : Places, snap : [Colls -> Nat]]]
    BY <1>7, <1>p, PassesFacts DEF PullWritten
  <2>2. local' \in [Colls -> Nat]
    BY <1>7, <1>m DEF TypeOK, PullWritten
  <2>3. raced' \subseteq Races
    BY <1>7, RaceType DEF PullWritten, Races
  <2> QED
    BY <1>7, <2>1, <2>2, <2>3 DEF TypeOK, PullWritten, timers, sent, counts
<1>8. CASE PullFails(m)
  <2>1. init' \in [Mounts -> [at : Places, snap : [Colls -> Nat]]]
    BY <1>8, <1>p, PassesFacts DEF PullFails
  <2>2. raced' \subseteq Races
    BY <1>8, RaceType DEF PullFails, Races
  <2> QED
    BY <1>8, <2>1, <2>2 DEF TypeOK, PullFails, copies, timers, sent
<1> QED
  BY <1>1, <1>2, <1>3, <1>4, <1>5, <1>6, <1>7, <1>8 DEF Starting

LEMMA StepType == TypeOK /\ [Next]_vars => TypeOK'
<1> SUFFICES ASSUME TypeOK, [Next]_vars PROVE TypeOK'
  OBVIOUS
<1> USE SyncAssumption
<1>1. ASSUME NEW c \in Colls, Edit(c) PROVE TypeOK'
  <2>1. local' \in [Colls -> Nat] /\ edits' \in 0..MaxEdits
    BY <1>1 DEF TypeOK, Edit
  <2>2. pending' \subseteq Colls /\ debounce' \in BOOLEAN
    BY <1>1 DEF TypeOK, Edit
  <2> QED
    BY <1>1, <2>1, <2>2 DEF TypeOK, Edit, place, sent
<1>2. ASSUME NEW c \in Colls, Elsewhere(c) PROVE TypeOK'
  <2>1. server' \in [Colls -> Nat] /\ edits' \in 0..MaxEdits
    BY <1>2 DEF TypeOK, Elsewhere
  <2>2. raced' \subseteq Races
    BY <1>2, RaceType DEF Elsewhere, Races
  <2> QED
    BY <1>2, <2>1, <2>2 DEF TypeOK, Elsewhere, place, timers, sent
<1>3. CASE Fire
  <2>1. flush' \in [Flushes -> [live : BOOLEAN, val : [Colls -> Nat],
              st : [Colls -> {"none", "sent", "stored", "failed"}]]]
    BY <1>3, FireFacts DEF TypeOK
  <2>2. raced' \subseteq Races
    BY <1>3, RaceType DEF Fire, Races
  <2> QED
    BY <1>3, <2>1, <2>2 DEF TypeOK, Fire, copies, place, counts
<1>4. ASSUME NEW f \in Flushes, NEW c \in Colls, Answer(f, c) PROVE TypeOK'
  <2>v. flush[f].val[c] \in Nat
    BY DEF TypeOK
  <2>1. CASE Stored(f, c)
    <3>1. SetSt(f, c, "stored")
      BY <2>1 DEF Stored
    <3>2. server' \in [Colls -> Nat]
      BY <2>1, <2>v DEF TypeOK, Stored
    <3> QED
      BY <2>1, <3>1, <3>2, SetStFacts DEF TypeOK, Stored, place, timers, counts
  <2>2. CASE PushFails(f, c)
    <3>1. SetSt(f, c, "failed")
      BY <2>2 DEF PushFails
    <3>2. late' \subseteq [Colls -> Nat]
      <4>1. Only(c, flush[f].val[c]) \in [Colls -> Nat]
        BY <2>v DEF Only, Nothing
      <4> QED
        BY <2>2, <4>1 DEF TypeOK, PushFails
    <3>3. fails' \in 0..MaxFails
      BY <2>2 DEF TypeOK, PushFails
    <3> QED
      BY <2>2, <3>1, <3>2, <3>3, SetStFacts
      DEF TypeOK, PushFails, copies, place, timers
  <2> QED
    BY <1>4, <2>1, <2>2 DEF Answer
<1>5. ASSUME NEW f \in Flushes, Settle(f) PROVE TypeOK'
  <2>1. pending' \subseteq Colls /\ debounce' \in BOOLEAN /\ retry' \in BOOLEAN
    BY <1>5 DEF TypeOK, Settle, timers, Requeue, MayArm, ArmRetry
  <2> QED
    BY <1>5, <2>1, SettleFacts DEF TypeOK, Settle, copies, place, counts
<1>6. CASE Mount
  <2>1. mounts' \in 0..MaxMounts /\ mounts' # 0
    BY <1>6, MountFacts DEF Mounts
  <2>2. init' \in [Mounts -> [at : Places, snap : [Colls -> Nat]]]
    BY <1>6, MountFacts
  <2> QED
    BY <1>6, <2>1, <2>2 DEF TypeOK, Mount, copies, timers, sent
<1>7. CASE Listen
  BY <1>7 DEF TypeOK, Listen, copies, timers, sent, counts
<1>8. CASE Unmount
  <2>1. flush' \in [Flushes -> [live : BOOLEAN, val : [Colls -> Nat],
              st : [Colls -> {"none", "sent", "stored", "failed"}]]]
    BY <1>8, UnmountFacts
  <2>2. init' \in [Mounts -> [at : Places, snap : [Colls -> Nat]]]
    BY <1>8, CancelFacts
  <2> QED
    BY <1>8, <2>1, <2>2 DEF TypeOK, Unmount, copies, counts
<1>9. ASSUME NEW m \in Mounts, Starting(m) PROVE TypeOK'
  BY <1>9, StartingType
<1>10. ASSUME NEW req \in late, ArrivesLate(req) PROVE TypeOK'
  <2>1. server' \in [Colls -> Nat]
    BY <1>10 DEF TypeOK, ArrivesLate, AfterMerge
  <2>2. raced' \subseteq Races
    BY <1>10, RaceType DEF ArrivesLate, Races
  <2> QED
    BY <1>10, <2>1, <2>2 DEF TypeOK, ArrivesLate, place, timers, counts
<1>11. CASE UNCHANGED vars
  BY <1>11 DEF TypeOK, vars, copies, place, timers, sent, counts
<1> QED
  BY <1>1, <1>2, <1>3, <1>4, <1>5, <1>6, <1>7, <1>8, <1>9, <1>10, <1>11
  DEF Next

\* Every variable has the shape the hook, the facade and the server's rows
\* give it, whatever is lost and whoever unmounts.
THEOREM TypeCorrect == Spec => []TypeOK
BY InitType, StepType, PTL DEF Spec

-----------------------------------------------------------------------------
(* The timers, whatever races.                                             *)

LEMMA InitTimers == Init => Timers /\ ReadyListens
<1> SUFFICES ASSUME Init PROVE Timers /\ ReadyListens
  OBVIOUS
<1>1. \A f \in Flushes : ~flush[f].live
  BY NoFlushFacts DEF Init
<1> QED
  BY <1>1 DEF Init, Timers, PendingHasTimer, NoTimerAfterTeardown,
              NoneLiveWhenOff, ReadyListens, mode

\* Where the mounted component stands changes with its own init() only.
LEMMA SameMode ==
    ASSUME UNCHANGED <<up, init, mounts>> PROVE mode' = mode
BY DEF mode

LEMMA StartingMode ==
    ASSUME TypeOK, NEW m \in Mounts, Starting(m)
    PROVE  /\ UNCHANGED <<up, mounts, listening, flush>> /\ UNCHANGED timers
           /\ mode' = "ready" =>
                \/ ~Current(m) /\ mode = "ready"
                \/ Current(m) /\ listening /\ (PullWritten(m) \/ PullFails(m))
<1>1. UNCHANGED <<up, mounts, listening, flush>> /\ UNCHANGED timers
  BY DEF Starting, ServerMode, LocalMode, Merged, MigrationAnswered,
         MigrationFails, PullRead, PullWritten, PullFails, counts, sent
<1>2. PICK at \in Places, snap \in [Colls -> Nat] :
        /\ Reaches(m, at, snap)
        /\ at = "ready" =>
             Current(m) /\ listening /\ (PullWritten(m) \/ PullFails(m))
  <2>1. Nothing \in [Colls -> Nat] /\ local \in [Colls -> Nat]
        /\ server \in [Colls -> Nat]
    BY DEF Nothing, TypeOK
  <2>2. CASE ServerMode(m)
    BY <2>1, <2>2 DEF ServerMode, Places
  <2>3. CASE LocalMode(m)
    BY <2>1, <2>3 DEF LocalMode, Places
  <2>4. CASE Merged(m)
    BY <2>1, <2>4 DEF Merged, Places
  <2>5. CASE PullRead(m)
    BY <2>1, <2>5 DEF PullRead, Places
  <2>6. CASE MigrationAnswered(m) \/ MigrationFails(m)
    BY <2>1, <2>6 DEF MigrationAnswered, MigrationFails, Passes, Places
  <2>7. CASE PullWritten(m) \/ PullFails(m)
    BY <2>1, <2>7 DEF PullWritten, PullFails, Passes, Places
  <2> QED
    BY <2>2, <2>3, <2>4, <2>5, <2>6, <2>7 DEF Starting
<1>3. /\ init'[m].at = at
      /\ \A n \in Mounts : n # m => init'[n] = init[n]
  BY <1>2, ReachesFacts
<1>4. up => mounts \in Mounts
  BY SyncAssumption DEF TypeOK, Mounts
<1>5. CASE Current(m)
  BY <1>1, <1>2, <1>3, <1>5 DEF mode, Current
<1>6. CASE ~Current(m)
  BY <1>1, <1>3, <1>4, <1>6 DEF mode, Current
<1> QED
  BY <1>1, <1>5, <1>6

LEMMA StepTimers ==
    TypeOK /\ Timers /\ ReadyListens /\ [Next]_vars => Timers' /\ ReadyListens'
<1> SUFFICES ASSUME TypeOK, Timers, ReadyListens, [Next]_vars
             PROVE  Timers' /\ ReadyListens'
  OBVIOUS
<1> USE DEF Timers, PendingHasTimer, NoTimerAfterTeardown, NoneLiveWhenOff,
            ReadyListens
<1>1. ASSUME NEW c \in Colls, Edit(c) PROVE Timers' /\ ReadyListens'
  BY <1>1, SameMode DEF Edit, place, sent
<1>2. ASSUME NEW c \in Colls, Elsewhere(c) PROVE Timers' /\ ReadyListens'
  BY <1>2, SameMode DEF Elsewhere, place, timers, sent
\* Both timers were down when the component went: none of its flushes fires.
<1>3. CASE Fire
  <2>1. up /\ pending' = {} /\ UNCHANGED <<up, init, mounts, listening>>
    BY <1>3 DEF Fire, place, counts
  <2> QED
    BY <2>1, SameMode
<1>4. ASSUME NEW f \in Flushes, NEW c \in Colls, Answer(f, c)
      PROVE  Timers' /\ ReadyListens'
  <2>1. \A g \in Flushes : flush'[g].live = flush[g].live
    <3>1. PICK st \in {"none", "sent", "stored", "failed"} : SetSt(f, c, st)
      BY <1>4 DEF Answer, Stored, PushFails
    <3> QED
      BY <3>1, SetStFacts
  <2>2. UNCHANGED timers /\ UNCHANGED <<up, init, mounts, listening>>
    BY <1>4 DEF Answer, Stored, PushFails, place, counts
  <2> QED
    BY <2>1, <2>2, SameMode DEF timers
\* A flush arms the retry of a component that is still there, and what it puts
\* back is pending with that timer armed.
<1>5. ASSUME NEW f \in Flushes, Settle(f) PROVE Timers' /\ ReadyListens'
  <2>1. UNCHANGED <<up, init, mounts, listening>>
    BY <1>5 DEF Settle, place, counts
  <2>2. \A g \in Flushes : flush'[g].live => flush[g].live
    BY <1>5, SettleFacts
  <2>3. \/ UNCHANGED timers
        \/ flush[f].live /\ retry' /\ debounce' = debounce
    BY <1>5 DEF Settle, MayArm, ArmRetry, timers
  <2> QED
    BY <2>1, <2>2, <2>3, SameMode DEF timers
<1>6. CASE Mount
  <2>1. mode' = "config"
    BY <1>6, MountFacts DEF mode, Mount
  <2> QED
    BY <1>6, <2>1 DEF Mount, timers, sent
<1>7. CASE Listen
  <2>1. UNCHANGED <<up, init, mounts, flush>> /\ UNCHANGED timers /\ listening'
    BY <1>7 DEF Listen, sent, counts
  <2> QED
    BY <2>1, SameMode DEF timers
<1>8. CASE Unmount
  <2>1. \A f \in Flushes : ~flush'[f].live
    BY <1>8, UnmountFacts
  <2> QED
    BY <1>8, <2>1 DEF Unmount, mode
<1>9. ASSUME NEW m \in Mounts, Starting(m) PROVE Timers' /\ ReadyListens'
  BY <1>9, StartingMode DEF timers
<1>10. ASSUME NEW req \in late, ArrivesLate(req) PROVE Timers' /\ ReadyListens'
  BY <1>10, SameMode DEF ArrivesLate, place, timers, counts
<1>11. CASE UNCHANGED vars
  BY <1>11, SameMode DEF vars, timers, place, sent, counts
<1> QED
  BY <1>1, <1>2, <1>3, <1>4, <1>5, <1>6, <1>7, <1>8, <1>9, <1>10, <1>11
  DEF Next

\* hooks/use-storage-sync.ts, the lifecycle effect: after teardown no timer is
\* armed, not by an edit and not by a flush that was still in flight.
THEOREM TimersDieWithTheComponent == Spec => []NoTimerAfterTeardown
<1>1. Init => TypeOK /\ Timers /\ ReadyListens
  BY InitType, InitTimers
<1>2. TypeOK /\ Timers /\ ReadyListens /\ [Next]_vars
        => (TypeOK /\ Timers /\ ReadyListens)'
  BY StepType, StepTimers
<1>3. Timers => NoTimerAfterTeardown
  BY DEF Timers
<1> QED
  BY <1>1, <1>2, <1>3, PTL DEF Spec

\* schedulePush and flushPending: whatever is pending has a timer that will
\* send it, in whatever order two flushes fail and an edit arms the debounce.
THEOREM PendingIsTimed == Spec => []PendingHasTimer
<1>1. Init => TypeOK /\ Timers /\ ReadyListens
  BY InitType, InitTimers
<1>2. TypeOK /\ Timers /\ ReadyListens /\ [Next]_vars
        => (TypeOK /\ Timers /\ ReadyListens)'
  BY StepType, StepTimers
<1>3. Timers => PendingHasTimer
  BY DEF Timers
<1> QED
  BY <1>1, <1>2, <1>3, PTL DEF Spec

-----------------------------------------------------------------------------
(* What is in flight, without a race.                                      *)

\* Races are remembered, and a step without one has none of the names.
LEMMA NoRace ==
    ASSUME NEW kinds, Race(kinds), raced' = {}
    PROVE  raced = {} /\ kinds = {}
BY DEF Race

LEMMA RacesAreKept ==
    ASSUME [Next]_vars, raced' = {}
    PROVE  raced = {}
<1>1. UNCHANGED raced \/ \E kinds : Race(kinds)
  BY DEF Next, Edit, Elsewhere, Fire, Answer, Stored, PushFails, Settle, Mount,
         Listen, Starting, ServerMode, LocalMode, Merged, MigrationAnswered,
         MigrationFails, PullRead, PullWritten, PullFails, ArrivesLate, Unmount,
         vars
<1> QED
  BY <1>1, NoRace

LEMMA InitInFlight == Init => InFlightBetween
<1> SUFFICES ASSUME Init, NEW c \in Colls PROVE Between(c)
  BY DEF InFlightBetween
<1>1. \A f \in Flushes : flush[f].st[c] # "sent"
  BY NoFlushFacts DEF Init
<1>2. Numbered(c)
  <2>1. PICK start \in Starts :
          /\ local = [d \in Colls |-> start[d][1]]
          /\ server = [d \in Colls |-> start[d][2]]
    BY DEF Init
  <2>2. start[c] \in (0..2) \X (0..2)
    BY SyncAssumption
  <2>3. local[c] = start[c][1] /\ server[c] = start[c][2] /\ edits = 0
    BY <2>1 DEF Init
  <2> QED
    BY <2>2, <2>3 DEF Numbered
<1>3. \A m \in Mounts : init[m].at = "off"
  BY DEF Init, NoInit
<1>4. late = {}
  BY DEF Init
<1> QED
  BY <1>1, <1>2, <1>3, <1>4
  DEF Between, SentBetween, SentOnce, MigrationBetween, Migrates, PullBehind,
      LateBehind

\* A step of one init(), for a collection: what it comes to carry is all that
\* changed of what is carried, and the others carry what they carried.
LEMMA StartingInFlight ==
    ASSUME TypeOK, NEW m \in Mounts, Starting(m), raced = {}, raced' = {},
           NEW d \in Colls, Between(d)
    PROVE  Between(d)'
<1>t. /\ local[d] \in Nat /\ server[d] \in Nat /\ edits \in Nat
      /\ \A n \in Mounts : init[n].snap[d] \in Nat
      /\ \A f \in Flushes : flush[f].val[d] \in Nat
      /\ \A req \in late : req[d] \in Nat
  BY SyncAssumption DEF TypeOK
<1>e. UNCHANGED <<flush, edits>>
  BY DEF Starting, ServerMode, LocalMode, Merged, MigrationAnswered,
         MigrationFails, PullRead, PullWritten, PullFails, counts, sent
<1>l. local \in [Colls -> Nat] /\ server \in [Colls -> Nat]
      /\ Nothing \in [Colls -> Nat] /\ Nothing[d] = 0
  BY DEF TypeOK, Nothing
<1> USE DEF Between, Numbered, SentBetween, SentOnce, MigrationBetween,
            Migrates, PullBehind, LateBehind
\* What the migration carries is the browser's own copy.
<1>1. CASE ServerMode(m)
  <2>1. UNCHANGED <<local, server, late>>
    BY <1>1 DEF ServerMode, copies, sent
  <2>2. CASE Reaches(m, "pulling", Nothing)
    <3>1. /\ init'[m].at = "pulling"
          /\ \A n \in Mounts : n # m => init'[n] = init[n]
      BY <2>2, <1>l, ReachesFacts DEF Places
    <3> QED
      BY <1>t, <1>e, <2>1, <3>1
  <2>3. CASE ~Reaches(m, "pulling", Nothing)
    <3>1. /\ Reaches(m, "migrating", local)
          /\ Race({"crossed" : c \in {e \in Colls : local[e] # 0 /\ Unseen(e)}}
                    \cup {"merged" : c \in {e \in Colls :
                                          local[e] < server[e]
                                            /\ local[e] # 0}})
      BY <1>1, <2>3 DEF ServerMode
    <3>2. local[d] # 0 => ~Unseen(d) /\ ~(local[d] < server[d])
      BY <3>1, NoRace
    <3>3. /\ init'[m].at = "migrating" /\ init'[m].snap = local
          /\ \A n \in Mounts : n # m => init'[n] = init[n]
      BY <3>1, <1>l, ReachesFacts DEF Places
    <3>4. CASE local[d] = 0
      BY <1>t, <1>e, <2>1, <3>3, <3>4
    <3>5. CASE local[d] # 0
      <4>1. /\ \A n \in Mounts : ~Migrates(n, d)
            /\ \A f \in Flushes : flush[f].st[d] # "sent"
        BY <3>2, <3>5 DEF Unseen
      <4> QED
        BY <1>t, <1>e, <2>1, <3>2, <3>3, <3>5, <4>1
    <3> QED
      BY <3>4, <3>5
  <2> QED
    BY <2>2, <2>3
<1>2. CASE LocalMode(m)
  <2>1. UNCHANGED <<local, server, late>>
    BY <1>2 DEF LocalMode, copies, sent
  <2>2. /\ init'[m].at = "local"
        /\ \A n \in Mounts : n # m => init'[n] = init[n]
    BY <1>2, <1>l, ReachesFacts DEF LocalMode, Places
  <2> QED
    BY <1>t, <1>e, <2>1, <2>2
<1>3. CASE Merged(m)
  <2>1. UNCHANGED <<local, late>>
    BY <1>3 DEF Merged, sent
  <2>2. /\ init[m].at = "migrating"
        /\ server'[d] = IF init[m].snap[d] # 0 THEN init[m].snap[d] ELSE server[d]
    BY <1>3 DEF Merged, AfterMerge
  <2>3. /\ init'[m].at = "migrated"
        /\ \A n \in Mounts : n # m => init'[n] = init[n]
    BY <1>3, <1>l, ReachesFacts DEF Merged, Places
  <2>4. CASE init[m].snap[d] = 0
    BY <1>t, <1>e, <2>1, <2>2, <2>3, <2>4
  <2>5. CASE init[m].snap[d] # 0
    <3>1. /\ server[d] <= server'[d] /\ server'[d] <= local[d]
          /\ server'[d] \in Nat
          /\ \A f \in Flushes : flush[f].st[d] # "sent"
          /\ \A n \in Mounts : Migrates(n, d) => n = m
      BY <1>t, <2>2, <2>5
    <3> QED
      BY <1>t, <1>e, <2>1, <2>3, <3>1
  <2> QED
    BY <2>4, <2>5
<1>4. CASE MigrationAnswered(m)
  <2>1. UNCHANGED <<local, server, late>>
    BY <1>4 DEF MigrationAnswered, copies, sent
  <2>2. /\ init'[m].at \in {"pulling", "off"}
        /\ \A n \in Mounts : n # m => init'[n] = init[n]
    BY <1>4, PassesFacts DEF MigrationAnswered, Places
  <2> QED
    BY <1>t, <1>e, <2>1, <2>2
\* What it carried may come late, and is behind what is sent from now on.
<1>5. CASE MigrationFails(m)
  <2>1. UNCHANGED <<local, server>>
    BY <1>5 DEF MigrationFails, copies
  <2>2. /\ init'[m].at \in {"pulling", "off"}
        /\ \A n \in Mounts : n # m => init'[n] = init[n]
    BY <1>5, PassesFacts DEF MigrationFails, Places
  <2>3. \A req \in late' :
          req \in late \/ (init[m].at = "migrating" /\ req = init[m].snap)
    BY <1>5 DEF MigrationFails
  <2>4. /\ Numbered(d)' /\ SentBetween(d)' /\ SentOnce(d)'
        /\ MigrationBetween(d)' /\ PullBehind(d)'
    BY <1>t, <1>e, <2>1, <2>2
  <2>5. ASSUME NEW req \in late'
        PROVE  /\ req[d] <= local'[d]
               /\ \A f \in Flushes :
                     flush'[f].st[d] = "sent" => req[d] <= flush'[f].val[d]
               /\ \A n \in Mounts : Migrates(n, d)' => req[d] <= init'[n].snap[d]
    <3>1. CASE req \in late
      BY <1>t, <1>e, <2>1, <2>2, <3>1
    <3>2. CASE init[m].at = "migrating" /\ req = init[m].snap
      <4>1. CASE req[d] = 0
        <5>1. \A n \in Mounts : n # m /\ Migrates(n, d)' => init'[n].snap[d] \in Nat
          BY <1>t, <2>2
        <5>2. ~Migrates(m, d)'
          BY <2>2
        <5> QED
          BY <1>t, <1>e, <2>1, <4>1, <5>1, <5>2
      <4>2. CASE req[d] # 0
        <5>1. /\ req[d] <= local[d]
              /\ \A f \in Flushes : flush[f].st[d] # "sent"
              /\ \A n \in Mounts : Migrates(n, d) => n = m
          BY <3>2, <4>2
        <5>2. \A n \in Mounts : ~Migrates(n, d)'
          BY <2>2, <5>1
        <5> QED
          BY <1>e, <2>1, <5>1, <5>2
      <4> QED
        BY <4>1, <4>2
    <3> QED
      BY <2>3, <3>1, <3>2
  <2>6. LateBehind(d)'
    BY <2>5
  <2> QED
    BY <2>4, <2>6
<1>6. CASE PullRead(m)
  <2>1. UNCHANGED <<local, server, late>>
    BY <1>6 DEF PullRead, copies, sent
  <2>2. /\ init'[m].at = "pulled" /\ init'[m].snap = server
        /\ \A n \in Mounts : n # m => init'[n] = init[n]
    BY <1>6, <1>l, ReachesFacts DEF PullRead, Places
  <2> QED
    BY <1>t, <1>e, <2>1, <2>2
\* What the pull writes is no older than what was there, and what the server
\* has.
<1>7. CASE PullWritten(m)
  <2>1. UNCHANGED <<server, late>>
    BY <1>7 DEF PullWritten, sent
  <2>2. /\ init[m].at = "pulled"
        /\ local'[d] = IF init[m].snap[d] # 0 THEN init[m].snap[d] ELSE local[d]
    BY <1>7 DEF PullWritten
  <2>3. ~(init[m].snap[d] \in 1..(local[d] - 1))
    BY <1>7, NoRace DEF PullWritten
  <2>4. init[m].snap[d] # 0 => local[d] <= init[m].snap[d]
    BY <1>t, <2>3
  <2>5. /\ local[d] <= local'[d] /\ local'[d] \in Nat
        /\ local'[d] <= edits + 2
    BY <1>t, <2>2, <2>4
  <2>6. /\ init'[m].at \in {"ready", "off"}
        /\ \A n \in Mounts : n # m => init'[n] = init[n]
    BY <1>7, PassesFacts DEF PullWritten, Places
  <2> QED
    BY <1>t, <1>e, <2>1, <2>5, <2>6
<1>8. CASE PullFails(m)
  <2>1. UNCHANGED <<local, server, late>>
    BY <1>8 DEF PullFails, copies, sent
  <2>2. /\ init'[m].at \in {"ready", "off"}
        /\ \A n \in Mounts : n # m => init'[n] = init[n]
    BY <1>8, PassesFacts DEF PullFails, Places
  <2> QED
    BY <1>t, <1>e, <2>1, <2>2
<1> QED
  BY <1>1, <1>2, <1>3, <1>4, <1>5, <1>6, <1>7, <1>8 DEF Starting

LEMMA StepInFlight ==
    TypeOK /\ InFlightBetween /\ [Next]_vars => InFlightBetween'
<1> SUFFICES ASSUME TypeOK, InFlightBetween, [Next]_vars, raced' = {},
                    NEW d \in Colls
             PROVE  Between(d)'
  BY DEF InFlightBetween
<1>0. raced = {} /\ Between(d)
  BY RacesAreKept DEF InFlightBetween
<1>t. /\ local[d] \in Nat /\ server[d] \in Nat /\ edits \in Nat
      /\ \A n \in Mounts : init[n].snap[d] \in Nat
      /\ \A f \in Flushes : flush[f].val[d] \in Nat
      /\ \A req \in late : req[d] \in Nat
  BY SyncAssumption DEF TypeOK
<1> USE DEF Between, Numbered, SentBetween, SentOnce, MigrationBetween,
            Migrates, PullBehind, LateBehind
<1>1. ASSUME NEW c \in Colls, Edit(c) PROVE Between(d)'
  <2>1. /\ local'[d] = local[d] \/ local'[d] = edits + 3
        /\ edits' = edits + 1
    BY <1>1 DEF Edit, TypeOK
  <2>2. UNCHANGED <<server, init, flush, late>>
    BY <1>1 DEF Edit, place, sent
  <2> QED
    BY <1>0, <1>t, <2>1, <2>2
\* The other device's push crosses nothing of this browser.
<1>2. ASSUME NEW c \in Colls, Elsewhere(c) PROVE Between(d)'
  <2>1. /\ server'[d] = IF d = c THEN edits + 3 ELSE server[d]
        /\ edits' = edits + 1
    BY <1>2 DEF Elsewhere, TypeOK
  <2>2. UNCHANGED <<local, init, flush, late>>
    BY <1>2 DEF Elsewhere, place, sent
  <2>3. ~Unseen(c)
    BY <1>2, NoRace DEF Elsewhere
  <2> QED
    BY <1>0, <1>t, <2>1, <2>2, <2>3 DEF Unseen
\* What is sent is what the browser holds, the server holds nothing newer, and
\* nothing else of it is on its way.
<1>3. CASE Fire
  <2>1. UNCHANGED <<local, server, init, edits, late>>
    BY <1>3 DEF Fire, copies, place, counts
  <2>2. d \in pending => ~Unseen(d) /\ ~(local[d] < server[d])
    BY <1>3, NoRace DEF Fire
  <2>3. \/ UNCHANGED flush
        \/ \E f \in Flushes :
             /\ \A g \in Flushes : g # f => flush'[g] = flush[g]
             /\ flush'[f].st[d] = "sent" =>
                  d \in pending /\ flush'[f].val[d] = local[d]
    <3>1. CASE pending = {} /\ UNCHANGED flush
      BY <3>1
    <3>2. CASE ~(pending = {} /\ UNCHANGED flush)
      <4>1. PICK f \in Flushes :
              /\ \A g \in Flushes : g # f => flush'[g] = flush[g]
              /\ IF d \in pending
                 THEN /\ flush'[f].st[d] = "sent"
                      /\ flush'[f].val[d] = local[d]
                 ELSE flush'[f].st[d] = "none"
        BY <1>3, <3>2, FireFacts
      <4> QED
        BY <4>1
    <3> QED
      BY <3>1, <3>2
  <2>4. CASE UNCHANGED flush
    BY <1>0, <1>t, <2>1, <2>4
  <2>5. ASSUME NEW f \in Flushes,
               \A g \in Flushes : g # f => flush'[g] = flush[g],
               flush'[f].st[d] = "sent" =>
                 d \in pending /\ flush'[f].val[d] = local[d]
        PROVE  Between(d)'
    <3>1. CASE flush'[f].st[d] = "sent"
      <4>1. /\ \A g \in Flushes : g # f => flush'[g].st[d] # "sent"
            /\ \A m \in Mounts : ~Migrates(m, d)
        BY <2>2, <2>5, <3>1 DEF Unseen
      <4>2. flush'[f].val[d] = local[d] /\ server[d] <= local[d]
        BY <1>t, <2>2, <2>5, <3>1
      <4>3. \A m \in Mounts : ~Migrates(m, d)'
        BY <2>1, <4>1
      <4> QED
        BY <1>0, <1>t, <2>1, <3>1, <4>1, <4>2, <4>3
    <3>2. CASE flush'[f].st[d] # "sent"
      BY <1>0, <1>t, <2>1, <2>5, <3>2
    <3> QED
      BY <3>1, <3>2
  <2> QED
    BY <2>3, <2>4, <2>5
\* A push that fails may come late: nothing else of c is on its way then.
<1>4. ASSUME NEW f \in Flushes, NEW c \in Colls, Answer(f, c)
      PROVE  Between(d)'
  <2>0. PICK st \in {"stored", "failed"} : SetSt(f, c, st)
    BY <1>4 DEF Answer, Stored, PushFails
  <2>1. /\ flush'[f].st[c] = st
        /\ \A g \in Flushes :
              g # f \/ d # c => /\ flush'[g].st[d] = flush[g].st[d]
                               /\ flush'[g].val[d] = flush[g].val[d]
    BY <2>0, SetStFacts
  <2>2. UNCHANGED <<local, init, edits>>
    BY <1>4 DEF Answer, Stored, PushFails, copies, place, counts
  <2>4. \A g \in Flushes : flush'[g].st[d] = "sent" =>
          flush[g].st[d] = "sent" /\ flush'[g].val[d] = flush[g].val[d]
    BY <2>0, <2>1
  <2>5. CASE Stored(f, c)
    <3>1. /\ flush[f].st[c] = "sent" /\ late' = late
          /\ server'[d] = IF d = c THEN flush[f].val[c] ELSE server[d]
      BY <2>5 DEF Stored, TypeOK
    <3>2. CASE d # c
      BY <1>0, <1>t, <2>2, <2>4, <3>1, <3>2
    <3>3. CASE d = c
      <4>1. \A g \in Flushes : flush'[g].st[d] # "sent"
        BY <1>0, <2>0, <2>1, <2>4, <3>1, <3>3
      <4>2. \A m \in Mounts : ~Migrates(m, d)
        BY <1>0, <3>1, <3>3
      <4>3. /\ server[d] <= server'[d] /\ server'[d] <= local[d]
            /\ server'[d] \in Nat
        BY <1>0, <1>t, <3>1, <3>3
      <4> QED
        BY <1>0, <1>t, <2>2, <3>1, <4>1, <4>2, <4>3
    <3> QED
      BY <3>2, <3>3
  <2>6. CASE PushFails(f, c)
    <3>1. /\ UNCHANGED server
          /\ \A req \in late' :
               \/ req \in late
               \/ flush[f].st[c] = "sent" /\ req = Only(c, flush[f].val[c])
      BY <2>6 DEF PushFails, copies
    <3>2. /\ Numbered(d)' /\ SentBetween(d)' /\ SentOnce(d)'
          /\ MigrationBetween(d)' /\ PullBehind(d)'
      BY <1>0, <1>t, <2>2, <2>4, <3>1
    <3>3. ASSUME NEW req \in late'
          PROVE  /\ req[d] <= local'[d]
                 /\ \A g \in Flushes :
                       flush'[g].st[d] = "sent" => req[d] <= flush'[g].val[d]
                 /\ \A n \in Mounts :
                       Migrates(n, d)' => req[d] <= init'[n].snap[d]
      <4>1. CASE req \in late
        BY <1>0, <1>t, <2>2, <2>4, <3>1, <4>1
      <4>2. CASE flush[f].st[c] = "sent" /\ req = Only(c, flush[f].val[c])
        <5>1. req[d] = IF d = c THEN flush[f].val[c] ELSE 0
          BY <4>2 DEF Only, Nothing
        <5>2. CASE d # c
          BY <1>0, <1>t, <2>2, <2>4, <5>1, <5>2
        <5>3. CASE d = c
          <6>1. \A g \in Flushes : flush'[g].st[d] # "sent"
            BY <1>0, <2>0, <2>1, <2>4, <4>2, <5>3
          <6>2. \A m \in Mounts : ~Migrates(m, d)'
            BY <1>0, <2>2, <4>2, <5>3
          <6>3. req[d] <= local'[d]
            BY <1>0, <1>t, <2>2, <4>2, <5>1, <5>3
          <6> QED
            BY <6>1, <6>2, <6>3
        <5> QED
          BY <5>2, <5>3
      <4> QED
        BY <3>1, <4>1, <4>2
    <3>4. LateBehind(d)'
      BY <3>3
    <3> QED
      BY <3>2, <3>4
  <2> QED
    BY <1>4, <2>5, <2>6 DEF Answer
<1>5. ASSUME NEW f \in Flushes, Settle(f) PROVE Between(d)'
  <2>1. \A g \in Flushes : flush'[g].st[d] = "sent" => flush'[g] = flush[g]
    BY <1>5, SettleFacts
  <2>2. UNCHANGED <<local, server, init, edits, late>>
    BY <1>5 DEF Settle, copies, place, counts
  <2> QED
    BY <1>0, <1>t, <2>1, <2>2
<1>6. CASE Mount
  <2>1. UNCHANGED <<local, server, edits, flush, late>>
    BY <1>6 DEF Mount, copies, sent
  <2>2. \A n \in Mounts : init'[n].at = "config" \/ init'[n] = init[n]
    BY <1>6, MountFacts
  <2> QED
    BY <1>0, <1>t, <2>1, <2>2
<1>7. CASE Listen
  <2>1. UNCHANGED <<local, server, edits, flush, late, init>>
    BY <1>7 DEF Listen, copies, sent, counts
  <2> QED
    BY <1>0, <1>t, <2>1
<1>8. CASE Unmount
  <2>1. UNCHANGED <<local, server, edits, late>>
    BY <1>8 DEF Unmount, copies, counts
  <2>2. \A f \in Flushes : flush'[f].val = flush[f].val
                             /\ flush'[f].st = flush[f].st
    BY <1>8, UnmountFacts
  <2>3. \A n \in Mounts : /\ init'[n].snap = init[n].snap
                          /\ init'[n].at = init[n].at \/ init'[n].at = "off"
    BY <1>8, CancelFacts
  <2> QED
    BY <1>0, <1>t, <2>1, <2>2, <2>3
<1>9. ASSUME NEW m \in Mounts, Starting(m) PROVE Between(d)'
  BY <1>0, <1>9, StartingInFlight
\* A late request that no race is of brings the server no further than the
\* browser and whatever was sent since.
<1>10. ASSUME NEW req \in late, ArrivesLate(req) PROVE Between(d)'
  <2>1. /\ UNCHANGED <<local, init, edits, flush>> /\ late' \subseteq late
        /\ server'[d] = IF req[d] # 0 THEN req[d] ELSE server[d]
    BY <1>10 DEF ArrivesLate, AfterMerge, place, counts
  <2>2. ~(req[d] # 0 /\ req[d] < server[d])
    BY <1>10, NoRace DEF ArrivesLate
  <2>3. /\ server[d] <= server'[d] /\ server'[d] \in Nat
        /\ server'[d] <= local[d] \/ server'[d] = server[d]
    BY <1>0, <1>t, <2>1, <2>2
  <2>4. server'[d] = server[d] \/ server'[d] = req[d]
    BY <2>1
  <2> QED
    BY <1>0, <1>t, <2>1, <2>3, <2>4
<1>11. CASE UNCHANGED vars
  <2>1. UNCHANGED <<local, server, init, edits, flush, late>>
    BY <1>11 DEF vars, copies, place, sent, counts
  <2> QED
    BY <1>0, <1>t, <2>1
<1> QED
  BY <1>1, <1>2, <1>3, <1>4, <1>5, <1>6, <1>7, <1>8, <1>9, <1>10, <1>11
  DEF Next

-----------------------------------------------------------------------------
(* No edit is forgotten.                                                   *)

\* What keeps an edit of c from being forgotten: it is pending, or a flush of
\* this component carries it as it stands, or failed to.
Carries(f, c) ==
    /\ flush[f].live
    /\ \/ flush[f].st[c] = "failed"
       \/ flush[f].st[c] = "sent" /\ flush[f].val[c] = local[c]

LEMMA ForsakenMeans ==
    ASSUME NEW c \in Colls
    PROVE  ~Forsaken(c) <=> \/ ~Ahead(c) \/ c \in pending
                            \/ \E f \in Flushes : Carries(f, c)
BY DEF Forsaken, Carries

LEMMA StepForgotten ==
    /\ TypeOK /\ ReadyListens /\ InFlightBetween /\ NothingForgotten
    /\ [Next]_vars
    => NothingForgotten'
<1> SUFFICES ASSUME TypeOK, ReadyListens, InFlightBetween, NothingForgotten,
                    [Next]_vars, mode' = "ready", raced' = {},
                    NEW d \in Colls, Ahead(d)', d \notin pending'
             PROVE  \E f \in Flushes : Carries(f, d)'
  BY DEF NothingForgotten, Forsaken, Carries, Ahead
<1>0. raced = {}
  BY RacesAreKept
<1>k. mode = "ready" => \/ ~Ahead(d) \/ d \in pending
                        \/ \E f \in Flushes : Carries(f, d)
  BY <1>0, ForsakenMeans DEF NothingForgotten
<1>b. /\ Numbered(d) /\ MigrationBetween(d)
      /\ \A f \in Flushes : flush[f].st[d] = "sent" =>
            server[d] <= flush[f].val[d] /\ flush[f].val[d] <= local[d]
      /\ \A m \in Mounts : init[m].at = "pulled" => init[m].snap[d] <= server[d]
  BY <1>0 DEF InFlightBetween, Between, SentBetween, PullBehind
<1>t. /\ local[d] \in Nat /\ server[d] \in Nat /\ edits \in Nat
      /\ \A m \in Mounts : init[m].snap[d] \in Nat
      /\ \A f \in Flushes : flush[f].val[d] \in Nat
  BY SyncAssumption DEF TypeOK
\* An edit of d makes it pending; one of another collection changes nothing.
<1>1. ASSUME NEW c \in Colls, Edit(c) PROVE \E f \in Flushes : Carries(f, d)'
  <2>1. mode = "ready" /\ listening
    BY <1>1, SameMode DEF Edit, place, ReadyListens
  <2>2. d # c /\ d \notin pending
    BY <1>1, <2>1 DEF Edit
  <2>3. local'[d] = local[d] /\ UNCHANGED <<server, flush>>
    BY <1>1, <2>2 DEF Edit, TypeOK, sent
  <2> QED
    BY <1>k, <2>1, <2>2, <2>3 DEF Ahead, Carries
<1>2. ASSUME NEW c \in Colls, Elsewhere(c)
      PROVE  \E f \in Flushes : Carries(f, d)'
  <2>1. mode = "ready" /\ UNCHANGED <<local, pending, flush>>
    BY <1>2, SameMode DEF Elsewhere, place, timers, sent
  <2>2. server'[d] = IF d = c THEN edits + 3 ELSE server[d]
    BY <1>2 DEF Elsewhere, TypeOK
  <2>3. Ahead(d)
    BY <1>t, <1>b, <2>1, <2>2 DEF Ahead, Numbered
  <2> QED
    BY <1>k, <2>1, <2>3 DEF Carries
\* What was pending is in the new flush as it stands; the others go on.
<1>3. CASE Fire
  <2>1. mode = "ready" /\ Ahead(d) /\ UNCHANGED local
    BY <1>3, SameMode DEF Fire, place, copies, counts, Ahead
  <2>2. CASE pending = {} /\ UNCHANGED flush
    BY <1>k, <2>1, <2>2 DEF Carries
  <2>3. CASE ~(pending = {} /\ UNCHANGED flush)
    <3>1. PICK f \in Flushes :
            /\ flush[f].st[d] = "none"
            /\ \A g \in Flushes : g # f => flush'[g] = flush[g]
            /\ flush'[f].live
            /\ d \in pending => flush'[f].st[d] = "sent"
                                  /\ flush'[f].val[d] = local[d]
      BY <1>3, <2>3, FireFacts
    <3> QED
      BY <1>k, <2>1, <3>1 DEF Carries
  <2> QED
    BY <2>2, <2>3
\* A push that is stored brings the server level; one that fails still counts.
<1>4. ASSUME NEW f \in Flushes, NEW c \in Colls, Answer(f, c)
      PROVE  \E g \in Flushes : Carries(g, d)'
  <2>0. PICK st \in {"stored", "failed"} : SetSt(f, c, st)
    BY <1>4 DEF Answer, Stored, PushFails
  <2>1. /\ flush'[f].st[c] = st
        /\ \A g \in Flushes : flush'[g].live = flush[g].live
        /\ \A g \in Flushes :
              g # f \/ d # c => /\ flush'[g].st[d] = flush[g].st[d]
                               /\ flush'[g].val[d] = flush[g].val[d]
    BY <2>0, SetStFacts
  <2>2. mode = "ready" /\ UNCHANGED <<local, pending>>
    BY <1>4, SameMode
    DEF Answer, Stored, PushFails, copies, place, timers, counts
  <2>3. CASE Stored(f, c)
    <3>1. /\ flush[f].st[c] = "sent"
          /\ server'[d] = IF d = c THEN flush[f].val[c] ELSE server[d]
      BY <2>3 DEF Stored, TypeOK
    <3>2. Ahead(d)
      BY <1>t, <1>b, <2>2, <3>1 DEF Ahead
    <3>3. PICK g \in Flushes : Carries(g, d)
      BY <1>k, <2>2, <3>2
    <3>4. g # f \/ d # c
      BY <1>t, <2>2, <3>1, <3>3 DEF Carries, Ahead
    <3> QED
      BY <2>1, <2>2, <3>3, <3>4 DEF Carries
  <2>5. CASE PushFails(f, c)
    <3>1. UNCHANGED server /\ SetSt(f, c, "failed")
      BY <2>5 DEF PushFails, copies
    <3>2. flush'[f].st[c] = "failed"
      BY <3>1, SetStFacts
    <3>3. PICK g \in Flushes : Carries(g, d)
      BY <1>k, <2>2, <3>1 DEF Ahead
    <3>4. CASE g = f /\ d = c
      BY <2>1, <3>2, <3>3, <3>4 DEF Carries
    <3>5. CASE g # f \/ d # c
      BY <2>1, <2>2, <3>3, <3>5 DEF Carries
    <3> QED
      BY <3>4, <3>5
  <2> QED
    BY <1>4, <2>3, <2>5 DEF Answer
\* "Putting it back in the queue is what keeps the write recoverable."
<1>5. ASSUME NEW f \in Flushes, Settle(f)
      PROVE  \E g \in Flushes : Carries(g, d)'
  <2>1. mode = "ready" /\ Ahead(d) /\ UNCHANGED local
    BY <1>5, SameMode DEF Settle, place, copies, counts, Ahead
  <2>2. pending \subseteq pending' /\ ~Carries(f, d)
    <3>1. flush[f].st[d] \in {"none", "stored", "failed"}
      BY <1>5 DEF Settle, TypeOK
    <3>2. flush[f].live /\ flush[f].st[d] = "failed" => d \in pending'
      BY <1>5 DEF Settle, Requeue
    <3>3. pending \subseteq pending'
      BY <1>5 DEF Settle, Requeue, timers
    <3> QED
      BY <3>1, <3>2, <3>3 DEF Carries
  <2>3. PICK g \in Flushes : Carries(g, d)
    BY <1>k, <2>1, <2>2
  <2>4. flush'[g] = flush[g]
    BY <1>5, <2>2, <2>3, SettleFacts
  <2> QED
    BY <2>1, <2>3, <2>4 DEF Carries
<1>6. CASE Mount
  BY <1>6, MountFacts DEF Mount, mode
<1>7. CASE Listen
  <2>1. mode = "ready" /\ UNCHANGED <<local, server, pending, flush>>
    BY <1>7, SameMode DEF Listen, copies, timers, sent, counts
  <2> QED
    BY <1>k, <2>1 DEF Ahead, Carries
<1>8. CASE Unmount
  BY <1>8 DEF Unmount, mode
\* The end of a mount's pull: the server's copy replaces the browser's, or
\* nothing was forsaken.  What the init() of an earlier mount still does takes
\* nothing from what is carried.
<1>9. ASSUME NEW m \in Mounts, Starting(m) PROVE \E f \in Flushes : Carries(f, d)'
  <2>1. UNCHANGED <<pending, flush>>
    BY <1>9, StartingMode DEF timers
  <2>2. CASE PullWritten(m)
    <3>1. /\ init[m].at = "pulled" /\ UNCHANGED server
          /\ local'[d] = IF init[m].snap[d] # 0 THEN init[m].snap[d]
                                                ELSE local[d]
      BY <2>2 DEF PullWritten
    <3>2. init[m].snap[d] = 0 /\ local'[d] = local[d]
      BY <1>t, <1>b, <3>1 DEF Ahead
    <3>3. CASE Current(m)
      <4>1. ~Forsaken(d)
        BY <2>2, <3>2, <3>3, NoRace DEF PullWritten
      <4> QED
        BY <2>1, <3>1, <3>2, <4>1, ForsakenMeans DEF Ahead, Carries
    <3>4. CASE ~Current(m)
      <4>1. mode = "ready"
        BY <1>9, <3>4, StartingMode
      <4> QED
        BY <1>k, <2>1, <3>1, <3>2, <4>1 DEF Ahead, Carries
    <3> QED
      BY <3>3, <3>4
  <2>3. CASE PullFails(m) /\ Current(m)
    <3>1. ~Forsaken(d) /\ UNCHANGED <<local, server>>
      BY <2>3, NoRace DEF PullFails, copies
    <3> QED
      BY <2>1, <3>1, ForsakenMeans DEF Ahead, Carries
  <2>4. CASE ~PullWritten(m) /\ ~(PullFails(m) /\ Current(m))
    <3>1. mode = "ready"
      BY <1>9, <2>4, StartingMode
    <3>2. CASE Merged(m)
      <4>1. /\ UNCHANGED local /\ init[m].at = "migrating"
            /\ server'[d] = IF init[m].snap[d] # 0 THEN init[m].snap[d]
                                                   ELSE server[d]
        BY <3>2 DEF Merged, AfterMerge
      <4>2. Ahead(d)
        BY <1>t, <1>b, <4>1 DEF Ahead, MigrationBetween, Migrates
      <4> QED
        BY <1>k, <2>1, <3>1, <4>1, <4>2 DEF Carries
    <3>3. CASE ~Merged(m)
      <4>1. UNCHANGED <<local, server>>
        BY <1>9, <2>4, <3>3 DEF Starting, ServerMode, LocalMode,
           MigrationAnswered, MigrationFails, PullRead, PullFails, copies
      <4> QED
        BY <1>k, <2>1, <3>1, <4>1 DEF Ahead, Carries
    <3> QED
      BY <3>2, <3>3
  <2> QED
    BY <2>2, <2>3, <2>4
\* A late request that no race is of only brings the server on.
<1>10. ASSUME NEW req \in late, ArrivesLate(req)
       PROVE  \E f \in Flushes : Carries(f, d)'
  <2>1. /\ mode = "ready" /\ UNCHANGED <<local, pending, flush>>
        /\ server'[d] = IF req[d] # 0 THEN req[d] ELSE server[d]
    BY <1>10, SameMode DEF ArrivesLate, AfterMerge, place, timers, counts
  <2>2. ~(req[d] # 0 /\ req[d] < server[d]) /\ req[d] \in Nat
    <3> DEFINE older == {c \in Colls : req[c] # 0 /\ req[c] < server[c]}
    <3>1. Race({"crossed" : c \in older})
      BY <1>10 DEF ArrivesLate
    <3>2. {"crossed" : c \in older} = {}
      <4> HIDE DEF older
      <4> QED
        BY <3>1, NoRace
    <3>3. d \notin older
      BY <3>2
    <3> QED
      BY <1>10, <3>3 DEF TypeOK
  <2>3. Ahead(d)
    BY <1>t, <2>1, <2>2 DEF Ahead
  <2> QED
    BY <1>k, <2>1, <2>3 DEF Carries
<1>11. CASE UNCHANGED vars
  BY <1>11, <1>k, SameMode
  DEF vars, copies, place, timers, sent, counts, Ahead, Carries
<1> QED
  BY <1>1, <1>2, <1>3, <1>4, <1>5, <1>6, <1>7, <1>8, <1>9, <1>10, <1>11
  DEF Next

LEMMA SyncInvariant == Spec => []SyncInv
<1>1. Init => SyncInv
  BY InitType, InitTimers, InitInFlight DEF SyncInv, Init, NothingForgotten, mode
<1>2. SyncInv /\ [Next]_vars => SyncInv'
  BY StepType, StepTimers, StepInFlight, StepForgotten DEF SyncInv
<1> QED
  BY <1>1, <1>2, PTL DEF Spec

\* flushPending: once a mount's pull is over and no race has happened, an edit
\* the server has not got is pending, on its way or about to be put back, for
\* any number of collections, flushes, edits and failures.
THEOREM NoEditIsForgotten == Spec => []NothingForgotten
<1>1. SyncInv => NothingForgotten
  BY DEF SyncInv
<1> QED
  BY <1>1, SyncInvariant, PTL

-----------------------------------------------------------------------------
(* The refinement: step by step, the copies do what WriteBehind does.      *)

LEMMA InitImplements == Init => WB!Init
<1> SUFFICES ASSUME Init PROVE WB!Init
  OBVIOUS
<1>1. local \in [Colls -> Nat] /\ server \in [Colls -> Nat]
  BY InitType DEF TypeOK
<1> QED
  BY <1>1 DEF WB!Init

LEMMA StepImplements ==
    SyncInv /\ [Next]_vars => [raced' = {} => WB!Next]_copies
<1> SUFFICES ASSUME SyncInv, [Next]_vars, raced' = {}, copies' # copies
             PROVE  WB!Next
  OBVIOUS
<1>0. raced = {} /\ TypeOK
  BY RacesAreKept DEF SyncInv
<1>b. \A d \in Colls :
        /\ Numbered(d) /\ SentBetween(d) /\ MigrationBetween(d)
        /\ PullBehind(d) /\ LateBehind(d)
  BY <1>0 DEF SyncInv, InFlightBetween, Between
<1>t. /\ local \in [Colls -> Nat] /\ server \in [Colls -> Nat]
      /\ \A m \in Mounts : init[m].snap \in [Colls -> Nat]
      /\ late \subseteq [Colls -> Nat] /\ edits \in Nat
      /\ \A f \in Flushes, c \in Colls : flush[f].val[c] \in Nat
  BY <1>0, SyncAssumption DEF TypeOK
\* An edit, here or elsewhere, is newer than both copies.
<1>1. ASSUME NEW c \in Colls, Edit(c) PROVE WB!Next
  <2>1. /\ local' = [local EXCEPT ![c] = edits + 3]
        /\ server' = server
    BY <1>1 DEF Edit
  <2>2. local'[c] = edits + 3
    BY <1>t, <2>1
  <2>3. WB!Edit(c)
    BY <1>t, <1>b, <2>1, <2>2 DEF WB!Edit, Numbered
  <2> QED
    BY <2>3 DEF WB!Next
<1>2. ASSUME NEW c \in Colls, Elsewhere(c) PROVE WB!Next
  <2>1. /\ server' = [server EXCEPT ![c] = edits + 3]
        /\ local' = local
    BY <1>2 DEF Elsewhere
  <2>2. server'[c] = edits + 3
    BY <1>t, <2>1
  <2>3. WB!Elsewhere(c)
    BY <1>t, <1>b, <2>1, <2>2 DEF WB!Elsewhere, Numbered
  <2> QED
    BY <2>3 DEF WB!Next
\* The server catches up with the browser: a push is stored, the migration is
\* merged, a request that was given up arrives late.
<1>3. ASSUME NEW f \in Flushes, NEW c \in Colls, Answer(f, c) PROVE WB!Next
  <2>1. /\ flush[f].st[c] = "sent"
        /\ server' = [server EXCEPT ![c] = flush[f].val[c]]
        /\ local' = local
    BY <1>3 DEF Answer, Stored, PushFails, copies
  <2>2. server[c] <= flush[f].val[c] /\ flush[f].val[c] <= local[c]
    BY <1>b, <2>1 DEF SentBetween
  <2>3. WB!CatchUp(server, local, server')
    BY <1>t, <2>1, <2>2 DEF WB!CatchUp
  <2> QED
    BY <2>1, <2>3 DEF WB!Next, WB!Push
<1>4. ASSUME NEW m \in Mounts, Merged(m) PROVE WB!Next
  <2>1. /\ init[m].at = "migrating" /\ local' = local
        /\ \A c \in Colls :
              server'[c] = IF init[m].snap[c] # 0 THEN init[m].snap[c]
                                                  ELSE server[c]
    BY <1>4 DEF Merged, AfterMerge
  <2>2. WB!CatchUp(server, local, server')
    BY <1>t, <1>b, <2>1 DEF WB!CatchUp, MigrationBetween, Migrates
  <2> QED
    BY <2>1, <2>2 DEF WB!Next, WB!Push
<1>5. ASSUME NEW req \in late, ArrivesLate(req) PROVE WB!Next
  <2>1. /\ local' = local
        /\ \A c \in Colls :
              server'[c] = IF req[c] # 0 THEN req[c] ELSE server[c]
    BY <1>5 DEF ArrivesLate, AfterMerge
  <2>2. \A c \in Colls : ~(req[c] # 0 /\ req[c] < server[c])
    BY <1>5, NoRace DEF ArrivesLate
  <2>3. \A c \in Colls : req[c] <= local[c] /\ req[c] \in Nat
    BY <1>t, <1>b DEF LateBehind
  <2>4. WB!CatchUp(server, local, server')
    BY <1>t, <2>1, <2>2, <2>3 DEF WB!CatchUp
  <2> QED
    BY <2>1, <2>4 DEF WB!Next, WB!Push
\* The browser catches up with the server: a pull is written.
<1>6. ASSUME NEW m \in Mounts, PullWritten(m) PROVE WB!Next
  <2>1. /\ init[m].at = "pulled" /\ server' = server
        /\ \A c \in Colls :
              local'[c] = IF init[m].snap[c] # 0 THEN init[m].snap[c]
                                                 ELSE local[c]
    BY <1>6 DEF PullWritten
  <2>2. \A c \in Colls : ~(init[m].snap[c] \in 1..(local[c] - 1))
    BY <1>6, NoRace DEF PullWritten
  <2>3. \A c \in Colls : init[m].snap[c] # 0 => local[c] <= init[m].snap[c]
    BY <1>t, <2>2
  <2>4. WB!CatchUp(local, server, local')
    BY <1>t, <1>b, <2>1, <2>3 DEF WB!CatchUp, PullBehind
  <2> QED
    BY <2>1, <2>4 DEF WB!Next, WB!Pull
\* Every other step leaves both copies alone.
<1>7. CASE \/ Fire \/ Mount \/ Listen \/ Unmount \/ UNCHANGED vars
           \/ \E f \in Flushes : Settle(f)
  BY <1>7 DEF Fire, Mount, Listen, Unmount, Settle, vars
<1>8. ASSUME NEW m \in Mounts,
             \/ ServerMode(m) \/ LocalMode(m) \/ MigrationAnswered(m)
             \/ MigrationFails(m) \/ PullRead(m) \/ PullFails(m)
      PROVE  WB!Next
  BY <1>8 DEF ServerMode, LocalMode, MigrationAnswered, MigrationFails,
              PullRead, PullFails
<1> QED
  BY <1>1, <1>2, <1>3, <1>4, <1>5, <1>6, <1>7, <1>8 DEF Next, Starting

\* use-storage-sync.ts and app/api/storage implement WriteBehind up to the
\* races the module names: the initial copies are initial copies of it, and
\* every step without a race is one of its steps or leaves both copies alone.
THEOREM SyncImplementsWriteBehind == Spec => WB!Init /\ CopiesMoveForward
<1>1. Init => WB!Init
  BY InitImplements
<1>2. SyncInv /\ [Next]_vars => [raced' = {} => WB!Next]_copies
  BY StepImplements
<1> QED
  BY <1>1, <1>2, SyncInvariant, PTL DEF Spec, CopiesMoveForward
=============================================================================
