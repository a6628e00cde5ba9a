----------------------------- MODULE StorageSync -----------------------------
(***************************************************************************)
(* The write-through cache of one browser (hooks/use-storage-sync.ts) over *)
(* its local storage (lib/storage/storage-facade.ts) and the server's      *)
(* collections (app/api/storage): mode discovery, migration, the pull of a *)
(* mount, edits, the debounce and retry timers, and pushes in flight.      *)
(*                                                                         *)
(* A request reaches the server in one step and its answer the browser in  *)
(* another; either may be lost, a request that failed may reach it all the *)
(* same, late, and whatever is in flight outlives the component that sent  *)
(* it.  Edits are numbered in the order they are made.                     *)
(***************************************************************************)
EXTENDS FiniteSets, Naturals

CONSTANTS
    Colls,      \* STORAGE_COLLECTIONS
    Starts,     \* what the two sides may hold of them when a browser opens
    Flushes,    \* calls of flushPending that may be under way at once
    MaxEdits,   \* edits made, here and on other devices
    MaxFails,   \* requests or answers lost
    MaxMounts   \* times the component mounts

ASSUME SyncAssumption ==
    /\ Starts \subseteq [Colls -> (0..2) \X (0..2)]
    /\ MaxEdits \in Nat /\ MaxFails \in Nat /\ MaxMounts \in Nat

VARIABLES
    local, server,    \* the edit each side holds of a collection, 0 for none
    migrated,         \* MIGRATION_FLAG is set in local storage
    up,               \* the component is mounted
    init,             \* where the init() of each mount stands, what it carries
    listening,        \* the listener's effect has run
    pending,          \* pendingCollectionsRef
    debounce, retry,  \* debounceTimerRef and retryTimerRef are armed
    flush,            \* pushes in flight, by the flush that sent them
    late,             \* failed requests that may reach the server yet
    edits, fails, mounts,  \* bounded counters
    raced             \* history: the first race that happened

copies == <<local, server>>
timers == <<pending, debounce, retry>>
counts == <<edits, fails, mounts>>
place == <<migrated, up, init, listening>>
sent == <<flush, late>>
vars == <<copies, place, timers, sent, counts, raced>>

-----------------------------------------------------------------------------

Nothing == [c \in Colls |-> 0]
NoInit == [at |-> "off", snap |-> Nothing]
NoFlush == [live |-> FALSE, val |-> Nothing, st |-> [c \in Colls |-> "none"]]

Mounts == 1..MaxMounts

\* The mount that init() has not seen "cancelled".
Current(m) == up /\ m = mounts

\* Where the component that is mounted stands.
mode == IF up THEN init[mounts].at ELSE "off"

\* A push of c that the server has not seen.
Unseen(c) ==
    \/ \E m \in Mounts : init[m].at = "migrating" /\ init[m].snap[c] # 0
    \/ \E f \in Flushes : flush[f].st[c] = "sent"

Ahead(c) == local[c] > server[c]

\* No push of c is due or under way.
Forsaken(c) ==
    /\ Ahead(c) /\ c \notin pending
    /\ \A f \in Flushes : flush[f].live => flush[f].st[c] # "failed"
                                            /\ ~(flush[f].st[c] = "sent"
                                                  /\ flush[f].val[c] = local[c])

Race(kinds) == raced' = IF raced = {} THEN kinds ELSE raced

\* "Check if localStorage actually has any libredb data to migrate."
MigrationDue == ~migrated /\ \E c \in Colls : local[c] # 0

\* Mutant: collections the browser has nothing of are sent as empty ones.
AfterMergeAll(snap) == snap

\* Mutant: the body replaces the row instead of being merged into it.
AfterMergeReplaces(snap) == [c \in {d \in Colls : snap[d] # 0} |-> snap[c]]

\* mergeData: the rows of what it carries, and no other, are replaced.
AfterMerge(snap) == [c \in Colls |-> IF snap[c] # 0 THEN snap[c] ELSE server[c]]

\* Mutant: the retry is left to the next edit's debounce.
ArmRetryNever == UNCHANGED <<retry, debounce>>

\* Mutant: the timer of an earlier failure is cleared and not set again.
ArmRetryOnce == retry' = ~retry /\ UNCHANGED debounce

ArmRetry == retry' = TRUE /\ UNCHANGED debounce

\* Mutant: what failed is not put back.
RequeueNone(failed) == UNCHANGED pending

Requeue(failed) == pending' = pending \cup failed

\* Mutant: the retry is armed whether or not the component is still there.
MayArmAlways(f) == TRUE

\* mountedRef.
MayArm(f) == flush[f].live

-----------------------------------------------------------------------------
(* Edits.                                                                  *)

\* dispatchChange, and the listener once there is one: schedulePush.
Edit(c) ==
    /\ up /\ edits < MaxEdits
    /\ edits' = edits + 1
    /\ local' = [local EXCEPT ![c] = edits + 3]
    /\ IF listening THEN pending' = pending \cup {c} /\ debounce' = TRUE
                    ELSE UNCHANGED <<pending, debounce>>
    /\ UNCHANGED <<server, place, retry, sent, fails, mounts, raced>>

\* Another device pushes.
Elsewhere(c) ==
    /\ edits < MaxEdits
    /\ edits' = edits + 1
    /\ server' = [server EXCEPT ![c] = edits + 3]
    /\ Race({"crossed" : d \in {e \in {c} : Unseen(e)}})
    /\ UNCHANGED <<local, place, timers, sent, fails, mounts>>

-----------------------------------------------------------------------------
(* flushPending.                                                           *)

\* The calls are all alike: which of the free names one takes is no matter.
Free == {f \in Flushes : flush[f] = NoFlush}

\* A timer fires: everything pending is read and sent.
Fire ==
    /\ \/ debounce /\ debounce' = FALSE /\ UNCHANGED retry
       \/ retry /\ retry' = FALSE /\ UNCHANGED debounce
    /\ pending' = {}
    /\ IF pending = {} THEN UNCHANGED flush
       ELSE /\ Free # {}
            /\ flush' = [flush EXCEPT ![CHOOSE f \in Free : TRUE] =
                 [live |-> TRUE,
                  val |-> [c \in Colls |-> IF c \in pending THEN local[c]
                                                            ELSE 0],
                  st |-> [c \in Colls |-> IF c \in pending THEN "sent"
                                                           ELSE "none"]]]
    /\ Race({"crossed" : c \in {d \in pending : Unseen(d)}}
              \cup {"outdated" : c \in {d \in pending :
                                        local[d] < server[d]}})
    /\ UNCHANGED <<copies, place, late, counts>>

\* What was sent is not on its way in this flush any more.
SetSt(f, c, st) ==
    flush' = [flush EXCEPT ![f] =
                [live |-> flush[f].live,
                 val |-> [flush[f].val EXCEPT ![c] = 0],
                 st |-> [flush[f].st EXCEPT ![c] = st]]]

\* PUT /api/storage/[collection]: setCollection.  The answer is on its way.
Stored(f, c) ==
    /\ flush[f].st[c] = "sent"
    /\ server' = [server EXCEPT ![c] = flush[f].val[c]]
    /\ SetSt(f, c, "stored")
    /\ UNCHANGED <<local, place, timers, late, counts, raced>>

Only(c, v) == [Nothing EXCEPT ![c] = v]

\* The request fails for the browser, which need not keep it from the server,
\* or its answer is lost.
PushFails(f, c) ==
    /\ flush[f].st[c] \in {"sent", "stored"} /\ fails < MaxFails
    /\ fails' = fails + 1
    /\ SetSt(f, c, "failed")
    /\ late' = IF flush[f].st[c] = "sent"
               THEN late \cup {Only(c, flush[f].val[c])} ELSE late
    /\ UNCHANGED <<copies, place, timers, edits, mounts, raced>>

\* A request that was given up is served after all, over what came between.
ArrivesLate(req) ==
    /\ late' = late \ {req}
    /\ server' = AfterMerge(req)
    /\ Race({"crossed" : c \in {d \in Colls : req[d] # 0
                                                /\ req[d] < server[d]}})
    /\ UNCHANGED <<local, place, timers, flush, counts>>

\* Every push of the flush is answered.  What failed is put back, in the refs
\* of the component that sent it, and tried again while that one is mounted.
Settle(f) ==
    /\ flush[f] # NoFlush
    /\ \A c \in Colls : flush[f].st[c] # "sent"
    /\ LET failed == {c \in Colls : flush[f].st[c] = "failed"} IN
         IF failed = {} THEN UNCHANGED timers
         ELSE /\ IF flush[f].live THEN Requeue(failed) ELSE UNCHANGED pending
              /\ IF MayArm(f) THEN ArmRetry ELSE UNCHANGED <<retry, debounce>>
    /\ flush' = [flush EXCEPT ![f] = NoFlush]
    /\ UNCHANGED <<copies, place, late, counts, raced>>

-----------------------------------------------------------------------------
(* Mounting: discovery, migration, pull.                                   *)

Mount ==
    /\ ~up /\ mounts < MaxMounts
    /\ up' = TRUE
    /\ mounts' = mounts + 1
    /\ init' = [init EXCEPT ![mounts + 1].at = "config"]
    /\ UNCHANGED <<copies, migrated, listening, timers, sent, edits, fails,
                   raced>>

Reaches(m, at, snap) == init' = [init EXCEPT ![m] = [at |-> at, snap |-> snap]]

\* An init() that was cancelled goes no further once it looks.
Passes(m, at) == Reaches(m, IF Current(m) THEN at ELSE "off", Nothing)

\* The browser reads its own storage: what it holds goes to the server, once.
ServerMode(m) ==
    /\ init[m].at = "config"
    /\ IF MigrationDue
       THEN /\ Reaches(m, "migrating", local)
            /\ Race({"crossed" : c \in {d \in Colls :
                                          local[d] # 0 /\ Unseen(d)}}
                      \cup {"merged" : c \in {d \in Colls :
                                          local[d] < server[d]
                                            /\ local[d] # 0}})
            /\ UNCHANGED migrated
       ELSE Reaches(m, "pulling", Nothing) /\ migrated' = TRUE /\ UNCHANGED raced
    /\ UNCHANGED <<copies, up, listening, timers, sent, counts>>

\* The commit that follows setIsServerMode.
Listen ==
    /\ mode \in {"migrating", "migrated", "pulling", "pulled"} /\ ~listening
    /\ listening' = TRUE
    /\ UNCHANGED <<copies, migrated, up, init, timers, sent, counts, raced>>

\* "Server unreachable - stay in local mode."
LocalMode(m) ==
    /\ init[m].at = "config" /\ fails < MaxFails
    /\ fails' = fails + 1
    /\ Reaches(m, "local", Nothing)
    /\ UNCHANGED <<copies, migrated, up, listening, timers, sent, edits,
                   mounts, raced>>

\* POST /api/storage/migrate: mergeData.
Merged(m) ==
    /\ init[m].at = "migrating"
    /\ server' = AfterMerge(init[m].snap)
    /\ Reaches(m, "migrated", Nothing)
    /\ UNCHANGED <<local, migrated, up, listening, timers, sent, counts, raced>>

MigrationAnswered(m) ==
    /\ init[m].at = "migrated"
    /\ migrated' = TRUE
    /\ Passes(m, "pulling")
    /\ UNCHANGED <<copies, up, listening, timers, sent, counts, raced>>

\* The flag stays unset, and the pull follows all the same.
MigrationFails(m) ==
    /\ init[m].at \in {"migrating", "migrated"} /\ fails < MaxFails
    /\ fails' = fails + 1
    /\ Passes(m, "pulling")
    /\ late' = IF init[m].at = "migrating" THEN late \cup {init[m].snap} ELSE late
    /\ UNCHANGED <<copies, migrated, up, listening, timers, flush, edits, mounts,
                   raced>>

\* GET /api/storage: getAllData.
PullRead(m) ==
    /\ init[m].at = "pulling"
    /\ Reaches(m, "pulled", server)
    /\ UNCHANGED <<copies, migrated, up, listening, timers, sent, counts, raced>>

\* "Write server data to localStorage (overwrite)": what the server has, also
\* for a component that is gone.
PullWritten(m) ==
    /\ init[m].at = "pulled" /\ (Current(m) => listening)
    /\ LET snap == init[m].snap IN
         /\ local' = [c \in Colls |-> IF snap[c] # 0 THEN snap[c] ELSE local[c]]
         /\ Race({"overwritten" : c \in {d \in Colls : snap[d] \in 1..(local[d]-1)}}
                   \cup {"forsaken" : c \in {d \in Colls : Current(m)
                                               /\ snap[d] = 0 /\ Forsaken(d)}})
    /\ Passes(m, "ready")
    /\ UNCHANGED <<server, migrated, up, listening, timers, sent, counts>>

PullFails(m) ==
    /\ init[m].at \in {"pulling", "pulled"} /\ (Current(m) => listening)
    /\ fails < MaxFails
    /\ fails' = fails + 1
    /\ Passes(m, "ready")
    /\ Race({"forsaken" : c \in {d \in Colls : Current(m) /\ Forsaken(d)}})
    /\ UNCHANGED <<copies, migrated, up, listening, timers, sent, edits, mounts>>

\* The cleanups of the effects.  The refs go with the component; a migration
\* or a pull under way goes on.
Unmount ==
    /\ up
    /\ up' = FALSE /\ listening' = FALSE
    /\ init' = [init EXCEPT ![mounts].at =
                  IF @ \in {"config", "local", "ready"} THEN "off" ELSE @]
    /\ pending' = {} /\ debounce' = FALSE /\ retry' = FALSE
    /\ flush' = [f \in Flushes |-> [flush[f] EXCEPT !.live = FALSE]]
    /\ UNCHANGED <<copies, migrated, late, counts, raced>>

-----------------------------------------------------------------------------

\* Any browser, on any server: two numbers tell which side is ahead.
Init ==
    /\ \E start \in Starts :
          /\ local = [c \in Colls |-> start[c][1]]
          /\ server = [c \in Colls |-> start[c][2]]
    /\ migrated \in BOOLEAN
    /\ up = FALSE /\ listening = FALSE
    /\ init = [m \in Mounts |-> NoInit]
    /\ pending = {} /\ debounce = FALSE /\ retry = FALSE
    /\ flush = [f \in Flushes |-> NoFlush] /\ late = {}
    /\ edits = 0 /\ fails = 0 /\ mounts = 0 /\ raced = {}

Answer(f, c) == Stored(f, c) \/ PushFails(f, c)

Starting(m) ==
    \/ ServerMode(m) \/ LocalMode(m)
    \/ Merged(m) \/ MigrationAnswered(m) \/ MigrationFails(m)
    \/ PullRead(m) \/ PullWritten(m) \/ PullFails(m)

Next ==
    \/ \E c \in Colls : Edit(c) \/ Elsewhere(c)
    \/ Fire
    \/ \E f \in Flushes, c \in Colls : Answer(f, c)
    \/ \E f \in Flushes : Settle(f)
    \/ \E req \in late : ArrivesLate(req)
    \/ Mount \/ Listen \/ Unmount
    \/ \E m \in Mounts : Starting(m)

Spec == Init /\ [][Next]_vars

\* Timers fire and requests are answered, in the end by the server.  One that
\* failed need not arrive at all.
Fairness ==
    /\ WF_vars(debounce /\ Fire) /\ WF_vars(retry /\ Fire)
    /\ \A f \in Flushes, c \in Colls :
          WF_vars(flush[f].st[c] = "sent" /\ Answer(f, c))
    /\ \A f \in Flushes : WF_vars(Settle(f))
    /\ WF_vars(Listen) /\ \A m \in Mounts : WF_vars(Starting(m))

FairSpec == Spec /\ Fairness

-----------------------------------------------------------------------------
(* What goes wrong is named by "raced": two requests in flight decide an    *)
(* edit between them, or a late one replaces what came after it             *)
(* ("crossed"); a push older than the server's copy replaces it             *)
(* ("outdated"), and so does the migration ("merged"); the pull of a mount  *)
(* overwrites an edit ("overwritten"), or ends with one nobody will push    *)
(* ("forsaken").  The rest must go right.                                   *)

Places == {"off", "config", "local", "migrating", "migrated", "pulling",
           "pulled", "ready"}

Races == {"crossed", "outdated", "merged", "overwritten", "forsaken"}

TypeOK ==
    /\ local \in [Colls -> Nat] /\ server \in [Colls -> Nat]
    /\ migrated \in BOOLEAN /\ up \in BOOLEAN /\ listening \in BOOLEAN
    /\ init \in [Mounts -> [at : Places, snap : [Colls -> Nat]]]
    /\ pending \subseteq Colls /\ debounce \in BOOLEAN /\ retry \in BOOLEAN
    /\ flush \in [Flushes -> [live : BOOLEAN, val : [Colls -> Nat],
           st : [Colls -> {"none", "sent", "stored", "failed"}]]]
    /\ late \subseteq [Colls -> Nat]
    /\ edits \in 0..MaxEdits /\ fails \in 0..MaxFails
    /\ mounts \in 0..MaxMounts /\ (up => mounts # 0)
    /\ raced \subseteq Races

\* "Putting it back in the queue is what keeps the write recoverable": once
\* the mount is over, an edit the server has not got is pending, or on its way
\* as it stands, or failed and about to be put back; no interleaving of
\* flushes, edits and failures drops it.
NothingForgotten ==
    mode = "ready" /\ raced = {} => \A c \in Colls : ~Forsaken(c)

\* What is pending will be sent: pendingCollectionsRef is never left filled
\* with both timers down, whichever of two flushes failed last.
PendingHasTimer == pending # {} => debounce \/ retry

\* "What must not happen is arming a timer after teardown, when nothing is
\* left to clear it": a flush that outlives its component arms none.
NoTimerAfterTeardown == ~up => ~debounce /\ ~retry

\* Without one of those races the browser implements WriteBehind: each copy
\* only moves forward, and only to what the other side holds or a new edit.
WB == INSTANCE WriteBehind

CopiesMoveForward == [][raced' = {} => WB!Next]_copies

\* An edit made in server mode arrives: the debounce, and after a failure the
\* retry, push it until the server has it or something newer.
EditsArrive ==
    \A c \in Colls :
        mode = "ready" /\ Ahead(c)
            ~> ~Ahead(c) \/ raced # {} \/ mode # "ready"
=============================================================================
