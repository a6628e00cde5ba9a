---------------------------- MODULE ProviderCache ----------------------------
(***************************************************************************)
(* The cached providers of one stored connection (lib/db/factory.ts) and   *)
(* the SSH forward they share (lib/ssh/tunnel.ts): the editor's entries,   *)
(* the entries of the execution profiles, the idle sweep, the removal of   *)
(* the connection, and a test of it over a forward of its own.             *)
(*                                                                         *)
(* Each operation runs to its await and again from the answer, and every   *)
(* entry is deleted by its key: whatever stands there.                     *)
(***************************************************************************)
EXTENDS FiniteSets, Naturals

CONSTANTS
    Callers,       \* requests that acquire a provider
    SharedKeys,    \* keys of providerCache: credentials, mode
    ProfiledKeys,  \* keys of profiledProviderCache
    Joined,        \* keys acquired only through McpConnectionContext
    Timeouts,      \* values of queryTimeout
    Engines,       \* "tunnelled", "file" (one handle per file) or "plain"
    Providers, Forwards,        \* identities, used again once free
    NoKey, NoProvider, NoForward,
    Faults,        \* "forward", "drop", "create", "connect"
    MaxRequests    \* acquisitions, removals and tests asked for

Keys == SharedKeys \cup ProfiledKeys
Closers == {"sweep", "remove"}

ASSUME CacheAssumption ==
    /\ SharedKeys \cap ProfiledKeys = {} /\ Joined \subseteq ProfiledKeys
    /\ Engines \subseteq {"tunnelled", "file", "plain"}
    /\ NoKey \notin Keys
    /\ NoProvider \notin Providers /\ NoForward \notin Forwards
    /\ MaxRequests \in Nat

VARIABLES
    engine,     \* what kind of connection this is
    cache,      \* both maps: the provider of each key
    idle,       \* keys not acquired for half an hour
    prov, tmo,  \* each provider's state, and the timeout it was built with
    pool,       \* activeTunnels: the forward pooled for the connection
    fwd,        \* each forward's state
    call,       \* acquisitions under way
    closer,     \* the sweep and the removal under way
    timer,      \* sweepTimer is set
    oneshot,    \* the forward of withOneShotTunnel
    asked,      \* bounded counter: requests that arrived
    raced       \* history: the races that happened

entries  == <<cache, idle, prov, tmo>>
forwards == <<pool, fwd, oneshot>>
vars == <<engine, entries, forwards, call, closer, timer, asked, raced>>

-----------------------------------------------------------------------------

NoCall == [pc |-> "off", key |-> NoKey, tmo |-> NoKey, prov |-> NoProvider,
           fwd |-> NoForward, fresh |-> FALSE]
NoCloser == [phase |-> "off", at |-> NoKey, prov |-> NoProvider]

\* isConnected: a provider going down says so only when it is down.
Connected(p) == prov[p] \in {"up", "ending"}

\* connectionStillServed, once the entry of k is gone.
StillServed(k) == \E j \in Keys \ {k} : cache[j] # NoProvider

InCall(p) == \E c \in Callers : call[c].prov = p
FreeForwards ==
    {f \in Forwards : /\ fwd[f] = "none" /\ oneshot # f
                      /\ \A c \in Callers : call[c].fwd # f}

Without(k) == [cache EXCEPT ![k] = NoProvider]

\* Mutant: nobody waited for it.
AfterEndLeft(p) == prov

\* The providers once p is down.
AfterEnd(p) == [q \in Providers |-> IF q = p THEN "none" ELSE prov[q]]

\* Mutant: the sweep asks the shared cache only before it stops its timer.
CachesEmptyShared == \A k \in SharedKeys : cache[k] = NoProvider

CachesEmpty == \A k \in Keys : cache[k] = NoProvider

\* Mutant: a forward that closes leaves its pool entry behind.
UnpoolLess == UNCHANGED pool

\* cleanup deletes the entry of the forward's key, whosever it is.
Unpool == pool' = NoForward

\* Mutant: a one-shot forward takes the pool entry of the same key with it.
CloseForwardBoth(f) == fwd' = [fwd EXCEPT ![f] = "none"] /\ Unpool

\* cleanup: a one-shot forward has no entry of its own.
CloseForward(f) ==
    /\ fwd' = [fwd EXCEPT ![f] = "none"]
    /\ IF f = oneshot THEN UNCHANGED pool ELSE Unpool

\* closeSSHTunnel: what is pooled for the connection.
ClosePooled ==
    IF pool = NoForward THEN UNCHANGED <<pool, fwd>>
    ELSE fwd' = [fwd EXCEPT ![pool] = "none"] /\ Unpool

\* findOpenSingleWriterProvider: a shared entry that holds the file.
Holders == {j \in SharedKeys : cache[j] # NoProvider}

Borrowable(k) == engine = "file" /\ k \in ProfiledKeys /\ Holders # {}

\* Mutant: what is borrowed is cached under the agent's key.
BorrowCached(k) == \E j \in Holders : cache' = [cache EXCEPT ![k] = cache[j]]

\* What is borrowed is not cached.
Borrow(k) == cache' = Without(k)

\* The engine admits one handle on a file.
FileFree == engine = "file" => \A p \in Providers : ~Connected(p)

Ask == asked < MaxRequests /\ asked' = asked + 1
Race(kinds) == raced' = raced \cup kinds
Quit(c) == call' = [call EXCEPT ![c] = NoCall]

-----------------------------------------------------------------------------
(* getOrCreateProvider and acquireExecutionProfileProvider.                *)

\* McpConnectionContext.acquire joins a call that is under way.
MayAcquire(c, k) ==
    /\ call[c].pc = "off"
    /\ k \in Joined => \A d \in Callers : call[d].key # k

Matches(k, t) == cache[k] # NoProvider /\ tmo[cache[k]] = t

\* The entry is connected and its timeout is the one asked for.
Hit(c, k, t) ==
    /\ MayAcquire(c, k) /\ Matches(k, t) /\ Connected(cache[k])
    /\ Ask
    /\ idle' = idle \ {k}
    /\ UNCHANGED <<engine, cache, prov, tmo, forwards, call, closer, timer,
                   raced>>

\* What follows once nothing stands under the key: an agent reading borrows
\* the open handle of a file, anyone else opens a provider, behind a forward
\* when the connection has one.  "ended" is the provider just disconnected.
Open(c, k, t, ended, races) ==
    \/ /\ Borrowable(k)
       /\ Borrow(k)
       /\ prov' = AfterEnd(ended)
       /\ Quit(c)
       /\ Race(races)
       /\ UNCHANGED <<tmo, fwd>>
    \/ /\ ~Borrowable(k)
       /\ cache' = Without(k)
       /\ \E p \in {q \in Providers : AfterEnd(ended)[q] = "none"} :
            /\ prov' = [AfterEnd(ended) EXCEPT ![p] = "opening"]
            /\ tmo' = [tmo EXCEPT ![p] = t]
            /\ \/ /\ engine = "tunnelled" /\ pool = NoForward
                  /\ \E f \in FreeForwards :
                       /\ fwd' = [fwd EXCEPT ![f] = "opening"]
                       /\ call' = [call EXCEPT ![c] =
                            [pc |-> "tunnelling", key |-> k, tmo |-> t,
                             prov |-> p, fwd |-> f, fresh |-> TRUE]]
               \/ /\ engine = "tunnelled" => pool # NoForward
                  /\ call' = [call EXCEPT ![c] =
                       [pc |-> "connecting", key |-> k, tmo |-> t,
                        prov |-> p, fwd |-> pool, fresh |-> FALSE]]
                  /\ UNCHANGED fwd
       /\ Race(races \cup {"open" : d \in {e \in Callers \ {c} : call[e].key = k}}
              \cup {"forward" : d \in {e \in Callers \ {c} :
                                         pool = NoForward /\ call[e].fresh}})

Miss(c, k, t) ==
    /\ MayAcquire(c, k) /\ cache[k] = NoProvider
    /\ Ask
    /\ Open(c, k, t, NoProvider, {})
    /\ UNCHANGED <<engine, idle, pool, oneshot, closer, timer>>

\* A saved timeout change disconnects the provider that is there.
Retime(c, k, t) ==
    /\ MayAcquire(c, k) /\ cache[k] # NoProvider /\ ~Matches(k, t)
    /\ Ask
    /\ prov[cache[k]] = "up"
    /\ prov' = [prov EXCEPT ![cache[k]] = "ending"]
    /\ call' = [call EXCEPT ![c] = [NoCall EXCEPT !.pc = "retiming",
                                    !.key = k, !.tmo = t, !.prov = cache[k]]]
    /\ UNCHANGED <<engine, cache, idle, tmo, forwards, closer, timer, raced>>

\* The provider is down, and whatever stands under the key is deleted.
Retimed(c) ==
    /\ call[c].pc = "retiming"
    /\ Open(c, call[c].key, call[c].tmo, call[c].prov, {})
    /\ UNCHANGED <<engine, idle, pool, oneshot, closer, timer, asked>>

\* Its pool is already being ended: the second end is refused, and the call
\* goes on at once.
RetimeRefused(c, k, t) ==
    /\ MayAcquire(c, k) /\ cache[k] # NoProvider /\ ~Matches(k, t)
    /\ Ask
    /\ prov[cache[k]] = "ending"
    /\ Open(c, k, t, NoProvider, {"disconnect"})
    /\ UNCHANGED <<engine, idle, pool, oneshot, closer, timer>>

\* The forward listens and joins the pool, over one that got there first.
ForwardOpened(c) ==
    /\ call[c].pc = "tunnelling"
    /\ fwd' = [fwd EXCEPT ![call[c].fwd] = "live"]
    /\ pool' = call[c].fwd
    /\ call' = [call EXCEPT ![c].pc = "connecting"]
    /\ UNCHANGED <<engine, entries, oneshot, closer, timer, asked, raced>>

ForwardFails(c) ==
    /\ "forward" \in Faults /\ call[c].pc = "tunnelling"
    /\ CloseForward(call[c].fwd)
    /\ prov' = [prov EXCEPT ![call[c].prov] = "none"]
    /\ Quit(c)
    /\ UNCHANGED <<engine, cache, idle, tmo, oneshot, closer, timer, asked,
                   raced>>

\* The entry is set over whatever stands there, and the sweep is started.
ConnectAnswered(c) ==
    /\ call[c].pc = "connecting" /\ FileFree
    /\ prov' = [prov EXCEPT ![call[c].prov] = "up"]
    /\ cache' = [cache EXCEPT ![call[c].key] = call[c].prov]
    /\ idle' = idle \ {call[c].key}
    /\ timer' = TRUE
    /\ Quit(c)
    /\ UNCHANGED <<engine, tmo, forwards, closer, asked, raced>>

\* Only a forward that was not there when this call asked is torn down, and
\* none when the provider could not even be built.
ConnectFails(c) ==
    /\ call[c].pc = "connecting"
    /\ prov' = [prov EXCEPT ![call[c].prov] = "none"]
    /\ \/ /\ "connect" \in Faults \/ ~FileFree
          /\ IF call[c].fresh THEN CloseForward(call[c].fwd)
                              ELSE UNCHANGED <<pool, fwd>>
       \/ "create" \in Faults /\ UNCHANGED <<pool, fwd>>
    /\ Quit(c)
    /\ UNCHANGED <<engine, cache, idle, tmo, oneshot, closer, timer, asked,
                   raced>>

-----------------------------------------------------------------------------
(* evictIdleProviders and removeProvider: the shared map, then the other.  *)

Phase(x) == IF closer[x].phase = "shared" THEN SharedKeys ELSE ProfiledKeys

Visited(x) ==
    {k \in Phase(x) : cache[k] # NoProvider /\ (x = "sweep" => k \in idle)}

BeginSweep ==
    /\ timer /\ closer["sweep"].phase = "off"
    /\ closer' = [closer EXCEPT !["sweep"].phase = "shared"]
    /\ UNCHANGED <<engine, entries, forwards, call, timer, asked, raced>>

BeginRemove ==
    /\ closer["remove"].phase = "off"
    /\ Ask
    /\ closer' = [closer EXCEPT !["remove"].phase = "shared"]
    /\ UNCHANGED <<engine, entries, forwards, call, timer, raced>>

\* After the disconnect, whatever it came to: the entry of the key is deleted,
\* and the sweep closes the forward once nothing serves the connection.
Drop(x, k) ==
    /\ cache' = Without(k)
    /\ IF x = "sweep" /\ ~StillServed(k) THEN ClosePooled
                                         ELSE UNCHANGED <<pool, fwd>>
    /\ closer' = [closer EXCEPT ![x].at = NoKey, ![x].prov = NoProvider]
    /\ UNCHANGED <<engine, idle, tmo, oneshot, call, timer, asked>>

Disconnect(x, k) ==
    /\ closer[x].phase # "off" /\ closer[x].at = NoKey /\ k \in Visited(x)
    /\ \/ /\ prov[cache[k]] = "up"
          /\ prov' = [prov EXCEPT ![cache[k]] = "ending"]
          /\ closer' = [closer EXCEPT ![x].at = k, ![x].prov = cache[k]]
          /\ UNCHANGED <<engine, cache, idle, tmo, forwards, call, timer,
                         asked, raced>>
       \/ /\ prov[cache[k]] = "ending"
          /\ Drop(x, k)
          /\ Race({"disconnect"})
          /\ UNCHANGED prov

Disconnected(x) ==
    /\ closer[x].at # NoKey
    /\ prov' = [prov EXCEPT ![closer[x].prov] = "none"]
    /\ Drop(x, closer[x].at)
    /\ UNCHANGED raced

\* The map is exhausted.  The sweep stops its timer when both maps are empty,
\* the removal closes the connection's forward.
NextMap(x) ==
    /\ closer[x].phase # "off" /\ closer[x].at = NoKey /\ Visited(x) = {}
    /\ \/ /\ closer[x].phase = "shared"
          /\ closer' = [closer EXCEPT ![x].phase = "profiled"]
          /\ UNCHANGED <<pool, fwd, timer>>
       \/ /\ closer[x].phase = "profiled"
          /\ closer' = [closer EXCEPT ![x].phase = "off"]
          /\ timer' = (timer /\ ~(x = "sweep" /\ CachesEmpty))
          /\ IF x = "remove" THEN ClosePooled ELSE UNCHANGED <<pool, fwd>>
    /\ UNCHANGED <<engine, entries, oneshot, call, asked, raced>>

-----------------------------------------------------------------------------
(* Time, the network, and the callers that own their forward.              *)

\* Half an hour without an acquisition.
GoesIdle(k) ==
    /\ cache[k] # NoProvider /\ k \notin idle
    /\ idle' = idle \cup {k}
    /\ UNCHANGED <<engine, cache, prov, tmo, forwards, call, closer, timer,
                   asked, raced>>

\* The bastion drops a forward: its error handler cleans up.
ForwardDrops(f) ==
    /\ "drop" \in Faults /\ fwd[f] = "live"
    /\ CloseForward(f)
    /\ UNCHANGED <<engine, entries, oneshot, call, closer, timer, asked,
                   raced>>

\* withOneShotTunnel, for a test of the connection.
BeginOneShot ==
    /\ engine = "tunnelled" /\ oneshot = NoForward
    /\ Ask
    /\ \E f \in FreeForwards :
          oneshot' = f /\ fwd' = [fwd EXCEPT ![f] = "live"]
    /\ UNCHANGED <<engine, entries, pool, call, closer, timer, raced>>

EndOneShot ==
    /\ oneshot # NoForward
    /\ CloseForward(oneshot)
    /\ oneshot' = NoForward
    /\ UNCHANGED <<engine, entries, call, closer, timer, asked, raced>>

-----------------------------------------------------------------------------

Init ==
    /\ engine \in Engines
    /\ cache = [k \in Keys |-> NoProvider] /\ idle = {}
    /\ prov = [p \in Providers |-> "none"]
    /\ tmo \in [Providers -> {CHOOSE t \in Timeouts : TRUE}]
    /\ pool = NoForward /\ fwd = [f \in Forwards |-> "none"]
    /\ oneshot = NoForward
    /\ call = [c \in Callers |-> NoCall]
    /\ closer = [x \in Closers |-> NoCloser]
    /\ timer = FALSE /\ asked = 0 /\ raced = {}

Acquire(c, k, t) ==
    Hit(c, k, t) \/ Miss(c, k, t) \/ Retime(c, k, t) \/ RetimeRefused(c, k, t)

GoOn(c) ==
    \/ Retimed(c)
    \/ ForwardOpened(c) \/ ForwardFails(c)
    \/ ConnectAnswered(c) \/ ConnectFails(c)

CloserStep(x) ==
    (\E k \in Keys : Disconnect(x, k)) \/ Disconnected(x) \/ NextMap(x)

Next ==
    \/ \E c \in Callers, k \in Keys, t \in Timeouts : Acquire(c, k, t)
    \/ \E c \in Callers : GoOn(c)
    \/ BeginSweep \/ BeginRemove
    \/ \E x \in Closers : CloserStep(x)
    \/ \E k \in Keys : GoesIdle(k)
    \/ \E f \in Forwards : ForwardDrops(f)
    \/ BeginOneShot \/ EndOneShot

Spec == Init /\ [][Next]_vars

\* The event loop and the network answer, time passes, the timer fires.
Fairness ==
    /\ \A c \in Callers : WF_vars(GoOn(c))
    /\ \A x \in Closers : WF_vars(CloserStep(x))
    /\ \A k \in Keys : WF_vars(GoesIdle(k))
    /\ WF_vars(BeginSweep) /\ WF_vars(EndOneShot)

FairSpec == Spec /\ Fairness

-----------------------------------------------------------------------------
(* Properties, stated up to the races the code does not prevent: two       *)
(* acquisitions that open one key or one forward at once, and two          *)
(* disconnects of one provider.                                            *)

\* A provider that is open is in a cache or in the hands of a call under way
\* (getOrCreateProvider, evictIdleProviders, removeProvider): nothing is left
\* that no sweep will find.
NothingOrphaned ==
    raced \cap {"open", "disconnect"} = {} =>
        \A p \in Providers : prov[p] # "none" =>
            InCall(p) \/ \E k \in Keys : cache[k] = p

\* "Closes every forward under it" (closeSSHTunnel): a forward that is open is
\* where closeSSHTunnel finds it, or someone's who still has to hand it over
\* or to close it.
ForwardsAreTaken ==
    \A f \in Forwards : fwd[f] # "none" =>
        \/ f \in {pool, oneshot}
        \/ \E c \in Callers : call[c].pc = "tunnelling" /\ call[c].fwd = f

NoForwardStranded == "forward" \notin raced => ForwardsAreTaken

\* What the pool hands out is open, whoever closes what at the same time
\* (cleanup, closeSSHTunnel).
PoolHoldsLiveForwards == pool # NoForward => fwd[pool] = "live"

\* The sweep ends no provider that someone acquired within half an hour, under
\* whatever key: what an agent borrowed must not "close the file under the
\* session that opened it" (acquireExecutionProfileProvider).
SweepSparesTheBusy ==
    [][\A p \in Providers :
         (closer["sweep"].prov # p /\ closer'["sweep"].prov = p) =>
             {k \in Keys : cache[k] = p} \subseteq idle]_vars

\* Every provider is disconnected in the end, once requests stop coming
\* (startIdleSweep, evictIdleProviders).
EveryProviderCloses ==
    \A p \in Providers :
        prov[p] = "up" ~> prov[p] = "none" \/ raced # {}
=============================================================================
