# LibreDB Studio in TLA+

Specifications, model-checking runs and machine-checked proofs of the parts of LibreDB Studio
where several things happen at once over state that outlives a request: the durable runs of the
database agent and what a process accounts for them, the interactive transaction several sessions
share on one connection, the providers and SSH forwards kept open behind it, the browser's copy of
the server's collections, and the accounts of a server store.
Paths below are relative to the repository (`src/...` is the application).

- [The system](#the-system)
- [Modules](#modules)
- [AgentRun: a durable run](#agentrun-a-durable-run)
- [TransactionLease: a shared transaction](#transactionlease-a-shared-transaction)
- [ExecutionAccounting: budgets and artifacts](#executionaccounting-budgets-and-artifacts)
- [ProviderCache: providers, forwards, the sweep](#providercache-providers-forwards-the-sweep)
- [StorageSync: a browser and its server](#storagesync-a-browser-and-its-server)
- [Accounts: rows, passkeys, the last administrator](#accounts-rows-passkeys-the-last-administrator)
- [Runs](#runs)
- [Proofs](#proofs)
- [What the runs found](#what-the-runs-found)
- [What is not modelled](#what-is-not-modelled)
- [Plan](#plan)

## The system

LibreDB Studio is a Next.js application: a browser interface for databases, an HTTP API that
drives them, and an agent that investigates a database on its own. Everything runs in one Node
process; concurrency is that of the event loop, so code between two `await`s is atomic and
everything else interleaves.

| Component | State it keeps | Operations | How it interacts | What is hard | What makes it correct |
| --- | --- | --- | --- | --- | --- |
| Run ledger `lib/agent/run-store.ts` | an append-only stream per run; `closedStreams`, `claimQueues` per process | open, append, close, read (fold), `tryClaimDrive` | every operation of the service folds the whole ledger and appends later | no compare-and-append; a crash forgets `closedStreams` while the backend's end marker stays | the fold means what its entries say; an ended run stays ended; a claim is single-flight |
| Run service `lib/agent/run-service.ts` | `activeDrives` per process | claim, release, start, `runStep`, pause, unpause, cancel, finish, finalize | called by drives and by requests; calls the ledger, the budget tracker and the artifact store | every operation is a read, an await and an append | a step is recorded before it runs, runs once, and is never repeated after a crash; a stop is honoured |
| Drives `lib/agent/runtime.ts`, `investigation.ts` | what one drive remembers across its turns | prepare, claim, turn, step, conclude, release | started by `POST runs`, `POST drive`, a resume, the sweep | duplicated deliveries, failures at every point, late endings | one drive at a time; a failure ends only the run of the drive that failed |
| Run routes `app/api/agent/runs`, `drive` | none | start, deliver, pause, resume, cancel | call the service, start drives without awaiting them | requests race drives and each other | a resumed run is carried on at once |
| Resume sweep `lib/agent/resume-sweep.ts` | a timer | one pass over stale running runs | starts drives | passes overlap; a dead drive's claim must have lapsed | a run left running ends or is paused |
| Execution accounting `lib/db/operations/budgets.ts`, `execution.ts`, `artifacts.ts` | live and past executions per run, stored results | begin, end, usage, endRun, put, evict | every statement of a step goes through it | caps, eviction, refusal while live | budgets hold; a run's resources go when it ends |
| Transactions `app/api/db/transaction/route.ts`, `lib/api/transaction-ownership.ts`, `postgres.ts` | `txClient`, `txActive`, `txTimeout`; the owner record | begin, commit, rollback, query, status; expiry | all sessions of a connection share one provider | begins, ends, the timer and the lease interleave | only the opener acts on it; nothing stays locked; a refusal lifts |
| Provider cache `lib/db/factory.ts` | providers by key (shared and by profile), last use, the sweep's timer | acquire, borrow, retime, remove, sweep | every database route and the agent's reads | first acquisitions overlap; the sweep and a saved timeout await between check and delete | no provider is left open where no sweep finds it; the sweep ends none in use |
| SSH tunnels `lib/ssh/tunnel.ts` | one pooled forward per key | open, close by connection, drop, one-shot | the provider cache | a forward is shared by entries that come and go | what is pooled is open; none is stranded |
| Storage sync `hooks/use-storage-sync.ts` | pending collections, two timers, the migration flag | edit, push, retry, pull, migrate, unmount | browser storage and `api/storage` | pushes overtake each other, pulls overwrite pending edits, answers outlive the component | an edit reaches the server; no copy goes back |
| Accounts and passkeys `lib/local-accounts.ts`, `lib/passkey/`, `lib/storage/providers/postgres.ts` | account rows with a session version, passkey rows | create, change, delete, reset, second factor; register, remove, sign in with a key | the storage provider's transactions | decisions made on a row read earlier; requests of several processes | an administrator remains; what ended a session stays ended; cleared keys stay gone |
| Rate limits, audit log, capability gate, registry, seeds | counters, a ring buffer, tables, a cache by age | one synchronous step each | the routes | a peek before an await, a spend after it (login budget) | |
| Providers, SQL reading, schema diff, MCP, LLM, interface, desktop, packaging | little or none shared | adapters, pure functions, scripts | | | |

The hazards at each line are in `PROJECT.json`; each names the properties that would catch it.

## Modules

| Module | What it is |
| --- | --- |
| `RunLedger` | the entries of a ledger, the view they fold to, and one step of the fold (`FoldEntry`) |
| `RunLedgerFold` | the loop of `foldLedger` over any ledger, against what its entries mean |
| `RunLedgerFoldProofs` | proofs about it for ledgers of every length |
| `AgentRun` | one run: drives, requests, sweep, crash, over the folded view |
| `StepContract` | what the ledger promises of the steps, abstractly |
| `MCAgentRun` | constants of `AgentRun` for TLC: the wiring of the stores, symmetry |
| `AgentRunProofs` | proofs about `AgentRun` over any wiring of the stores |
| `AgentRunClaimProofs` | proofs about `AgentRun` over one store for the process |
| `TransactionLease` | the transactions of one connection id: route, record, providers, pools |
| `MCTransactionLease` | the providers and pools TLC tries |
| `TransactionLeaseProofs` | proofs about it for any sessions, providers and pools, when the requests over a provider follow one another |
| `ExecutionAccounting` | the budget tracker and the artifact store of one process, and the drives, calls, endings and crashes that change them |
| `MCExecutionAccounting` | its symmetry for TLC |
| `ExecutionAccountingProofs` | proofs about it for any runs, calls and ceilings |
| `ProviderCache` | the cached providers of one connection, their forward, the sweep and the removal |
| `ProviderCacheProofs` | proofs about it for any keys, providers and callers |
| `WriteBehind` | what a browser that keeps copies promises, abstractly |
| `StorageSync` | the sync of one tab: mount, edits, timers, pushes in flight |
| `StorageSyncProofs` | proofs about it for any collections, pushes and edits, and that it implements `WriteBehind` |
| `Accounts` | account and passkey rows under concurrent transactions |
| `MCAccounts` | the patches TLC tries, symmetry |
| `AccountsProofs` | proofs about it for any accounts, keys and requests |

`AgentRun` EXTENDS `RunLedger`, so its `view` is changed by the same `FoldEntry` that
`RunLedgerFold` applies to a whole ledger, entry by entry: there a step is one turn of the loop of
`foldLedger`, `entries` what it has read and `view` its locals. It INSTANCEs `StepContract` as `Contract`; `StorageSync`
INSTANCEs `WriteBehind` as `WB`. `ExecutionAccounting` is the other side of `AgentRun`: it keeps of
the ledger only a run's status and its completed tools, and of the service only what touches the
tracker and the store.

Several modules have a variable `raced`, a set of names. An action adds a name to it when it is one
half of a race that the code knowingly or unknowingly leaves open; no action reads it. A property
says which races it is stated up to, so what the code does guarantee is checked on every behaviour
without them, and on the behaviours with the other races.

## AgentRun: a durable run

### State

| Variable | Code |
| --- | --- |
| `view` | what `foldLedger` returns for the run's ledger: status, pending stop, claim, invoked and settled steps, and whether a `run-finished` entry is there. Durable |
| `lapsed` | the claim's `expiresAtMs` has passed |
| `streamClosed` | the backend ended the stream (`AgentRunStore.close`). Durable |
| `closed` | the run is in `closedStreams` of this process |
| `active` | the run's entry of `activeDrives` |
| `lock` | `claimQueues`, per `AgentRunStore` instance (`StoreOf` says which instance a drive uses) |
| `pc`, `loc` | where a drive or a request stands between two awaits, and what it remembers |
| `lost`, `done`, `repeated`, `inherited`, `late` | history; no action reads it |

A drive id stands for the random id of one claim. It may start again once nothing mentions it, so
two ids model any number of successive drives of which two overlap.

### Actions

An operation that reads and appends is two actions, `ReadX` and `AppendX`, and anything may happen
between them. `AppendX` is where `AgentRunStore.append` takes effect: it throws when the process
knows the stream is closed, and when it does not know and the backend's stream has ended, the write
resolves and is never read back (`Write`, the variable `lost`).

- a drive: `BeginDrive` (through `DriveRequested`, `Sweep` or `DriveResumed`), `PrepareFails`,
  `ReadResume`, `CheckActive`, `ReadClaim`/`AppendClaim`, `Start`/`AppendStarted`, `RecordDriver`,
  `BetweenTurns`, `ModelTurn`, `ReadStep`/`AppendInvoked`, `BeginExecution`, `EndExecution`,
  `AppendSettled`, `Conclude`, `ReadFinish`, `ReleaseActive`/`AppendReleased`;
- the end of a run, by a drive or by a request: `AppendFinished`, `MarkClosed`, `CloseStream`;
- a request: `Request`, `ReadPause`/`AppendPaused`, `ReadUnpause`/`AppendResumed`, `DriveResumed`,
  `ResumeAnswered`, `ReadCancel`/`AppendCancel`;
- `ClaimLapses` and `Crash`.

The model's choices (which tool, when to stop) are nondeterministic. Deadlines, turn limits and
budgets are a bound on moves (`MaxMoves`) and the right of `BetweenTurns` to end the run at any
read. Two claims about time are built in and come from the code's constants: the staleness
threshold of the sweep is longer than any run deadline, so it never meets a drive of its own process
that still carries the run; and a claim's expiry is the run's deadline plus a grace, so it lapses
only when its drive is gone.

Two reads are merged with the append that follows them, and only those: `recordDriver`, whose entry
folds to nothing, and `releaseDrive`, whose append commutes with the only thing that could change
its decision.

### Properties

`OneDriver` and `StepsPerformedOnce` are stated up to the first lost write (`lost`). A lost write
needs a stream closed under a running ledger and a crash; what follows is out of the ledger's hands
and is described under [What the runs found](#what-the-runs-found).

## TransactionLease: a shared transaction

`txActive`, `txClient` and `txTimeout` are the fields of each `PostgresProvider`; `armed` is the set of
timers that are set and not yet fired or cleared, named by the transaction they were set for;
`owner` and `lapsed` are the record of `transaction-ownership.ts`. `out` is what is checked out of
the pool, `queue` the commands of each client in the order `pg` answers them, and `open` the
transaction the server holds open on each client.

A request runs the route and the provider up to its first `await` in one step (`AnsweredAtOnce`,
`Begin`, `End`, `Query`), and from the answer on in another (`Connected`, `BeginAnswered`,
`QueryAnswered`, `EndAnswered`, and the failures). The database executing a command and the code
that awaited it are one step: what is sent in between is queued behind it either way. The `finally`
blocks are `Release`: when another request has already cleared `txClient` they throw on it and reset
nothing. `TimerFires` is `expireTransaction` up to its `ROLLBACK`, `ExpiryAnswered` the rest.

The lease (five minutes from the owner's last action) is written right after the timer (five minutes
from BEGIN) is set, so `LeaseLapses` waits for the timer to have fired or been cleared.

The cache key has the server, the credentials and the mode besides the id, so one id may have several
providers over the one record. `Refused` and `Reconcile` are of the provider the call was given, and
the record of another's: `shadowed` remembers that a call took it away or wrote its own over it.

`Disconnect` is a removal, a sweep or a changed timeout: `pool.end` refuses checkouts and waits for
the clients that are out, calls under way go on, and `Disconnected` puts a new provider in its place.
`DisconnectEnds` is what lets `ProviderCache` assume that a disconnection is answered.

## ExecutionAccounting: budgets and artifacts

| Variable | Code |
| --- | --- |
| `status`, `completed` | the ledger: a run's status, and how many `tool-completed` entries it has. Durable |
| `driven`, `closing` | a drive of the run is in its loop; `finalize` stands between its appends and its release |
| `account` | `accounts` of `ExecutionBudgetTracker`: whether there is one, live and past executions |
| `allowance`, `store` | `runAllowances` and the artifacts of `AgentArtifactStore`, each with its run and the time its statement began |
| `call` | calls of `executeAuditedOperation`: past the checkpoint, executing, waiting to append the outcome |
| `spent`, `lost`, `late` | history; no action reads it |

`DriveStart` is the head of `driveAgentRun`: it registers the account (seeded from the ledger only
when there is none) and the allowance before the drive learns whether the run has ended. `Begin` is
the policy's budget stage and `beginExecution`, which no await separates; `Succeed` is `endExecution`
and `put` (sweep, cap, allowance, insertion); `Fail` and `Settle` are the other outcomes. `Finalize`
reads the account before its awaits, `Finish` appends the end, `Close` is `releaseExecutionRun`, which
may refuse, with the stream closed all the same. `Restart` loses everything but the ledger.

`CeilingKept` is exact in one process and says what a crash gives back: only statements the ledger has
no `tool-completed` for. `NothingOutlives` excuses a run only when a drive or a statement was late for
its ending (`late`). `EvidenceKept` is about an artifact a run may still cite: it goes with the run's
ending when nothing is live, by expiry, or from a full store by the rule of `evictOldestOf`.

## ProviderCache: providers, forwards, the sweep

`cache` is both maps of `factory.ts` (`SharedKeys` for `providerCache`, `ProfiledKeys` for
`profiledProviderCache`), `idle` the keys whose last use is older than the idle limit, `prov` the
state of each provider (`opening`, `up`, `ending`, `none`) and `tmo` the query timeout it was built
with; `pool` and `fwd` are `activeTunnels` and the state of each forward; `call` is where each
acquisition stands, `closer` where the sweep and the removal stand in their two loops.

An acquisition is `Hit`, `Miss`, or `Retime`/`Retimed` for a saved timeout, then `ForwardOpened` or
`ForwardFails`, then `ConnectAnswered` or `ConnectFails`; each runs to the next await. Deletions are by
key, whatever stands there by then, as in the code. A provider being disconnected still says it is
connected until the pool has ended, and a second `disconnect` of it is refused at once
(`RetimeRefused`, the second branch of `Disconnect`). An agent's read of a single-writer file borrows
the editor's entry and caches nothing. Calls through `McpConnectionContext` join one that is under
way (`Joined`).

The races it names: two acquisitions open one key at once (`open`) or one forward (`forward`), and two
disconnects meet one provider (`disconnect`).

## StorageSync: a browser and its server

`local` and `server` hold, for each collection, the number of the edit that copy is at (0 for none);
`migrated` is the flag in local storage; `pending`, `debounce` and `retry` are the refs of the hook;
`flush` holds the pushes in flight with the values they carry, and whether the component that sent
them is still mounted (`mountedRef`); `mode` is where the mount stands, from the discovery of the mode
through the migration and the pull. A request reaches the server in one step (`Stored`, `Merged`,
`PullRead`), its answer the browser in another; either may be lost.

The listener is attached by an effect that runs after the commit of `setIsServerMode`, so an edit made
before it is in local storage and pending nowhere; the model lets it run at any time before the
answer of the pull.

The races it names, each found by TLC on the properties without them: two requests in flight decide an
edit (`crossed`); a push or the migration replaces a newer server copy (`outdated`, `merged`); the pull
overwrites an edit, or ends with one nobody will push (`overwritten`, `forsaken`); an unmount leaves
one (`abandoned`). Without them the browser implements `WriteBehind` (`CopiesMoveForward`).

## Accounts: rows, passkeys, the last administrator

A request reads the row it decides from (`ReadX`), waits for a hash or a signature, and runs a
transaction of the PostgreSQL provider: a statement that locks rows (`LockAdmins`, `LockRegister`,
`LockSignIn`), the write (`WriteX`), the commit. Rows are seen by others when they are committed; a
statement that meets a locked row waits; a write whose condition does not hold is refused and rolled
back; `Fail` is a lost connection. Requests of several processes interleave at each of these points.

`rows` are the accounts, with the columns the conditions compare: `role`, `disabled`, the second
factor, the session version and `updated_at`. A version is a pair: a number for the random initial
value (two inserts never collide) and the bumps since. `keys` are the passkeys with the session
version they were registered at. `patch` is the body of a change, one of `Patches`.

Merged or left out: the ordered row locks of the last-administrator guard are taken in one step (their
order is what keeps them from deadlocking); the update and the count of a guarded write are one step,
since the rows it counts are locked; the session of the request was checked before the read and is not
read again, as in the routes; two writes of a row get distinct `updated_at`s. The content of a
password and its rehash on sign-in, spent challenges, signature counters, renames, the second seeded
account, `user_storage` rows and OIDC are not modelled.

## Runs

| Run | Bounds | Shows |
| --- | --- | --- |
| `fold` | ledgers of up to 4 entries, 2 drives, 2 steps | `foldLedger` returns what its entries mean, whichever order they come in (`FoldMeansTheLedger`) |
| `claims` | 2 drives, 1 request, 1 step, 2 moves, pause/resume/cancel, failing preparation and tools, 1 crash, one store; 1.7 million states | `TypeOK`, `OneDriver`, `StepsPerformedOnce`, `NoRepeatAfterRestart`, `QueuedIsUntouched`, `ImplementsContract` |
| `stop` | the stores as wired, 2 steps, 3 moves, pause/cancel, failing turns; 650 thousand states | `StopIsHonoured` |
| `ends` | one store, cancel, failing tools, 1 crash, fairness; 80 thousand states | `RunEnds` |
| `transaction` | 2 sessions, 1 request at a time, 2 providers with 2 clients and 1, 3 transactions, disconnections and failures of BEGIN, of statements and of ends, fairness; 160 thousand states | the seven properties of `TransactionLease` |
| `accounting` | 2 runs, 2 calls, 1 at a time per run, 2 statements, cap 2, 3 drives, 1 tick past the TTL, 1 restart; 1.5 million states | the count of live statements is exact, ceilings hold across resumes and crashes, a run's evidence lives as long as the run |
| `cache` | 2 callers, an editor's and an agent's key, 2 timeouts, a tunnelled connection or a single-writer file, 3 requests, all failures, fairness; 370 thousand states | nothing open is left where no sweep finds it, the pool hands out live forwards, everything closes in the end |
| `sync` | 2 collections, 2 flushes, 2 edits, 1 loss, 2 mounts, fairness; 810 thousand states | nothing pending is dropped or left without a timer, no copy goes back, every edit arrives |
| `accounts` | 2 accounts, 2 requests, 2 keys with room for 1, 3 commits; 370 thousand states | the seven properties of `Accounts` |
| `two_stores`, `wedged`, `last_admin` | the smallest that show it | a violation each, see below |

Why the bounds are enough. A race of `AgentRun` is between two reads and two appends: two drives and
one request give every pair of actors, and the sweep may start either drive again. A second step is
only needed where the property compares steps (`stop`: the step whose checkpoint had passed and the
next one, hence three moves); elsewhere one step may be asked for again and again. One crash
separates what a process wrote from what the next one finds; a second one adds nothing that is not
lost in the first. Three transactions let the timer of one meet the next, and the next but one.
In `accounting` two runs share the store, a cap of two makes the second result of either evict, and
three drives give each run one and one of them a resume. In `cache` three requests are two
acquisitions and a removal, a test or a third acquisition around the sweep; two keys are one of each
map, and the loops treat any other alike. In `sync` one edit here and one elsewhere, or two here, meet
each other, a push, a retry and a remount. In `accounts` three commits are a write between another's
read and write, and one after it (the shortest way to `last_admin`); four commits (3 million states)
show nothing more.

Deadlock is not checked for the modules that may stop: a run that has ended, a browser that is closed,
and bounds on requests that are used up.

Fairness. `ends` assumes that what is under way goes on (the event loop runs continuations, and every
await of a drive is bounded by a deadline), that the sweep's timer passes, and that clocks advance.
Nothing makes a request arrive or a drive be asked for. `RunEnds` is stated of running runs: by the
code's own account a queued run waits for a person. `transaction` assumes that the pool and the
database answer (the pool's acquire timeout bounds the wait) and that timers fire. `cache` assumes that what is
under way goes on, that time passes and that the sweep's interval fires; requests stop, by their bound.
`sync` assumes that the two timers fire and that requests are answered or lost; losses are bounded, so
the server answers in the end. Nothing makes anyone edit, mount or unmount.

## Proofs

TLAPS checks these for every value of the constants that satisfies the ASSUMEs of the modules (the
drive ids and the requests are disjoint, the null values are not members, bounds are naturals, a patch
of `Accounts` has the fields `readPatch` lets through, with values of their types, a client is of one
provider). Each inductive invariant was first checked by TLC on the instance of a run
or a larger one.

### The durable run

| Theorem | States | Inductive invariant and why |
| --- | --- | --- |
| `TheFoldIsRight` | `[]FoldMeansTheLedger` | `FoldInv`: the property, and the steps invoked and the steps settled each by themselves, since their difference does not say what the next outcome takes away; where the status changed there is a last change |
| `TypeCorrect` | `[]TypeOK` | `TypeInv`: a drive between a model's request and its outcome has a step in hand (`InHand`), or the append of that step would not be typed |
| `StopTheorem` | `[]StopIsHonoured` | `StopInv`: a drive that has already invoked a step on a stopped run is past its checkpoint and cannot reach another one while the stop stands |
| `RestartTheorem` | `[]NoRepeatAfterRestart` | `RestartInv`: what a process inherited stays on the ledger, so the checkpoint finds it there |
| `QueuedTheorem` | `[]QueuedIsUntouched` | `QueueInv`: a drive that passed its own start has left the ledger in a state that is not queued, and no entry makes it queued again |
| `OneDriverTheorem` | `SameStore => []OneDriver` | `ClaimInv`: who carries the run is both in `activeDrives` and on the ledger with a live claim; who is about to append a claim holds the store's lock and saw no live claim |
| `StepsOnceTheorem` | `SameStore => []StepsPerformedOnce` | `OnceInv`, on top of `OneDriver`: what ran or settled is on the ledger; a step about to be invoked is not, and one just invoked has neither run nor settled |
| `ContractTheorem` | `SameStore => ImplementsContract` | `OnceInv`: three actions touch what the contract speaks of (`TouchedByThree`), each is a step of the contract, any other stutters or is the write that is lost |

`SameStore` says that all drives of the process use one `AgentRunStore`. The code says so in a comment
and does not do so (`two_stores`); the theorems show that the claim would be enough if it did.
The proofs about appends go through one lemma per entry (`WriteStarted`, `WriteClaimed`, ...), which
says field by field what the append leaves in the view.

### What its statements leave behind

| Theorem | States | Inductive invariant and why |
| --- | --- | --- |
| `TrackerIsBalanced` (and `TypesHold`) | `[]ActiveIsTheCount` of `ExecutionAccounting` | `CountInv`: per run, the account's live count is the number of executing calls, it is open while the run is driven or has a call, and it is not released before the end is on the ledger |
| `ConcurrencyHolds` | `[]WithinConcurrency` | the same: the policy reads the count that `CountInv` says is exact |
| `CeilingHolds` | `[]CeilingKept` | the same: the account has counted whatever the ledger has (`LedgerBehind`), so reseeding after a crash never starts above the ceiling; every statement is under way, recorded or lost (`SpentIsKnown`) |
| `ReleaseIsComplete` | `[]NothingOutlives` | over `CountInv`: whoever could register a run again after its ending makes it late |
| `EvidenceHolds` | `MaxConcurrent = 1 => EvidenceKept` | `StoreInv`: a run holds no more artifacts than it has executed statements, so the allowance never evicts |

`MaxConcurrent = 1` is the value of every policy in `execution-policy.ts`; with more, a statement that
was admitted beside another may take the run past its allowance.

### The shared transaction

Each of these reads `Spec /\ []OneAtATime => []...`.

| Theorem | States | Inductive invariant and why |
| --- | --- | --- |
| `LocksAreReleased` | `[]NoLeakedLocks` | `LeaseInv`: a provider in a transaction has its client checked out and nothing under way on another, and the transaction has its own timer, or its expiry or its end in the queue (`Guarded`); out of one, nothing is open and nothing will expire (`Resting`) |
| `TimersDieWithTheirTransaction` | `[]TimersAreOfThisTransaction` | the same: the timer that is set is that of the transaction that is open, so none fires into the next |
| `UnownedCanBeEnded` | `[]EscapeHatch` | the same: `txActive` without a client is what two requests at once leave, and nothing else does |
| `OnlyTheOpenerActs` | `[]OnlyTheOpener` | with `Owned`: while its timer is set the record names who opened the transaction, and who has a command first in its queue opened it or found it unowned |
| `CommittedIsTrue` | `[]CommittedMeansCommitted` | with `QueuesShort`: a commit stands alone in its queue or behind the expiry, and `commitTransaction` finds its client gone in the second case |

`OneAtATime` says that no two requests are under way over one provider. Requests over different
providers of the connection interleave freely, and the timer, the expiry, the lease, the disconnections
and every failure of the pool and the database come in at any point. None of the five holds without it:
TLC finds a counterexample to each with two requests, of which `wedged` keeps the one a sentence of the
code speaks against. It is how one person uses the interface, it is not something the route or the
provider ensures, and the run `transaction`, with its single request, satisfies it. The theorems say
that serialising the requests of a provider would be enough.

### Providers and forwards

| Theorem | States | Inductive invariant and why |
| --- | --- | --- |
| `NothingIsOrphaned` | `[]NothingOrphaned` | `CacheInv`: no provider is in two hands (`HandsApart`), and without a race no key is in two calls' (`KeysApart`); nothing stands under a key that is being opened, and what is being disconnected stands where it was found (`KeysKept`), so storing a provider replaces none and deleting a key drops none that is open |
| `ForwardsAreAnsweredFor` | `[]NoForwardStranded` | the same for forwards, up to two opened at once (`ForwardsApart`, `ForwardsKept`) |
| `PooledForwardsAreLive` | `[]PoolHoldsLiveForwards` | with every race allowed (`ForwardsApart`): a forward being opened is in one call's hands and the one-shot forward in nobody's, so who closes what it opened closes nothing that is pooled |
| `TheSweepSparesTheBusy` | `SweepSparesTheBusy` | a cached provider stands under one key (`CachedOnce`), so the idle key it is found under is the only one; with every race allowed |

### The browser's copy

| Theorem | States | Inductive invariant and why |
| --- | --- | --- |
| `TypeCorrect` | `[]TypeOK` | the types alone |
| `TimersDieWithTheComponent` | `[]NoTimerAfterTeardown` | `Timers` and `ReadyListens`: an unmount marks the flushes in flight (`NoneLiveWhenOff`), so none of them arms a timer when its answer comes |
| `PendingIsTimed` | `[]PendingHasTimer` | the same: `flushPending` empties what is pending, and what it puts back it puts back with a retry timer |
| `NoEditIsForgotten` | `[]NothingForgotten` | `SyncInv`: without a race what is in flight lies between the server's copy and the browser's (`SentBetween`), one push of a collection at a time (`SentOnce`); the migration carries what no push carries (`MigrationBetween`), and what a pull has read the server still has, or something newer (`PullBehind`) |
| `SyncImplementsWriteBehind` | `WB!Init /\ CopiesMoveForward` | the same: it says that each step which writes a copy brings it what is newer; the others stutter |

### The accounts

| Theorem | States | Inductive invariant and why |
| --- | --- | --- |
| `TypeCorrect` | `[]TypeOK` | what each operation brings along (`WellFormed`), and a lock is held only in a transaction (`LocksHeld`) |
| `LastAdminIsGuarded` | `[]OnlyAMisjudgedDeleteTakesTheLastAdmin` | `AdminsGuarded`: a write that takes an administrator away holds a lock on every one, so it is the only such write (`GuardedAlone`), and the one it counted is still there at its commit (`LeavesAnother`) |
| `EndedSessionsStayEnded` | `[]EndedStaysEnded` | `History`: a version that ended is of an earlier account, or has fewer bumps than the row |
| `KeysStayCleared` | `[]ClearedKeysStayGone` | a key is inserted under the lock of a row whose version is that of the registration, and a write that clears bumps it in the same transaction |
| `PasskeysAreLimited` | `[]WithinThePasskeyLimit` | who inserts holds the lock of the account's row, so what it counted is what there is |
| `WritesLoseNothing` | `NoChangeIsLost` | `Stands`: a write that has not committed holds the row it was conditioned on, and that row is the one that was read |
| `SignInsAreCurrent` | `SignInIsForTheAccountAsItIs` | `Stands` and `SignsInWithHisKey`: the row is as it was seen while it is locked, and the key it found is of that account, whose keys only go under that lock |

### What stays with TLC

`RunEnds`, `RefusalLifts`, `DisconnectEnds`, `EveryProviderCloses` and `EditsArrive`: liveness under
fairness is out of the prover's reach.

## What the runs found

Each is a run that TLC refutes, against a sentence of the repository (quoted in `PROJECT.json`).

- `two_stores`: `getAgentRunService` builds a new `AgentRunStore` for every drive, so the claim queue
  that serialises two claims is not shared, and two deliveries of one run both carry it.
- `wedged`: two sessions begin a transaction at once and one of them commits; the provider is left
  with `txActive` and no client, and no session can begin, commit or roll back on that connection.
- `last_admin`: a delete is decided on a row that was no administrator's, and is not conditioned on that
  row. The account is promoted meanwhile and the other administrator demoted, which the guard allows
  since it counts the promoted one; the delete then takes the last enabled administrator.

Seen in the models and kept without a run of their own.

- `AgentRun`: `pause` appends on a status read earlier, and after an ending in between the run reads
  paused again. A run paused while a step is on its way to the database is cancelled as having nothing
  in flight, and the statement runs after the end. A resume that meets the claim of the drive still
  leaving starts nothing, and the run waits for the sweep. A second delivery that fails before its claim
  records its failure on the run the first drive carries. A pause and a cancel that read at once leave
  the run paused with a stop pending (the next resume or cancel ends it). A cancel of a queued run that
  races its start closes the stream under a running ledger; after a restart the next drive's writes are
  lost and it may perform a step again.
- `TransactionLease`: a query that arrives while a commit or an expiry is on its way runs behind it,
  outside any transaction. A BEGIN that fails leaves its client out of the pool, and a disconnection then
  waits for ever. Over two providers of one id, a call on the second drops the record of the transaction
  on the first, and another session may end it, which is what the record is there to refuse
  (`route.ts`: "Only the session that opened it can query it, commit it or roll it back").
- `ProviderCache`: a removal while an acquisition is under way leaves the new entry, for the sweep to
  find half an hour later. A request may be handed a provider the sweep has begun to disconnect. A
  borrower does not refresh the last use of the entry it borrows. A provider that cannot be built leaves
  the forward opened for it in the pool, and so does a failed reconnection after a timeout change, until
  the connection's next entry goes. Two forwards opened at once leave one in no pool.
- `StorageSync`: the races above. The most ordinary is an edit during the pull of a mount, which is
  overwritten; the retry of a push whose answer was lost replaces a newer edit of another device.

## What is not modelled

- Of the ledger: the history index, the readers of the timeline, the retry of writes on Windows.
- Of the drives: prompts, the guidance given to the model, the verification of its goal, drafts and
  reports (entries the fold reads nothing from), deadlines in units of time.
- Of the accounting: the ceiling in time and the other stages of the policy (decisions without state);
  the content of a result. `AgentRun` keeps of all this whether a statement is live and that a refusal
  comes before the database.
- Of the transactions: the providers of MySQL, SQL Server and Oracle, and the interface. A request to a
  pool that is ending and had no client free is let wait for one, which the code only fails.
- Of the provider cache: `clearProviderCache`, several connection ids, the seal of a tunnelled
  connection, host key pins, what the key is computed from.
- Of the sync: other tabs of the browser, the lengths of the backoff, an unmount before the mount is
  over, the active connection (set back to none by nobody).
- Of the accounts: what the section above lists, and the SQLite store, whose writes are the same
  conditions in one synchronous step.
- The other components of the inventory, for the reasons `PROJECT.json` gives with each.

## Plan

In this order, each with its invariants first and its proof after TLC agrees.

1. `RunLedger`, `AgentRun`, `StepContract` and their proofs: done.
2. `TransactionLease` and its proofs: done for PostgreSQL.
3. `ProviderCache` with the forwards, and its proofs: done for one connection id.
4. `StorageSync` over `WriteBehind`, and its proofs: done for one tab.
5. `ExecutionAccounting` and its proofs: done.
6. `Accounts` and its proofs: done for the PostgreSQL store. To come: the `user_storage` rows.
