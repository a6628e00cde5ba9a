-------------------------- MODULE TransactionLease --------------------------
(***************************************************************************)
(* The interactive transactions of one stored connection: the route that   *)
(* begins, queries and ends them (app/api/db/transaction/route.ts), the    *)
(* record of who opened one (lib/api/transaction-ownership.ts), kept by    *)
(* connection id, and the one transaction each cached PostgreSQL provider  *)
(* holds (postgres.ts), of which an id has one for every server,           *)
(* credentials and mode it is asked for with.                              *)
(*                                                                         *)
(* Each handler runs to its await and again from the answer: a request     *)
(* takes one step up to the command it sends and one when the database     *)
(* answers.  A pooled client answers its commands in the order they were   *)
(* sent, whoever sent them, and released or not.                           *)
(***************************************************************************)
EXTENDS Naturals, Sequences

CONSTANTS
    Users,     \* authenticated accounts
    Requests,  \* POSTs to the route that may be under way at once
    Expiry,    \* expireTransaction, when it awaits its ROLLBACK
    Providers, \* the cache entries of the connection id
    Conns,     \* the clients of their pools, each a <<provider, number>>
    NoUser, NoConn,
    Ops,       \* actions the requests ask for
    Faults,    \* failures injected: "connect", "begin", "end", "query"
    MaxTx      \* transactions begun

ASSUME LeaseAssumption ==
    /\ Conns \subseteq Providers \X Nat
    /\ NoUser \notin Users /\ NoConn \notin Conns /\ Expiry \notin Requests
    /\ Ops \subseteq {"begin", "commit", "rollback", "query", "status"}
    /\ MaxTx \in Nat

VARIABLES
    txActive, txClient, txTimeout,  \* fields of each provider
    armed,          \* timers that are set: of a provider, for a transaction
    ending,         \* providers being disconnected
    owner, lapsed,  \* the record, and whether its five minutes have passed
    out,            \* clients checked out of the pool
    queue,          \* who awaits an answer of each client, in order
    open,           \* the transaction the server holds open on each client
    broken,         \* clients whose transaction a failed statement aborted
    req,            \* the requests under way
    begun,          \* bounded counter: the transactions begun
    \* history, never read by an action; a provider's ends when it raced
    opener,         \* who began the transaction open on each client
    raced,          \* providers with a begin that met another, or an end
    trespass,       \* someone acted on a transaction of another's
    shadowed,       \* a call over one provider took the record of another's
    misled          \* why nothing was when someone was told "committed": it had
                    \* "ended", or it was "aborted"

fields   == <<txActive, txClient, txTimeout>>
provider == <<fields, armed, ending>>
record   == <<owner, lapsed>>
database == <<out, queue, open, broken>>
history  == <<opener, raced, trespass, shadowed, misled>>
vars == <<provider, record, database, req, begun, history>>

-----------------------------------------------------------------------------

Idle ==
    [pc |-> "off", op |-> "status", user |-> NoUser, at |-> NoConn, tx |-> 0,
     free |-> FALSE]

\* Mutant: reading the record drops nothing.
OwnerForever(p) == owner

\* transactionOwner and the reconcile of the route: a lapsed record, or one
\* of a transaction this provider does not hold, is dropped by reading it.
LiveOwner(p) == IF lapsed \/ ~txActive[p] THEN NoUser ELSE owner

\* Another provider of the id holds a transaction open, and has a record.
OthersRecord(p) ==
    owner # NoUser /\ ~lapsed /\ \E q \in Providers \ {p} : txActive[q]

Reconcile(p) ==
    /\ owner' = LiveOwner(p) /\ lapsed' = FALSE
    /\ shadowed' = (shadowed \/ (~txActive[p] /\ OthersRecord(p)))

\* Mutant: the route without its 409.
RefusedNever(u, p) == FALSE

\* 409 TRANSACTION_NOT_OWNED.
Refused(u, p) == LiveOwner(p) \notin {NoUser, u}

\* What the provider asks of its fields before it ends or uses a transaction.
InTransaction(p) == txActive[p] /\ txClient[p] # NoConn

\* Mutant: the timer stays armed.
TimerLeft(p) == UNCHANGED <<armed, txTimeout>>

ClearTxTimeout(p) ==
    /\ armed' = armed \ {<<p, txTimeout[p]>>}
    /\ txTimeout' = [txTimeout EXCEPT ![p] = 0]

\* Mutant: no timer at all.
TimerNever(p, t) ==
    armed' = armed /\ txTimeout' = [txTimeout EXCEPT ![p] = t]

\* The new timer replaces the reference to the one before, armed or not.
SetTxTimeout(p, t) ==
    armed' = armed \cup {<<p, t>>} /\ txTimeout' = [txTimeout EXCEPT ![p] = t]

PoolOf(p) == {c \in Conns : c[1] = p}

Send(who, c) == queue' = [queue EXCEPT ![c] = Append(@, who)]
Answer(c)    == queue' = [queue EXCEPT ![c] = Tail(@)]
Leave(r)     == req' = [req EXCEPT ![r] = Idle]

\* Mutants: the finally block gives the client back and forgets the fields, or
\* forgets one of them.
ReleaseForgets(p) == out' = out \ {txClient[p]} /\ UNCHANGED <<txClient, txActive>>
ReleaseHalf(p) ==
    /\ out' = out \ {txClient[p]}
    /\ txClient' = [txClient EXCEPT ![p] = NoConn]
    /\ UNCHANGED txActive

\* The finally block of commit, rollback and expiry: with no client left to
\* release it throws before it resets anything.
Release(p) ==
    IF txClient[p] = NoConn
    THEN UNCHANGED <<out, txClient, txActive>>
    ELSE /\ out' = out \ {txClient[p]}
         /\ txClient' = [txClient EXCEPT ![p] = NoConn]
         /\ txActive' = [txActive EXCEPT ![p] = FALSE]

\* The request's command meets a transaction someone else began, which it was
\* not let into as an unowned one.
Trespasses(r, c) ==
    /\ c[1] \notin raced
    /\ open[c] # 0 /\ opener[c] # req[r].user /\ ~req[r].free

-----------------------------------------------------------------------------
(* The route, up to the provider's first await.                            *)

\* Refused, a status, or an error the provider or its ending pool throws.
AnsweredAtOnce(r, u, p, op) ==
    /\ req[r].pc = "off"
    /\ \/ op = "status"
       \/ op # "status" /\ Refused(u, p)
       \/ op = "begin" /\ (txActive[p] \/ p \in ending)
       \/ op \in {"commit", "rollback", "query"} /\ ~InTransaction(p)
    /\ Reconcile(p)
    /\ UNCHANGED <<provider, database, req, begun, opener, raced, trespass,
                   misled>>

\* A request that goes on to await the provider.
Goes(r, u, p, op, pc, tx) ==
    /\ req[r].pc = "off" /\ ~Refused(u, p)
    /\ Reconcile(p)
    /\ req' = [req EXCEPT ![r] =
                 [pc |-> pc, op |-> op, user |-> u, at |-> p, tx |-> tx,
                  free |-> op # "begin" /\ LiveOwner(p) = NoUser]]
    /\ UNCHANGED <<opener, trespass, misled>>

\* A begin, a commit or a rollback over the provider is not answered yet.
Unsettled(p) ==
    \E r \in Requests :
        /\ req[r].pc # "off" /\ req[r].at = p
        /\ req[r].op \in {"begin", "commit", "rollback"}

\* beginTransaction asks the pool for a client: txActive is all it looks at.
Begin(r, u, p) ==
    /\ ~txActive[p] /\ p \notin ending
    /\ begun < MaxTx
    /\ begun' = begun + 1
    /\ raced' = IF Unsettled(p) THEN raced \cup {p} ELSE raced
    /\ Goes(r, u, p, "begin", "connecting", begun + 1)
    /\ UNCHANGED <<provider, database>>

\* commitTransaction and rollbackTransaction clear the timer and send.
End(r, u, p, op) ==
    /\ op \in {"commit", "rollback"} /\ InTransaction(p)
    /\ Goes(r, u, p, op, "sent", 0)
    /\ ClearTxTimeout(p)
    /\ Send(r, txClient[p])
    /\ UNCHANGED <<txActive, txClient, ending, out, open, broken, begun, raced>>

Query(r, u, p) ==
    /\ InTransaction(p)
    /\ Goes(r, u, p, "query", "sent", 0)
    /\ Send(r, txClient[p])
    /\ UNCHANGED <<provider, out, open, broken, begun, raced>>

-----------------------------------------------------------------------------
(* beginTransaction goes on.                                               *)

\* The pool hands a client over, and BEGIN is sent on it.
Connected(r) ==
    /\ req[r].pc = "connecting"
    /\ \E c \in PoolOf(req[r].at) \ out :
          /\ out' = out \cup {c}
          /\ txClient' = [txClient EXCEPT ![req[r].at] = c]
          /\ Send(r, c)
    /\ req' = [req EXCEPT ![r].pc = "sent"]
    /\ UNCHANGED <<txActive, txTimeout, armed, ending, record, open, broken,
                   begun, history>>

\* The pool has none in time, or the server cannot be reached.
ConnectFails(r) ==
    /\ req[r].pc = "connecting"
    /\ "connect" \in Faults \/ PoolOf(req[r].at) \subseteq out
    /\ Leave(r)
    /\ UNCHANGED <<provider, record, database, begun, history>>

\* BEGIN inside an open transaction only warns, unless that one was aborted.
\* The claim follows at once.
BeginAnswered(c) ==
    /\ queue[c] # <<>> /\ c \notin broken
    /\ LET r == Head(queue[c]) IN
          /\ r \in Requests /\ req[r].op = "begin"
          /\ open' = [open EXCEPT ![c] = IF @ = 0 THEN req[r].tx ELSE @]
          /\ opener' = [opener EXCEPT ![c] = IF open[c] = 0 THEN req[r].user ELSE @]
          /\ txActive' = [txActive EXCEPT ![c[1]] = TRUE]
          /\ SetTxTimeout(c[1], req[r].tx)
          /\ owner' = req[r].user /\ lapsed' = FALSE
          /\ shadowed' = (shadowed \/ OthersRecord(c[1]))
          /\ Leave(r)
    /\ Answer(c)
    /\ UNCHANGED <<txClient, ending, out, broken, begun, raced, trespass, misled>>

\* A BEGIN that fails leaves the client where connecting put it.
BeginFails(c) ==
    /\ "begin" \in Faults \/ c \in broken
    /\ queue[c] # <<>>
    /\ LET r == Head(queue[c]) IN
          r \in Requests /\ req[r].op = "begin" /\ Leave(r)
    /\ Answer(c)
    /\ UNCHANGED <<provider, record, out, open, broken, begun, history>>

-----------------------------------------------------------------------------
(* The database answers a query, a commit, a rollback or an expiry.        *)

\* A statement that fails aborts the transaction it is part of, in which all
\* that follow fail, up to its end.
QueryFails(c) ==
    /\ "query" \in Faults \/ c \in broken
    /\ broken' = IF open[c] # 0 THEN broken \cup {c} ELSE broken
    /\ UNCHANGED lapsed

\* One that succeeds extends the lease.
QuerySucceeds(c) ==
    /\ c \notin broken
    /\ lapsed' = FALSE /\ UNCHANGED broken

QueryAnswered(c) ==
    /\ queue[c] # <<>>
    /\ LET r == Head(queue[c]) IN
          /\ r \in Requests /\ req[r].op = "query"
          /\ trespass' = (trespass \/ Trespasses(r, c))
          /\ Leave(r)
    /\ Answer(c)
    /\ QuerySucceeds(c) \/ QueryFails(c)
    /\ UNCHANGED <<provider, owner, out, open, begun, opener, raced, shadowed,
                   misled>>

\* The server ends the transaction of a client, if it has one.
Ends(c) ==
    /\ open' = [open EXCEPT ![c] = 0]
    /\ opener' = [opener EXCEPT ![c] = NoUser]
    /\ broken' = broken \ {c}

\* A COMMIT that is answered without an error says nothing of what it did: an
\* aborted transaction is rolled back by it, and where none is open it warns.
Told(r, c) ==
    misled' = misled \cup
        {why \in {"ended", "aborted"} :
            /\ req[r].op = "commit" /\ c[1] \notin raced
            /\ IF why = "ended" THEN open[c] = 0 ELSE c \in broken}

\* The record goes with a transaction that ended, and stays behind an error.
EndAnswered(c) ==
    /\ queue[c] # <<>>
    /\ LET r == Head(queue[c]) IN
          /\ r \in Requests /\ req[r].op \in {"commit", "rollback"}
          /\ trespass' = (trespass \/ Trespasses(r, c))
          /\ \/ /\ txClient[c[1]] # NoConn
                /\ owner' = NoUser /\ lapsed' = FALSE
                /\ shadowed' = (shadowed \/ OthersRecord(c[1]))
                /\ Told(r, c)
             \/ /\ txClient[c[1]] = NoConn \/ "end" \in Faults
                /\ UNCHANGED <<record, shadowed, misled>>
          /\ Leave(r)
    /\ Ends(c)
    /\ Answer(c)
    /\ Release(c[1])
    /\ UNCHANGED <<txTimeout, armed, ending, begun, raced>>

ExpiryAnswered(c) ==
    /\ queue[c] # <<>> /\ Head(queue[c]) = Expiry
    /\ Ends(c)
    /\ Answer(c)
    /\ Release(c[1])
    /\ IF txClient[c[1]] = NoConn THEN UNCHANGED <<armed, txTimeout>>
                                  ELSE ClearTxTimeout(c[1])
    /\ UNCHANGED <<ending, record, req, begun, raced, trespass, shadowed,
                   misled>>

-----------------------------------------------------------------------------
(* Time.                                                                   *)

\* Five minutes after BEGIN: expireTransaction.
TimerFires(p, t) ==
    /\ <<p, t>> \in armed
    /\ armed' = armed \ {<<p, t>>}
    /\ IF InTransaction(p) THEN Send(Expiry, txClient[p]) ELSE UNCHANGED queue
    /\ UNCHANGED <<fields, ending, record, out, open, broken, req, begun, history>>

\* Five minutes after the owner's last action.  The record is written right
\* after the timer is set, so it outlasts a timer that is still armed.
LeaseLapses ==
    /\ owner # NoUser /\ ~lapsed
    /\ \A p \in Providers : <<p, txTimeout[p]>> \notin armed
    /\ lapsed' = TRUE
    /\ UNCHANGED <<provider, owner, database, req, begun, history>>

-----------------------------------------------------------------------------
(* The provider is disconnected: removed, swept, or given a new timeout.   *)

\* PostgresProvider.disconnect: pool.end refuses new checkouts, and waits.
Disconnect(p) ==
    /\ p \notin ending
    /\ ending' = ending \cup {p}
    /\ UNCHANGED <<fields, armed, record, database, req, begun, history>>

\* Every client is back and closed, which ends what the server had open on it,
\* and the next call finds a new provider.  A timer the old one still has set
\* will find no transaction.
Disconnected(p) ==
    /\ p \in ending
    /\ PoolOf(p) \cap out = {} /\ \A c \in PoolOf(p) : queue[c] = <<>>
    /\ \A r \in Requests : ~(req[r].pc = "connecting" /\ req[r].at = p)
    /\ ending' = ending \ {p}
    /\ txActive' = [txActive EXCEPT ![p] = FALSE]
    /\ txClient' = [txClient EXCEPT ![p] = NoConn]
    /\ txTimeout' = [txTimeout EXCEPT ![p] = 0]
    /\ armed' = {t \in armed : t[1] # p}
    /\ open' = [c \in Conns |-> IF c[1] = p THEN 0 ELSE open[c]]
    /\ opener' = [c \in Conns |-> IF c[1] = p THEN NoUser ELSE opener[c]]
    /\ broken' = broken \ PoolOf(p)
    /\ UNCHANGED <<record, out, queue, req, begun, raced, trespass, shadowed,
                   misled>>

-----------------------------------------------------------------------------

Init ==
    /\ txActive = [p \in Providers |-> FALSE]
    /\ txClient = [p \in Providers |-> NoConn]
    /\ txTimeout = [p \in Providers |-> 0] /\ armed = {} /\ ending = {}
    /\ owner = NoUser /\ lapsed = FALSE
    /\ out = {}
    /\ queue = [c \in Conns |-> <<>>]
    /\ open = [c \in Conns |-> 0] /\ broken = {}
    /\ req = [r \in Requests |-> Idle]
    /\ begun = 0
    /\ opener = [c \in Conns |-> NoUser]
    /\ raced = {} /\ trespass = FALSE /\ shadowed = FALSE /\ misled = {}

\* What a POST to the route does before it awaits anything of the provider.
Post(r, u, p) ==
    \/ \E op \in Ops : AnsweredAtOnce(r, u, p, op) \/ End(r, u, p, op)
    \/ "begin" \in Ops /\ Begin(r, u, p)
    \/ "query" \in Ops /\ Query(r, u, p)

Answered(c) ==
    BeginAnswered(c) \/ BeginFails(c) \/ QueryAnswered(c) \/ EndAnswered(c)
        \/ ExpiryAnswered(c)

Next ==
    \/ \E r \in Requests, u \in Users, p \in Providers : Post(r, u, p)
    \/ \E r \in Requests : Connected(r) \/ ConnectFails(r)
    \/ \E c \in Conns : Answered(c)
    \/ \E p \in Providers, t \in 1..MaxTx : TimerFires(p, t)
    \/ LeaseLapses
    \/ \E p \in Providers :
          ("disconnect" \in Faults /\ Disconnect(p)) \/ Disconnected(p)

Spec == Init /\ [][Next]_vars

\* The pool and the database answer, and time passes.
Fairness ==
    /\ \A r \in Requests : WF_vars(Connected(r) \/ ConnectFails(r))
    /\ \A c \in Conns : WF_vars(Answered(c))
    /\ \A p \in Providers, t \in 1..MaxTx : WF_vars(TimerFires(p, t))
    /\ WF_vars(LeaseLapses)
    /\ \A p \in Providers : WF_vars(Disconnected(p))

FairSpec == Spec /\ Fairness

-----------------------------------------------------------------------------
(* Properties.                                                             *)

\* "Only the session that opened it can query it, commit it or roll it back"
\* (the route's 409), unless its record had lapsed when the other came, or a
\* call over another provider of the id took the record's place, or its begin
\* met another one.
OnlyTheOpener == trespass => shadowed

\* "All changes have been saved" (use-transaction-control.ts), whoever is told
\* that a commit succeeded.
CommittedMeansCommitted == misled = {}

\* Up to a transaction that a failed statement had aborted: an expiry that gets
\* in between turns the answer into an error (commitTransaction).
CommittedUnlessAborted == "ended" \notin misled

\* "Auto-rollback after timeout to prevent leaked locks": a transaction the
\* server holds open is the one its provider knows of, and its timer is
\* still set or its end is on the way, also while the provider is being
\* disconnected.
NoLeakedLocks ==
    \A c \in Conns : open[c] # 0 /\ c[1] \notin raced =>
        /\ txActive[c[1]] /\ txClient[c[1]] = c
        /\ \/ <<c[1], open[c]>> \in armed
           \/ \E i \in DOMAIN queue[c] :
                 \/ queue[c][i] = Expiry
                 \/ /\ queue[c][i] \in Requests
                    /\ req[queue[c][i]].op \in {"commit", "rollback"}

\* A timer never outlives its transaction into the next one (clearTxTimeout).
TimersAreOfThisTransaction ==
    \A t \in armed : t[1] \notin raced =>
        txClient[t[1]] # NoConn /\ open[txClient[t[1]]] = t[2]

\* "An open transaction with no live record is treated as unowned and any
\* session may commit or roll it back, which is the escape hatch that makes
\* the refusal safe" (transaction-ownership.ts).
Escapable(p) == txActive[p] /\ LiveOwner(p) = NoUser => InTransaction(p)

EscapeHatch == \A p \in Providers : Escapable(p)

\* It is there for as long as no begin meets another, or an unanswered end.
EscapeHatchUnlessRaced == \A p \in Providers \ raced : Escapable(p)

\* "A refusal that never lifts is a second defect" (transaction-ownership.ts).
RefusalLifts ==
    \A u \in Users, p \in Providers : Refused(u, p) ~> ~Refused(u, p)

\* A client that a BEGIN which failed left out of the pool.
Forgotten(c) ==
    /\ c \in out /\ queue[c] = <<>>
    /\ ~(txActive[c[1]] /\ txClient[c[1]] = c)

\* The sweep, the removal and a call with a new timeout await disconnect
\* (factory.ts), and pool.end waits for the transaction that is open: it ends,
\* if only by its timer, and so does the wait, unless a client was forgotten.
DisconnectEnds ==
    \A p \in Providers :
        p \in ending ~> p \notin ending \/ \E c \in PoolOf(p) : Forgotten(c)
=============================================================================
