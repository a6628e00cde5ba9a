----------------------- MODULE TransactionLeaseProofs -----------------------
(***************************************************************************)
(* Proofs about TransactionLease, for any users, providers, pools and      *)
(* requests, every failure, and any overlap of the requests: of a provider *)
(* for as long as no begin over it met another, or an end that was not     *)
(* answered yet.  From there on the properties are false (two BEGINs at    *)
(* once wedge a provider), and the code has nothing that prevents it.      *)
(***************************************************************************)
EXTENDS TransactionLease, SequenceTheorems, TLAPS

Request ==
    [pc : {"off", "connecting", "sent"},
     op : {"begin", "commit", "rollback", "query", "status"},
     user : Users \cup {NoUser}, at : Providers \cup {NoConn},
     tx : 0..MaxTx, free : BOOLEAN]

Waiting == Seq(Requests \cup {Expiry})

UnderWay(r, p) == req[r].pc # "off" /\ req[r].at = p

TypeOK ==
    /\ txActive \in [Providers -> BOOLEAN]
    /\ txClient \in [Providers -> Conns \cup {NoConn}]
    /\ \A p \in Providers : txClient[p] \in PoolOf(p) \cup {NoConn}
    /\ txTimeout \in [Providers -> 0..MaxTx]
    /\ armed \subseteq Providers \X (1..MaxTx)
    /\ owner \in Users \cup {NoUser} /\ lapsed \in BOOLEAN
    /\ out \subseteq Conns /\ broken \subseteq Conns
    /\ open \in [Conns -> 0..MaxTx]
    /\ req \in [Requests -> Request]
    /\ begun \in 0..MaxTx
    /\ opener \in [Conns -> Users \cup {NoUser}]
    /\ raced \subseteq Providers
    /\ trespass \in BOOLEAN /\ shadowed \in BOOLEAN
    /\ misled \subseteq {"ended", "aborted"}
    /\ queue \in [Conns -> Waiting]
    /\ \A r \in Requests : req[r].pc # "off" =>
          /\ req[r].at \in Providers /\ req[r].user \in Users
          /\ req[r].pc = "connecting" => req[r].op = "begin"
          /\ req[r].op = "begin" => req[r].tx \in 1..MaxTx

-----------------------------------------------------------------------------
(* The queues of the clients.                                              *)

\* A command of the request is on its way to the client.
Sent(r, c) == req[r].pc = "sent" /\ req[r].at = c[1]

\* A request waits in one place.
Waits ==
    /\ \A c \in Conns : \A i \in 1..Len(queue[c]) :
          queue[c][i] \in Requests => Sent(queue[c][i], c)
    /\ \A c, d \in Conns :
          \A i \in 1..Len(queue[c]), j \in 1..Len(queue[d]) :
             queue[c][i] \in Requests /\ queue[c][i] = queue[d][j]
                => c = d /\ i = j

\* Its answer ends the transaction.
Ending(x) == x = Expiry \/ req[x].op \in {"commit", "rollback"}

EndOnTheWay(c) == \E i \in 1..Len(queue[c]) : Ending(queue[c][i])

-----------------------------------------------------------------------------
(* What a provider, its timers and its clients are like until it raced.    *)

TimersOf(p) == {t \in armed : t[1] = p}

\* A begin that is under way has neither another beside it nor an end.
BeginsAlone(p) ==
    \A r, s \in Requests :
        /\ UnderWay(r, p) /\ req[r].op = "begin"
        /\ UnderWay(s, p) /\ req[s].op \in {"begin", "commit", "rollback"}
        => r = s

\* An expiry is sent before anything else that ends the transaction.
ExpiryFirst(c) ==
    \A i \in 1..Len(queue[c]) :
        queue[c][i] = Expiry => \A j \in 1..(i-1) : ~Ending(queue[c][j])

\* BEGIN is sent on the client the provider has, and nothing after it.
BeginLast(c) ==
    \A i \in 1..Len(queue[c]) :
        queue[c][i] # Expiry /\ req[queue[c][i]].op = "begin" =>
            i = Len(queue[c]) /\ txClient[c[1]] = c

\* Out of a transaction nothing is open, and nothing will expire.  An end that
\* is still to be answered comes too late and finds no client.
Resting(p) ==
    /\ TimersOf(p) = {}
    /\ \A c \in PoolOf(p) :
          open[c] = 0 /\ \A i \in 1..Len(queue[c]) : queue[c][i] # Expiry
    /\ \A r \in Requests :
          UnderWay(r, p) /\ req[r].op \in {"commit", "rollback"}
              => txClient[p] = NoConn

\* In one, its client has the only transaction that is open, and that one has
\* its timer, or its expiry or its end is on the way.
InUse(p) ==
    LET c == txClient[p] IN
    /\ c \in PoolOf(p) /\ open[c] # 0
    /\ \A d \in PoolOf(p) \ {c} : open[d] = 0 /\ ~EndOnTheWay(d)
    /\ \A r \in Requests : UnderWay(r, p) => req[r].op # "begin"
    /\ IF EndOnTheWay(c)
       THEN TimersOf(p) = {}
       ELSE TimersOf(p) = {<<p, open[c]>>} /\ txTimeout[p] = open[c]

ProviderOK(p) ==
    /\ BeginsAlone(p)
    /\ \A c \in PoolOf(p) : ExpiryFirst(c) /\ BeginLast(c)
    /\ IF txActive[p] THEN InUse(p) ELSE Resting(p)

ProvidersOK == \A p \in Providers \ raced : ProviderOK(p)

Kept == TypeOK /\ Waits /\ ProvidersOK

-----------------------------------------------------------------------------
(* Whose a transaction is, until a call over another provider shadowed its *)
(* record.                                                                 *)

\* As long as its timer is set, the record says who opened it.
RecordOf(p) ==
    txActive[p] /\ TimersOf(p) # {} =>
        /\ owner # NoUser /\ ~lapsed
        /\ owner = opener[txClient[p]]

RecordKept == \A p \in Providers \ raced : RecordOf(p)

\* Who is about to act on it, with no end before, is who opened it or found it
\* without an owner.
OnHisOwn(c) ==
    \A i \in 1..Len(queue[c]) :
        LET r == queue[c][i] IN
        /\ open[c] # 0
        /\ r # Expiry /\ req[r].op # "begin" /\ ~req[r].free
        /\ \A j \in 1..(i-1) : ~Ending(queue[c][j])
        => opener[c] = req[r].user

ActsOnHisOwn == \A c \in Conns : c[1] \notin raced => OnHisOwn(c)

Owned == ~shadowed => RecordKept /\ ActsOnHisOwn

\* Inductive, with what it has to say of the providers that have not raced.
LeaseInv == Kept /\ Owned /\ OnlyTheOpener /\ CommittedUnlessAborted

-----------------------------------------------------------------------------
(* Who joins a queue, and who leaves it.                                   *)

LEMMA Queued ==
    ASSUME TypeOK, NEW c \in Conns
    PROVE  /\ Len(queue[c]) \in Nat
           /\ \A i \in 1..Len(queue[c]) : queue[c][i] \in Requests \cup {Expiry}
           /\ queue[c] # <<>> => Len(queue[c]) >= 1 /\ Head(queue[c]) = queue[c][1]
           /\ queue[c] = <<>> => Len(queue[c]) = 0
BY DEF TypeOK, Waiting

LEMMA Placed ==
    ASSUME Waits, NEW c \in Conns, NEW i \in 1..Len(queue[c]),
           NEW r \in Requests, queue[c][i] = r
    PROVE  Sent(r, c)
BY DEF Waits

LEMMA OnePlace ==
    ASSUME Waits, NEW c \in Conns, NEW d \in Conns,
           NEW i \in 1..Len(queue[c]), NEW j \in 1..Len(queue[d]),
           queue[c][i] \in Requests, queue[c][i] = queue[d][j]
    PROVE  c = d /\ i = j
BY DEF Waits

\* Who sends a command joins the queue of the client.
LEMMA Sends ==
    ASSUME TypeOK, NEW c \in Conns,
           NEW who \in Requests \cup {Expiry}, Send(who, c)
    PROVE  /\ queue' \in [Conns -> Waiting]
           /\ \A d \in Conns : d # c => queue'[d] = queue[d]
           /\ Len(queue'[c]) = Len(queue[c]) + 1
           /\ \A i \in 1..Len(queue[c]) : queue'[c][i] = queue[c][i]
           /\ queue'[c][Len(queue[c]) + 1] = who
<1> DEFINE v == Append(queue[c], who)
<1>1. queue' = [queue EXCEPT ![c] = v] /\ queue \in [Conns -> Waiting]
  BY DEF Send, TypeOK
<1>2. queue[c] \in Seq(Requests \cup {Expiry})
  BY <1>1 DEF Waiting
<1>3. /\ v \in Waiting /\ Len(v) = Len(queue[c]) + 1
      /\ \A i \in 1..Len(queue[c]) : v[i] = queue[c][i]
      /\ v[Len(queue[c]) + 1] = who
  BY <1>2, AppendProperties DEF Waiting
<1> HIDE DEF v
<1> QED BY <1>1, <1>3

\* An answer is for the first.
LEMMA Answers ==
    ASSUME TypeOK, NEW c \in Conns, queue[c] # <<>>, Answer(c)
    PROVE  /\ queue' \in [Conns -> Waiting]
           /\ \A d \in Conns : d # c => queue'[d] = queue[d]
           /\ Len(queue'[c]) = Len(queue[c]) - 1
           /\ \A i \in 1..Len(queue'[c]) : queue'[c][i] = queue[c][i + 1]
<1> DEFINE v == Tail(queue[c])
<1>1. queue' = [queue EXCEPT ![c] = v] /\ queue \in [Conns -> Waiting]
  BY DEF Answer, TypeOK
<1>2. queue[c] \in Seq(Requests \cup {Expiry})
  BY <1>1 DEF Waiting
<1>3. /\ v \in Waiting /\ Len(v) = Len(queue[c]) - 1
      /\ \A i \in 1..Len(v) : v[i] = queue[c][i + 1]
  BY <1>2, HeadTailProperties DEF Waiting
<1> HIDE DEF v
<1> QED BY <1>1, <1>3

\* A request that is not on its way joins a queue.
LEMMA JoinsWaiting ==
    ASSUME TypeOK, Waits, NEW c \in Conns, NEW r \in Requests, Send(r, c),
           req[r].pc # "sent", Sent(r, c)',
           \A s \in Requests : s # r => req'[s] = req[s]
    PROVE  Waits'
<1>1. /\ \A d \in Conns : d # c => queue'[d] = queue[d]
      /\ Len(queue'[c]) = Len(queue[c]) + 1
      /\ \A i \in 1..Len(queue[c]) : queue'[c][i] = queue[c][i]
      /\ queue'[c][Len(queue[c]) + 1] = r
  BY Sends
<1>2. \A d \in Conns : Len(queue[d]) \in Nat
  BY Queued
<1>3. ASSUME NEW d \in Conns, NEW i \in 1..Len(queue[d]) PROVE queue[d][i] # r
  BY Placed DEF Sent
<1>4. ASSUME NEW d \in Conns, NEW i \in 1..Len(queue'[d])
      PROVE  \/ i \in 1..Len(queue[d]) /\ queue'[d][i] = queue[d][i]
             \/ d = c /\ i = Len(queue[c]) + 1 /\ queue'[d][i] = r
  BY <1>1, <1>2
<1>5. ASSUME NEW d \in Conns, NEW i \in 1..Len(queue'[d]),
             NEW s \in Requests, queue'[d][i] = s
      PROVE  req'[s].pc = "sent" /\ req'[s].at = d[1]
  <2>1. CASE i \in 1..Len(queue[d]) /\ queue'[d][i] = queue[d][i]
    <3>1. Sent(s, d) /\ s # r
      BY <1>3, <1>5, <2>1, Placed
    <3> QED BY <3>1 DEF Sent
  <2>2. CASE d = c /\ queue'[d][i] = r
    BY <1>5, <2>2 DEF Sent
  <2> QED BY <1>4, <2>1, <2>2
<1>6. ASSUME NEW d \in Conns, NEW e \in Conns,
             NEW i \in 1..Len(queue'[d]), NEW j \in 1..Len(queue'[e]),
             queue'[d][i] \in Requests, queue'[d][i] = queue'[e][j]
      PROVE  d = e /\ i = j
  <2>1. CASE queue'[d][i] = r
    <3>1. d = c /\ i = Len(queue[c]) + 1
      BY <1>3, <1>4, <2>1
    <3>2. e = c /\ j = Len(queue[c]) + 1
      BY <1>3, <1>4, <1>6, <2>1
    <3> QED BY <3>1, <3>2
  <2>2. CASE queue'[d][i] # r
    <3>1. i \in 1..Len(queue[d]) /\ queue'[d][i] = queue[d][i]
      BY <1>4, <2>2
    <3>2. j \in 1..Len(queue[e]) /\ queue'[e][j] = queue[e][j]
      BY <1>4, <1>6, <2>2
    <3>3. queue[d][i] \in Requests /\ queue[d][i] = queue[e][j]
      BY <1>6, <3>1, <3>2
    <3> QED BY <3>1, <3>2, <3>3, OnePlace
  <2> QED BY <2>1, <2>2
<1> QED
  <2>1. \A d \in Conns : \A i \in 1..Len(queue'[d]) :
           queue'[d][i] \in Requests =>
              /\ req'[queue'[d][i]].pc = "sent"
              /\ req'[queue'[d][i]].at = d[1]
    BY <1>5
  <2>2. \A d, e \in Conns :
           \A i \in 1..Len(queue'[d]), j \in 1..Len(queue'[e]) :
              queue'[d][i] \in Requests /\ queue'[d][i] = queue'[e][j]
                 => d = e /\ i = j
    BY <1>6
  <2> QED BY <2>1, <2>2 DEF Waits, Sent

\* The expiry joins one.
LEMMA ExpiryWaiting ==
    ASSUME TypeOK, Waits, NEW c \in Conns, Send(Expiry, c), req' = req
    PROVE  Waits'
<1>1. /\ \A d \in Conns : d # c => queue'[d] = queue[d]
      /\ Len(queue'[c]) = Len(queue[c]) + 1
      /\ \A i \in 1..Len(queue[c]) : queue'[c][i] = queue[c][i]
      /\ queue'[c][Len(queue[c]) + 1] = Expiry
  BY Sends
<1>2. \A d \in Conns : Len(queue[d]) \in Nat
  BY Queued
<1>3. Expiry \notin Requests
  BY LeaseAssumption
<1>4. ASSUME NEW d \in Conns, NEW i \in 1..Len(queue'[d]),
             queue'[d][i] \in Requests
      PROVE  i \in 1..Len(queue[d]) /\ queue'[d][i] = queue[d][i]
  BY <1>1, <1>2, <1>3, <1>4
<1>5. ASSUME NEW d \in Conns, NEW i \in 1..Len(queue'[d]),
             NEW s \in Requests, queue'[d][i] = s
      PROVE  req'[s].pc = "sent" /\ req'[s].at = d[1]
  <2>1. i \in 1..Len(queue[d]) /\ queue'[d][i] = queue[d][i]
    BY <1>4, <1>5
  <2>2. Sent(s, d)
    BY <1>5, <2>1, Placed
  <2> QED BY <2>2 DEF Sent
<1>6. ASSUME NEW d \in Conns, NEW e \in Conns,
             NEW i \in 1..Len(queue'[d]), NEW j \in 1..Len(queue'[e]),
             queue'[d][i] \in Requests, queue'[d][i] = queue'[e][j]
      PROVE  d = e /\ i = j
  <2>1. i \in 1..Len(queue[d]) /\ queue'[d][i] = queue[d][i]
    BY <1>4, <1>6
  <2>2. j \in 1..Len(queue[e]) /\ queue'[e][j] = queue[e][j]
    BY <1>4, <1>6
  <2>3. queue[d][i] \in Requests /\ queue[d][i] = queue[e][j]
    BY <1>6, <2>1, <2>2
  <2> QED BY <2>1, <2>2, <2>3, OnePlace
<1> QED
  <2>1. \A d \in Conns : \A i \in 1..Len(queue'[d]) :
           queue'[d][i] \in Requests =>
              /\ req'[queue'[d][i]].pc = "sent"
              /\ req'[queue'[d][i]].at = d[1]
    BY <1>5
  <2>2. \A d, e \in Conns :
           \A i \in 1..Len(queue'[d]), j \in 1..Len(queue'[e]) :
              queue'[d][i] \in Requests /\ queue'[d][i] = queue'[e][j]
                 => d = e /\ i = j
    BY <1>6
  <2> QED BY <2>1, <2>2 DEF Waits, Sent

\* The first of a queue leaves it.
LEMMA LeavesWaiting ==
    ASSUME TypeOK, Waits, NEW c \in Conns, queue[c] # <<>>, Answer(c),
           \A s \in Requests : s # Head(queue[c]) => req'[s] = req[s]
    PROVE  Waits'
<1>1. /\ \A d \in Conns : d # c => queue'[d] = queue[d]
      /\ Len(queue'[c]) = Len(queue[c]) - 1
      /\ \A i \in 1..Len(queue'[c]) : queue'[c][i] = queue[c][i + 1]
  BY Answers
<1>2. /\ \A d \in Conns : Len(queue[d]) \in Nat
      /\ Len(queue[c]) >= 1 /\ Head(queue[c]) = queue[c][1]
  BY Queued
<1>3. ASSUME NEW d \in Conns, NEW i \in 1..Len(queue'[d])
      PROVE  \E k \in 1..Len(queue[d]) :
                /\ queue'[d][i] = queue[d][k]
                /\ k = IF d = c THEN i + 1 ELSE i
  <2>1. CASE d = c
    <3>1. i + 1 \in 1..Len(queue[d])
      BY <1>1, <1>2, <2>1
    <3> QED BY <1>1, <2>1, <3>1
  <2>2. CASE d # c
    BY <1>1, <2>2
  <2> QED BY <2>1, <2>2
<1>4. ASSUME NEW d \in Conns, NEW i \in 1..Len(queue'[d]),
             NEW s \in Requests, queue'[d][i] = s
      PROVE  req'[s].pc = "sent" /\ req'[s].at = d[1]
  <2>1. PICK k \in 1..Len(queue[d]) :
           queue'[d][i] = queue[d][k] /\ k = IF d = c THEN i + 1 ELSE i
    BY <1>3
  <2>2. Sent(s, d)
    BY <1>4, <2>1, Placed
  <2>3. s # Head(queue[c])
    <3>1. SUFFICES ASSUME queue[d][k] = queue[c][1] PROVE FALSE
      BY <1>2, <1>4, <2>1
    <3>2. 1 \in 1..Len(queue[c])
      BY <1>2
    <3>3. d = c /\ k = 1
      BY <1>4, <2>1, <3>1, <3>2, OnePlace
    <3> QED BY <2>1, <3>3
  <2> QED BY <2>2, <2>3 DEF Sent
<1>5. ASSUME NEW d \in Conns, NEW e \in Conns,
             NEW i \in 1..Len(queue'[d]), NEW j \in 1..Len(queue'[e]),
             queue'[d][i] \in Requests, queue'[d][i] = queue'[e][j]
      PROVE  d = e /\ i = j
  <2>1. PICK k \in 1..Len(queue[d]) :
           queue'[d][i] = queue[d][k] /\ k = IF d = c THEN i + 1 ELSE i
    BY <1>3
  <2>2. PICK l \in 1..Len(queue[e]) :
           queue'[e][j] = queue[e][l] /\ l = IF e = c THEN j + 1 ELSE j
    BY <1>3
  <2>3. queue[d][k] \in Requests /\ queue[d][k] = queue[e][l]
    BY <1>5, <2>1, <2>2
  <2>4. d = e /\ k = l
    BY <2>3, OnePlace
  <2> QED BY <2>1, <2>2, <2>4
<1> QED
  <2>1. \A d \in Conns : \A i \in 1..Len(queue'[d]) :
           queue'[d][i] \in Requests =>
              /\ req'[queue'[d][i]].pc = "sent"
              /\ req'[queue'[d][i]].at = d[1]
    BY <1>4
  <2>2. \A d, e \in Conns :
           \A i \in 1..Len(queue'[d]), j \in 1..Len(queue'[e]) :
              queue'[d][i] \in Requests /\ queue'[d][i] = queue'[e][j]
                 => d = e /\ i = j
    BY <1>5
  <2> QED BY <2>1, <2>2 DEF Waits, Sent

\* What is not in a queue does as it likes.
LEMMA ElsewhereWaiting ==
    ASSUME Waits, NEW r \in Requests, req[r].pc # "sent", queue' = queue,
           \A s \in Requests : s # r => req'[s] = req[s]
    PROVE  Waits'
BY DEF Waits, Sent

-----------------------------------------------------------------------------
(* Types.                                                                  *)

LEMMA OfAPool == \A c \in Conns : c[1] \in Providers /\ c \in PoolOf(c[1])
BY LeaseAssumption DEF PoolOf

LEMMA Leaves ==
    ASSUME TypeOK, NEW r \in Requests, Leave(r)
    PROVE  /\ req' \in [Requests -> Request]
           /\ \A s \in Requests : s # r => req'[s] = req[s]
           /\ req'[r].pc = "off"
<1>1. Idle \in Request /\ Idle.pc = "off"
  BY LeaseAssumption DEF Idle, Request
<1>2. req' = [req EXCEPT ![r] = Idle] /\ req \in [Requests -> Request]
  BY DEF Leave, TypeOK
<1> HIDE DEF Idle
<1> QED BY <1>1, <1>2

\* Whose answer is next.
LEMMA NextToAnswer ==
    ASSUME TypeOK, Waits, NEW c \in Conns, queue[c] # <<>>,
           NEW r \in Requests, Head(queue[c]) = r
    PROVE  /\ Sent(r, c) /\ UnderWay(r, c[1])
           /\ Len(queue[c]) >= 1 /\ queue[c][1] = r
<1>1. Len(queue[c]) \in Nat /\ Len(queue[c]) >= 1 /\ queue[c][1] = r
  BY Queued
<1>2. 1 \in 1..Len(queue[c])
  BY <1>1
<1> QED BY <1>1, <1>2, Placed DEF Sent, UnderWay

LEMMA Releases ==
    ASSUME TypeOK, NEW p \in Providers, Release(p)
    PROVE  /\ txActive' \in [Providers -> BOOLEAN]
           /\ txClient' \in [Providers -> Conns \cup {NoConn}]
           /\ \A q \in Providers : txClient'[q] \in {txClient[q], NoConn}
           /\ out' \subseteq Conns
           /\ \A q \in Providers : q # p =>
                 txActive'[q] = txActive[q] /\ txClient'[q] = txClient[q]
           /\ \A c \in Conns : c # txClient[p] => (c \in out' <=> c \in out)
           /\ txClient'[p] = NoConn
           /\ txClient[p] # NoConn => ~txActive'[p]
           /\ txClient[p] = NoConn => txActive'[p] = txActive[p]
BY DEF TypeOK, Release

\* A request that goes on to await the provider, and what it leaves as it is.
LEMMA GoesOn ==
    ASSUME TypeOK, NEW r \in Requests, NEW u \in Users, NEW p \in Providers,
           NEW op \in {"begin", "commit", "rollback", "query"},
           NEW pc \in {"connecting", "sent"}, NEW tx \in 0..MaxTx,
           Goes(r, u, p, op, pc, tx)
    PROVE  /\ req' \in [Requests -> Request]
           /\ \A s \in Requests : s # r => req'[s] = req[s]
           /\ req[r].pc = "off"
           /\ req'[r].pc = pc /\ req'[r].op = op /\ req'[r].user = u
           /\ req'[r].at = p /\ req'[r].tx = tx
           /\ req'[r].free = (op # "begin" /\ LiveOwner(p) = NoUser)
           /\ UNCHANGED <<opener, trespass, misled>> /\ Reconcile(p)
           /\ ~Refused(u, p)
<1> DEFINE new == [pc |-> pc, op |-> op, user |-> u, at |-> p, tx |-> tx,
                   free |-> op # "begin" /\ LiveOwner(p) = NoUser]
<1>1. new \in Request
  <2>1. (op # "begin" /\ LiveOwner(p) = NoUser) \in BOOLEAN
    OBVIOUS
  <2> QED BY <2>1 DEF Request
<1>2. /\ req' = [req EXCEPT ![r] = new] /\ req[r].pc = "off"
      /\ UNCHANGED <<opener, trespass, misled>> /\ Reconcile(p)
      /\ ~Refused(u, p)
  BY DEF Goes
<1>3. /\ new.pc = pc /\ new.op = op /\ new.user = u
      /\ new.at = p /\ new.tx = tx
      /\ new.free = (op # "begin" /\ LiveOwner(p) = NoUser)
  OBVIOUS
<1> HIDE DEF new
<1> QED BY <1>1, <1>2, <1>3 DEF TypeOK

\* The record a reading leaves.
LEMMA Reconciled ==
    ASSUME TypeOK, NEW p \in Providers, Reconcile(p)
    PROVE  /\ owner' \in Users \cup {NoUser} /\ lapsed' \in BOOLEAN
           /\ shadowed' \in BOOLEAN
BY DEF TypeOK, Reconcile, LiveOwner

LEMMA TimerCleared ==
    ASSUME TypeOK, NEW p \in Providers, ClearTxTimeout(p)
    PROVE  /\ txTimeout' \in [Providers -> 0..MaxTx]
           /\ armed' \subseteq Providers \X (1..MaxTx)
           /\ \A q \in Providers : q # p => txTimeout'[q] = txTimeout[q]
           /\ \A q \in Providers : q # p => TimersOf(q)' = TimersOf(q)
           /\ TimersOf(p) \subseteq {<<p, txTimeout[p]>>} => TimersOf(p)' = {}
<1>1. MaxTx \in Nat
  BY LeaseAssumption
<1> QED BY <1>1 DEF TypeOK, ClearTxTimeout, TimersOf

LEMMA TimerSet ==
    ASSUME TypeOK, NEW p \in Providers, NEW t \in 1..MaxTx, SetTxTimeout(p, t)
    PROVE  /\ txTimeout' \in [Providers -> 0..MaxTx]
           /\ armed' \subseteq Providers \X (1..MaxTx)
           /\ txTimeout'[p] = t
           /\ \A q \in Providers : q # p => txTimeout'[q] = txTimeout[q]
           /\ \A q \in Providers : q # p => TimersOf(q)' = TimersOf(q)
           /\ TimersOf(p) = {} => TimersOf(p)' = {<<p, t>>}
<1>1. MaxTx \in Nat
  BY LeaseAssumption
<1> QED BY <1>1 DEF TypeOK, SetTxTimeout, TimersOf

LEMMA TypesStay ==
    ASSUME TypeOK, Waits, [Next]_vars
    PROVE  TypeOK'
<1> USE DEF TypeOK, PoolOf
<1>1. MaxTx \in Nat /\ begun \in Nat
  BY LeaseAssumption
<1>2. ASSUME NEW r \in Requests, NEW u \in Users, NEW p \in Providers,
             Post(r, u, p)
      PROVE  TypeOK'
  <2>1. CASE \E op \in Ops : AnsweredAtOnce(r, u, p, op)
    BY <2>1, Reconciled DEF AnsweredAtOnce, provider, fields, database
  <2>2. ASSUME NEW op \in Ops, End(r, u, p, op) PROVE TypeOK'
    <3>1. /\ op \in {"begin", "commit", "rollback", "query"}
          /\ Goes(r, u, p, op, "sent", 0) /\ op # "begin"
      BY <2>2 DEF End
    <3>2. txClient[p] \in Conns
      BY <2>2 DEF End, InTransaction
    <3>3. 0 \in 0..MaxTx
      BY <1>1
    <3>4. /\ req' \in [Requests -> Request]
          /\ \A s \in Requests : s # r => req'[s] = req[s]
          /\ req'[r].at = p /\ req'[r].user = u /\ req'[r].pc = "sent"
          /\ req'[r].op # "begin"
      BY <3>1, <3>3, GoesOn
    <3>5. queue' \in [Conns -> Waiting]
      BY <2>2, <3>2, Sends DEF End
    <3>6. /\ txTimeout' \in [Providers -> 0..MaxTx]
          /\ armed' \subseteq Providers \X (1..MaxTx)
      BY <2>2, TimerCleared DEF End
    <3>7. /\ owner' \in Users \cup {NoUser} /\ lapsed' \in BOOLEAN
          /\ shadowed' \in BOOLEAN
      BY <3>1, Reconciled DEF Goes
    <3> QED BY <2>2, <3>1, <3>4, <3>5, <3>6, <3>7 DEF End, Goes
  <2>3. CASE Begin(r, u, p)
    <3>1. Goes(r, u, p, "begin", "connecting", begun + 1)
      BY <2>3 DEF Begin
    <3>2. begun + 1 \in 0..MaxTx /\ begun + 1 \in 1..MaxTx
      BY <1>1, <2>3 DEF Begin
    <3>4. /\ req' \in [Requests -> Request]
          /\ \A s \in Requests : s # r => req'[s] = req[s]
          /\ req'[r].at = p /\ req'[r].user = u /\ req'[r].op = "begin"
          /\ req'[r].tx = begun + 1
      BY <3>1, <3>2, GoesOn
    <3>7. /\ owner' \in Users \cup {NoUser} /\ lapsed' \in BOOLEAN
          /\ shadowed' \in BOOLEAN
      BY <3>1, Reconciled DEF Goes
    <3>8. raced' \subseteq Providers
      BY <2>3 DEF Begin
    <3> QED BY <2>3, <3>2, <3>4, <3>7, <3>8
            DEF Begin, Goes, provider, fields, database
  <2>4. CASE Query(r, u, p)
    <3>1. Goes(r, u, p, "query", "sent", 0)
      BY <2>4 DEF Query
    <3>2. txClient[p] \in Conns
      BY <2>4 DEF Query, InTransaction
    <3>3. 0 \in 0..MaxTx
      BY <1>1
    <3>4. /\ req' \in [Requests -> Request]
          /\ \A s \in Requests : s # r => req'[s] = req[s]
          /\ req'[r].at = p /\ req'[r].user = u /\ req'[r].pc = "sent"
          /\ req'[r].op # "begin"
      BY <3>1, <3>3, GoesOn
    <3>5. queue' \in [Conns -> Waiting]
      BY <2>4, <3>2, Sends DEF Query
    <3>7. /\ owner' \in Users \cup {NoUser} /\ lapsed' \in BOOLEAN
          /\ shadowed' \in BOOLEAN
      BY <3>1, Reconciled DEF Goes
    <3> QED BY <2>4, <3>1, <3>4, <3>5, <3>7
            DEF Query, Goes, provider, fields
  <2> QED BY <1>2, <2>1, <2>2, <2>3, <2>4 DEF Post
<1>3. ASSUME NEW r \in Requests, Connected(r) PROVE TypeOK'
  <2>1. PICK c \in PoolOf(req[r].at) \ out :
           /\ out' = out \cup {c}
           /\ txClient' = [txClient EXCEPT ![req[r].at] = c]
           /\ Send(r, c)
    BY <1>3 DEF Connected
  <2>2. c \in Conns
    BY DEF PoolOf
  <2>3. queue' \in [Conns -> Waiting]
    BY <2>1, <2>2, Sends
  <2>4. [req[r] EXCEPT !.pc = "sent"] \in Request
    BY DEF Request
  <2>5. req' = [req EXCEPT ![r] = [req[r] EXCEPT !.pc = "sent"]]
    BY <1>3 DEF Connected
  <2>6. /\ req' \in [Requests -> Request]
        /\ \A s \in Requests : s # r => req'[s] = req[s]
    BY <2>4, <2>5
  <2>7. /\ req'[r].pc = "sent" /\ req'[r].at = req[r].at
        /\ req'[r].user = req[r].user /\ req[r].pc # "off"
        /\ req'[r].op = req[r].op /\ req'[r].tx = req[r].tx
    BY <1>3, <2>5 DEF Connected
  <2> QED BY <1>3, <2>1, <2>2, <2>3, <2>6, <2>7
          DEF Connected, record, history
<1>4. ASSUME NEW r \in Requests, ConnectFails(r) PROVE TypeOK'
  BY <1>4, Leaves
  DEF ConnectFails, provider, fields, record, database, history
<1>5. ASSUME NEW c \in Conns, Answered(c) PROVE TypeOK'
  <2>1. c[1] \in Providers
    BY OfAPool
  <2>2. queue[c] # <<>> /\ Answer(c)
    BY <1>5 DEF Answered, BeginAnswered, BeginFails, QueryAnswered,
                EndAnswered, ExpiryAnswered
  <2>3. queue' \in [Conns -> Waiting]
    BY <2>2, Answers
  <2> DEFINE r == Head(queue[c])
  <2>4. CASE BeginAnswered(c)
    <3>1. /\ r \in Requests /\ req[r].op = "begin"
          /\ open' = [open EXCEPT ![c] = IF @ = 0 THEN req[r].tx ELSE @]
          /\ opener' = [opener EXCEPT ![c] =
                          IF open[c] = 0 THEN req[r].user ELSE @]
          /\ txActive' = [txActive EXCEPT ![c[1]] = TRUE]
          /\ SetTxTimeout(c[1], req[r].tx)
          /\ owner' = req[r].user /\ lapsed' = FALSE
          /\ shadowed' = (shadowed \/ OthersRecord(c[1]))
          /\ Leave(r)
      BY <2>4 DEF BeginAnswered
    <3>2. req[r].pc = "sent"
      BY <2>2, <3>1, NextToAnswer DEF Sent
    <3> HIDE DEF r
    <3>3. req[r].tx \in 1..MaxTx /\ req[r].user \in Users \cup {NoUser}
      BY <3>1, <3>2
    <3>6. /\ txTimeout' \in [Providers -> 0..MaxTx]
          /\ armed' \subseteq Providers \X (1..MaxTx)
      BY <2>1, <3>1, <3>3, TimerSet
    <3>7. open' \in [Conns -> 0..MaxTx]
      <4>1. req[r].tx \in 0..MaxTx
        BY <1>1, <3>3
      <4> QED BY <3>1, <4>1
    <3>8. opener' \in [Conns -> Users \cup {NoUser}]
      BY <3>1, <3>3
    <3>9. /\ req' \in [Requests -> Request]
          /\ \A s \in Requests : s # r => req'[s] = req[s]
          /\ req'[r].pc = "off"
      BY <3>1, Leaves
    <3> QED BY <2>1, <2>3, <2>4, <3>1, <3>3, <3>6, <3>7, <3>8, <3>9
            DEF BeginAnswered
  <2>5. CASE BeginFails(c)
    <3>1. r \in Requests /\ Leave(r)
      BY <2>5 DEF BeginFails
    <3> HIDE DEF r
    <3>2. /\ req' \in [Requests -> Request]
          /\ \A s \in Requests : s # r => req'[s] = req[s]
          /\ req'[r].pc = "off"
      BY <3>1, Leaves
    <3> QED BY <2>3, <2>5, <3>2
            DEF BeginFails, provider, fields, record, history
  <2>6. CASE QueryAnswered(c)
    <3>1. /\ r \in Requests /\ Leave(r)
          /\ trespass' = (trespass \/ Trespasses(r, c))
      BY <2>6 DEF QueryAnswered
    <3> HIDE DEF r
    <3>2. /\ req' \in [Requests -> Request]
          /\ \A s \in Requests : s # r => req'[s] = req[s]
          /\ req'[r].pc = "off"
      BY <3>1, Leaves
    <3>3. lapsed' \in BOOLEAN /\ broken' \subseteq Conns
      BY <2>6 DEF QueryAnswered, QuerySucceeds, QueryFails
    <3> QED BY <2>3, <2>6, <3>1, <3>2, <3>3
            DEF QueryAnswered, provider, fields
  <2>7. CASE EndAnswered(c)
    <3>1. /\ r \in Requests /\ Leave(r)
          /\ trespass' = (trespass \/ Trespasses(r, c))
      BY <2>7 DEF EndAnswered
    <3>2. /\ misled' \subseteq {"ended", "aborted"} /\ shadowed' \in BOOLEAN
          /\ owner' \in Users \cup {NoUser} /\ lapsed' \in BOOLEAN
      BY <2>7 DEF EndAnswered, Told, record
    <3> HIDE DEF r
    <3>3. /\ req' \in [Requests -> Request]
          /\ \A s \in Requests : s # r => req'[s] = req[s]
          /\ req'[r].pc = "off"
      BY <3>1, Leaves
    <3>4. /\ Ends(c) /\ Release(c[1])
          /\ UNCHANGED <<txTimeout, armed, ending, begun, raced>>
      BY <2>7 DEF EndAnswered
    <3>5. /\ open' \in [Conns -> 0..MaxTx] /\ broken' \subseteq Conns
          /\ opener' \in [Conns -> Users \cup {NoUser}]
      BY <1>1, <3>4 DEF Ends
    <3>6. /\ txActive' \in [Providers -> BOOLEAN]
          /\ txClient' \in [Providers -> Conns \cup {NoConn}]
          /\ \A q \in Providers : txClient'[q] \in {txClient[q], NoConn}
          /\ out' \subseteq Conns
      BY <2>1, <3>4, Releases
    <3> QED BY <2>3, <3>1, <3>2, <3>3, <3>4, <3>5, <3>6
  <2>8. CASE ExpiryAnswered(c)
    <3>4. /\ Ends(c) /\ Release(c[1])
          /\ UNCHANGED <<ending, record, req, begun, raced, trespass, shadowed,
                         misled>>
      BY <2>8 DEF ExpiryAnswered
    <3>5. /\ open' \in [Conns -> 0..MaxTx] /\ broken' \subseteq Conns
          /\ opener' \in [Conns -> Users \cup {NoUser}]
      BY <1>1, <3>4 DEF Ends
    <3>6. /\ txActive' \in [Providers -> BOOLEAN]
          /\ txClient' \in [Providers -> Conns \cup {NoConn}]
          /\ \A q \in Providers : txClient'[q] \in {txClient[q], NoConn}
          /\ out' \subseteq Conns
      BY <2>1, <3>4, Releases
    <3>7. /\ txTimeout' \in [Providers -> 0..MaxTx]
          /\ armed' \subseteq Providers \X (1..MaxTx)
      <4>1. CASE txClient[c[1]] = NoConn
        BY <2>8, <4>1 DEF ExpiryAnswered
      <4>2. CASE txClient[c[1]] # NoConn
        BY <2>1, <2>8, <4>2, TimerCleared DEF ExpiryAnswered
      <4> QED BY <4>1, <4>2
    <3> QED BY <2>3, <3>4, <3>5, <3>6, <3>7 DEF record
  <2> QED BY <1>5, <2>4, <2>5, <2>6, <2>7, <2>8 DEF Answered
<1>6. ASSUME NEW p \in Providers, NEW t \in 1..MaxTx, TimerFires(p, t)
      PROVE  TypeOK'
  <2>1. CASE InTransaction(p)
    <3>1. txClient[p] \in Conns /\ Send(Expiry, txClient[p])
      BY <1>6, <2>1 DEF InTransaction, TimerFires
    <3>2. queue' \in [Conns -> Waiting]
      BY <3>1, Sends
    <3> QED BY <1>6, <3>2 DEF TimerFires, fields, record, history
  <2>2. CASE ~InTransaction(p)
    BY <1>6, <2>2 DEF TimerFires, fields, record, history
  <2> QED BY <2>1, <2>2
<1>7. CASE LeaseLapses
  BY <1>7 DEF LeaseLapses, provider, fields, database, history
<1>8. ASSUME NEW p \in Providers, Disconnect(p) \/ Disconnected(p)
      PROVE  TypeOK'
  <2>1. CASE Disconnect(p)
    BY <2>1 DEF Disconnect, fields, record, database, history
  <2>2. CASE Disconnected(p)
    <3>1. /\ txActive' = [txActive EXCEPT ![p] = FALSE]
          /\ txClient' = [txClient EXCEPT ![p] = NoConn]
          /\ txTimeout' = [txTimeout EXCEPT ![p] = 0]
          /\ armed' \subseteq armed
          /\ open' = [c \in Conns |-> IF c[1] = p THEN 0 ELSE open[c]]
          /\ opener' = [c \in Conns |-> IF c[1] = p THEN NoUser ELSE opener[c]]
          /\ broken' \subseteq broken
          /\ UNCHANGED <<record, out, queue, req, begun, raced, trespass,
                         shadowed, misled>>
      BY <2>2 DEF Disconnected
    <3>2. 0 \in 0..MaxTx
      BY <1>1
    <3>3. /\ open' \in [Conns -> 0..MaxTx]
          /\ opener' \in [Conns -> Users \cup {NoUser}]
      BY <3>1, <3>2
    <3> QED BY <3>1, <3>2, <3>3 DEF record
  <2> QED BY <1>8, <2>1, <2>2
<1>9. CASE UNCHANGED vars
  BY <1>9 DEF vars, provider, fields, record, database, history
<1> QED BY <1>2, <1>3, <1>4, <1>5, <1>6, <1>7, <1>8, <1>9 DEF Next

-----------------------------------------------------------------------------
(* What a step makes of the queues.                                        *)

\* Where a queue stays as it is, and those who wait in it.
QueueStays(c) ==
    /\ queue'[c] = queue[c]
    /\ \A i \in 1..Len(queue[c]) :
          queue[c][i] # Expiry => req'[queue[c][i]] = req[queue[c][i]]

LEMMA StayedQueue ==
    ASSUME NEW c \in Conns, QueueStays(c)
    PROVE  /\ EndOnTheWay(c)' <=> EndOnTheWay(c)
           /\ ExpiryFirst(c) => ExpiryFirst(c)'
           /\ txClient'[c[1]] = txClient[c[1]] /\ BeginLast(c) => BeginLast(c)'
<1>1. \A i \in 1..Len(queue[c]) : Ending(queue[c][i])' <=> Ending(queue[c][i])
  BY DEF QueueStays, Ending
<1>2. EndOnTheWay(c)' <=> EndOnTheWay(c)
  BY <1>1 DEF QueueStays, EndOnTheWay
<1>3. ASSUME ExpiryFirst(c) PROVE ExpiryFirst(c)'
  <2>1. ASSUME NEW i \in 1..Len(queue[c]), queue[c][i] = Expiry,
               NEW j \in 1..(i-1)
        PROVE  ~Ending(queue[c][j])'
    <3>1. Len(queue[c]) \in Nat => j \in 1..Len(queue[c])
      OBVIOUS
    <3>2. ~Ending(queue[c][j])
      BY <1>3, <2>1 DEF ExpiryFirst
    <3>3. CASE j \in 1..Len(queue[c])
      BY <1>1, <3>2, <3>3
    <3>4. CASE j \notin 1..Len(queue[c])
      BY <2>1, <3>4
    <3> QED BY <3>3, <3>4
  <2> QED BY <2>1 DEF ExpiryFirst, QueueStays
<1>4. txClient'[c[1]] = txClient[c[1]] /\ BeginLast(c) => BeginLast(c)'
  BY DEF BeginLast, QueueStays
<1> QED BY <1>2, <1>3, <1>4

\* A queue is left alone by a step that changes a request which is elsewhere.
LEMMA QueueLeft ==
    ASSUME TypeOK, NEW c \in Conns, NEW r,
           queue'[c] = queue[c],
           \A i \in 1..Len(queue[c]) : queue[c][i] # r,
           \A s \in Requests : s # r => req'[s] = req[s]
    PROVE  QueueStays(c)
BY Queued DEF QueueStays

\* Whoever joins, the others are where they were.
LEMMA AppendView ==
    ASSUME TypeOK, Waits, NEW c \in Conns,
           NEW who \in Requests \cup {Expiry}, Send(who, c),
           who # Expiry => req[who].pc # "sent",
           \A s \in Requests : s # who => req'[s] = req[s]
    PROVE  /\ \A d \in Conns : d # c => QueueStays(d)
           /\ Len(queue'[c]) = Len(queue[c]) + 1
           /\ queue'[c][Len(queue[c]) + 1] = who
           /\ \A i \in 1..Len(queue[c]) :
                 /\ queue'[c][i] = queue[c][i]
                 /\ Ending(queue[c][i])' <=> Ending(queue[c][i])
                 /\ queue[c][i] # Expiry =>
                       req'[queue[c][i]] = req[queue[c][i]]
           /\ EndOnTheWay(c)' <=> (EndOnTheWay(c) \/ Ending(who)')
<1>1. /\ \A d \in Conns : d # c => queue'[d] = queue[d]
      /\ Len(queue'[c]) = Len(queue[c]) + 1
      /\ \A i \in 1..Len(queue[c]) : queue'[c][i] = queue[c][i]
      /\ queue'[c][Len(queue[c]) + 1] = who
  BY Sends
<1>2. \A d \in Conns : /\ Len(queue[d]) \in Nat
                       /\ \A i \in 1..Len(queue[d]) :
                             queue[d][i] \in Requests \cup {Expiry}
  BY Queued
<1>3. ASSUME NEW d \in Conns, NEW i \in 1..Len(queue[d]),
             queue[d][i] # Expiry
      PROVE  req'[queue[d][i]] = req[queue[d][i]]
  <2>1. PICK s \in Requests : queue[d][i] = s
    BY <1>2, <1>3
  <2>2. req[s].pc = "sent"
    BY <2>1, Placed DEF Sent
  <2>3. s # who
    BY <1>3, <2>1, <2>2
  <2> QED BY <2>1, <2>3
<1>4. \A d \in Conns : d # c => QueueStays(d)
  BY <1>1, <1>3 DEF QueueStays
<1>6. \A i \in 1..Len(queue[c]) : Ending(queue[c][i])' <=> Ending(queue[c][i])
  BY <1>1, <1>3 DEF Ending
<1>7. EndOnTheWay(c)' <=> (EndOnTheWay(c) \/ Ending(who)')
  <2> DEFINE n == Len(queue[c])
             E(x) == x = Expiry \/ req'[x].op \in {"commit", "rollback"}
  <2>1. EndOnTheWay(c)' <=> \E i \in 1..(n + 1) : E(queue'[c][i])
    BY <1>1 DEF EndOnTheWay, Ending
  <2>2. E(queue'[c][n + 1]) <=> Ending(who)'
    BY <1>1 DEF Ending
  <2>3. \A i \in 1..n : E(queue'[c][i]) <=> Ending(queue[c][i])
    BY <1>1, <1>3 DEF Ending
  <2>4. n \in Nat
    BY <1>2
  <2>5. EndOnTheWay(c) <=> \E i \in 1..n : Ending(queue[c][i])
    BY DEF EndOnTheWay
  <2> HIDE DEF n, E
  <2>6. \A i \in 1..(n + 1) : i \in 1..n \/ i = n + 1
    BY <2>4
  <2>7. n + 1 \in 1..(n + 1) /\ \A i \in 1..n : i \in 1..(n + 1)
    BY <2>4
  <2> QED BY <2>1, <2>2, <2>3, <2>5, <2>6, <2>7
<1> QED BY <1>1, <1>3, <1>4, <1>6, <1>7

\* Whoever is answered, the others move up.
LEMMA AnswerView ==
    ASSUME TypeOK, Waits, NEW c \in Conns, queue[c] # <<>>, Answer(c),
           \A s \in Requests : s # Head(queue[c]) => req'[s] = req[s],
           Head(queue[c]) = Expiry => req' = req
    PROVE  /\ \A d \in Conns : d # c => QueueStays(d)
           /\ Len(queue[c]) >= 1 /\ Len(queue'[c]) = Len(queue[c]) - 1
           /\ \A i \in 1..Len(queue'[c]) :
                 /\ i + 1 \in 1..Len(queue[c])
                 /\ queue'[c][i] = queue[c][i + 1]
                 /\ queue'[c][i] # Expiry =>
                       req'[queue'[c][i]] = req[queue'[c][i]]
           /\ EndOnTheWay(c)' => EndOnTheWay(c)
           /\ EndOnTheWay(c) /\ ~Ending(queue[c][1]) => EndOnTheWay(c)'
           /\ ExpiryFirst(c) => ExpiryFirst(c)'
           /\ txClient'[c[1]] = txClient[c[1]] /\ BeginLast(c) => BeginLast(c)'
<1>1. /\ \A d \in Conns : d # c => queue'[d] = queue[d]
      /\ Len(queue'[c]) = Len(queue[c]) - 1
      /\ \A i \in 1..Len(queue'[c]) : queue'[c][i] = queue[c][i + 1]
  BY Answers
<1>2. \A d \in Conns : /\ Len(queue[d]) \in Nat
                       /\ \A i \in 1..Len(queue[d]) :
                             queue[d][i] \in Requests \cup {Expiry}
  BY Queued
<1>3. Len(queue[c]) >= 1 /\ Head(queue[c]) = queue[c][1] /\ 1 \in 1..Len(queue[c])
  BY <1>2, Queued
<1>4. ASSUME NEW d \in Conns, NEW i \in 1..Len(queue[d]),
             queue[d][i] # Expiry, d # c \/ i # 1
      PROVE  req'[queue[d][i]] = req[queue[d][i]]
  <2>1. PICK s \in Requests : queue[d][i] = s
    BY <1>2, <1>4
  <2>2. s # Head(queue[c])
    <3>1. SUFFICES ASSUME s = queue[c][1] PROVE FALSE
      BY <1>3
    <3>2. queue[d][i] \in Requests /\ queue[d][i] = queue[c][1]
      BY <2>1, <3>1
    <3>3. d = c /\ i = 1
      BY <1>3, <3>2, OnePlace
    <3> QED BY <1>4, <3>3
  <2> QED BY <2>1, <2>2
<1>5. \A d \in Conns : d # c => QueueStays(d)
  BY <1>1, <1>4 DEF QueueStays
<1>6. ASSUME NEW i \in 1..Len(queue'[c])
      PROVE  /\ i + 1 \in 1..Len(queue[c]) /\ i + 1 # 1
             /\ queue'[c][i] = queue[c][i + 1]
             /\ queue'[c][i] # Expiry =>
                   req'[queue'[c][i]] = req[queue'[c][i]]
  <2>1. i + 1 \in 1..Len(queue[c]) /\ i + 1 # 1
    BY <1>1, <1>2, <1>3
  <2> QED BY <1>1, <1>4, <2>1
<1> DEFINE n == Len(queue[c])
           E(x) == x = Expiry \/ req'[x].op \in {"commit", "rollback"}
<1>7. \A i \in 1..(n-1) : E(queue'[c][i]) <=> Ending(queue[c][i + 1])
  BY <1>1, <1>6 DEF Ending
<1>8. EndOnTheWay(c)' <=> \E i \in 1..(n-1) : E(queue'[c][i])
  BY <1>1 DEF EndOnTheWay, Ending
<1>9. EndOnTheWay(c) <=> \E i \in 1..n : Ending(queue[c][i])
  BY DEF EndOnTheWay
<1>10. n \in Nat /\ n >= 1
  BY <1>2, <1>3
<1>11. EndOnTheWay(c)' => EndOnTheWay(c)
  <2>1. \A i \in 1..(n-1) : i + 1 \in 1..n
    BY <1>10
  <2> HIDE DEF n, E
  <2> QED BY <1>7, <1>8, <1>9, <2>1
<1>12. EndOnTheWay(c) /\ ~Ending(queue[c][1]) => EndOnTheWay(c)'
  <2> HIDE DEF n, E
  <2> SUFFICES ASSUME NEW i \in 1..n, Ending(queue[c][i]), ~Ending(queue[c][1])
               PROVE  \E k \in 1..(n-1) : E(queue'[c][k])
    BY <1>8, <1>9
  <2>1. i # 1
    OBVIOUS
  <2>2. i - 1 \in 1..(n-1) /\ (i - 1) + 1 = i
    BY <1>10, <2>1
  <2> QED BY <1>7, <2>2
<1>13. ASSUME ExpiryFirst(c) PROVE ExpiryFirst(c)'
  <2>1. ASSUME NEW i \in 1..(n-1), queue'[c][i] = Expiry, NEW j \in 1..(i-1)
        PROVE  ~E(queue'[c][j])
    <3>1. i + 1 \in 1..n /\ j + 1 \in 1..((i + 1) - 1) /\ j \in 1..(n-1)
      BY <1>10
    <3>2. queue[c][i + 1] = Expiry
      BY <1>1, <2>1
    <3>3. ~Ending(queue[c][j + 1])
      BY <1>13, <3>1, <3>2 DEF ExpiryFirst
    <3> HIDE DEF n, E
    <3> QED BY <1>7, <3>1, <3>3
  <2> QED BY <1>1, <2>1 DEF ExpiryFirst, Ending
<1>14. ASSUME txClient'[c[1]] = txClient[c[1]], BeginLast(c)
       PROVE  BeginLast(c)'
  <2>1. ASSUME NEW i \in 1..Len(queue'[c]), queue'[c][i] # Expiry,
               req'[queue'[c][i]].op = "begin"
        PROVE  i = Len(queue'[c]) /\ txClient'[c[1]] = c
    <3>1. /\ i + 1 \in 1..Len(queue[c]) /\ queue'[c][i] = queue[c][i + 1]
          /\ req'[queue'[c][i]] = req[queue'[c][i]]
      BY <1>6, <2>1
    <3>2. i + 1 = Len(queue[c]) /\ txClient[c[1]] = c
      BY <1>14, <2>1, <3>1 DEF BeginLast
    <3> QED BY <1>1, <1>10, <1>14, <3>2
  <2> QED BY <2>1 DEF BeginLast
<1> HIDE DEF n, E
<1> QED BY <1>1, <1>3, <1>5, <1>6, <1>11, <1>12, <1>13, <1>14

-----------------------------------------------------------------------------
(* A step over one provider, and the others.                               *)

LEMMA Untouched ==
    ASSUME NEW q \in Providers, ProviderOK(q),
           txActive'[q] = txActive[q], txClient'[q] = txClient[q],
           txTimeout'[q] = txTimeout[q], TimersOf(q)' = TimersOf(q),
           \A c \in PoolOf(q) : QueueStays(c) /\ open'[c] = open[c],
           \A r \in Requests :
              UnderWay(r, q) \/ UnderWay(r, q)' => req'[r] = req[r]
    PROVE  ProviderOK(q)'
<1>1. \A c \in PoolOf(q) : c \in Conns /\ c[1] = q /\ queue'[c] = queue[c]
  BY DEF PoolOf, QueueStays
<1>2. \A c \in PoolOf(q) : EndOnTheWay(c)' <=> EndOnTheWay(c)
  BY <1>1, StayedQueue
<1>3. ASSUME NEW c \in PoolOf(q) PROVE ExpiryFirst(c)' /\ BeginLast(c)'
  <2>1. ExpiryFirst(c) /\ BeginLast(c) /\ txClient'[c[1]] = txClient[c[1]]
    BY <1>1 DEF ProviderOK
  <2> QED BY <1>1, <2>1, StayedQueue
<1>4. BeginsAlone(q)'
  BY DEF ProviderOK, BeginsAlone, UnderWay
<1>5. ASSUME txActive[q] PROVE InUse(q)'
  <2>1. InUse(q)
    BY <1>5 DEF ProviderOK
  <2>2. \A r \in Requests : UnderWay(r, q)' => req'[r].op # "begin"
    BY <2>1 DEF InUse, UnderWay
  <2>3. \A d \in PoolOf(q) \ {txClient[q]} : open'[d] = 0 /\ ~EndOnTheWay(d)'
    BY <1>2, <2>1 DEF InUse
  <2>4. /\ txClient[q] \in PoolOf(q) /\ open'[txClient[q]] # 0
        /\ open'[txClient[q]] = open[txClient[q]]
        /\ EndOnTheWay(txClient[q])' <=> EndOnTheWay(txClient[q])
    BY <1>2, <2>1 DEF InUse
  <2>5. IF EndOnTheWay(txClient[q])
        THEN TimersOf(q)' = {}
        ELSE /\ TimersOf(q)' = {<<q, open'[txClient[q]]>>}
             /\ txTimeout'[q] = open'[txClient[q]]
    BY <2>1, <2>4 DEF InUse
  <2> QED BY <2>2, <2>3, <2>4, <2>5 DEF InUse, PoolOf, EndOnTheWay
<1>6. ASSUME ~txActive[q] PROVE Resting(q)'
  <2>1. Resting(q)
    BY <1>6 DEF ProviderOK
  <2> QED BY <1>1, <2>1 DEF Resting, UnderWay, PoolOf
<1> QED BY <1>3, <1>4, <1>5, <1>6 DEF ProviderOK, PoolOf

\* The step is about one provider, and nothing of another's changes.
StepAt(p) ==
    /\ \A q \in Providers \ {p} :
          /\ txActive'[q] = txActive[q] /\ txClient'[q] = txClient[q]
          /\ txTimeout'[q] = txTimeout[q] /\ TimersOf(q)' = TimersOf(q)
    /\ \A c \in Conns : c[1] # p => QueueStays(c) /\ open'[c] = open[c]
    /\ \A r \in Requests :
          \/ req'[r] = req[r]
          \/ /\ req[r].pc = "off" \/ req[r].at = p
             /\ req'[r].pc = "off" \/ req'[r].at = p

\* So it is enough to look at that provider.
LEMMA OthersStay ==
    ASSUME ProvidersOK, NEW p \in Providers, StepAt(p), raced \subseteq raced',
           p \notin raced' => ProviderOK(p)'
    PROVE  ProvidersOK'
<1> SUFFICES ASSUME NEW q \in Providers \ raced, q # p PROVE ProviderOK(q)'
  BY DEF ProvidersOK
<1>1. ProviderOK(q)
  BY DEF ProvidersOK
<1>2. /\ txActive'[q] = txActive[q] /\ txClient'[q] = txClient[q]
      /\ txTimeout'[q] = txTimeout[q] /\ TimersOf(q)' = TimersOf(q)
  BY DEF StepAt
<1>3. \A c \in PoolOf(q) : QueueStays(c) /\ open'[c] = open[c]
  BY DEF StepAt, PoolOf
<1>4. \A r \in Requests :
         UnderWay(r, q) \/ UnderWay(r, q)' => req'[r] = req[r]
  BY DEF StepAt, UnderWay
<1> QED BY <1>1, <1>2, <1>3, <1>4, Untouched

\* A provider nothing happens to but that a request is not under way any more.
LEMMA FewerUnderWay ==
    ASSUME NEW p \in Providers, BeginsAlone(p), NEW r \in Requests,
           \A s \in Requests : s # r => req'[s] = req[s],
           req'[r].pc = "off"
    PROVE  /\ BeginsAlone(p)'
           /\ \A s \in Requests : UnderWay(s, p)' => UnderWay(s, p) /\ req'[s] = req[s]
BY DEF BeginsAlone, UnderWay

\* The client of a transaction.
LEMMA TheClient ==
    ASSUME NEW p \in Providers, ProviderOK(p), txActive[p]
    PROVE  /\ txClient[p] \in Conns /\ txClient[p] \in PoolOf(p)
           /\ txClient[p][1] = p /\ txClient[p] # NoConn
BY LeaseAssumption DEF ProviderOK, InUse, PoolOf

\* A command meant to end a transaction meets it on its client, or finds the
\* provider without one.
LEMMA EndMeets ==
    ASSUME TypeOK, Waits, NEW c \in Conns, ProviderOK(c[1]),
           NEW i \in 1..Len(queue[c]), Ending(queue[c][i])
    PROVE  IF txActive[c[1]]
           THEN txClient[c[1]] = c /\ open[c] # 0
           ELSE /\ queue[c][i] # Expiry
                /\ txClient[c[1]] = NoConn /\ open[c] = 0
<1> DEFINE p == c[1]
<1>1. p \in Providers /\ c \in PoolOf(p)
  BY OfAPool
<1>2. EndOnTheWay(c)
  BY DEF EndOnTheWay
<1>3. CASE txActive[p]
  BY <1>1, <1>2, <1>3 DEF ProviderOK, InUse
<1>4. CASE ~txActive[p]
  <2>1. Resting(p)
    BY <1>4 DEF ProviderOK
  <2>2. queue[c][i] # Expiry /\ open[c] = 0
    BY <1>1, <2>1 DEF Resting
  <2>3. PICK r \in Requests : queue[c][i] = r
    BY <2>2, Queued
  <2>4. UnderWay(r, p)
    BY <2>3, Placed DEF Sent, UnderWay
  <2>5. req[r].op \in {"commit", "rollback"}
    BY <2>2, <2>3 DEF Ending
  <2>6. txClient[p] = NoConn
    BY <2>1, <2>4, <2>5 DEF Resting
  <2> QED BY <1>4, <2>2, <2>6
<1> QED BY <1>3, <1>4

-----------------------------------------------------------------------------
(* Each step keeps the requests in their places and the providers in order.*)

LEMMA QuietSteps ==
    ASSUME Waits, ProvidersOK, UNCHANGED <<fields, armed, queue, open, req, raced>>
    PROVE  Waits' /\ ProvidersOK'
<1>1. Waits'
  BY DEF Waits, Sent
<1>2. ProvidersOK'
  BY DEF ProvidersOK, ProviderOK, BeginsAlone, UnderWay, ExpiryFirst,
         BeginLast, InUse, Resting, EndOnTheWay, Ending, TimersOf, PoolOf, fields
<1> QED BY <1>1, <1>2

\* Who is not in a queue changes none.
LEMMA AllQueuesLeft ==
    ASSUME TypeOK, Waits, NEW r \in Requests, req[r].pc # "sent", queue' = queue,
           \A s \in Requests : s # r => req'[s] = req[s]
    PROVE  \A c \in Conns : QueueStays(c)
<1> SUFFICES ASSUME NEW c \in Conns PROVE QueueStays(c)
  OBVIOUS
<1>1. \A i \in 1..Len(queue[c]) : queue[c][i] # r
  BY Placed DEF Sent
<1> QED BY <1>1, QueueLeft

LEMMA BeginKeeps ==
    ASSUME Kept, NEW r \in Requests, NEW u \in Users, NEW p \in Providers,
           Begin(r, u, p)
    PROVE  Waits' /\ ProvidersOK'
<1>1. TypeOK /\ Waits /\ ProvidersOK
  BY DEF Kept
<1>2. /\ ~txActive[p] /\ begun < MaxTx
      /\ raced' = IF Unsettled(p) THEN raced \cup {p} ELSE raced
      /\ Goes(r, u, p, "begin", "connecting", begun + 1)
      /\ UNCHANGED <<fields, armed, queue, open>>
  BY DEF Begin, provider, database
<1>3. begun + 1 \in 0..MaxTx
  BY <1>1, <1>2, LeaseAssumption DEF TypeOK
<1>4. /\ \A s \in Requests : s # r => req'[s] = req[s]
      /\ req[r].pc = "off" /\ req'[r].pc = "connecting"
      /\ req'[r].op = "begin" /\ req'[r].at = p
  BY <1>1, <1>2, <1>3, GoesOn
<1>5. Waits'
  BY <1>1, <1>2, <1>4, ElsewhereWaiting
<1>6. \A c \in Conns : QueueStays(c)
  BY <1>1, <1>2, <1>4, AllQueuesLeft
<1>7. StepAt(p)
  BY <1>2, <1>4, <1>6 DEF StepAt, fields, TimersOf
<1>8. ASSUME p \notin raced' PROVE ProviderOK(p)'
  <2>1. ~Unsettled(p) /\ p \notin raced
    BY <1>2, <1>8
  <2>2. ProviderOK(p) /\ Resting(p)
    BY <1>1, <1>2, <2>1 DEF ProvidersOK, ProviderOK
  <2>3. BeginsAlone(p)'
    BY <1>4, <2>1 DEF BeginsAlone, UnderWay, Unsettled
  <2>4. \A c \in PoolOf(p) : ExpiryFirst(c)' /\ BeginLast(c)'
    <3> SUFFICES ASSUME NEW c \in PoolOf(p) PROVE ExpiryFirst(c)' /\ BeginLast(c)'
      OBVIOUS
    <3>1. /\ c \in Conns /\ QueueStays(c) /\ ExpiryFirst(c) /\ BeginLast(c)
          /\ txClient'[c[1]] = txClient[c[1]]
      BY <1>2, <1>6, <2>2 DEF PoolOf, ProviderOK, fields
    <3> QED BY <3>1, StayedQueue
  <2>5. Resting(p)'
    BY <1>2, <1>4, <2>2 DEF Resting, UnderWay, PoolOf, TimersOf, fields
  <2> QED BY <1>2, <2>3, <2>4, <2>5 DEF ProviderOK, PoolOf, fields
<1>9. raced \subseteq raced'
  BY <1>2
<1> QED BY <1>1, <1>5, <1>7, <1>8, <1>9, OthersStay

\* A command joins the queue of the client in transaction.
LEMMA CommandKeeps ==
    ASSUME Kept, NEW r \in Requests, NEW p \in Providers, InTransaction(p),
           NEW op \in {"commit", "rollback", "query"},
           Send(r, txClient[p]),
           \A s \in Requests : s # r => req'[s] = req[s],
           req[r].pc = "off", req'[r].pc = "sent", req'[r].op = op,
           req'[r].at = p,
           UNCHANGED <<txActive, txClient, open, raced>>,
           IF op = "query" THEN UNCHANGED <<armed, txTimeout>>
                           ELSE ClearTxTimeout(p)
    PROVE  Waits' /\ ProvidersOK'
<1>1. TypeOK /\ Waits /\ ProvidersOK
  BY DEF Kept
<1>2. PICK c \in Conns : c = txClient[p]
  BY <1>1 DEF TypeOK, InTransaction
<1>3. c \in PoolOf(p) /\ c[1] = p
  BY <1>1, <1>2 DEF TypeOK, InTransaction, PoolOf
<1>4. Send(r, c)
  BY <1>2
<1>5. Waits'
  BY <1>1, <1>3, <1>4, JoinsWaiting DEF Sent
<1>6. /\ \A d \in Conns : d # c => QueueStays(d)
      /\ Len(queue'[c]) = Len(queue[c]) + 1
      /\ queue'[c][Len(queue[c]) + 1] = r
      /\ \A i \in 1..Len(queue[c]) :
            /\ queue'[c][i] = queue[c][i]
            /\ Ending(queue[c][i])' <=> Ending(queue[c][i])
            /\ queue[c][i] # Expiry => req'[queue[c][i]] = req[queue[c][i]]
      /\ EndOnTheWay(c)' <=> (EndOnTheWay(c) \/ Ending(r)')
  BY <1>1, <1>4, AppendView
<1>7. /\ \A q \in Providers \ {p} :
            txTimeout'[q] = txTimeout[q] /\ TimersOf(q)' = TimersOf(q)
      /\ IF op = "query"
         THEN txTimeout'[p] = txTimeout[p] /\ TimersOf(p)' = TimersOf(p)
         ELSE TimersOf(p) \subseteq {<<p, txTimeout[p]>>} => TimersOf(p)' = {}
  <2>1. CASE op = "query"
    BY <2>1 DEF TimersOf
  <2>2. CASE op # "query"
    BY <1>1, <2>2, TimerCleared
  <2> QED BY <2>1, <2>2
<1>8. StepAt(p)
  BY <1>3, <1>6, <1>7 DEF StepAt
<1>9. ASSUME p \notin raced' PROVE ProviderOK(p)'
  <2>1. ProviderOK(p) /\ txActive[p] /\ InUse(p)
    BY <1>1, <1>9 DEF ProvidersOK, ProviderOK, InTransaction
  <2>2. /\ open[c] # 0
        /\ \A d \in PoolOf(p) \ {c} : open[d] = 0 /\ ~EndOnTheWay(d)
        /\ \A s \in Requests : UnderWay(s, p) => req[s].op # "begin"
        /\ IF EndOnTheWay(c)
           THEN TimersOf(p) = {}
           ELSE TimersOf(p) = {<<p, open[c]>>} /\ txTimeout[p] = open[c]
    BY <1>2, <2>1 DEF InUse
  <2>3. \A s \in Requests : UnderWay(s, p)' => req'[s].op # "begin"
    BY <2>2 DEF UnderWay
  <2>4. BeginsAlone(p)'
    BY <2>3 DEF BeginsAlone
  <2>5. ASSUME NEW d \in PoolOf(p), d # c
        PROVE  /\ ExpiryFirst(d)' /\ BeginLast(d)'
               /\ open'[d] = 0 /\ ~EndOnTheWay(d)'
    <3>1. /\ d \in Conns /\ QueueStays(d) /\ ExpiryFirst(d) /\ BeginLast(d)
          /\ txClient'[d[1]] = txClient[d[1]]
      BY <1>6, <2>1, <2>5 DEF PoolOf, ProviderOK
    <3>2. open'[d] = 0 /\ ~EndOnTheWay(d)
      BY <2>2, <2>5
    <3> QED BY <3>1, <3>2, StayedQueue
  <2>6. ExpiryFirst(c)'
    <3>1. r # Expiry
      BY LeaseAssumption
    <3>2. Len(queue[c]) \in Nat
      BY <1>1, Queued
    <3>3. ASSUME NEW i \in 1..Len(queue'[c]), queue'[c][i] = Expiry,
                 NEW j \in 1..(i-1)
          PROVE  j \in 1..Len(queue[c]) /\ ~Ending(queue[c][j])
      <4>1. i \in 1..Len(queue[c]) /\ queue[c][i] = Expiry
        BY <1>6, <3>1, <3>2, <3>3
      <4>2. ExpiryFirst(c)
        BY <1>3, <2>1 DEF ProviderOK
      <4> QED BY <3>2, <4>1, <4>2 DEF ExpiryFirst
    <3>4. ASSUME NEW i \in 1..Len(queue'[c]), queue'[c][i] = Expiry,
                 NEW j \in 1..(i-1)
          PROVE  /\ queue'[c][j] # Expiry
                 /\ req'[queue'[c][j]].op \notin {"commit", "rollback"}
      <4>1. j \in 1..Len(queue[c]) /\ ~Ending(queue[c][j])
        BY <3>3, <3>4
      <4> QED BY <1>6, <4>1 DEF Ending
    <3> QED BY <3>4 DEF ExpiryFirst, Ending
  <2>7. BeginLast(c)'
    <3>1. ASSUME NEW i \in 1..Len(queue'[c]), queue'[c][i] # Expiry
          PROVE  req'[queue'[c][i]].op # "begin"
      <4>1. queue'[c][i] \in Requests
        <5>1. queue' \in [Conns -> Waiting]
          BY <1>1, <1>4, Sends
        <5> QED BY <3>1, <5>1 DEF Waiting
      <4>2. PICK s \in Requests : queue'[c][i] = s
        BY <4>1
      <4>3. req'[s].pc = "sent" /\ req'[s].at = p
        BY <1>3, <1>5, <4>2 DEF Waits, Sent
      <4>4. req'[s].op # "begin"
        BY <2>3, <4>3 DEF UnderWay
      <4> QED BY <4>2, <4>4
    <3> QED BY <3>1 DEF BeginLast
  <2>8. IF EndOnTheWay(c)'
        THEN TimersOf(p)' = {}
        ELSE TimersOf(p)' = {<<p, open[c]>>} /\ txTimeout'[p] = open[c]
    <3>1. r # Expiry
      BY LeaseAssumption
    <3>2. Ending(r)' <=> op # "query"
      BY <3>1 DEF Ending
    <3> QED BY <1>6, <1>7, <2>2, <3>2
  <2>9. InUse(p)'
    BY <1>2, <1>3, <2>2, <2>3, <2>5, <2>8 DEF InUse, PoolOf, EndOnTheWay
  <2> QED BY <2>1, <2>4, <2>5, <2>6, <2>7, <2>9 DEF ProviderOK, PoolOf
<1> QED BY <1>1, <1>5, <1>8, <1>9, OthersStay

LEMMA EndKeeps ==
    ASSUME Kept, NEW r \in Requests, NEW u \in Users, NEW p \in Providers,
           NEW op \in Ops, End(r, u, p, op)
    PROVE  Waits' /\ ProvidersOK'
<1>1. /\ op \in {"commit", "rollback"} /\ InTransaction(p)
      /\ Goes(r, u, p, op, "sent", 0)
      /\ ClearTxTimeout(p) /\ Send(r, txClient[p])
      /\ UNCHANGED <<txActive, txClient, open, raced>>
  BY DEF End
<1>2. TypeOK /\ 0 \in 0..MaxTx
  BY LeaseAssumption DEF Kept
<1>3. /\ \A s \in Requests : s # r => req'[s] = req[s]
      /\ req[r].pc = "off" /\ req'[r].pc = "sent" /\ req'[r].op = op
      /\ req'[r].at = p
  BY <1>1, <1>2, GoesOn
<1>4. op \in {"commit", "rollback", "query"} /\ op # "query"
  BY <1>1
<1> HIDE DEF InTransaction, ClearTxTimeout, Send
<1> QED BY <1>1, <1>3, <1>4, CommandKeeps

LEMMA QueryKeeps ==
    ASSUME Kept, NEW r \in Requests, NEW u \in Users, NEW p \in Providers,
           Query(r, u, p)
    PROVE  Waits' /\ ProvidersOK'
<1>1. /\ InTransaction(p) /\ Goes(r, u, p, "query", "sent", 0)
      /\ Send(r, txClient[p])
      /\ UNCHANGED <<txActive, txClient, open, raced>>
      /\ UNCHANGED <<armed, txTimeout>>
  BY DEF Query, provider, fields
<1>2. TypeOK /\ 0 \in 0..MaxTx
  BY LeaseAssumption DEF Kept
<1>3. /\ \A s \in Requests : s # r => req'[s] = req[s]
      /\ req[r].pc = "off" /\ req'[r].pc = "sent" /\ req'[r].op = "query"
      /\ req'[r].at = p
  BY <1>1, <1>2, GoesOn
<1>4. "query" \in {"commit", "rollback", "query"}
  OBVIOUS
<1> QED BY <1>1, <1>3, <1>4, CommandKeeps


\* Whoever is answered is under way no more, and nobody else changes.
LEMMA HeadAnswered ==
    ASSUME TypeOK, Waits, NEW c \in Conns, queue[c] # <<>>, Answer(c),
           Head(queue[c]) = Expiry => req' = req,
           Head(queue[c]) # Expiry => Leave(Head(queue[c]))
    PROVE  /\ Waits'
           /\ Head(queue[c]) = queue[c][1] /\ 1 \in 1..Len(queue[c])
           /\ \A s \in Requests : s # Head(queue[c]) => req'[s] = req[s]
           /\ \A s \in Requests :
                 \/ req'[s] = req[s]
                 \/ UnderWay(s, c[1]) /\ req'[s].pc = "off"
           /\ BeginsAlone(c[1]) => BeginsAlone(c[1])'
<1>1. /\ Len(queue[c]) \in Nat /\ Len(queue[c]) >= 1
      /\ Head(queue[c]) = queue[c][1]
  BY Queued
<1>2. 1 \in 1..Len(queue[c]) /\ queue[c][1] \in Requests \cup {Expiry}
  BY <1>1, Queued
<1>3. CASE Head(queue[c]) = Expiry
  <2>1. Waits'
    BY <1>3, LeavesWaiting
  <2> QED BY <1>1, <1>2, <1>3, <2>1 DEF BeginsAlone, UnderWay
<1>4. CASE Head(queue[c]) # Expiry
  <2>1. PICK r \in Requests : r = Head(queue[c])
    BY <1>1, <1>2, <1>4
  <2>2. Leave(r)
    BY <1>4, <2>1
  <2>3. (\A s \in Requests : s # r => req'[s] = req[s]) /\ req'[r].pc = "off"
    BY <2>2, Leaves
  <2>4. UnderWay(r, c[1])
    BY <2>1, NextToAnswer
  <2>5. Waits'
    BY <2>1, <2>3, LeavesWaiting
  <2>6. \A s \in Requests :
           req'[s] = req[s] \/ (UnderWay(s, c[1]) /\ req'[s].pc = "off")
    BY <2>3, <2>4
  <2>7. BeginsAlone(c[1]) => BeginsAlone(c[1])'
    BY <2>3 DEF BeginsAlone, UnderWay
  <2> QED BY <1>1, <1>2, <2>1, <2>3, <2>5, <2>6, <2>7
<1> QED BY <1>3, <1>4

\* Nothing happens at a provider but that a command is answered which neither
\* begins nor ends anything.
LEMMA OnlyAnswered ==
    ASSUME Kept, NEW c \in Conns, queue[c] # <<>>, Answer(c),
           Head(queue[c]) # Expiry, Leave(Head(queue[c])),
           c[1] \notin raced /\ txActive[c[1]] => ~Ending(Head(queue[c])),
           UNCHANGED <<fields, armed, open, raced>>
    PROVE  Waits' /\ ProvidersOK'
<1> DEFINE p == c[1]
<1>1. TypeOK /\ Waits /\ ProvidersOK /\ p \in Providers /\ c \in PoolOf(p)
  BY OfAPool DEF Kept
<1>2. /\ Waits' /\ Head(queue[c]) = queue[c][1]
      /\ \A s \in Requests : s # Head(queue[c]) => req'[s] = req[s]
      /\ \A s \in Requests :
            req'[s] = req[s] \/ (UnderWay(s, p) /\ req'[s].pc = "off")
      /\ BeginsAlone(p) => BeginsAlone(p)'
  BY <1>1, HeadAnswered
<1>3. /\ \A d \in Conns : d # c => QueueStays(d)
      /\ \A i \in 1..Len(queue'[c]) :
            i + 1 \in 1..Len(queue[c]) /\ queue'[c][i] = queue[c][i + 1]
      /\ EndOnTheWay(c)' => EndOnTheWay(c)
      /\ EndOnTheWay(c) /\ ~Ending(queue[c][1]) => EndOnTheWay(c)'
      /\ ExpiryFirst(c) => ExpiryFirst(c)'
      /\ txClient'[p] = txClient[p] /\ BeginLast(c) => BeginLast(c)'
  BY <1>1, <1>2, AnswerView
<1>4. StepAt(p)
  <2>1. \A d \in Conns : d[1] # p => d # c
    OBVIOUS
  <2> QED BY <1>2, <1>3, <2>1 DEF StepAt, UnderWay, fields, TimersOf
<1>5. ASSUME p \notin raced' PROVE ProviderOK(p)'
  <2>1. ProviderOK(p) /\ TimersOf(p)' = TimersOf(p)
    BY <1>1, <1>5 DEF ProvidersOK, TimersOf
  <2>2. \A s \in Requests : UnderWay(s, p)' => UnderWay(s, p) /\ req'[s] = req[s]
    BY <1>2 DEF UnderWay
  <2>3. ASSUME NEW d \in PoolOf(p)
        PROVE  ExpiryFirst(d)' /\ BeginLast(d)' /\ (EndOnTheWay(d)' => EndOnTheWay(d))
    <3>1. /\ d \in Conns /\ ExpiryFirst(d) /\ BeginLast(d) /\ d[1] = p
          /\ txClient'[d[1]] = txClient[d[1]]
      BY <2>1 DEF PoolOf, ProviderOK, fields
    <3>2. CASE d = c
      BY <1>3, <3>1, <3>2
    <3>3. CASE d # c
      BY <1>3, <3>1, <3>3, StayedQueue
    <3> QED BY <3>2, <3>3
  <2>4. ASSUME txActive[p] PROVE InUse(p)'
    <3>1. ~Ending(queue[c][1])
      <4>1. ~Ending(Head(queue[c]))
        BY <1>5, <2>4
      <4>2. Head(queue[c]) = queue[c][1]
        BY <1>2
      <4> QED BY <4>1, <4>2
    <3>2. PICK b \in Conns : b = txClient[p] /\ b \in PoolOf(p) /\ b[1] = p
      BY <1>1, <2>1, <2>4, TheClient
    <3>3. /\ open[b] # 0
          /\ \A d \in PoolOf(p) \ {b} : open[d] = 0 /\ ~EndOnTheWay(d)
          /\ \A s \in Requests : UnderWay(s, p) => req[s].op # "begin"
          /\ IF EndOnTheWay(b)
             THEN TimersOf(p) = {}
             ELSE TimersOf(p) = {<<p, open[b]>>} /\ txTimeout[p] = open[b]
      BY <2>1, <2>4, <3>2 DEF ProviderOK, InUse
    <3>4. EndOnTheWay(b)' <=> EndOnTheWay(b)
      <4>1. CASE b = c
        BY <1>3, <3>1, <4>1
      <4>2. CASE b # c
        BY <1>3, <4>2, StayedQueue
      <4> QED BY <4>1, <4>2
    <3>5. \A s \in Requests : UnderWay(s, p)' => req'[s].op # "begin"
      BY <2>2, <3>3
    <3>6. \A d \in PoolOf(p) \ {b} : open'[d] = 0 /\ ~EndOnTheWay(d)'
      BY <2>3, <3>3
    <3>7. /\ txClient'[p] = b /\ open'[b] # 0
          /\ IF EndOnTheWay(b)'
             THEN TimersOf(p)' = {}
             ELSE TimersOf(p)' = {<<p, open'[b]>>} /\ txTimeout'[p] = open'[b]
      BY <2>1, <3>2, <3>3, <3>4 DEF fields
    <3> QED BY <3>2, <3>5, <3>6, <3>7 DEF InUse, PoolOf, EndOnTheWay
  <2>5. ASSUME ~txActive[p] PROVE Resting(p)'
    <3>1. Resting(p)
      BY <2>1, <2>5 DEF ProviderOK
    <3>2. ASSUME NEW d \in PoolOf(p)
          PROVE  \A i \in 1..Len(queue'[d]) : queue'[d][i] # Expiry
      <4>1. d \in Conns /\ \A i \in 1..Len(queue[d]) : queue[d][i] # Expiry
        BY <3>1 DEF Resting, PoolOf
      <4>2. CASE d = c
        BY <1>3, <4>1, <4>2
      <4>3. CASE d # c
        <5>1. QueueStays(d)
          BY <1>3, <4>1, <4>3
        <5> QED BY <4>1, <5>1 DEF QueueStays
      <4> QED BY <4>2, <4>3
    <3>3. \A d \in PoolOf(p) : open'[d] = 0
      BY <3>1 DEF Resting
    <3>4. \A s \in Requests : UnderWay(s, p)' /\ req'[s].op \in {"commit", "rollback"}
             => txClient'[p] = NoConn
      BY <2>2, <3>1 DEF Resting, fields
    <3> QED BY <2>1, <3>1, <3>2, <3>3, <3>4 DEF Resting, PoolOf
  <2>6. BeginsAlone(p)'
    BY <1>2, <2>1 DEF ProviderOK
  <2>7. txActive'[p] = txActive[p]
    BY DEF fields
  <2> QED BY <2>3, <2>4, <2>5, <2>6, <2>7 DEF ProviderOK, PoolOf
<1> QED BY <1>1, <1>2, <1>4, <1>5, OthersStay

LEMMA BeginFailsKeeps ==
    ASSUME Kept, NEW c \in Conns, BeginFails(c)
    PROVE  Waits' /\ ProvidersOK'
<1>1. /\ queue[c] # <<>> /\ Answer(c)
      /\ Head(queue[c]) \in Requests /\ req[Head(queue[c])].op = "begin"
      /\ Leave(Head(queue[c])) /\ UNCHANGED <<fields, armed, open, raced>>
  BY DEF BeginFails, provider, history
<1>2. Head(queue[c]) # Expiry
  BY <1>1, LeaseAssumption
<1>3. ~Ending(Head(queue[c]))
  BY <1>1, <1>2 DEF Ending
<1> QED BY <1>1, <1>2, <1>3, OnlyAnswered

LEMMA QueryAnsweredKeeps ==
    ASSUME Kept, NEW c \in Conns, QueryAnswered(c)
    PROVE  Waits' /\ ProvidersOK'
<1>1. /\ queue[c] # <<>> /\ Answer(c)
      /\ Head(queue[c]) \in Requests /\ req[Head(queue[c])].op = "query"
      /\ Leave(Head(queue[c])) /\ UNCHANGED <<fields, armed, open, raced>>
  BY DEF QueryAnswered, provider
<1>2. Head(queue[c]) # Expiry
  BY <1>1, LeaseAssumption
<1>3. ~Ending(Head(queue[c]))
  BY <1>1, <1>2 DEF Ending
<1> QED BY <1>1, <1>2, <1>3, OnlyAnswered

LEMMA ConnectFailsKeeps ==
    ASSUME Kept, NEW r \in Requests, ConnectFails(r)
    PROVE  Waits' /\ ProvidersOK'
<1>1. TypeOK /\ Waits /\ ProvidersOK
  BY DEF Kept
<1>2. /\ req[r].pc = "connecting" /\ Leave(r)
      /\ UNCHANGED <<fields, armed, queue, open, raced>>
  BY DEF ConnectFails, provider, database, history
<1>3. (\A s \in Requests : s # r => req'[s] = req[s]) /\ req'[r].pc = "off"
  BY <1>1, <1>2, Leaves
<1>4. Waits'
  BY <1>1, <1>2, <1>3, ElsewhereWaiting
<1>5. \A c \in Conns : QueueStays(c)
  BY <1>1, <1>2, <1>3, AllQueuesLeft
<1>6. PICK p \in Providers : req[r].at = p
  BY <1>1, <1>2 DEF TypeOK
<1>7. StepAt(p)
  BY <1>2, <1>3, <1>5, <1>6 DEF StepAt, fields, TimersOf
<1>8. ASSUME p \notin raced' PROVE ProviderOK(p)'
  <2>1. ProviderOK(p) /\ UnderWay(r, p) /\ req[r].op = "begin"
    BY <1>1, <1>2, <1>6, <1>8 DEF ProvidersOK, UnderWay, TypeOK
  <2>2. Resting(p) /\ ~txActive[p]
    BY <2>1 DEF ProviderOK, InUse
  <2>3. Resting(p)'
    BY <1>2, <1>3, <2>2 DEF Resting, UnderWay, PoolOf, TimersOf, fields
  <2>4. BeginsAlone(p)'
    BY <1>3, <2>1, FewerUnderWay DEF ProviderOK
  <2>5. ASSUME NEW c \in PoolOf(p) PROVE ExpiryFirst(c)' /\ BeginLast(c)'
    <3>1. /\ c \in Conns /\ QueueStays(c) /\ ExpiryFirst(c) /\ BeginLast(c)
          /\ txClient'[c[1]] = txClient[c[1]]
      BY <1>2, <1>5, <2>1 DEF PoolOf, ProviderOK, fields
    <3> QED BY <3>1, StayedQueue
  <2> QED BY <1>2, <2>2, <2>3, <2>4, <2>5 DEF ProviderOK, PoolOf, fields
<1> QED BY <1>1, <1>2, <1>4, <1>7, <1>8, OthersStay

\* The only request that begins or ends anything gets a client for its BEGIN.
LEMMA ConnectedKeeps ==
    ASSUME Kept, NEW r \in Requests, Connected(r)
    PROVE  Waits' /\ ProvidersOK'
<1>1. TypeOK /\ Waits /\ ProvidersOK
  BY DEF Kept
<1>2. PICK p \in Providers : req[r].at = p
  BY <1>1 DEF Connected, TypeOK
<1>3. PICK c \in PoolOf(p) \ out :
         txClient' = [txClient EXCEPT ![p] = c] /\ Send(r, c)
  BY <1>2 DEF Connected
<1>4. /\ req[r].pc = "connecting" /\ req' = [req EXCEPT ![r].pc = "sent"]
      /\ UNCHANGED <<txActive, txTimeout, armed, open, raced>>
  BY DEF Connected, history
<1>5. c \in Conns /\ c[1] = p
  BY DEF PoolOf
<1>6. /\ \A s \in Requests : s # r => req'[s] = req[s]
      /\ req'[r].pc = "sent" /\ req'[r].at = p /\ req'[r].op = "begin"
      /\ req[r].op = "begin"
  BY <1>1, <1>2, <1>4 DEF TypeOK, Request
<1>7. Waits'
  BY <1>1, <1>3, <1>4, <1>5, <1>6, JoinsWaiting DEF Sent
<1>8. /\ \A d \in Conns : d # c => QueueStays(d)
      /\ Len(queue'[c]) = Len(queue[c]) + 1
      /\ queue'[c][Len(queue[c]) + 1] = r
      /\ \A i \in 1..Len(queue[c]) :
            /\ queue'[c][i] = queue[c][i]
            /\ Ending(queue[c][i])' <=> Ending(queue[c][i])
            /\ queue[c][i] # Expiry => req'[queue[c][i]] = req[queue[c][i]]
  BY <1>1, <1>3, <1>4, <1>5, <1>6, AppendView
<1>9. StepAt(p)
  <2>1. \A q \in Providers \ {p} : txClient'[q] = txClient[q]
    BY <1>1, <1>3 DEF TypeOK
  <2>2. \A d \in Conns : d[1] # p => d # c
    BY <1>5
  <2> QED BY <1>2, <1>4, <1>6, <1>8, <2>1, <2>2 DEF StepAt, TimersOf
<1>10. ASSUME p \notin raced' PROVE ProviderOK(p)'
  <2>1. ProviderOK(p) /\ UnderWay(r, p) /\ BeginsAlone(p)
    BY <1>1, <1>2, <1>4, <1>10 DEF ProvidersOK, ProviderOK, UnderWay
  <2>2. Resting(p) /\ ~txActive[p]
    BY <1>6, <2>1 DEF ProviderOK, InUse
  <2>3. \A s \in Requests : UnderWay(s, p) /\ s # r => req[s].op = "query" \/
           req[s].op \notin {"begin", "commit", "rollback"}
    BY <1>6, <2>1 DEF BeginsAlone
  <2>4. BeginsAlone(p)'
    BY <1>6, <2>3 DEF BeginsAlone, UnderWay
  <2>5. Len(queue[c]) \in Nat /\ r # Expiry
    BY <1>1, <1>5, Queued, LeaseAssumption
  <2>6. ASSUME NEW d \in PoolOf(p)
        PROVE  \A i \in 1..Len(queue'[d]) :
                  queue'[d][i] # Expiry /\ (queue'[d][i] \in Requests)
    <3>0. d \in Conns /\ \A i \in 1..Len(queue[d]) : queue[d][i] # Expiry
      BY <2>2 DEF Resting, PoolOf
    <3>1. \A i \in 1..Len(queue[d]) : queue[d][i] \in Requests
      BY <1>1, <3>0, Queued
    <3>2. CASE d = c
      <4>1. \A i \in 1..Len(queue'[c]) :
               i \in 1..Len(queue[c]) \/ i = Len(queue[c]) + 1
        BY <1>8, <2>5
      <4>2. \A i \in 1..Len(queue[c]) :
               queue'[c][i] # Expiry /\ queue'[c][i] \in Requests
        BY <1>8, <3>0, <3>1, <3>2
      <4>3. queue'[c][Len(queue[c]) + 1] = r
        BY <1>8
      <4> QED BY <2>5, <3>2, <4>1, <4>2, <4>3
    <3>3. CASE d # c
      BY <1>8, <3>0, <3>1, <3>3 DEF QueueStays
    <3> QED BY <3>2, <3>3
  <2>7. Resting(p)'
    <3>1. \A s \in Requests : ~(UnderWay(s, p)' /\ req'[s].op \in {"commit", "rollback"})
      BY <1>6, <2>3 DEF UnderWay
    <3>2. TimersOf(p)' = {} /\ \A d \in PoolOf(p) : open'[d] = 0
      BY <1>4, <2>2 DEF Resting, TimersOf
    <3> QED BY <2>6, <3>1, <3>2 DEF Resting, PoolOf
  <2>8. \A d \in PoolOf(p) : ExpiryFirst(d)'
    BY <2>6 DEF ExpiryFirst
  <2>9. ASSUME NEW d \in PoolOf(p), NEW i \in 1..Len(queue'[d]),
               req'[queue'[d][i]].op = "begin"
        PROVE  i = Len(queue'[d]) /\ txClient'[d[1]] = d
    <3>1. PICK s \in Requests : queue'[d][i] = s
      BY <2>6
    <3>2. d \in Conns /\ d[1] = p
      BY DEF PoolOf
    <3>3. req'[s].pc = "sent" /\ req'[s].at = p
      BY <1>7, <3>1, <3>2 DEF Waits, Sent
    <3>4. s = r
      BY <1>6, <2>3, <2>9, <3>1, <3>3 DEF UnderWay
    <3>5. PICK k \in 1..Len(queue'[c]) : k = Len(queue[c]) + 1 /\ queue'[c][k] = r
      BY <1>8, <2>5
    <3>6. queue'[d][i] \in Requests /\ queue'[d][i] = queue'[c][k]
      BY <3>1, <3>4, <3>5
    <3>7. d = c /\ i = k
      BY <1>5, <1>7, <3>2, <3>6 DEF Waits
    <3>8. txClient'[p] = c
      BY <1>1, <1>3 DEF TypeOK
    <3> QED BY <1>8, <3>2, <3>5, <3>7, <3>8
  <2>10. \A d \in PoolOf(p) : BeginLast(d)'
    BY <2>9 DEF BeginLast
  <2> QED BY <1>4, <2>2, <2>4, <2>7, <2>8, <2>10 DEF ProviderOK, PoolOf
<1> QED BY <1>1, <1>4, <1>7, <1>9, <1>10, OthersStay

\* BEGIN is the last command on its client: its transaction is open, with a
\* timer, and nothing is about to end it.
LEMMA BeginAnsweredKeeps ==
    ASSUME Kept, NEW c \in Conns, BeginAnswered(c)
    PROVE  /\ Waits' /\ ProvidersOK'
           /\ c[1] \notin raced =>
                 Len(queue'[c]) = 0 /\ open[c] = 0 /\ txClient[c[1]] = c
<1>1. TypeOK /\ Waits /\ ProvidersOK
  BY DEF Kept
<1>2. PICK p \in Providers : p = c[1] /\ c \in PoolOf(p)
  BY OfAPool
<1>3. PICK r \in Requests : r = Head(queue[c])
  BY DEF BeginAnswered
<1>4. /\ queue[c] # <<>> /\ Answer(c) /\ Leave(r) /\ req[r].op = "begin"
      /\ open' = [open EXCEPT ![c] = IF @ = 0 THEN req[r].tx ELSE @]
      /\ txActive' = [txActive EXCEPT ![p] = TRUE]
      /\ SetTxTimeout(p, req[r].tx)
      /\ UNCHANGED <<txClient, raced>>
  BY <1>2, <1>3 DEF BeginAnswered
<1>5. r # Expiry
  BY LeaseAssumption
<1>6. /\ Waits' /\ Head(queue[c]) = queue[c][1] /\ 1 \in 1..Len(queue[c])
      /\ \A s \in Requests : s # r => req'[s] = req[s]
      /\ \A s \in Requests :
            req'[s] = req[s] \/ (UnderWay(s, p) /\ req'[s].pc = "off")
      /\ BeginsAlone(p) => BeginsAlone(p)'
  BY <1>1, <1>2, <1>3, <1>4, <1>5, HeadAnswered
<1>7. UnderWay(r, p) /\ req[r].tx \in 1..MaxTx
  <2>1. UnderWay(r, p)
    BY <1>1, <1>2, <1>3, <1>4, NextToAnswer
  <2> QED BY <1>1, <1>4, <2>1 DEF TypeOK, UnderWay
<1>8. /\ \A d \in Conns : d # c => QueueStays(d)
      /\ Len(queue'[c]) = Len(queue[c]) - 1
      /\ \A i \in 1..Len(queue'[c]) :
            i + 1 \in 1..Len(queue[c]) /\ queue'[c][i] = queue[c][i + 1]
      /\ ExpiryFirst(c) => ExpiryFirst(c)'
      /\ txClient'[c[1]] = txClient[c[1]] /\ BeginLast(c) => BeginLast(c)'
  BY <1>1, <1>3, <1>4, <1>5, <1>6, AnswerView
<1>9. /\ txTimeout'[p] = req[r].tx
      /\ \A q \in Providers : q # p => txTimeout'[q] = txTimeout[q]
      /\ \A q \in Providers : q # p => TimersOf(q)' = TimersOf(q)
      /\ TimersOf(p) = {} => TimersOf(p)' = {<<p, req[r].tx>>}
  BY <1>1, <1>4, <1>7, TimerSet
<1>10. StepAt(p)
  <2>1. \A q \in Providers \ {p} : txActive'[q] = txActive[q] /\ txClient'[q] = txClient[q]
    BY <1>1, <1>4 DEF TypeOK
  <2>2. \A d \in Conns : d[1] # p => d # c /\ open'[d] = open[d]
    BY <1>1, <1>2, <1>4 DEF TypeOK
  <2> QED BY <1>6, <1>8, <1>9, <2>1, <2>2 DEF StepAt, UnderWay
<1>11. ASSUME p \notin raced'
       PROVE  /\ ProviderOK(p)'
              /\ Len(queue'[c]) = 0 /\ open[c] = 0 /\ txClient[p] = c
  <2>1. ProviderOK(p) /\ BeginsAlone(p)
    BY <1>1, <1>4, <1>11 DEF ProvidersOK, ProviderOK
  <2>2. Resting(p)
    BY <1>4, <1>7, <2>1 DEF ProviderOK, InUse
  <2>3. /\ \A s \in Requests : UnderWay(s, p)' =>
              req'[s].op \notin {"begin", "commit", "rollback"}
    <3>1. req'[r].pc = "off"
      BY <1>1, <1>4, Leaves
    <3> QED BY <1>4, <1>6, <1>7, <2>1, <3>1 DEF BeginsAlone, UnderWay
  <2>4. 1 = Len(queue[c]) /\ txClient[p] = c
    BY <1>2, <1>3, <1>4, <1>5, <1>6, <2>1 DEF ProviderOK, BeginLast
  <2>5. Len(queue'[c]) = 0 /\ open[c] = 0
    BY <1>2, <1>8, <2>2, <2>4 DEF Resting
  <2>6. ASSUME NEW d \in PoolOf(p)
        PROVE  ExpiryFirst(d)' /\ BeginLast(d)' /\ ~EndOnTheWay(d)'
    <3>1. /\ d \in Conns /\ ExpiryFirst(d) /\ BeginLast(d) /\ d[1] = p
          /\ txClient'[d[1]] = txClient[d[1]]
      BY <1>4, <2>1 DEF PoolOf, ProviderOK
    <3>2. CASE d = c
      BY <1>8, <2>5, <3>1, <3>2 DEF EndOnTheWay
    <3>3. CASE d # c
      <4>1. QueueStays(d)
        BY <1>8, <3>1, <3>3
      <4>2. ASSUME NEW i \in 1..Len(queue[d]) PROVE ~Ending(queue[d][i])
        <5>1. queue[d][i] # Expiry
          BY <2>2 DEF Resting
        <5>2. PICK s \in Requests : queue[d][i] = s
          BY <1>1, <3>1, <5>1, Queued
        <5>3. UnderWay(s, p)
          BY <1>1, <3>1, <5>2, Placed DEF Sent, UnderWay
        <5>4. s # r
          <6>1. SUFFICES ASSUME queue[d][i] = queue[c][1] PROVE FALSE
            BY <1>3, <1>6, <5>2
          <6> QED BY <1>1, <1>6, <3>1, <3>3, <5>2, <6>1, OnePlace
        <5>5. req[s].op \notin {"commit", "rollback"}
          BY <1>4, <1>7, <2>1, <5>3, <5>4 DEF BeginsAlone
        <5> QED BY <5>1, <5>2, <5>5 DEF Ending
      <4>3. ~EndOnTheWay(d)
        BY <4>2 DEF EndOnTheWay
      <4> QED BY <3>1, <4>1, <4>3, StayedQueue
    <3> QED BY <3>2, <3>3
  <2>7. /\ open'[c] = req[r].tx
        /\ \A d \in PoolOf(p) \ {c} : open'[d] = 0
    BY <1>1, <1>4, <2>2, <2>5 DEF Resting, PoolOf, TypeOK
  <2>8. TimersOf(p)' = {<<p, open'[c]>>} /\ txTimeout'[p] = open'[c]
    BY <1>9, <2>2, <2>7 DEF Resting
  <2>9. /\ \A d \in PoolOf(p) : ~EndOnTheWay(d)'
        /\ \A s \in Requests : UnderWay(s, p)' => req'[s].op # "begin"
    BY <2>3, <2>6
  <2>10. open'[c] # 0 /\ txClient'[p] = c /\ txActive'[p]
    BY <1>1, <1>4, <1>7, <2>4, <2>7 DEF TypeOK
  <2>11. InUse(p)'
    BY <1>2, <2>7, <2>8, <2>9, <2>10 DEF InUse, PoolOf, EndOnTheWay
  <2>12. BeginsAlone(p)'
    BY <1>6, <2>1
  <2> QED BY <2>4, <2>5, <2>6, <2>10, <2>11, <2>12 DEF ProviderOK, PoolOf
<1>12. ProvidersOK'
  BY <1>1, <1>4, <1>10, <1>11, OthersStay
<1> QED BY <1>2, <1>4, <1>6, <1>11, <1>12

\* A commit, a rollback or an expiry leaves the provider at rest, or finds it
\* without a client.
LEMMA Ended ==
    ASSUME Kept, NEW c \in Conns, queue[c] # <<>>, Answer(c),
           Head(queue[c]) = Expiry => req' = req,
           Head(queue[c]) # Expiry => Leave(Head(queue[c])),
           Ending(Head(queue[c])),
           Ends(c), Release(c[1]), UNCHANGED raced,
           UNCHANGED <<armed, txTimeout>> \/ ClearTxTimeout(c[1])
    PROVE  Waits' /\ ProvidersOK'
<1>1. TypeOK /\ Waits /\ ProvidersOK
  BY DEF Kept
<1>2. PICK p \in Providers : p = c[1] /\ c \in PoolOf(p)
  BY OfAPool
<1>3. /\ Waits' /\ Head(queue[c]) = queue[c][1] /\ 1 \in 1..Len(queue[c])
      /\ \A s \in Requests : s # Head(queue[c]) => req'[s] = req[s]
      /\ \A s \in Requests :
            req'[s] = req[s] \/ (UnderWay(s, p) /\ req'[s].pc = "off")
      /\ BeginsAlone(p) => BeginsAlone(p)'
  BY <1>1, <1>2, HeadAnswered
<1>4. /\ \A d \in Conns : d # c => QueueStays(d)
      /\ \A i \in 1..Len(queue'[c]) :
            /\ i + 1 \in 1..Len(queue[c]) /\ queue'[c][i] = queue[c][i + 1]
            /\ queue'[c][i] # Expiry => req'[queue'[c][i]] = req[queue'[c][i]]
      /\ ExpiryFirst(c) => ExpiryFirst(c)'
  BY <1>1, <1>3, AnswerView
<1>5. /\ \A q \in Providers : q # p =>
            txActive'[q] = txActive[q] /\ txClient'[q] = txClient[q]
      /\ txClient'[p] = NoConn
      /\ txClient[p] # NoConn => ~txActive'[p]
      /\ txClient[p] = NoConn => txActive'[p] = txActive[p]
  BY <1>1, <1>2, Releases
<1>6. /\ \A q \in Providers : q # p =>
            txTimeout'[q] = txTimeout[q] /\ TimersOf(q)' = TimersOf(q)
      /\ TimersOf(p) = {} => TimersOf(p)' = {}
  <2>1. CASE UNCHANGED <<armed, txTimeout>>
    BY <2>1 DEF TimersOf
  <2>2. CASE ClearTxTimeout(p)
    BY <1>1, <2>2, TimerCleared
  <2> QED BY <1>2, <2>1, <2>2
<1>7. open'[c] = 0 /\ \A d \in Conns : d # c => open'[d] = open[d]
  BY <1>1 DEF Ends, TypeOK
<1>8. StepAt(p)
  <2>1. \A d \in Conns : d[1] # p => d # c
    BY <1>2
  <2> QED BY <1>3, <1>4, <1>5, <1>6, <1>7, <2>1 DEF StepAt, UnderWay
<1>9. ASSUME p \notin raced' PROVE ProviderOK(p)'
  <2>1. ProviderOK(p)
    BY <1>1, <1>9 DEF ProvidersOK
  <2>2. Ending(queue[c][1])
    BY <1>3
  <2>3. IF txActive[p]
        THEN txClient[p] = c /\ open[c] # 0
        ELSE /\ queue[c][1] # Expiry
             /\ txClient[p] = NoConn /\ open[c] = 0
    BY <1>1, <1>2, <1>3, <2>1, <2>2, EndMeets
  <2>4. EndOnTheWay(c)
    BY <1>3, <2>2 DEF EndOnTheWay
  <2>5. /\ TimersOf(p) = {} /\ \A d \in PoolOf(p) \ {c} : open[d] = 0
        /\ \A d \in PoolOf(p) \ {c} : \A i \in 1..Len(queue[d]) :
              queue[d][i] # Expiry
    <3>1. CASE txActive[p]
      BY <2>1, <2>3, <2>4, <3>1 DEF ProviderOK, InUse, EndOnTheWay, Ending
    <3>2. CASE ~txActive[p]
      BY <2>1, <3>2 DEF ProviderOK, Resting
    <3> QED BY <3>1, <3>2
  <2>6. ~txActive'[p]
    <3>1. c # NoConn
      BY LeaseAssumption
    <3> QED BY <1>5, <2>3, <3>1
  <2>7. \A i \in 1..Len(queue'[c]) : queue'[c][i] # Expiry
    <3> SUFFICES ASSUME NEW i \in 1..Len(queue'[c]), queue'[c][i] = Expiry
                 PROVE  FALSE
      OBVIOUS
    <3>1. i + 1 \in 1..Len(queue[c]) /\ queue[c][i + 1] = Expiry
      BY <1>4
    <3>2. ExpiryFirst(c) /\ 1 \in 1..((i + 1) - 1)
      BY <1>2, <2>1 DEF ProviderOK
    <3> QED BY <2>2, <3>1, <3>2 DEF ExpiryFirst
  <2>8. Resting(p)'
    <3>1. ASSUME NEW d \in PoolOf(p)
          PROVE  /\ open'[d] = 0
                 /\ \A i \in 1..Len(queue'[d]) : queue'[d][i] # Expiry
      <4>1. CASE d = c
        BY <1>7, <2>7, <4>1
      <4>2. CASE d # c
        <5>1. d \in Conns
          BY DEF PoolOf
        <5> QED BY <1>4, <1>7, <2>5, <4>2, <5>1 DEF QueueStays
      <4> QED BY <4>1, <4>2
    <3> QED BY <1>5, <1>6, <2>5, <3>1 DEF Resting, PoolOf
  <2>9. ASSUME NEW d \in PoolOf(p) PROVE ExpiryFirst(d)' /\ BeginLast(d)'
    <3>1. d \in Conns /\ ExpiryFirst(d) /\ BeginLast(d) /\ d[1] = p
      BY <2>1 DEF PoolOf, ProviderOK
    <3>2. ExpiryFirst(d)'
      BY <1>4, <3>1, StayedQueue
    <3>3. ASSUME NEW i \in 1..Len(queue'[d]), queue'[d][i] # Expiry,
                 req'[queue'[d][i]].op = "begin"
          PROVE  FALSE
      <4>1. PICK s \in Requests : queue'[d][i] = s
        <5>1. queue' \in [Conns -> Waiting]
          BY <1>1, Answers
        <5> QED BY <3>1, <3>3, <5>1 DEF Waiting
      <4>2. req'[s].pc = "sent" /\ req'[s].at = p
        BY <1>3, <3>1, <4>1 DEF Waits, Sent
      <4>3. UnderWay(s, p) /\ req[s].op = "begin"
        BY <1>3, <3>3, <4>1, <4>2 DEF UnderWay
      <4>4. ~txActive[p] /\ queue[c][1] # Expiry
        BY <2>1, <2>3, <4>3 DEF ProviderOK, InUse
      <4>5. PICK h \in Requests : queue[c][1] = h
        BY <1>1, <1>3, <4>4, Queued
      <4>6. UnderWay(h, p) /\ req[h].op \in {"commit", "rollback"}
        BY <1>1, <1>2, <1>3, <2>2, <4>4, <4>5, Placed DEF Sent, UnderWay, Ending
      <4>7. s = h
        BY <2>1, <4>3, <4>6 DEF ProviderOK, BeginsAlone
      <4> QED BY <4>3, <4>6, <4>7
    <3> QED BY <3>2, <3>3 DEF BeginLast
  <2>10. BeginsAlone(p)'
    BY <1>3, <2>1 DEF ProviderOK
  <2> QED BY <2>6, <2>8, <2>9, <2>10 DEF ProviderOK, PoolOf
<1> QED BY <1>1, <1>3, <1>8, <1>9, OthersStay

LEMMA EndAnsweredKeeps ==
    ASSUME Kept, NEW c \in Conns, EndAnswered(c)
    PROVE  Waits' /\ ProvidersOK'
<1>1. /\ queue[c] # <<>> /\ Answer(c) /\ Ends(c) /\ Release(c[1])
      /\ Head(queue[c]) \in Requests
      /\ req[Head(queue[c])].op \in {"commit", "rollback"}
      /\ Leave(Head(queue[c])) /\ UNCHANGED raced
      /\ UNCHANGED <<armed, txTimeout>>
  BY DEF EndAnswered
<1>2. Head(queue[c]) # Expiry
  BY <1>1, LeaseAssumption
<1>3. Ending(Head(queue[c]))
  BY <1>1 DEF Ending
<1> QED BY <1>1, <1>2, <1>3, Ended

LEMMA ExpiryAnsweredKeeps ==
    ASSUME Kept, NEW c \in Conns, ExpiryAnswered(c)
    PROVE  Waits' /\ ProvidersOK'
<1>1. /\ queue[c] # <<>> /\ Answer(c) /\ Ends(c) /\ Release(c[1])
      /\ Head(queue[c]) = Expiry /\ req' = req /\ UNCHANGED raced
      /\ UNCHANGED <<armed, txTimeout>> \/ ClearTxTimeout(c[1])
  BY DEF ExpiryAnswered
<1>2. Ending(Head(queue[c]))
  BY <1>1 DEF Ending
<1> QED BY <1>1, <1>2, Ended

\* A timer that fires is that of the transaction, and its expiry goes to the
\* client of it.
LEMMA TimerKeeps ==
    ASSUME Kept, NEW p \in Providers, NEW t \in 1..MaxTx, TimerFires(p, t)
    PROVE  Waits' /\ ProvidersOK'
<1>1. TypeOK /\ Waits /\ ProvidersOK
  BY DEF Kept
<1>2. /\ <<p, t>> \in TimersOf(p) /\ armed' = armed \ {<<p, t>>}
      /\ UNCHANGED <<fields, open, req, raced>>
  BY DEF TimerFires, TimersOf, history
<1>3. \A q \in Providers : q # p => TimersOf(q)' = TimersOf(q)
  BY <1>2 DEF TimersOf
<1>4. CASE ~InTransaction(p)
  <2>1. queue' = queue
    BY <1>4 DEF TimerFires
  <2>2. Waits' /\ \A c \in Conns : QueueStays(c)
    BY <1>1, <1>2, <2>1 DEF Waits, Sent, QueueStays
  <2>3. StepAt(p)
    BY <1>2, <1>3, <2>2 DEF StepAt, fields
  <2>4. p \in raced
    <3> SUFFICES ASSUME p \notin raced PROVE FALSE
      OBVIOUS
    <3>1. ProviderOK(p) /\ TimersOf(p) # {}
      BY <1>1, <1>2 DEF ProvidersOK
    <3>2. txActive[p]
      BY <3>1 DEF ProviderOK, Resting
    <3> QED BY <1>4, <3>1, <3>2, TheClient DEF InTransaction
  <2> QED BY <1>1, <1>2, <2>2, <2>3, <2>4, OthersStay
<1>5. CASE InTransaction(p)
  <2>1. PICK c \in Conns : c = txClient[p] /\ c \in PoolOf(p) /\ c[1] = p
    BY <1>1, <1>5 DEF TypeOK, InTransaction, PoolOf
  <2>2. Send(Expiry, c)
    BY <1>5, <2>1 DEF TimerFires
  <2>3. Waits'
    BY <1>1, <1>2, <2>2, ExpiryWaiting
  <2>4. /\ \A d \in Conns : d # c => QueueStays(d)
        /\ Len(queue'[c]) = Len(queue[c]) + 1
        /\ queue'[c][Len(queue[c]) + 1] = Expiry
        /\ \A i \in 1..Len(queue[c]) : queue'[c][i] = queue[c][i]
        /\ EndOnTheWay(c)' <=> (EndOnTheWay(c) \/ Ending(Expiry)')
    BY <1>1, <1>2, <2>2, AppendView
  <2>5. StepAt(p)
    BY <1>2, <1>3, <2>1, <2>4 DEF StepAt, fields
  <2>6. ASSUME p \notin raced' PROVE ProviderOK(p)'
    <3>1. ProviderOK(p) /\ txActive[p] /\ BeginsAlone(p)
      BY <1>1, <1>2, <1>5, <2>6 DEF ProvidersOK, ProviderOK, InTransaction
    <3>2. /\ open[c] # 0
          /\ \A d \in PoolOf(p) \ {c} : open[d] = 0 /\ ~EndOnTheWay(d)
          /\ \A s \in Requests : UnderWay(s, p) => req[s].op # "begin"
          /\ IF EndOnTheWay(c)
             THEN TimersOf(p) = {}
             ELSE TimersOf(p) = {<<p, open[c]>>} /\ txTimeout[p] = open[c]
      BY <2>1, <3>1 DEF ProviderOK, InUse
    <3>3. ~EndOnTheWay(c) /\ TimersOf(p) = {<<p, open[c]>>}
      BY <1>2, <3>2
    <3>4. TimersOf(p)' = {}
      BY <1>2, <3>3 DEF TimersOf
    <3>5. EndOnTheWay(c)'
      BY <2>4 DEF Ending
    <3>6. ASSUME NEW d \in PoolOf(p), d # c
          PROVE  /\ ExpiryFirst(d)' /\ BeginLast(d)'
                 /\ open'[d] = 0 /\ ~EndOnTheWay(d)'
      <4>1. /\ d \in Conns /\ QueueStays(d) /\ ExpiryFirst(d) /\ BeginLast(d)
            /\ txClient'[d[1]] = txClient[d[1]]
        BY <1>2, <2>4, <3>1, <3>6 DEF PoolOf, ProviderOK, fields
      <4>2. open'[d] = 0 /\ ~EndOnTheWay(d)'
        BY <1>2, <3>2, <3>6, <4>1, StayedQueue
      <4> QED BY <4>1, <4>2, StayedQueue
    <3>7. Len(queue[c]) \in Nat
      BY <1>1, Queued
    <3>8. ExpiryFirst(c)'
      <4>1. ASSUME NEW i \in 1..Len(queue'[c]), NEW j \in 1..(i-1)
            PROVE  /\ j \in 1..Len(queue[c]) /\ queue'[c][j] = queue[c][j]
                   /\ ~Ending(queue[c][j])
        <5>1. j \in 1..Len(queue[c])
          BY <2>4, <3>7
        <5> QED BY <2>4, <3>3, <5>1 DEF EndOnTheWay
      <4> QED BY <1>2, <4>1 DEF ExpiryFirst, Ending
    <3>9. BeginLast(c)'
      <4>1. ASSUME NEW i \in 1..Len(queue'[c]), queue'[c][i] # Expiry
            PROVE  req'[queue'[c][i]].op # "begin"
        <5>1. i \in 1..Len(queue[c]) /\ queue'[c][i] = queue[c][i]
          BY <2>4, <3>7, <4>1
        <5>2. PICK s \in Requests : queue[c][i] = s
          BY <1>1, <4>1, <5>1, Queued
        <5>3. UnderWay(s, p)
          BY <1>1, <2>1, <5>1, <5>2, Placed DEF Sent, UnderWay
        <5> QED BY <1>2, <3>2, <5>1, <5>2, <5>3
      <4> QED BY <4>1 DEF BeginLast
    <3>10. \A s \in Requests : UnderWay(s, p)' => req'[s].op # "begin"
      BY <1>2, <3>2 DEF UnderWay
    <3>11. txClient'[p] = c /\ open'[c] # 0 /\ txActive'[p]
      BY <1>2, <2>1, <3>1, <3>2 DEF fields
    <3>12. InUse(p)'
      BY <2>1, <3>4, <3>5, <3>6, <3>10, <3>11 DEF InUse, PoolOf, EndOnTheWay
    <3>13. BeginsAlone(p)'
      BY <3>10 DEF BeginsAlone
    <3> QED BY <3>6, <3>8, <3>9, <3>11, <3>12, <3>13 DEF ProviderOK, PoolOf
  <2> QED BY <1>1, <1>2, <2>3, <2>5, <2>6, OthersStay
<1> QED BY <1>4, <1>5

\* A pool that ended leaves its provider at rest.
LEMMA DisconnectedKeeps ==
    ASSUME Kept, NEW p \in Providers, Disconnected(p)
    PROVE  /\ Waits' /\ ProvidersOK'
           /\ ~txActive'[p]
           /\ \A q \in Providers : q # p =>
                 txActive'[q] = txActive[q] /\ txClient'[q] = txClient[q]
<1>1. TypeOK /\ Waits /\ ProvidersOK
  BY DEF Kept
<1>2. /\ \A c \in PoolOf(p) : queue[c] = <<>>
      /\ txActive' = [txActive EXCEPT ![p] = FALSE]
      /\ txClient' = [txClient EXCEPT ![p] = NoConn]
      /\ txTimeout' = [txTimeout EXCEPT ![p] = 0]
      /\ armed' = {t \in armed : t[1] # p}
      /\ open' = [c \in Conns |-> IF c[1] = p THEN 0 ELSE open[c]]
      /\ UNCHANGED <<queue, req, raced>>
  BY DEF Disconnected
<1>3. Waits' /\ \A c \in Conns : QueueStays(c)
  BY <1>1, <1>2 DEF Waits, Sent, QueueStays
<1>4. /\ ~txActive'[p] /\ txClient'[p] = NoConn
      /\ \A q \in Providers : q # p =>
            /\ txActive'[q] = txActive[q] /\ txClient'[q] = txClient[q]
            /\ txTimeout'[q] = txTimeout[q]
  BY <1>1, <1>2 DEF TypeOK
<1>5. TimersOf(p)' = {} /\ \A q \in Providers : q # p => TimersOf(q)' = TimersOf(q)
  BY <1>2 DEF TimersOf
<1>6. StepAt(p)
  BY <1>2, <1>3, <1>4, <1>5 DEF StepAt
<1>7. \A c \in PoolOf(p) : open'[c] = 0 /\ Len(queue'[c]) = 0
  <2>1. \A c \in PoolOf(p) : c \in Conns /\ Len(queue[c]) = 0
    BY <1>1, <1>2, Queued DEF PoolOf
  <2> QED BY <1>2, <2>1 DEF PoolOf
<1>8. ASSUME p \notin raced' PROVE ProviderOK(p)'
  <2>1. BeginsAlone(p)
    BY <1>1, <1>2, <1>8 DEF ProvidersOK, ProviderOK
  <2>2. BeginsAlone(p)'
    BY <1>2, <2>1 DEF BeginsAlone, UnderWay
  <2>3. \A c \in PoolOf(p) : ExpiryFirst(c)' /\ BeginLast(c)'
    BY <1>7 DEF ExpiryFirst, BeginLast
  <2>4. Resting(p)'
    BY <1>4, <1>5, <1>7 DEF Resting, PoolOf
  <2> QED BY <1>4, <2>2, <2>3, <2>4 DEF ProviderOK, PoolOf
<1>9. ProvidersOK'
  BY <1>1, <1>2, <1>6, <1>8, OthersStay
<1> QED BY <1>3, <1>4, <1>9

-----------------------------------------------------------------------------
(* Whose the transactions are.                                             *)

\* What a step has to leave of a record, and of those who wait.
LEMMA OwnedStays ==
    ASSUME Owned, shadowed => shadowed', raced \subseteq raced',
           \A q \in Providers \ raced' :
              txActive'[q] /\ TimersOf(q)' # {} =>
                 /\ txActive[q] /\ TimersOf(q) # {}
                 /\ txClient'[q] = txClient[q]
                 /\ opener'[txClient[q]] = opener[txClient[q]]
                 /\ RecordOf(q) => shadowed' \/ (owner' = owner /\ ~lapsed'),
           \A c \in Conns :
              c[1] \notin raced' /\ ~shadowed' /\ RecordOf(c[1]) /\ OnHisOwn(c)
                 => OnHisOwn(c)'
    PROVE  Owned'
<1> SUFFICES ASSUME ~shadowed' PROVE RecordKept' /\ ActsOnHisOwn'
  BY DEF Owned
<1>1. /\ \A q \in Providers \ raced : RecordOf(q)
      /\ \A c \in Conns : c[1] \notin raced => OnHisOwn(c)
  BY DEF Owned, RecordKept, ActsOnHisOwn
<1>2. ASSUME NEW q \in Providers \ raced' PROVE RecordOf(q)'
  <2> SUFFICES ASSUME txActive'[q], TimersOf(q)' # {}
               PROVE  /\ owner' # NoUser /\ ~lapsed'
                      /\ owner' = opener'[txClient'[q]]
    BY DEF RecordOf
  <2>1. /\ txActive[q] /\ TimersOf(q) # {} /\ txClient'[q] = txClient[q]
        /\ opener'[txClient[q]] = opener[txClient[q]] /\ RecordOf(q)
        /\ owner' = owner /\ ~lapsed'
    BY <1>1
  <2>2. owner # NoUser /\ owner = opener[txClient[q]]
    BY <2>1 DEF RecordOf
  <2> QED BY <2>1, <2>2
<1>3. ASSUME NEW c \in Conns, c[1] \notin raced' PROVE OnHisOwn(c)'
  BY <1>1, <1>3, OfAPool
<1> QED BY <1>2, <1>3 DEF RecordKept, ActsOnHisOwn

\* A queue that stays, or whose transaction ends.
LEMMA OwnStays ==
    ASSUME NEW c \in Conns, OnHisOwn(c), QueueStays(c),
           open'[c] = open[c], opener'[c] = opener[c]
    PROVE  OnHisOwn(c)'
<1>1. \A i \in 1..Len(queue[c]) : Ending(queue[c][i])' <=> Ending(queue[c][i])
  BY DEF QueueStays, Ending
<1>2. ASSUME NEW i \in 1..Len(queue[c]), open[c] # 0, queue[c][i] # Expiry,
             req[queue[c][i]].op # "begin", ~req[queue[c][i]].free,
             \A j \in 1..(i-1) : ~Ending(queue[c][j])'
      PROVE  opener[c] = req[queue[c][i]].user
  <2>1. ASSUME NEW j \in 1..(i-1) PROVE ~Ending(queue[c][j])
    <3>1. CASE j \in 1..Len(queue[c])
      BY <1>1, <1>2, <3>1
    <3>2. CASE j \notin 1..Len(queue[c])
      BY <3>2
    <3> QED BY <3>1, <3>2
  <2> QED BY <1>2, <2>1 DEF OnHisOwn
<1> QED BY <1>2 DEF OnHisOwn, QueueStays

\* Answered is one who ends nothing: the others move up.
LEMMA OwnAnswered ==
    ASSUME TypeOK, Waits, NEW c \in Conns, queue[c] # <<>>, Answer(c),
           \A s \in Requests : s # Head(queue[c]) => req'[s] = req[s],
           ~Ending(queue[c][1]), Head(queue[c]) # Expiry,
           OnHisOwn(c), open'[c] = open[c], opener'[c] = opener[c]
    PROVE  OnHisOwn(c)'
<1>1. /\ Len(queue[c]) >= 1 /\ Len(queue'[c]) = Len(queue[c]) - 1
      /\ \A i \in 1..Len(queue'[c]) :
            /\ i + 1 \in 1..Len(queue[c])
            /\ queue'[c][i] = queue[c][i + 1]
            /\ queue'[c][i] # Expiry => req'[queue'[c][i]] = req[queue'[c][i]]
  BY AnswerView
<1>2. Len(queue[c]) \in Nat
  BY Queued
<1>3. ASSUME NEW i \in 1..Len(queue'[c]), open[c] # 0, queue'[c][i] # Expiry,
             req'[queue'[c][i]].op # "begin", ~req'[queue'[c][i]].free,
             \A j \in 1..(i-1) :
                /\ queue'[c][j] # Expiry
                /\ req'[queue'[c][j]].op \notin {"commit", "rollback"}
      PROVE  opener[c] = req'[queue'[c][i]].user
  <2>1. PICK k \in 1..Len(queue[c]) : k = i + 1
    BY <1>1
  <2>2. /\ queue'[c][i] = queue[c][k]
        /\ req'[queue'[c][i]] = req[queue[c][k]]
    BY <1>1, <1>3, <2>1
  <2>3. ASSUME NEW j \in 1..(k-1) PROVE ~Ending(queue[c][j])
    <3>1. CASE j = 1
      BY <3>1
    <3>2. CASE j # 1
      <4>1. j - 1 \in 1..(i-1) /\ j - 1 \in 1..Len(queue'[c]) /\ (j - 1) + 1 = j
        BY <1>1, <1>2, <2>1, <3>2
      <4>2. /\ queue'[c][j - 1] = queue[c][j] /\ queue[c][j] # Expiry
            /\ req'[queue[c][j]].op \notin {"commit", "rollback"}
            /\ req'[queue[c][j]] = req[queue[c][j]]
        BY <1>1, <1>3, <4>1
      <4> QED BY <4>2 DEF Ending
    <3> QED BY <3>1, <3>2
  <2> QED BY <1>3, <2>2, <2>3 DEF OnHisOwn
<1> QED BY <1>3 DEF OnHisOwn, Ending

\* Who joins a queue with no end in it is who began the transaction, or it has
\* no owner.
LEMMA OwnJoined ==
    ASSUME TypeOK, Waits, NEW c \in Conns,
           NEW who \in Requests \cup {Expiry}, Send(who, c),
           who # Expiry => req[who].pc # "sent",
           \A s \in Requests : s # who => req'[s] = req[s],
           OnHisOwn(c), open'[c] = open[c], opener'[c] = opener[c],
           /\ who # Expiry /\ req'[who].op # "begin" /\ ~req'[who].free
           /\ open[c] # 0 /\ ~EndOnTheWay(c)
           => opener[c] = req'[who].user
    PROVE  OnHisOwn(c)'
<1>1. /\ Len(queue'[c]) = Len(queue[c]) + 1
      /\ queue'[c][Len(queue[c]) + 1] = who
      /\ \A i \in 1..Len(queue[c]) :
            /\ queue'[c][i] = queue[c][i]
            /\ Ending(queue[c][i])' <=> Ending(queue[c][i])
            /\ queue[c][i] # Expiry => req'[queue[c][i]] = req[queue[c][i]]
  BY AppendView
<1>2. Len(queue[c]) \in Nat
  BY Queued
<1>3. ASSUME NEW i \in 1..Len(queue'[c]), open[c] # 0, queue'[c][i] # Expiry,
             req'[queue'[c][i]].op # "begin", ~req'[queue'[c][i]].free,
             \A j \in 1..(i-1) :
                /\ queue'[c][j] # Expiry
                /\ req'[queue'[c][j]].op \notin {"commit", "rollback"}
      PROVE  opener[c] = req'[queue'[c][i]].user
  <2>1. ASSUME NEW j \in 1..(i-1) PROVE ~Ending(queue[c][j])
    <3>1. j \in 1..Len(queue[c])
      BY <1>1, <1>2
    <3>2. /\ queue'[c][j] = queue[c][j] /\ queue[c][j] # Expiry
          /\ req'[queue[c][j]] = req[queue[c][j]]
      BY <1>1, <1>3, <3>1
    <3> QED BY <1>3, <3>2 DEF Ending
  <2>2. CASE i \in 1..Len(queue[c])
    <3>1. /\ queue'[c][i] = queue[c][i]
          /\ req'[queue'[c][i]] = req[queue[c][i]]
      BY <1>1, <1>3, <2>2
    <3> QED BY <1>3, <2>1, <2>2, <3>1 DEF OnHisOwn
  <2>3. CASE i = Len(queue[c]) + 1
    <3>1. \A j \in 1..Len(queue[c]) : ~Ending(queue[c][j])
      BY <1>2, <2>1, <2>3
    <3>2. ~EndOnTheWay(c)
      BY <3>1 DEF EndOnTheWay
    <3>3. queue'[c][i] = who
      BY <1>1, <2>3
    <3> QED BY <1>3, <3>2, <3>3
  <2> QED BY <1>1, <1>2, <2>2, <2>3
<1> QED BY <1>3 DEF OnHisOwn, Ending

\* Reading the record leaves that of a transaction whose timer is set, or the
\* step takes it from another provider.
LEMMA RecordStays ==
    ASSUME NEW p \in Providers, NEW q \in Providers, RecordOf(q),
           Reconcile(p), txActive[q], TimersOf(q) # {}
    PROVE  shadowed' \/ (owner' = owner /\ ~lapsed')
<1>1. owner # NoUser /\ ~lapsed
  BY DEF RecordOf
<1>2. CASE txActive[p]
  BY <1>1, <1>2 DEF Reconcile, LiveOwner
<1>3. CASE ~txActive[p]
  <2>1. OthersRecord(p)
    BY <1>1, <1>3 DEF OthersRecord
  <2> QED BY <1>3, <2>1 DEF Reconcile
<1> QED BY <1>2, <1>3

\* A call that reads the record, and sends nothing.
LEMMA ReadingOwned ==
    ASSUME Owned, NEW p \in Providers, Reconcile(p), raced \subseteq raced',
           UNCHANGED <<txActive, txClient, armed, open, opener>>,
           \A c \in Conns : QueueStays(c)
    PROVE  Owned'
<1>1. shadowed => shadowed'
  BY DEF Reconcile
<1>2. \A q \in Providers : TimersOf(q)' = TimersOf(q)
  BY DEF TimersOf
<1>3. \A c \in Conns : OnHisOwn(c) => OnHisOwn(c)'
  BY OwnStays
<1>4. ASSUME NEW q \in Providers, txActive[q], TimersOf(q) # {}, RecordOf(q)
      PROVE  shadowed' \/ (owner' = owner /\ ~lapsed')
  BY <1>4, RecordStays
<1> QED BY <1>1, <1>2, <1>3, <1>4, OwnedStays

\* A command is its sender's, or finds a transaction without an owner: the
\* route refused it otherwise.
LEMMA CommandOwned ==
    ASSUME Kept, Owned, NEW r \in Requests, NEW u \in Users,
           NEW p \in Providers, NEW op \in {"commit", "rollback", "query"},
           InTransaction(p), Goes(r, u, p, op, "sent", 0),
           Send(r, txClient[p]),
           UNCHANGED <<open, raced, txActive, txClient>>,
           armed' \subseteq armed
    PROVE  Owned'
<1>1. TypeOK /\ Waits /\ ProvidersOK /\ 0 \in 0..MaxTx
  BY LeaseAssumption DEF Kept
<1>2. PICK c \in Conns : c = txClient[p] /\ c \in PoolOf(p) /\ c[1] = p
  BY <1>1 DEF TypeOK, InTransaction, PoolOf
<1>3. Send(r, c) /\ txActive[p]
  BY <1>2 DEF InTransaction
<1>4. /\ \A s \in Requests : s # r => req'[s] = req[s]
      /\ req[r].pc = "off" /\ req'[r].user = u
      /\ UNCHANGED opener /\ Reconcile(p) /\ ~Refused(u, p)
  BY <1>1, GoesOn
<1>5. shadowed => shadowed'
  BY <1>4 DEF Reconcile
<1>6. \A d \in Conns : d # c => QueueStays(d)
  BY <1>1, <1>3, <1>4, AppendView
<1>7. ASSUME NEW d \in Conns, d[1] \notin raced', ~shadowed',
             RecordOf(d[1]), OnHisOwn(d)
      PROVE  OnHisOwn(d)'
  <2>1. CASE d # c
    BY <1>4, <1>6, <1>7, <2>1, OwnStays
  <2>2. CASE d = c
    <3>1. ASSUME open[c] # 0, ~EndOnTheWay(c) PROVE opener[c] = u
      <4>1. InUse(p)
        BY <1>1, <1>2, <1>3, <1>7, <2>2 DEF ProvidersOK, ProviderOK
      <4>2. TimersOf(p) = {<<p, open[c]>>}
        BY <1>2, <3>1, <4>1 DEF InUse
      <4>3. owner # NoUser /\ ~lapsed /\ owner = opener[c]
        BY <1>2, <1>3, <1>7, <2>2, <4>2 DEF RecordOf
      <4> QED BY <1>3, <1>4, <4>3 DEF Refused, LiveOwner
    <3>2. OnHisOwn(c)
      BY <1>7, <2>2
    <3> QED BY <1>1, <1>3, <1>4, <2>2, <3>1, <3>2, OwnJoined
  <2> QED BY <2>1, <2>2
<1>8. ASSUME NEW q \in Providers, txActive'[q], TimersOf(q)' # {}
      PROVE  /\ txActive[q] /\ TimersOf(q) # {}
             /\ RecordOf(q) => shadowed' \/ (owner' = owner /\ ~lapsed')
  <2>1. txActive[q] /\ TimersOf(q) # {}
    BY <1>8 DEF TimersOf
  <2> QED BY <1>4, <2>1, RecordStays
<1> QED BY <1>4, <1>5, <1>7, <1>8, OwnedStays

\* A step that neither reads the record nor tells a queue anything.
LEMMA UnrecordedOwned ==
    ASSUME Owned, UNCHANGED <<record, shadowed, raced, opener, open>>,
           \A q \in Providers \ raced : txActive'[q] =>
              txActive[q] /\ txClient'[q] = txClient[q],
           armed' \subseteq armed,
           \A c \in Conns : QueueStays(c)
    PROVE  Owned'
<1>1. \A c \in Conns : OnHisOwn(c) => OnHisOwn(c)'
  BY OwnStays
<1>2. \A q \in Providers : TimersOf(q)' \subseteq TimersOf(q)
  BY DEF TimersOf
<1>3. ASSUME NEW q \in Providers, RecordOf(q), txActive[q], TimersOf(q) # {}
      PROVE  owner' = owner /\ ~lapsed'
  BY <1>3 DEF RecordOf, record
<1> QED BY <1>1, <1>2, <1>3, OwnedStays

\* The transaction that begins is recorded as its opener's, and takes the
\* record from any other whose timer is set.
LEMMA BeginAnsweredOwned ==
    ASSUME Kept, Owned, NEW c \in Conns, BeginAnswered(c)
    PROVE  Owned'
<1>1. TypeOK /\ Waits /\ c[1] \in Providers
  BY OfAPool DEF Kept
<1>2. PICK r \in Requests : r = Head(queue[c])
  BY DEF BeginAnswered
<1>3. /\ queue[c] # <<>> /\ Answer(c) /\ Leave(r) /\ req[r].op = "begin"
      /\ open' = [open EXCEPT ![c] = IF @ = 0 THEN req[r].tx ELSE @]
      /\ opener' = [opener EXCEPT ![c] = IF open[c] = 0 THEN req[r].user ELSE @]
      /\ txActive' = [txActive EXCEPT ![c[1]] = TRUE]
      /\ SetTxTimeout(c[1], req[r].tx)
      /\ owner' = req[r].user /\ lapsed' = FALSE
      /\ shadowed' = (shadowed \/ OthersRecord(c[1]))
      /\ UNCHANGED <<txClient, raced>>
  BY <1>2 DEF BeginAnswered
<1>4. UnderWay(r, c[1])
  BY <1>1, <1>2, <1>3, NextToAnswer
<1>5. req[r].tx \in 1..MaxTx /\ req[r].user \in Users
  BY <1>1, <1>3, <1>4 DEF TypeOK, UnderWay
<1>6. \A q \in Providers : q # c[1] => TimersOf(q)' = TimersOf(q)
  BY <1>1, <1>3, <1>5, TimerSet
<1>7. r # Expiry /\ NoUser \notin Users
  BY LeaseAssumption
<1>8. \A s \in Requests : s # r => req'[s] = req[s]
  BY <1>1, <1>3, Leaves
<1>9. \A d \in Conns : d # c => QueueStays(d)
  BY <1>1, <1>2, <1>3, <1>7, <1>8, AnswerView
<1>10. c[1] \notin raced => Len(queue'[c]) = 0 /\ open[c] = 0 /\ txClient[c[1]] = c
  BY BeginAnsweredKeeps
<1> SUFFICES ASSUME ~shadowed' PROVE RecordKept' /\ ActsOnHisOwn'
  BY DEF Owned
<1>11. RecordKept /\ ActsOnHisOwn /\ ~OthersRecord(c[1])
  BY <1>3 DEF Owned
<1>12. ASSUME NEW q \in Providers \ raced', txActive'[q], TimersOf(q)' # {}
       PROVE  owner' # NoUser /\ ~lapsed' /\ owner' = opener'[txClient'[q]]
  <2>1. CASE q = c[1]
    <3>1. txClient'[q] = c /\ opener'[c] = req[r].user
      BY <1>1, <1>3, <1>10, <1>12, <2>1 DEF TypeOK
    <3> QED BY <1>3, <1>5, <1>7, <3>1
  <2>2. CASE q # c[1]
    <3>1. txActive[q] /\ TimersOf(q) # {}
      BY <1>1, <1>3, <1>6, <1>12, <2>2 DEF TypeOK
    <3>2. owner # NoUser /\ ~lapsed
      BY <1>3, <1>11, <1>12, <3>1 DEF RecordKept, RecordOf
    <3> QED BY <1>11, <2>2, <3>1, <3>2 DEF OthersRecord
  <2> QED BY <2>1, <2>2
<1>13. ASSUME NEW d \in Conns, d[1] \notin raced' PROVE OnHisOwn(d)'
  <2>1. CASE d = c
    BY <1>3, <1>10, <1>13, <2>1 DEF OnHisOwn
  <2>2. CASE d # c
    <3>1. OnHisOwn(d) /\ open'[d] = open[d] /\ opener'[d] = opener[d]
      BY <1>1, <1>3, <1>11, <1>13, <2>2 DEF ActsOnHisOwn, TypeOK
    <3> QED BY <1>9, <2>2, <3>1, OwnStays
  <2> QED BY <2>1, <2>2
<1> QED BY <1>12, <1>13 DEF RecordKept, RecordOf, ActsOnHisOwn

\* BEGIN joins the queue of a provider at rest.
LEMMA ConnectedOwned ==
    ASSUME Kept, Owned, NEW r \in Requests, Connected(r)
    PROVE  Owned'
<1>1. TypeOK /\ Waits /\ ProvidersOK
  BY DEF Kept
<1>2. PICK p \in Providers : req[r].at = p
  BY <1>1 DEF Connected, TypeOK
<1>3. PICK c \in PoolOf(p) \ out :
         txClient' = [txClient EXCEPT ![p] = c] /\ Send(r, c)
  BY <1>2 DEF Connected
<1>4. /\ req[r].pc = "connecting" /\ req' = [req EXCEPT ![r].pc = "sent"]
      /\ UNCHANGED <<txActive, armed, open, raced, opener, shadowed, owner, lapsed>>
  BY DEF Connected, history, record
<1>5. c \in Conns
  BY DEF PoolOf
<1>6. /\ \A s \in Requests : s # r => req'[s] = req[s]
      /\ req'[r].op = "begin" /\ req[r].op = "begin"
  BY <1>1, <1>2, <1>4 DEF TypeOK, Request
<1>7. \A d \in Conns : d # c => QueueStays(d)
  BY <1>1, <1>3, <1>4, <1>5, <1>6, AppendView
<1>8. ASSUME NEW d \in Conns, OnHisOwn(d) PROVE OnHisOwn(d)'
  <2>1. CASE d # c
    BY <1>4, <1>7, <1>8, <2>1, OwnStays
  <2>2. CASE d = c
    BY <1>1, <1>3, <1>4, <1>5, <1>6, <1>8, <2>2, OwnJoined
  <2> QED BY <2>1, <2>2
<1>9. ASSUME NEW q \in Providers \ raced', txActive'[q], TimersOf(q)' # {}
      PROVE  /\ txActive[q] /\ TimersOf(q) # {} /\ txClient'[q] = txClient[q]
             /\ RecordOf(q) => owner' = owner /\ ~lapsed'
  <2>1. txActive[q] /\ TimersOf(q) # {}
    BY <1>4, <1>9 DEF TimersOf
  <2>2. q # p
    <3> SUFFICES ASSUME q = p PROVE FALSE
      OBVIOUS
    <3>1. InUse(p) /\ UnderWay(r, p)
      BY <1>1, <1>2, <1>4, <1>9, <2>1 DEF ProvidersOK, ProviderOK, UnderWay
    <3> QED BY <1>6, <3>1 DEF InUse
  <2> QED BY <1>1, <1>3, <1>4, <2>1, <2>2 DEF TypeOK, RecordOf
<1> QED BY <1>4, <1>8, <1>9, OwnedStays

\* Who is answered ends nothing, and nobody's transaction changes.
LEMMA OnlyAnsweredOwned ==
    ASSUME Kept, Owned, NEW c \in Conns, queue[c] # <<>>, Answer(c),
           NEW r \in Requests, r = Head(queue[c]), Leave(r),
           req[r].op \notin {"commit", "rollback"},
           lapsed' \in {FALSE, lapsed},
           UNCHANGED <<txActive, txClient, armed, open, raced, opener, shadowed,
                       owner>>
    PROVE  Owned'
<1>1. TypeOK /\ Waits
  BY DEF Kept
<1>2. r # Expiry /\ Head(queue[c]) = queue[c][1]
  BY <1>1, Queued, LeaseAssumption
<1>3. \A s \in Requests : s # r => req'[s] = req[s]
  BY <1>1, Leaves
<1>4. \A d \in Conns : d # c => QueueStays(d)
  BY <1>1, <1>2, <1>3, AnswerView
<1>5. ~Ending(queue[c][1])
  BY <1>2 DEF Ending
<1>6. ASSUME NEW d \in Conns, OnHisOwn(d) PROVE OnHisOwn(d)'
  <2>1. CASE d # c
    BY <1>4, <1>6, <2>1, OwnStays
  <2>2. CASE d = c
    BY <1>1, <1>2, <1>3, <1>5, <1>6, <2>2, OwnAnswered
  <2> QED BY <2>1, <2>2
<1>7. \A q \in Providers : TimersOf(q)' = TimersOf(q)
  BY DEF TimersOf
<1>8. \A q \in Providers : txActive[q] /\ TimersOf(q) # {} /\ RecordOf(q) => ~lapsed'
  BY DEF RecordOf
<1> QED BY <1>6, <1>7, <1>8, OwnedStays

\* Nobody acts on another's transaction, unless its record was lost.
LEMMA NotTrespassing ==
    ASSUME Kept, Owned, OnlyTheOpener, NEW c \in Conns, queue[c] # <<>>,
           NEW r \in Requests, r = Head(queue[c]), req[r].op # "begin",
           trespass' = (trespass \/ Trespasses(r, c)), shadowed => shadowed'
    PROVE  OnlyTheOpener'
<1>1. TypeOK /\ Waits
  BY DEF Kept
<1>2. /\ r # Expiry /\ r = queue[c][1] /\ 1 \in 1..Len(queue[c])
  <2>1. Len(queue[c]) \in Nat /\ Len(queue[c]) >= 1 /\ Head(queue[c]) = queue[c][1]
    BY <1>1, Queued
  <2> QED BY <2>1, LeaseAssumption
<1>3. ASSUME Trespasses(r, c), ~shadowed PROVE FALSE
  <2>1. OnHisOwn(c)
    BY <1>3 DEF Owned, ActsOnHisOwn, Trespasses
  <2>2. open[c] # 0 /\ opener[c] # req[r].user /\ ~req[r].free
    BY <1>3 DEF Trespasses
  <2>3. \A j \in 1..(1-1) : ~Ending(queue[c][j])
    OBVIOUS
  <2> QED BY <1>2, <2>1, <2>2, <2>3 DEF OnHisOwn
<1> QED BY <1>3 DEF OnlyTheOpener

\* An end takes the transaction of its client, and the record of any other.
LEMMA EndedOwned ==
    ASSUME Kept, Owned, ProvidersOK', NEW c \in Conns, queue[c] # <<>>, Answer(c),
           Head(queue[c]) = Expiry => req' = req,
           Head(queue[c]) # Expiry => Leave(Head(queue[c])),
           Ends(c), Release(c[1]), UNCHANGED raced, armed' \subseteq armed,
           \/ UNCHANGED <<owner, lapsed, shadowed>>
           \/ shadowed' = (shadowed \/ OthersRecord(c[1]))
    PROVE  Owned'
<1>1. TypeOK /\ Waits
  BY DEF Kept
<1>2. PICK p \in Providers : p = c[1]
  BY OfAPool
<1>3. \A s \in Requests : s # Head(queue[c]) => req'[s] = req[s]
  BY <1>1, HeadAnswered
<1>4. \A d \in Conns : d # c => QueueStays(d)
  BY <1>1, <1>3, AnswerView
<1>5. /\ open'[c] = 0
      /\ \A d \in Conns : d # c => open'[d] = open[d] /\ opener'[d] = opener[d]
  BY <1>1 DEF Ends, TypeOK
<1>6. /\ \A q \in Providers : q # p =>
            txActive'[q] = txActive[q] /\ txClient'[q] = txClient[q]
      /\ txClient'[p] = NoConn
  BY <1>1, <1>2, Releases
<1>7. ASSUME NEW q \in Providers \ raced', txActive'[q], TimersOf(q)' # {}
      PROVE  /\ txActive[q] /\ TimersOf(q) # {} /\ txClient'[q] = txClient[q]
             /\ opener'[txClient[q]] = opener[txClient[q]]
             /\ RecordOf(q) => shadowed' \/ (owner' = owner /\ ~lapsed')
  <2>1. q # p
    <3> SUFFICES ASSUME q = p PROVE FALSE
      OBVIOUS
    <3>1. InUse(p)'
      BY <1>7 DEF ProvidersOK, ProviderOK
    <3>2. txClient'[p] \in Conns
      BY <3>1 DEF InUse, PoolOf
    <3> QED BY <1>6, <3>2, LeaseAssumption
  <2>2. txActive[q] /\ TimersOf(q) # {} /\ txClient'[q] = txClient[q]
    BY <1>6, <1>7, <2>1 DEF TimersOf
  <2>3. txClient[q] \in Conns /\ txClient[q] # c
    <3>1. ProviderOK(q)
      BY <1>7 DEF Kept, ProvidersOK
    <3> QED BY <1>2, <2>1, <2>2, <3>1, TheClient
  <2>4. ASSUME RecordOf(q) PROVE shadowed' \/ (owner' = owner /\ ~lapsed')
    <3>1. owner # NoUser /\ ~lapsed
      BY <2>2, <2>4 DEF RecordOf
    <3> QED BY <1>2, <2>1, <2>2, <3>1 DEF OthersRecord
  <2> QED BY <1>5, <2>2, <2>3, <2>4
<1>8. ASSUME NEW d \in Conns, OnHisOwn(d) PROVE OnHisOwn(d)'
  <2>1. CASE d # c
    BY <1>4, <1>5, <1>8, <2>1, OwnStays
  <2>2. CASE d = c
    BY <1>5, <2>2 DEF OnHisOwn
  <2> QED BY <2>1, <2>2
<1>9. shadowed => shadowed'
  <2>1. shadowed \in BOOLEAN
    BY <1>1 DEF TypeOK
  <2> QED BY <2>1
<1>10. raced \subseteq raced'
  OBVIOUS
<1> QED BY <1>7, <1>8, <1>9, <1>10, OwnedStays

LEMMA EndAnsweredOwned ==
    ASSUME Kept, Owned, OnlyTheOpener, CommittedUnlessAborted,
           NEW c \in Conns, EndAnswered(c)
    PROVE  Owned' /\ OnlyTheOpener' /\ CommittedUnlessAborted'
<1>1. PICK r \in Requests : r = Head(queue[c])
  BY DEF EndAnswered
<1>2. /\ queue[c] # <<>> /\ Answer(c) /\ Ends(c) /\ Release(c[1])
      /\ req[r].op \in {"commit", "rollback"} /\ Leave(r)
      /\ trespass' = (trespass \/ Trespasses(r, c))
      /\ UNCHANGED <<raced, armed>>
      /\ \/ /\ txClient[c[1]] # NoConn /\ Told(r, c)
            /\ shadowed' = (shadowed \/ OthersRecord(c[1]))
         \/ UNCHANGED <<owner, lapsed, shadowed>> /\ UNCHANGED misled
  BY <1>1 DEF EndAnswered, record
<1>3. r # Expiry
  BY LeaseAssumption
<1>4. Waits' /\ ProvidersOK'
  BY EndAnsweredKeeps
<1>5. Owned'
  BY <1>1, <1>2, <1>3, <1>4, EndedOwned
<1>6. OnlyTheOpener'
  <2>1. shadowed \in BOOLEAN
    BY DEF Kept, TypeOK
  <2>2. req[r].op # "begin" /\ (shadowed => shadowed')
    BY <1>2, <2>1
  <2>3. queue[c] # <<>> /\ trespass' = (trespass \/ Trespasses(r, c))
    BY <1>2
  <2> QED BY <1>1, <2>2, <2>3, NotTrespassing
<1>7. ASSUME txClient[c[1]] # NoConn, c[1] \notin raced PROVE open[c] # 0
  <2>1. TypeOK /\ Waits /\ ProviderOK(c[1])
    BY <1>7, OfAPool DEF Kept, ProvidersOK
  <2>2. 1 \in 1..Len(queue[c]) /\ queue[c][1] = r
    BY <1>1, <1>2, <2>1, Queued
  <2>3. Ending(queue[c][1])
    BY <1>2, <2>2 DEF Ending
  <2> QED BY <1>7, <2>1, <2>2, <2>3, EndMeets
<1>8. CommittedUnlessAborted'
  <2>1. CASE UNCHANGED misled
    BY <2>1 DEF CommittedUnlessAborted
  <2>2. CASE txClient[c[1]] # NoConn /\ Told(r, c)
    BY <1>7, <2>2 DEF CommittedUnlessAborted, Told
  <2> QED BY <1>2, <2>1, <2>2
<1> QED BY <1>5, <1>6, <1>8

LEMMA ExpiryAnsweredOwned ==
    ASSUME Kept, Owned, NEW c \in Conns, ExpiryAnswered(c)
    PROVE  Owned'
<1>1. /\ queue[c] # <<>> /\ Answer(c) /\ Ends(c) /\ Release(c[1])
      /\ Head(queue[c]) = Expiry /\ req' = req /\ UNCHANGED raced
      /\ UNCHANGED <<owner, lapsed, shadowed>>
  BY DEF ExpiryAnswered, record
<1>2. armed' \subseteq armed
  BY DEF ExpiryAnswered, ClearTxTimeout
<1>3. Waits' /\ ProvidersOK'
  BY ExpiryAnsweredKeeps
<1> QED BY <1>1, <1>2, <1>3, EndedOwned

LEMMA TimerOwned ==
    ASSUME Kept, Owned, NEW p \in Providers, NEW t \in 1..MaxTx, TimerFires(p, t)
    PROVE  Owned'
<1>1. TypeOK /\ Waits
  BY DEF Kept
<1>2. /\ armed' \subseteq armed
      /\ UNCHANGED <<record, shadowed, raced, opener, open, req>>
      /\ UNCHANGED <<txActive, txClient>>
  BY DEF TimerFires, fields, history
<1>3. CASE ~InTransaction(p)
  <2>1. \A c \in Conns : QueueStays(c)
    BY <1>2, <1>3 DEF TimerFires, QueueStays
  <2> QED BY <1>2, <2>1, UnrecordedOwned
<1>4. CASE InTransaction(p)
  <2>1. PICK c \in Conns : c = txClient[p]
    BY <1>1, <1>4 DEF TypeOK, InTransaction
  <2>2. Send(Expiry, c)
    BY <1>4, <2>1 DEF TimerFires
  <2>3. \A d \in Conns : d # c => QueueStays(d)
    BY <1>1, <1>2, <2>2, AppendView
  <2>4. ASSUME NEW d \in Conns, OnHisOwn(d) PROVE OnHisOwn(d)'
    <3>1. CASE d # c
      BY <1>2, <2>3, <2>4, <3>1, OwnStays
    <3>2. CASE d = c
      <4>1. Expiry \in Requests \cup {Expiry}
        OBVIOUS
      <4> QED BY <1>1, <1>2, <2>2, <2>4, <3>2, <4>1, OwnJoined
    <3> QED BY <3>1, <3>2
  <2>5. \A q \in Providers : TimersOf(q)' \subseteq TimersOf(q)
    BY <1>2 DEF TimersOf
  <2>6. \A q \in Providers : txActive[q] /\ TimersOf(q) # {} /\ RecordOf(q) =>
           owner' = owner /\ ~lapsed'
    BY <1>2 DEF RecordOf, record
  <2> QED BY <1>2, <2>4, <2>5, <2>6, OwnedStays
<1> QED BY <1>3, <1>4

\* The record outlasts every timer that is set.
LEMMA LapseOwned ==
    ASSUME Kept, Owned, LeaseLapses
    PROVE  Owned'
<1>1. /\ UNCHANGED <<fields, armed, owner, queue, req>>
      /\ UNCHANGED <<open, raced, opener, shadowed>>
      /\ \A p \in Providers : <<p, txTimeout[p]>> \notin armed
  BY DEF LeaseLapses, provider, database, history
<1>2. \A c \in Conns : QueueStays(c)
  BY <1>1 DEF QueueStays
<1>3. \A c \in Conns : OnHisOwn(c) => OnHisOwn(c)'
  BY <1>1, <1>2, OwnStays
<1>4. ASSUME NEW q \in Providers \ raced', txActive'[q] PROVE TimersOf(q)' = {}
  <2>1. InUse(q)
    BY <1>1, <1>4 DEF Kept, ProvidersOK, ProviderOK, fields
  <2>2. TimersOf(q) = {}
    BY <1>1, <2>1 DEF InUse, TimersOf
  <2> QED BY <1>1, <2>2 DEF TimersOf
<1> QED BY <1>1, <1>3, <1>4, OwnedStays

LEMMA DisconnectedOwned ==
    ASSUME Kept, Owned, NEW p \in Providers, Disconnected(p)
    PROVE  Owned'
<1>1. /\ armed' \subseteq armed /\ UNCHANGED <<record, shadowed, raced, queue, req>>
      /\ open' = [c \in Conns |-> IF c[1] = p THEN 0 ELSE open[c]]
      /\ opener' = [c \in Conns |-> IF c[1] = p THEN NoUser ELSE opener[c]]
  BY DEF Disconnected
<1>2. /\ ~txActive'[p]
      /\ \A q \in Providers : q # p =>
            txActive'[q] = txActive[q] /\ txClient'[q] = txClient[q]
  BY DisconnectedKeeps
<1>3. \A c \in Conns : QueueStays(c)
  BY <1>1 DEF QueueStays
<1>4. ASSUME NEW c \in Conns, OnHisOwn(c) PROVE OnHisOwn(c)'
  <2>1. CASE c[1] = p
    BY <1>1, <2>1 DEF OnHisOwn
  <2>2. CASE c[1] # p
    BY <1>1, <1>3, <1>4, <2>2, OwnStays
  <2> QED BY <2>1, <2>2
<1>5. ASSUME NEW q \in Providers \ raced', txActive'[q], TimersOf(q)' # {}
      PROVE  /\ txActive[q] /\ TimersOf(q) # {} /\ txClient'[q] = txClient[q]
             /\ opener'[txClient[q]] = opener[txClient[q]]
             /\ RecordOf(q) => owner' = owner /\ ~lapsed'
  <2>1. q # p /\ txActive[q] /\ txClient'[q] = txClient[q] /\ TimersOf(q) # {}
    BY <1>1, <1>2, <1>5 DEF TimersOf
  <2>2. ProviderOK(q)
    BY <1>1, <1>5 DEF Kept, ProvidersOK
  <2>3. txClient[q] \in Conns /\ txClient[q][1] = q
    BY <2>1, <2>2, TheClient
  <2> QED BY <1>1, <2>1, <2>3 DEF RecordOf, record
<1> QED BY <1>1, <1>4, <1>5, OwnedStays

-----------------------------------------------------------------------------
(* The invariant.                                                          *)

LEMMA Begins == Init => LeaseInv
<1> SUFFICES ASSUME Init PROVE LeaseInv
  OBVIOUS
<1>1. MaxTx \in Nat /\ <<>> \in Waiting /\ Idle.pc = "off" /\ Idle \in Request
  BY LeaseAssumption DEF Waiting, Idle, Request
<1>2. /\ \A r \in Requests : req[r].pc = "off"
      /\ \A c \in Conns : Len(queue[c]) = 0
  BY <1>1 DEF Init
<1> HIDE DEF Idle
<1>3. TypeOK
  <2>1. /\ req \in [Requests -> Request] /\ queue \in [Conns -> Waiting]
        /\ opener \in [Conns -> Users \cup {NoUser}]
    BY <1>1 DEF Init
  <2>2. 0 \in 0..MaxTx
    BY <1>1
  <2>3. /\ txActive \in [Providers -> BOOLEAN]
        /\ txClient \in [Providers -> Conns \cup {NoConn}]
        /\ \A p \in Providers : txClient[p] = NoConn
        /\ txTimeout \in [Providers -> 0..MaxTx]
        /\ armed \subseteq Providers \X (1..MaxTx)
        /\ owner \in Users \cup {NoUser} /\ lapsed \in BOOLEAN
        /\ out \subseteq Conns /\ broken \subseteq Conns
        /\ open \in [Conns -> 0..MaxTx]
        /\ begun \in 0..MaxTx /\ raced \subseteq Providers
        /\ trespass \in BOOLEAN /\ shadowed \in BOOLEAN
        /\ misled \subseteq {"ended", "aborted"}
    BY <2>2 DEF Init
  <2> QED BY <1>2, <2>1, <2>3 DEF TypeOK
<1>4. Waits
  BY <1>2 DEF Waits
<1>5. ProvidersOK
  <2> SUFFICES ASSUME NEW p \in Providers PROVE ProviderOK(p)
    BY DEF ProvidersOK
  <2>1. BeginsAlone(p) /\ ~txActive[p]
    BY <1>2 DEF BeginsAlone, UnderWay, Init
  <2>2. \A c \in PoolOf(p) : ExpiryFirst(c) /\ BeginLast(c)
    BY <1>2 DEF ExpiryFirst, BeginLast, PoolOf
  <2>3. Resting(p)
    BY <1>2 DEF Init, Resting, TimersOf, PoolOf
  <2> QED BY <2>1, <2>2, <2>3 DEF ProviderOK
<1>6. Owned
  BY <1>2 DEF Init, Owned, RecordKept, RecordOf, ActsOnHisOwn, OnHisOwn
<1> QED BY <1>3, <1>4, <1>5, <1>6
        DEF LeaseInv, Kept, OnlyTheOpener, CommittedUnlessAborted, Init

\* What a step leaves of it besides the types.
Good == /\ Waits' /\ ProvidersOK' /\ Owned'
        /\ OnlyTheOpener' /\ CommittedUnlessAborted'

\* Nothing is said, and nobody acts on a transaction.
LEMMA NothingSaid ==
    ASSUME OnlyTheOpener, CommittedUnlessAborted,
           UNCHANGED <<trespass, misled>>, shadowed => shadowed'
    PROVE  OnlyTheOpener' /\ CommittedUnlessAborted'
BY DEF OnlyTheOpener, CommittedUnlessAborted

LEMMA PostKeeps ==
    ASSUME LeaseInv, NEW r \in Requests, NEW u \in Users, NEW p \in Providers,
           Post(r, u, p)
    PROVE  Good
<1>1. /\ Kept /\ Owned /\ OnlyTheOpener /\ CommittedUnlessAborted
      /\ TypeOK /\ Waits /\ ProvidersOK
  BY DEF LeaseInv, Kept
<1>2. ASSUME UNCHANGED <<trespass, misled>>, Reconcile(p)
      PROVE  OnlyTheOpener' /\ CommittedUnlessAborted'
  BY <1>1, <1>2, NothingSaid DEF Reconcile
<1>3. ASSUME NEW op \in Ops, AnsweredAtOnce(r, u, p, op) PROVE Good
  <2>1. /\ UNCHANGED <<fields, armed, queue, open, req, raced>> /\ Reconcile(p)
        /\ UNCHANGED <<opener, trespass, misled>>
    BY <1>3 DEF AnsweredAtOnce, provider, database
  <2>2. UNCHANGED <<txActive, txClient, armed, open, opener>>
    BY <2>1 DEF fields
  <2>3. \A c \in Conns : QueueStays(c)
    BY <2>1 DEF QueueStays
  <2>4. raced \subseteq raced'
    BY <2>1
  <2>5. Owned'
    BY <1>1, <2>1, <2>2, <2>3, <2>4, ReadingOwned
  <2> QED BY <1>1, <1>2, <2>1, <2>5, QuietSteps DEF Good
<1>4. CASE Begin(r, u, p)
  <2>1. /\ Reconcile(p) /\ UNCHANGED <<opener, trespass, misled>>
        /\ Goes(r, u, p, "begin", "connecting", begun + 1) /\ begun < MaxTx
        /\ UNCHANGED <<txActive, txClient, armed, open>> /\ queue' = queue
        /\ raced \subseteq raced'
    BY <1>4 DEF Begin, Goes, provider, fields, database
  <2>2. begun + 1 \in 0..MaxTx
    BY <1>1, <2>1, LeaseAssumption DEF TypeOK
  <2>3. (\A s \in Requests : s # r => req'[s] = req[s]) /\ req[r].pc = "off"
    BY <1>1, <2>1, <2>2, GoesOn
  <2>4. \A c \in Conns : QueueStays(c)
    BY <1>1, <2>1, <2>3, AllQueuesLeft
  <2>5. UNCHANGED <<txActive, txClient, armed, open, opener>>
    BY <2>1
  <2>6. Owned'
    BY <1>1, <2>1, <2>4, <2>5, ReadingOwned
  <2> QED BY <1>1, <1>2, <1>4, <2>1, <2>6, BeginKeeps DEF Good
<1>5. ASSUME NEW op \in Ops, End(r, u, p, op) PROVE Good
  <2>1. /\ op \in {"commit", "rollback", "query"}
        /\ InTransaction(p) /\ Goes(r, u, p, op, "sent", 0)
        /\ Send(r, txClient[p])
        /\ UNCHANGED <<open, raced, txActive, txClient>>
        /\ armed' \subseteq armed
    BY <1>5 DEF End, ClearTxTimeout
  <2>2. Reconcile(p) /\ UNCHANGED <<trespass, misled>>
    BY <2>1 DEF Goes
  <2>3. Owned'
    BY <1>1, <2>1, CommandOwned
  <2> QED BY <1>1, <1>2, <1>5, <2>2, <2>3, EndKeeps DEF Good
<1>6. CASE Query(r, u, p)
  <2>1. /\ "query" \in {"commit", "rollback", "query"}
        /\ InTransaction(p) /\ Goes(r, u, p, "query", "sent", 0)
        /\ Send(r, txClient[p])
        /\ UNCHANGED <<open, raced, txActive, txClient>>
        /\ armed' \subseteq armed
    BY <1>6 DEF Query, provider, fields
  <2>2. Reconcile(p) /\ UNCHANGED <<trespass, misled>>
    BY <2>1 DEF Goes
  <2>3. Owned'
    BY <1>1, <2>1, CommandOwned
  <2> QED BY <1>1, <1>2, <1>6, <2>2, <2>3, QueryKeeps DEF Good
<1> QED BY <1>3, <1>4, <1>5, <1>6 DEF Post

LEMMA AnswerKeeps ==
    ASSUME LeaseInv, NEW c \in Conns, Answered(c)
    PROVE  Good
<1>1. Kept /\ Owned /\ OnlyTheOpener /\ CommittedUnlessAborted
  BY DEF LeaseInv
<1>2. CASE BeginAnswered(c)
  <2>1. UNCHANGED <<trespass, misled>> /\ (shadowed => shadowed')
    BY <1>2 DEF BeginAnswered
  <2> QED BY <1>1, <1>2, <2>1, BeginAnsweredKeeps, BeginAnsweredOwned,
             NothingSaid DEF Good
<1>3. CASE BeginFails(c)
  <2>1. PICK r \in Requests : r = Head(queue[c])
    BY <1>3 DEF BeginFails
  <2>2. /\ queue[c] # <<>> /\ Answer(c) /\ Leave(r) /\ req[r].op = "begin"
        /\ UNCHANGED <<fields, armed, open, record, history>>
    BY <1>3, <2>1 DEF BeginFails, provider
  <2>3. /\ UNCHANGED <<txActive, txClient, armed, open, raced, opener, shadowed,
                       owner>>
        /\ lapsed' \in {FALSE, lapsed} /\ req[r].op \notin {"commit", "rollback"}
    BY <2>2 DEF fields, record, history
  <2>4. Owned'
    BY <1>1, <2>1, <2>2, <2>3, OnlyAnsweredOwned
  <2>5. UNCHANGED <<trespass, misled>> /\ (shadowed => shadowed')
    BY <2>2 DEF history
  <2> QED BY <1>1, <1>3, <2>4, <2>5, BeginFailsKeeps, NothingSaid DEF Good
<1>4. CASE QueryAnswered(c)
  <2>1. PICK r \in Requests : r = Head(queue[c])
    BY <1>4 DEF QueryAnswered
  <2>2. /\ queue[c] # <<>> /\ Answer(c) /\ Leave(r) /\ req[r].op = "query"
        /\ UNCHANGED <<fields, armed, open, owner, raced, opener, shadowed>>
        /\ UNCHANGED misled
        /\ trespass' = (trespass \/ Trespasses(r, c))
    BY <1>4, <2>1 DEF QueryAnswered, provider
  <2>3. lapsed' \in {FALSE, lapsed}
    BY <1>4 DEF QueryAnswered, QuerySucceeds, QueryFails
  <2>4. /\ UNCHANGED <<txActive, txClient, armed, open, raced, opener, shadowed,
                       owner>>
        /\ req[r].op \notin {"commit", "rollback"}
    BY <2>2 DEF fields
  <2>5. Owned'
    BY <1>1, <2>1, <2>2, <2>3, <2>4, OnlyAnsweredOwned
  <2>6. OnlyTheOpener'
    <3>1. req[r].op # "begin" /\ (shadowed => shadowed')
      BY <2>2
    <3> QED BY <1>1, <2>1, <2>2, <3>1, NotTrespassing
  <2>7. CommittedUnlessAborted'
    BY <1>1, <2>2 DEF CommittedUnlessAborted
  <2> QED BY <1>1, <1>4, <2>5, <2>6, <2>7, QueryAnsweredKeeps DEF Good
<1>5. CASE EndAnswered(c)
  BY <1>1, <1>5, EndAnsweredKeeps, EndAnsweredOwned DEF Good
<1>6. CASE ExpiryAnswered(c)
  <2>1. UNCHANGED <<trespass, misled>> /\ (shadowed => shadowed')
    BY <1>6 DEF ExpiryAnswered
  <2> QED BY <1>1, <1>6, <2>1, ExpiryAnsweredKeeps, ExpiryAnsweredOwned,
             NothingSaid DEF Good
<1> QED BY <1>2, <1>3, <1>4, <1>5, <1>6 DEF Answered

LEMMA Continues == LeaseInv /\ [Next]_vars => LeaseInv'
<1> SUFFICES ASSUME LeaseInv, [Next]_vars PROVE LeaseInv'
  OBVIOUS
<1>1. /\ Kept /\ Owned /\ OnlyTheOpener /\ CommittedUnlessAborted
      /\ TypeOK /\ Waits /\ ProvidersOK
  BY DEF LeaseInv, Kept
<1>2. TypeOK'
  BY <1>1, TypesStay
<1>3. ASSUME NEW r \in Requests, Connected(r) PROVE Good
  <2>1. UNCHANGED <<trespass, misled>> /\ (shadowed => shadowed')
    BY <1>3 DEF Connected, history
  <2> QED BY <1>1, <1>3, <2>1, ConnectedKeeps, ConnectedOwned, NothingSaid
          DEF Good
<1>4. ASSUME NEW r \in Requests, ConnectFails(r) PROVE Good
  <2>1. /\ UNCHANGED <<record, shadowed, raced, opener, open>>
        /\ UNCHANGED <<trespass, misled>> /\ (shadowed => shadowed')
        /\ UNCHANGED <<txActive, txClient>>
        /\ armed' \subseteq armed /\ queue' = queue
        /\ req[r].pc # "sent" /\ Leave(r)
    BY <1>4 DEF ConnectFails, provider, fields, record, database, history
  <2>2. \A s \in Requests : s # r => req'[s] = req[s]
    BY <1>1, <2>1, Leaves
  <2>3. \A c \in Conns : QueueStays(c)
    BY <1>1, <2>1, <2>2, AllQueuesLeft
  <2>4. Owned'
    BY <1>1, <2>1, <2>3, UnrecordedOwned
  <2> QED BY <1>1, <1>4, <2>1, <2>4, ConnectFailsKeeps, NothingSaid DEF Good
<1>5. ASSUME NEW p \in Providers, NEW t \in 1..MaxTx, TimerFires(p, t)
      PROVE  Good
  <2>1. UNCHANGED <<trespass, misled>> /\ (shadowed => shadowed')
    BY <1>5 DEF TimerFires, history
  <2> QED BY <1>1, <1>5, <2>1, TimerKeeps, TimerOwned, NothingSaid DEF Good
<1>6. ASSUME LeaseLapses PROVE Good
  <2>1. /\ UNCHANGED <<fields, armed, queue, open, req, raced>>
        /\ UNCHANGED <<trespass, misled>> /\ (shadowed => shadowed')
    BY <1>6 DEF LeaseLapses, history, provider, database
  <2> QED BY <1>1, <1>6, <2>1, QuietSteps, LapseOwned, NothingSaid DEF Good
<1>7. ASSUME NEW p \in Providers, Disconnected(p) PROVE Good
  <2>1. UNCHANGED <<trespass, misled>> /\ (shadowed => shadowed')
    BY <1>7 DEF Disconnected
  <2> QED BY <1>1, <1>7, <2>1, DisconnectedKeeps, DisconnectedOwned, NothingSaid
          DEF Good
<1>8. ASSUME \/ \E p \in Providers : Disconnect(p)
             \/ UNCHANGED vars
      PROVE  Good
  <2>1. /\ UNCHANGED <<fields, armed, queue, open, req, raced>>
        /\ UNCHANGED <<record, shadowed, raced, opener, open>>
        /\ UNCHANGED <<trespass, misled>> /\ (shadowed => shadowed')
    BY <1>8 DEF Disconnect, vars, provider, record, database, history
  <2>2. /\ UNCHANGED <<txActive, txClient>> /\ armed' \subseteq armed
        /\ \A c \in Conns : QueueStays(c)
    BY <2>1 DEF fields, QueueStays
  <2>3. Owned'
    BY <1>1, <2>1, <2>2, UnrecordedOwned
  <2> QED BY <1>1, <2>1, <2>3, QuietSteps, NothingSaid DEF Good
<1>9. ASSUME NEW r \in Requests, NEW u \in Users, NEW p \in Providers,
             Post(r, u, p)
      PROVE  Good
  BY <1>9, PostKeeps
<1>10. ASSUME NEW c \in Conns, Answered(c) PROVE Good
  BY <1>10, AnswerKeeps
<1>11. Good
  BY <1>3, <1>4, <1>5, <1>6, <1>7, <1>8, <1>9, <1>10 DEF Next
<1> QED BY <1>2, <1>11 DEF Good, LeaseInv, Kept

-----------------------------------------------------------------------------
(* The theorems, under any overlap of the requests.                        *)

LEMMA AlwaysLeased == Spec => []LeaseInv
<1>1. Init => LeaseInv
  BY Begins
<1>2. LeaseInv /\ [Next]_vars => LeaseInv'
  BY Continues
<1> QED BY <1>1, <1>2, PTL DEF Spec

\* A transaction the server holds open is known to its provider, and its timer
\* is set or its end or expiry is on the way (beginTransaction, setTxTimeout,
\* expireTransaction), as long as no begin over the provider met another or an
\* end: a lock is never left behind.
THEOREM LocksAreReleased == Spec => []NoLeakedLocks
<1>1. LeaseInv => NoLeakedLocks
  <2> SUFFICES ASSUME LeaseInv, NEW c \in Conns, open[c] # 0, c[1] \notin raced
               PROVE  /\ txActive[c[1]] /\ txClient[c[1]] = c
                      /\ \/ <<c[1], open[c]>> \in armed
                         \/ \E i \in DOMAIN queue[c] :
                               \/ queue[c][i] = Expiry
                               \/ /\ queue[c][i] \in Requests
                                  /\ req[queue[c][i]].op
                                        \in {"commit", "rollback"}
    BY DEF NoLeakedLocks
  <2>1. TypeOK /\ ProviderOK(c[1]) /\ c[1] \in Providers /\ c \in PoolOf(c[1])
    BY OfAPool DEF LeaseInv, Kept, ProvidersOK
  <2>2. txActive[c[1]]
    BY <2>1 DEF ProviderOK, Resting
  <2>3. /\ txClient[c[1]] = c
        /\ EndOnTheWay(c) \/ TimersOf(c[1]) = {<<c[1], open[c]>>}
    BY <2>1, <2>2 DEF ProviderOK, InUse
  <2>4. CASE TimersOf(c[1]) = {<<c[1], open[c]>>}
    BY <2>2, <2>3, <2>4 DEF TimersOf
  <2>5. CASE EndOnTheWay(c)
    <3>1. PICK i \in 1..Len(queue[c]) : Ending(queue[c][i])
      BY <2>5 DEF EndOnTheWay
    <3>2. i \in DOMAIN queue[c] /\ queue[c][i] \in Requests \cup {Expiry}
      <4>1. queue[c] \in Seq(Requests \cup {Expiry})
        BY <2>1 DEF TypeOK, Waiting
      <4> QED BY <4>1
    <3> QED BY <2>2, <2>3, <3>1, <3>2 DEF Ending
  <2> QED BY <2>3, <2>4, <2>5
<1> QED BY <1>1, AlwaysLeased, PTL

\* A timer is that of the transaction its provider's client has open: none
\* outlives its transaction into the next one (clearTxTimeout), as long as no
\* begin over the provider met another or an end.
THEOREM TimersDieWithTheirTransaction == Spec => []TimersAreOfThisTransaction
<1>1. LeaseInv => TimersAreOfThisTransaction
  <2> SUFFICES ASSUME LeaseInv, NEW t \in armed, t[1] \notin raced
               PROVE  /\ txClient[t[1]] # NoConn
                      /\ open[txClient[t[1]]] = t[2]
    BY DEF TimersAreOfThisTransaction
  <2>1. ProvidersOK /\ TypeOK
    BY DEF LeaseInv, Kept
  <2>2. PICK p \in Providers : p = t[1]
    BY <2>1 DEF TypeOK
  <2>3. t \in TimersOf(p) /\ ProviderOK(p)
    BY <2>1, <2>2 DEF TimersOf, ProvidersOK
  <2>4. txActive[p]
    BY <2>3 DEF ProviderOK, Resting
  <2>5. /\ TimersOf(p) = {<<p, open[txClient[p]]>>}
        /\ txClient[p] # NoConn
    BY <2>3, <2>4, TheClient DEF ProviderOK, InUse
  <2> QED BY <2>2, <2>3, <2>5
<1> QED BY <1>1, AlwaysLeased, PTL

\* A transaction with no live record can be ended by whoever comes: the
\* provider still has its client (transaction-ownership.ts), as long as no
\* begin over it met another or an end.
THEOREM UnownedCanBeEnded == Spec => []EscapeHatchUnlessRaced
<1>1. LeaseInv => EscapeHatchUnlessRaced
  <2> SUFFICES ASSUME LeaseInv, NEW p \in Providers \ raced, txActive[p]
               PROVE  InTransaction(p)
    BY DEF EscapeHatchUnlessRaced, Escapable
  <2>1. ProviderOK(p)
    BY DEF LeaseInv, Kept, ProvidersOK
  <2> QED BY <2>1, TheClient DEF InTransaction
<1> QED BY <1>1, AlwaysLeased, PTL

\* The 409 of the route: whoever acts on a transaction began it or found it
\* without an owner, also when requests of several sessions are under way, as
\* long as no call over another provider of the id took its record and no begin
\* met another or an end.
THEOREM OnlyTheOpenerActs == Spec => []OnlyTheOpener
<1>1. LeaseInv => OnlyTheOpener
  BY DEF LeaseInv
<1> QED BY <1>1, AlwaysLeased, PTL

\* Nobody is told "committed" for a transaction that had ended: the answer of
\* commitTransaction finds its client gone and throws.
THEOREM CommittedIsTrue == Spec => []CommittedUnlessAborted
<1>1. LeaseInv => CommittedUnlessAborted
  BY DEF LeaseInv
<1> QED BY <1>1, AlwaysLeased, PTL
=============================================================================
