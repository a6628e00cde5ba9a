------------------------ MODULE ProviderCacheProofs ------------------------
(***************************************************************************)
(* Proofs about ProviderCache, for any callers, keys, timeouts, providers  *)
(* and forwards.  What makes the cache safe is who has a provider in hand: *)
(* the call that opens it, or the one call or closer that disconnects it.  *)
(* The first half of the invariant holds whatever races; the second half,  *)
(* that what stands under a key is what the hand working on it left there, *)
(* holds until one of the races the code admits has happened.              *)
(***************************************************************************)
EXTENDS ProviderCache, TLAPS

Call ==
    [pc : {"off", "retiming", "tunnelling", "connecting"},
     key : Keys \cup {NoKey}, tmo : Timeouts \cup {NoKey},
     prov : Providers \cup {NoProvider}, fwd : Forwards \cup {NoForward},
     fresh : BOOLEAN]

Closer ==
    [phase : {"off", "shared", "profiled"}, at : Keys \cup {NoKey},
     prov : Providers \cup {NoProvider}]

\* A call under way has a key and a provider, a fresh forward is a forward.
CallShape(q) ==
    /\ q.pc = "off" => q = NoCall
    /\ q.pc # "off" =>
          q.key \in Keys /\ q.tmo \in Timeouts /\ q.prov \in Providers
    /\ q.fresh => q.pc # "off" /\ q.fwd \in Forwards
    /\ q.pc = "tunnelling" => q.fresh

TypeOK ==
    /\ cache \in [Keys -> Providers \cup {NoProvider}]
    /\ prov \in [Providers -> {"none", "opening", "up", "ending"}]
    /\ pool \in Forwards \cup {NoForward}
    /\ fwd \in [Forwards -> {"none", "opening", "live"}]
    /\ oneshot \in Forwards \cup {NoForward}
    /\ call \in [Callers -> Call]
    /\ \A c \in Callers : CallShape(call[c])
    /\ closer \in [Closers -> Closer]
    /\ \A x \in Closers :
          closer[x].prov # NoProvider <=> closer[x].at # NoKey

-----------------------------------------------------------------------------
(* Providers: each is in one hand at a time.                               *)

Opening(c) == call[c].pc \in {"tunnelling", "connecting"}

\* A cached provider is one that says it is connected, under one key.
CachedOnce ==
    /\ \A k \in Keys : cache[k] # NoProvider => Connected(cache[k])
    /\ \A j, k \in Keys : cache[j] = cache[k] /\ cache[k] # NoProvider => j = k

\* No two calls, no two closers and no call and closer have the same provider.
HandsApart ==
    /\ \A c, d \in Callers :
          call[c].prov = call[d].prov /\ call[c].prov # NoProvider => c = d
    /\ \A x, y \in Closers :
          closer[x].prov = closer[y].prov /\ closer[x].prov # NoProvider => x = y
    /\ \A c \in Callers, x \in Closers :
          call[c].prov = closer[x].prov => call[c].prov = NoProvider

\* What a call opens is opening, and what anyone disconnects is ending, and
\* cached, if at all, where it was found.
InHand ==
    /\ \A c \in Callers : Opening(c) => prov[call[c].prov] = "opening"
    /\ \A c \in Callers : call[c].pc = "retiming" =>
          /\ prov[call[c].prov] = "ending"
          /\ \A k \in Keys : cache[k] = call[c].prov => k = call[c].key
    /\ \A x \in Closers : closer[x].at # NoKey =>
          /\ prov[closer[x].prov] = "ending"
          /\ \A k \in Keys : cache[k] = closer[x].prov => k = closer[x].at

ProvidersHeld == CachedOnce /\ HandsApart /\ InHand

\* Until two acquisitions opened one key, or two disconnects met.
Calm == raced \cap {"open", "disconnect"} = {}

KeysApart ==
    \A c, d \in Callers :
        call[c].pc # "off" /\ call[d].pc # "off" /\ call[c].key = call[d].key
        => c = d

\* Nothing stands under a key that is being opened; what is being disconnected
\* still stands under the key where it was found.
KeysKept ==
    /\ \A c \in Callers : Opening(c) => cache[call[c].key] = NoProvider
    /\ \A c \in Callers :
          call[c].pc = "retiming" => cache[call[c].key] = call[c].prov
    /\ \A x \in Closers :
          closer[x].at # NoKey => cache[closer[x].at] = closer[x].prov

CalmlyKept == Calm => KeysApart /\ KeysKept /\ NothingOrphaned

-----------------------------------------------------------------------------
(* Forwards.                                                               *)

\* The one-shot forward is nobody else's, and neither is one being opened.
ForwardsApart ==
    /\ oneshot # NoForward =>
          pool # oneshot /\ \A c \in Callers : call[c].fwd # oneshot
    /\ \A c \in Callers : call[c].pc = "tunnelling" =>
          /\ fwd[call[c].fwd] = "opening"
          /\ \A d \in Callers \ {c} : call[d].fwd # call[c].fwd

\* Until two calls opened a forward at once, only one has a forward that was
\* not there when it asked, and the pool has that forward or none.
FreshOnce ==
    /\ \A c, d \in Callers : call[c].fresh /\ call[d].fresh => c = d
    /\ \A c \in Callers : call[c].fresh =>
          pool = NoForward \/ (pool = call[c].fwd /\ call[c].pc = "connecting")

ForwardsKept == "forward" \notin raced => FreshOnce /\ ForwardsAreTaken

CacheInv ==
    /\ TypeOK
    /\ ProvidersHeld /\ CalmlyKept
    /\ PoolHoldsLiveForwards /\ ForwardsApart /\ ForwardsKept

-----------------------------------------------------------------------------
(* Types.                                                                  *)

LEMMA NoCallShape == NoCall \in Call /\ CallShape(NoCall)
BY CacheAssumption DEF NoCall, Call, CallShape

LEMMA CallFacts ==
    ASSUME TypeOK, NEW c \in Callers
    PROVE  /\ call[c] \in Call /\ CallShape(call[c])
           /\ call[c].pc \in {"off", "retiming", "tunnelling", "connecting"}
           /\ call[c].key \in Keys \cup {NoKey}
           /\ call[c].prov \in Providers \cup {NoProvider}
           /\ call[c].fwd \in Forwards \cup {NoForward}
           /\ call[c].pc # "off" =>
                 /\ call[c].key \in Keys /\ call[c].tmo \in Timeouts
                 /\ call[c].prov \in Providers
           /\ call[c].pc = "off" => call[c] = NoCall
           /\ call[c].fresh => call[c].pc # "off" /\ call[c].fwd \in Forwards
           /\ call[c].pc = "tunnelling" => call[c].fresh
           /\ NoProvider \notin Providers /\ NoForward \notin Forwards
           /\ NoKey \notin Keys
BY CacheAssumption DEF TypeOK, Call, CallShape

LEMMA CloserFacts ==
    ASSUME TypeOK, NEW x \in Closers
    PROVE  /\ closer[x] \in Closer
           /\ closer[x].at \in Keys \cup {NoKey}
           /\ closer[x].prov \in Providers \cup {NoProvider}
           /\ closer[x].at # NoKey => closer[x].at \in Keys
           /\ closer[x].at # NoKey => closer[x].prov \in Providers
           /\ closer[x].prov # NoProvider => closer[x].at # NoKey
BY DEF TypeOK, Closer

\* A step that changes one call, and how.
LEMMA CallSet ==
    ASSUME TypeOK, NEW c \in Callers, NEW q \in Call, CallShape(q),
           call' = [call EXCEPT ![c] = q]
    PROVE  /\ call' \in [Callers -> Call]
           /\ \A d \in Callers : CallShape(call'[d])
           /\ call'[c] = q
           /\ \A d \in Callers \ {c} : call'[d] = call[d]
BY DEF TypeOK

LEMMA CloseForwardType ==
    ASSUME TypeOK, NEW f \in Forwards \cup {NoForward}, CloseForward(f)
    PROVE  /\ fwd' \in [Forwards -> {"none", "opening", "live"}]
           /\ pool' \in Forwards \cup {NoForward}
BY DEF TypeOK, CloseForward, Unpool

LEMMA ClosePooledType ==
    ASSUME TypeOK, ClosePooled
    PROVE  /\ fwd' \in [Forwards -> {"none", "opening", "live"}]
           /\ pool' \in Forwards \cup {NoForward}
BY DEF TypeOK, ClosePooled, Unpool

\* What an acquisition does once nothing usable stands under its key: it
\* borrows, it opens a forward first, or it connects over what is pooled.
LEMMA OpenFacts ==
    ASSUME TypeOK, NEW c \in Callers, NEW k \in Keys, NEW t \in Timeouts,
           NEW ended, NEW races, Open(c, k, t, ended, races)
    PROVE  /\ cache' = Without(k)
           /\ cache' \in [Keys -> Providers \cup {NoProvider}]
           /\ call' \in [Callers -> Call]
           /\ \A d \in Callers : CallShape(call'[d])
           /\ \A d \in Callers \ {c} : call'[d] = call[d]
           /\ raced \cup races \subseteq raced'
           /\ \/ call'[c] = NoCall /\ prov' = AfterEnd(ended) /\ fwd' = fwd
              \/ \E p \in Providers :
                    /\ AfterEnd(ended)[p] = "none"
                    /\ prov' = [AfterEnd(ended) EXCEPT ![p] = "opening"]
                    /\ call'[c].key = k /\ call'[c].prov = p
                    /\ \A d \in Callers \ {c} : call[d].key = k
                                                 => "open" \in raced'
                    /\ \/ /\ call'[c].pc = "connecting" /\ ~call'[c].fresh
                          /\ call'[c].fwd = pool /\ fwd' = fwd
                       \/ /\ call'[c].pc = "tunnelling" /\ call'[c].fresh
                          /\ pool = NoForward
                          /\ call'[c].fwd \in FreeForwards
                          /\ fwd' = [fwd EXCEPT ![call'[c].fwd] = "opening"]
                          /\ \A d \in Callers \ {c} :
                                call[d].fresh => "forward" \in raced'
<1>1. CASE Borrowable(k)
  <2>1. /\ cache' = Without(k) /\ prov' = AfterEnd(ended) /\ fwd' = fwd
        /\ call' = [call EXCEPT ![c] = NoCall] /\ raced' = raced \cup races
    BY <1>1 DEF Open, Borrow, Quit, Race
  <2>2. cache' \in [Keys -> Providers \cup {NoProvider}]
    BY <2>1 DEF TypeOK, Without
  <2> QED
    BY <2>1, <2>2, CallSet, NoCallShape
<1>2. CASE ~Borrowable(k)
  <2>1. /\ cache' = Without(k)
        /\ raced' = raced \cup races
             \cup {"open" : d \in {e \in Callers \ {c} : call[e].key = k}}
             \cup {"forward" : d \in {e \in Callers \ {c} :
                                        pool = NoForward /\ call[e].fresh}}
    BY <1>2 DEF Open, Race
  <2>2. PICK p \in Providers :
          /\ AfterEnd(ended)[p] = "none"
          /\ prov' = [AfterEnd(ended) EXCEPT ![p] = "opening"]
          /\ \/ /\ engine = "tunnelled" /\ pool = NoForward
                /\ \E f \in FreeForwards :
                     /\ fwd' = [fwd EXCEPT ![f] = "opening"]
                     /\ call' = [call EXCEPT ![c] =
                          [pc |-> "tunnelling", key |-> k, tmo |-> t,
                           prov |-> p, fwd |-> f, fresh |-> TRUE]]
             \/ /\ engine = "tunnelled" => pool # NoForward
                /\ call' = [call EXCEPT ![c] =
                     [pc |-> "connecting", key |-> k, tmo |-> t,
                      prov |-> p, fwd |-> pool, fresh |-> FALSE]]
                /\ UNCHANGED fwd
    BY <1>2 DEF Open
  <2>3. cache' \in [Keys -> Providers \cup {NoProvider}]
    BY <2>1 DEF TypeOK, Without
  <2>4. CASE /\ pool = NoForward
             /\ \E f \in FreeForwards :
                  /\ fwd' = [fwd EXCEPT ![f] = "opening"]
                  /\ call' = [call EXCEPT ![c] =
                       [pc |-> "tunnelling", key |-> k, tmo |-> t,
                        prov |-> p, fwd |-> f, fresh |-> TRUE]]
    <3>1. PICK f \in FreeForwards :
            /\ fwd' = [fwd EXCEPT ![f] = "opening"]
            /\ call' = [call EXCEPT ![c] =
                 [pc |-> "tunnelling", key |-> k, tmo |-> t,
                  prov |-> p, fwd |-> f, fresh |-> TRUE]]
      BY <2>4
    <3> DEFINE q == [pc |-> "tunnelling", key |-> k, tmo |-> t,
                     prov |-> p, fwd |-> f, fresh |-> TRUE]
    <3>2. f \in Forwards
      BY DEF FreeForwards
    <3>3. q \in Call /\ CallShape(q)
      BY <3>2 DEF Call, CallShape
    <3>4. /\ q.pc = "tunnelling" /\ q.key = k /\ q.prov = p /\ q.fwd = f
          /\ q.fresh
      OBVIOUS
    <3> HIDE DEF q
    <3>5. /\ call' \in [Callers -> Call]
          /\ \A d \in Callers : CallShape(call'[d])
          /\ call'[c] = q
          /\ \A d \in Callers \ {c} : call'[d] = call[d]
      BY <3>1, <3>3, CallSet DEF q
    <3>6. /\ \A d \in Callers \ {c} : call[d].key = k => "open" \in raced'
          /\ \A d \in Callers \ {c} : call[d].fresh => "forward" \in raced'
      BY <2>1, <2>4
    <3> QED
      BY <2>1, <2>2, <2>3, <2>4, <3>1, <3>4, <3>5, <3>6
  <2>5. CASE /\ call' = [call EXCEPT ![c] =
                  [pc |-> "connecting", key |-> k, tmo |-> t,
                   prov |-> p, fwd |-> pool, fresh |-> FALSE]]
             /\ UNCHANGED fwd
    <3> DEFINE q == [pc |-> "connecting", key |-> k, tmo |-> t,
                     prov |-> p, fwd |-> pool, fresh |-> FALSE]
    <3>1. q \in Call /\ CallShape(q)
      BY DEF Call, CallShape, TypeOK
    <3>2. /\ q.pc = "connecting" /\ q.key = k /\ q.prov = p /\ q.fwd = pool
          /\ ~q.fresh
      OBVIOUS
    <3> HIDE DEF q
    <3>3. /\ call' \in [Callers -> Call]
          /\ \A d \in Callers : CallShape(call'[d])
          /\ call'[c] = q
          /\ \A d \in Callers \ {c} : call'[d] = call[d]
      BY <2>5, <3>1, CallSet DEF q
    <3>4. \A d \in Callers \ {c} : call[d].key = k => "open" \in raced'
      BY <2>1
    <3> QED
      BY <2>1, <2>2, <2>3, <2>5, <3>2, <3>3, <3>4
  <2> QED
    BY <2>2, <2>4, <2>5
<1> QED
  BY <1>1, <1>2

LEMMA OpenType ==
    ASSUME TypeOK, NEW c \in Callers, NEW k \in Keys, NEW t \in Timeouts,
           NEW ended, NEW races, Open(c, k, t, ended, races),
           UNCHANGED <<pool, oneshot, closer>>
    PROVE  TypeOK'
<1>1. AfterEnd(ended) \in [Providers -> {"none", "opening", "up", "ending"}]
  BY DEF AfterEnd, TypeOK
<1>2. prov' \in [Providers -> {"none", "opening", "up", "ending"}]
  BY <1>1, OpenFacts
<1>3. fwd' \in [Forwards -> {"none", "opening", "live"}]
  BY OpenFacts DEF TypeOK
<1>4. /\ cache' \in [Keys -> Providers \cup {NoProvider}]
      /\ call' \in [Callers -> Call]
      /\ \A d \in Callers : CallShape(call'[d])
  BY OpenFacts
<1> QED
  BY <1>2, <1>3, <1>4 DEF TypeOK

\* A retiming takes the provider of its key in hand.
LEMMA RetimeFacts ==
    ASSUME TypeOK, NEW c \in Callers, NEW k \in Keys, NEW t \in Timeouts,
           Retime(c, k, t)
    PROVE  /\ call' \in [Callers -> Call]
           /\ \A d \in Callers : CallShape(call'[d])
           /\ \A d \in Callers \ {c} : call'[d] = call[d]
           /\ call'[c].pc = "retiming" /\ call'[c].key = k
           /\ call'[c].prov = cache[k] /\ cache[k] \in Providers
           /\ call'[c].fwd = NoForward /\ ~call'[c].fresh
           /\ call[c] = NoCall
           /\ prov[cache[k]] = "up"
           /\ prov' = [prov EXCEPT ![cache[k]] = "ending"]
<1> DEFINE p == cache[k]
           q == [NoCall EXCEPT !.pc = "retiming", !.key = k, !.tmo = t,
                               !.prov = p]
<1>1. p \in Providers
  BY DEF Retime, TypeOK
<1>2. call' = [call EXCEPT ![c] = q]
  BY DEF Retime
<1> HIDE DEF p
<1>3. q = [NoCall EXCEPT !.pc = "retiming", !.key = k, !.tmo = t, !.prov = p]
  OBVIOUS
<1> HIDE DEF q
<1>4. /\ q.pc = "retiming" /\ q.key = k /\ q.tmo = t /\ q.prov = p
      /\ q.fwd = NoForward /\ ~q.fresh
  BY <1>3 DEF NoCall
<1>5. q \in Call
  BY <1>1, <1>3, NoCallShape DEF Call
<1>6. CallShape(q)
  BY <1>1, <1>4 DEF CallShape
<1>7. /\ call' \in [Callers -> Call]
      /\ \A d \in Callers : CallShape(call'[d])
      /\ call'[c] = q
      /\ \A d \in Callers \ {c} : call'[d] = call[d]
  BY <1>2, <1>5, <1>6, CallSet
<1>8. call[c] = NoCall
  BY CallFacts DEF Retime, MayAcquire
<1> QED
  BY <1>1, <1>4, <1>7, <1>8 DEF Retime, p

LEMMA AcquireType ==
    ASSUME TypeOK, NEW c \in Callers, NEW k \in Keys, NEW t \in Timeouts,
           Acquire(c, k, t)
    PROVE  TypeOK'
<1>1. CASE Hit(c, k, t)
  BY <1>1 DEF Hit, TypeOK, forwards
<1>2. CASE Miss(c, k, t)
  BY <1>2, OpenType DEF Miss
<1>3. CASE Retime(c, k, t)
  <2>1. prov' \in [Providers -> {"none", "opening", "up", "ending"}]
    BY <1>3 DEF Retime, TypeOK
  <2> QED
    BY <1>3, <2>1, RetimeFacts DEF Retime, TypeOK, forwards
<1>4. CASE RetimeRefused(c, k, t)
  BY <1>4, OpenType DEF RetimeRefused
<1> QED
  BY <1>1, <1>2, <1>3, <1>4 DEF Acquire

LEMMA QuitType ==
    ASSUME TypeOK, NEW c \in Callers, Quit(c)
    PROVE  /\ call' \in [Callers -> Call]
           /\ \A d \in Callers : CallShape(call'[d])
           /\ call'[c] = NoCall
           /\ \A d \in Callers \ {c} : call'[d] = call[d]
BY CallSet, NoCallShape DEF Quit

\* A forward that opened: its call goes on to connect.
LEMMA ForwardOpenedFacts ==
    ASSUME TypeOK, NEW c \in Callers, ForwardOpened(c)
    PROVE  /\ call' \in [Callers -> Call]
           /\ \A d \in Callers : CallShape(call'[d])
           /\ \A d \in Callers \ {c} : call'[d] = call[d]
           /\ call'[c].pc = "connecting" /\ call'[c].fresh
           /\ call'[c].key = call[c].key /\ call'[c].prov = call[c].prov
           /\ call'[c].fwd = call[c].fwd
           /\ call[c].pc = "tunnelling" /\ call[c].fwd \in Forwards
           /\ pool' = call[c].fwd
           /\ fwd' = [fwd EXCEPT ![call[c].fwd] = "live"]
<1> DEFINE q == [call[c] EXCEPT !.pc = "connecting"]
<1>1. /\ call[c] \in Call /\ CallShape(call[c]) /\ call[c].pc = "tunnelling"
  BY CallFacts DEF ForwardOpened
<1>2. q \in Call /\ CallShape(q)
  BY <1>1 DEF Call, CallShape
<1>3. /\ q.pc = "connecting" /\ q.fresh /\ q.key = call[c].key
      /\ q.prov = call[c].prov /\ q.fwd = call[c].fwd
  BY <1>1 DEF Call, CallShape
<1>4. call' = [call EXCEPT ![c] = q]
  BY DEF ForwardOpened
<1> HIDE DEF q
<1>5. /\ call' \in [Callers -> Call]
      /\ \A d \in Callers : CallShape(call'[d])
      /\ call'[c] = q
      /\ \A d \in Callers \ {c} : call'[d] = call[d]
  BY <1>2, <1>4, CallSet
<1> QED
  BY <1>1, <1>3, <1>5, CallFacts DEF ForwardOpened

LEMMA GoOnType ==
    ASSUME TypeOK, NEW c \in Callers, GoOn(c)
    PROVE  TypeOK'
<1>1. CASE Retimed(c)
  <2>1. call[c].key \in Keys
    BY <1>1, CallFacts DEF Retimed
  <2>2. call[c].tmo \in Timeouts
    BY <1>1, CallFacts DEF Retimed
  <2> QED
    BY <1>1, <2>1, <2>2, OpenType DEF Retimed
<1>2. CASE ForwardOpened(c)
  <2>1. fwd' \in [Forwards -> {"none", "opening", "live"}]
    BY <1>2, ForwardOpenedFacts DEF TypeOK
  <2> QED
    BY <1>2, <2>1, ForwardOpenedFacts DEF ForwardOpened, TypeOK, entries
<1>3. CASE ForwardFails(c)
  <2>1. /\ fwd' \in [Forwards -> {"none", "opening", "live"}]
        /\ pool' \in Forwards \cup {NoForward}
    BY <1>3, CallFacts, CloseForwardType DEF ForwardFails
  <2>2. prov' \in [Providers -> {"none", "opening", "up", "ending"}]
    BY <1>3 DEF ForwardFails, TypeOK
  <2> QED
    BY <1>3, <2>1, <2>2, QuitType DEF ForwardFails, TypeOK
<1>4. CASE ConnectAnswered(c)
  <2>1. call[c].prov \in Providers /\ call[c].key \in Keys
    BY <1>4, CallFacts DEF ConnectAnswered
  <2>2. /\ prov' \in [Providers -> {"none", "opening", "up", "ending"}]
        /\ cache' \in [Keys -> Providers \cup {NoProvider}]
    BY <1>4, <2>1 DEF ConnectAnswered, TypeOK
  <2> QED
    BY <1>4, <2>2, QuitType DEF ConnectAnswered, TypeOK, forwards
<1>5. CASE ConnectFails(c)
  <2>1. /\ fwd' \in [Forwards -> {"none", "opening", "live"}]
        /\ pool' \in Forwards \cup {NoForward}
    BY <1>5, CallFacts, CloseForwardType DEF ConnectFails, TypeOK
  <2>2. prov' \in [Providers -> {"none", "opening", "up", "ending"}]
    BY <1>5 DEF ConnectFails, TypeOK
  <2> QED
    BY <1>5, <2>1, <2>2, QuitType DEF ConnectFails, TypeOK
<1> QED
  BY <1>1, <1>2, <1>3, <1>4, <1>5 DEF GoOn

\* A closer takes what it found under a key in hand, and lets go of it.
LEMMA TakeFacts ==
    ASSUME TypeOK, NEW x \in Closers, NEW k \in Keys,
           NEW p \in Providers,
           closer' = [closer EXCEPT ![x].at = k, ![x].prov = p]
    PROVE  /\ closer' \in [Closers -> Closer]
           /\ closer'[x].at = k /\ closer'[x].prov = p
           /\ \A y \in Closers \ {x} : closer'[y] = closer[y]
           /\ \A y \in Closers :
                 closer'[y].prov # NoProvider <=> closer'[y].at # NoKey
BY CacheAssumption DEF TypeOK, Closer

LEMMA DropFacts ==
    ASSUME TypeOK, NEW x \in Closers, NEW k \in Keys, Drop(x, k)
    PROVE  /\ cache' = Without(k)
           /\ cache' \in [Keys -> Providers \cup {NoProvider}]
           /\ closer' \in [Closers -> Closer]
           /\ closer'[x].at = NoKey /\ closer'[x].prov = NoProvider
           /\ \A y \in Closers \ {x} : closer'[y] = closer[y]
           /\ \A y \in Closers :
                 closer'[y].prov # NoProvider <=> closer'[y].at # NoKey
           /\ ClosePooled \/ UNCHANGED <<pool, fwd>>
<1>1. /\ cache' = Without(k) /\ cache' \in [Keys -> Providers \cup {NoProvider}]
  BY DEF Drop, Without, TypeOK
<1>2. closer' = [closer EXCEPT ![x].at = NoKey, ![x].prov = NoProvider]
  BY DEF Drop
<1>3. /\ closer' \in [Closers -> Closer]
      /\ closer'[x].at = NoKey /\ closer'[x].prov = NoProvider
      /\ \A y \in Closers \ {x} : closer'[y] = closer[y]
  BY <1>2 DEF TypeOK, Closer
<1>4. \A y \in Closers :
         closer'[y].prov # NoProvider <=> closer'[y].at # NoKey
  BY <1>3 DEF TypeOK
<1> QED
  BY <1>1, <1>3, <1>4 DEF Drop

\* A closer that moves on from one map to the next, or begins or ends.
LEMMA PhaseFacts ==
    ASSUME TypeOK, NEW x \in Closers, NEW ph \in {"off", "shared", "profiled"},
           closer' = [closer EXCEPT ![x].phase = ph]
    PROVE  /\ closer' \in [Closers -> Closer]
           /\ \A y \in Closers :
                 closer'[y].at = closer[y].at /\ closer'[y].prov = closer[y].prov
           /\ \A y \in Closers :
                 closer'[y].prov # NoProvider <=> closer'[y].at # NoKey
<1>1. /\ closer' \in [Closers -> Closer]
      /\ \A y \in Closers :
            closer'[y].at = closer[y].at /\ closer'[y].prov = closer[y].prov
  BY DEF TypeOK, Closer
<1> QED
  BY <1>1 DEF TypeOK

LEMMA CloserStepType ==
    ASSUME TypeOK, NEW x \in Closers, CloserStep(x)
    PROVE  TypeOK'
<1>1. ASSUME NEW k \in Keys, Disconnect(x, k)
      PROVE  TypeOK'
  <2>1. cache[k] \in Providers
    BY <1>1 DEF Disconnect, Visited, TypeOK
  <2>2. CASE /\ prov' = [prov EXCEPT ![cache[k]] = "ending"]
             /\ closer' = [closer EXCEPT ![x].at = k, ![x].prov = cache[k]]
             /\ UNCHANGED <<engine, cache, idle, tmo, forwards, call, timer,
                            asked, raced>>
    <3>1. prov' \in [Providers -> {"none", "opening", "up", "ending"}]
      BY <2>2 DEF TypeOK
    <3> DEFINE p == cache[k]
    <3>2. closer' = [closer EXCEPT ![x].at = k, ![x].prov = p] /\ p \in Providers
      BY <2>1, <2>2
    <3> HIDE DEF p
    <3>3. /\ closer' \in [Closers -> Closer]
          /\ \A y \in Closers :
                closer'[y].prov # NoProvider <=> closer'[y].at # NoKey
      BY <3>2, TakeFacts
    <3> QED
      BY <2>2, <3>1, <3>3 DEF TypeOK, forwards
  <2>3. CASE Drop(x, k) /\ UNCHANGED prov
    <3>1. /\ fwd' \in [Forwards -> {"none", "opening", "live"}]
          /\ pool' \in Forwards \cup {NoForward}
      BY <2>3, DropFacts, ClosePooledType DEF TypeOK
    <3> QED
      BY <2>3, <3>1, DropFacts DEF Drop, TypeOK
  <2> QED
    BY <1>1, <2>2, <2>3 DEF Disconnect
<1>2. CASE Disconnected(x)
  <2>1. closer[x].at \in Keys /\ Drop(x, closer[x].at)
    BY <1>2, CloserFacts DEF Disconnected
  <2>2. prov' \in [Providers -> {"none", "opening", "up", "ending"}]
    BY <1>2 DEF Disconnected, TypeOK
  <2> DEFINE k == closer[x].at
  <2>3. k \in Keys /\ Drop(x, k)
    BY <2>1
  <2> HIDE DEF k
  <2>4. /\ fwd' \in [Forwards -> {"none", "opening", "live"}]
        /\ pool' \in Forwards \cup {NoForward}
    BY <2>3, DropFacts, ClosePooledType DEF TypeOK
  <2> QED
    BY <2>2, <2>3, <2>4, DropFacts DEF Drop, TypeOK
<1>3. CASE NextMap(x)
  <2>1. \E ph \in {"off", "shared", "profiled"} :
           closer' = [closer EXCEPT ![x].phase = ph]
    BY <1>3 DEF NextMap
  <2>2. /\ fwd' \in [Forwards -> {"none", "opening", "live"}]
        /\ pool' \in Forwards \cup {NoForward}
    BY <1>3, ClosePooledType DEF NextMap, TypeOK
  <2>3. /\ closer' \in [Closers -> Closer]
        /\ \A y \in Closers :
              closer'[y].prov # NoProvider <=> closer'[y].at # NoKey
    BY <2>1, PhaseFacts
  <2> QED
    BY <1>3, <2>2, <2>3 DEF NextMap, TypeOK, entries
<1> QED
  BY <1>1, <1>2, <1>3 DEF CloserStep

LEMMA BeginFacts ==
    ASSUME TypeOK, BeginSweep \/ BeginRemove
    PROVE  /\ closer' \in [Closers -> Closer]
           /\ \A y \in Closers :
                 closer'[y].at = closer[y].at /\ closer'[y].prov = closer[y].prov
           /\ \A y \in Closers :
                 closer'[y].prov # NoProvider <=> closer'[y].at # NoKey
<1>1. "sweep" \in Closers /\ "remove" \in Closers
  BY DEF Closers
<1> QED
  BY <1>1, PhaseFacts DEF BeginSweep, BeginRemove

\* Time, the bastion and a test of the connection.
Outside ==
    \/ \E k \in Keys : GoesIdle(k)
    \/ \E f \in Forwards : ForwardDrops(f)
    \/ BeginOneShot \/ EndOneShot

LEMMA OutsideType ==
    ASSUME TypeOK, Outside
    PROVE  TypeOK'
<1>1. ASSUME NEW k \in Keys, GoesIdle(k) PROVE TypeOK'
  BY <1>1 DEF GoesIdle, TypeOK, forwards
<1>2. ASSUME NEW f \in Forwards, ForwardDrops(f) PROVE TypeOK'
  BY <1>2, CloseForwardType DEF ForwardDrops, TypeOK, entries
<1>3. CASE BeginOneShot
  <2>1. PICK f \in FreeForwards :
           oneshot' = f /\ fwd' = [fwd EXCEPT ![f] = "live"]
    BY <1>3 DEF BeginOneShot
  <2>2. f \in Forwards
    BY DEF FreeForwards
  <2> QED
    BY <1>3, <2>1, <2>2 DEF BeginOneShot, TypeOK, entries
<1>4. CASE EndOneShot
  <2>1. CloseForward(oneshot) /\ oneshot \in Forwards \cup {NoForward}
    BY <1>4 DEF EndOneShot, TypeOK
  <2>2. /\ fwd' \in [Forwards -> {"none", "opening", "live"}]
        /\ pool' \in Forwards \cup {NoForward}
    BY <2>1, CloseForwardType
  <2> QED
    BY <1>4, <2>2 DEF EndOneShot, TypeOK, entries
<1> QED
  BY <1>1, <1>2, <1>3, <1>4 DEF Outside

LEMMA TypeInv == TypeOK /\ [Next]_vars => TypeOK'
<1> SUFFICES ASSUME TypeOK, [Next]_vars PROVE TypeOK'
  OBVIOUS
<1>1. CASE BeginSweep \/ BeginRemove
  BY <1>1, BeginFacts DEF BeginSweep, BeginRemove, TypeOK, entries, forwards
<1>2. CASE UNCHANGED vars
  BY <1>2 DEF vars, entries, forwards, TypeOK
<1> QED
  BY <1>1, <1>2, AcquireType, GoOnType, CloserStepType, OutsideType
  DEF Next, Outside

-----------------------------------------------------------------------------
(* Who has a provider in hand.                                             *)

\* The hands keep what they have.
SameHand(c) ==
    /\ call'[c].key = call[c].key /\ call'[c].prov = call[c].prov
    /\ Opening(c)' <=> Opening(c)
    /\ call'[c].pc = "retiming" <=> call[c].pc = "retiming"
    /\ call'[c].pc = "off" <=> call[c].pc = "off"

SameCloser(x) == closer'[x].at = closer[x].at /\ closer'[x].prov = closer[x].prov

LEMMA HandsStay ==
    ASSUME ProvidersHeld, CalmlyKept, UNCHANGED <<cache, prov>>,
           raced \subseteq raced', \A c \in Callers : SameHand(c),
           \A x \in Closers : SameCloser(x)
    PROVE  ProvidersHeld' /\ CalmlyKept'
<1>1. CachedOnce'
  BY DEF ProvidersHeld, CachedOnce, Connected
<1>2. HandsApart'
  BY DEF ProvidersHeld, HandsApart, SameHand, SameCloser
<1>3. InHand'
  BY DEF ProvidersHeld, InHand, SameHand, SameCloser
<1>4. CalmlyKept'
  <2> SUFFICES ASSUME Calm' PROVE (KeysApart /\ KeysKept /\ NothingOrphaned)'
    BY DEF CalmlyKept
  <2>1. Calm
    BY DEF Calm
  <2>2. KeysApart'
    BY <2>1 DEF CalmlyKept, KeysApart, SameHand
  <2>3. KeysKept'
    BY <2>1 DEF CalmlyKept, KeysKept, SameHand, SameCloser
  <2>4. NothingOrphaned'
    BY <2>1 DEF CalmlyKept, NothingOrphaned, Calm, InCall, SameHand
  <2> QED
    BY <2>2, <2>3, <2>4
<1> QED
  BY <1>1, <1>2, <1>3, <1>4 DEF ProvidersHeld

\* What a hand has is opening or ending: nobody else's, and no free provider.
LEMMA HeldFacts ==
    ASSUME TypeOK, ProvidersHeld
    PROVE  /\ \A c \in Callers : call[c].prov # NoProvider =>
                 /\ prov[call[c].prov] \in {"opening", "ending"}
                 /\ prov[call[c].prov] = "opening" => Opening(c)
                 /\ prov[call[c].prov] = "ending" => call[c].pc = "retiming"
           /\ \A x \in Closers : closer[x].prov # NoProvider =>
                 closer[x].at # NoKey /\ prov[closer[x].prov] = "ending"
           /\ \A k \in Keys : cache[k] # NoProvider =>
                 cache[k] \in Providers /\ prov[cache[k]] \in {"up", "ending"}
<1>1. ASSUME NEW c \in Callers, call[c].prov # NoProvider
      PROVE  /\ prov[call[c].prov] \in {"opening", "ending"}
             /\ prov[call[c].prov] = "opening" => Opening(c)
             /\ prov[call[c].prov] = "ending" => call[c].pc = "retiming"
  <2>1. call[c].pc # "off"
    BY <1>1, CallFacts DEF NoCall
  <2> QED
    BY <2>1, CallFacts DEF ProvidersHeld, InHand, Opening
<1>2. \A x \in Closers : closer[x].prov # NoProvider =>
         closer[x].at # NoKey /\ prov[closer[x].prov] = "ending"
  BY CloserFacts DEF ProvidersHeld, InHand
<1>3. \A k \in Keys : cache[k] # NoProvider =>
         cache[k] \in Providers /\ prov[cache[k]] \in {"up", "ending"}
  BY DEF TypeOK, ProvidersHeld, CachedOnce, Connected
<1> QED
  BY <1>1, <1>2, <1>3

\* An acquisition opens: it has let go of what it disconnected, and has a
\* provider that nobody has.
LEMMA OpenKeeps ==
    ASSUME TypeOK, ProvidersHeld, CalmlyKept,
           NEW c \in Callers, NEW k \in Keys, NEW t \in Timeouts,
           NEW ended, NEW races, Open(c, k, t, ended, races), UNCHANGED closer,
           raced \subseteq raced',
           \/ /\ ended = NoProvider /\ call[c].pc = "off"
              /\ cache[k] = NoProvider \/ "disconnect" \in races
           \/ /\ ended = call[c].prov /\ call[c].pc = "retiming"
              /\ call[c].key = k
    PROVE  ProvidersHeld' /\ CalmlyKept'
<1>0. /\ cache' = Without(k) /\ raced \cup races \subseteq raced'
      /\ \A d \in Callers \ {c} : call'[d] = call[d]
  BY OpenFacts
<1>1. /\ cache'[k] = NoProvider
      /\ \A j \in Keys \ {k} : cache'[j] = cache[j]
  BY <1>0 DEF Without, TypeOK
\* Whatever is ended is nowhere else.
<1>2. /\ \A d \in Callers \ {c} : call[d].prov \in Providers => call[d].prov # ended
      /\ \A x \in Closers : closer[x].prov \in Providers => closer[x].prov # ended
      /\ \A j \in Keys \ {k} : cache[j] \in Providers => cache[j] # ended
  <2>1. CASE ended = NoProvider
    BY <2>1, CacheAssumption
  <2>2. CASE /\ ended = call[c].prov /\ call[c].pc = "retiming"
             /\ call[c].key = k
    BY <2>2, CallFacts DEF ProvidersHeld, HandsApart, InHand
  <2> QED
    BY <2>1, <2>2
<1> DEFINE after == AfterEnd(ended)
<1>3. \A q \in Providers : after[q] = IF q = ended THEN "none" ELSE prov[q]
  BY DEF AfterEnd
<1>4. PICK p \in Providers \cup {NoProvider} :
         /\ call'[c].prov = p
         /\ p = NoProvider => call'[c] = NoCall /\ prov' = after
         /\ p # NoProvider =>
               /\ after[p] = "none" /\ prov' = [after EXCEPT ![p] = "opening"]
               /\ Opening(c)' /\ call'[c].key = k
               /\ \A d \in Callers \ {c} : call[d].key = k => "open" \in raced'
  <2>1. NoCall.prov = NoProvider
    BY DEF NoCall
  <2>2. CASE call'[c] = NoCall /\ prov' = after
    BY <2>1, <2>2
  <2>3. CASE \E p \in Providers :
               /\ call'[c].prov = p
               /\ after[p] = "none" /\ prov' = [after EXCEPT ![p] = "opening"]
               /\ Opening(c)' /\ call'[c].key = k
               /\ \A d \in Callers \ {c} : call[d].key = k => "open" \in raced'
    BY <2>3, CacheAssumption
  <2> HIDE DEF after
  <2> QED
    BY <2>2, <2>3, OpenFacts DEF after, Opening
<1>5. /\ \A q \in Providers :
            prov'[q] = IF q = p THEN "opening"
                       ELSE IF q = ended THEN "none" ELSE prov[q]
      /\ p \in Providers => p = ended \/ prov[p] = "none"
  <2>1. after \in [Providers -> {"none", "opening", "up", "ending"}]
    BY DEF AfterEnd, TypeOK
  <2> HIDE DEF after
  <2> QED
    BY <1>3, <1>4, <2>1, CacheAssumption
<1> HIDE DEF after
\* Nor is what is opened.
<1>6. p \in Providers =>
         /\ \A d \in Callers \ {c} : call[d].prov # p
         /\ \A x \in Closers : closer[x].prov # p
         /\ \A j \in Keys \ {k} : cache[j] # p
  BY <1>2, <1>5, HeldFacts, CacheAssumption
<1>7. CachedOnce'
  <2>1. ASSUME NEW j \in Keys, cache'[j] # NoProvider
        PROVE  Connected(cache[j])' /\ cache'[j] = cache[j]
    BY <1>1, <1>2, <1>5, <1>6, <2>1, HeldFacts
    DEF ProvidersHeld, CachedOnce, Connected
  <2> QED
    BY <2>1 DEF ProvidersHeld, CachedOnce, Connected
<1>8. HandsApart'
  <2>1. ASSUME NEW a \in Callers, NEW d \in Callers,
               call'[a].prov = call'[d].prov, call'[a].prov # NoProvider
        PROVE  a = d
    BY <1>0, <1>4, <1>6, <2>1 DEF ProvidersHeld, HandsApart
  <2>2. ASSUME NEW a \in Callers, NEW x \in Closers,
               call'[a].prov = closer'[x].prov
        PROVE  call'[a].prov = NoProvider
    BY <1>0, <1>4, <1>6, <2>2 DEF ProvidersHeld, HandsApart
  <2> QED
    BY <2>1, <2>2 DEF ProvidersHeld, HandsApart
<1>9. InHand'
  <2>1. ASSUME NEW a \in Callers, Opening(a)'
        PROVE  prov'[call'[a].prov] = "opening"
    <3>1. CASE a = c
      BY <1>4, <1>5, <2>1, <3>1 DEF Opening, NoCall
    <3>2. CASE a # c
      <4>1. call'[a] = call[a] /\ Opening(a)
        BY <1>0, <2>1, <3>2 DEF Opening
      <4>2. call[a].prov \in Providers
        BY <4>1, CallFacts DEF Opening
      <4> QED
        BY <1>2, <1>5, <1>6, <3>2, <4>1, <4>2 DEF ProvidersHeld, InHand
    <3> QED
      BY <3>1, <3>2
  <2>2. ASSUME NEW a \in Callers, call'[a].pc = "retiming"
        PROVE  /\ prov'[call'[a].prov] = "ending"
               /\ \A j \in Keys : cache'[j] = call'[a].prov => j = call'[a].key
    <3>1. a # c
      BY <1>4, <2>2 DEF Opening, NoCall
    <3>2. call'[a] = call[a] /\ call[a].prov \in Providers
      BY <1>0, <2>2, <3>1, CallFacts
    <3>3. prov'[call'[a].prov] = "ending"
      BY <1>2, <1>5, <1>6, <2>2, <3>1, <3>2 DEF ProvidersHeld, InHand
    <3>4. \A j \in Keys : cache'[j] = call'[a].prov => j = call'[a].key
      BY <1>1, <2>2, <3>2, CacheAssumption DEF ProvidersHeld, InHand
    <3> QED
      BY <3>3, <3>4
  <2>3. ASSUME NEW x \in Closers, closer'[x].at # NoKey
        PROVE  /\ prov'[closer'[x].prov] = "ending"
               /\ \A j \in Keys : cache'[j] = closer'[x].prov => j = closer'[x].at
    <3>1. closer'[x] = closer[x] /\ closer[x].prov \in Providers
      BY <2>3, CloserFacts
    <3>2. prov'[closer[x].prov] = "ending"
      BY <1>2, <1>5, <1>6, <2>3, <3>1 DEF ProvidersHeld, InHand
    <3>3. \A j \in Keys : cache'[j] = closer[x].prov => j = closer[x].at
      BY <1>1, <2>3, <3>1, CacheAssumption DEF ProvidersHeld, InHand
    <3> QED
      BY <3>1, <3>2, <3>3
  <2> QED
    BY <2>1, <2>2, <2>3 DEF InHand
<1>10. CalmlyKept'
  <2> SUFFICES ASSUME Calm' PROVE (KeysApart /\ KeysKept /\ NothingOrphaned)'
    BY DEF CalmlyKept
  <2>1. Calm /\ "open" \notin raced' /\ "disconnect" \notin races
    BY <1>0 DEF Calm
  <2>2. KeysApart /\ KeysKept /\ NothingOrphaned
    BY <2>1 DEF CalmlyKept
  <2>3. \/ /\ ended = NoProvider /\ call[c].pc = "off" /\ cache[k] = NoProvider
        \/ /\ ended = call[c].prov /\ call[c].pc = "retiming"
           /\ call[c].key = k /\ cache[k] = ended /\ ended \in Providers
    BY <2>1, <2>2, CallFacts DEF KeysKept
  <2>4. KeysApart'
    BY <1>0, <1>4, <2>1, <2>2 DEF KeysApart, NoCall, Opening
  <2>5. KeysKept'
    <3>1. ASSUME NEW a \in Callers, Opening(a)'
          PROVE  cache'[call'[a].key] = NoProvider
      <4>1. CASE a = c
        BY <1>1, <1>4, <3>1, <4>1 DEF Opening, NoCall
      <4>2. CASE a # c
        <5>1. call'[a] = call[a] /\ Opening(a) /\ call[a].key \in Keys
          BY <1>0, <3>1, <4>2, CallFacts DEF Opening
        <5> QED
          BY <1>1, <2>2, <5>1 DEF KeysKept
      <4> QED
        BY <4>1, <4>2
    <3>2. ASSUME NEW a \in Callers, call'[a].pc = "retiming"
          PROVE  cache'[call'[a].key] = call'[a].prov
      <4>1. a # c
        BY <1>4, <3>2 DEF Opening, NoCall
      <4>2. /\ call'[a] = call[a] /\ call[a].prov \in Providers
            /\ call[a].key \in Keys
        BY <1>0, <3>2, <4>1, CallFacts
      <4>3. cache[call[a].key] = call[a].prov
        BY <2>2, <3>2, <4>2 DEF KeysKept
      <4>4. call[a].key # k
        BY <2>2, <2>3, <3>2, <4>1, <4>2, <4>3, CacheAssumption DEF KeysApart
      <4> QED
        BY <1>1, <4>2, <4>3, <4>4
    <3>3. ASSUME NEW x \in Closers, closer'[x].at # NoKey
          PROVE  cache'[closer'[x].at] = closer'[x].prov
      <4>1. /\ closer'[x] = closer[x] /\ closer[x].prov \in Providers
            /\ closer[x].at \in Keys
        BY <3>3, CloserFacts
      <4>2. cache[closer[x].at] = closer[x].prov
        BY <2>2, <3>3, <4>1 DEF KeysKept
      <4>3. closer[x].at # k
        BY <1>2, <2>3, <4>1, <4>2, CacheAssumption
      <4> QED
        BY <1>1, <4>1, <4>2, <4>3
    <3> QED
      BY <3>1, <3>2, <3>3 DEF KeysKept
  <2>6. NothingOrphaned'
    <3> SUFFICES ASSUME NEW q \in Providers, prov'[q] # "none"
                 PROVE  InCall(q)' \/ \E j \in Keys : cache'[j] = q
      BY DEF NothingOrphaned
    <3>1. CASE q = p
      BY <1>4, <3>1 DEF InCall
    <3>2. CASE q # p
      <4>1. q # ended /\ prov[q] # "none"
        BY <1>5, <3>2
      <4>2. InCall(q) \/ \E j \in Keys : cache[j] = q
        BY <2>1, <2>2, <4>1 DEF NothingOrphaned, Calm
      <4>3. CASE InCall(q)
        <5>1. PICK d \in Callers : call[d].prov = q
          BY <4>3 DEF InCall
        <5>2. d # c
          BY <2>3, <4>1, <5>1, CallFacts DEF NoCall
        <5> QED
          BY <1>0, <5>1, <5>2 DEF InCall
      <4>4. CASE \E j \in Keys : cache[j] = q
        BY <1>1, <2>3, <4>1, <4>4, CacheAssumption
      <4> QED
        BY <4>2, <4>3, <4>4
    <3> QED
      BY <3>1, <3>2
  <2> QED
    BY <2>4, <2>5, <2>6
<1> QED
  BY <1>7, <1>8, <1>9, <1>10 DEF ProvidersHeld

\* A retiming call disconnects what is up: nobody else has it.
LEMMA RetimeKeeps ==
    ASSUME TypeOK, ProvidersHeld, CalmlyKept,
           NEW c \in Callers, NEW k \in Keys, NEW t \in Timeouts, Retime(c, k, t)
    PROVE  ProvidersHeld' /\ CalmlyKept'
<1> DEFINE p == cache[k]
<1>1. /\ \A d \in Callers \ {c} : call'[d] = call[d]
      /\ call'[c].pc = "retiming" /\ call'[c].key = k /\ call'[c].prov = p
      /\ p \in Providers /\ prov[p] = "up" /\ call[c].pc = "off"
      /\ \A q \in Providers : prov'[q] = IF q = p THEN "ending" ELSE prov[q]
      /\ UNCHANGED <<cache, closer, raced>>
  <2>1. /\ \A d \in Callers \ {c} : call'[d] = call[d]
        /\ call'[c].pc = "retiming" /\ call'[c].key = k /\ call'[c].prov = p
        /\ p \in Providers /\ prov[p] = "up" /\ call[c] = NoCall
        /\ prov' = [prov EXCEPT ![p] = "ending"]
    BY RetimeFacts
  <2>2. UNCHANGED <<cache, closer, raced>>
    BY DEF Retime
  <2> HIDE DEF p
  <2> QED
    BY <2>1, <2>2 DEF TypeOK, NoCall
<1>2. /\ \A d \in Callers : call[d].prov # p
      /\ \A x \in Closers : closer[x].prov # p
  BY <1>1, HeldFacts, CacheAssumption
<1>3. \A j \in Keys : cache[j] = p => j = k
  BY <1>1, CacheAssumption DEF ProvidersHeld, CachedOnce
<1> HIDE DEF p
<1>4. CachedOnce'
  <2>1. ASSUME NEW j \in Keys, cache'[j] # NoProvider
        PROVE  prov'[cache'[j]] \in {"up", "ending"}
    <3>1. cache'[j] \in Providers /\ prov[cache'[j]] \in {"up", "ending"}
      BY <1>1, <2>1, HeldFacts
    <3> QED
      BY <1>1, <3>1
  <2> QED
    BY <1>1, <2>1 DEF ProvidersHeld, CachedOnce, Connected
<1>5. HandsApart'
  BY <1>1, <1>2 DEF ProvidersHeld, HandsApart
<1>6. InHand'
  <2>1. ASSUME NEW a \in Callers, Opening(a)'
        PROVE  prov'[call'[a].prov] = "opening"
    <3>1. call'[a] = call[a] /\ Opening(a)
      BY <1>1, <2>1 DEF Opening
    <3>2. call[a].prov \in Providers
      BY <3>1, CallFacts DEF Opening
    <3> QED
      BY <1>1, <1>2, <3>1, <3>2 DEF ProvidersHeld, InHand
  <2>2. ASSUME NEW a \in Callers, call'[a].pc = "retiming"
        PROVE  /\ prov'[call'[a].prov] = "ending"
               /\ \A j \in Keys : cache'[j] = call'[a].prov => j = call'[a].key
    <3>1. CASE a = c
      BY <1>1, <1>3, <3>1
    <3>2. CASE a # c
      <4>1. call'[a] = call[a] /\ call[a].prov \in Providers
        BY <1>1, <2>2, <3>2, CallFacts
      <4> QED
        BY <1>1, <1>2, <2>2, <4>1 DEF ProvidersHeld, InHand
    <3> QED
      BY <3>1, <3>2
  <2>3. ASSUME NEW x \in Closers, closer'[x].at # NoKey
        PROVE  /\ prov'[closer'[x].prov] = "ending"
               /\ \A j \in Keys : cache'[j] = closer'[x].prov => j = closer'[x].at
    <3>1. closer[x].prov \in Providers
      BY <1>1, <2>3, CloserFacts
    <3> QED
      BY <1>1, <2>3, <3>1 DEF ProvidersHeld, InHand
  <2> QED
    BY <2>1, <2>2, <2>3 DEF InHand
<1>7. CalmlyKept'
  <2> SUFFICES ASSUME Calm' PROVE (KeysApart /\ KeysKept /\ NothingOrphaned)'
    BY DEF CalmlyKept
  <2>1. Calm /\ KeysApart /\ KeysKept /\ NothingOrphaned
    BY <1>1 DEF Calm, CalmlyKept
  <2>2. cache[k] = p
    BY DEF p
  <2>3. ASSUME NEW d \in Callers \ {c}, call[d].pc # "off" PROVE call[d].key # k
    <3>1. Opening(d) \/ call[d].pc = "retiming"
      BY <2>3, CallFacts DEF Opening
    <3> QED
      BY <1>1, <1>2, <2>1, <2>2, <3>1, CacheAssumption DEF KeysKept
  <2>4. KeysApart'
    BY <1>1, <2>1, <2>3 DEF KeysApart
  <2>5. KeysKept'
    BY <1>1, <2>1, <2>2 DEF KeysKept, Opening
  <2>6. NothingOrphaned'
    <3> SUFFICES ASSUME NEW q \in Providers, prov'[q] # "none"
                 PROVE  InCall(q)' \/ \E j \in Keys : cache'[j] = q
      BY DEF NothingOrphaned
    <3>1. prov[q] # "none"
      BY <1>1
    <3>2. InCall(q) \/ \E j \in Keys : cache[j] = q
      BY <2>1, <3>1 DEF NothingOrphaned, Calm
    <3>3. ASSUME InCall(q) PROVE InCall(q)'
      <4>1. PICK d \in Callers : call[d].prov = q
        BY <3>3 DEF InCall
      <4>2. d # c
        BY <1>1, <4>1, CallFacts, CacheAssumption DEF NoCall
      <4> QED
        BY <1>1, <4>1, <4>2 DEF InCall
    <3> QED
      BY <1>1, <3>2, <3>3
  <2> QED
    BY <2>4, <2>5, <2>6
<1> QED
  BY <1>4, <1>5, <1>6, <1>7 DEF ProvidersHeld

\* So does a closer.
LEMMA TakeKeeps ==
    ASSUME TypeOK, ProvidersHeld, CalmlyKept,
           NEW x \in Closers, NEW p \in Providers,
           NEW k \in {j \in Keys : cache[j] = p}, prov[p] = "up",
           \A q \in Providers : prov'[q] = IF q = p THEN "ending" ELSE prov[q],
           closer'[x].at = k, closer'[x].prov = p,
           \A y \in Closers \ {x} : closer'[y] = closer[y],
           UNCHANGED <<cache, call, raced>>
    PROVE  ProvidersHeld' /\ CalmlyKept'
<1>1. /\ k \in Keys /\ cache[k] = p
      /\ \A q \in Providers : prov'[q] = IF q = p THEN "ending" ELSE prov[q]
  OBVIOUS
<1>2. /\ closer'[x].at = k /\ closer'[x].prov = p
      /\ \A y \in Closers \ {x} : closer'[y] = closer[y]
  OBVIOUS
<1>3. /\ \A d \in Callers : call[d].prov # p
      /\ \A y \in Closers : closer[y].prov # p
  BY <1>1, HeldFacts, CacheAssumption
<1>4. \A j \in Keys : cache[j] = p => j = k
  BY <1>1, CacheAssumption DEF ProvidersHeld, CachedOnce
<1>5. CachedOnce'
  <2>1. ASSUME NEW j \in Keys, cache'[j] # NoProvider
        PROVE  prov'[cache'[j]] \in {"up", "ending"}
    <3>1. cache'[j] \in Providers /\ prov[cache'[j]] \in {"up", "ending"}
      BY <2>1, HeldFacts
    <3> QED
      BY <1>1, <3>1
  <2> QED
    BY <2>1 DEF ProvidersHeld, CachedOnce, Connected
<1>6. HandsApart'
  BY <1>2, <1>3 DEF ProvidersHeld, HandsApart
<1>7. InHand'
  <2>1. ASSUME NEW a \in Callers, call[a].pc # "off"
        PROVE  call[a].prov \in Providers /\ prov'[call[a].prov] = prov[call[a].prov]
    BY <1>1, <1>3, <2>1, CallFacts
  <2>2. ASSUME NEW y \in Closers, closer'[y].at # NoKey
        PROVE  /\ prov'[closer'[y].prov] = "ending"
               /\ \A j \in Keys : cache'[j] = closer'[y].prov => j = closer'[y].at
    <3>1. CASE y = x
      BY <1>1, <1>2, <1>4, <3>1
    <3>2. CASE y # x
      <4>1. closer'[y] = closer[y] /\ closer[y].prov \in Providers
        BY <1>2, <2>2, <3>2, CloserFacts
      <4> QED
        BY <1>1, <2>2, <4>1 DEF ProvidersHeld, InHand
    <3> QED
      BY <3>1, <3>2
  <2> QED
    BY <2>1, <2>2 DEF ProvidersHeld, InHand, Opening
<1>8. CalmlyKept'
  <2> SUFFICES ASSUME Calm' PROVE (KeysApart /\ KeysKept /\ NothingOrphaned)'
    BY DEF CalmlyKept
  <2>1. Calm /\ KeysApart /\ KeysKept /\ NothingOrphaned
    BY DEF Calm, CalmlyKept
  <2>2. KeysApart'
    BY <2>1 DEF KeysApart
  <2>3. KeysKept'
    BY <1>2, <2>1 DEF KeysKept, Opening
  <2>4. NothingOrphaned'
    BY <1>1, <2>1 DEF NothingOrphaned, Calm, InCall
  <2> QED
    BY <2>2, <2>3, <2>4
<1> QED
  BY <1>5, <1>6, <1>7, <1>8 DEF ProvidersHeld

\* A provider that does not come up goes with its call.
LEMMA FailKeeps ==
    ASSUME TypeOK, ProvidersHeld, CalmlyKept,
           NEW c \in Callers, Opening(c), Quit(c),
           prov' = [prov EXCEPT ![call[c].prov] = "none"],
           UNCHANGED <<cache, closer, raced>>
    PROVE  ProvidersHeld' /\ CalmlyKept'
<1> DEFINE p == call[c].prov
<1>1. /\ p \in Providers /\ prov[p] = "opening"
      /\ \A q \in Providers : prov'[q] = IF q = p THEN "none" ELSE prov[q]
      /\ call'[c] = NoCall /\ \A d \in Callers \ {c} : call'[d] = call[d]
  BY CallFacts, QuitType DEF Opening, ProvidersHeld, InHand, TypeOK
<1>2. /\ \A d \in Callers \ {c} : call[d].prov # p
      /\ \A x \in Closers : closer[x].prov # p
      /\ \A j \in Keys : cache[j] # p
  BY <1>1, HeldFacts, CacheAssumption DEF ProvidersHeld, HandsApart
<1> HIDE DEF p
<1>3. NoCall.prov = NoProvider /\ NoCall.pc = "off"
  BY DEF NoCall
<1>4. CachedOnce'
  <2>1. ASSUME NEW j \in Keys, cache'[j] # NoProvider
        PROVE  prov'[cache'[j]] \in {"up", "ending"}
    <3>1. cache'[j] \in Providers /\ prov[cache'[j]] \in {"up", "ending"}
      BY <2>1, HeldFacts
    <3> QED
      BY <1>1, <3>1
  <2> QED
    BY <2>1 DEF ProvidersHeld, CachedOnce, Connected
<1>5. HandsApart'
  <2>1. ASSUME NEW a \in Callers, NEW d \in Callers,
               call'[a].prov = call'[d].prov, call'[a].prov # NoProvider
        PROVE  a = d
    BY <1>1, <1>3, <2>1 DEF ProvidersHeld, HandsApart
  <2>2. ASSUME NEW a \in Callers, NEW x \in Closers,
               call'[a].prov = closer'[x].prov
        PROVE  call'[a].prov = NoProvider
    BY <1>1, <1>3, <2>2 DEF ProvidersHeld, HandsApart
  <2> QED
    BY <2>1, <2>2 DEF ProvidersHeld, HandsApart
<1>6. InHand'
  <2>1. ASSUME NEW a \in Callers, call'[a].pc # "off"
        PROVE  /\ call'[a] = call[a] /\ call[a].prov \in Providers
               /\ prov'[call[a].prov] = prov[call[a].prov]
    BY <1>1, <1>2, <1>3, <2>1, CallFacts
  <2>2. ASSUME NEW y \in Closers, closer[y].at # NoKey
        PROVE  prov'[closer[y].prov] = "ending"
    BY <1>1, <1>2, <2>2, CloserFacts DEF ProvidersHeld, InHand
  <2> QED
    BY <2>1, <2>2 DEF ProvidersHeld, InHand, Opening
<1>7. CalmlyKept'
  <2> SUFFICES ASSUME Calm' PROVE (KeysApart /\ KeysKept /\ NothingOrphaned)'
    BY DEF CalmlyKept
  <2>1. Calm /\ KeysApart /\ KeysKept /\ NothingOrphaned
    BY DEF Calm, CalmlyKept
  <2>2. KeysApart'
    BY <1>1, <1>3, <2>1 DEF KeysApart
  <2>3. KeysKept'
    BY <1>1, <1>3, <2>1 DEF KeysKept, Opening
  <2>4. NothingOrphaned'
    <3> SUFFICES ASSUME NEW q \in Providers, prov'[q] # "none"
                 PROVE  InCall(q)' \/ \E j \in Keys : cache'[j] = q
      BY DEF NothingOrphaned
    <3>1. q # p /\ prov[q] # "none"
      BY <1>1
    <3>2. InCall(q) \/ \E j \in Keys : cache[j] = q
      BY <2>1, <3>1 DEF NothingOrphaned, Calm
    <3> QED
      BY <1>1, <3>1, <3>2 DEF InCall, p
  <2> QED
    BY <2>2, <2>3, <2>4
<1> QED
  BY <1>4, <1>5, <1>6, <1>7 DEF ProvidersHeld

\* The provider that came up is set under its key, and is the call's no more.
LEMMA AnsweredKeeps ==
    ASSUME TypeOK, ProvidersHeld, CalmlyKept, NEW c \in Callers,
           ConnectAnswered(c)
    PROVE  ProvidersHeld' /\ CalmlyKept'
<1> DEFINE p == call[c].prov
           k == call[c].key
<1>1. /\ p \in Providers /\ k \in Keys /\ prov[p] = "opening" /\ Opening(c)
      /\ call'[c] = NoCall /\ \A d \in Callers \ {c} : call'[d] = call[d]
      /\ UNCHANGED <<closer, raced>>
  BY CallFacts, QuitType DEF ConnectAnswered, Opening, ProvidersHeld, InHand
<1>2. /\ prov' = [prov EXCEPT ![p] = "up"]
      /\ cache' = [cache EXCEPT ![k] = p]
  BY DEF ConnectAnswered
<1>3. /\ \A d \in Callers \ {c} : call[d].prov # p
      /\ \A x \in Closers : closer[x].prov # p
      /\ \A j \in Keys : cache[j] # p
  BY <1>1, HeldFacts, CacheAssumption DEF ProvidersHeld, HandsApart
<1>4. /\ \A q \in Providers : prov'[q] = IF q = p THEN "up" ELSE prov[q]
      /\ \A j \in Keys : cache'[j] = IF j = k THEN p ELSE cache[j]
  <2> HIDE DEF p, k
  <2> QED
    BY <1>1, <1>2 DEF TypeOK
<1>5. NoCall.prov = NoProvider /\ NoCall.pc = "off"
  BY DEF NoCall
<1>6. CachedOnce'
  <2> HIDE DEF p, k
  <2>1. ASSUME NEW j \in Keys, cache'[j] # NoProvider
        PROVE  prov'[cache'[j]] \in {"up", "ending"}
    BY <1>1, <1>4, <2>1, HeldFacts
  <2>2. ASSUME NEW i \in Keys, NEW j \in Keys, cache'[i] = cache'[j],
               cache'[j] # NoProvider
        PROVE  i = j
    BY <1>3, <1>4, <2>2 DEF ProvidersHeld, CachedOnce
  <2> QED
    BY <2>1, <2>2 DEF CachedOnce, Connected
<1>7. HandsApart'
  <2>1. ASSUME NEW a \in Callers, NEW d \in Callers,
               call'[a].prov = call'[d].prov, call'[a].prov # NoProvider
        PROVE  a = d
    BY <1>1, <1>5, <2>1 DEF ProvidersHeld, HandsApart
  <2>2. ASSUME NEW a \in Callers, NEW x \in Closers,
               call'[a].prov = closer'[x].prov
        PROVE  call'[a].prov = NoProvider
    BY <1>1, <1>5, <2>2 DEF ProvidersHeld, HandsApart
  <2> QED
    BY <1>1, <2>1, <2>2 DEF ProvidersHeld, HandsApart
<1>8. InHand'
  <2> HIDE DEF p, k
  <2>1. ASSUME NEW a \in Callers, call'[a].pc # "off"
        PROVE  /\ call'[a] = call[a] /\ call[a].prov \in Providers
               /\ prov'[call[a].prov] = prov[call[a].prov]
               /\ \A j \in Keys : cache'[j] = call[a].prov
                                 => cache[j] = call[a].prov
    BY <1>1, <1>3, <1>4, <1>5, <2>1, CallFacts
  <2>2. ASSUME NEW y \in Closers, closer[y].at # NoKey
        PROVE  /\ prov'[closer[y].prov] = "ending"
               /\ \A j \in Keys : cache'[j] = closer[y].prov => j = closer[y].at
    <3>1. closer[y].prov \in Providers /\ closer[y].prov # p
      BY <1>3, <2>2, CloserFacts
    <3> QED
      BY <1>4, <2>2, <3>1 DEF ProvidersHeld, InHand
  <2> QED
    BY <1>1, <2>1, <2>2 DEF ProvidersHeld, InHand, Opening
<1>9. CalmlyKept'
  <2> SUFFICES ASSUME Calm' PROVE (KeysApart /\ KeysKept /\ NothingOrphaned)'
    BY DEF CalmlyKept
  <2>1. Calm /\ KeysApart /\ KeysKept /\ NothingOrphaned
    BY <1>1 DEF Calm, CalmlyKept
  <2>2. cache[k] = NoProvider
    BY <1>1, <2>1 DEF KeysKept
  <2>3. ASSUME NEW a \in Callers, call'[a].pc # "off"
        PROVE  call'[a] = call[a] /\ call[a].key \in Keys \ {k}
    <3>1. a # c /\ call'[a] = call[a]
      BY <1>1, <1>5, <2>3
    <3> QED
      BY <1>1, <2>1, <2>3, <3>1, CallFacts DEF KeysApart, Opening
  <2>4. ASSUME NEW y \in Closers, closer[y].at # NoKey
        PROVE  closer[y].at \in Keys \ {k}
    <3>1. closer[y].prov \in Providers /\ closer[y].at \in Keys
      BY <2>4, CloserFacts
    <3> QED
      BY <2>1, <2>2, <2>4, <3>1, CacheAssumption DEF KeysKept
  <2>5. KeysApart'
    BY <2>1, <2>3 DEF KeysApart
  <2>6. KeysKept'
    <3> HIDE DEF p, k
    <3> QED
      BY <1>1, <1>4, <2>1, <2>3, <2>4 DEF KeysKept, Opening
  <2>7. NothingOrphaned'
    <3> SUFFICES ASSUME NEW q \in Providers, prov'[q] # "none"
                 PROVE  InCall(q)' \/ \E j \in Keys : cache'[j] = q
      BY DEF NothingOrphaned
    <3>1. CASE q = p
      BY <1>1, <1>4, <3>1
    <3>2. CASE q # p
      <4>1. InCall(q) \/ \E j \in Keys : cache[j] = q
        BY <1>4, <2>1, <3>2 DEF NothingOrphaned, Calm
      <4>2. CASE InCall(q)
        BY <1>1, <3>2, <4>2 DEF InCall
      <4>3. CASE \E j \in Keys : cache[j] = q
        BY <1>4, <2>2, <4>3, CacheAssumption
      <4> QED
        BY <4>1, <4>2, <4>3
    <3> QED
      BY <3>1, <3>2
  <2> QED
    BY <2>5, <2>6, <2>7
<1> QED
  BY <1>6, <1>7, <1>8, <1>9 DEF ProvidersHeld

\* A closer lets go of what is down, and what stands under its key goes: the
\* same provider, unless another disconnect got there first.
LEMMA LetGoKeeps ==
    ASSUME TypeOK, ProvidersHeld, CalmlyKept, NEW x \in Closers,
           NEW k \in Keys, cache' = Without(k),
           closer'[x].at = NoKey, closer'[x].prov = NoProvider,
           \A y \in Closers \ {x} : closer'[y] = closer[y],
           UNCHANGED call, raced \subseteq raced',
           \/ /\ closer[x].at = k
              /\ prov' = [prov EXCEPT ![closer[x].prov] = "none"]
           \/ /\ closer[x].at = NoKey /\ prov' = prov
              /\ "disconnect" \in raced'
    PROVE  ProvidersHeld' /\ CalmlyKept'
<1> DEFINE p == closer[x].prov
<1>1. /\ cache'[k] = NoProvider
      /\ \A j \in Keys \ {k} : cache'[j] = cache[j]
  BY DEF Without, TypeOK
<1>2. \A q \in Providers : prov'[q] = IF q = p THEN "none" ELSE prov[q]
  BY CloserFacts, CacheAssumption DEF TypeOK
<1>3. p \in Providers \cup {NoProvider} /\ NoProvider \notin Providers
  BY CloserFacts, CacheAssumption
<1>4. p \in Providers =>
         /\ closer[x].at = k
         /\ \A d \in Callers : call[d].prov # p
         /\ \A y \in Closers \ {x} : closer[y].prov # p
         /\ \A j \in Keys \ {k} : cache[j] # p
  BY <1>3, CloserFacts DEF ProvidersHeld, HandsApart, InHand
<1> HIDE DEF p
<1>5. CachedOnce'
  <2>1. ASSUME NEW j \in Keys, cache'[j] # NoProvider
        PROVE  cache'[j] = cache[j] /\ prov'[cache'[j]] \in {"up", "ending"}
    <3>1. j # k /\ cache'[j] = cache[j]
      BY <1>1, <2>1
    <3>2. cache[j] \in Providers /\ prov[cache[j]] \in {"up", "ending"}
      BY <2>1, <3>1, HeldFacts
    <3> QED
      BY <1>2, <1>3, <1>4, <3>1, <3>2
  <2> QED
    BY <2>1 DEF ProvidersHeld, CachedOnce, Connected
<1>6. HandsApart'
  <2>1. ASSUME NEW y \in Closers, closer'[y].prov # NoProvider
        PROVE  closer'[y] = closer[y]
    BY <2>1
  <2>2. ASSUME NEW y \in Closers, NEW z \in Closers,
               closer'[y].prov = closer'[z].prov, closer'[y].prov # NoProvider
        PROVE  y = z
    BY <2>1, <2>2 DEF ProvidersHeld, HandsApart
  <2>3. ASSUME NEW a \in Callers, NEW y \in Closers,
               call[a].prov = closer'[y].prov
        PROVE  call[a].prov = NoProvider
    BY <2>1, <2>3 DEF ProvidersHeld, HandsApart
  <2> QED
    BY <2>2, <2>3 DEF ProvidersHeld, HandsApart
<1>7. InHand'
  <2>1. ASSUME NEW a \in Callers, call[a].pc # "off"
        PROVE  /\ call[a].prov \in Providers
               /\ prov'[call[a].prov] = prov[call[a].prov]
               /\ \A j \in Keys : cache'[j] = call[a].prov
                                 => cache[j] = call[a].prov
    BY <1>1, <1>2, <1>3, <1>4, <2>1, CallFacts
  <2>2. ASSUME NEW y \in Closers, closer'[y].at # NoKey
        PROVE  /\ prov'[closer'[y].prov] = "ending"
               /\ \A j \in Keys : cache'[j] = closer'[y].prov => j = closer'[y].at
    <3>1. y # x /\ closer'[y] = closer[y] /\ closer[y].prov \in Providers
      BY <2>2, CloserFacts
    <3> QED
      BY <1>1, <1>2, <1>3, <1>4, <2>2, <3>1 DEF ProvidersHeld, InHand
  <2> QED
    BY <2>1, <2>2 DEF ProvidersHeld, InHand, Opening
<1>8. CalmlyKept'
  <2> SUFFICES ASSUME Calm' PROVE (KeysApart /\ KeysKept /\ NothingOrphaned)'
    BY DEF CalmlyKept
  <2>1. Calm /\ KeysApart /\ KeysKept /\ NothingOrphaned
    BY DEF Calm, CalmlyKept
  <2>2. closer[x].at = k /\ p \in Providers /\ cache[k] = p
    BY <2>1, CloserFacts, CacheAssumption DEF Calm, KeysKept, p
  <2>3. KeysApart'
    BY <2>1 DEF KeysApart
  <2>4. ASSUME NEW a \in Callers, call[a].pc = "retiming"
        PROVE  cache'[call[a].key] = call[a].prov
    <3>1. cache[call[a].key] = call[a].prov /\ call[a].key \in Keys
      BY <2>1, <2>4, CallFacts DEF KeysKept
    <3> QED
      BY <1>1, <1>4, <2>2, <3>1
  <2>5. ASSUME NEW a \in Callers, Opening(a)
        PROVE  cache'[call[a].key] = NoProvider
    <3>1. cache[call[a].key] = NoProvider /\ call[a].key \in Keys
      BY <2>1, <2>5, CallFacts DEF KeysKept, Opening
    <3> QED
      BY <1>1, <3>1
  <2>6. ASSUME NEW y \in Closers, closer'[y].at # NoKey
        PROVE  cache'[closer'[y].at] = closer'[y].prov
    <3>1. y # x /\ closer'[y] = closer[y] /\ closer[y].at \in Keys
      BY <2>6, CloserFacts
    <3>2. cache[closer[y].at] = closer[y].prov
      BY <2>1, <2>6, <3>1 DEF KeysKept
    <3> QED
      BY <1>1, <1>4, <2>2, <3>1, <3>2
  <2>7. KeysKept'
    BY <2>4, <2>5, <2>6 DEF KeysKept, Opening
  <2>8. NothingOrphaned'
    <3> SUFFICES ASSUME NEW q \in Providers, prov'[q] # "none"
                 PROVE  InCall(q)' \/ \E j \in Keys : cache'[j] = q
      BY DEF NothingOrphaned
    <3>1. q # p /\ (InCall(q) \/ \E j \in Keys : cache[j] = q)
      BY <1>2, <2>1 DEF NothingOrphaned, Calm
    <3> QED
      BY <1>1, <2>2, <3>1 DEF InCall
  <2> QED
    BY <2>3, <2>7, <2>8
<1> QED
  BY <1>5, <1>6, <1>7, <1>8 DEF ProvidersHeld

LEMMA HandsOfCalls ==
    ASSUME TypeOK, ProvidersHeld, CalmlyKept, NEW c \in Callers,
           \/ \E k \in Keys, t \in Timeouts : Acquire(c, k, t)
           \/ GoOn(c)
    PROVE  ProvidersHeld' /\ CalmlyKept'
<1>1. ASSUME NEW k \in Keys, NEW t \in Timeouts, Acquire(c, k, t)
      PROVE  ProvidersHeld' /\ CalmlyKept'
  <2>1. CASE Hit(c, k, t)
    BY <2>1, HandsStay DEF Hit, SameHand, SameCloser, Opening
  <2>2. CASE Miss(c, k, t)
    <3>1. /\ call[c].pc = "off" /\ cache[k] = NoProvider
          /\ Open(c, k, t, NoProvider, {}) /\ UNCHANGED closer
      BY <2>2 DEF Miss, MayAcquire
    <3>2. raced \subseteq raced'
      BY <3>1, OpenFacts
    <3> QED
      BY <3>1, <3>2, OpenKeeps
  <2>3. CASE Retime(c, k, t)
    BY <2>3, RetimeKeeps
  <2>4. CASE RetimeRefused(c, k, t)
    <3>1. /\ call[c].pc = "off"
          /\ Open(c, k, t, NoProvider, {"disconnect"}) /\ UNCHANGED closer
      BY <2>4 DEF RetimeRefused, MayAcquire
    <3>2. raced \subseteq raced' /\ "disconnect" \in {"disconnect"}
      BY <3>1, OpenFacts
    <3> QED
      BY <3>1, <3>2, OpenKeeps
  <2> QED
    BY <1>1, <2>1, <2>2, <2>3, <2>4 DEF Acquire
<1>2. CASE Retimed(c)
  <2> DEFINE k == call[c].key
             t == call[c].tmo
             ended == call[c].prov
  <2>1. /\ k \in Keys /\ t \in Timeouts /\ Open(c, k, t, ended, {})
        /\ UNCHANGED closer /\ call[c].pc = "retiming"
        /\ k = call[c].key /\ ended = call[c].prov
    BY <1>2, CallFacts DEF Retimed
  <2> HIDE DEF k, t, ended
  <2>2. raced \subseteq raced'
    BY <2>1, OpenFacts
  <2> QED
    BY <2>1, <2>2, OpenKeeps
<1>3. CASE ForwardOpened(c)
  <2>1. \A d \in Callers : SameHand(d)
    BY <1>3, ForwardOpenedFacts DEF SameHand, Opening
  <2> QED
    BY <1>3, <2>1, HandsStay DEF ForwardOpened, entries, SameCloser
<1>4. CASE ForwardFails(c)
  BY <1>4, FailKeeps DEF ForwardFails, Opening
<1>5. CASE ConnectAnswered(c)
  BY <1>5, AnsweredKeeps
<1>6. CASE ConnectFails(c)
  BY <1>6, FailKeeps DEF ConnectFails, Opening
<1> QED
  BY <1>1, <1>2, <1>3, <1>4, <1>5, <1>6 DEF GoOn

LEMMA HandsOfClosers ==
    ASSUME TypeOK, ProvidersHeld, CalmlyKept, NEW x \in Closers, CloserStep(x)
    PROVE  ProvidersHeld' /\ CalmlyKept'
<1>1. ASSUME NEW k \in Keys, Disconnect(x, k)
      PROVE  ProvidersHeld' /\ CalmlyKept'
  <2>1. CASE /\ prov[cache[k]] = "up"
             /\ prov' = [prov EXCEPT ![cache[k]] = "ending"]
             /\ closer' = [closer EXCEPT ![x].at = k, ![x].prov = cache[k]]
             /\ UNCHANGED <<engine, cache, idle, tmo, forwards, call, timer,
                            asked, raced>>
    <3> DEFINE p == cache[k]
    <3>1. /\ p \in Providers /\ k \in {j \in Keys : cache[j] = p}
          /\ prov[p] = "up" /\ prov' = [prov EXCEPT ![p] = "ending"]
      <4>1. p \in Providers /\ k \in {j \in Keys : cache[j] = p}
        BY <1>1 DEF Disconnect, Visited, TypeOK
      <4> QED
        BY <2>1, <4>1
    <3>2. closer' = [closer EXCEPT ![x].at = k, ![x].prov = p] /\ p \in Providers
      BY <2>1, <3>1
    <3> HIDE DEF p
    <3>3. /\ closer'[x].at = k /\ closer'[x].prov = p
          /\ \A y \in Closers \ {x} : closer'[y] = closer[y]
      BY <3>2 DEF TypeOK, Closer
    <3>4. \A q \in Providers : prov'[q] = IF q = p THEN "ending" ELSE prov[q]
      BY <3>1 DEF TypeOK
    <3> QED
      BY <2>1, <3>1, <3>3, <3>4, TakeKeeps
  <2>2. CASE Drop(x, k) /\ Race({"disconnect"}) /\ UNCHANGED prov
    <3>1. raced \subseteq raced' /\ "disconnect" \in raced'
      BY <2>2 DEF Race
    <3>2. closer[x].at = NoKey /\ UNCHANGED call
      BY <1>1, <2>2 DEF Disconnect, Drop
    <3>3. /\ cache' = Without(k)
          /\ closer'[x].at = NoKey /\ closer'[x].prov = NoProvider
          /\ \A y \in Closers \ {x} : closer'[y] = closer[y]
      BY <2>2, DropFacts
    <3> QED
      BY <2>2, <3>1, <3>2, <3>3, LetGoKeeps
  <2> QED
    BY <1>1, <2>1, <2>2 DEF Disconnect
<1>2. CASE Disconnected(x)
  <2> DEFINE k == closer[x].at
  <2>1. /\ k \in Keys /\ Drop(x, k) /\ closer[x].at = k
        /\ prov' = [prov EXCEPT ![closer[x].prov] = "none"]
        /\ UNCHANGED raced
    BY <1>2, CloserFacts DEF Disconnected
  <2> HIDE DEF k
  <2>2. /\ cache' = Without(k)
        /\ closer'[x].at = NoKey /\ closer'[x].prov = NoProvider
        /\ \A y \in Closers \ {x} : closer'[y] = closer[y]
    BY <2>1, DropFacts
  <2>3. UNCHANGED call /\ raced \subseteq raced'
    BY <2>1 DEF Drop
  <2> QED
    BY <2>1, <2>2, <2>3, LetGoKeeps
<1>3. CASE NextMap(x)
  <2>1. \E ph \in {"off", "shared", "profiled"} :
           closer' = [closer EXCEPT ![x].phase = ph]
    BY <1>3 DEF NextMap
  <2>2. \A y \in Closers : SameCloser(y)
    BY <2>1, PhaseFacts DEF SameCloser
  <2> QED
    BY <1>3, <2>2, HandsStay DEF NextMap, entries, SameHand, Opening
<1> QED
  BY <1>1, <1>2, <1>3 DEF CloserStep

LEMMA HandsKeep ==
    ASSUME TypeOK, ProvidersHeld, CalmlyKept, [Next]_vars
    PROVE  ProvidersHeld' /\ CalmlyKept'
<1>1. CASE BeginSweep \/ BeginRemove
  <2>1. \A y \in Closers : SameCloser(y)
    BY <1>1, BeginFacts DEF SameCloser
  <2> QED
    BY <1>1, <2>1, HandsStay
    DEF BeginSweep, BeginRemove, entries, SameHand, Opening
<1>2. CASE Outside \/ UNCHANGED vars
  <2>1. UNCHANGED <<cache, prov, call, closer, raced>>
    BY <1>2 DEF Outside, GoesIdle, ForwardDrops, BeginOneShot, EndOneShot,
                vars, entries
  <2> QED
    BY <2>1, HandsStay DEF SameHand, SameCloser, Opening
<1> QED
  BY <1>1, <1>2, HandsOfCalls, HandsOfClosers DEF Next, Outside

-----------------------------------------------------------------------------
(* Who answers for a forward.                                              *)

ForwardsOK == PoolHoldsLiveForwards /\ ForwardsApart /\ ForwardsKept

\* A call stays as it is with its forward, or has none of its own: at most the
\* one that is pooled.
KeepsForward(c) ==
    \/ /\ call'[c].fwd = call[c].fwd /\ call'[c].fresh = call[c].fresh
       /\ call'[c].pc = "tunnelling" <=> call[c].pc = "tunnelling"
       /\ call'[c].pc = "connecting" <=> call[c].pc = "connecting"
    \/ /\ call[c].pc # "tunnelling" /\ call'[c].pc # "tunnelling"
       /\ ~call'[c].fresh /\ call'[c].fwd \in {pool, NoForward}

LEMMA ForwardsStay ==
    ASSUME TypeOK, ForwardsOK, UNCHANGED <<pool, fwd, oneshot>>,
           raced \subseteq raced', \A c \in Callers : KeepsForward(c)
    PROVE  ForwardsOK'
<1>1. PoolHoldsLiveForwards'
  BY DEF ForwardsOK, PoolHoldsLiveForwards
<1>2. ForwardsApart'
  <2>1. ASSUME oneshot # NoForward, NEW c \in Callers
        PROVE  pool # oneshot /\ call'[c].fwd # oneshot
    BY <2>1 DEF ForwardsOK, ForwardsApart, KeepsForward
  <2>2. ASSUME NEW c \in Callers, call'[c].pc = "tunnelling",
               NEW d \in Callers \ {c}
        PROVE  fwd[call'[c].fwd] = "opening" /\ call'[d].fwd # call'[c].fwd
    <3>1. /\ call[c].pc = "tunnelling" /\ call'[c].fwd = call[c].fwd
          /\ call[c].fwd \in Forwards
      BY <2>2, CallFacts DEF KeepsForward
    <3>2. fwd[call[c].fwd] = "opening" /\ call[d].fwd # call[c].fwd
      BY <2>2, <3>1 DEF ForwardsOK, ForwardsApart
    <3>3. call[c].fwd \notin {pool, NoForward}
      BY <3>1, <3>2, CacheAssumption DEF ForwardsOK, PoolHoldsLiveForwards
    <3> QED
      BY <2>2, <3>1, <3>2, <3>3 DEF KeepsForward
  <2>3. ASSUME NEW c \in Callers, call'[c].pc = "tunnelling"
        PROVE  fwd[call'[c].fwd] = "opening"
    BY <2>3 DEF ForwardsOK, ForwardsApart, KeepsForward
  <2>4. oneshot # NoForward => pool # oneshot
    BY DEF ForwardsOK, ForwardsApart
  <2> QED
    BY <2>1, <2>2, <2>3, <2>4 DEF ForwardsApart
<1>3. ForwardsKept'
  <2> SUFFICES ASSUME "forward" \notin raced'
               PROVE  FreshOnce' /\ ForwardsAreTaken'
    BY DEF ForwardsKept
  <2>1. FreshOnce /\ ForwardsAreTaken
    BY DEF ForwardsOK, ForwardsKept
  <2>2. FreshOnce'
    BY <2>1 DEF FreshOnce, KeepsForward
  <2>3. ForwardsAreTaken'
    <3>1. ASSUME NEW c \in Callers, call[c].pc = "tunnelling"
          PROVE  call'[c].pc = "tunnelling" /\ call'[c].fwd = call[c].fwd
      BY <3>1 DEF KeepsForward
    <3> QED
      BY <2>1, <3>1 DEF ForwardsAreTaken
  <2> QED
    BY <2>2, <2>3
<1> QED
  BY <1>1, <1>2, <1>3 DEF ForwardsOK

\* A call opens a forward of its own: nothing is pooled.
LEMMA FreshOpens ==
    ASSUME TypeOK, ForwardsOK, NEW c \in Callers,
           call[c].pc \in {"off", "retiming"},
           \A d \in Callers \ {c} : call'[d] = call[d],
           call'[c].pc = "tunnelling", call'[c].fresh,
           call'[c].fwd \in FreeForwards, pool = NoForward,
           fwd' = [fwd EXCEPT ![call'[c].fwd] = "opening"],
           UNCHANGED <<pool, oneshot>>, raced \subseteq raced',
           \A d \in Callers \ {c} : call[d].fresh => "forward" \in raced'
    PROVE  ForwardsOK'
<1> DEFINE f == call'[c].fwd
<1>1. /\ f \in Forwards /\ f # oneshot /\ fwd[f] = "none"
      /\ \A d \in Callers : call[d].fwd # f
  BY DEF FreeForwards
<1>2. \A g \in Forwards : fwd'[g] = IF g = f THEN "opening" ELSE fwd[g]
  BY DEF TypeOK
<1> HIDE DEF f
<1>3. PoolHoldsLiveForwards'
  BY DEF PoolHoldsLiveForwards
<1>4. ForwardsApart'
  <2>1. ASSUME oneshot # NoForward, NEW d \in Callers
        PROVE  call'[d].fwd # oneshot
    BY <1>1, <2>1 DEF ForwardsOK, ForwardsApart, f
  <2>2. ASSUME NEW d \in Callers, call'[d].pc = "tunnelling"
        PROVE  /\ fwd'[call'[d].fwd] = "opening"
               /\ \A e \in Callers \ {d} : call'[e].fwd # call'[d].fwd
    <3>1. CASE d = c
      BY <1>1, <1>2, <3>1 DEF f
    <3>2. CASE d # c
      <4>1. call'[d] = call[d] /\ call[d].fwd \in Forwards
        BY <2>2, <3>2, CallFacts
      <4> QED
        BY <1>1, <1>2, <2>2, <3>2, <4>1 DEF ForwardsOK, ForwardsApart, f
    <3> QED
      BY <3>1, <3>2
  <2> QED
    BY <2>1, <2>2 DEF ForwardsApart
<1>5. ForwardsKept'
  <2> SUFFICES ASSUME "forward" \notin raced'
               PROVE  FreshOnce' /\ ForwardsAreTaken'
    BY DEF ForwardsKept
  <2>1. ForwardsAreTaken
    BY DEF ForwardsOK, ForwardsKept
  <2>2. FreshOnce'
    BY DEF FreshOnce
  <2>3. ForwardsAreTaken'
    <3> SUFFICES ASSUME NEW g \in Forwards, fwd'[g] # "none"
                 PROVE  \/ g \in {pool, oneshot}
                        \/ \E d \in Callers :
                              call'[d].pc = "tunnelling" /\ call'[d].fwd = g
      BY DEF ForwardsAreTaken
    <3>1. CASE g = f
      BY <3>1 DEF f
    <3>2. CASE g # f
      <4>1. \/ g \in {pool, oneshot}
            \/ \E d \in Callers : call[d].pc = "tunnelling" /\ call[d].fwd = g
        BY <1>2, <2>1, <3>2 DEF ForwardsAreTaken
      <4> QED
        BY <4>1
    <3> QED
      BY <3>1, <3>2
  <2> QED
    BY <2>2, <2>3
<1> QED
  BY <1>3, <1>4, <1>5 DEF ForwardsOK

\* It listens, and joins the pool.
LEMMA OpenedKeeps ==
    ASSUME TypeOK, ForwardsOK, NEW c \in Callers, ForwardOpened(c)
    PROVE  ForwardsOK'
<1> DEFINE f == call[c].fwd
<1>1. /\ \A d \in Callers \ {c} : call'[d] = call[d]
      /\ call'[c].pc = "connecting" /\ call'[c].fresh /\ call'[c].fwd = f
      /\ call[c].pc = "tunnelling" /\ f \in Forwards /\ pool' = f
      /\ fwd' = [fwd EXCEPT ![f] = "live"]
      /\ UNCHANGED <<oneshot, raced>> /\ call[c].fresh
  BY ForwardOpenedFacts, CallFacts DEF ForwardOpened
<1>2. \A d \in Callers \ {c} : call[d].fwd # f
  BY <1>1 DEF ForwardsOK, ForwardsApart
<1> HIDE DEF f
<1>3. \A g \in Forwards : fwd'[g] = IF g = f THEN "live" ELSE fwd[g]
  BY <1>1 DEF TypeOK
<1>4. PoolHoldsLiveForwards'
  BY <1>1, <1>3 DEF PoolHoldsLiveForwards
<1>5. ForwardsApart'
  <2>1. ASSUME oneshot # NoForward, NEW d \in Callers
        PROVE  pool' # oneshot /\ call'[d].fwd # oneshot
    BY <1>1, <2>1 DEF ForwardsOK, ForwardsApart, f
  <2>2. ASSUME NEW d \in Callers, call'[d].pc = "tunnelling"
        PROVE  /\ fwd'[call'[d].fwd] = "opening"
               /\ \A e \in Callers \ {d} : call'[e].fwd # call'[d].fwd
    <3>1. d # c /\ call'[d] = call[d] /\ call[d].fwd \in Forwards
      BY <1>1, <2>2, CallFacts
    <3> QED
      BY <1>1, <1>2, <1>3, <2>2, <3>1 DEF ForwardsOK, ForwardsApart
  <2> QED
    BY <1>1, <2>1, <2>2 DEF ForwardsApart
<1>6. ForwardsKept'
  <2> SUFFICES ASSUME "forward" \notin raced'
               PROVE  FreshOnce' /\ ForwardsAreTaken'
    BY DEF ForwardsKept
  <2>1. FreshOnce /\ ForwardsAreTaken
    BY <1>1 DEF ForwardsOK, ForwardsKept
  <2>2. pool = NoForward
    BY <1>1, <2>1 DEF FreshOnce
  <2>3. FreshOnce'
    BY <1>1, <2>1 DEF FreshOnce
  <2>4. ForwardsAreTaken'
    <3> SUFFICES ASSUME NEW g \in Forwards, fwd'[g] # "none", g # f
                 PROVE  \/ g = oneshot
                        \/ \E d \in Callers :
                              call'[d].pc = "tunnelling" /\ call'[d].fwd = g
      BY <1>1 DEF ForwardsAreTaken
    <3>1. \/ g \in {pool, oneshot}
          \/ \E d \in Callers : call[d].pc = "tunnelling" /\ call[d].fwd = g
      BY <1>3, <2>1 DEF ForwardsAreTaken
    <3> QED
      BY <1>1, <2>2, <3>1, CacheAssumption DEF f
  <2> QED
    BY <2>3, <2>4
<1> QED
  BY <1>4, <1>5, <1>6 DEF ForwardsOK

\* A call that fails closes the forward it opened, and takes the pool entry.
LEMMA FailCloses ==
    ASSUME TypeOK, ForwardsOK, NEW c \in Callers, call[c].fresh, Quit(c),
           CloseForward(call[c].fwd), UNCHANGED <<oneshot, raced>>
    PROVE  ForwardsOK'
<1> DEFINE f == call[c].fwd
<1>1. /\ \A d \in Callers \ {c} : call'[d] = call[d]
      /\ call'[c] = NoCall /\ f \in Forwards /\ NoForward \notin Forwards
  BY QuitType, CallFacts
<1>2. f # oneshot
  BY <1>1 DEF ForwardsOK, ForwardsApart
<1>3. fwd' = [fwd EXCEPT ![f] = "none"] /\ pool' = NoForward
  BY <1>2 DEF CloseForward, Unpool
<1>4. ASSUME NEW d \in Callers \ {c}, call[d].pc = "tunnelling"
      PROVE  call[d].fwd # f
  BY <1>4 DEF ForwardsOK, ForwardsApart
<1> HIDE DEF f
<1>5. \A g \in Forwards : fwd'[g] = IF g = f THEN "none" ELSE fwd[g]
  BY <1>1, <1>3 DEF TypeOK
<1>6. /\ NoCall.pc = "off" /\ NoCall.fwd = NoForward /\ ~NoCall.fresh
  BY DEF NoCall
<1>7. PoolHoldsLiveForwards'
  BY <1>3 DEF PoolHoldsLiveForwards
<1>8. ForwardsApart'
  <2>1. ASSUME oneshot # NoForward, NEW d \in Callers
        PROVE  call'[d].fwd # oneshot
    BY <1>1, <1>6, <2>1 DEF ForwardsOK, ForwardsApart
  <2>2. ASSUME NEW d \in Callers, call'[d].pc = "tunnelling"
        PROVE  /\ fwd'[call'[d].fwd] = "opening"
               /\ \A e \in Callers \ {d} : call'[e].fwd # call'[d].fwd
    <3>1. d # c /\ call'[d] = call[d] /\ call[d].fwd \in Forwards
      BY <1>1, <1>6, <2>2, CallFacts
    <3> QED
      BY <1>1, <1>4, <1>5, <1>6, <2>2, <3>1 DEF ForwardsOK, ForwardsApart
  <2> QED
    BY <1>3, <2>1, <2>2 DEF ForwardsApart
<1>9. ForwardsKept'
  <2> SUFFICES ASSUME "forward" \notin raced'
               PROVE  FreshOnce' /\ ForwardsAreTaken'
    BY DEF ForwardsKept
  <2>1. FreshOnce /\ ForwardsAreTaken
    BY DEF ForwardsOK, ForwardsKept
  <2>2. \A d \in Callers \ {c} : ~call[d].fresh
    BY <2>1 DEF FreshOnce
  <2>3. FreshOnce'
    BY <1>1, <1>3, <1>6, <2>2 DEF FreshOnce
  <2>4. ForwardsAreTaken'
    <3> SUFFICES ASSUME NEW g \in Forwards, fwd'[g] # "none"
                 PROVE  g = oneshot
      BY DEF ForwardsAreTaken
    <3>1. g # f /\ fwd[g] # "none"
      BY <1>5
    <3>2. \A d \in Callers : call[d].pc = "tunnelling" => d = c
      BY <2>2, CallFacts
    <3>3. pool \in {NoForward, f}
      BY <2>1 DEF FreshOnce, f
    <3> QED
      BY <1>1, <2>1, <3>1, <3>2, <3>3 DEF ForwardsAreTaken, f
  <2> QED
    BY <2>3, <2>4
<1> QED
  BY <1>7, <1>8, <1>9 DEF ForwardsOK

\* A forward that was open closes, and takes the pool entry unless it is the
\* one-shot forward: a pooled one, the one-shot one, or one that drops.
LEMMA LiveCloses ==
    ASSUME TypeOK, ForwardsOK, NEW f \in Forwards,
           f \in {pool, oneshot} \/ fwd[f] = "live",
           fwd' = [fwd EXCEPT ![f] = "none"],
           pool' = IF f = oneshot THEN pool ELSE NoForward,
           oneshot' = oneshot \/ (oneshot' = NoForward /\ f = oneshot),
           UNCHANGED <<call, raced>>
    PROVE  ForwardsOK'
<1>1. \A g \in Forwards : fwd'[g] = IF g = f THEN "none" ELSE fwd[g]
  BY DEF TypeOK
<1>2. oneshot # NoForward => pool # oneshot
  BY DEF ForwardsOK, ForwardsApart
<1>3. PoolHoldsLiveForwards'
  BY <1>1, <1>2, CacheAssumption DEF ForwardsOK, PoolHoldsLiveForwards, TypeOK
<1>4. ASSUME NEW c \in Callers, call[c].pc = "tunnelling"
      PROVE  call[c].fwd \in Forwards /\ call[c].fwd # f
  BY <1>4, CallFacts DEF ForwardsOK, ForwardsApart, PoolHoldsLiveForwards
<1>5. ForwardsApart'
  BY <1>1, <1>4 DEF ForwardsOK, ForwardsApart
<1>6. ForwardsKept'
  <2> SUFFICES ASSUME "forward" \notin raced'
               PROVE  FreshOnce' /\ ForwardsAreTaken'
    BY DEF ForwardsKept
  <2>1. FreshOnce /\ ForwardsAreTaken
    BY DEF ForwardsOK, ForwardsKept
  <2>2. FreshOnce'
    BY <2>1 DEF FreshOnce
  <2>3. f \in {pool, oneshot}
    BY <1>4, <2>1 DEF ForwardsAreTaken
  <2>4. ForwardsAreTaken'
    BY <1>1, <2>1, <2>3 DEF ForwardsAreTaken
  <2> QED
    BY <2>2, <2>4
<1> QED
  BY <1>3, <1>5, <1>6 DEF ForwardsOK

LEMMA ClosePooledKeeps ==
    ASSUME TypeOK, ForwardsOK, ClosePooled \/ UNCHANGED <<pool, fwd>>,
           UNCHANGED <<oneshot, call>>, raced \subseteq raced'
    PROVE  ForwardsOK'
<1>1. CASE UNCHANGED <<pool, fwd>>
  BY <1>1, ForwardsStay DEF KeepsForward
<1>2. CASE ClosePooled /\ pool # NoForward
  <2>1. /\ pool \in Forwards /\ pool # oneshot
        /\ fwd' = [fwd EXCEPT ![pool] = "none"] /\ pool' = NoForward
    BY <1>2, CacheAssumption DEF ClosePooled, Unpool, TypeOK, ForwardsOK,
                                 ForwardsApart
  <2>2. PoolHoldsLiveForwards'
    BY <2>1 DEF PoolHoldsLiveForwards
  <2>3. ForwardsApart'
    <3>1. \A c \in Callers : call[c].pc = "tunnelling" =>
             call[c].fwd \in Forwards /\ call[c].fwd # pool
      BY <1>2, CallFacts DEF ForwardsOK, ForwardsApart, PoolHoldsLiveForwards
    <3> QED
      BY <2>1, <3>1 DEF ForwardsOK, ForwardsApart, TypeOK
  <2>4. ForwardsKept'
    <3> SUFFICES ASSUME "forward" \notin raced'
                 PROVE  FreshOnce' /\ ForwardsAreTaken'
      BY DEF ForwardsKept
    <3>1. FreshOnce /\ ForwardsAreTaken
      BY DEF ForwardsOK, ForwardsKept
    <3>2. FreshOnce'
      BY <2>1, <3>1 DEF FreshOnce
    <3>3. \A g \in Forwards : fwd'[g] = IF g = pool THEN "none" ELSE fwd[g]
      BY <2>1 DEF TypeOK
    <3>4. ForwardsAreTaken'
      BY <2>1, <3>1, <3>3 DEF ForwardsAreTaken
    <3> QED
      BY <3>2, <3>4
  <2> QED
    BY <2>2, <2>3, <2>4 DEF ForwardsOK
<1>3. CASE ClosePooled /\ pool = NoForward
  BY <1>1, <1>3 DEF ClosePooled
<1> QED
  BY <1>1, <1>2, <1>3

\* A test of the connection opens a forward of its own.
LEMMA OneShotKeeps ==
    ASSUME TypeOK, ForwardsOK, BeginOneShot
    PROVE  ForwardsOK'
<1>1. PICK f \in FreeForwards :
         oneshot' = f /\ fwd' = [fwd EXCEPT ![f] = "live"]
  BY DEF BeginOneShot
<1>2. /\ f \in Forwards /\ fwd[f] = "none" /\ oneshot = NoForward
      /\ \A c \in Callers : call[c].fwd # f
      /\ UNCHANGED <<pool, call, raced>>
  BY DEF FreeForwards, BeginOneShot
<1>3. \A g \in Forwards : fwd'[g] = IF g = f THEN "live" ELSE fwd[g]
  BY <1>1, <1>2 DEF TypeOK
<1>4. pool # f
  BY <1>2, CacheAssumption DEF ForwardsOK, PoolHoldsLiveForwards
<1>5. PoolHoldsLiveForwards'
  BY <1>2, <1>3 DEF ForwardsOK, PoolHoldsLiveForwards, TypeOK
<1>6. ForwardsApart'
  <2>1. ASSUME NEW c \in Callers, call[c].pc = "tunnelling"
        PROVE  fwd'[call[c].fwd] = fwd[call[c].fwd]
    BY <1>2, <1>3, <2>1, CallFacts
  <2> QED
    BY <1>1, <1>2, <1>4, <2>1 DEF ForwardsOK, ForwardsApart
<1>7. ForwardsKept'
  <2> SUFFICES ASSUME "forward" \notin raced'
               PROVE  FreshOnce' /\ ForwardsAreTaken'
    BY DEF ForwardsKept
  <2>1. FreshOnce /\ ForwardsAreTaken
    BY <1>2 DEF ForwardsOK, ForwardsKept
  <2>2. FreshOnce'
    BY <1>2, <2>1 DEF FreshOnce
  <2>3. ForwardsAreTaken'
    BY <1>1, <1>2, <1>3, <2>1, CacheAssumption DEF ForwardsAreTaken
  <2> QED
    BY <2>2, <2>3
<1> QED
  BY <1>5, <1>6, <1>7 DEF ForwardsOK

\* Whether the call goes on with a forward of its own, with the pooled one, or
\* with what an agent borrowed.
LEMMA OpenForwards ==
    ASSUME TypeOK, ForwardsOK, NEW c \in Callers, NEW k \in Keys,
           NEW t \in Timeouts, NEW ended, NEW races,
           Open(c, k, t, ended, races), UNCHANGED <<pool, oneshot>>,
           raced \subseteq raced', call[c].pc \in {"off", "retiming"}
    PROVE  ForwardsOK'
<1>1. \A d \in Callers \ {c} : call'[d] = call[d]
  BY OpenFacts
<1>2. NoCall.pc = "off" /\ NoCall.fwd = NoForward /\ ~NoCall.fresh
  BY DEF NoCall
<1>3. \/ call'[c] = NoCall /\ fwd' = fwd
      \/ /\ call'[c].pc = "connecting" /\ ~call'[c].fresh
         /\ call'[c].fwd = pool /\ fwd' = fwd
      \/ /\ call'[c].pc = "tunnelling" /\ call'[c].fresh /\ pool = NoForward
         /\ call'[c].fwd \in FreeForwards
         /\ fwd' = [fwd EXCEPT ![call'[c].fwd] = "opening"]
         /\ \A d \in Callers \ {c} : call[d].fresh => "forward" \in raced'
  BY OpenFacts
<1>4. CASE /\ fwd' = fwd /\ call'[c].pc # "tunnelling" /\ ~call'[c].fresh
           /\ call'[c].fwd \in {pool, NoForward}
  <2>1. \A d \in Callers : KeepsForward(d)
    BY <1>1, <1>4 DEF KeepsForward
  <2> QED
    BY <1>4, <2>1, ForwardsStay
<1>5. CASE /\ call'[c].pc = "tunnelling" /\ call'[c].fresh /\ pool = NoForward
           /\ call'[c].fwd \in FreeForwards
           /\ fwd' = [fwd EXCEPT ![call'[c].fwd] = "opening"]
           /\ \A d \in Callers \ {c} : call[d].fresh => "forward" \in raced'
  BY <1>1, <1>5, FreshOpens
<1> QED
  BY <1>2, <1>3, <1>4, <1>5

LEMMA ForwardsOfCalls ==
    ASSUME TypeOK, ForwardsOK, NEW c \in Callers,
           \/ \E k \in Keys, t \in Timeouts : Acquire(c, k, t)
           \/ GoOn(c)
    PROVE  ForwardsOK'
<1>0. NoCall.pc = "off" /\ NoCall.fwd = NoForward /\ ~NoCall.fresh
  BY DEF NoCall
<1>1. ASSUME NEW k \in Keys, NEW t \in Timeouts, Acquire(c, k, t)
      PROVE  ForwardsOK'
  <2>1. CASE Hit(c, k, t)
    BY <2>1, ForwardsStay DEF Hit, KeepsForward, forwards
  <2>2. CASE Miss(c, k, t)
    <3>1. /\ Open(c, k, t, NoProvider, {}) /\ call[c].pc = "off"
          /\ UNCHANGED <<pool, oneshot>>
      BY <2>2 DEF Miss, MayAcquire
    <3>2. raced \subseteq raced'
      BY <3>1, OpenFacts
    <3> QED
      BY <3>1, <3>2, OpenForwards
  <2>3. CASE Retime(c, k, t)
    <3>1. \A d \in Callers : KeepsForward(d)
      BY <1>0, <2>3, RetimeFacts DEF KeepsForward
    <3> QED
      BY <2>3, <3>1, ForwardsStay DEF Retime, forwards
  <2>4. CASE RetimeRefused(c, k, t)
    <3>1. /\ Open(c, k, t, NoProvider, {"disconnect"}) /\ call[c].pc = "off"
          /\ UNCHANGED <<pool, oneshot>>
      BY <2>4 DEF RetimeRefused, MayAcquire
    <3>2. raced \subseteq raced'
      BY <3>1, OpenFacts
    <3> QED
      BY <3>1, <3>2, OpenForwards
  <2> QED
    BY <1>1, <2>1, <2>2, <2>3, <2>4 DEF Acquire
<1>2. CASE Retimed(c)
  <2> DEFINE k == call[c].key
             t == call[c].tmo
             ended == call[c].prov
  <2>1. /\ k \in Keys /\ t \in Timeouts /\ Open(c, k, t, ended, {})
        /\ UNCHANGED <<pool, oneshot>> /\ call[c].pc = "retiming"
    BY <1>2, CallFacts DEF Retimed
  <2> HIDE DEF k, t, ended
  <2>2. raced \subseteq raced'
    BY <2>1, OpenFacts
  <2> QED
    BY <2>1, <2>2, OpenForwards
<1>3. CASE ForwardOpened(c)
  BY <1>3, OpenedKeeps
<1>4. CASE ForwardFails(c)
  BY <1>4, FailCloses, CallFacts DEF ForwardFails
\* What ends without closing a forward was connecting.
<1>5. ASSUME call[c].pc = "connecting", Quit(c),
             UNCHANGED <<pool, fwd, oneshot, raced>>
      PROVE  ForwardsOK'
  <2>1. \A d \in Callers : KeepsForward(d)
    BY <1>0, <1>5, QuitType DEF KeepsForward
  <2> QED
    BY <1>5, <2>1, ForwardsStay
<1>6. CASE ConnectAnswered(c)
  BY <1>5, <1>6 DEF ConnectAnswered, forwards
<1>7. CASE ConnectFails(c)
  BY <1>5, <1>7, FailCloses DEF ConnectFails
<1> QED
  BY <1>1, <1>2, <1>3, <1>4, <1>6, <1>7 DEF GoOn

LEMMA ForwardsKeep ==
    ASSUME TypeOK, ForwardsOK, [Next]_vars
    PROVE  ForwardsOK'
<1>1. ASSUME NEW x \in Closers, CloserStep(x)
      PROVE  ForwardsOK'
  <2>1. /\ ClosePooled \/ UNCHANGED <<pool, fwd>>
        /\ UNCHANGED <<oneshot, call>> /\ raced \subseteq raced'
    BY <1>1 DEF CloserStep, Disconnect, Disconnected, NextMap, Drop, Race,
                entries, forwards
  <2> QED
    BY <2>1, ClosePooledKeeps
<1>2. CASE \/ BeginSweep \/ BeginRemove \/ UNCHANGED vars
           \/ \E k \in Keys : GoesIdle(k)
  <2>1. UNCHANGED <<forwards, call, raced>>
    BY <1>2 DEF BeginSweep, BeginRemove, GoesIdle, vars
  <2> QED
    BY <2>1, ForwardsStay DEF forwards, KeepsForward
<1>3. ASSUME NEW f \in Forwards, ForwardDrops(f)
      PROVE  ForwardsOK'
  BY <1>3, LiveCloses DEF ForwardDrops, CloseForward, Unpool, entries
<1>4. CASE EndOneShot
  <2> DEFINE f == oneshot
  <2>1. f \in Forwards /\ f = oneshot
    BY <1>4 DEF EndOneShot, TypeOK
  <2>2. /\ fwd' = [fwd EXCEPT ![f] = "none"] /\ pool' = pool
        /\ oneshot' = NoForward /\ UNCHANGED <<call, raced>>
    BY <1>4 DEF EndOneShot, CloseForward
  <2> HIDE DEF f
  <2> QED
    BY <2>1, <2>2, LiveCloses
<1> QED
  BY <1>1, <1>2, <1>3, <1>4, ForwardsOfCalls, OneShotKeeps DEF Next

-----------------------------------------------------------------------------
(* The invariant, and what it gives.                                       *)

LEMMA InitInv == Init => CacheInv
<1> SUFFICES ASSUME Init PROVE CacheInv
  OBVIOUS
<1>1. TypeOK
  <2>1. \A c \in Callers : CallShape(call[c])
    BY NoCallShape DEF Init
  <2>2. call \in [Callers -> Call]
    BY NoCallShape DEF Init
  <2>3. /\ closer \in [Closers -> Closer]
        /\ \A x \in Closers :
              closer[x].at = NoKey /\ closer[x].prov = NoProvider
    BY DEF Init, NoCloser, Closer
  <2> QED
    BY <2>1, <2>2, <2>3 DEF TypeOK, Init
<1>2. /\ \A c \in Callers : call[c] = NoCall
      /\ NoCall.pc = "off" /\ NoCall.prov = NoProvider
      /\ NoCall.fwd = NoForward /\ ~NoCall.fresh
  BY DEF Init, NoCall
<1>3. \A x \in Closers :
         closer[x].at = NoKey /\ closer[x].prov = NoProvider
  BY DEF Init, NoCloser
<1>4. ProvidersHeld
  <2>1. CachedOnce
    BY DEF Init, CachedOnce
  <2>2. HandsApart
    BY <1>2, <1>3 DEF HandsApart
  <2>3. InHand
    BY <1>2, <1>3 DEF InHand, Opening
  <2> QED
    BY <2>1, <2>2, <2>3 DEF ProvidersHeld
<1>5. CalmlyKept
  BY <1>2, <1>3 DEF Init, CalmlyKept, KeysApart, KeysKept, NothingOrphaned,
                    Opening
<1>6. PoolHoldsLiveForwards /\ ForwardsApart /\ ForwardsKept
  BY <1>2 DEF Init, PoolHoldsLiveForwards, ForwardsApart, ForwardsKept,
              FreshOnce, ForwardsAreTaken
<1> QED
  BY <1>1, <1>4, <1>5, <1>6 DEF CacheInv

LEMMA StepInv == CacheInv /\ [Next]_vars => CacheInv'
BY TypeInv, HandsKeep, ForwardsKeep DEF CacheInv, ForwardsOK

LEMMA CacheInvariant == Spec => []CacheInv
BY InitInv, StepInv, PTL DEF Spec

\* getOrCreateProvider, evictIdleProviders, removeProvider: an open provider
\* is in a cache, or a call has it in hand, until a race has happened.
THEOREM NothingIsOrphaned == Spec => []NothingOrphaned
<1>1. CacheInv => NothingOrphaned
  BY DEF CacheInv, CalmlyKept, NothingOrphaned, Calm
<1> QED
  BY <1>1, CacheInvariant, PTL

\* closeSSHTunnel, cleanup: an open forward is where someone will close it,
\* until two calls have opened one at once.
THEOREM ForwardsAreAnsweredFor == Spec => []NoForwardStranded
<1>1. CacheInv => NoForwardStranded
  BY DEF CacheInv, ForwardsKept, NoForwardStranded
<1> QED
  BY <1>1, CacheInvariant, PTL

\* What the pool hands out is open, whatever races.
THEOREM PooledForwardsAreLive == Spec => []PoolHoldsLiveForwards
<1>1. CacheInv => PoolHoldsLiveForwards
  BY DEF CacheInv
<1> QED
  BY <1>1, CacheInvariant, PTL

\* evictIdleProviders: what the sweep ends stands under no key that someone
\* acquired within half an hour, whatever races.
THEOREM TheSweepSparesTheBusy == Spec => SweepSparesTheBusy
<1>1. CacheInv /\ [Next]_vars =>
        \A p \in Providers :
          (closer["sweep"].prov # p /\ closer'["sweep"].prov = p) =>
              {k \in Keys : cache[k] = p} \subseteq idle
  <2> SUFFICES ASSUME CacheInv, [Next]_vars, NEW p \in Providers,
                      closer["sweep"].prov # p, closer'["sweep"].prov = p,
                      NEW j \in Keys, cache[j] = p
               PROVE  j \in idle
    OBVIOUS
  <2>1. TypeOK /\ "sweep" \in Closers
    BY DEF CacheInv, Closers
  <2>2. CASE UNCHANGED closer
    BY <2>2
  <2>3. CASE BeginSweep \/ BeginRemove
    BY <2>1, <2>3, BeginFacts
  <2>4. ASSUME NEW x \in Closers, NEW k \in Keys, Disconnect(x, k)
        PROVE  j \in idle
    <3>1. CASE Drop(x, k)
      BY <2>1, <3>1, DropFacts, CacheAssumption
    <3>2. CASE closer' = [closer EXCEPT ![x].at = k, ![x].prov = cache[k]]
      <4>1. x = "sweep" /\ cache[k] = p
        BY <2>1, <3>2 DEF TypeOK, Closer
      <4>2. k \in idle
        BY <2>4, <4>1 DEF Disconnect, Visited
      <4>3. j = k
        BY <4>1, CacheAssumption DEF CacheInv, ProvidersHeld, CachedOnce
      <4> QED
        BY <4>2, <4>3
    <3> QED
      BY <2>4, <3>1, <3>2 DEF Disconnect
  <2>5. ASSUME NEW x \in Closers, Disconnected(x)
        PROVE  FALSE
    <3> DEFINE k == closer[x].at
    <3>1. k \in Keys /\ Drop(x, k)
      BY <2>1, <2>5, CloserFacts DEF Disconnected
    <3> HIDE DEF k
    <3> QED
      BY <2>1, <3>1, DropFacts, CacheAssumption
  <2>6. ASSUME NEW x \in Closers, NextMap(x)
        PROVE  FALSE
    <3>1. \E ph \in {"off", "shared", "profiled"} :
             closer' = [closer EXCEPT ![x].phase = ph]
      BY <2>6 DEF NextMap
    <3> QED
      BY <2>1, <3>1, PhaseFacts
  <2>7. ASSUME NEW c \in Callers,
               \/ \E k \in Keys, t \in Timeouts : Acquire(c, k, t)
               \/ GoOn(c)
        PROVE  UNCHANGED closer
    BY <2>7 DEF Acquire, GoOn, Hit, Miss, Retime, RetimeRefused, Retimed,
                ForwardOpened, ForwardFails, ConnectAnswered, ConnectFails
  <2>8. ASSUME Outside PROVE UNCHANGED closer
    BY <2>8 DEF Outside, GoesIdle, ForwardDrops, BeginOneShot, EndOneShot
  <2> QED
    BY <2>2, <2>3, <2>4, <2>5, <2>6, <2>7, <2>8
    DEF Next, CloserStep, Outside, vars
<1> QED
  BY <1>1, CacheInvariant, PTL DEF Spec, SweepSparesTheBusy
=============================================================================
