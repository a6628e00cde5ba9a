------------------------ MODULE RunLedgerFoldProofs ------------------------
(***************************************************************************)
(* The fold of a ledger means what its entries say, for ledgers of every   *)
(* length (FoldMeansTheLedger of RunLedgerFold).                           *)
(*                                                                         *)
(* The property is nearly inductive.  It lacks the two sets of steps by    *)
(* themselves, for their difference alone does not determine what the next *)
(* outcome takes away, and that a status that changed has a last change,   *)
(* which is what LastStatus chooses.                                       *)
(***************************************************************************)
EXTENDS RunLedgerFold, TLAPS

StepsKept ==
    /\ view.invoked = StepsOf("tool-invoked")
    /\ view.settled = StepsOf("tool-settled")

LastChangeExists ==
    StatusChanges # {} => \E i \in StatusChanges : \A j \in StatusChanges : j <= i

FoldInv ==
    /\ entries \in Seq(Entries)
    /\ view \in Views
    /\ StepsKept
    /\ LastChangeExists
    /\ FoldMeansTheLedger

-----------------------------------------------------------------------------
(* Where the entries stand after one more was read.                        *)

\* Reading an entry adds its place to the places of its kind, changes no
\* other set of places and no entry that was there.
LEMMA PlacesAfter ==
    ASSUME entries \in Seq(Entries), NEW e \in Entries,
           entries' = Append(entries, e), NEW kinds
    PROVE  /\ Places(kinds)' = IF e.kind \in kinds
                               THEN Places(kinds) \cup {Len(entries) + 1}
                               ELSE Places(kinds)
           /\ \A i \in Places(kinds) :
                 i \in Nat /\ i <= Len(entries) /\ entries'[i] = entries[i]
           /\ entries'[Len(entries) + 1] = e
           /\ Len(entries) \in Nat
<1>1. /\ Len(entries) \in Nat
      /\ DOMAIN entries = 1..Len(entries)
      /\ DOMAIN entries' = 1..(Len(entries) + 1)
      /\ \A i \in 1..Len(entries) : entries'[i] = entries[i]
      /\ entries'[Len(entries) + 1] = e
  OBVIOUS
<1> QED
  BY <1>1 DEF Places

\* What kinds of entries there are, and what they carry.
LEMMA EntryTypes ==
    ASSUME NEW e \in Entries
    PROVE  /\ e.kind \in {"run-started", "run-paused", "run-resumed", "run-finished",
                          "cancellation-requested", "narrative", "tool-invoked",
                          "tool-settled", "drive-claimed", "drive-released"}
           /\ e.kind = "run-finished" => e.status \in TerminalStatuses
           /\ e.kind \in {"tool-invoked", "tool-settled"} => e.step \in Steps
           /\ e.kind \in {"drive-claimed", "drive-released"} => e.drive \in Drives
  BY DEF Entries, RunStarted, RunPaused, RunResumed, CancellationRequested, Narrative,
         RunFinished, ToolInvoked, ToolSettled, DriveClaimed, DriveReleased

\* What one turn of the loop does to each part of the view.
LEMMA FoldEntryParts ==
    ASSUME NEW v \in Views, NEW e \in Entries
    PROVE  /\ FoldEntry(v, e) \in Views
           /\ FoldEntry(v, e).status = NextStatus(v.status, e)
           /\ FoldEntry(v, e).cancelReq = (v.cancelReq \/ e.kind = "cancellation-requested")
           /\ FoldEntry(v, e).claim =
                 CASE e.kind = "drive-claimed"  -> e.drive
                   [] e.kind = "drive-released" -> AfterRelease(v.claim, e.drive)
                   [] OTHER                     -> v.claim
           /\ FoldEntry(v, e).invoked =
                 IF e.kind = "tool-invoked" THEN v.invoked \cup {e.step} ELSE v.invoked
           /\ FoldEntry(v, e).settled =
                 IF e.kind = "tool-settled" THEN v.settled \cup {e.step} ELSE v.settled
           /\ FoldEntry(v, e).ended = (v.ended \/ e.kind = "run-finished")
<1> USE EntryTypes DEF FoldEntry, NextStatus, Views
<1>1. CASE e.kind = "cancellation-requested"
  BY <1>1
<1>2. CASE e.kind = "drive-claimed"
  BY <1>2
<1>3. CASE e.kind = "drive-released"
  BY <1>3 DEF AfterRelease
<1>4. CASE e.kind = "tool-invoked"
  BY <1>4
<1>5. CASE e.kind = "tool-settled"
  BY <1>5
<1>6. CASE e.kind = "run-finished"
  BY <1>6 DEF Statuses
<1>7. CASE e.kind \in {"run-started", "run-paused", "run-resumed", "narrative"}
  BY <1>7 DEF Statuses
<1> QED
  BY <1>1, <1>2, <1>3, <1>4, <1>5, <1>6, <1>7

-----------------------------------------------------------------------------
(* Each part of the invariant over one turn of the loop.                   *)

LEMMA LastChangeStays ==
    ASSUME FoldInv, NEW e \in Entries, entries' = Append(entries, e)
    PROVE  LastChangeExists'
<1> DEFINE K == {"run-started", "run-paused", "run-resumed", "run-finished"}
<1>0. entries \in Seq(Entries)
  BY DEF FoldInv
<1>1. /\ StatusChanges' = IF e.kind \in K
                          THEN StatusChanges \cup {Len(entries) + 1} ELSE StatusChanges
      /\ \A i \in StatusChanges : i \in Nat /\ i <= Len(entries)
      /\ Len(entries) \in Nat
  BY <1>0, PlacesAfter DEF StatusChanges
<1>2. CASE e.kind \in K
  <2>1. /\ Len(entries) + 1 \in StatusChanges'
        /\ \A j \in StatusChanges' : j <= Len(entries) + 1
    BY <1>1, <1>2
  <2> QED
    BY <2>1 DEF LastChangeExists
<1>3. CASE e.kind \notin K
  BY <1>1, <1>3 DEF LastChangeExists, FoldInv
<1> QED
  BY <1>2, <1>3

LEMMA StatusStays ==
    ASSUME FoldInv, NEW e \in Entries,
           entries' = Append(entries, e), view' = FoldEntry(view, e)
    PROVE  view'.status = LastStatus'
<1> DEFINE K == {"run-started", "run-paused", "run-resumed", "run-finished"}
           n == Len(entries) + 1
<1>0. entries \in Seq(Entries)
  BY DEF FoldInv
<1>1. /\ StatusChanges' = IF e.kind \in K THEN StatusChanges \cup {n} ELSE StatusChanges
      /\ \A i \in StatusChanges : i \in Nat /\ i < n /\ entries'[i] = entries[i]
      /\ n \in Nat
      /\ entries'[n] = e
  <2>1. /\ StatusChanges' = IF e.kind \in K THEN StatusChanges \cup {n} ELSE StatusChanges
        /\ \A i \in StatusChanges :
              i \in Nat /\ i <= Len(entries) /\ entries'[i] = entries[i]
        /\ entries'[n] = e
        /\ Len(entries) \in Nat
    BY <1>0, PlacesAfter DEF StatusChanges
  <2>2. n \in Nat /\ \A i \in Nat : i <= Len(entries) => i < n
    BY <2>1
  <2> HIDE DEF n
  <2> QED
    BY <2>1, <2>2
<1>2. view'.status = NextStatus(view.status, e)
  BY FoldEntryParts DEF FoldInv
<1> HIDE DEF n
<1>3. CASE e.kind \in K
  <2>1. n \in StatusChanges' /\ \A j \in StatusChanges' : j <= n
    BY <1>1, <1>3
  <2>2. \A i \in StatusChanges' : (\A j \in StatusChanges' : j <= i) => i = n
    BY <1>1, <1>3
  <2>3. LastChange' = n
    BY <2>1, <2>2 DEF LastChange
  <2>4. LastStatus' = StatusSetBy(e)
    BY <1>1, <2>1, <2>3 DEF LastStatus
  <2> QED
    BY <1>2, <1>3, <2>4 DEF NextStatus, StatusSetBy
<1>4. CASE e.kind \notin K
  <2>1. StatusChanges' = StatusChanges
    BY <1>1, <1>4
  <2>2. LastStatus' = LastStatus
    <3>1. CASE StatusChanges = {}
      BY <2>1, <3>1 DEF LastStatus
    <3>2. CASE StatusChanges # {}
      <4>1. LastChange \in StatusChanges
        BY <3>2 DEF FoldInv, LastChangeExists, LastChange
      <4>2. LastChange' = LastChange
        BY <2>1 DEF LastChange
      <4> QED
        BY <1>1, <2>1, <3>2, <4>1, <4>2 DEF LastStatus
    <3> QED
      BY <3>1, <3>2
  <2>3. view'.status = view.status
    BY <1>2, <1>4 DEF NextStatus
  <2> QED
    BY <2>2, <2>3 DEF FoldInv, FoldMeansTheLedger
<1> QED
  BY <1>3, <1>4

LEMMA CancellationStays ==
    ASSUME FoldInv, NEW e \in Entries,
           entries' = Append(entries, e), view' = FoldEntry(view, e)
    PROVE  (view.cancelReq = (Places({"cancellation-requested"}) # {}))'
<1>1. Places({"cancellation-requested"})' =
          IF e.kind = "cancellation-requested"
          THEN Places({"cancellation-requested"}) \cup {Len(entries) + 1}
          ELSE Places({"cancellation-requested"})
  BY PlacesAfter DEF FoldInv
<1>2. view'.cancelReq = (view.cancelReq \/ e.kind = "cancellation-requested")
  BY FoldEntryParts DEF FoldInv
<1>3. view.cancelReq = (Places({"cancellation-requested"}) # {})
  BY DEF FoldInv, FoldMeansTheLedger
<1>4. CASE e.kind = "cancellation-requested"
  BY <1>1, <1>2, <1>4
<1>5. CASE e.kind # "cancellation-requested"
  BY <1>1, <1>2, <1>3, <1>5
<1> QED
  BY <1>4, <1>5

LEMMA StepsStay ==
    ASSUME FoldInv, NEW e \in Entries,
           entries' = Append(entries, e), view' = FoldEntry(view, e)
    PROVE  StepsKept'
<1>1. ASSUME NEW k \in {"tool-invoked", "tool-settled"}
      PROVE  StepsOf(k)' = IF e.kind = k THEN StepsOf(k) \cup {e.step} ELSE StepsOf(k)
  <2>1. /\ Places({k})' = IF e.kind = k THEN Places({k}) \cup {Len(entries) + 1}
                                        ELSE Places({k})
        /\ \A i \in Places({k}) : entries'[i] = entries[i]
        /\ entries'[Len(entries) + 1] = e
    BY PlacesAfter DEF FoldInv
  <2>2. StepsOf(k)' = {entries'[i].step : i \in Places({k})'}
    BY DEF StepsOf
  <2> QED
    BY <2>1, <2>2 DEF StepsOf
<1>2. /\ view'.invoked = IF e.kind = "tool-invoked" THEN view.invoked \cup {e.step}
                                                   ELSE view.invoked
      /\ view'.settled = IF e.kind = "tool-settled" THEN view.settled \cup {e.step}
                                                   ELSE view.settled
  BY FoldEntryParts DEF FoldInv
<1>3. view'.invoked = StepsOf("tool-invoked")'
  BY <1>1, <1>2 DEF FoldInv, StepsKept
<1>4. view'.settled = StepsOf("tool-settled")'
  BY <1>1, <1>2 DEF FoldInv, StepsKept
<1> QED
  BY <1>3, <1>4 DEF StepsKept

\* A claim is held until its own drive gives it back or another drive takes
\* it: a release that arrives late, from a drive that lost the claim, finds
\* a claim that stands after the last one of its own.
LEMMA ClaimStays ==
    ASSUME FoldInv, NEW e \in Entries,
           entries' = Append(entries, e), view' = FoldEntry(view, e),
           NEW d \in Drives
    PROVE  (view.claim = d <=> Holder(d))'
<1> DEFINE claims   == Places({"drive-claimed"})
           releases == Places({"drive-released"})
           n        == Len(entries) + 1
<1>0. entries \in Seq(Entries)
  BY DEF FoldInv
<1>1. /\ claims' = IF e.kind = "drive-claimed" THEN claims \cup {n} ELSE claims
      /\ \A i \in claims : i \in Nat /\ i < n /\ entries'[i] = entries[i]
      /\ n \in Nat
      /\ entries'[n] = e
  <2>1. /\ claims' = IF e.kind \in {"drive-claimed"} THEN claims \cup {n} ELSE claims
        /\ \A i \in claims : i \in Nat /\ i <= Len(entries) /\ entries'[i] = entries[i]
        /\ entries'[n] = e
        /\ Len(entries) \in Nat
    BY <1>0, PlacesAfter
  <2>2. n \in Nat /\ \A i \in Nat : i <= Len(entries) => i < n
    BY <2>1
  <2> HIDE DEF n
  <2> QED
    BY <2>1, <2>2
<1>2. /\ releases' = IF e.kind = "drive-released" THEN releases \cup {n} ELSE releases
      /\ \A i \in releases : i \in Nat /\ i < n /\ entries'[i] = entries[i]
  <2>1. /\ releases' = IF e.kind \in {"drive-released"} THEN releases \cup {n} ELSE releases
        /\ \A i \in releases : i \in Nat /\ i <= Len(entries) /\ entries'[i] = entries[i]
        /\ Len(entries) \in Nat
    BY <1>0, PlacesAfter
  <2>2. n \in Nat /\ \A i \in Nat : i <= Len(entries) => i < n
    BY <2>1
  <2> HIDE DEF n
  <2> QED
    BY <2>1, <2>2
<1>3. view'.claim = CASE e.kind = "drive-claimed"  -> e.drive
                      [] e.kind = "drive-released" -> AfterRelease(view.claim, e.drive)
                      [] OTHER                     -> view.claim
  BY FoldEntryParts DEF FoldInv
<1>4. view.claim = d <=> Holder(d)
  BY DEF FoldInv, FoldMeansTheLedger
<1>5. Holder(d)' <=> \E i \in claims' : /\ entries'[i].drive = d
                                        /\ \A j \in claims' : j <= i
                                        /\ ~\E j \in releases' : j > i /\ entries'[j].drive = d
  BY DEF Holder
<1>6. Holder(d) <=> \E i \in claims : /\ entries[i].drive = d
                                      /\ \A j \in claims : j <= i
                                      /\ ~\E j \in releases : j > i /\ entries[j].drive = d
  BY DEF Holder
<1> HIDE DEF claims, releases, n
<1>7. CASE e.kind = "drive-claimed"
  <2>1. /\ n \in claims' /\ \A j \in claims' : j <= n
        /\ \A i \in claims' : (\A j \in claims' : j <= i) => i = n
        /\ ~\E j \in releases' : j > n
    BY <1>1, <1>2, <1>7
  <2>2. Holder(d)' <=> e.drive = d
    BY <1>1, <1>5, <2>1
  <2> QED
    BY <1>3, <1>7, <2>2
<1>8. CASE e.kind = "drive-released" /\ e.drive = d
  <2>1. /\ claims' = claims
        /\ n \in releases'
        /\ \A i \in claims : n > i
    BY <1>1, <1>2, <1>8
  <2>2. ~Holder(d)'
    BY <1>1, <1>5, <1>8, <2>1
  <2>3. view'.claim # d
    BY <1>3, <1>8, NoDriveAssumption DEF AfterRelease
  <2> QED
    BY <2>2, <2>3
<1>9. CASE e.kind = "drive-released" /\ e.drive # d
  <2>1. claims' = claims /\ releases' = releases \cup {n}
    BY <1>1, <1>2, <1>9
  <2>2. Holder(d)' <=> Holder(d)
    BY <1>1, <1>2, <1>5, <1>6, <1>9, <2>1
  <2>3. view'.claim = d <=> view.claim = d
    BY <1>3, <1>9, NoDriveAssumption DEF AfterRelease
  <2> QED
    BY <1>4, <2>2, <2>3
<1>10. CASE e.kind \notin {"drive-claimed", "drive-released"}
  <2>1. claims' = claims /\ releases' = releases
    BY <1>1, <1>2, <1>10
  <2>2. Holder(d)' <=> Holder(d)
    BY <1>1, <1>2, <1>5, <1>6, <2>1
  <2> QED
    BY <1>3, <1>4, <1>10, <2>2
<1> QED
  BY <1>7, <1>8, <1>9, <1>10

LEMMA EndStays ==
    ASSUME FoldInv, NEW e \in Entries, view' = FoldEntry(view, e)
    PROVE  (IsTerminal(view) => view.ended)'
<1>1. /\ view'.status = NextStatus(view.status, e)
      /\ view'.ended = (view.ended \/ e.kind = "run-finished")
  BY FoldEntryParts DEF FoldInv
<1>2. IsTerminal(view) => view.ended
  BY DEF FoldInv, FoldMeansTheLedger
<1> QED
  BY <1>1, <1>2 DEF IsTerminal, NextStatus

-----------------------------------------------------------------------------
(* The invariant and the property.                                         *)

LEMMA InitEstablishes == Init => FoldInv
<1> SUFFICES ASSUME Init PROVE FoldInv
  OBVIOUS
<1>1. entries \in Seq(Entries) /\ \A kinds : Places(kinds) = {}
  BY DEF Init, Places
<1>2. view \in Views /\ ~IsTerminal(view)
  BY DEF Init, EmptyView, Views, Statuses, IsTerminal
<1>3. StatusChanges = {} /\ LastStatus = "queued"
  BY <1>1 DEF StatusChanges, LastStatus
<1>4. StepsOf("tool-invoked") = {} /\ StepsOf("tool-settled") = {}
  BY <1>1 DEF StepsOf
<1>5. \A d \in Drives : ~Holder(d) /\ view.claim # d
  BY <1>1, NoDriveAssumption DEF Holder, Init, EmptyView
<1> QED
  BY <1>1, <1>2, <1>3, <1>4, <1>5
     DEF Init, EmptyView, FoldInv, StepsKept, LastChangeExists, FoldMeansTheLedger, Unsettled

LEMMA StepPreserves == FoldInv /\ [Next]_vars => FoldInv'
<1> SUFFICES ASSUME FoldInv, [Next]_vars PROVE FoldInv'
  OBVIOUS
<1>1. ASSUME NEW e \in Entries, ReadEntry(e)
      PROVE  FoldInv'
  <2>1. entries' = Append(entries, e) /\ view' = FoldEntry(view, e)
    BY <1>1 DEF ReadEntry
  <2>2. entries' \in Seq(Entries) /\ view' \in Views
    <3>1. entries \in Seq(Entries) /\ view \in Views
      BY DEF FoldInv
    <3>2. view' \in Views
      BY <2>1, <3>1, FoldEntryParts
    <3> QED
      BY <2>1, <3>1, <3>2
  <2>3. LastChangeExists'
    BY <2>1, LastChangeStays
  <2>4. view'.status = LastStatus'
    BY <2>1, StatusStays
  <2>5. (view.cancelReq = (Places({"cancellation-requested"}) # {}))'
    BY <2>1, CancellationStays
  <2>6. StepsKept'
    BY <2>1, StepsStay
  <2>7. ASSUME NEW d \in Drives PROVE (view.claim = d <=> Holder(d))'
    BY <2>1, ClaimStays
  <2>8. (IsTerminal(view) => view.ended)'
    BY <2>1, EndStays
  <2>9. (Unsettled(view) = StepsOf("tool-invoked") \ StepsOf("tool-settled"))'
    BY <2>6 DEF StepsKept, Unsettled
  <2>10. FoldMeansTheLedger'
    BY <2>4, <2>5, <2>7, <2>8, <2>9 DEF FoldMeansTheLedger
  <2> QED
    BY <2>2, <2>3, <2>6, <2>10 DEF FoldInv
<1>2. CASE UNCHANGED vars
  <2>1. entries' = entries /\ view' = view
    BY <1>2 DEF vars
  <2>2. \A kinds : Places(kinds)' = Places(kinds)
    BY <2>1 DEF Places
  <2>3. StatusChanges' = StatusChanges /\ LastChange' = LastChange
    BY <2>2 DEF StatusChanges, LastChange
  <2>4. LastStatus' = LastStatus
    BY <2>1, <2>3 DEF LastStatus
  <2>5. \A d \in Drives : Holder(d)' <=> Holder(d)
    BY <2>1, <2>2 DEF Holder
  <2>6. \A kind : StepsOf(kind)' = StepsOf(kind)
    BY <2>1, <2>2 DEF StepsOf
  <2> QED
    BY <2>1, <2>2, <2>3, <2>4, <2>5, <2>6
       DEF FoldInv, StepsKept, LastChangeExists, FoldMeansTheLedger
<1> QED
  BY <1>1, <1>2 DEF Next

\* The view that foldLedger returns says of the run what the entries say,
\* whatever the ledger: the status of the last change of status, a claim
\* only its own drive has released since, a request to cancel if there is
\* one, the invocations without outcome, an end in the record of every run
\* that is over.
THEOREM TheFoldIsRight == Spec => []FoldMeansTheLedger
<1>1. FoldInv => FoldMeansTheLedger
  BY DEF FoldInv
<1> QED
  BY InitEstablishes, StepPreserves, <1>1, PTL DEF Spec
=============================================================================
