--------------------------- MODULE AccountsProofs ---------------------------
(***************************************************************************)
(* Proofs about Accounts, for any accounts, keys, requests and bounds, and *)
(* with no limit on how many requests a process or its siblings have under *)
(* way.  One inductive invariant carries all of it: what the row locks     *)
(* exclude, what a transaction checked and can still rely on, and what the *)
(* versions of a row say of its past.                                      *)
(***************************************************************************)
EXTENDS Accounts, FiniteSetTheorems, TLAPS

-----------------------------------------------------------------------------
(* A request in flight.                                                    *)

AccountOps == {"change", "reset"} \cup OwnOps
Ops == AccountOps \cup {"delete", "create", "register", "remove", "signIn"}

Request ==
    [at : {"read", "checked", "locked", "written", "answered"},
     op : Ops, email : Emails, seen : Row \cup {NoRow},
     patch : Patches \cup {<<>>} \cup [role : Roles],
     key : KeyIds \cup {NoKey},
     locks : SUBSET Emails, gone : SUBSET KeyIds]

\* What each operation brings along.
WellFormed(q) ==
    /\ q.op \in AccountOps \cup {"delete", "register", "remove"}
          => q.seen # NoRow
    /\ q.op = "change" => q.patch \in Patches
    /\ q.op = "create" => q.patch \in [role : Roles]
    /\ q.op \in {"register", "remove", "signIn"} => q.key \in KeyIds
    /\ q.op # "signIn" => q.at \in {"read", "locked", "written"}

\* A lock is held from the statement that takes it to the end of the
\* transaction, and a write locks its row.
LocksHeld(q) ==
    /\ q.at \notin {"locked", "written"} => q.locks = {}
    /\ q.at = "locked" /\ q.op \in {"register", "signIn"} => q.locks = {q.email}
    /\ q.at = "written" => q.email \in q.locks

\* The rows and keys a transaction checked are still as it checked them: the
\* locks it holds keep every other writer out.
Stands(q) ==
    /\ q.at = "written" /\ q.op \in AccountOps
          => /\ rows[q.email] = q.seen
             /\ q.gone = IF ClearsKeys(q) THEN KeysOf(q.email) ELSE {}
    /\ q.at = "written" /\ q.op = "delete" => q.gone = KeysOf(q.email)
    /\ q.at = "written" /\ q.op = "create"
          => rows[q.email] = NoRow /\ q.gone = KeysOf(q.email)
    /\ q.at = "written" /\ q.op = "remove"
          => /\ UnchangedVersion(q)
             /\ q.key \in KeysOf(q.email) /\ q.gone = {q.key}
    /\ q.at \in {"locked", "written"} /\ q.op = "register" => Registrable(q)
    /\ q.at = "written" /\ q.op = "register" => WithinLimit(q.email)
    /\ q.at \in {"locked", "written"} /\ q.op = "signIn" => AsSeen(q)
    /\ q.at = "written" /\ q.op = "signIn" => keys[q.key] # NoKey
    /\ q.at # "written" \/ q.op \in {"register", "signIn"} => q.gone = {}

\* A row that was read is the row that is there, or an earlier state of it, or
\* of another account of the same email.
SeenIsPast(q) ==
    q.seen # NoRow =>
        /\ q.seen.sv[1] < seeds
        /\ rows[q.email] # NoRow /\ rows[q.email].sv[1] = q.seen.sv[1] =>
              /\ q.seen.updatedAt <= rows[q.email].updatedAt
              /\ q.seen.updatedAt = rows[q.email].updatedAt
                    => q.seen = rows[q.email]

\* The key a sign-in found is nobody else's.
SignsInWithHisKey(q) ==
    q.op = "signIn" /\ keys[q.key] # NoKey => keys[q.key].email = q.email

RequestsOK ==
    /\ req \in [Requests -> Request \cup {Free}]
    /\ \A r \in Requests : req[r] # Free =>
          /\ WellFormed(req[r]) /\ LocksHeld(req[r]) /\ Stands(req[r])
          /\ SeenIsPast(req[r]) /\ SignsInWithHisKey(req[r])

\* Two transactions hold a lock on one row only if both share it, as sign-ins.
Exclusive ==
    \A r, q \in Requests :
        r # q /\ req[r] # Free /\ req[q] # Free
              /\ req[r].locks \cap req[q].locks # {}
        => req[r].op = "signIn" /\ req[q].op = "signIn"

\* A key under registration is on no account, and nobody else's.
NewKeys ==
    \A r \in Requests :
        req[r] # Free /\ req[r].op = "register" =>
            /\ keys[req[r].key] = NoKey
            /\ \A q \in Requests \ {r} :
                  req[q] # Free => req[q].key # req[r].key

-----------------------------------------------------------------------------
(* The past of a row.                                                      *)

RowsStarted == \A e \in Emails : rows[e] # NoRow => rows[e].sv[1] < seeds

\* A version that was ended is one the row has left behind.
EndedIsPast ==
    \A c \in ended :
        /\ c[2][1] < seeds
        /\ rows[c[1]] # NoRow /\ rows[c[1]].sv[1] = c[2][1]
              => c[2][2] < rows[c[1]].sv[2]

\* Keys are cleared by what ends the sessions.
ClearedEnded == cleared \subseteq ended

History == RowsStarted /\ EndedIsPast /\ ClearedEnded

FinitelyManyKeys == \A e \in Emails : IsFiniteSet(KeysOf(e))

-----------------------------------------------------------------------------
(* The last enabled admin, as long as no delete misjudged a row.           *)

SomeAccount == \E e \in Emails : rows[e] # NoRow

\* Whoever guards the last admin, or creates a user, has seen an account.
Populated(q) ==
    KeepsAdmin(q) \/ (q.op = "create" /\ q.patch.role # "admin")
    => SomeAccount

\* A guarded transaction holds the row of an enabled admin, and the one it
\* writes leaves another.
Guarding(q) == KeepsAdmin(q) /\ q.at \in {"locked", "written"}

HoldsAnAdmin(q) ==
    Guarding(q) => \E e \in q.locks : IsEnabledAdmin(rows[e])

LeavesAnother(q) ==
    KeepsAdmin(q) /\ q.at = "written" => EnabledAdmins \ {q.email} # {}

\* So that two of them never run at once.
GuardedAlone ==
    \A r, q \in Requests :
        req[r] # Free /\ req[q] # Free /\ Guarding(req[r]) /\ Guarding(req[q])
        => r = q

AdminsGuarded ==
    ~misjudged =>
        /\ AnEnabledAdminRemains /\ GuardedAlone
        /\ \A r \in Requests : req[r] # Free =>
              /\ Populated(req[r]) /\ HoldsAnAdmin(req[r])
              /\ LeavesAnother(req[r])

AccountsInv ==
    /\ TypeOK /\ RequestsOK /\ Exclusive /\ NewKeys
    /\ History /\ ClearedKeysStayGone
    /\ FinitelyManyKeys /\ WithinThePasskeyLimit
    /\ AdminsGuarded

-----------------------------------------------------------------------------
(* What a write makes of a row.                                            *)

LEMMA VersionFacts ==
    ASSUME NEW sv \in Versions
    PROVE  /\ sv[1] \in Nat /\ sv[2] \in Nat
           /\ Bump(sv) \in Versions
           /\ Bump(sv)[1] = sv[1] /\ Bump(sv)[2] = sv[2] + 1
BY DEF Versions, Bump

LEMMA RowFacts ==
    ASSUME NEW row \in Row
    PROVE  /\ row # NoRow /\ row.sv \in Versions /\ row.updatedAt \in Nat
           /\ row.role \in Roles /\ row.disabled \in BOOLEAN
           /\ row.totp \in Factors
BY NamesAssumption DEF Row

LEMMA FreshRowFacts ==
    ASSUME seeds \in Nat, NEW role \in Roles
    PROVE  /\ FreshRow(role) \in Row
           /\ FreshRow(role).sv = <<seeds, 0>>
           /\ FreshRow(role).role = role /\ ~FreshRow(role).disabled
BY DEF FreshRow, Row, Factors, Versions

LEMMA NextVersionFacts ==
    ASSUME NEW row \in Row, NEW patch
    PROVE  /\ NextVersion(row, patch) \in Versions
           /\ NextVersion(row, patch)[1] = row.sv[1]
           /\ row.sv[2] <= NextVersion(row, patch)[2]
           /\ EndsSessions(row, patch)
                => NextVersion(row, patch)[2] = row.sv[2] + 1
BY RowFacts, VersionFacts DEF NextVersion

LEMMA ChangedFacts ==
    ASSUME NEW row \in Row, NEW patch \in Patches
    PROVE  /\ Changed(row, patch) \in Row
           /\ Changed(row, patch).sv = NextVersion(row, patch)
           /\ Changed(row, patch).updatedAt = row.updatedAt + 1
           /\ Changed(row, patch).role = Given(patch, "role", row.role)
           /\ Changed(row, patch).disabled
                 = Given(patch, "disabled", row.disabled)
           /\ "clearTotp" \notin DOMAIN patch
                 => Changed(row, patch).totp = row.totp
<1>1. Given(patch, "role", row.role) \in Roles
  BY RowFacts, NamesAssumption DEF Given
<1>2. Given(patch, "disabled", row.disabled) \in BOOLEAN
  BY RowFacts, NamesAssumption DEF Given
<1> DEFINE ro == Given(patch, "role", row.role)
           di == Given(patch, "disabled", row.disabled)
           fa == IF "clearTotp" \in DOMAIN patch THEN "none" ELSE row.totp
           sv == NextVersion(row, patch)
           at == row.updatedAt + 1
<1>3. sv \in Versions /\ fa \in Factors /\ at \in Nat
  BY NextVersionFacts, RowFacts DEF Factors
<1>4. Changed(row, patch) = [row EXCEPT !.role = ro, !.disabled = di,
                               !.totp = fa, !.sv = sv, !.updatedAt = at]
  BY DEF Changed
<1> HIDE DEF ro, di, fa, sv, at
<1>5. Changed(row, patch) \in Row
  BY <1>1, <1>2, <1>3, <1>4 DEF Row, ro, di
<1>6. /\ Changed(row, patch).sv = sv /\ Changed(row, patch).updatedAt = at
      /\ Changed(row, patch).role = ro /\ Changed(row, patch).disabled = di
      /\ Changed(row, patch).totp = fa
  BY <1>4 DEF Row
<1> QED
  BY <1>5, <1>6 DEF ro, di, fa, sv, at

LEMMA ResetFacts ==
    ASSUME NEW row \in Row
    PROVE  /\ ResetRow(row) \in Row
           /\ ResetRow(row).sv = Bump(row.sv)
           /\ ResetRow(row).updatedAt = row.updatedAt + 1
           /\ IsEnabledAdmin(ResetRow(row))
<1> DEFINE sv == Bump(row.sv)
           at == row.updatedAt + 1
<1>1. sv \in Versions /\ at \in Nat
  BY VersionFacts, RowFacts
<1>2. ResetRow(row) = [row EXCEPT !.role = "admin", !.disabled = FALSE,
                         !.totp = "none", !.sv = sv, !.updatedAt = at]
  BY DEF ResetRow
<1> HIDE DEF sv, at
<1>3. ResetRow(row) \in Row
  BY <1>1, <1>2 DEF Row, Roles, Factors
<1>4. /\ ResetRow(row).sv = sv /\ ResetRow(row).updatedAt = at
      /\ ResetRow(row).role = "admin" /\ ResetRow(row).disabled = FALSE
  BY <1>2 DEF Row
<1> QED
  BY <1>3, <1>4, RowFacts DEF IsEnabledAdmin, sv, at

LEMMA WithFactorFacts ==
    ASSUME NEW row \in Row, NEW op \in OwnOps
    PROVE  /\ WithFactor(row, op) \in Row
           /\ WithFactor(row, op).sv = row.sv
           /\ WithFactor(row, op).updatedAt = row.updatedAt + 1
           /\ WithFactor(row, op).role = row.role
           /\ WithFactor(row, op).disabled = row.disabled
<1> DEFINE fa == OwnFactor(op)
           at == row.updatedAt + 1
<1>1. fa \in Factors /\ at \in Nat
  BY RowFacts DEF OwnFactor, OwnOps, Factors
<1>2. WithFactor(row, op) = [row EXCEPT !.totp = fa, !.updatedAt = at]
  BY DEF WithFactor
<1> HIDE DEF fa, at
<1>3. WithFactor(row, op) \in Row
  BY <1>1, <1>2 DEF Row
<1>4. /\ WithFactor(row, op).sv = row.sv /\ WithFactor(row, op).updatedAt = at
      /\ WithFactor(row, op).role = row.role
      /\ WithFactor(row, op).disabled = row.disabled
  BY <1>2 DEF Row
<1> QED
  BY <1>3, <1>4 DEF at

\* The three writes to an account's row: one update each, at the version it
\* read or the next.
LEMMA UpdatedFacts ==
    ASSUME NEW q \in Request, WellFormed(q), q.op \in AccountOps
    PROVE  /\ q.seen \in Row /\ Updated(q) \in Row
           /\ Updated(q).sv[1] = q.seen.sv[1]
           /\ q.seen.sv[2] <= Updated(q).sv[2]
           /\ Updated(q).updatedAt = q.seen.updatedAt + 1
           /\ \/ q.op = "reset"
              \/ q.op = "change" /\ EndsSessions(q.seen, q.patch)
              => Updated(q).sv[2] = q.seen.sv[2] + 1
<1>1. q.seen \in Row
  BY DEF Request, WellFormed
<1>2. CASE q.op = "change"
  <2>1. q.patch \in Patches
    BY <1>2 DEF WellFormed
  <2> QED
    BY <1>1, <1>2, <2>1, ChangedFacts, NextVersionFacts DEF Updated
<1>3. CASE q.op = "reset"
  BY <1>1, <1>3, ResetFacts, RowFacts, VersionFacts DEF Updated
<1>4. CASE q.op \in OwnOps
  <2>1. Updated(q) = WithFactor(q.seen, q.op)
    BY <1>4 DEF Updated, OwnOps
  <2> QED
    BY <1>1, <1>4, <2>1, WithFactorFacts, RowFacts, VersionFacts DEF OwnOps
<1> QED
  BY <1>1, <1>2, <1>3, <1>4 DEF AccountOps

\* A write that takes the role or the access of an enabled admin is guarded.
LEMMA UpdatedAdmin ==
    ASSUME NEW q \in Request, WellFormed(q), q.op \in AccountOps,
           IsEnabledAdmin(q.seen), ~IsEnabledAdmin(Updated(q))
    PROVE  KeepsAdmin(q)
<1>1. Updated(q) # NoRow
  BY UpdatedFacts, RowFacts
<1>2. q.seen \in Row
  BY UpdatedFacts
<1>3. CASE q.op = "change"
  BY <1>3 DEF Updated, KeepsAdmin
<1>4. CASE q.op = "reset"
  BY <1>2, <1>4, ResetFacts DEF Updated
<1>5. CASE q.op \in OwnOps
  <2>1. Updated(q) = WithFactor(q.seen, q.op)
    BY <1>5 DEF Updated, OwnOps
  <2> QED
    BY <1>1, <1>2, <1>5, <2>1, WithFactorFacts DEF IsEnabledAdmin
<1> QED
  BY <1>3, <1>4, <1>5 DEF AccountOps

\* "keepEnabledAdmin" is decided from what the request carries.
LEMMA KeepsAdminSame ==
    ASSUME NEW q, NEW p, p.op = q.op, p.seen = q.seen, p.patch = q.patch
    PROVE  KeepsAdmin(p) <=> KeepsAdmin(q)
BY DEF KeepsAdmin

LEMMA KeepsAdminOps ==
    ASSUME NEW q, KeepsAdmin(q)
    PROVE  q.op \in {"change", "delete"} /\ IsEnabledAdmin(q.seen)
BY DEF KeepsAdmin

-----------------------------------------------------------------------------
(* Every step but a commit: one request moves on, and nothing is written.  *)

Quiet == UNCHANGED <<rows, keys, seeds, commits, ended, cleared, misjudged>>

\* What the request r brings along, or carries on with, fits the others.
Belongs(r) ==
    /\ WellFormed(req'[r]) /\ SeenIsPast(req'[r]) /\ SignsInWithHisKey(req'[r])
    /\ ~misjudged => Populated(req'[r])
    /\ \A p \in Requests \ {r} :
          req[p] # Free =>
            /\ req'[r].op = "register" => req[p].key # req'[r].key
            /\ req[p].op = "register" => req[p].key # req'[r].key
    /\ req'[r].op = "register" => keys[req'[r].key] = NoKey

\* And so does what it has locked and found.
Holds(r) ==
    /\ LocksHeld(req'[r]) /\ Stands(req'[r])
    /\ ~misjudged => HoldsAnAdmin(req'[r]) /\ LeavesAnother(req'[r])
    /\ \A p \in Requests \ {r} :
          req[p] # Free =>
            /\ req'[r].locks \cap req[p].locks # {} =>
                  req'[r].op = "signIn" /\ req[p].op = "signIn"
            /\ ~misjudged => ~(Guarding(req'[r]) /\ Guarding(req[p]))

Moves(r) ==
    /\ req' = [req EXCEPT ![r] = req'[r]]
    /\ req'[r] # Free => req'[r] \in Request /\ Belongs(r) /\ Holds(r)

LEMMA QuietRequest ==
    ASSUME NEW r \in Requests, Quiet
    PROVE  /\ WellFormed(req'[r]) => WellFormed(req[r])'
           /\ LocksHeld(req'[r]) => LocksHeld(req[r])'
           /\ Stands(req'[r]) => Stands(req[r])'
           /\ SeenIsPast(req'[r]) => SeenIsPast(req[r])'
           /\ SignsInWithHisKey(req'[r]) => SignsInWithHisKey(req[r])'
           /\ Populated(req'[r]) => Populated(req[r])'
           /\ HoldsAnAdmin(req'[r]) => HoldsAnAdmin(req[r])'
           /\ LeavesAnother(req'[r]) => LeavesAnother(req[r])'
<1> USE DEF Quiet
<1>1. Stands(req'[r]) => Stands(req[r])'
  BY DEF Stands, KeysOf, UnchangedVersion, Registrable, WithinLimit, AsSeen,
         Enabled
<1>2. SeenIsPast(req'[r]) => SeenIsPast(req[r])'
  BY DEF SeenIsPast
<1>3. Populated(req'[r]) => Populated(req[r])'
  BY DEF Populated, SomeAccount
<1>4. LeavesAnother(req'[r]) => LeavesAnother(req[r])'
  BY DEF LeavesAnother, EnabledAdmins
<1>5. HoldsAnAdmin(req'[r]) => HoldsAnAdmin(req[r])'
  BY DEF HoldsAnAdmin, Guarding
<1>6. SignsInWithHisKey(req'[r]) => SignsInWithHisKey(req[r])'
  BY DEF SignsInWithHisKey
<1>7. WellFormed(req'[r]) => WellFormed(req[r])'
  BY DEF WellFormed
<1>8. LocksHeld(req'[r]) => LocksHeld(req[r])'
  BY DEF LocksHeld
<1> QED
  BY <1>1, <1>2, <1>3, <1>4, <1>5, <1>6, <1>7, <1>8

LEMMA QuietKeeps ==
    ASSUME AccountsInv, Quiet, NEW r \in Requests, Moves(r)
    PROVE  AccountsInv'
<1>0. /\ req' \in [Requests -> Request \cup {Free}]
      /\ \A p \in Requests \ {r} : req'[p] = req[p]
  BY DEF Moves, AccountsInv, RequestsOK
<1> DEFINE Fine(p) ==
      /\ WellFormed(req'[p]) /\ LocksHeld(req'[p]) /\ Stands(req'[p])
      /\ SeenIsPast(req'[p]) /\ SignsInWithHisKey(req'[p])
<1> DEFINE Guarded(p) ==
      Populated(req'[p]) /\ HoldsAnAdmin(req'[p]) /\ LeavesAnother(req'[p])
<1>1. ASSUME NEW p \in Requests, req'[p] # Free PROVE Fine(p)
  <2>1. CASE p = r
    BY <1>1, <2>1 DEF Moves, Belongs, Holds
  <2>2. CASE p # r
    BY <1>0, <1>1, <2>2 DEF AccountsInv, RequestsOK
  <2> QED
    BY <2>1, <2>2
<1>2. ASSUME NEW p \in Requests, req'[p] # Free, ~misjudged PROVE Guarded(p)
  <2>1. CASE p = r
    BY <1>2, <2>1 DEF Moves, Belongs, Holds
  <2>2. CASE p # r
    BY <1>0, <1>2, <2>2 DEF AccountsInv, AdminsGuarded
  <2> QED
    BY <2>1, <2>2
<1>3. RequestsOK'
  <2>1. ASSUME NEW p \in Requests, req'[p] # Free
        PROVE  /\ WellFormed(req[p])' /\ LocksHeld(req[p])' /\ Stands(req[p])'
               /\ SeenIsPast(req[p])' /\ SignsInWithHisKey(req[p])'
    BY <1>1, <2>1, QuietRequest
  <2> QED
    BY <1>0, <2>1 DEF RequestsOK
<1>4. Exclusive'
  BY <1>0 DEF Exclusive, AccountsInv, Moves, Holds
<1>5. NewKeys'
  BY <1>0 DEF NewKeys, AccountsInv, Moves, Belongs, Quiet
<1>6. History'
  BY DEF AccountsInv, History, RowsStarted, EndedIsPast, ClearedEnded, Quiet
<1>7. /\ ClearedKeysStayGone' /\ WithinThePasskeyLimit'
      /\ FinitelyManyKeys'
  BY DEF AccountsInv, ClearedKeysStayGone, WithinThePasskeyLimit,
         FinitelyManyKeys, KeysOf, Quiet
<1>8. AdminsGuarded'
  <2>1. SUFFICES ASSUME ~misjudged PROVE AdminsGuarded'
    BY DEF AdminsGuarded, Quiet
  <2>2. AnEnabledAdminRemains'
    BY <2>1 DEF AccountsInv, AdminsGuarded, AnEnabledAdminRemains,
                EnabledAdmins, Quiet
  <2>3. GuardedAlone'
    BY <1>0, <2>1 DEF GuardedAlone, Guarding, AccountsInv, AdminsGuarded,
                      Moves, Holds
  <2>4. ASSUME NEW p \in Requests, req'[p] # Free
        PROVE  Populated(req[p])' /\ HoldsAnAdmin(req[p])'
                 /\ LeavesAnother(req[p])'
    BY <1>2, <2>1, <2>4, QuietRequest
  <2> QED
    BY <2>2, <2>3, <2>4 DEF AdminsGuarded
<1>9. TypeOK'
  <2>1. ASSUME NEW p \in Requests, req'[p] # Free
        PROVE  req'[p].locks # {} => req'[p].at \in {"locked", "written"}
    BY <1>1, <2>1 DEF LocksHeld
  <2>2. ASSUME NEW p \in Requests, req'[p] # Free
        PROVE  /\ req'[p].at \in {"read", "checked", "locked", "written",
                                  "answered"}
               /\ req'[p].email \in Emails
               /\ req'[p].seen \in Row \cup {NoRow}
               /\ req'[p].key \in KeyIds \cup {NoKey}
               /\ req'[p].locks \subseteq Emails
               /\ req'[p].gone \subseteq KeyIds
    BY <1>0, <2>2 DEF Request
  <2> QED
    BY <2>1, <2>2 DEF TypeOK, AccountsInv, Quiet
<1> QED
  BY <1>3, <1>4, <1>5, <1>6, <1>7, <1>8, <1>9 DEF AccountsInv

\* A request that is done with, refused or lost.
LEMMA RefuseKeeps ==
    ASSUME AccountsInv, NEW r \in Requests, Refuse(r)
    PROVE  AccountsInv'
<1>1. Quiet /\ Moves(r)
  BY DEF Refuse, Quiet, Moves, AccountsInv, RequestsOK
<1> QED
  BY <1>1, QuietKeeps

\* A request that moves on stays what it was.
LEMMA SameBelongs ==
    ASSUME AccountsInv, NEW r \in Requests, req[r] # Free,
           req'[r].op = req[r].op, req'[r].email = req[r].email,
           req'[r].seen = req[r].seen, req'[r].patch = req[r].patch,
           req'[r].key = req[r].key,
           req'[r].op # "signIn" => req'[r].at \in {"read", "locked", "written"}
    PROVE  Belongs(r)
<1>1. WellFormed(req'[r]) /\ SeenIsPast(req'[r]) /\ SignsInWithHisKey(req'[r])
  BY DEF AccountsInv, RequestsOK, WellFormed, SeenIsPast, SignsInWithHisKey
<1>2. ~misjudged => Populated(req'[r])
  BY KeepsAdminSame DEF AccountsInv, AdminsGuarded, Populated
<1> QED
  BY <1>1, <1>2 DEF Belongs, AccountsInv, NewKeys

-----------------------------------------------------------------------------
(* A request starts.                                                       *)

Bodies == Patches \cup {<<>>} \cup [role : Roles]

LEMMA StartKeeps ==
    ASSUME AccountsInv, NEW r \in Requests, NEW op \in Ops, NEW e \in Emails,
           NEW patch \in Bodies, NEW key \in KeyIds \cup {NoKey},
           Start(r, op, e, patch, key),
           op \in AccountOps \cup {"delete", "register", "remove"}
               => rows[e] # NoRow,
           op = "change" => patch \in Patches,
           op = "create" => patch \in [role : Roles],
           op = "create" /\ patch.role # "admin" => SomeAccount,
           op \in {"register", "remove", "signIn"} => key \in KeyIds,
           op = "signIn" => keys[key].email = e,
           op = "register" => /\ keys[key] = NoKey
                              /\ \A p \in Requests :
                                    req[p] # Free => req[p].key # key,
           op # "register" => key = NoKey \/ keys[key] # NoKey
    PROVE  AccountsInv'
<1> DEFINE new == [at |-> "read", op |-> op, email |-> e, seen |-> rows[e],
                   patch |-> patch, key |-> key, locks |-> {}, gone |-> {}]
<1>1. /\ Quiet /\ req[r] = Free
      /\ req' = [req EXCEPT ![r] = new]
  BY DEF Start, Quiet
<1>2. req'[r] = new
  BY <1>1 DEF AccountsInv, RequestsOK
<1>3. new \in Request
  BY DEF Request, Bodies, AccountsInv, TypeOK
<1>4. Belongs(r)
  <2>1. WellFormed(new)
    BY DEF WellFormed
  <2>2. SeenIsPast(new)
    BY DEF SeenIsPast, AccountsInv, History, RowsStarted, TypeOK, Row
  <2>3. SignsInWithHisKey(new)
    BY DEF SignsInWithHisKey
  <2>4. Populated(new)
    <3>1. CASE KeepsAdmin(new)
      <4>1. IsEnabledAdmin(rows[e])
        BY <3>1, KeepsAdminOps
      <4> QED
        BY <4>1 DEF Populated, SomeAccount, IsEnabledAdmin
    <3>2. CASE ~KeepsAdmin(new)
      BY <3>2 DEF Populated
    <3> QED
      BY <3>1, <3>2
  <2>5. ASSUME NEW p \in Requests \ {r}, req[p] # Free
        PROVE  /\ op = "register" => req[p].key # key
               /\ req[p].op = "register" => req[p].key # key
    BY <2>5, NamesAssumption DEF AccountsInv, RequestsOK, NewKeys, WellFormed
  <2> QED
    BY <1>2, <2>1, <2>2, <2>3, <2>4, <2>5 DEF Belongs
<1>5. Holds(r)
  BY <1>2 DEF Holds, LocksHeld, Stands, HoldsAnAdmin, LeavesAnother, Guarding
<1> QED
  BY <1>1, <1>2, <1>3, <1>4, <1>5, QuietKeeps DEF Moves

LEMMA ReadsKeep ==
    ASSUME AccountsInv, NEW r \in Requests, Reads(r)
    PROVE  AccountsInv'
<1> USE DEF Ops, AccountOps, OwnOps, Bodies
<1>1. ASSUME NEW e \in Emails, NEW patch \in Patches, ReadChange(r, e, patch)
      PROVE  AccountsInv'
  BY <1>1, StartKeeps DEF ReadChange
<1>2. ASSUME NEW e \in Emails, ReadDelete(r, e) PROVE AccountsInv'
  BY <1>2, StartKeeps DEF ReadDelete
<1>3. ASSUME NEW e \in Emails, NEW role \in Roles, ReadCreate(r, e, role)
      PROVE  AccountsInv'
  <2>1. [role |-> role] \in [role : Roles]
    OBVIOUS
  <2>2. SomeAccount /\ Start(r, "create", e, [role |-> role], NoKey)
    BY <1>3 DEF ReadCreate, SomeAccount
  <2> QED
    BY <2>1, <2>2, StartKeeps
<1>4. ASSUME NEW e \in Emails, NEW op \in OwnOps, ReadOwn(r, e, op)
      PROVE  AccountsInv'
  <2>1. rows[e] # NoRow /\ Start(r, op, e, <<>>, NoKey)
    BY <1>4 DEF ReadOwn
  <2> QED
    BY <2>1, StartKeeps
<1>5. CASE ReadSeed(r)
  <2>1. [role |-> "admin"] \in [role : Roles] /\ EnvAdmin \in Emails
    BY AccountsAssumption DEF Roles
  <2>2. Start(r, "create", EnvAdmin, [role |-> "admin"], NoKey)
    BY <1>5 DEF ReadSeed
  <2> QED
    BY <2>1, <2>2, StartKeeps
<1>6. CASE ReadReset(r)
  <2>1. [role |-> "admin"] \in [role : Roles] /\ EnvAdmin \in Emails
    BY AccountsAssumption DEF Roles
  <2>2. CASE rows[EnvAdmin] = NoRow
    <3>1. Start(r, "create", EnvAdmin, [role |-> "admin"], NoKey)
      BY <1>6, <2>2 DEF ReadReset
    <3> QED
      BY <2>1, <3>1, StartKeeps
  <2>3. CASE rows[EnvAdmin] # NoRow
    <3>1. Start(r, "reset", EnvAdmin, [role |-> "admin"], NoKey)
      BY <1>6, <2>3 DEF ReadReset
    <3> QED
      BY <2>1, <2>3, <3>1, StartKeeps
  <2> QED
    BY <2>2, <2>3
<1> QED
  BY <1>1, <1>2, <1>3, <1>4, <1>5, <1>6 DEF Reads

LEMMA KeyReadsKeep ==
    ASSUME AccountsInv, NEW r \in Requests,
           \/ \E e \in Emails, k \in KeyIds : ReadRegister(r, e, k)
           \/ \E k \in KeyIds : ReadRemove(r, k) \/ FindPasskey(r, k)
    PROVE  AccountsInv'
<1> USE DEF Ops, AccountOps, OwnOps, Bodies
<1>1. ASSUME NEW e \in Emails, NEW k \in KeyIds, ReadRegister(r, e, k)
      PROVE  AccountsInv'
  <2>1. /\ rows[e] # NoRow /\ keys[k] = NoKey
        /\ \A p \in Requests : req[p] # Free => req[p].key # k
        /\ Start(r, "register", e, <<>>, k)
    BY <1>1 DEF ReadRegister, Enabled
  <2> QED
    BY <2>1, StartKeeps
<1>2. ASSUME NEW k \in KeyIds, ReadRemove(r, k) \/ FindPasskey(r, k)
      PROVE  AccountsInv'
  <2>1. keys[k] # NoKey /\ keys[k].email \in Emails
    BY <1>2 DEF ReadRemove, FindPasskey, AccountsInv, TypeOK, Key
  <2>2. CASE ReadRemove(r, k)
    <3>1. /\ rows[keys[k].email] # NoRow
          /\ Start(r, "remove", keys[k].email, <<>>, k)
      BY <2>2 DEF ReadRemove, Enabled
    <3> QED
      BY <2>1, <3>1, StartKeeps
  <2>3. CASE FindPasskey(r, k)
    <3>1. Start(r, "signIn", keys[k].email, <<>>, k)
      BY <2>3 DEF FindPasskey
    <3> QED
      BY <2>1, <3>1, StartKeeps
  <2> QED
    BY <1>2, <2>2, <2>3
<1> QED
  BY <1>1, <1>2

-----------------------------------------------------------------------------
(* A transaction locks.                                                    *)

LEMMA ReadAccountKeeps ==
    ASSUME AccountsInv, NEW r \in Requests, ReadAccount(r)
    PROVE  AccountsInv'
<1>0. /\ req[r] # Free /\ req[r] \in Request /\ req[r].op = "signIn"
      /\ req[r].at = "read" /\ Quiet
  BY DEF ReadAccount, AccountsInv, RequestsOK, Quiet
<1>h. /\ WellFormed(req[r]) /\ LocksHeld(req[r]) /\ Stands(req[r])
      /\ SignsInWithHisKey(req[r])
  BY <1>0 DEF AccountsInv, RequestsOK
<1>1. CASE Enabled(req[r].email)
  <2> DEFINE new == [req[r] EXCEPT !.at = "checked",
                                   !.seen = rows[req[r].email]]
  <2>1. req' = [req EXCEPT ![r] = new]
    BY <1>1 DEF ReadAccount
  <2>2. req'[r] = new
    BY <2>1 DEF AccountsInv, RequestsOK
  <2>3. rows[req[r].email] \in Row \cup {NoRow}
    BY <1>0 DEF AccountsInv, TypeOK, Request
  <2>4. /\ new \in Request /\ new.op = "signIn" /\ new.at = "checked"
        /\ new.email = req[r].email /\ new.key = req[r].key
        /\ new.seen = rows[new.email] /\ new.locks = req[r].locks
        /\ new.gone = req[r].gone
    BY <1>0, <2>3 DEF Request
  <2> HIDE DEF new
  <2>5. Belongs(r)
    <3>1. WellFormed(new) /\ SignsInWithHisKey(new)
      BY <1>h, <1>0, <2>4 DEF WellFormed, SignsInWithHisKey, AccountOps, OwnOps
    <3>2. SeenIsPast(new)
      BY <2>4, <2>3, RowFacts, VersionFacts, <1>0
      DEF SeenIsPast, AccountsInv, History, RowsStarted, Request
    <3>3. Populated(new)
      BY <2>4, KeepsAdminOps DEF Populated
    <3>4. ASSUME NEW p \in Requests \ {r}, req[p] # Free,
                 req[p].op = "register"
          PROVE  req[p].key # new.key
      BY <1>0, <2>4, <3>4 DEF AccountsInv, NewKeys
    <3> QED
      BY <2>2, <2>4, <3>1, <3>2, <3>3, <3>4 DEF Belongs
  <2>6. Holds(r)
    <3>1. new.locks = {} /\ LocksHeld(new)
      BY <1>0, <1>h, <2>4 DEF LocksHeld
    <3>2. Stands(new)
      BY <1>0, <1>h, <2>4 DEF Stands, AccountOps, OwnOps
    <3>3. ~Guarding(new) /\ HoldsAnAdmin(new) /\ LeavesAnother(new)
      BY <2>4, KeepsAdminOps DEF Guarding, HoldsAnAdmin, LeavesAnother
    <3> QED
      BY <2>2, <3>1, <3>2, <3>3 DEF Holds
  <2> QED
    BY <1>0, <2>1, <2>2, <2>4, <2>5, <2>6, QuietKeeps DEF Moves
<1>2. CASE ~Enabled(req[r].email)
  <2>1. Refuse(r)
    BY <1>2 DEF ReadAccount, Refuse
  <2> QED
    BY <2>1, RefuseKeeps
<1> QED
  BY <1>1, <1>2

\* The step a lock or a write makes of a request: where it stands, what it
\* has locked, which keys it clears, and nothing else of it.
Stepped(r, at, locks, gone) ==
    /\ Quiet
    /\ req' = [req EXCEPT ![r].at = at, ![r].locks = locks, ![r].gone = gone]

LEMMA SteppedFacts ==
    ASSUME AccountsInv, NEW r \in Requests, req[r] # Free,
           NEW at \in {"locked", "written"}, NEW locks \in SUBSET Emails,
           NEW gone \in SUBSET KeyIds, Stepped(r, at, locks, gone)
    PROVE  /\ req'[r] \in Request /\ req' = [req EXCEPT ![r] = req'[r]]
           /\ req'[r].at = at /\ req'[r].locks = locks /\ req'[r].gone = gone
           /\ req'[r].op = req[r].op /\ req'[r].email = req[r].email
           /\ req'[r].seen = req[r].seen /\ req'[r].patch = req[r].patch
           /\ req'[r].key = req[r].key
           /\ Belongs(r)
<1>1. req[r] \in Request /\ req \in [Requests -> Request \cup {Free}]
  BY DEF AccountsInv, RequestsOK
<1> DEFINE new == [req[r] EXCEPT !.at = at, !.locks = locks, !.gone = gone]
<1>2. /\ new \in Request
      /\ new.at = at /\ new.locks = locks /\ new.gone = gone
      /\ new.op = req[r].op /\ new.email = req[r].email
      /\ new.seen = req[r].seen /\ new.patch = req[r].patch
      /\ new.key = req[r].key
  BY <1>1 DEF Request
<1>3. req'[r] = new /\ req' = [req EXCEPT ![r] = new]
  BY <1>1 DEF Stepped
<1> HIDE DEF new
<1>4. Belongs(r)
  BY <1>2, <1>3, SameBelongs
<1> QED
  BY <1>2, <1>3, <1>4

\* Locks taken where nobody holds any, and a write's own row, exclude.
LEMMA LockAdminsKeeps ==
    ASSUME AccountsInv, NEW r \in Requests, LockAdmins(r)
    PROVE  AccountsInv'
<1>0. /\ req[r] # Free /\ req[r] \in Request /\ KeepsAdmin(req[r])
      /\ req[r].at = "read" /\ WellFormed(req[r]) /\ Stands(req[r])
      /\ req[r].op \in {"change", "delete"}
  BY KeepsAdminOps DEF LockAdmins, AccountsInv, RequestsOK
<1>1. req[r].gone = {}
  BY <1>0 DEF Stands
<1>2. Stepped(r, "locked", EnabledAdmins, {})
  <2>1. req' = [req EXCEPT ![r].at = "locked", ![r].locks = EnabledAdmins]
    BY DEF LockAdmins, AdminLocks
  <2>2. [req[r] EXCEPT !.at = "locked", !.locks = EnabledAdmins]
          = [req[r] EXCEPT !.at = "locked", !.locks = EnabledAdmins,
                           !.gone = {}]
    BY <1>0, <1>1 DEF Request
  <2> QED
    BY <2>1, <2>2 DEF Stepped, Quiet, LockAdmins, AccountsInv, RequestsOK
<1>3. EnabledAdmins \in SUBSET Emails
  BY DEF EnabledAdmins
<1>4. /\ req'[r] \in Request /\ req' = [req EXCEPT ![r] = req'[r]]
      /\ req'[r].at = "locked" /\ req'[r].locks = EnabledAdmins
      /\ req'[r].gone = {} /\ req'[r].op = req[r].op
      /\ req'[r].seen = req[r].seen /\ req'[r].patch = req[r].patch
      /\ Belongs(r)
  BY <1>0, <1>2, <1>3, SteppedFacts
<1>5. Holds(r)
  <2>1. LocksHeld(req'[r]) /\ Stands(req'[r])
    BY <1>0, <1>4 DEF LocksHeld, Stands
  <2>2. ~misjudged => EnabledAdmins # {}
    BY <1>0 DEF AccountsInv, AdminsGuarded, Populated, SomeAccount,
                AnEnabledAdminRemains
  <2>3. ~misjudged => HoldsAnAdmin(req'[r]) /\ LeavesAnother(req'[r])
    BY <1>4, <2>2 DEF HoldsAnAdmin, LeavesAnother, EnabledAdmins
  <2>4. ASSUME NEW p \in Requests \ {r}, req[p] # Free
        PROVE  EnabledAdmins \cap req[p].locks = {}
    BY <2>4 DEF LockAdmins, HeldByOther
  <2>5. ASSUME NEW p \in Requests \ {r}, req[p] # Free, ~misjudged
        PROVE  ~Guarding(req[p])
    <3>1. HoldsAnAdmin(req[p]) /\ req[p].locks \subseteq Emails
      BY <2>5 DEF AccountsInv, AdminsGuarded, RequestsOK, Request
    <3> QED
      BY <2>4, <2>5, <3>1 DEF HoldsAnAdmin, EnabledAdmins
  <2> QED
    BY <1>4, <2>1, <2>3, <2>4, <2>5 DEF Holds
<1> QED
  BY <1>2, <1>4, <1>5, QuietKeeps DEF Moves, Stepped

LEMMA LockRegisterKeeps ==
    ASSUME AccountsInv, NEW r \in Requests, LockRegister(r)
    PROVE  AccountsInv'
<1>0. /\ req[r] # Free /\ req[r] \in Request /\ req[r].op = "register"
      /\ req[r].at = "read" /\ WellFormed(req[r]) /\ Stands(req[r])
  BY DEF LockRegister, AccountsInv, RequestsOK
<1>1. CASE Refuse(r)
  BY <1>1, RefuseKeeps
<1>2. CASE ~Refuse(r)
  <2>1. req[r].gone = {} /\ Registrable(req[r]) /\ req[r].email \in Emails
    BY <1>0, <1>2 DEF Stands, LockRegister, Request
  <2>2. Stepped(r, "locked", {req[r].email}, {})
    <3>1. req' = [req EXCEPT ![r].at = "locked", ![r].locks = {req[r].email}]
      BY <1>2 DEF LockRegister, RegisterLocks
    <3>2. [req[r] EXCEPT !.at = "locked", !.locks = {req[r].email}]
            = [req[r] EXCEPT !.at = "locked", !.locks = {req[r].email},
                             !.gone = {}]
      BY <1>0, <2>1 DEF Request
    <3> QED
      BY <1>2, <3>1, <3>2 DEF Stepped, Quiet, LockRegister, AccountsInv,
                              RequestsOK
  <2>3. /\ req'[r] \in Request /\ req' = [req EXCEPT ![r] = req'[r]]
        /\ req'[r].at = "locked" /\ req'[r].locks = {req[r].email}
        /\ req'[r].gone = {} /\ req'[r].op = req[r].op
        /\ req'[r].email = req[r].email /\ req'[r].seen = req[r].seen
        /\ Belongs(r)
    BY <1>0, <2>1, <2>2, SteppedFacts
  <2>4. LocksHeld(req'[r]) /\ Stands(req'[r])
    BY <1>0, <2>1, <2>3 DEF LocksHeld, Stands, Registrable, AccountOps, OwnOps
  <2>5. ~Guarding(req'[r]) /\ HoldsAnAdmin(req'[r]) /\ LeavesAnother(req'[r])
    BY <1>0, <2>3, KeepsAdminOps DEF Guarding, HoldsAnAdmin, LeavesAnother
  <2>6. Holds(r)
    BY <2>3, <2>4, <2>5 DEF Holds, LockRegister, HeldByOther
  <2> QED
    BY <2>2, <2>3, <2>6, QuietKeeps DEF Moves, Stepped
<1> QED
  BY <1>1, <1>2

\* The lock of a sign-in is shared with other sign-ins only.
LEMMA LockSignInKeeps ==
    ASSUME AccountsInv, NEW r \in Requests, LockSignIn(r)
    PROVE  AccountsInv'
<1>0. /\ req[r] # Free /\ req[r] \in Request /\ req[r].at = "checked"
      /\ WellFormed(req[r]) /\ Stands(req[r])
  BY DEF LockSignIn, AccountsInv, RequestsOK
<1>s. req[r].op = "signIn"
  BY <1>0 DEF WellFormed
<1>1. CASE Refuse(r)
  BY <1>1, RefuseKeeps
<1>2. CASE ~Refuse(r)
  <2>1. req[r].gone = {} /\ AsSeen(req[r]) /\ req[r].email \in Emails
    BY <1>0, <1>2 DEF Stands, LockSignIn, Request
  <2>2. Stepped(r, "locked", {req[r].email}, {})
    <3>1. req' = [req EXCEPT ![r].at = "locked", ![r].locks = {req[r].email}]
      BY <1>2 DEF LockSignIn, SignInLocks
    <3>2. [req[r] EXCEPT !.at = "locked", !.locks = {req[r].email}]
            = [req[r] EXCEPT !.at = "locked", !.locks = {req[r].email},
                             !.gone = {}]
      BY <1>0, <2>1 DEF Request
    <3> QED
      BY <1>2, <3>1, <3>2 DEF Stepped, Quiet, LockSignIn, AccountsInv,
                              RequestsOK
  <2>3. /\ req'[r] \in Request /\ req' = [req EXCEPT ![r] = req'[r]]
        /\ req'[r].at = "locked" /\ req'[r].locks = {req[r].email}
        /\ req'[r].gone = {} /\ req'[r].op = req[r].op
        /\ req'[r].email = req[r].email /\ req'[r].seen = req[r].seen
        /\ Belongs(r)
    BY <1>0, <2>1, <2>2, SteppedFacts
  <2>4. LocksHeld(req'[r]) /\ Stands(req'[r])
    BY <1>0, <1>s, <2>1, <2>3 DEF LocksHeld, Stands, AsSeen, AccountOps, OwnOps
  <2>5. ~Guarding(req'[r]) /\ HoldsAnAdmin(req'[r]) /\ LeavesAnother(req'[r])
    BY <1>s, <2>3, KeepsAdminOps DEF Guarding, HoldsAnAdmin, LeavesAnother
  <2>6. Holds(r)
    BY <1>s, <2>3, <2>4, <2>5 DEF Holds, LockSignIn, HeldExclusively
  <2> QED
    BY <2>2, <2>3, <2>6, QuietKeeps DEF Moves, Stepped
<1> QED
  BY <1>1, <1>2

-----------------------------------------------------------------------------
(* A transaction writes.                                                   *)

LEMMA WroteFacts ==
    ASSUME AccountsInv, NEW r \in Requests, req[r] # Free,
           NEW gone \in SUBSET KeyIds, Wrote(r, gone)
    PROVE  /\ req'[r] \in Request /\ req' = [req EXCEPT ![r] = req'[r]]
           /\ req'[r].at = "written"
           /\ req'[r].locks = req[r].locks \cup {req[r].email}
           /\ req'[r].gone = gone
           /\ req'[r].op = req[r].op /\ req'[r].email = req[r].email
           /\ req'[r].seen = req[r].seen /\ req'[r].patch = req[r].patch
           /\ req'[r].key = req[r].key
           /\ Quiet /\ Belongs(r)
<1>1. req[r] \in Request /\ req \in [Requests -> Request \cup {Free}]
  BY DEF AccountsInv, RequestsOK
<1> DEFINE locks == req[r].locks \cup {req[r].email}
<1>2. locks \in SUBSET Emails
  BY <1>1 DEF Request
<1>3. Stepped(r, "written", locks, gone)
  BY <1>1 DEF Wrote, Stepped, Quiet
<1> HIDE DEF locks
<1>4. /\ req'[r] \in Request /\ req' = [req EXCEPT ![r] = req'[r]]
      /\ req'[r].at = "written" /\ req'[r].locks = locks
      /\ req'[r].gone = gone
      /\ req'[r].op = req[r].op /\ req'[r].email = req[r].email
      /\ req'[r].seen = req[r].seen /\ req'[r].patch = req[r].patch
      /\ req'[r].key = req[r].key /\ Belongs(r)
  BY <1>2, <1>3, SteppedFacts
<1> QED
  BY <1>3, <1>4 DEF Stepped, locks

\* A write that found its row free, holds what its guard asks for, and stands
\* on what it found.
LEMMA WroteKeeps ==
    ASSUME AccountsInv, NEW r \in Requests, NEW ops, ReadyToWrite(r, ops),
           req[r].op \notin {"register", "signIn"},
           NEW gone \in SUBSET KeyIds, Wrote(r, gone), Stands(req'[r]),
           KeepsAdmin(req[r]) => EnabledAdmins \ {req[r].email} # {}
    PROVE  AccountsInv'
<1>0. /\ req[r] # Free /\ ~HeldByOther(r, req[r].email)
      /\ KeepsAdmin(req[r]) => req[r].at = "locked"
  BY DEF ReadyToWrite
<1>1. /\ req'[r] \in Request /\ req' = [req EXCEPT ![r] = req'[r]]
      /\ req'[r].at = "written"
      /\ req'[r].locks = req[r].locks \cup {req[r].email}
      /\ req'[r].op = req[r].op /\ req'[r].email = req[r].email
      /\ req'[r].seen = req[r].seen /\ req'[r].patch = req[r].patch
      /\ Quiet /\ Belongs(r)
  BY <1>0, WroteFacts
<1>2. KeepsAdmin(req'[r]) <=> KeepsAdmin(req[r])
  BY <1>1, KeepsAdminSame
<1>3. LocksHeld(req'[r])
  BY <1>1 DEF LocksHeld
<1>4. ~misjudged => HoldsAnAdmin(req'[r]) /\ LeavesAnother(req'[r])
  BY <1>0, <1>1, <1>2 DEF AccountsInv, AdminsGuarded, HoldsAnAdmin,
                          LeavesAnother, Guarding
<1>5. ASSUME NEW p \in Requests \ {r}, req[p] # Free
      PROVE  req'[r].locks \cap req[p].locks = {}
  BY <1>0, <1>1, <1>5 DEF AccountsInv, Exclusive, HeldByOther
<1>6. ASSUME NEW p \in Requests \ {r}, req[p] # Free, ~misjudged
      PROVE  ~(Guarding(req'[r]) /\ Guarding(req[p]))
  BY <1>0, <1>1, <1>2, <1>6 DEF AccountsInv, AdminsGuarded, GuardedAlone,
                                Guarding
<1>7. Holds(r)
  BY <1>3, <1>4, <1>5, <1>6 DEF Holds
<1> QED
  BY <1>1, <1>7, QuietKeeps DEF Moves

LEMMA WriteAccountKeeps ==
    ASSUME AccountsInv, NEW r \in Requests, WriteAccount(r)
    PROVE  AccountsInv'
<1>0. req[r] # Free /\ req[r].op \in AccountOps
  BY DEF WriteAccount, ReadyToWrite, AccountOps
<1>1. CASE Refuse(r)
  BY <1>1, RefuseKeeps
<1>2. CASE ~Refuse(r)
  <2> DEFINE gone == IF ClearsKeys(req[r]) THEN KeysOf(req[r].email) ELSE {}
  <2>1. Unchanged(req[r]) /\ ~LeavesNoAdmin(req[r]) /\ Wrote(r, gone)
    BY <1>2 DEF WriteAccount
  <2>2. gone \in SUBSET KeyIds
    BY DEF KeysOf
  <2>3. rows[req[r].email] = req[r].seen
    <3>1. WellFormed(req[r]) /\ SeenIsPast(req[r])
      BY <1>0 DEF AccountsInv, RequestsOK
    <3> QED
      BY <1>0, <2>1, <3>1 DEF Unchanged, UnchangedVersion, SeenIsPast,
                              WellFormed
  <2>4. /\ req'[r].at = "written" /\ req'[r].gone = gone
        /\ req'[r].op = req[r].op /\ req'[r].email = req[r].email
        /\ req'[r].seen = req[r].seen /\ req'[r].patch = req[r].patch
    BY <1>0, <2>1, <2>2, WroteFacts
  <2>5. ClearsKeys(req'[r]) <=> ClearsKeys(req[r])
    BY <2>4 DEF ClearsKeys
  <2>6. Stands(req'[r])
    BY <1>0, <2>3, <2>4, <2>5 DEF Stands, AccountOps, OwnOps
  <2>7. KeepsAdmin(req[r]) => EnabledAdmins \ {req[r].email} # {}
    BY <1>0, <2>1 DEF LeavesNoAdmin, KeepsAdmin, Updated, AccountOps, OwnOps
  <2> HIDE DEF gone
  <2> QED
    BY <1>0, <2>1, <2>2, <2>6, <2>7, WroteKeeps
    DEF WriteAccount, AccountOps, OwnOps
<1> QED
  BY <1>1, <1>2

LEMMA WriteDeleteKeeps ==
    ASSUME AccountsInv, NEW r \in Requests, WriteDelete(r)
    PROVE  AccountsInv'
<1>0. req[r] # Free /\ req[r].op = "delete"
  BY DEF WriteDelete, ReadyToWrite
<1>1. CASE Refuse(r)
  BY <1>1, RefuseKeeps
<1>2. CASE ~Refuse(r)
  <2>1. ~LeavesNoAdmin(req[r]) /\ Wrote(r, KeysOf(req[r].email))
    BY <1>2 DEF WriteDelete
  <2>2. KeysOf(req[r].email) \in SUBSET KeyIds
    BY DEF KeysOf
  <2>3. /\ req'[r].at = "written" /\ req'[r].gone = KeysOf(req[r].email)
        /\ req'[r].op = req[r].op /\ req'[r].email = req[r].email
    BY <1>0, <2>1, <2>2, WroteFacts
  <2>4. Stands(req'[r])
    BY <1>0, <2>3 DEF Stands, AccountOps, OwnOps
  <2>5. KeepsAdmin(req[r]) => EnabledAdmins \ {req[r].email} # {}
    BY <1>0, <2>1 DEF LeavesNoAdmin
  <2> QED
    BY <1>0, <2>1, <2>2, <2>4, <2>5, WroteKeeps DEF WriteDelete
<1> QED
  BY <1>1, <1>2

LEMMA WriteInsertKeeps ==
    ASSUME AccountsInv, NEW r \in Requests, WriteInsert(r)
    PROVE  AccountsInv'
<1>0. req[r] # Free /\ req[r].op = "create"
  BY DEF WriteInsert, ReadyToWrite
<1>1. CASE Refuse(r)
  BY <1>1, RefuseKeeps
<1>2. CASE ~Refuse(r)
  <2>1. rows[req[r].email] = NoRow /\ Wrote(r, KeysOf(req[r].email))
    BY <1>2 DEF WriteInsert
  <2>2. KeysOf(req[r].email) \in SUBSET KeyIds
    BY DEF KeysOf
  <2>3. /\ req'[r].at = "written" /\ req'[r].gone = KeysOf(req[r].email)
        /\ req'[r].op = req[r].op /\ req'[r].email = req[r].email
    BY <1>0, <2>1, <2>2, WroteFacts
  <2>4. Stands(req'[r])
    BY <1>0, <2>1, <2>3 DEF Stands, AccountOps, OwnOps
  <2>5. ~KeepsAdmin(req[r])
    BY <1>0, KeepsAdminOps
  <2> QED
    BY <1>0, <2>1, <2>2, <2>4, <2>5, WroteKeeps DEF WriteInsert
<1> QED
  BY <1>1, <1>2

LEMMA WriteRemoveKeeps ==
    ASSUME AccountsInv, NEW r \in Requests, WriteRemove(r)
    PROVE  AccountsInv'
<1>0. req[r] # Free /\ req[r].op = "remove" /\ WellFormed(req[r])
  BY DEF WriteRemove, ReadyToWrite, AccountsInv, RequestsOK
<1>1. CASE Refuse(r)
  BY <1>1, RefuseKeeps
<1>2. CASE ~Refuse(r)
  <2>1. /\ UnchangedVersion(req[r]) /\ req[r].key \in KeysOf(req[r].email)
        /\ Wrote(r, {req[r].key})
    BY <1>2 DEF WriteRemove
  <2>2. {req[r].key} \in SUBSET KeyIds
    BY <2>1 DEF KeysOf
  <2>3. /\ req'[r].at = "written" /\ req'[r].gone = {req[r].key}
        /\ req'[r].op = req[r].op /\ req'[r].email = req[r].email
        /\ req'[r].seen = req[r].seen /\ req'[r].key = req[r].key
    BY <1>0, <2>1, <2>2, WroteFacts
  <2>4. Stands(req'[r])
    BY <1>0, <2>1, <2>3 DEF Stands, UnchangedVersion, AccountOps, OwnOps
  <2>5. ~KeepsAdmin(req[r])
    BY <1>0, KeepsAdminOps
  <2> QED
    BY <1>0, <2>1, <2>2, <2>4, <2>5, WroteKeeps DEF WriteRemove
<1> QED
  BY <1>1, <1>2

\* The insert of a key and the count of a sign-in: under the locks they have.
LEMMA WriteKeyKeeps ==
    ASSUME AccountsInv, NEW r \in Requests, WriteRegister(r) \/ WriteSignIn(r)
    PROVE  AccountsInv'
<1>0. /\ req[r] # Free /\ req[r] \in Request /\ req[r].at = "locked"
      /\ req[r].op \in {"register", "signIn"}
      /\ LocksHeld(req[r]) /\ Stands(req[r])
  BY DEF WriteRegister, WriteSignIn, AccountsInv, RequestsOK
<1>1. CASE Refuse(r)
  BY <1>1, RefuseKeeps
<1>2. CASE ~Refuse(r)
  <2>1. /\ req[r].gone = {} /\ req[r].locks = {req[r].email}
        /\ req[r].locks \in SUBSET Emails
        /\ req[r].op = "register" => WithinLimit(req[r].email)
        /\ req[r].op = "signIn" => keys[req[r].key] # NoKey
        /\ req' = [req EXCEPT ![r].at = "written"] /\ Quiet
    BY <1>0, <1>2 DEF Stands, LocksHeld, WriteRegister, WriteSignIn, Request,
                      Quiet
  <2>2. Stepped(r, "written", req[r].locks, {})
    <3>1. [req[r] EXCEPT !.at = "written"]
            = [req[r] EXCEPT !.at = "written", !.locks = req[r].locks,
                             !.gone = {}]
      BY <1>0, <2>1 DEF Request
    <3> QED
      BY <2>1, <3>1 DEF Stepped, AccountsInv, RequestsOK
  <2> DEFINE locks == req[r].locks
  <2>a. locks \in SUBSET Emails /\ Stepped(r, "written", locks, {})
    BY <2>1, <2>2
  <2> HIDE DEF locks
  <2>b. /\ req'[r] \in Request /\ req' = [req EXCEPT ![r] = req'[r]]
        /\ req'[r].at = "written" /\ req'[r].locks = locks
        /\ req'[r].gone = {} /\ req'[r].op = req[r].op
        /\ req'[r].email = req[r].email /\ req'[r].seen = req[r].seen
        /\ req'[r].key = req[r].key /\ Belongs(r)
    BY <1>0, <2>a, SteppedFacts
  <2>3. /\ req'[r] \in Request /\ req' = [req EXCEPT ![r] = req'[r]]
        /\ req'[r].at = "written" /\ req'[r].locks = req[r].locks
        /\ req'[r].gone = {} /\ req'[r].op = req[r].op
        /\ req'[r].email = req[r].email /\ req'[r].seen = req[r].seen
        /\ req'[r].key = req[r].key /\ Belongs(r)
    BY <2>b DEF locks
  <2>4. LocksHeld(req'[r])
    BY <2>1, <2>3 DEF LocksHeld
  <2>5. Stands(req'[r])
    BY <1>0, <2>1, <2>3 DEF Stands, Registrable, AsSeen, AccountOps, OwnOps
  <2>6. ~Guarding(req'[r]) /\ HoldsAnAdmin(req'[r]) /\ LeavesAnother(req'[r])
    BY <1>0, <2>3, KeepsAdminOps DEF Guarding, HoldsAnAdmin, LeavesAnother
  <2>7. Holds(r)
    BY <1>0, <2>3, <2>4, <2>5, <2>6 DEF Holds, AccountsInv, Exclusive
  <2> QED
    BY <2>1, <2>3, <2>7, QuietKeeps DEF Moves
<1> QED
  BY <1>1, <1>2

-----------------------------------------------------------------------------
(* A transaction commits.                                                  *)

LEMMA CommitFacts ==
    ASSUME AccountsInv, NEW r \in Requests, Commit(r)
    PROVE  /\ req[r] # Free /\ req[r] \in Request /\ req[r].at = "written"
           /\ req[r].email \in Emails
           /\ WellFormed(req[r]) /\ LocksHeld(req[r]) /\ Stands(req[r])
           /\ SeenIsPast(req[r]) /\ SignsInWithHisKey(req[r])
           /\ seeds \in Nat /\ seeds' \in Nat \ {0} /\ seeds <= seeds'
           /\ req[r].op = "create" => seeds' = seeds + 1
           /\ req[r].op # "create" => seeds' = seeds
           /\ rows' = [rows EXCEPT ![req[r].email] = CommittedRow(req[r])]
           /\ rows'[req[r].email] = CommittedRow(req[r])
           /\ \A e \in Emails \ {req[r].email} : rows'[e] = rows[e]
<1>1. /\ req[r] # Free /\ req[r] \in Request /\ req[r].at = "written"
      /\ WellFormed(req[r]) /\ LocksHeld(req[r]) /\ Stands(req[r])
      /\ SeenIsPast(req[r]) /\ SignsInWithHisKey(req[r])
  BY DEF Commit, AccountsInv, RequestsOK
<1>2. req[r].email \in Emails
  BY <1>1 DEF Request
<1>3. /\ seeds \in Nat \ {0}
      /\ seeds' = IF req[r].op = "create" THEN seeds + 1 ELSE seeds
  BY DEF AccountsInv, TypeOK, Commit
<1>4. rows' = [rows EXCEPT ![req[r].email] = CommittedRow(req[r])]
  BY DEF Commit
<1>5. /\ rows'[req[r].email] = CommittedRow(req[r])
      /\ \A e \in Emails \ {req[r].email} : rows'[e] = rows[e]
  BY <1>2, <1>4 DEF AccountsInv, TypeOK
<1> QED
  BY <1>1, <1>2, <1>3, <1>4, <1>5

\* What a commit makes of its row: nothing, a row of its own seed, or the next
\* state of the row that is there; and when it revokes, the next version.
LEMMA CommittedRowFacts ==
    ASSUME AccountsInv, NEW r \in Requests, Commit(r),
           NEW was, was = rows[req[r].email], NEW now, now = rows'[req[r].email]
    PROVE  /\ now \in Row \cup {NoRow}
           /\ req[r].op = "delete" => now = NoRow
           /\ req[r].op = "create" =>
                 /\ was = NoRow /\ now \in Row /\ now.sv[1] = seeds
                 /\ now = FreshRow(req[r].patch.role)
                 /\ req[r].patch.role \in Roles
           /\ req[r].op \in {"register", "signIn"} => now = was
           /\ req[r].op \in AccountOps \cup {"remove"} =>
                 /\ was \in Row /\ now \in Row
                 /\ now.sv[1] = was.sv[1] /\ was.sv[2] <= now.sv[2]
                 /\ now.updatedAt = was.updatedAt + 1
                 /\ Revokes(req[r]) => now.sv[2] = was.sv[2] + 1
           /\ req[r].op \in AccountOps => was = req[r].seen
                                             /\ now = Updated(req[r])
           /\ req[r].op = "remove" =>
                 /\ now.role = was.role /\ now.disabled = was.disabled
                 /\ now.totp = was.totp
<1> DEFINE q == req[r]
<1>0. /\ q \in Request /\ q.at = "written" /\ q.email \in Emails
      /\ WellFormed(q) /\ Stands(q) /\ seeds \in Nat
      /\ now = CommittedRow(q)
  BY CommitFacts
<1>1. was \in Row \cup {NoRow}
  BY <1>0 DEF AccountsInv, TypeOK
<1>2. q.op \in Ops
  BY <1>0 DEF Request
<1> HIDE DEF q
<1>3. CASE q.op \in AccountOps
  <2>1. was = q.seen /\ now = Updated(q)
    <3>1. was = q.seen
      BY <1>0, <1>3 DEF Stands, q
    <3>2. CommittedRow(q) = Updated(q)
      BY <1>3 DEF CommittedRow, AccountOps, OwnOps
    <3> QED
      BY <1>0, <3>1, <3>2 DEF q
  <2>2. Revokes(q) => \/ q.op = "reset"
                      \/ q.op = "change" /\ EndsSessions(q.seen, q.patch)
    BY <1>3, <2>1 DEF Revokes, AccountOps, OwnOps, q
  <2>3. q.op \notin {"delete", "create", "register", "signIn", "remove"}
    BY <1>3 DEF AccountOps, OwnOps
  <2> QED
    BY <1>0, <1>3, <2>1, <2>2, <2>3, UpdatedFacts DEF q
<1>4. CASE q.op = "remove"
  <2> DEFINE sv == Bump(q.seen.sv)
             at == was.updatedAt + 1
  <2>1. was \in Row /\ was.sv = q.seen.sv
    BY <1>0, <1>1, <1>4 DEF Stands, UnchangedVersion, q
  <2>2. /\ sv \in Versions /\ sv[1] = was.sv[1] /\ sv[2] = was.sv[2] + 1
        /\ was.sv[2] \in Nat /\ at \in Nat
    BY <2>1, RowFacts, VersionFacts
  <2>3. now = [was EXCEPT !.sv = sv, !.updatedAt = at]
    BY <1>0, <1>4 DEF CommittedRow, AccountOps, OwnOps, q
  <2> HIDE DEF sv, at
  <2>4. now \in Row
    BY <2>1, <2>2, <2>3 DEF Row
  <2>5. /\ now.sv = sv /\ now.updatedAt = at
        /\ now.role = was.role /\ now.disabled = was.disabled
        /\ now.totp = was.totp
    BY <2>1, <2>3 DEF Row
  <2> QED
    BY <1>4, <2>1, <2>2, <2>4, <2>5 DEF AccountOps, OwnOps, q, at
<1>5. CASE q.op = "delete"
  BY <1>0, <1>5 DEF CommittedRow, AccountOps, OwnOps, q
<1>6. CASE q.op = "create"
  <2>1. q.patch.role \in Roles /\ was = NoRow
    BY <1>0, <1>6 DEF WellFormed, Stands, q
  <2>2. now = FreshRow(q.patch.role)
    BY <1>0, <1>6 DEF CommittedRow, OwnOps, q
  <2>3. <<seeds, 0>>[1] = seeds
    OBVIOUS
  <2> QED
    BY <1>0, <1>6, <2>1, <2>2, <2>3, FreshRowFacts DEF AccountOps, OwnOps, q
<1>7. CASE q.op \in {"register", "signIn"}
  BY <1>0, <1>1, <1>7 DEF CommittedRow, AccountOps, OwnOps, q
<1> QED
  BY <1>2, <1>3, <1>4, <1>5, <1>6, <1>7 DEF Ops

\* What a commit makes of the keys: it clears some of its own account's, or
\* adds one; another account's keys are as they were.
LEMMA CommittedKeysFacts ==
    ASSUME AccountsInv, NEW r \in Requests, Commit(r)
    PROVE  /\ keys' \in [KeyIds -> Key \cup {NoKey}]
           /\ req[r].gone \subseteq KeysOf(req[r].email)
           /\ \A k \in KeyIds :
                 \/ keys'[k] = keys[k] /\ k \notin req[r].gone
                 \/ keys'[k] = NoKey /\ k \in req[r].gone
                 \/ /\ req[r].op = "register" /\ k = req[r].key
                    /\ keys[k] = NoKey
                    /\ keys'[k] = [email |-> req[r].email,
                                   sv |-> req[r].seen.sv]
           /\ \A e \in Emails : e # req[r].email => KeysOf(e)' = KeysOf(e)
           /\ \A e \in Emails, k \in KeyIds :
                 k \in KeysOf(e)' /\ k \notin KeysOf(e)
                 => /\ req[r].op = "register" /\ k = req[r].key
                    /\ e = req[r].email
<1> DEFINE q == req[r]
<1>0. /\ q # Free /\ q \in Request /\ q.at = "written" /\ q.email \in Emails
      /\ WellFormed(q) /\ Stands(q) /\ q.op \in Ops
  BY CommitFacts DEF Request
<1>1. q.gone \subseteq KeysOf(q.email)
  BY <1>0 DEF Stands, Ops
<1>2. q.op = "register" => /\ keys[q.key] = NoKey /\ q.gone = {}
                           /\ q.seen \in Row /\ q.key \in KeyIds
  BY <1>0 DEF AccountsInv, NewKeys, Stands, WellFormed, Request
<1>3. \A k \in KeyIds :
         keys'[k] = IF k \in q.gone THEN NoKey
                    ELSE IF k = q.key /\ q.op = "register"
                    THEN [email |-> q.email, sv |-> q.seen.sv]
                    ELSE keys[k]
  BY DEF Commit, CommittedKeys
<1>4. keys' \in [KeyIds -> Key \cup {NoKey}]
  <2>1. q.op = "register" => [email |-> q.email, sv |-> q.seen.sv] \in Key
    BY <1>0, <1>2, RowFacts DEF Key
  <2>2. \A k \in KeyIds : keys'[k] \in Key \cup {NoKey}
    BY <1>3, <2>1 DEF AccountsInv, TypeOK
  <2>3. keys' = [k \in KeyIds |-> keys'[k]]
    BY DEF Commit, CommittedKeys
  <2> QED
    BY <2>2, <2>3
<1>5. \A k \in KeyIds :
         \/ keys'[k] = keys[k] /\ k \notin q.gone
         \/ keys'[k] = NoKey /\ k \in q.gone
         \/ /\ q.op = "register" /\ k = q.key
            /\ keys[k] = NoKey
            /\ keys'[k] = [email |-> q.email, sv |-> q.seen.sv]
  BY <1>2, <1>3
<1> HIDE DEF q
<1>6. \A e \in Emails : e # q.email => KeysOf(e)' = KeysOf(e)
  <2>1. SUFFICES ASSUME NEW e \in Emails, e # q.email, NEW k \in KeyIds
                 PROVE  (keys'[k] # NoKey /\ keys'[k].email = e)
                          <=> (keys[k] # NoKey /\ keys[k].email = e)
    BY DEF KeysOf
  <2> QED
    BY <1>1, <1>5, <2>1 DEF KeysOf
<1>7. \A e \in Emails, k \in KeyIds :
         k \in KeysOf(e)' /\ k \notin KeysOf(e)
         => q.op = "register" /\ k = q.key /\ e = q.email
  BY <1>5 DEF KeysOf
<1> QED
  BY <1>1, <1>4, <1>5, <1>6, <1>7 DEF q

\* The sessions a commit ends, and the keys it clears, are those of the row it
\* leaves behind.
LEMMA CommitHistory ==
    ASSUME AccountsInv, NEW r \in Requests, Commit(r)
    PROVE  History'
<1> DEFINE e == req[r].email
           was == rows[e]
           now == rows'[e]
<1>0. /\ e \in Emails /\ req[r].op \in Ops
      /\ seeds \in Nat /\ seeds' \in Nat /\ seeds <= seeds'
      /\ req[r].op = "create" => seeds' = seeds + 1
      /\ \A f \in Emails \ {e} : rows'[f] = rows[f]
  BY CommitFacts DEF Request
<1>1. /\ now \in Row \cup {NoRow}
      /\ req[r].op = "delete" => now = NoRow
      /\ req[r].op = "create" => was = NoRow /\ now.sv[1] = seeds
      /\ req[r].op \in {"register", "signIn"} => now = was
      /\ req[r].op \in AccountOps \cup {"remove"} =>
            /\ was \in Row /\ now \in Row
            /\ now.sv[1] = was.sv[1] /\ was.sv[2] <= now.sv[2]
            /\ Revokes(req[r]) => now.sv[2] = was.sv[2] + 1
  BY CommittedRowFacts
<1>2. was \in Row \cup {NoRow}
  BY <1>0 DEF AccountsInv, TypeOK
<1>3. /\ was # NoRow => was.sv[1] \in Nat /\ was.sv[2] \in Nat
                          /\ was.sv[1] < seeds
      /\ now # NoRow => now.sv[1] \in Nat /\ now.sv[2] \in Nat
  BY <1>0, <1>1, <1>2, RowFacts, VersionFacts
  DEF AccountsInv, History, RowsStarted
<1>4. /\ ended' = IF was # NoRow /\ Revokes(req[r])
                  THEN ended \cup {<<e, was.sv>>} ELSE ended
      /\ cleared' =
            IF was # NoRow /\ (req[r].op = "delete" \/ ClearsKeys(req[r]))
            THEN cleared \cup {<<e, was.sv>>} ELSE cleared
  BY DEF Commit
<1>n. now # NoRow => \/ req[r].op = "create" /\ now.sv[1] = seeds
                     \/ /\ was # NoRow /\ now.sv[1] = was.sv[1]
                        /\ was.sv[2] <= now.sv[2]
  <2>1. CASE req[r].op \in {"register", "signIn"}
    BY <1>1, <1>3, <2>1
  <2>2. CASE req[r].op \in {"delete", "create"}
    BY <1>1, <2>2
  <2>3. CASE req[r].op \in AccountOps \cup {"remove"}
    BY <1>1, <2>3, RowFacts
  <2> QED
    BY <1>0, <2>1, <2>2, <2>3 DEF Ops
<1> HIDE DEF e, was, now
<1>5. RowsStarted'
  <2>1. SUFFICES ASSUME NEW f \in Emails, rows'[f] # NoRow
                 PROVE  rows'[f].sv[1] < seeds'
    BY DEF RowsStarted
  <2>2. CASE f # e
    <3>1. rows[f] \in Row /\ rows[f].sv[1] < seeds
      BY <1>0, <2>1, <2>2 DEF AccountsInv, TypeOK, History, RowsStarted
    <3> QED
      BY <1>0, <2>2, <3>1, RowFacts, VersionFacts
  <2>3. CASE f = e
    BY <1>0, <1>3, <1>n, <2>1, <2>3 DEF now
  <2> QED
    BY <2>2, <2>3
\* A version that was ended stays behind; one that ends now falls behind.
<1>6. EndedIsPast'
  <2>1. SUFFICES ASSUME NEW c \in ended'
                 PROVE  /\ c[2][1] < seeds'
                        /\ rows'[c[1]] # NoRow /\ rows'[c[1]].sv[1] = c[2][1]
                              => c[2][2] < rows'[c[1]].sv[2]
    BY DEF EndedIsPast
  <2>2. CASE c \in ended
    <3>1. /\ c[1] \in Emails /\ c[2][1] \in Nat /\ c[2][2] \in Nat
          /\ c[2][1] < seeds
          /\ rows[c[1]] # NoRow /\ rows[c[1]].sv[1] = c[2][1]
                => c[2][2] < rows[c[1]].sv[2]
      BY <2>2 DEF AccountsInv, TypeOK, History, EndedIsPast, Versions
    <3>2. CASE c[1] # e
      BY <1>0, <3>1, <3>2
    <3>3. CASE c[1] = e
      BY <1>0, <1>3, <1>n, <3>1, <3>3 DEF now, was
    <3> QED
      BY <3>2, <3>3
  <2>3. CASE c \notin ended
    <3>1. c[1] = e /\ c[2] = was.sv /\ was # NoRow /\ Revokes(req[r])
      BY <1>4, <2>1, <2>3
    <3>2. req[r].op \in AccountOps \cup {"delete", "remove"}
      BY <3>1 DEF Revokes, AccountOps
    <3> QED
      BY <1>0, <1>1, <1>3, <3>1, <3>2 DEF now, was
  <2> QED
    BY <2>2, <2>3
<1>7. ClearedEnded'
  <2>1. ASSUME was # NoRow, req[r].op = "delete" \/ ClearsKeys(req[r])
        PROVE  Revokes(req[r])
    <3>1. CASE req[r].op \in {"delete", "reset"}
      BY <3>1 DEF Revokes
    <3>2. CASE req[r].op = "change" /\ Clears(req[r].patch)
      BY <3>2 DEF Revokes, EndsSessions
    <3> QED
      BY <2>1, <3>1, <3>2 DEF ClearsKeys
  <2> QED
    BY <1>4, <2>1 DEF ClearedEnded, AccountsInv, History
<1> QED
  BY <1>5, <1>6, <1>7 DEF History

\* A key stays on the account it was registered for, and only as long as
\* nothing has cleared that account's keys since.
LEMMA CommitCleared ==
    ASSUME AccountsInv, NEW r \in Requests, Commit(r)
    PROVE  ClearedKeysStayGone'
<1> DEFINE e == req[r].email
           q == req[r]
<1>0. /\ e \in Emails /\ q.op \in Ops /\ WellFormed(q) /\ Stands(q)
      /\ q.at = "written" /\ seeds \in Nat
      /\ \A f \in Emails \ {e} : rows'[f] = rows[f]
  BY CommitFacts DEF Request
<1>1. /\ q.op = "create" => rows[e] = NoRow
      /\ q.op \in {"register", "signIn"} => rows'[e] = rows[e]
      /\ q.op \in AccountOps \cup {"remove"} =>
            rows[e] \in Row /\ rows'[e] \in Row /\ rows'[e].sv[1] = rows[e].sv[1]
  BY CommittedRowFacts
<1>2. /\ \A k \in KeyIds :
            \/ keys'[k] = keys[k] /\ k \notin q.gone
            \/ keys'[k] = NoKey /\ k \in q.gone
            \/ /\ q.op = "register" /\ k = q.key
               /\ keys'[k] = [email |-> e, sv |-> q.seen.sv]
  BY CommittedKeysFacts
<1>3. cleared' = IF rows[e] # NoRow /\ (q.op = "delete" \/ ClearsKeys(q))
                 THEN cleared \cup {<<e, rows[e].sv>>} ELSE cleared
  BY DEF Commit
<1>4. q.op \in {"delete", "create"} \/ ClearsKeys(q) => q.gone = KeysOf(e)
  BY <1>0 DEF Stands, ClearsKeys, AccountOps
<1>5. q.op = "register" => rows[e] \in Row /\ rows[e].sv = q.seen.sv
  BY <1>0 DEF Stands, Registrable, AccountsInv, TypeOK
<1>h. \A k \in KeyIds : keys[k] # NoKey =>
         /\ keys[k] \in Key /\ rows[keys[k].email] # NoRow
         /\ keys[k].sv[1] = rows[keys[k].email].sv[1]
         /\ \A c \in cleared :
               c[1] = keys[k].email /\ c[2][1] = keys[k].sv[1]
                  => c[2][2] < keys[k].sv[2]
  BY DEF AccountsInv, TypeOK, ClearedKeysStayGone
<1> HIDE DEF e, q
<1> SUFFICES ASSUME NEW k \in KeyIds, keys'[k] # NoKey
             PROVE  /\ rows'[keys'[k].email] # NoRow
                    /\ keys'[k].sv[1] = rows'[keys'[k].email].sv[1]
                    /\ \A c \in cleared' :
                          c[1] = keys'[k].email /\ c[2][1] = keys'[k].sv[1]
                             => c[2][2] < keys'[k].sv[2]
  BY DEF ClearedKeysStayGone
<1>6. CASE keys'[k] = keys[k] /\ k \notin q.gone
  <2>1. keys[k].email \in Emails
    BY <1>h, <1>6 DEF Key
  <2>2. CASE keys[k].email # e
    BY <1>0, <1>3, <1>6, <1>h, <2>1, <2>2
  <2>3. CASE keys[k].email = e
    <3>1. q.op \notin {"delete", "create"} /\ ~ClearsKeys(q)
      BY <1>4, <1>6, <2>3 DEF KeysOf
    <3>2. /\ rows[e] \in Row \cup {NoRow} /\ rows[e] # NoRow
          /\ rows'[e].sv[1] = rows[e].sv[1] /\ rows'[e] # NoRow
          /\ cleared' = cleared
      BY <1>0, <1>1, <1>3, <1>6, <1>h, <2>3, <3>1, RowFacts
      DEF Ops, AccountsInv, TypeOK
    <3> QED
      BY <1>6, <1>h, <2>3, <3>2
  <2> QED
    BY <2>2, <2>3
\* The row is locked: no clearing came between the check and the insert.
<1>7. CASE q.op = "register" /\ k = q.key
             /\ keys'[k] = [email |-> e, sv |-> q.seen.sv]
  <2>1. rows'[e] = rows[e] /\ rows[e] # NoRow /\ q.seen.sv = rows[e].sv
    BY <1>1, <1>5, <1>7, RowFacts
  <2>2. cleared' = cleared
    BY <1>3, <1>7 DEF ClearsKeys
  <2>3. ASSUME NEW c \in cleared, c[1] = e, c[2][1] = rows[e].sv[1]
        PROVE  c[2][2] < rows[e].sv[2]
    BY <2>1, <2>3 DEF AccountsInv, History, ClearedEnded, EndedIsPast
  <2> QED
    BY <1>7, <2>1, <2>2, <2>3
<1> QED
  BY <1>2, <1>6, <1>7

\* The limit: the transaction that adds a key counted under the lock.
LEMMA CommitLimit ==
    ASSUME AccountsInv, NEW r \in Requests, Commit(r)
    PROVE  FinitelyManyKeys' /\ WithinThePasskeyLimit'
<1> SUFFICES ASSUME NEW e \in Emails
             PROVE  IsFiniteSet(KeysOf(e)') /\ Cardinality(KeysOf(e)') <= MaxPasskeys
  BY DEF FinitelyManyKeys, WithinThePasskeyLimit
<1>0. /\ IsFiniteSet(KeysOf(e)) /\ Cardinality(KeysOf(e)) \in Nat
      /\ Cardinality(KeysOf(e)) <= MaxPasskeys /\ MaxPasskeys \in Nat
  BY FS_CardinalityType, AccountsAssumption
  DEF AccountsInv, FinitelyManyKeys, WithinThePasskeyLimit
<1>1. CASE KeysOf(e)' \subseteq KeysOf(e)
  <2>1. /\ IsFiniteSet(KeysOf(e)')
        /\ Cardinality(KeysOf(e)') <= Cardinality(KeysOf(e))
    BY <1>0, <1>1, FS_Subset
  <2>2. Cardinality(KeysOf(e)') \in Nat
    BY <2>1, FS_CardinalityType
  <2> QED
    BY <1>0, <2>1, <2>2
<1>2. CASE ~(KeysOf(e)' \subseteq KeysOf(e))
  <2>1. PICK k \in KeysOf(e)' : k \notin KeysOf(e)
    BY <1>2
  <2>2. k \in KeyIds
    BY <2>1 DEF KeysOf
  <2>3. req[r].op = "register" /\ e = req[r].email
    BY <2>1, <2>2, CommittedKeysFacts
  <2>4. KeysOf(e)' \subseteq KeysOf(e) \cup {req[r].key}
    BY CommittedKeysFacts DEF KeysOf
  <2>5. Cardinality(KeysOf(e)) < MaxPasskeys
    BY <2>3, CommitFacts DEF Stands, WithinLimit
  <2>6. /\ IsFiniteSet(KeysOf(e) \cup {req[r].key})
        /\ Cardinality(KeysOf(e) \cup {req[r].key})
              <= Cardinality(KeysOf(e)) + 1
    <3> DEFINE S == KeysOf(e)
               x == req[r].key
    <3> HIDE DEF S, x
    <3>1. IsFiniteSet(S) /\ Cardinality(S) \in Nat
      BY <1>0 DEF S
    <3>2. /\ IsFiniteSet(S \cup {x})
          /\ Cardinality(S \cup {x}) =
                IF x \in S THEN Cardinality(S) ELSE Cardinality(S) + 1
      BY <3>1, FS_AddElement
    <3>3. Cardinality(S \cup {x}) <= Cardinality(S) + 1
      BY <3>1, <3>2
    <3> QED
      BY <3>2, <3>3 DEF S, x
  <2>7. /\ IsFiniteSet(KeysOf(e)')
        /\ Cardinality(KeysOf(e)') <= Cardinality(KeysOf(e) \cup {req[r].key})
    BY <2>4, <2>6, FS_Subset
  <2>8. /\ Cardinality(KeysOf(e)') \in Nat
        /\ Cardinality(KeysOf(e) \cup {req[r].key}) \in Nat
    BY <2>6, <2>7, FS_CardinalityType
  <2> QED
    BY <1>0, <2>5, <2>6, <2>7, <2>8
<1> QED
  BY <1>1, <1>2

\* The requests after a commit: the others are as they were, and the one that
\* committed is done with, or a sign-in about to answer.
LEMMA CommitRequests ==
    ASSUME AccountsInv, NEW r \in Requests, Commit(r)
    PROVE  /\ req' \in [Requests -> Request \cup {Free}]
           /\ \A p \in Requests \ {r} : req'[p] = req[p]
           /\ req'[r] # Free =>
                 /\ req[r].op = "signIn" /\ req'[r] \in Request
                 /\ req'[r].at = "answered" /\ req'[r].locks = {}
                 /\ req'[r].op = req[r].op /\ req'[r].email = req[r].email
                 /\ req'[r].seen = req[r].seen /\ req'[r].patch = req[r].patch
                 /\ req'[r].key = req[r].key /\ req'[r].gone = req[r].gone
<1>1. /\ req \in [Requests -> Request \cup {Free}]
      /\ req' = [req EXCEPT ![r] = Answered(req[r])]
  BY DEF Commit, AccountsInv, RequestsOK
<1>2. req[r] \in Request
  BY CommitFacts
<1>3. CASE req[r].op = "signIn"
  <2> DEFINE new == [req[r] EXCEPT !.at = "answered", !.locks = {}]
  <2>1. /\ new \in Request /\ new.at = "answered" /\ new.locks = {}
        /\ new.op = req[r].op /\ new.email = req[r].email
        /\ new.seen = req[r].seen /\ new.patch = req[r].patch
        /\ new.key = req[r].key /\ new.gone = req[r].gone
    BY <1>2 DEF Request
  <2>2. req' = [req EXCEPT ![r] = new]
    BY <1>1, <1>3 DEF Answered
  <2> HIDE DEF new
  <2> QED
    BY <1>1, <1>3, <2>1, <2>2
<1>4. CASE req[r].op # "signIn"
  <2>1. req' = [req EXCEPT ![r] = Free]
    BY <1>1, <1>4 DEF Answered
  <2> QED
    BY <1>1, <2>1
<1> QED
  BY <1>3, <1>4

\* Whoever holds the row of an account sees it and its keys unchanged by the
\* commits of the others.
LEMMA LockedRowStands ==
    ASSUME AccountsInv, NEW r \in Requests, Commit(r),
           NEW p \in Requests \ {r}, req[p] # Free
    PROVE  /\ \A e \in req[p].locks : rows'[e] = rows[e]
           /\ req[p].email \in req[p].locks =>
                 /\ KeysOf(req[p].email) \subseteq KeyIds
                 /\ \A k \in KeyIds :
                       (keys'[k] # NoKey /\ keys'[k].email = req[p].email)
                       <=> (keys[k] # NoKey /\ keys[k].email = req[p].email)
<1>0. /\ req[r] # Free /\ req[r].email \in req[r].locks
      /\ req[r].email \in Emails /\ req[r].at = "written"
      /\ \A e \in Emails \ {req[r].email} : rows'[e] = rows[e]
      /\ Stands(req[r]) /\ req[p] \in Request
  BY CommitFacts DEF LocksHeld, AccountsInv, RequestsOK
<1>1. CASE req[r].op = "signIn"
  <2>1. rows'[req[r].email] = rows[req[r].email]
    BY <1>1, CommittedRowFacts
  <2>2. req[r].gone = {}
    BY <1>0, <1>1 DEF Stands
  <2>3. \A k \in KeyIds : keys'[k] = keys[k]
    BY <1>1, <2>2, CommittedKeysFacts
  <2> QED
    BY <1>0, <2>1, <2>3 DEF Request, KeysOf
<1>2. CASE req[r].op # "signIn"
  <2>1. req[r].email \notin req[p].locks
    BY <1>0, <1>2 DEF AccountsInv, Exclusive
  <2>2. \A e \in req[p].locks : rows'[e] = rows[e]
    BY <1>0, <2>1 DEF Request
  <2>3. ASSUME req[p].email \in req[p].locks, NEW k \in KeyIds
        PROVE  (keys'[k] # NoKey /\ keys'[k].email = req[p].email)
               <=> (keys[k] # NoKey /\ keys[k].email = req[p].email)
    <3>1. req[p].email # req[r].email
      BY <2>1, <2>3
    <3>2. /\ k \in req[r].gone => keys[k].email = req[r].email
          /\ \/ keys'[k] = keys[k] /\ k \notin req[r].gone
             \/ keys'[k] = NoKey /\ k \in req[r].gone
             \/ keys[k] = NoKey /\ keys'[k] = [email |-> req[r].email,
                                               sv |-> req[r].seen.sv]
      BY CommittedKeysFacts DEF KeysOf
    <3> QED
      BY <3>1, <3>2
  <2> QED
    BY <2>2, <2>3 DEF KeysOf
<1> QED
  BY <1>1, <1>2

LEMMA CommitOther ==
    ASSUME AccountsInv, NEW r \in Requests, Commit(r),
           NEW p \in Requests \ {r}, req[p] # Free
    PROVE  /\ WellFormed(req[p])' /\ LocksHeld(req[p])' /\ Stands(req[p])'
           /\ SeenIsPast(req[p])' /\ SignsInWithHisKey(req[p])'
<1>0. /\ req'[p] = req[p] /\ req[p] \in Request
      /\ WellFormed(req[p]) /\ LocksHeld(req[p]) /\ Stands(req[p])
      /\ SeenIsPast(req[p]) /\ SignsInWithHisKey(req[p])
  BY CommitRequests DEF AccountsInv, RequestsOK
<1>1. WellFormed(req[p])' /\ LocksHeld(req[p])'
  BY <1>0 DEF WellFormed, LocksHeld
<1>2. Stands(req[p])'
  <2>1. CASE req[p].email \in req[p].locks
    <3>1. rows'[req[p].email] = rows[req[p].email]
      BY <2>1, LockedRowStands
    <3>2. KeysOf(req[p].email)' = KeysOf(req[p].email)
      BY <1>0, <2>1, LockedRowStands DEF KeysOf
    <3>3. ASSUME req[p].op = "signIn", req[p].at = "written"
          PROVE  keys'[req[p].key] # NoKey
      <4>1. /\ keys[req[p].key] # NoKey
            /\ keys[req[p].key].email = req[p].email /\ req[p].key \in KeyIds
        BY <1>0, <3>3 DEF Stands, SignsInWithHisKey, WellFormed
      <4> QED
        BY <2>1, <4>1, LockedRowStands
    <3> QED
      BY <1>0, <3>1, <3>2, <3>3
      DEF Stands, UnchangedVersion, Registrable, WithinLimit, AsSeen, Enabled
  <2>2. CASE req[p].email \notin req[p].locks
    BY <1>0, <2>2 DEF Stands, LocksHeld
  <2> QED
    BY <2>1, <2>2
\* What was read earlier is earlier still.
<1>3. SeenIsPast(req[p])'
  <2> DEFINE e == req[p].email
             seen == req[p].seen
  <2>0. /\ e \in Emails /\ seen \in Row \cup {NoRow}
        /\ seeds \in Nat /\ seeds' \in Nat /\ seeds <= seeds'
        /\ rows[e] \in Row \cup {NoRow}
    BY <1>0, CommitFacts DEF Request, AccountsInv, TypeOK
  <2>1. SUFFICES ASSUME seen # NoRow
                 PROVE  /\ seen.sv[1] < seeds'
                        /\ rows'[e] # NoRow /\ rows'[e].sv[1] = seen.sv[1] =>
                              /\ seen.updatedAt <= rows'[e].updatedAt
                              /\ seen.updatedAt = rows'[e].updatedAt
                                    => seen = rows'[e]
    BY <1>0 DEF SeenIsPast
  <2>2. /\ seen.sv[1] < seeds /\ seen.sv[1] \in Nat /\ seen.updatedAt \in Nat
        /\ rows[e] # NoRow /\ rows[e].sv[1] = seen.sv[1] =>
              /\ seen.updatedAt <= rows[e].updatedAt
              /\ seen.updatedAt = rows[e].updatedAt => seen = rows[e]
        /\ rows[e] # NoRow => rows[e].updatedAt \in Nat
    BY <1>0, <2>0, <2>1, RowFacts, VersionFacts DEF SeenIsPast
  <2> HIDE DEF e, seen
  <2>3. CASE rows'[e] = rows[e]
    BY <2>0, <2>2, <2>3
  <2>4. CASE rows'[e] # rows[e]
    <3>1. e = req[r].email /\ req[r].op \in Ops
      BY <2>0, <2>4, CommitFacts DEF Request
    <3>2. \/ rows'[e] = NoRow
          \/ rows'[e].sv[1] = seeds
          \/ /\ rows[e] \in Row /\ rows'[e].sv[1] = rows[e].sv[1]
             /\ rows'[e].updatedAt = rows[e].updatedAt + 1
      BY <2>4, <3>1, CommittedRowFacts DEF Ops
    <3> QED
      BY <2>0, <2>2, <3>2, RowFacts
  <2> QED
    BY <2>3, <2>4
<1>4. SignsInWithHisKey(req[p])'
  <2>1. SUFFICES ASSUME req[p].op = "signIn", keys'[req[p].key] # NoKey
                 PROVE  keys'[req[p].key].email = req[p].email
    BY <1>0 DEF SignsInWithHisKey
  <2>2. req[p].key \in KeyIds
    BY <1>0, <2>1 DEF WellFormed
  <2>3. keys'[req[p].key] = keys[req[p].key]
    BY <2>1, <2>2, CommittedKeysFacts, CommitFacts DEF AccountsInv, NewKeys
  <2> QED
    BY <1>0, <2>1, <2>3 DEF SignsInWithHisKey
<1> QED
  BY <1>1, <1>2, <1>3, <1>4

LEMMA CommitRequestsOK ==
    ASSUME AccountsInv, NEW r \in Requests, Commit(r)
    PROVE  RequestsOK' /\ Exclusive' /\ NewKeys'
<1>1. RequestsOK'
  <2>1. ASSUME req'[r] # Free
        PROVE  /\ WellFormed(req[r])' /\ LocksHeld(req[r])' /\ Stands(req[r])'
               /\ SeenIsPast(req[r])' /\ SignsInWithHisKey(req[r])'
    <3>1. /\ req[r].op = "signIn" /\ req'[r] \in Request
          /\ req'[r].at = "answered" /\ req'[r].locks = {}
          /\ req'[r].op = req[r].op /\ req'[r].email = req[r].email
          /\ req'[r].seen = req[r].seen /\ req'[r].key = req[r].key
          /\ req'[r].gone = req[r].gone
      BY <2>1, CommitRequests
    <3>2. /\ WellFormed(req[r]) /\ Stands(req[r]) /\ SeenIsPast(req[r])
          /\ SignsInWithHisKey(req[r]) /\ req[r].at = "written"
          /\ seeds' = seeds
      BY <3>1, CommitFacts
    <3>3. req[r].gone = {}
      BY <3>1, <3>2 DEF Stands
    <3>4. rows'[req[r].email] = rows[req[r].email]
      BY <3>1, CommittedRowFacts
    <3>5. \A k \in KeyIds : keys'[k] = keys[k]
      BY <3>1, <3>3, CommittedKeysFacts
    <3>6. WellFormed(req[r])' /\ LocksHeld(req[r])' /\ Stands(req[r])'
      BY <3>1, <3>2, <3>3 DEF WellFormed, LocksHeld, Stands, AccountOps, OwnOps
    <3>7. SeenIsPast(req[r])'
      BY <3>1, <3>2, <3>4 DEF SeenIsPast
    <3>8. SignsInWithHisKey(req[r])'
      BY <3>1, <3>2, <3>5 DEF SignsInWithHisKey, WellFormed
    <3> QED
      BY <3>6, <3>7, <3>8
  <2>2. ASSUME NEW p \in Requests \ {r}, req'[p] # Free
        PROVE  /\ WellFormed(req[p])' /\ LocksHeld(req[p])' /\ Stands(req[p])'
               /\ SeenIsPast(req[p])' /\ SignsInWithHisKey(req[p])'
    <3>1. req[p] # Free
      BY <2>2, CommitRequests
    <3> QED
      BY <3>1, CommitOther
  <2>3. \A p \in Requests : req'[p] # Free =>
           /\ WellFormed(req[p])' /\ LocksHeld(req[p])' /\ Stands(req[p])'
           /\ SeenIsPast(req[p])' /\ SignsInWithHisKey(req[p])'
    BY <2>1, <2>2
  <2> QED
    BY <2>3, CommitRequests DEF RequestsOK
<1>2. Exclusive'
  BY CommitRequests DEF AccountsInv, Exclusive
<1>3. NewKeys'
  <2>1. SUFFICES ASSUME NEW p \in Requests, req'[p] # Free,
                        req'[p].op = "register"
                 PROVE  /\ keys'[req'[p].key] = NoKey
                        /\ \A q \in Requests \ {p} :
                              req'[q] # Free => req'[q].key # req'[p].key
    BY DEF NewKeys
  <2>2. p # r /\ req'[p] = req[p]
    BY <2>1, CommitRequests
  <2>3. /\ keys[req[p].key] = NoKey /\ req[p].key \in KeyIds
        /\ \A q \in Requests \ {p} : req[q] # Free => req[q].key # req[p].key
    BY <2>1, <2>2 DEF AccountsInv, NewKeys, RequestsOK, WellFormed
  <2>4. req[r] # Free
    BY CommitFacts
  <2>5. keys'[req[p].key] = NoKey
    BY <2>2, <2>3, <2>4, CommittedKeysFacts
  <2> QED
    BY <2>2, <2>3, <2>4, <2>5, CommitRequests
<1> QED
  BY <1>1, <1>2, <1>3

\* A commit that takes an enabled admin away is guarded, or misjudged the row.
LEMMA CommitTakesAdmin ==
    ASSUME AccountsInv, NEW r \in Requests, Commit(r), ~misjudged',
           IsEnabledAdmin(rows[req[r].email]),
           ~IsEnabledAdmin(rows'[req[r].email])
    PROVE  KeepsAdmin(req[r])
<1>0. req[r] \in Request /\ WellFormed(req[r]) /\ req[r].op \in Ops
  BY CommitFacts DEF Request
<1>1. CASE req[r].op \in AccountOps
  BY <1>0, <1>1, CommittedRowFacts, UpdatedAdmin
<1>2. CASE req[r].op = "delete"
  BY <1>2 DEF Commit
<1>3. CASE req[r].op \in {"create", "register", "signIn"}
  BY <1>3, CommittedRowFacts DEF IsEnabledAdmin
<1>4. CASE req[r].op = "remove"
  <2>1. /\ rows'[req[r].email] \in Row
        /\ rows'[req[r].email].role = rows[req[r].email].role
        /\ rows'[req[r].email].disabled = rows[req[r].email].disabled
    BY <1>4, CommittedRowFacts
  <2> QED
    BY <2>1, RowFacts DEF IsEnabledAdmin
<1> QED
  BY <1>0, <1>1, <1>2, <1>3, <1>4 DEF Ops

LEMMA CommitAdmins ==
    ASSUME AccountsInv, NEW r \in Requests, Commit(r)
    PROVE  AdminsGuarded'
<1> SUFFICES ASSUME ~misjudged' PROVE AdminsGuarded'
  BY DEF AdminsGuarded
<1> DEFINE e == req[r].email
<1>0. /\ ~misjudged /\ AnEnabledAdminRemains /\ GuardedAlone
      /\ \A p \in Requests : req[p] # Free =>
            Populated(req[p]) /\ HoldsAnAdmin(req[p]) /\ LeavesAnother(req[p])
  BY DEF Commit, AccountsInv, AdminsGuarded
<1>1. /\ e \in Emails /\ req[r] # Free /\ req[r].at = "written"
      /\ \A f \in Emails \ {e} : rows'[f] = rows[f]
  BY CommitFacts
<1>2. IsEnabledAdmin(rows[e]) /\ ~IsEnabledAdmin(rows'[e])
         => KeepsAdmin(req[r])
  BY CommitTakesAdmin
<1> HIDE DEF e
\* The one admin that goes leaves another, and nobody else's write does the
\* same at the same time.
<1>3. ASSUME NEW p \in Requests \ {r}, req[p] # Free
      PROVE  LeavesAnother(req[p])'
  <2>0. req'[p] = req[p] /\ req[p] \in Request /\ LocksHeld(req[p])
    BY <1>3, CommitRequests DEF AccountsInv, RequestsOK
  <2>1. SUFFICES ASSUME KeepsAdmin(req[p]), req[p].at = "written"
                 PROVE  \E f \in Emails : f # req[p].email
                                            /\ IsEnabledAdmin(rows'[f])
    BY <2>0 DEF LeavesAnother, EnabledAdmins
  <2>2. PICK f \in Emails : f # req[p].email /\ IsEnabledAdmin(rows[f])
    BY <1>0, <1>3, <2>1 DEF LeavesAnother, EnabledAdmins
  <2>3. CASE IsEnabledAdmin(rows'[f])
    BY <2>2, <2>3
  <2>4. CASE ~IsEnabledAdmin(rows'[f])
    <3>1. f = e /\ KeepsAdmin(req[r])
      BY <1>1, <1>2, <2>2, <2>4
    <3>2. r = p
      BY <1>0, <1>1, <1>3, <2>1, <3>1 DEF GuardedAlone, Guarding
    <3> QED
      BY <3>2
  <2> QED
    BY <2>3, <2>4
<1>4. SomeAccount => \E f \in Emails : IsEnabledAdmin(rows'[f])
  <2>1. SUFFICES ASSUME SomeAccount
                 PROVE  \E f \in Emails : IsEnabledAdmin(rows'[f])
    OBVIOUS
  <2>2. CASE IsEnabledAdmin(rows[e]) /\ ~IsEnabledAdmin(rows'[e])
    <3>1. EnabledAdmins \ {e} # {}
      BY <1>0, <1>1, <1>2, <2>2 DEF LeavesAnother, e
    <3> QED
      BY <1>1, <3>1 DEF EnabledAdmins
  <2>3. CASE ~(IsEnabledAdmin(rows[e]) /\ ~IsEnabledAdmin(rows'[e]))
    <3>1. PICK f \in Emails : IsEnabledAdmin(rows[f])
      BY <1>0, <2>1 DEF AnEnabledAdminRemains, SomeAccount, EnabledAdmins
    <3> QED
      BY <1>1, <2>3, <3>1
  <2> QED
    BY <2>2, <2>3
\* The first account of an empty registry is an enabled admin.
<1>5. ~SomeAccount /\ (\E f \in Emails : rows'[f] # NoRow)
         => \E f \in Emails : IsEnabledAdmin(rows'[f])
  <2>1. SUFFICES ASSUME ~SomeAccount, NEW f \in Emails, rows'[f] # NoRow
                 PROVE  IsEnabledAdmin(rows'[e])
    BY <1>1
  <2>2. f = e /\ rows[e] = NoRow
    BY <1>1, <2>1 DEF SomeAccount
  <2>3. req[r].op = "create"
    BY <2>1, <2>2, CommittedRowFacts, RowFacts, CommitFacts DEF Request, Ops, e
  <2>4. req[r].patch.role = "admin"
    BY <1>0, <1>1, <2>1, <2>3 DEF Populated
  <2>5. /\ rows'[e] = FreshRow("admin") /\ rows'[e] # NoRow
    BY <2>1, <2>2, <2>3, <2>4, CommittedRowFacts DEF e
  <2> QED
    BY <2>5 DEF IsEnabledAdmin, FreshRow
<1>6. AnEnabledAdminRemains'
  BY <1>4, <1>5 DEF AnEnabledAdminRemains, EnabledAdmins, SomeAccount
<1>7. SomeAccount => \E f \in Emails : rows'[f] # NoRow
  BY <1>4 DEF IsEnabledAdmin
<1>8. GuardedAlone'
  <2>1. \A p \in Requests : req'[p] # Free /\ Guarding(req'[p]) =>
           req[p] # Free /\ Guarding(req[p])
    BY CommitRequests, KeepsAdminOps DEF Guarding
  <2> QED
    BY <1>0, <2>1 DEF GuardedAlone, Guarding
<1>9. ASSUME NEW p \in Requests, req'[p] # Free
      PROVE  /\ Populated(req[p])' /\ HoldsAnAdmin(req[p])'
             /\ LeavesAnother(req[p])'
  <2>1. CASE p = r
    <3>1. req'[r].op = "signIn"
      BY <1>9, <2>1, CommitRequests
    <3>2. ~KeepsAdmin(req'[r])
      BY <3>1, KeepsAdminOps
    <3> QED
      BY <2>1, <3>1, <3>2 DEF Populated, HoldsAnAdmin, LeavesAnother, Guarding
  <2>2. CASE p # r
    <3>1. req'[p] = req[p] /\ req[p] # Free
      BY <1>9, <2>2, CommitRequests
    <3>2. Populated(req[p])'
      BY <1>0, <1>7, <3>1 DEF Populated, SomeAccount
    <3>3. HoldsAnAdmin(req[p])'
      <4>1. HoldsAnAdmin(req[p])
        BY <1>0, <3>1
      <4>2. \A f \in req[p].locks : rows'[f] = rows[f]
        BY <2>2, <3>1, LockedRowStands
      <4> QED
        BY <3>1, <4>1, <4>2 DEF HoldsAnAdmin, Guarding
    <3> QED
      BY <1>3, <2>2, <3>1, <3>2, <3>3
  <2> QED
    BY <2>1, <2>2
<1> QED
  BY <1>6, <1>8, <1>9 DEF AdminsGuarded

LEMMA CommitType ==
    ASSUME AccountsInv, NEW r \in Requests, Commit(r)
    PROVE  TypeOK'
<1>1. rows' \in [Emails -> Row \cup {NoRow}]
  <2>1. rows'[req[r].email] \in Row \cup {NoRow}
    BY CommittedRowFacts
  <2> QED
    BY <2>1, CommitFacts DEF AccountsInv, TypeOK
<1>2. keys' \in [KeyIds -> Key \cup {NoKey}]
  BY CommittedKeysFacts
<1>3. seeds' \in Nat \ {0}
  BY CommitFacts
<1>4. commits' \in 0..MaxCommits
  BY AccountsAssumption DEF Commit, AccountsInv, TypeOK
<1>5. ended' \subseteq Emails \X Versions
  <2>1. rows[req[r].email] # NoRow
           => <<req[r].email, rows[req[r].email].sv>> \in Emails \X Versions
    BY CommitFacts, RowFacts DEF AccountsInv, TypeOK
  <2> QED
    BY <2>1 DEF Commit, AccountsInv, TypeOK
<1>6. cleared' \subseteq Emails \X Versions
  BY <1>5, CommitHistory DEF History, ClearedEnded
<1>7. misjudged' \in BOOLEAN
  BY DEF Commit
<1>8. ASSUME NEW p \in Requests, req'[p] # Free
      PROVE  /\ req'[p].at \in {"read", "checked", "locked", "written",
                                "answered"}
             /\ req'[p].email \in Emails /\ req'[p].seen \in Row \cup {NoRow}
             /\ req'[p].key \in KeyIds \cup {NoKey}
             /\ req'[p].locks \subseteq Emails /\ req'[p].gone \subseteq KeyIds
             /\ req'[p].locks # {} => req'[p].at \in {"locked", "written"}
  <2>1. req'[p] \in Request
    BY <1>8, CommitRequests
  <2>2. req'[p].locks # {} => req'[p].at \in {"locked", "written"}
    BY <1>8, CommitRequestsOK DEF RequestsOK, LocksHeld
  <2> QED
    BY <2>1, <2>2 DEF Request
<1> QED
  BY <1>1, <1>2, <1>3, <1>4, <1>5, <1>6, <1>7, <1>8 DEF TypeOK

LEMMA CommitKeeps ==
    ASSUME AccountsInv, NEW r \in Requests, Commit(r)
    PROVE  AccountsInv'
BY CommitType, CommitRequestsOK, CommitHistory, CommitCleared, CommitLimit,
   CommitAdmins DEF AccountsInv

-----------------------------------------------------------------------------
(* The invariant.                                                          *)

LEMMA InitInv == Init => AccountsInv
<1> SUFFICES ASSUME Init PROVE AccountsInv
  OBVIOUS
<1> DEFINE Seeded(e) ==
      [role |-> IF e = EnvAdmin THEN "admin" ELSE "user", disabled |-> FALSE,
       totp |-> "none", sv |-> <<0, 0>>, updatedAt |-> 0]
<1>1. /\ \A e \in Emails : Seeded(e) \in Row /\ Seeded(e).sv[1] = 0
      /\ IsEnabledAdmin(Seeded(EnvAdmin))
  <2>1. <<0, 0>> \in Versions /\ <<0, 0>>[1] = 0
    BY DEF Versions
  <2>2. \A e \in Emails : Seeded(e) \in Row
    BY <2>1 DEF Row, Roles, Factors
  <2> QED
    BY <2>1, <2>2, AccountsAssumption, RowFacts DEF IsEnabledAdmin
<1>2. \/ rows = [e \in Emails |-> Seeded(e)]
      \/ rows = [e \in Emails |-> NoRow]
  BY DEF Init
<1>3. /\ rows \in [Emails -> Row \cup {NoRow}] /\ RowsStarted
      /\ AnEnabledAdminRemains
  <2>1. CASE rows = [e \in Emails |-> Seeded(e)]
    <3> HIDE DEF Seeded
    <3>1. seeds = 1
      BY DEF Init
    <3> QED
      BY <1>1, <2>1, <3>1, AccountsAssumption
      DEF RowsStarted, AnEnabledAdminRemains, EnabledAdmins
  <2>2. CASE rows = [e \in Emails |-> NoRow]
    BY <2>2 DEF RowsStarted, AnEnabledAdminRemains
  <2> QED
    BY <1>2, <2>1, <2>2
<1>4. \A r \in Requests : req[r] = Free
  BY DEF Init
<1>5. \A k \in KeyIds : keys[k] = NoKey
  BY DEF Init
<1>6. TypeOK
  <2>1. keys \in [KeyIds -> Key \cup {NoKey}] /\ misjudged \in BOOLEAN
    BY DEF Init
  <2>2. seeds \in Nat \ {0} /\ ended = {} /\ cleared = {}
    BY DEF Init
  <2>3. commits \in 0..MaxCommits
    BY AccountsAssumption DEF Init
  <2> QED
    BY <1>3, <1>4, <2>1, <2>2, <2>3 DEF TypeOK
<1>7. RequestsOK /\ Exclusive /\ NewKeys
  BY <1>4 DEF RequestsOK, Exclusive, NewKeys, Init
<1>8. History /\ ClearedKeysStayGone
  BY <1>3, <1>5 DEF History, EndedIsPast, ClearedEnded, ClearedKeysStayGone,
                    Init
<1>9. FinitelyManyKeys /\ WithinThePasskeyLimit
  <2>1. \A e \in Emails : KeysOf(e) = {}
    BY <1>5 DEF KeysOf
  <2>2. MaxPasskeys \in Nat
    BY AccountsAssumption
  <2> QED
    BY <2>1, <2>2, FS_EmptySet DEF FinitelyManyKeys, WithinThePasskeyLimit
<1>10. AdminsGuarded
  BY <1>3, <1>4 DEF AdminsGuarded, GuardedAlone
<1> QED
  BY <1>6, <1>7, <1>8, <1>9, <1>10 DEF AccountsInv

LEMMA StepInv == AccountsInv /\ [Next]_vars => AccountsInv'
<1> SUFFICES ASSUME AccountsInv, [Next]_vars PROVE AccountsInv'
  OBVIOUS
<1>1. CASE Next
  <2>1. PICK r \in Requests :
          \/ Reads(r) \/ Passkeys(r) \/ LockAdmins(r) \/ WriteAccount(r)
          \/ WriteDelete(r) \/ WriteInsert(r) \/ Commit(r) \/ Fail(r)
    BY <1>1 DEF Next
  <2>2. CASE Reads(r)
    BY <2>2, ReadsKeep
  <2>3. CASE Passkeys(r)
    <3>1. CASE Mint(r)
      BY <3>1, RefuseKeeps DEF Mint
    <3> QED
      BY <2>3, <3>1, KeyReadsKeep, ReadAccountKeeps, LockRegisterKeeps,
         LockSignInKeeps, WriteKeyKeeps, WriteRemoveKeeps DEF Passkeys
  <2>4. CASE LockAdmins(r)
    BY <2>4, LockAdminsKeeps
  <2>5. CASE WriteAccount(r) \/ WriteDelete(r) \/ WriteInsert(r)
    BY <2>5, WriteAccountKeeps, WriteDeleteKeeps, WriteInsertKeeps
  <2>6. CASE Commit(r)
    BY <2>6, CommitKeeps
  <2>7. CASE Fail(r)
    BY <2>7, RefuseKeeps DEF Fail
  <2> QED
    BY <2>1, <2>2, <2>3, <2>4, <2>5, <2>6, <2>7
<1>2. CASE UNCHANGED vars
  <2> USE <1>2 DEF vars
  <2>1. TypeOK'
    BY DEF AccountsInv, TypeOK
  <2>2. RequestsOK'
    <3>1. Quiet
      BY DEF Quiet
    <3>2. ASSUME NEW p \in Requests, req[p] # Free
          PROVE  /\ WellFormed(req[p])' /\ LocksHeld(req[p])'
                 /\ Stands(req[p])' /\ SeenIsPast(req[p])'
                 /\ SignsInWithHisKey(req[p])'
      <4>1. req'[p] = req[p]
        OBVIOUS
      <4>2. /\ WellFormed(req'[p]) /\ LocksHeld(req'[p]) /\ Stands(req'[p])
            /\ SeenIsPast(req'[p]) /\ SignsInWithHisKey(req'[p])
        BY <3>2, <4>1 DEF AccountsInv, RequestsOK
      <4> QED
        BY <3>1, <4>2, QuietRequest
    <3> QED
      BY <3>2 DEF AccountsInv, RequestsOK
  <2>3. Exclusive' /\ NewKeys'
    BY DEF AccountsInv, Exclusive, NewKeys
  <2>4. History' /\ ClearedKeysStayGone'
    BY DEF AccountsInv, History, RowsStarted, EndedIsPast, ClearedEnded,
           ClearedKeysStayGone
  <2>5. FinitelyManyKeys' /\ WithinThePasskeyLimit'
    BY DEF AccountsInv, FinitelyManyKeys, WithinThePasskeyLimit, KeysOf
  <2>6. AdminsGuarded'
    BY DEF AccountsInv, AdminsGuarded, AnEnabledAdminRemains, GuardedAlone,
           Guarding, Populated, SomeAccount, HoldsAnAdmin, LeavesAnother,
           EnabledAdmins
  <2> QED
    BY <2>1, <2>2, <2>3, <2>4, <2>5, <2>6 DEF AccountsInv
<1> QED
  BY <1>1, <1>2

LEMMA AccountsInvariant == Spec => []AccountsInv
BY InitInv, StepInv, PTL DEF Spec

-----------------------------------------------------------------------------
(* What it gives.                                                          *)

\* Every variable has its shape, and a lock is held only in a transaction.
THEOREM TypeCorrect == Spec => []TypeOK
<1>1. AccountsInv => TypeOK
  BY DEF AccountsInv
<1> QED
  BY <1>1, AccountsInvariant, PTL

\* guardLastAdmin and the store's FOR UPDATE: however many requests demote,
\* disable and delete admins at once, the registry keeps an enabled one, but
\* for a delete whose row became an admin's after it was read.
THEOREM LastAdminIsGuarded ==
    Spec => []OnlyAMisjudgedDeleteTakesTheLastAdmin
<1>1. AccountsInv => OnlyAMisjudgedDeleteTakesTheLastAdmin
  BY DEF AccountsInv, AdminsGuarded, OnlyAMisjudgedDeleteTakesTheLastAdmin
<1> QED
  BY <1>1, AccountsInvariant, PTL

\* storedAccountAllows: no interleaving of writes brings a session version
\* back once a write ended it.
THEOREM EndedSessionsStayEnded == Spec => []EndedStaysEnded
<1>1. AccountsInv => EndedStaysEnded
  <2> SUFFICES ASSUME AccountsInv, NEW e \in Emails, rows[e] # NoRow
               PROVE  <<e, rows[e].sv>> \notin ended
    BY DEF EndedStaysEnded
  <2>1. rows[e] \in Row
    BY DEF AccountsInv, TypeOK
  <2>2. rows[e].sv[2] \in Nat
    BY <2>1, RowFacts, VersionFacts
  <2>3. SUFFICES ASSUME <<e, rows[e].sv>> \in ended PROVE FALSE
    OBVIOUS
  <2>4. rows[e].sv[2] < rows[e].sv[2]
    BY <2>3 DEF AccountsInv, History, EndedIsPast
  <2> QED
    BY <2>2, <2>4
<1> QED
  BY <1>1, AccountsInvariant, PTL

\* docs/PASSKEYS.md: cleared keys, and the keys of a deleted account, never
\* come back, not by a registration that was under way.
THEOREM KeysStayCleared == Spec => []ClearedKeysStayGone
<1>1. AccountsInv => ClearedKeysStayGone
  BY DEF AccountsInv
<1> QED
  BY <1>1, AccountsInvariant, PTL

\* insertPasskey: the count and the insert under one row lock keep every
\* account within the limit, however many registrations run at once.
THEOREM PasskeysAreLimited == Spec => []WithinThePasskeyLimit
<1>1. AccountsInv => WithinThePasskeyLimit
  BY DEF AccountsInv
<1> QED
  BY <1>1, AccountsInvariant, PTL

-----------------------------------------------------------------------------
(* What a commit may do to the rows, and what it answers.                  *)

\* Whatever a request does before its commit, the tables stay as they are, the
\* other requests too, and one that has written can only be rolled back.
Pending(r) ==
    /\ Quiet
    /\ \A p \in Requests \ {r} : req'[p] = req[p]
    /\ req[r] # Free /\ req[r].at = "written" => req'[r] = Free

LEMMA StartIsPending ==
    ASSUME AccountsInv, NEW r \in Requests,
           NEW op, NEW e, NEW patch, NEW key, Start(r, op, e, patch, key)
    PROVE  Pending(r)
BY DEF Start, Pending, Quiet, AccountsInv, RequestsOK

LEMMA RefuseIsPending ==
    ASSUME AccountsInv, NEW r \in Requests, Refuse(r)
    PROVE  Pending(r)
BY DEF Refuse, Pending, Quiet, AccountsInv, RequestsOK

LEMMA ReadyIsNotWritten ==
    ASSUME NEW r \in Requests, NEW ops, ReadyToWrite(r, ops)
    PROVE  req[r] # Free /\ req[r].at # "written"
BY DEF ReadyToWrite

LEMMA WroteIsPending ==
    ASSUME AccountsInv, NEW r \in Requests, NEW gone, Wrote(r, gone),
           req[r].at # "written"
    PROVE  Pending(r)
BY DEF Wrote, Pending, Quiet, AccountsInv, RequestsOK

LEMMA OnlyACommitWrites ==
    ASSUME AccountsInv, NEW r \in Requests,
           \/ Reads(r) \/ Passkeys(r) \/ LockAdmins(r) \/ WriteAccount(r)
           \/ WriteDelete(r) \/ WriteInsert(r) \/ Fail(r)
    PROVE  Pending(r)
<1>1. CASE Reads(r)
  BY <1>1, StartIsPending
  DEF Reads, ReadChange, ReadDelete, ReadCreate, ReadOwn, ReadSeed, ReadReset
<1>2. CASE Passkeys(r)
  <2>1. CASE \/ \E e \in Emails, k \in KeyIds : ReadRegister(r, e, k)
             \/ \E k \in KeyIds : ReadRemove(r, k) \/ FindPasskey(r, k)
    BY <2>1, StartIsPending DEF ReadRegister, ReadRemove, FindPasskey
  <2>2. CASE ReadAccount(r)
    BY <2>2 DEF ReadAccount, Pending, Quiet, AccountsInv, RequestsOK
  <2>3. CASE LockRegister(r)
    BY <2>3, RefuseIsPending
    DEF LockRegister, Pending, Quiet, AccountsInv, RequestsOK
  <2>4. CASE WriteRegister(r)
    BY <2>4, RefuseIsPending
    DEF WriteRegister, Pending, Quiet, AccountsInv, RequestsOK
  <2>5. CASE LockSignIn(r)
    BY <2>5, RefuseIsPending
    DEF LockSignIn, Pending, Quiet, AccountsInv, RequestsOK
  <2>6. CASE WriteSignIn(r)
    BY <2>6, RefuseIsPending
    DEF WriteSignIn, Pending, Quiet, AccountsInv, RequestsOK
  <2>7. CASE Mint(r)
    BY <2>7, RefuseIsPending DEF Mint
  <2>8. CASE WriteRemove(r)
    BY <2>8, RefuseIsPending, WroteIsPending, ReadyIsNotWritten DEF WriteRemove
  <2> QED
    BY <1>2, <2>1, <2>2, <2>3, <2>4, <2>5, <2>6, <2>7, <2>8 DEF Passkeys
<1>3. CASE LockAdmins(r)
  BY <1>3 DEF LockAdmins, Pending, Quiet, AccountsInv, RequestsOK
<1>4. CASE WriteAccount(r)
  BY <1>4, RefuseIsPending, WroteIsPending, ReadyIsNotWritten DEF WriteAccount
<1>5. CASE WriteDelete(r)
  BY <1>5, RefuseIsPending, WroteIsPending, ReadyIsNotWritten DEF WriteDelete
<1>6. CASE WriteInsert(r)
  BY <1>6, RefuseIsPending, WroteIsPending, ReadyIsNotWritten DEF WriteInsert
<1>7. CASE Fail(r)
  BY <1>7, RefuseIsPending DEF Fail
<1> QED
  BY <1>1, <1>2, <1>3, <1>4, <1>5, <1>6, <1>7

\* So whoever moves on from what it wrote has committed it, or rolled it back.
LEMMA WrittenMovesOn ==
    ASSUME AccountsInv, [Next]_vars, NEW r \in Requests,
           req[r] # Free, req[r].at = "written", req'[r] # req[r]
    PROVE  Commit(r) \/ (Quiet /\ req'[r] = Free)
<1>1. CASE UNCHANGED vars
  BY <1>1 DEF vars
<1>2. CASE Next
  <2>1. PICK p \in Requests :
          \/ Reads(p) \/ Passkeys(p) \/ LockAdmins(p) \/ WriteAccount(p)
          \/ WriteDelete(p) \/ WriteInsert(p) \/ Commit(p) \/ Fail(p)
    BY <1>2 DEF Next
  <2>2. CASE Commit(p)
    <3>1. req' = [req EXCEPT ![p] = Answered(req[p])]
      BY <2>2 DEF Commit
    <3>2. p = r
      BY <3>1 DEF AccountsInv, RequestsOK
    <3> QED
      BY <2>2, <3>2
  <2>3. CASE ~Commit(p)
    <3>1. Pending(p)
      BY <2>1, <2>3, OnlyACommitWrites
    <3> QED
      BY <3>1 DEF Pending
  <2> QED
    BY <2>2, <2>3
<1> QED
  BY <1>1, <1>2

LEMMA CommitLosesNothing ==
    ASSUME AccountsInv, NEW r \in Requests, Commit(r),
           NEW was, was = rows[req[r].email], NEW now, now = rows'[req[r].email],
           was # NoRow, now # NoRow, now # was,
           NEW f \in {"role", "disabled", "totp"} \ Touches(req[r])
    PROVE  now[f] = was[f]
<1> DEFINE q == req[r]
<1>1. q \in Request /\ WellFormed(q)
  BY CommitFacts
<1>2. q.op \in Ops \ {"create", "delete", "register", "signIn"}
  BY <1>1, CommittedRowFacts DEF Request
<1>3. CASE q.op = "change"
  <2>1. was \in Row /\ q.patch \in Patches /\ was = q.seen
        /\ now = Changed(was, q.patch)
    BY <1>1, <1>3, CommittedRowFacts DEF WellFormed, AccountOps, Updated
  <2>2. f \notin DOMAIN q.patch
    BY <1>3 DEF Touches, OwnOps
  <2>3. f = "totp" => "clearTotp" \notin DOMAIN q.patch
    BY <1>3 DEF Touches, OwnOps
  <2>4. /\ now.role = Given(q.patch, "role", was.role)
        /\ now.disabled = Given(q.patch, "disabled", was.disabled)
        /\ "clearTotp" \notin DOMAIN q.patch => now.totp = was.totp
    <3> HIDE DEF q
    <3> QED
      BY <2>1, ChangedFacts
  <2> QED
    BY <2>2, <2>3, <2>4 DEF Given
<1>4. CASE q.op \in OwnOps
  <2>1. was \in Row /\ was = q.seen /\ now = Updated(q)
    BY <1>4, CommittedRowFacts DEF AccountOps
  <2>2. now = WithFactor(was, q.op)
    BY <1>4, <2>1 DEF Updated, OwnOps
  <2>3. f # "totp"
    BY <1>4 DEF Touches, OwnOps
  <2>4. now.role = was.role /\ now.disabled = was.disabled
    BY <1>4, <2>1, <2>2, WithFactorFacts
  <2> QED
    BY <2>3, <2>4
<1>5. CASE q.op = "remove"
  BY <1>5, CommittedRowFacts
<1>6. CASE q.op = "reset"
  BY <1>6 DEF Touches, OwnOps
<1> QED
  BY <1>2, <1>3, <1>4, <1>5, <1>6 DEF Ops, AccountOps

\* updateAccount's `expected`: no write puts back what another one changed
\* after the row was read; each alters what it was asked to, and no more.
THEOREM WritesLoseNothing == Spec => NoChangeIsLost
<1>1. AccountsInv /\ [Next]_vars =>
        \A r \in Requests :
          /\ req[r] # Free
          /\ rows'[req[r].email] # rows[req[r].email]
          /\ rows[req[r].email] # NoRow
          /\ rows'[req[r].email] # NoRow
          /\ req[r].at = "written"
          /\ req'[r] = Free
          => \A f \in {"role", "disabled", "totp"} \ Touches(req[r]) :
                rows'[req[r].email][f] = rows[req[r].email][f]
  <2> SUFFICES ASSUME AccountsInv, [Next]_vars, NEW r \in Requests,
                      req[r] # Free, req[r].at = "written", req'[r] = Free,
                      rows'[req[r].email] # rows[req[r].email],
                      rows[req[r].email] # NoRow, rows'[req[r].email] # NoRow,
                      NEW f \in {"role", "disabled", "totp"} \ Touches(req[r])
               PROVE  rows'[req[r].email][f] = rows[req[r].email][f]
    OBVIOUS
  <2>1. Commit(r)
    BY WrittenMovesOn DEF Quiet
  <2> QED
    BY <2>1, CommitLosesNothing
<1> QED
  BY <1>1, AccountsInvariant, PTL DEF Spec, NoChangeIsLost

\* recordPasskeySignIn and its FOR SHARE: the session that is minted is of the
\* account as it is when the sign-in commits, with a key that is still there.
THEOREM SignInsAreCurrent == Spec => SignInIsForTheAccountAsItIs
<1>1. AccountsInv /\ [Next]_vars =>
        \A r \in Requests :
          (/\ req[r] # Free
           /\ req[r].at = "written"
           /\ req'[r] # Free
           /\ req'[r].at = "answered")
          => AsSeen(req[r]) /\ keys[req[r].key] # NoKey
  <2> SUFFICES ASSUME AccountsInv, [Next]_vars, NEW r \in Requests,
                      req[r] # Free, req[r].at = "written", req'[r] # Free,
                      req'[r].at = "answered"
               PROVE  AsSeen(req[r]) /\ keys[req[r].key] # NoKey
    OBVIOUS
  <2>1. Commit(r)
    BY WrittenMovesOn
  <2>2. req'[r] = Answered(req[r])
    BY <2>1 DEF Commit, AccountsInv, RequestsOK
  <2>3. req[r].op = "signIn" /\ Stands(req[r])
    BY <2>1, <2>2, CommitFacts DEF Answered
  <2> QED
    BY <2>3 DEF Stands
<1> QED
  BY <1>1, AccountsInvariant, PTL DEF Spec, SignInIsForTheAccountAsItIs
=============================================================================
