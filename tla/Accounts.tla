------------------------------ MODULE Accounts ------------------------------
(***************************************************************************)
(* The account registry of a server store: lib/local-accounts.ts decides   *)
(* what a row becomes from a row it read earlier, the Postgres provider    *)
(* writes it in a transaction (READ COMMITTED, with the row locks each     *)
(* statement takes), and lib/passkey registers, removes and signs in with  *)
(* the keys of an account.                                                 *)
(*                                                                         *)
(* A request reads, waits (a password hash, a WebAuthn check), and then    *)
(* runs its transaction: it may first lock rows, it writes, and it commits.*)
(* Requests of several processes interleave at each of these points.       *)
(***************************************************************************)
EXTENDS Naturals, FiniteSets

CONSTANTS Emails, Requests, KeyIds, MaxPasskeys,
          EnvAdmin,     \* ADMIN_EMAIL
          Patches,      \* the bodies of PATCH /api/admin/accounts/[email]
          NoRow, NoKey, Free,
          MaxCommits    \* bound: transactions that commit

ASSUME AccountsAssumption ==
    /\ EnvAdmin \in Emails
    /\ MaxPasskeys \in Nat \ {0}
    /\ MaxCommits \in Nat

VARIABLES
    rows,       \* the accounts table, as committed
    keys,       \* passkey_credentials, as committed
    req,        \* each request in flight
    seeds,      \* rows inserted so far: each starts at a session version of
                \* its own (initialSessionVersion is random in 2^30)
    commits,
    ended,      \* history: <<email, version>> whose sessions a write ended
    cleared,    \* history: <<email, version>> at which keys were cleared
    misjudged   \* history: an unguarded delete removed an enabled admin

vars == <<rows, keys, req, seeds, commits, ended, cleared, misjudged>>

Roles == {"admin", "user"}
Factors == {"none", "pending", "on"}
OwnOps == {"beginTotp", "confirmTotp", "clearTotp"}
Versions == Nat \X Nat
Row == [role : Roles, disabled : BOOLEAN, totp : Factors,
        sv : Versions, updatedAt : Nat]
Key == [email : Emails, sv : Versions]

\* What is absent is no value of its kind; a patch that names a field names a
\* value of it (readPatch).
ASSUME NamesAssumption ==
    /\ NoRow \notin Row
    /\ NoKey \notin KeyIds
    /\ \A patch \in Patches :
          /\ "role" \in DOMAIN patch => patch["role"] \in Roles
          /\ "disabled" \in DOMAIN patch => patch["disabled"] \in BOOLEAN

FreshRow(role) ==
    [role |-> role, disabled |-> FALSE, totp |-> "none",
     sv |-> <<seeds, 0>>, updatedAt |-> 0]

Enabled(e) == rows[e] # NoRow /\ ~rows[e].disabled

IsEnabledAdmin(row) == row # NoRow /\ row.role = "admin" /\ ~row.disabled

EnabledAdmins == {e \in Emails : IsEnabledAdmin(rows[e])}

KeysOf(e) == {k \in KeyIds : keys[k] # NoKey /\ keys[k].email = e}

Bump(sv) == <<sv[1], sv[2] + 1>>

\* A lock on row e that another transaction holds: an exclusive one (FOR
\* UPDATE, or a write) or a shared one (FOR SHARE).
HeldByOther(r, e) ==
    \E q \in Requests \ {r} : req[q] # Free /\ e \in req[q].locks

HeldExclusively(r, e) ==
    \E q \in Requests \ {r} :
        req[q] # Free /\ e \in req[q].locks /\ req[q].op # "signIn"

-----------------------------------------------------------------------------
(***************************************************************************)
(* What a write turns the row it read into.                                *)
(***************************************************************************)
Given(patch, field, default) ==
    IF field \in DOMAIN patch THEN patch[field] ELSE default

\* A password set is a recovery: it removes the keys unless told to keep them.
Clears(patch) ==
    \/ "clearPasskeys" \in DOMAIN patch
    \/ "password" \in DOMAIN patch /\ "keepPasskeys" \notin DOMAIN patch

\* The changes that take from a session what it was issued for.
EndsSessions(row, patch) ==
    \/ Given(patch, "role", row.role) # row.role
    \/ Given(patch, "disabled", row.disabled) /\ ~row.disabled
    \/ "password" \in DOMAIN patch
    \/ Clears(patch)

NextVersionKept(row, patch) ==
    IF EndsSessions(row, patch) /\ ~Clears(patch)
    THEN Bump(row.sv) ELSE row.sv

NextVersion(row, patch) ==
    IF EndsSessions(row, patch) THEN Bump(row.sv) ELSE row.sv

Changed(row, patch) ==
    [row EXCEPT !.role = Given(patch, "role", @),
                !.disabled = Given(patch, "disabled", @),
                !.totp = IF "clearTotp" \in DOMAIN patch THEN "none" ELSE @,
                !.sv = NextVersion(row, patch),
                !.updatedAt = @ + 1]

OwnFactor(op) ==
    CASE op = "beginTotp" -> "pending"
      [] op = "confirmTotp" -> "on"
      [] op = "clearTotp" -> "none"

WithFactor(row, op) ==
    [row EXCEPT !.totp = OwnFactor(op), !.updatedAt = @ + 1]

ResetRow(row) ==
    [row EXCEPT !.role = "admin", !.disabled = FALSE, !.totp = "none",
                !.sv = Bump(@), !.updatedAt = @ + 1]

Updated(q) ==
    CASE q.op = "change" -> Changed(q.seen, q.patch)
      [] q.op = "reset" -> ResetRow(q.seen)
      [] OTHER -> WithFactor(q.seen, q.op)

ClearsKeys(q) == q.op = "reset" \/ (q.op = "change" /\ Clears(q.patch))

\* keepEnabledAdmin: decided from the row that was read.
KeepsAdmin(q) ==
    \/ /\ q.op = "change"
       /\ IsEnabledAdmin(q.seen)
       /\ ~IsEnabledAdmin(Changed(q.seen, q.patch))
    \/ q.op = "delete" /\ IsEnabledAdmin(q.seen)

-----------------------------------------------------------------------------
(***************************************************************************)
(* A request starts: the session guard, and the read it decides from.      *)
(***************************************************************************)
Start(r, op, e, patch, key) ==
    /\ req[r] = Free
    /\ commits < MaxCommits
    /\ req' = [req EXCEPT ![r] =
          [at |-> "read", op |-> op, email |-> e, seen |-> rows[e],
           patch |-> patch, key |-> key, locks |-> {}, gone |-> {}]]
    /\ UNCHANGED <<rows, keys, seeds, commits, ended, cleared, misjudged>>

\* PATCH, DELETE and POST of /api/admin/accounts. The route guard has found
\* an enabled admin's session; what became of that admin since is not read.
ReadChange(r, e, patch) ==
    /\ rows[e] # NoRow
    /\ Start(r, "change", e, patch, NoKey)

ReadDelete(r, e) ==
    /\ rows[e] # NoRow
    /\ Start(r, "delete", e, <<>>, NoKey)

ReadCreate(r, e, role) ==
    /\ \E other \in Emails : rows[other] # NoRow
    /\ rows[e] = NoRow
    /\ Start(r, "create", e, [role |-> role], NoKey)

\* seedAccountsIfEmpty, and a process that starts with ADMIN_PASSWORD_RESET.
ReadSeed(r) ==
    /\ \A e \in Emails : rows[e] = NoRow
    /\ Start(r, "create", EnvAdmin, [role |-> "admin"], NoKey)

ReadReset(r) ==
    LET op == IF rows[EnvAdmin] = NoRow THEN "create" ELSE "reset"
    IN  Start(r, op, EnvAdmin, [role |-> "admin"], NoKey)

\* The account's own session, found valid before the row is read.
ReadOwn(r, e, op) ==
    /\ rows[e] # NoRow
    /\ op = "beginTotp" => rows[e].totp # "on"
    /\ op = "confirmTotp" => rows[e].totp = "pending"
    /\ Start(r, op, e, <<>>, NoKey)

\* The session's version is what the two key writes are conditioned on.
ReadRegister(r, e, k) ==
    /\ Enabled(e)
    /\ keys[k] = NoKey
    /\ \A q \in Requests : req[q] # Free => req[q].key # k
    /\ Start(r, "register", e, <<>>, k)

ReadRemove(r, k) ==
    /\ keys[k] # NoKey
    /\ Enabled(keys[k].email)
    /\ Start(r, "remove", keys[k].email, <<>>, k)

\* findPasskey, then (ReadAccount) the account it names.
FindPasskey(r, k) ==
    /\ keys[k] # NoKey
    /\ Start(r, "signIn", keys[k].email, <<>>, k)

ReadAccount(r) ==
    /\ req[r] # Free
    /\ req[r].op = "signIn"
    /\ req[r].at = "read"
    /\ req' = IF Enabled(req[r].email)
              THEN [req EXCEPT ![r].at = "checked",
                               ![r].seen = rows[req[r].email]]
              ELSE [req EXCEPT ![r] = Free]
    /\ UNCHANGED <<rows, keys, seeds, commits, ended, cleared, misjudged>>

-----------------------------------------------------------------------------
(***************************************************************************)
(* The transaction: the statement that locks, the write, the commit. A     *)
(* write is seen by the others only when it commits; a statement that      *)
(* meets a locked row waits. A refused write rolls back (Refuse).          *)
(***************************************************************************)
Refuse(r) ==
    /\ req' = [req EXCEPT ![r] = Free]
    /\ UNCHANGED <<rows, keys, seeds, commits, ended, cleared, misjudged>>

AdminLocksNone == {}

\* SELECT ... WHERE role = 'admin' AND disabled = 0 ORDER BY email FOR UPDATE
AdminLocks == EnabledAdmins

LockAdmins(r) ==
    /\ req[r] # Free
    /\ req[r].at = "read"
    /\ KeepsAdmin(req[r])
    /\ \A e \in EnabledAdmins : ~HeldByOther(r, e)
    /\ req' = [req EXCEPT ![r].at = "locked", ![r].locks = AdminLocks]
    /\ UNCHANGED <<rows, keys, seeds, commits, ended, cleared, misjudged>>

RegisterLocksNone(e) == {}

\* insertPasskey's SELECT ... FOR UPDATE of the account row.
RegisterLocks(e) == {e}

RegistrableAny(q) == rows[q.email] # NoRow

Registrable(q) == rows[q.email] # NoRow /\ rows[q.email].sv = q.seen.sv

LockRegister(r) ==
    /\ req[r] # Free
    /\ req[r].at = "read"
    /\ req[r].op = "register"
    /\ ~HeldByOther(r, req[r].email)
    /\ IF Registrable(req[r])
       THEN /\ req' = [req EXCEPT ![r].at = "locked",
                                  ![r].locks = RegisterLocks(req[r].email)]
            /\ UNCHANGED <<rows, keys, seeds, commits, ended, cleared,
                           misjudged>>
       ELSE Refuse(r)

SignInLocksNone(e) == {}

\* recordPasskeySignIn's SELECT ... FOR SHARE and its check of the account.
SignInLocks(e) == {e}

AsSeen(q) ==
    /\ Enabled(q.email)
    /\ rows[q.email].role = q.seen.role
    /\ rows[q.email].sv = q.seen.sv

LockSignIn(r) ==
    /\ req[r] # Free
    /\ req[r].at = "checked"
    /\ ~HeldExclusively(r, req[r].email)
    /\ IF AsSeen(req[r])
       THEN /\ req' = [req EXCEPT ![r].at = "locked",
                                  ![r].locks = SignInLocks(req[r].email)]
            /\ UNCHANGED <<rows, keys, seeds, commits, ended, cleared,
                           misjudged>>
       ELSE Refuse(r)

\* The write is made: its row stays locked until the transaction ends.
Wrote(r, gone) ==
    /\ req' = [req EXCEPT ![r].at = "written",
                          ![r].locks = @ \cup {req[r].email},
                          ![r].gone = gone]
    /\ UNCHANGED <<rows, keys, seeds, commits, ended, cleared, misjudged>>

\* The statement can run: the lock it needs first is held, its row is free.
ReadyToWrite(r, ops) ==
    /\ req[r] # Free
    /\ req[r].op \in ops
    /\ req[r].at = IF KeepsAdmin(req[r]) THEN "locked" ELSE "read"
    /\ ~HeldByOther(r, req[r].email)

\* The count a guarded transaction ends with: what is committed, and its own.
LeavesNoAdmin(q) ==
    /\ KeepsAdmin(q)
    /\ EnabledAdmins \ {q.email} = {}
    /\ q.op = "delete" \/ ~IsEnabledAdmin(Updated(q))

UnchangedNever(q) == rows[q.email] # NoRow

UnchangedVersion(q) ==
    rows[q.email] # NoRow /\ rows[q.email].sv = q.seen.sv

\* WHERE email AND session_version AND updated_at are those of `expected`.
Unchanged(q) ==
    UnchangedVersion(q) /\ rows[q.email].updatedAt = q.seen.updatedAt

WriteAccount(r) ==
    /\ ReadyToWrite(r, {"change", "reset"} \cup OwnOps)
    /\ IF Unchanged(req[r]) /\ ~LeavesNoAdmin(req[r])
       THEN Wrote(r, IF ClearsKeys(req[r]) THEN KeysOf(req[r].email) ELSE {})
       ELSE Refuse(r)

\* The row goes whatever it has become, and its keys with it.
WriteDelete(r) ==
    /\ ReadyToWrite(r, {"delete"})
    /\ IF LeavesNoAdmin(req[r])
       THEN Refuse(r)
       ELSE Wrote(r, KeysOf(req[r].email))

WriteInsert(r) ==
    /\ ReadyToWrite(r, {"create"})
    /\ IF rows[req[r].email] = NoRow
       THEN Wrote(r, KeysOf(req[r].email))
       ELSE Refuse(r)

WithinLimitOrAt(e) == Cardinality(KeysOf(e)) <= MaxPasskeys

WithinLimit(e) == Cardinality(KeysOf(e)) < MaxPasskeys

\* The count and the insert of insertPasskey.
WriteRegister(r) ==
    /\ req[r] # Free
    /\ req[r].op = "register"
    /\ req[r].at = "locked"
    /\ IF WithinLimit(req[r].email)
       THEN /\ req' = [req EXCEPT ![r].at = "written"]
            /\ UNCHANGED <<rows, keys, seeds, commits, ended, cleared,
                           misjudged>>
       ELSE Refuse(r)

\* deletePasskey conditions on the session's version, not on updated_at.
WriteRemove(r) ==
    /\ ReadyToWrite(r, {"remove"})
    /\ IF /\ UnchangedVersion(req[r])
          /\ req[r].key \in KeysOf(req[r].email)
       THEN Wrote(r, {req[r].key})
       ELSE Refuse(r)

\* The guarded update of the key's counter.
WriteSignIn(r) ==
    /\ req[r] # Free
    /\ req[r].op = "signIn"
    /\ req[r].at = "locked"
    /\ IF keys[req[r].key] # NoKey
       THEN /\ req' = [req EXCEPT ![r].at = "written"]
            /\ UNCHANGED <<rows, keys, seeds, commits, ended, cleared,
                           misjudged>>
       ELSE Refuse(r)

-----------------------------------------------------------------------------
CommittedRow(q) ==
    CASE q.op \in {"change", "reset"} \cup OwnOps -> Updated(q)
      [] q.op = "delete" -> NoRow
      [] q.op = "create" -> FreshRow(q.patch.role)
      [] q.op = "remove" ->
            [rows[q.email] EXCEPT !.sv = Bump(q.seen.sv),
                                  !.updatedAt = @ + 1]
      [] OTHER -> rows[q.email]

CommittedKeysKept(q) ==
    [k \in KeyIds |->
        IF k = q.key /\ q.op = "register"
        THEN [email |-> q.email, sv |-> q.seen.sv]
        ELSE IF k \in q.gone /\ q.op # "delete" THEN NoKey
        ELSE keys[k]]

CommittedKeys(q) ==
    [k \in KeyIds |->
        IF k \in q.gone THEN NoKey
        ELSE IF k = q.key /\ q.op = "register"
        THEN [email |-> q.email, sv |-> q.seen.sv]
        ELSE keys[k]]

AnsweredHolding(q) ==
    IF q.op = "signIn" THEN [q EXCEPT !.at = "answered"] ELSE Free

\* A sign-in answers after its commit; any other request is done with it.
Answered(q) ==
    IF q.op = "signIn" THEN [q EXCEPT !.at = "answered", !.locks = {}]
    ELSE Free

\* Whether the write takes from the sessions of the row what they were for.
Revokes(q) ==
    \/ q.op \in {"delete", "reset", "remove"}
    \/ q.op = "change" /\ EndsSessions(rows[q.email], q.patch)

Commit(r) ==
    LET q == req[r]
        was == rows[q.email]
    IN  /\ q # Free
        /\ q.at = "written"
        /\ commits < MaxCommits
        /\ commits' = commits + 1
        /\ rows' = [rows EXCEPT ![q.email] = CommittedRow(q)]
        /\ keys' = CommittedKeys(q)
        /\ seeds' = IF q.op = "create" THEN seeds + 1 ELSE seeds
        /\ req' = [req EXCEPT ![r] = Answered(q)]
        /\ ended' = IF was # NoRow /\ Revokes(q)
                    THEN ended \cup {<<q.email, was.sv>>} ELSE ended
        /\ cleared' = IF was # NoRow /\ (q.op = "delete" \/ ClearsKeys(q))
                      THEN cleared \cup {<<q.email, was.sv>>} ELSE cleared
        /\ misjudged' =
              \/ misjudged
              \/ q.op = "delete" /\ ~KeepsAdmin(q) /\ IsEnabledAdmin(was)

\* The route mints the session of a passkey sign-in from the account it read.
Mint(r) ==
    /\ req[r] # Free
    /\ req[r].at = "answered"
    /\ Refuse(r)

\* A lost connection or a dying process: the transaction rolls back.
Fail(r) ==
    /\ req[r] # Free
    /\ req[r].at # "answered"
    /\ Refuse(r)

-----------------------------------------------------------------------------
Init ==
    /\ rows \in {[e \in Emails |->
                    [role |-> IF e = EnvAdmin THEN "admin" ELSE "user",
                     disabled |-> FALSE, totp |-> "none",
                     sv |-> <<0, 0>>, updatedAt |-> 0]],
                 [e \in Emails |-> NoRow]}
    /\ keys = [k \in KeyIds |-> NoKey]
    /\ req = [r \in Requests |-> Free]
    /\ seeds = 1
    /\ commits = 0
    /\ ended = {}
    /\ cleared = {}
    /\ misjudged = FALSE

Reads(r) ==
    \/ \E e \in Emails, patch \in Patches : ReadChange(r, e, patch)
    \/ \E e \in Emails : ReadDelete(r, e)
    \/ \E e \in Emails, role \in Roles : ReadCreate(r, e, role)
    \/ \E e \in Emails, op \in OwnOps : ReadOwn(r, e, op)
    \/ ReadSeed(r)
    \/ ReadReset(r)

Passkeys(r) ==
    \/ \E e \in Emails, k \in KeyIds : ReadRegister(r, e, k)
    \/ \E k \in KeyIds : ReadRemove(r, k) \/ FindPasskey(r, k)
    \/ ReadAccount(r)
    \/ LockRegister(r) \/ WriteRegister(r)
    \/ LockSignIn(r) \/ WriteSignIn(r) \/ Mint(r)
    \/ WriteRemove(r)

Next ==
    \E r \in Requests :
        \/ Reads(r)
        \/ Passkeys(r)
        \/ LockAdmins(r)
        \/ WriteAccount(r)
        \/ WriteDelete(r)
        \/ WriteInsert(r)
        \/ Commit(r)
        \/ Fail(r)

Spec == Init /\ [][Next]_vars

-----------------------------------------------------------------------------
(***************************************************************************)
(* Properties.                                                             *)
(***************************************************************************)
\* Every variable has the shape the code gives it, and a request in flight
\* holds a lock only inside its transaction.
TypeOK ==
    /\ rows \in [Emails -> Row \cup {NoRow}]
    /\ keys \in [KeyIds -> Key \cup {NoKey}]
    /\ seeds \in Nat \ {0}
    /\ commits \in 0..MaxCommits
    /\ ended \subseteq Emails \X Versions
    /\ cleared \subseteq Emails \X Versions
    /\ misjudged \in BOOLEAN
    /\ \A r \in Requests :
          req[r] = Free \/
          /\ req[r].at \in {"read", "checked", "locked", "written",
                            "answered"}
          /\ req[r].email \in Emails
          /\ req[r].seen \in Row \cup {NoRow}
          /\ req[r].key \in KeyIds \cup {NoKey}
          /\ req[r].locks \subseteq Emails
          /\ req[r].gone \subseteq KeyIds
          /\ req[r].locks # {} => req[r].at \in {"locked", "written"}

\* local-accounts.ts, guardLastAdmin: "the store decides 'an enabled admin
\* remains' inside the write's own transaction". A registry with accounts
\* has an enabled admin: no two requests, each removing one of the last
\* two, both go through.
AnEnabledAdminRemains ==
    (\E e \in Emails : rows[e] # NoRow) => EnabledAdmins # {}

\* The same, but for the one write that is not guarded by what the row is:
\* a delete whose row became an enabled admin's after it was read.
OnlyAMisjudgedDeleteTakesTheLastAdmin ==
    misjudged \/ AnEnabledAdminRemains

\* storedAccountAllows: a session that a demotion, a disable, a password
\* set, a passkey removal or a delete ended never speaks for the account
\* again: not after a write that had read the old row, not after the
\* account is created again under the same email.
EndedStaysEnded ==
    \A e \in Emails :
        rows[e] # NoRow => <<e, rows[e].sv>> \notin ended

\* updateAccount's `expected`: "a write that read the row before another
\* change landed would put the old disabled and session version back". A
\* change alters nothing it was not asked to, whatever was committed since
\* the read.
Touches(q) ==
    CASE q.op = "change" ->
            (DOMAIN q.patch) \cup
            (IF "clearTotp" \in DOMAIN q.patch THEN {"totp"} ELSE {})
      [] q.op \in OwnOps -> {"totp"}
      [] q.op = "remove" -> {}
      [] OTHER -> {"role", "disabled", "totp"}

NoChangeIsLost ==
    [][\A r \in Requests :
         LET q == req[r]
         IN  /\ q # Free
             /\ rows'[q.email] # rows[q.email]
             /\ rows[q.email] # NoRow
             /\ rows'[q.email] # NoRow
             /\ q.at = "written"
             /\ req'[r] = Free
             => \A f \in {"role", "disabled", "totp"} \ Touches(q) :
                    rows'[q.email][f] = rows[q.email][f]]_vars

\* docs/PASSKEYS.md, recovery: once an account's keys are cleared, or the
\* account is deleted, no key of an earlier session is on it: not one whose
\* registration was under way, not one the next account of that email finds.
ClearedKeysStayGone ==
    \A k \in KeyIds :
        keys[k] # NoKey =>
            /\ rows[keys[k].email] # NoRow
            /\ keys[k].sv[1] = rows[keys[k].email].sv[1]
            /\ \A c \in cleared :
                  (c[1] = keys[k].email /\ c[2][1] = keys[k].sv[1])
                  => c[2][2] < keys[k].sv[2]

\* insertPasskey: the row lock is "what keeps two concurrent registrations
\* from both passing the limit".
WithinThePasskeyLimit ==
    \A e \in Emails : Cardinality(KeysOf(e)) <= MaxPasskeys

\* recordPasskeySignIn: "the session the route mints is the account as it
\* was here". When a sign-in commits, the account is enabled, at the role
\* and version the session will carry, and the key is still the account's.
SignInIsForTheAccountAsItIs ==
    [][\A r \in Requests :
         (/\ req[r] # Free
          /\ req[r].at = "written"
          /\ req'[r] # Free
          /\ req'[r].at = "answered")
         => AsSeen(req[r]) /\ keys[req[r].key] # NoKey]_vars
=============================================================================
