------------------------------ MODULE Sessions -------------------------------
(***************************************************************************)
(* The sessions of one account in the PostgreSQL store                     *)
(* (server/internal/storage): sign-in, refresh-token rotation with reuse   *)
(* detection, and every transaction that revokes session families.  All of *)
(* these statements are scoped to one user_id, so one account is enough.   *)
(*                                                                         *)
(* A session family is the sequence of its generations, one row each.  A   *)
(* transaction runs at READ COMMITTED, one step per statement or per row   *)
(* that a statement has to wait for:                                       *)
(*                                                                         *)
(*  - its writes become visible, all at once, when it commits;             *)
(*  - a row it locked or updated is locked until then;                     *)
(*  - an UPDATE picks its rows from the snapshot taken when the statement  *)
(*    starts.  It waits for each row another transaction has locked and    *)
(*    then tests that row again, but rows committed after the snapshot are *)
(*    never among them;                                                    *)
(*  - an INSERT into sessions takes KEY SHARE on the users row through its *)
(*    foreign key (migration 0002).                                        *)
(***************************************************************************)
EXTENDS Integers, Sequences, FiniteSets

CONSTANTS
  Families,        \* the family ids gen_random_uuid can return
  Txs,             \* transactions that can be open at once
  NoFamily,        \* uuid.Nil
  MaxGenerations,  \* bound: generations of a family
  MayExpire,       \* whether refresh windows run out
  Operations       \* the operations that are run, out of AllOperations

AllOperations == {"CreateSession", "RotateSession", "RevokeFamily", "RevokeOtherFamilies",
                  "UpdatePassword", "ConsumePasswordReset", "UpdateUserAdmin"}

ASSUME SessionsAssumptions ==
  /\ NoFamily \notin Families
  /\ MaxGenerations \in Nat \ {0}
  /\ MayExpire \in BOOLEAN
  /\ Operations \subseteq AllOperations

VARIABLES
  rows,     \* per family: its committed generations, oldest first
  active,   \* users.is_active
  tx        \* per transaction: what it is doing and what it holds

\* History: families that existed when a reset or a deactivation committed.
VARIABLE ended

vars == <<rows, active, tx, ended>>

\* A row is spent once it was rotated: used_at is set and its access token is
\* retired.
Row   == [used : BOOLEAN, revoked : BOOLEAN, expired : BOOLEAN]
Fresh == [used |-> FALSE, revoked |-> FALSE, expired |-> FALSE]

RowIds == Families \X (1 .. MaxGenerations)

Exists(f) == rows[f] # <<>>
Newest(f) == rows[f][Len(rows[f])]
At(r)     == rows[r[1]][r[2]]

\* The locks PostgreSQL knows on the users row, weakest first: the foreign key
\* takes KEY SHARE, an UPDATE of no key column NO KEY UPDATE, lockAccount takes
\* FOR UPDATE.
LockModes == {"none", "key share", "no key update", "update"}

Conflicts(m, n) ==
  \/ m = "update" /\ n # "none"
  \/ n = "update" /\ m # "none"
  \/ m = "no key update" /\ n = "no key update"

\* What a transaction remembers between its statements.
Transaction ==
  [op     : {"none"} \cup AllOperations,
   pc     : {"idle", "lookup", "insert", "account", "snapshot", "sweep", "mint", "revoke"},
   fam    : Families \cup {NoFamily},   \* the family presented, named or kept
   gen    : Nat,                        \* the generation presented
   late   : BOOLEAN,       \* its window had closed when the transaction began
   active : BOOLEAN,       \* is_active as an admin's patch leaves it
   user   : LockModes,                  \* its lock on the users row
   locked : SUBSET (Families \X Nat),   \* the session rows it has locked
   todo   : SUBSET (Families \X Nat),   \* the rows its UPDATE has still to visit
   hits   : SUBSET (Families \X Nat)]   \* the rows its UPDATE has revoked

Idle ==
  [op |-> "none", pc |-> "idle", fam |-> NoFamily, gen |-> 0, late |-> FALSE,
   active |-> TRUE, user |-> "none", locked |-> {}, todo |-> {}, hits |-> {}]

Init ==
  /\ rows   = [f \in Families |-> <<>>]
  /\ active = TRUE
  /\ tx     = [t \in Txs |-> Idle]
  /\ ended  = {}

RowFree(t, r)  == \A o \in Txs \ {t} : r \notin tx[o].locked
UserFree(t, m) == \A o \in Txs \ {t} : ~Conflicts(m, tx[o].user)
-------------------------------------------------------------------------------
(* The beginning of each operation.                                        *)

Start(t, op, first) ==
  /\ tx[t] = Idle
  /\ op \in Operations
  /\ tx' = [tx EXCEPT ![t] = [first EXCEPT !.op = op]]
  /\ UNCHANGED <<rows, active, ended>>

\* Login and the single sign-on callback read the account, and refuse one that
\* is deactivated, before they ask for a session.
CreateSession(t) ==
  /\ active
  /\ \E f \in Families : ~Exists(f)
  /\ Start(t, "CreateSession", [Idle EXCEPT !.pc = "insert"])

\* A client presents the refresh token of any generation it ever received: one
\* whose answer got lost is presented again.  now() is the beginning of the
\* transaction, however long it waits for the row.
RotateSession(t, f, g) ==
  /\ g \in DOMAIN rows[f] /\ g < MaxGenerations
  /\ Start(t, "RotateSession",
           [Idle EXCEPT !.pc = "lookup", !.fam = f, !.gen = g, !.late = rows[f][g].expired])

\* RevokeFamily (logout), and RevokeUserFamily for a family of the caller.
RevokeFamily(t, f) ==
  /\ Exists(f)
  /\ Start(t, "RevokeFamily", [Idle EXCEPT !.pc = "snapshot", !.fam = f])

RevokeOtherFamilies(t, f) ==
  /\ Exists(f)
  /\ Start(t, "RevokeOtherFamilies", [Idle EXCEPT !.pc = "snapshot", !.fam = f])

UpdatePassword(t, f) ==
  /\ Exists(f)
  /\ Start(t, "UpdatePassword", [Idle EXCEPT !.pc = "account", !.fam = f])

\* With a live reset token.
ConsumePasswordReset(t) ==
  Start(t, "ConsumePasswordReset", [Idle EXCEPT !.pc = "account"])

UpdateUserAdmin(t, isActive) ==
  Start(t, "UpdateUserAdmin", [Idle EXCEPT !.pc = "account", !.active = isActive])
-------------------------------------------------------------------------------
(* The statements of the operations.                                       *)

Step(t, now) == tx' = [tx EXCEPT ![t] = now] /\ UNCHANGED <<rows, active, ended>>

\* RotateSession's switch, in the code's order: revoked, then used (a reuse,
\* which revokes the family), then expired.
Judge(t, row) ==
  IF row.revoked THEN Idle
  ELSE IF row.used THEN [tx[t] EXCEPT !.pc = "snapshot"]
  ELSE IF tx[t].late THEN Idle
  ELSE [tx[t] EXCEPT !.pc = "insert"]

\* Fault: the presented row is read without FOR UPDATE.
PresentWithoutLock(t) ==
  /\ tx[t].pc = "lookup"
  /\ Step(t, Judge(t, At(<<tx[t].fam, tx[t].gen>>)))

\* RotateSession's SELECT ... FOR UPDATE.
Present(t) ==
  /\ tx[t].pc = "lookup"
  /\ LET r    == <<tx[t].fam, tx[t].gen>>
         next == Judge(t, At(r))
     IN  /\ RowFree(t, r)
         /\ Step(t, IF next = Idle THEN Idle ELSE [next EXCEPT !.locked = {r}])

\* The INSERT of CreateSession and of RotateSession.
Insert(t) ==
  /\ tx[t].pc = "insert"
  /\ UserFree(t, "key share")
  /\ Step(t, [tx[t] EXCEPT !.pc = "mint", !.user = "key share"])

\* Fault: lockAccount asks for FOR NO KEY UPDATE.
AccountLockWeak(op) == "no key update"

\* UpdatePassword has only its UPDATE of the users row; the others call
\* lockAccount.
AccountLock(op) == IF op = "UpdatePassword" THEN "no key update" ELSE "update"

\* An admin's patch that leaves the account active revokes nothing.
Patches(t) == tx[t].op = "UpdateUserAdmin" /\ tx[t].active

\* A password reset and a deactivation end every session the account has.
EndsAll(t) == tx[t].op \in {"ConsumePasswordReset", "UpdateUserAdmin"} /\ ~Patches(t)

\* The statements on the users row.
LockAccount(t) ==
  /\ tx[t].pc = "account"
  /\ UserFree(t, AccountLock(tx[t].op))
  /\ Step(t, [tx[t] EXCEPT !.user = AccountLock(tx[t].op),
                           !.pc   = IF Patches(t) THEN "revoke" ELSE "snapshot"])

\* The families an UPDATE ... SET revoked_at is about.
Scope(t) ==
  CASE tx[t].op \in {"RotateSession", "RevokeFamily"}         -> {tx[t].fam}
    [] tx[t].op \in {"RevokeOtherFamilies", "UpdatePassword"} -> Families \ {tx[t].fam}
    [] OTHER                                                  -> Families

\* The UPDATE begins: the rows its WHERE clause selects.
Snapshot(t) ==
  /\ tx[t].pc = "snapshot"
  /\ Step(t, [tx[t] EXCEPT !.pc = "sweep",
                !.todo = {r \in Scope(t) \X (1 .. MaxGenerations) :
                            r[2] \in DOMAIN rows[r[1]] /\ ~At(r).revoked}])

\* One of them: wait until nobody else has it locked, then test it again.
Visit(t, r) ==
  /\ tx[t].pc = "sweep" /\ r \in tx[t].todo
  /\ RowFree(t, r)
  /\ Step(t, [tx[t] EXCEPT !.todo = @ \ {r}, !.locked = @ \cup {r},
                           !.hits = IF At(r).revoked THEN @ ELSE @ \cup {r}])

SweepDone(t) ==
  /\ tx[t].pc = "sweep" /\ tx[t].todo = {}
  /\ Step(t, [tx[t] EXCEPT !.pc = "revoke"])

\* A new session commits: the first generation of a fresh family, or the
\* presented row is spent and the next generation appended.
CommitMint(t) ==
  /\ tx[t].pc = "mint"
  /\ IF tx[t].op = "CreateSession"
       THEN \E f \in Families : ~Exists(f) /\ rows' = [rows EXCEPT ![f] = <<Fresh>>]
       ELSE rows' = [rows EXCEPT ![tx[t].fam] =
                       Append([@ EXCEPT ![tx[t].gen].used = TRUE], Fresh)]
  /\ tx' = [tx EXCEPT ![t] = Idle]
  /\ UNCHANGED <<active, ended>>

CommitRevoke(t) ==
  LET existing == {f \in Scope(t) : Exists(f)} IN
  /\ tx[t].pc = "revoke"
  /\ rows' = [f \in Families |->
                [g \in DOMAIN rows[f] |->
                   [rows[f][g] EXCEPT !.revoked = @ \/ <<f, g>> \in tx[t].hits]]]
  /\ active' = IF tx[t].op = "UpdateUserAdmin" THEN tx[t].active ELSE active
  /\ ended'  = IF EndsAll(t) THEN ended \cup existing ELSE ended
  /\ tx' = [tx EXCEPT ![t] = Idle]

\* A statement fails, a request is cancelled, the connection is lost, the
\* deadlock detector picks a victim, ErrLastAdmin: the transaction rolls back.
Abort(t) ==
  /\ tx[t] # Idle
  /\ Step(t, Idle)

\* Time passes the refresh_expires_at of a row.  An admin may shorten the
\* lifetime of new rows, so a newer row can expire first.
Expire(f, g) ==
  /\ MayExpire
  /\ g \in DOMAIN rows[f] /\ ~rows[f][g].expired
  /\ rows' = [rows EXCEPT ![f][g].expired = TRUE]
  /\ UNCHANGED <<active, tx, ended>>
-------------------------------------------------------------------------------
Begin(t) ==
  \/ CreateSession(t)
  \/ ConsumePasswordReset(t)
  \/ \E isActive \in BOOLEAN : UpdateUserAdmin(t, isActive)
  \/ \E f \in Families :
       \/ RevokeFamily(t, f) \/ RevokeOtherFamilies(t, f) \/ UpdatePassword(t, f)
       \/ \E g \in 1 .. MaxGenerations : RotateSession(t, f, g)

Run(t) ==
  \/ Present(t) \/ Insert(t) \/ LockAccount(t)
  \/ Snapshot(t) \/ SweepDone(t) \/ \E r \in RowIds : Visit(t, r)
  \/ CommitMint(t) \/ CommitRevoke(t) \/ Abort(t)

Next ==
  \/ \E t \in Txs : Begin(t) \/ Run(t)
  \/ \E f \in Families, g \in 1 .. MaxGenerations : Expire(f, g)

Spec == Init /\ [][Next]_vars
-------------------------------------------------------------------------------
(* What is read back.                                                      *)

\* Fault: the liveness test folded into the DISTINCT ON.
ListedByAnyGeneration(f) == \E g \in DOMAIN rows[f] : ~rows[f][g].revoked /\ ~rows[f][g].expired

\* ListSessionFamilies: the newest generation, and no other, is judged.
Listed(f) == Exists(f) /\ ~Newest(f).revoked /\ ~Newest(f).expired

\* The generations SessionUserByAccessHash accepts, until their access token
\* runs out.
Accepted(f) == {g \in DOMAIN rows[f] : ~rows[f][g].revoked /\ ~rows[f][g].used}

AllRevoked(f) == \A g \in DOMAIN rows[f] : rows[f][g].revoked
-------------------------------------------------------------------------------
(* Properties                                                              *)

\* The tables and the open transactions are well formed; only drawn family ids
\* have rows (insertSessionFamily).
TypeOK ==
  /\ rows \in [Families -> Seq(Row)]
  /\ active \in BOOLEAN
  /\ tx \in [Txs -> Transaction]
  /\ ended \subseteq Families

\* Rotation keeps one usable token per family: of all generations only the
\* newest can be unspent, however often and however concurrently the tokens of
\* a family are presented (RotateSession: "the first wins, the second sees a
\* used token").
OnlyNewestIsUnspent ==
  \A f \in Families : \A g \in DOMAIN rows[f] : rows[f][g].used <=> g < Len(rows[f])

\* No session of an account outlives a completed reset or a deactivation: once
\* such a transaction commits, every family that existed is revoked to the last
\* row, and no rotation that was under way adds one (passwordreset.go, "no
\* session survives a completed reset").
EndedStaysEnded == \A f \in ended : AllRevoked(f)

\* Judging the newest generation is right: a family is listed exactly when one
\* of its refresh tokens can still be rotated (ListSessionFamilies, which also
\* decides which sockets the gateway's sweep closes).
ListedIffRefreshable ==
  \A f \in Families :
    Listed(f) <=> \E g \in Accepted(f) : ~rows[f][g].expired

\* A family that is off the list because it was revoked never comes back.
RevokedIsFinal ==
  [][\A f \in Families :
       (Exists(f) /\ Newest(f).revoked) => (Newest(f).revoked)']_vars
===============================================================================
