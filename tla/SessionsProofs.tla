---------------------------- MODULE SessionsProofs ----------------------------
(***************************************************************************)
(* For every number of families, generations and concurrent transactions:  *)
(* rotation leaves one unspent token per family, a revoked family stays    *)
(* revoked, and no session survives a sweep that holds the account lock;   *)
(* the sweep of the sockets closes none of a session that is good.         *)
(***************************************************************************)
EXTENDS SessionSockets, TLAPS

\* A rotation past its switch holds the newest generation, and that one is not
\* revoked.
Holds(x) ==
  /\ x.fam \in Families
  /\ x.gen \in Nat \ {0} /\ x.gen = Len(rows[x.fam]) /\ x.gen < MaxGenerations
  /\ <<x.fam, x.gen>> \in x.locked
  /\ ~rows[x.fam][x.gen].revoked

\* A sweep under lockAccount has missed no row.
Covers(x) ==
  \A f \in Families : \A g \in 1 .. Len(rows[f]) :
    rows[f][g].revoked \/ <<f, g>> \in x.todo \/ <<f, g>> \in x.hits

Sweeps(x) == ~(x.op = "UpdateUserAdmin" /\ x.active)

\* What is known of a transaction, by where it is.
TxOK(x) ==
  /\ x.pc = "lookup" => /\ x.op = "RotateSession" /\ x.fam \in Families
                        /\ x.gen \in 1 .. Len(rows[x.fam]) /\ x.gen < MaxGenerations
                        /\ x.hits = {} /\ x.user = "none"
  /\ x.op \in {"RotateSession", "RevokeFamily"} => x.fam \in Families
  /\ x.pc = "account" => x.op \in {"UpdatePassword", "ConsumePasswordReset", "UpdateUserAdmin"}
  /\ x.pc \in {"insert", "mint"} => x.op \in {"CreateSession", "RotateSession"}
  /\ x.pc = "mint" => x.user = "key share"
  /\ x.pc \in {"insert", "mint"} /\ x.op = "RotateSession" => Holds(x)
  /\ x.hits \subseteq x.locked
  /\ x.user = "update" => x.op \in {"ConsumePasswordReset", "UpdateUserAdmin"}
  /\ /\ x.op \in {"ConsumePasswordReset", "UpdateUserAdmin"}
     /\ x.pc \in {"snapshot", "sweep", "revoke"}
     => x.user = "update"
  /\ x.user = "update" /\ x.pc \in {"sweep", "revoke"} /\ Sweeps(x) => Covers(x)
  /\ x.pc = "revoke" /\ Sweeps(x) => x.todo = {}

\* The locks of two transactions go together.
Compatible(x, y) == x.locked \cap y.locked = {} /\ ~Conflicts(x.user, y.user)

Generations == \A f \in Families : Len(rows[f]) <= MaxGenerations

Exclusive == \A t, o \in Txs : t # o => Compatible(tx[t], tx[o])

EndedExist == \A f \in ended : Exists(f)

IInv ==
  /\ TypeOK /\ Generations
  /\ OnlyNewestIsUnspent
  /\ Exclusive
  /\ \A t \in Txs : TxOK(tx[t])
  /\ EndedExist /\ EndedStaysEnded
-------------------------------------------------------------------------------
\* The idle transaction knows and holds nothing.
LEMMA IdleOK ==
  /\ Idle \in Transaction /\ TxOK(Idle)
  /\ Idle.locked = {} /\ Idle.user = "none" /\ Idle.hits = {}
BY DEF Idle, Transaction, TxOK, LockModes

\* Nothing stands in the way of a transaction without locks.
LEMMA NoLocksCompatible ==
  ASSUME NEW x \in Transaction, NEW y \in Transaction, x.locked = {}, x.user = "none"
  PROVE  Compatible(x, y) /\ Compatible(y, x)
BY DEF Compatible, Conflicts, Transaction, LockModes

\* A family is a sequence of rows.
LEMMA RowsAre ==
  ASSUME TypeOK, NEW f \in Families
  PROVE  /\ rows[f] \in Seq(Row) /\ Len(rows[f]) \in Nat /\ DOMAIN rows[f] = 1 .. Len(rows[f])
         /\ \A g \in 1 .. Len(rows[f]) :
              /\ rows[f][g] \in Row
              /\ rows[f][g].used \in BOOLEAN /\ rows[f][g].revoked \in BOOLEAN
              /\ rows[f][g].expired \in BOOLEAN
<1>1. rows[f] \in Seq(Row)
  BY DEF TypeOK
<1>2. Len(rows[f]) \in Nat /\ DOMAIN rows[f] = 1 .. Len(rows[f])
  BY <1>1
<1>3. \A g \in 1 .. Len(rows[f]) : rows[f][g] \in Row
  BY <1>1
<1> QED BY <1>1, <1>2, <1>3 DEF Row

\* The states of the program begin in the invariant.
LEMMA InitIInv == Init => IInv
<1> SUFFICES ASSUME Init PROVE IInv
  OBVIOUS
<1>1. \A f \in Families : rows[f] = <<>> /\ rows[f] \in Seq(Row) /\ Len(rows[f]) = 0 /\ DOMAIN rows[f] = {}
  BY DEF Init
<1>2. \A t \in Txs : tx[t] = Idle
  BY DEF Init
<1>3. rows \in [Families -> Seq(Row)]
  BY <1>1 DEF Init
<1>4. TypeOK
  BY <1>3, IdleOK DEF Init, TypeOK
<1>5. Generations
  BY <1>1, SessionsAssumptions DEF Generations
<1>6. OnlyNewestIsUnspent
  BY <1>1 DEF OnlyNewestIsUnspent
<1>7. Exclusive
  BY <1>2, IdleOK, NoLocksCompatible DEF Exclusive
<1>8. EndedExist /\ EndedStaysEnded
  BY DEF Init, EndedExist, EndedStaysEnded
<1> QED BY <1>2, <1>4, <1>5, <1>6, <1>7, <1>8, IdleOK DEF IInv

\* A step of one transaction that leaves the table alone keeps the invariant if
\* what it leaves behind is a transaction that knows the truth and whose locks
\* go with everybody else's.
LEMMA StepKeeps ==
  ASSUME IInv, NEW t \in Txs, NEW now, Step(t, now),
         now \in Transaction, TxOK(now),
         \A o \in Txs \ {t} : Compatible(now, tx[o]) /\ Compatible(tx[o], now)
  PROVE  IInv'
<1>1. /\ tx' = [tx EXCEPT ![t] = now] /\ rows' = rows /\ active' = active
      /\ ended' = ended
  BY DEF Step
<1>2. tx \in [Txs -> Transaction]
  BY DEF IInv, TypeOK
<1>3. tx'[t] = now /\ \A o \in Txs \ {t} : tx'[o] = tx[o]
  BY <1>1, <1>2
<1>4. TypeOK' /\ Generations' /\ OnlyNewestIsUnspent' /\ EndedExist' /\ EndedStaysEnded'
  BY <1>1, <1>2 DEF IInv, TypeOK, Generations, OnlyNewestIsUnspent, EndedExist,
     EndedStaysEnded, AllRevoked, Exists
<1>5. Exclusive'
  BY <1>3 DEF IInv, Exclusive, Compatible
<1>6. ASSUME NEW o \in Txs PROVE TxOK(tx[o])'
  <2>1. tx'[o] = now \/ tx'[o] = tx[o]
    BY <1>3
  <2>2. TxOK(tx[o])
    BY DEF IInv
  <2>3. CASE tx'[o] = now
    BY <1>1, <2>3 DEF TxOK, Holds, Covers, Sweeps
  <2>4. CASE tx'[o] = tx[o]
    BY <1>1, <2>2, <2>4 DEF TxOK, Holds, Covers, Sweeps
  <2> QED BY <2>1, <2>3, <2>4
<1> QED BY <1>4, <1>5, <1>6 DEF IInv

\* The beginning of an operation holds no lock, so it keeps the invariant.
LEMMA StartKeeps ==
  ASSUME IInv, NEW t \in Txs, NEW op, NEW first, Start(t, op, first),
         [first EXCEPT !.op = op] \in Transaction,
         TxOK([first EXCEPT !.op = op]),
         [first EXCEPT !.op = op].locked = {}, [first EXCEPT !.op = op].user = "none"
  PROVE  IInv'
<1>1. Step(t, [first EXCEPT !.op = op])
  BY DEF Start, Step
<1>2. \A o \in Txs : tx[o] \in Transaction
  BY DEF IInv, TypeOK
<1> QED BY <1>1, <1>2, StepKeeps, NoLocksCompatible

\* Every operation begins well.
LEMMA BeginKeeps ==
  ASSUME IInv, NEW t \in Txs, Begin(t)
  PROVE  IInv'
<1> USE DEF Idle, Transaction, LockModes, AllOperations
<1>1. CASE CreateSession(t)
  <2>1. PICK now : now = [[Idle EXCEPT !.pc = "insert"] EXCEPT !.op = "CreateSession"]
    OBVIOUS
  <2>2. now \in Transaction /\ TxOK(now) /\ now.locked = {} /\ now.user = "none"
    BY <2>1 DEF TxOK
  <2> QED BY <1>1, <2>1, <2>2, StartKeeps DEF CreateSession
<1>2. CASE ConsumePasswordReset(t)
  <2>1. PICK now : now = [[Idle EXCEPT !.pc = "account"] EXCEPT !.op = "ConsumePasswordReset"]
    OBVIOUS
  <2>2. now \in Transaction /\ TxOK(now) /\ now.locked = {} /\ now.user = "none"
    BY <2>1 DEF TxOK
  <2> QED BY <1>2, <2>1, <2>2, StartKeeps DEF ConsumePasswordReset
<1>3. ASSUME NEW isActive \in BOOLEAN, UpdateUserAdmin(t, isActive) PROVE IInv'
  <2>1. PICK now : now = [[Idle EXCEPT !.pc = "account", !.active = isActive]
                            EXCEPT !.op = "UpdateUserAdmin"]
    OBVIOUS
  <2>2. now \in Transaction /\ TxOK(now) /\ now.locked = {} /\ now.user = "none"
    BY <2>1 DEF TxOK
  <2> QED BY <1>3, <2>1, <2>2, StartKeeps DEF UpdateUserAdmin
<1>4. ASSUME NEW f \in Families, RevokeFamily(t, f) PROVE IInv'
  <2>1. PICK now : now = [[Idle EXCEPT !.pc = "snapshot", !.fam = f] EXCEPT !.op = "RevokeFamily"]
    OBVIOUS
  <2>2. now \in Transaction /\ TxOK(now) /\ now.locked = {} /\ now.user = "none"
    BY <2>1 DEF TxOK
  <2> QED BY <1>4, <2>1, <2>2, StartKeeps DEF RevokeFamily
<1>5. ASSUME NEW f \in Families, RevokeOtherFamilies(t, f) PROVE IInv'
  <2>1. PICK now : now = [[Idle EXCEPT !.pc = "snapshot", !.fam = f]
                            EXCEPT !.op = "RevokeOtherFamilies"]
    OBVIOUS
  <2>2. now \in Transaction /\ TxOK(now) /\ now.locked = {} /\ now.user = "none"
    BY <2>1 DEF TxOK
  <2> QED BY <1>5, <2>1, <2>2, StartKeeps DEF RevokeOtherFamilies
<1>6. ASSUME NEW f \in Families, UpdatePassword(t, f) PROVE IInv'
  <2>1. PICK now : now = [[Idle EXCEPT !.pc = "account", !.fam = f] EXCEPT !.op = "UpdatePassword"]
    OBVIOUS
  <2>2. now \in Transaction /\ TxOK(now) /\ now.locked = {} /\ now.user = "none"
    BY <2>1 DEF TxOK
  <2> QED BY <1>6, <2>1, <2>2, StartKeeps DEF UpdatePassword
<1>7. ASSUME NEW f \in Families, NEW g \in 1 .. MaxGenerations, RotateSession(t, f, g)
      PROVE  IInv'
  <2>1. PICK now : now = [[Idle EXCEPT !.pc = "lookup", !.fam = f, !.gen = g,
                                       !.late = rows[f][g].expired] EXCEPT !.op = "RotateSession"]
    OBVIOUS
  <2>2. Len(rows[f]) \in Nat /\ g \in 1 .. Len(rows[f])
    BY <1>7, RowsAre DEF RotateSession, IInv
  <2>3. rows[f][g].expired \in BOOLEAN
    BY <2>2, RowsAre DEF IInv
  <2>4. g \in Nat /\ g < MaxGenerations
    BY <1>7, <2>2, SessionsAssumptions DEF RotateSession
  <2>5. /\ now.pc = "lookup" /\ now.op = "RotateSession" /\ now.fam = f /\ now.gen = g
        /\ now.locked = {} /\ now.user = "none" /\ now.hits = {}
    BY <2>1
  <2>6. now \in Transaction
    BY <2>1, <2>3, <2>4
  <2>7. TxOK(now)
    BY <2>2, <2>4, <2>5 DEF TxOK
  <2> QED BY <1>7, <2>1, <2>5, <2>6, <2>7, StartKeeps DEF RotateSession
<1> QED BY <1>1, <1>2, <1>3, <1>4, <1>5, <1>6, <1>7 DEF Begin

\* A row that RowFree lets through is locked by nobody else; so is a mode that
\* UserFree lets through.
LEMMA FreeIsCompatible ==
  ASSUME IInv, NEW t \in Txs, NEW now \in Transaction,
         \A r \in now.locked : r \in tx[t].locked \/ RowFree(t, r),
         now.user = tx[t].user \/ UserFree(t, now.user)
  PROVE  \A o \in Txs \ {t} : Compatible(now, tx[o]) /\ Compatible(tx[o], now)
<1> SUFFICES ASSUME NEW o \in Txs \ {t}
             PROVE  Compatible(now, tx[o]) /\ Compatible(tx[o], now)
  OBVIOUS
<1>1. Compatible(tx[t], tx[o])
  BY DEF IInv, Exclusive
<1>2. now.locked \cap tx[o].locked = {}
  BY <1>1 DEF Compatible, RowFree
<1>3. ~Conflicts(now.user, tx[o].user)
  BY <1>1 DEF Compatible, UserFree
<1>4. ~Conflicts(tx[o].user, now.user)
  BY <1>3 DEF Conflicts
<1> QED BY <1>2, <1>3, <1>4 DEF Compatible

\* RotateSession's locking read: what it goes on with is the newest generation,
\* because every older one is spent.
LEMMA PresentKeeps ==
  ASSUME IInv, NEW t \in Txs, Present(t)
  PROVE  IInv'
<1>1. PICK f \in Families, g \in Nat : f = tx[t].fam /\ g = tx[t].gen
  BY DEF Present, IInv, TxOK, TypeOK, Transaction
<1>2. /\ tx[t] \in Transaction /\ TxOK(tx[t]) /\ tx[t].pc = "lookup"
      /\ tx[t].op = "RotateSession" /\ tx[t].hits \subseteq tx[t].locked
      /\ g \in 1 .. Len(rows[f]) /\ g < MaxGenerations
  BY <1>1 DEF Present, IInv, TxOK, TypeOK
<1>3. PICK now : now = IF Judge(t, rows[f][g]) = Idle THEN Idle
                       ELSE [Judge(t, rows[f][g]) EXCEPT !.locked = {<<f, g>>}]
  OBVIOUS
<1>4. Step(t, now) /\ RowFree(t, <<f, g>>)
  BY <1>1, <1>3 DEF Present, At
<1>5. CASE now = Idle
  <2>1. \A o \in Txs : tx[o] \in Transaction
    BY DEF IInv, TypeOK
  <2> QED BY <1>4, <1>5, <2>1, IdleOK, NoLocksCompatible, StepKeeps
<1>6. CASE now # Idle
  <2>1. Judge(t, rows[f][g]) # Idle
    BY <1>3, <1>6
  <2>2. /\ ~rows[f][g].revoked
        /\ \/ now = [tx[t] EXCEPT !.pc = "snapshot", !.locked = {<<f, g>>}]
           \/ ~rows[f][g].used /\ now = [tx[t] EXCEPT !.pc = "insert", !.locked = {<<f, g>>}]
    BY <1>2, <1>3, <2>1 DEF Judge, Transaction
  <2>3. tx[t].hits = {} /\ tx[t].user = "none"
    BY <1>2 DEF TxOK
  <2>4. now \in Transaction
    <3>1. {<<f, g>>} \in SUBSET (Families \X Nat)
      BY <1>1
    <3> QED BY ZenonT(30), <1>2, <2>2, <3>1 DEF Transaction
  <2>5. TxOK(now)
    <3>0. PICK pc \in {"snapshot", "insert"} :
            /\ now = [tx[t] EXCEPT !.pc = pc, !.locked = {<<f, g>>}]
            /\ pc = "insert" => ~rows[f][g].used
      BY <2>2
    <3>1. /\ now.hits = {} /\ now.user = "none" /\ now.op = "RotateSession"
          /\ now.fam = f /\ now.gen = g /\ now.locked = {<<f, g>>}
          /\ now.pc = "snapshot" \/ (now.pc = "insert" /\ ~rows[f][g].used)
      BY <1>1, <1>2, <2>3, <3>0 DEF Transaction
    <3>2. now.pc = "insert" => g = Len(rows[f])
      <4>1. Len(rows[f]) \in Nat /\ DOMAIN rows[f] = 1 .. Len(rows[f])
        BY RowsAre DEF IInv
      <4>2. ~(g < Len(rows[f])) \/ rows[f][g].used
        BY <1>2, <4>1 DEF IInv, OnlyNewestIsUnspent
      <4> QED BY <1>2, <3>1, <4>1, <4>2
    <3>3. now.pc = "insert" => Holds(now)
      BY <1>2, <2>2, <3>1, <3>2 DEF Holds
    <3> QED BY <3>1, <3>3 DEF TxOK
  <2>6. \A o \in Txs \ {t} : Compatible(now, tx[o]) /\ Compatible(tx[o], now)
    <3>1. now.locked = {<<f, g>>} /\ now.user = tx[t].user
      BY <1>2, <2>2 DEF Transaction
    <3> QED BY <1>4, <2>4, <3>1, FreeIsCompatible
  <2> QED BY <1>4, <2>4, <2>5, <2>6, StepKeeps
<1> QED BY <1>5, <1>6

\* The INSERT gets its share of the users row.
LEMMA InsertKeeps ==
  ASSUME IInv, NEW t \in Txs, Insert(t)
  PROVE  IInv'
<1>1. PICK now : now = [tx[t] EXCEPT !.pc = "mint", !.user = "key share"]
  OBVIOUS
<1>2. tx[t] \in Transaction /\ TxOK(tx[t]) /\ tx[t].pc = "insert"
  BY DEF Insert, IInv, TypeOK
<1>3. /\ now \in Transaction /\ now.locked = tx[t].locked /\ now.user = "key share"
      /\ now.pc = "mint" /\ now.op = tx[t].op /\ now.fam = tx[t].fam /\ now.gen = tx[t].gen
      /\ now.hits = tx[t].hits
  BY <1>1, <1>2 DEF Transaction, LockModes
<1>4. TxOK(now)
  BY <1>2, <1>3 DEF TxOK, Holds
<1>5. UserFree(t, now.user) /\ Step(t, now)
  BY <1>1, <1>3 DEF Insert
<1> QED BY <1>3, <1>4, <1>5, FreeIsCompatible, StepKeeps

\* So does whoever updates or locks it.
LEMMA LockAccountKeeps ==
  ASSUME IInv, NEW t \in Txs, LockAccount(t)
  PROVE  IInv'
<1>1. PICK now : now = [tx[t] EXCEPT !.user = AccountLock(tx[t].op),
                                     !.pc   = IF Patches(t) THEN "revoke" ELSE "snapshot"]
  OBVIOUS
<1>2. tx[t] \in Transaction /\ TxOK(tx[t]) /\ tx[t].pc = "account"
  BY DEF LockAccount, IInv, TypeOK
<1>3. /\ now \in Transaction /\ now.locked = tx[t].locked /\ now.user = AccountLock(tx[t].op)
      /\ now.op = tx[t].op /\ now.active = tx[t].active /\ now.hits = tx[t].hits
      /\ now.pc = IF Patches(t) THEN "revoke" ELSE "snapshot"
  BY ZenonT(30), <1>1, <1>2 DEF Transaction, LockModes, AccountLock
<1>4. TxOK(now)
  BY <1>2, <1>3 DEF TxOK, Sweeps, Patches, AccountLock
<1>5. UserFree(t, now.user) /\ Step(t, now)
  BY <1>1, <1>3 DEF LockAccount
<1> QED BY <1>3, <1>4, <1>5, FreeIsCompatible, StepKeeps

\* Under lockAccount the snapshot has every row there is.
LEMMA SnapshotKeeps ==
  ASSUME IInv, NEW t \in Txs, Snapshot(t)
  PROVE  IInv'
<1>1. PICK now : now = [tx[t] EXCEPT !.pc = "sweep",
                          !.todo = {r \in Scope(t) \X (1 .. MaxGenerations) :
                                      r[2] \in DOMAIN rows[r[1]] /\ ~At(r).revoked}]
  OBVIOUS
<1>2. tx[t] \in Transaction /\ TxOK(tx[t]) /\ tx[t].pc = "snapshot"
  BY DEF Snapshot, IInv, TypeOK
<1>3. Scope(t) \subseteq Families
  BY <1>2 DEF Scope, TxOK
<1>4. now \in Transaction
  <2>1. {r \in Scope(t) \X (1 .. MaxGenerations) : r[2] \in DOMAIN rows[r[1]] /\ ~At(r).revoked}
          \in SUBSET (Families \X Nat)
    BY <1>3
  <2> QED BY <1>1, <1>2, <2>1 DEF Transaction
<1>5. /\ now.locked = tx[t].locked /\ now.user = tx[t].user /\ now.pc = "sweep"
      /\ now.op = tx[t].op /\ now.fam = tx[t].fam /\ now.hits = tx[t].hits
      /\ now.todo = {r \in Scope(t) \X (1 .. MaxGenerations) :
                        r[2] \in DOMAIN rows[r[1]] /\ ~At(r).revoked}
  BY <1>1, <1>2 DEF Transaction
<1>6. ASSUME now.user = "update" PROVE Covers(now)
  <2>1. Scope(t) = Families
    BY <1>2, <1>5, <1>6 DEF TxOK, Scope
  <2>2. SUFFICES ASSUME NEW f \in Families, NEW g \in 1 .. Len(rows[f]), ~rows[f][g].revoked
                 PROVE  <<f, g>> \in now.todo
    BY DEF Covers
  <2>3. Len(rows[f]) \in Nat /\ DOMAIN rows[f] = 1 .. Len(rows[f])
    BY RowsAre DEF IInv
  <2>4. g \in 1 .. MaxGenerations
    BY <2>3, SessionsAssumptions DEF IInv, Generations
  <2> QED BY <1>5, <2>1, <2>2, <2>3, <2>4 DEF At
<1>7. TxOK(now)
  BY <1>2, <1>5, <1>6 DEF TxOK
<1>8. Step(t, now)
  BY <1>1 DEF Snapshot
<1> QED BY <1>4, <1>5, <1>7, <1>8, FreeIsCompatible, StepKeeps

\* A row that is visited is a hit, or was revoked already.
LEMMA VisitKeeps ==
  ASSUME IInv, NEW t \in Txs, NEW r \in RowIds, Visit(t, r)
  PROVE  IInv'
<1>1. PICK now : now = [tx[t] EXCEPT !.todo = @ \ {r}, !.locked = @ \cup {r},
                                     !.hits = IF At(r).revoked THEN @ ELSE @ \cup {r}]
  OBVIOUS
<1>2. tx[t] \in Transaction /\ TxOK(tx[t]) /\ tx[t].pc = "sweep" /\ r \in tx[t].todo
  BY DEF Visit, IInv, TypeOK
<1>3. /\ now.todo = tx[t].todo \ {r} /\ now.locked = tx[t].locked \cup {r}
      /\ now.hits = (IF At(r).revoked THEN tx[t].hits ELSE tx[t].hits \cup {r})
      /\ now.pc = "sweep" /\ now.op = tx[t].op /\ now.user = tx[t].user
      /\ now.active = tx[t].active /\ now.fam = tx[t].fam
  BY <1>1, <1>2 DEF Transaction
<1>4. now \in Transaction
  <2>1. r \in Families \X Nat
    BY DEF RowIds
  <2>2. tx[t].todo \ {r} \in SUBSET (Families \X Nat)
    BY <1>2 DEF Transaction
  <2>3. tx[t].locked \cup {r} \in SUBSET (Families \X Nat)
    BY <1>2, <2>1 DEF Transaction
  <2>4. (IF At(r).revoked THEN tx[t].hits ELSE tx[t].hits \cup {r}) \in SUBSET (Families \X Nat)
    BY <1>2, <2>1 DEF Transaction
  <2> QED BY <1>1, <1>2, <2>2, <2>3, <2>4 DEF Transaction
<1>5. ASSUME Covers(tx[t]) PROVE Covers(now)
  <2>1. SUFFICES ASSUME NEW f \in Families, NEW g \in 1 .. Len(rows[f]), ~rows[f][g].revoked
                 PROVE  <<f, g>> \in now.todo \/ <<f, g>> \in now.hits
    BY DEF Covers
  <2>2. <<f, g>> \in tx[t].todo \/ <<f, g>> \in tx[t].hits
    BY <1>5, <2>1 DEF Covers
  <2>3. CASE r = <<f, g>>
    BY <1>3, <2>1, <2>3 DEF At
  <2>4. CASE r # <<f, g>>
    BY <1>3, <2>2, <2>4
  <2> QED BY <2>3, <2>4
<1>6. TxOK(now)
  BY <1>2, <1>3, <1>5 DEF TxOK, Sweeps
<1>7. Step(t, now) /\ RowFree(t, r)
  BY <1>1 DEF Visit
<1> QED BY <1>3, <1>4, <1>6, <1>7, FreeIsCompatible, StepKeeps

\* The UPDATE is through with its rows.
LEMMA SweepDoneKeeps ==
  ASSUME IInv, NEW t \in Txs, SweepDone(t)
  PROVE  IInv'
<1>1. PICK now : now = [tx[t] EXCEPT !.pc = "revoke"]
  OBVIOUS
<1>2. tx[t] \in Transaction /\ TxOK(tx[t]) /\ tx[t].pc = "sweep" /\ tx[t].todo = {}
  BY DEF SweepDone, IInv, TypeOK
<1>3. /\ now \in Transaction /\ now.todo = tx[t].todo /\ now.locked = tx[t].locked
      /\ now.hits = tx[t].hits /\ now.pc = "revoke" /\ now.op = tx[t].op
      /\ now.user = tx[t].user /\ now.active = tx[t].active /\ now.fam = tx[t].fam
  BY <1>1, <1>2 DEF Transaction
<1>4. TxOK(now)
  BY <1>2, <1>3 DEF TxOK, Sweeps, Covers
<1>5. Step(t, now)
  BY <1>1 DEF SweepDone
<1> QED BY <1>3, <1>4, <1>5, FreeIsCompatible, StepKeeps

\* A rollback leaves the idle transaction.
LEMMA AbortKeeps ==
  ASSUME IInv, NEW t \in Txs, Abort(t)
  PROVE  IInv'
<1>1. \A o \in Txs : tx[o] \in Transaction
  BY DEF IInv, TypeOK
<1> QED BY <1>1, IdleOK, NoLocksCompatible, StepKeeps DEF Abort

\* A transaction that has ended takes its locks with it.
LEMMA EndedTx ==
  ASSUME IInv, NEW t \in Txs, tx' = [tx EXCEPT ![t] = Idle]
  PROVE  /\ tx' \in [Txs -> Transaction] /\ Exclusive'
         /\ tx'[t] = Idle /\ TxOK(Idle)'
         /\ \A o \in Txs \ {t} : tx'[o] = tx[o]
<1>1. tx \in [Txs -> Transaction]
  BY DEF IInv, TypeOK
<1>2. tx' \in [Txs -> Transaction] /\ tx'[t] = Idle /\ \A o \in Txs \ {t} : tx'[o] = tx[o]
  BY <1>1, IdleOK
<1>3. ASSUME NEW a \in Txs, NEW o \in Txs, a # o PROVE Compatible(tx'[a], tx'[o])
  <2>1. CASE a = t
    BY <1>1, <1>2, <1>3, <2>1, IdleOK, NoLocksCompatible
  <2>2. CASE o = t
    BY <1>1, <1>2, <1>3, <2>2, IdleOK, NoLocksCompatible
  <2>3. CASE a # t /\ o # t
    BY <1>2, <1>3, <2>3 DEF IInv, Exclusive
  <2> QED BY <2>1, <2>2, <2>3
<1>4. Exclusive'
  BY <1>3 DEF Exclusive, Compatible
<1>5. TxOK(Idle)'
  BY DEF TxOK, Idle
<1> QED BY <1>2, <1>4, <1>5

\* A family after its row g is spent and its successor appended.
Rotation(s, g) == Append([s EXCEPT ![g].used = TRUE], Fresh)

\* What that does to the family's rows.
LEMMA Rotated ==
  ASSUME NEW s \in Seq(Row), NEW g \in 1 .. Len(s)
  PROVE  /\ Rotation(s, g) \in Seq(Row) /\ Len(Rotation(s, g)) = Len(s) + 1
         /\ \A i \in 1 .. Len(s) : /\ Rotation(s, g)[i].used <=> (s[i].used \/ i = g)
                                   /\ Rotation(s, g)[i].revoked <=> s[i].revoked
                                   /\ Rotation(s, g)[i].expired <=> s[i].expired
         /\ Rotation(s, g)[Len(s) + 1] = Fresh
<1>0. PICK u : u = Rotation(s, g)
  OBVIOUS
<1>1. Len(s) \in Nat /\ DOMAIN s = 1 .. Len(s) /\ \A i \in 1 .. Len(s) : s[i] \in Row
  OBVIOUS
<1>2. PICK v : v = [s EXCEPT ![g].used = TRUE]
  OBVIOUS
<1>3. [s[g] EXCEPT !.used = TRUE] \in Row
  BY <1>1 DEF Row
<1>4. v \in Seq(Row) /\ Len(v) = Len(s)
  BY <1>1, <1>2, <1>3
<1>5. \A i \in 1 .. Len(s) : v[i] = IF i = g THEN [s[g] EXCEPT !.used = TRUE] ELSE s[i]
  BY <1>1, <1>2
<1>6. Fresh \in Row
  BY DEF Fresh, Row
<1>7. u \in Seq(Row) /\ Len(u) = Len(s) + 1 /\ u[Len(s) + 1] = Fresh
  BY <1>0, <1>1, <1>2, <1>4, <1>6 DEF Rotation
<1>8. \A i \in 1 .. Len(s) : u[i] = v[i]
  BY <1>0, <1>1, <1>2, <1>4, <1>6 DEF Rotation
<1>9. ASSUME NEW i \in 1 .. Len(s)
      PROVE  /\ (u[i].used <=> (s[i].used \/ i = g)) /\ (u[i].revoked <=> s[i].revoked)
             /\ (u[i].expired <=> s[i].expired)
  <2>1. CASE i = g
    BY <1>1, <1>5, <1>8, <2>1 DEF Row
  <2>2. CASE i # g
    BY <1>1, <1>5, <1>8, <2>2
  <2> QED BY <2>1, <2>2
<1> QED BY <1>0, <1>7, <1>9

\* A sign-in fills a family nobody knew.
LEMMA CreateCommits ==
  ASSUME IInv, NEW t \in Txs, CommitMint(t), tx[t].op = "CreateSession"
  PROVE  IInv'
<1>1. PICK f \in Families : ~Exists(f) /\ rows' = [rows EXCEPT ![f] = <<Fresh>>]
  BY DEF CommitMint
<1>2. tx' = [tx EXCEPT ![t] = Idle] /\ active' = active /\ ended' = ended
  BY DEF CommitMint
<1>3. /\ tx' \in [Txs -> Transaction] /\ Exclusive' /\ tx'[t] = Idle /\ TxOK(Idle)'
      /\ \A o \in Txs \ {t} : tx'[o] = tx[o]
  BY <1>2, EndedTx
<1>4. rows \in [Families -> Seq(Row)] /\ TypeOK
  BY DEF IInv, TypeOK
<1>5. Fresh \in Row /\ ~Fresh.used /\ ~Fresh.revoked
  BY DEF Fresh, Row
<1>6. /\ rows' \in [Families -> Seq(Row)]
      /\ rows'[f] = <<Fresh>> /\ Len(rows'[f]) = 1 /\ rows'[f][1] = Fresh /\ DOMAIN rows'[f] = 1 .. 1
      /\ \A h \in Families \ {f} : rows'[h] = rows[h]
  BY <1>1, <1>4, <1>5
<1>7. Len(rows[f]) = 0 /\ f \notin ended
  BY <1>1 DEF Exists, IInv, EndedExist
<1>8. TypeOK'
  BY <1>2, <1>3, <1>4, <1>6 DEF TypeOK
<1>9. Generations'
  <2>1. SUFFICES ASSUME NEW h \in Families PROVE Len(rows'[h]) <= MaxGenerations
    BY DEF Generations
  <2>2. CASE h = f
    <3>1. Len(rows'[h]) = 1 BY <1>6, <2>2
    <3>2. MaxGenerations \in Nat /\ MaxGenerations # 0 BY SessionsAssumptions
    <3> QED BY <3>1, <3>2
  <2>3. CASE h # f
    BY <1>6, <2>3 DEF IInv, Generations
  <2> QED BY <2>2, <2>3
<1>10. OnlyNewestIsUnspent'
  <2>1. SUFFICES ASSUME NEW h \in Families, NEW i \in DOMAIN rows'[h]
                 PROVE  rows'[h][i].used <=> i < Len(rows'[h])
    BY DEF OnlyNewestIsUnspent
  <2>2. CASE h = f
    <3>1. i = 1 BY <1>6, <2>1, <2>2
    <3>2. rows'[h][i] = Fresh /\ Len(rows'[h]) = 1 BY <1>6, <2>2, <3>1
    <3> QED BY <1>5, <3>1, <3>2
  <2>3. CASE h # f
    <3>1. rows'[h] = rows[h] BY <1>6, <2>3
    <3> QED BY <2>1, <3>1 DEF IInv, OnlyNewestIsUnspent
  <2> QED BY <2>2, <2>3
<1>11. EndedExist' /\ EndedStaysEnded'
  BY <1>2, <1>4, <1>6, <1>7 DEF IInv, EndedExist, EndedStaysEnded, Exists, AllRevoked, TypeOK
<1>12. tx[t].user = "key share"
  BY DEF CommitMint, IInv, TxOK
<1>13. ASSUME NEW o \in Txs \ {t} PROVE TxOK(tx[o])'
  <2>1. tx'[o] = tx[o] /\ TxOK(tx[o])
    BY <1>3 DEF IInv
  <2>2. tx[o].user # "update"
    BY <1>12 DEF IInv, Exclusive, Compatible, Conflicts
  <2>3. tx[o].pc = "lookup" => tx[o].fam # f
    BY <1>7, <2>1 DEF TxOK
  <2>4. Holds(tx[o]) => tx[o].fam # f
    BY <1>7 DEF Holds
  <2>5. Holds(tx[o]) => Holds(tx[o])'
    BY <1>6, <2>1, <2>4 DEF Holds
  <2> QED BY <1>6, <2>1, <2>2, <2>3, <2>5 DEF TxOK, Sweeps
<1> QED BY <1>3, <1>8, <1>9, <1>10, <1>11, <1>13 DEF IInv

\* A rotation spends the newest row and appends the next.
LEMMA RotationCommits ==
  ASSUME IInv, NEW t \in Txs, CommitMint(t), tx[t].op # "CreateSession"
  PROVE  IInv'
<1>1. TxOK(tx[t]) /\ tx[t].op = "RotateSession" /\ Holds(tx[t]) /\ tx[t].user = "key share"
  BY DEF CommitMint, IInv, TxOK
<1>2. PICK f \in Families, g \in Nat \ {0} :
        /\ f = tx[t].fam /\ g = tx[t].gen /\ g = Len(rows[f]) /\ g < MaxGenerations
        /\ <<f, g>> \in tx[t].locked /\ ~rows[f][g].revoked
  BY <1>1 DEF Holds
<1>3. /\ rows' = [rows EXCEPT ![f] = Append([rows[f] EXCEPT ![g].used = TRUE], Fresh)]
      /\ tx' = [tx EXCEPT ![t] = Idle] /\ active' = active /\ ended' = ended
  BY <1>2 DEF CommitMint
<1>4. /\ tx' \in [Txs -> Transaction] /\ Exclusive' /\ tx'[t] = Idle /\ TxOK(Idle)'
      /\ \A o \in Txs \ {t} : tx'[o] = tx[o]
  BY <1>3, EndedTx
<1>5. rows \in [Families -> Seq(Row)] /\ TypeOK /\ rows[f] \in Seq(Row) /\ g \in 1 .. Len(rows[f])
  BY <1>2 DEF IInv, TypeOK
<1>6. /\ rows'[f] = Append([rows[f] EXCEPT ![g].used = TRUE], Fresh)
      /\ \A h \in Families \ {f} : rows'[h] = rows[h]
  BY <1>3, <1>5
<1>7. /\ rows'[f] \in Seq(Row) /\ Len(rows'[f]) = g + 1
      /\ \A i \in 1 .. g : /\ rows'[f][i].used <=> (rows[f][i].used \/ i = g)
                           /\ rows'[f][i].revoked <=> rows[f][i].revoked
      /\ rows'[f][g + 1] = Fresh
  <2>1. PICK s \in Seq(Row) : s = rows[f]
    BY <1>5
  <2>2. PICK u : u = Rotation(s, g)
    OBVIOUS
  <2>3. g \in 1 .. Len(s) /\ Len(s) = g
    BY <1>2, <1>5, <2>1
  <2>4. /\ u \in Seq(Row) /\ Len(u) = Len(s) + 1
        /\ \A i \in 1 .. Len(s) : /\ u[i].used <=> (s[i].used \/ i = g)
                                  /\ u[i].revoked <=> s[i].revoked
        /\ u[Len(s) + 1] = Fresh
    BY <2>2, <2>3, Rotated
  <2>5. rows'[f] = u
    BY <1>6, <2>1, <2>2 DEF Rotation
  <2> QED BY <2>1, <2>3, <2>4, <2>5
<1>8. rows' \in [Families -> Seq(Row)]
  BY <1>3, <1>5, <1>6, <1>7
<1>9. TypeOK'
  BY <1>3, <1>4, <1>5, <1>8 DEF TypeOK
<1>10. Generations'
  <2>1. g + 1 <= MaxGenerations
    BY <1>2, SessionsAssumptions
  <2>2. Len(rows'[f]) <= MaxGenerations
    BY <1>7, <2>1
  <2>3. ASSUME NEW h \in Families, h # f PROVE Len(rows'[h]) <= MaxGenerations
    BY <1>6, <2>3 DEF IInv, Generations
  <2> QED BY <2>2, <2>3 DEF Generations
<1>11. f \notin ended
  BY <1>2, <1>5 DEF IInv, EndedStaysEnded, AllRevoked
<1>12. EndedExist' /\ EndedStaysEnded'
  BY <1>3, <1>5, <1>6, <1>11 DEF IInv, EndedExist, EndedStaysEnded, Exists, AllRevoked, TypeOK
<1>13. OnlyNewestIsUnspent'
  <2>1. SUFFICES ASSUME NEW h \in Families, NEW i \in DOMAIN rows'[h]
                 PROVE  rows'[h][i].used <=> i < Len(rows'[h])
    BY DEF OnlyNewestIsUnspent
  <2>2. CASE h # f
    BY <1>6, <2>1, <2>2 DEF IInv, OnlyNewestIsUnspent
  <2>3. CASE h = f
    <3>1. DOMAIN rows'[f] = 1 .. g + 1 /\ DOMAIN rows[f] = 1 .. g
      BY <1>2, <1>5, <1>7
    <3>2. CASE i = g + 1
      BY <1>2, <1>7, <2>3, <3>2 DEF Fresh
    <3>3. CASE i \in 1 .. g
      <4>1. rows[f][i].used <=> i < g
        BY <1>2, <3>1, <3>3 DEF IInv, OnlyNewestIsUnspent
      <4>2. rows'[f][i].used <=> (rows[f][i].used \/ i = g)
        BY <1>7, <3>3
      <4>3. i \in Nat /\ i <= g /\ i < g + 1
        BY <1>2, <3>3
      <4> QED BY <1>2, <1>7, <2>3, <4>1, <4>2, <4>3
    <3> QED BY <1>2, <2>1, <2>3, <3>1, <3>2, <3>3
  <2> QED BY <2>2, <2>3
<1>14. ASSUME NEW o \in Txs \ {t} PROVE TxOK(tx[o])'
  <2>1. tx'[o] = tx[o] /\ TxOK(tx[o])
    BY <1>4 DEF IInv
  <2>2. tx[o].user # "update" /\ <<f, g>> \notin tx[o].locked
    BY <1>1, <1>2 DEF IInv, Exclusive, Compatible, Conflicts
  <2>3. Holds(tx[o]) => tx[o].fam # f
    BY <1>2, <2>2 DEF Holds
  <2>4. Holds(tx[o]) => Holds(tx[o])'
    BY <1>6, <2>1, <2>3 DEF Holds
  <2>5. tx[o].pc = "lookup" => tx[o].gen \in 1 .. Len(rows'[tx[o].fam])
    <3>1. SUFFICES ASSUME tx[o].pc = "lookup" PROVE tx[o].gen \in 1 .. Len(rows'[tx[o].fam])
      OBVIOUS
    <3>2. tx[o].fam \in Families /\ tx[o].gen \in 1 .. Len(rows[tx[o].fam])
      BY <2>1, <3>1 DEF TxOK
    <3>3. CASE tx[o].fam = f
      BY <1>2, <1>7, <3>2, <3>3
    <3>4. CASE tx[o].fam # f
      BY <1>6, <3>2, <3>4
    <3> QED BY <3>3, <3>4
  <2> QED BY <2>1, <2>2, <2>4, <2>5 DEF TxOK, Sweeps
<1> QED BY <1>4, <1>9, <1>10, <1>12, <1>13, <1>14 DEF IInv

\* Family f after the rows in hits are revoked.
Revocation(s, f, hits) == [g \in DOMAIN s |-> [s[g] EXCEPT !.revoked = @ \/ <<f, g>> \in hits]]

\* What that does to the family's rows.
LEMMA Revoked ==
  ASSUME NEW s \in Seq(Row), NEW f, NEW hits
  PROVE  /\ Revocation(s, f, hits) \in Seq(Row) /\ Len(Revocation(s, f, hits)) = Len(s)
         /\ DOMAIN Revocation(s, f, hits) = 1 .. Len(s)
         /\ \A g \in 1 .. Len(s) :
              /\ Revocation(s, f, hits)[g].used <=> s[g].used
              /\ Revocation(s, f, hits)[g].revoked <=> (s[g].revoked \/ <<f, g>> \in hits)
              /\ Revocation(s, f, hits)[g].expired <=> s[g].expired
<1>1. Len(s) \in Nat /\ DOMAIN s = 1 .. Len(s) /\ \A g \in 1 .. Len(s) : s[g] \in Row
  OBVIOUS
<1>2. PICK u : u = Revocation(s, f, hits)
  OBVIOUS
<1>3. DOMAIN u = 1 .. Len(s)
  BY <1>1, <1>2 DEF Revocation
<1>4. ASSUME NEW g \in 1 .. Len(s)
      PROVE  /\ u[g] \in Row
             /\ u[g].used <=> s[g].used
             /\ u[g].revoked <=> (s[g].revoked \/ <<f, g>> \in hits)
             /\ u[g].expired <=> s[g].expired
  <2>1. u[g] = [s[g] EXCEPT !.revoked = @ \/ <<f, g>> \in hits]
    BY <1>1, <1>2 DEF Revocation
  <2>2. PICK b \in BOOLEAN : b = (s[g].revoked \/ <<f, g>> \in hits)
    OBVIOUS
  <2>3. u[g] = [s[g] EXCEPT !.revoked = b]
    BY <2>1, <2>2
  <2>4. u[g] \in Row /\ u[g].used = s[g].used /\ u[g].revoked = b /\ u[g].expired = s[g].expired
    BY <1>1, <2>3 DEF Row
  <2> QED BY <2>2, <2>4
<1>5. u \in Seq(Row) /\ Len(u) = Len(s)
  <2>1. PICK n \in Nat : n = Len(s)
    BY <1>1
  <2>2. u \in [1 .. n -> Row]
    <3>1. u = [g \in 1 .. Len(s) |-> u[g]]
      BY <1>2, <1>3 DEF Revocation
    <3>2. \A g \in 1 .. n : u[g] \in Row
      BY <1>4, <2>1
    <3> QED BY <2>1, <3>1, <3>2
  <2>3. u \in Seq(Row)
    BY <2>2
  <2> QED BY <1>3, <2>1, <2>3
<1> QED BY <1>2, <1>3, <1>4, <1>5

\* A sweep commits.
LEMMA RevokeCommits ==
  ASSUME IInv, NEW t \in Txs, CommitRevoke(t)
  PROVE  IInv'
<1>1. TypeOK /\ rows \in [Families -> Seq(Row)] /\ tx[t] \in Transaction /\ TxOK(tx[t])
      /\ tx[t].pc = "revoke"
  BY DEF CommitRevoke, IInv, TypeOK
<1>2. rows' = [f \in Families |-> Revocation(rows[f], f, tx[t].hits)]
  BY DEF CommitRevoke, Revocation
<1>3. ASSUME NEW f \in Families
      PROVE  /\ rows'[f] \in Seq(Row) /\ Len(rows'[f]) = Len(rows[f]) /\ Len(rows[f]) \in Nat
             /\ DOMAIN rows'[f] = 1 .. Len(rows[f]) /\ DOMAIN rows[f] = 1 .. Len(rows[f])
             /\ \A g \in 1 .. Len(rows[f]) :
                  /\ rows'[f][g].used <=> rows[f][g].used
                  /\ rows'[f][g].revoked <=> (rows[f][g].revoked \/ <<f, g>> \in tx[t].hits)
  <2>1. rows'[f] = Revocation(rows[f], f, tx[t].hits) /\ rows[f] \in Seq(Row)
    BY <1>1, <1>2
  <2>2. DOMAIN rows[f] = 1 .. Len(rows[f]) /\ Len(rows[f]) \in Nat
    BY <2>1
  <2> QED BY <2>1, <2>2, Revoked
<1>4. tx' = [tx EXCEPT ![t] = Idle]
  BY DEF CommitRevoke
<1>5. /\ tx' \in [Txs -> Transaction] /\ Exclusive' /\ tx'[t] = Idle /\ TxOK(Idle)'
      /\ \A o \in Txs \ {t} : tx'[o] = tx[o]
  BY <1>4, EndedTx
<1>6. Scope(t) \subseteq Families
  BY <1>1 DEF Scope, TxOK
<1>7. TypeOK'
  <2>1. rows' \in [Families -> Seq(Row)]
    BY <1>2, <1>3
  <2>2. active' \in BOOLEAN
    BY <1>1 DEF CommitRevoke, TypeOK, Transaction
  <2>3. ended' \subseteq Families
    BY <1>1, <1>6 DEF CommitRevoke, TypeOK
  <2> QED BY <1>5, <2>1, <2>2, <2>3 DEF TypeOK
<1>8. Generations'
  BY <1>3 DEF IInv, Generations
<1>9. OnlyNewestIsUnspent'
  <2>1. SUFFICES ASSUME NEW f \in Families, NEW g \in DOMAIN rows'[f]
                 PROVE  rows'[f][g].used <=> g < Len(rows'[f])
    BY DEF OnlyNewestIsUnspent
  <2>2. g \in 1 .. Len(rows[f]) /\ g \in DOMAIN rows[f]
    BY <1>3, <2>1
  <2>3. rows[f][g].used <=> g < Len(rows[f])
    BY <2>2 DEF IInv, OnlyNewestIsUnspent
  <2> QED BY <1>3, <2>2, <2>3
<1>10. ASSUME NEW f \in ended' PROVE Exists(f)' /\ AllRevoked(f)'
  <2>1. f \in Families
    BY <1>7 DEF TypeOK
  <2>2. CASE f \in ended
    <3>1. Exists(f) /\ AllRevoked(f)
      BY <2>2 DEF IInv, EndedExist, EndedStaysEnded
    <3>2. \A g \in 1 .. Len(rows[f]) : rows[f][g].revoked
      BY <1>3, <2>1, <3>1 DEF AllRevoked
    <3>3. \A g \in DOMAIN rows'[f] : rows'[f][g].revoked
      BY <1>3, <2>1, <3>2
    <3>4. Len(rows[f]) # 0
      BY <1>1, <2>1, <3>1 DEF Exists
    <3>5. rows'[f] # <<>>
      BY <1>3, <2>1, <3>4
    <3> QED BY <3>3, <3>5 DEF Exists, AllRevoked
  <2>3. CASE f \notin ended
    <3>0. EndsAll(t) /\ Exists(f)
      BY <1>10, <2>3 DEF CommitRevoke
    <3>1. tx[t].user = "update" /\ ~Patches(t) /\ Exists(f)
      BY <1>1, <3>0 DEF EndsAll, TxOK
    <3>2. Sweeps(tx[t])
      BY <3>1 DEF Sweeps, Patches
    <3>3. Covers(tx[t]) /\ tx[t].todo = {}
      BY <1>1, <3>1, <3>2 DEF TxOK
    <3>4. \A g \in 1 .. Len(rows[f]) : rows[f][g].revoked \/ <<f, g>> \in tx[t].hits
      BY <2>1, <3>3 DEF Covers
    <3>5. \A g \in DOMAIN rows'[f] : rows'[f][g].revoked
      BY <1>3, <2>1, <3>4
    <3>6. Len(rows[f]) # 0
      BY <1>1, <2>1, <3>1 DEF Exists
    <3>7. rows'[f] # <<>>
      BY <1>3, <2>1, <3>6
    <3> QED BY <3>5, <3>7 DEF Exists, AllRevoked
  <2> QED BY <2>2, <2>3
<1>11. ASSUME NEW o \in Txs \ {t} PROVE TxOK(tx[o])'
  <2>1. tx'[o] = tx[o] /\ TxOK(tx[o])
    BY <1>5 DEF IInv
  <2>2. tx[o].locked \cap tx[t].hits = {}
    BY <1>1 DEF IInv, Exclusive, Compatible, TxOK
  <2>3. ASSUME Holds(tx[o]) PROVE Holds(tx[o])'
    <3>1. PICK f \in Families, g \in Nat \ {0} : f = tx[o].fam /\ g = tx[o].gen
      BY <2>3 DEF Holds
    <3>2. /\ g = Len(rows[f]) /\ g < MaxGenerations /\ <<f, g>> \in tx[o].locked
          /\ ~rows[f][g].revoked
      BY <2>3, <3>1 DEF Holds
    <3>3. <<f, g>> \notin tx[t].hits /\ g \in 1 .. Len(rows[f])
      BY <2>2, <3>2
    <3>4. ~rows'[f][g].revoked /\ g = Len(rows'[f])
      BY <1>3, <3>2, <3>3
    <3> QED BY <2>1, <3>1, <3>2, <3>4 DEF Holds
  <2>4. Covers(tx[o]) => Covers(tx[o])'
    BY <1>3, <2>1 DEF Covers
  <2>5. tx[o].pc = "lookup" => tx[o].gen \in 1 .. Len(rows'[tx[o].fam])
    BY <1>3, <2>1 DEF TxOK
  <2> QED BY <2>1, <2>3, <2>4, <2>5 DEF TxOK, Sweeps
<1>12. EndedExist' /\ EndedStaysEnded'
  BY <1>10 DEF EndedExist, EndedStaysEnded
<1> QED BY <1>5, <1>7, <1>8, <1>9, <1>11, <1>12 DEF IInv

\* A row that expires is neither spent nor revoked by it.
LEMMA ExpireKeeps ==
  ASSUME IInv, NEW f \in Families, NEW g \in 1 .. MaxGenerations, Expire(f, g)
  PROVE  IInv'
<1>1. TypeOK /\ rows \in [Families -> Seq(Row)]
  BY DEF IInv, TypeOK
<1>2. rows[f] \in Seq(Row) /\ Len(rows[f]) \in Nat /\ g \in 1 .. Len(rows[f])
  BY <1>1, RowsAre DEF Expire
<1>3. rows' = [rows EXCEPT ![f] = [rows[f] EXCEPT ![g] = [rows[f][g] EXCEPT !.expired = TRUE]]]
  BY DEF Expire
<1>4. PICK s : s = [rows[f] EXCEPT ![g] = [rows[f][g] EXCEPT !.expired = TRUE]]
  OBVIOUS
<1>5. rows[f][g] \in Row /\ [rows[f][g] EXCEPT !.expired = TRUE] \in Row
  <2>1. rows[f][g] \in Row
    BY <1>1, <1>2, RowsAre
  <2> QED BY <2>1 DEF Row
<1>6. s \in Seq(Row) /\ Len(s) = Len(rows[f])
  BY <1>2, <1>4, <1>5
<1>7. \A i \in 1 .. Len(rows[f]) : s[i].used = rows[f][i].used /\ s[i].revoked = rows[f][i].revoked
  <2>1. SUFFICES ASSUME NEW i \in 1 .. Len(rows[f])
                 PROVE  s[i].used = rows[f][i].used /\ s[i].revoked = rows[f][i].revoked
    OBVIOUS
  <2>2. s[i] = IF i = g THEN [rows[f][g] EXCEPT !.expired = TRUE] ELSE rows[f][i]
    BY <1>2, <1>4
  <2> QED BY <1>5, <2>2 DEF Row
<1>8. rows' \in [Families -> Seq(Row)]
  BY <1>1, <1>3, <1>4, <1>6
<1>9. ASSUME NEW h \in Families
      PROVE  /\ Len(rows'[h]) = Len(rows[h]) /\ DOMAIN rows'[h] = DOMAIN rows[h]
             /\ DOMAIN rows[h] = 1 .. Len(rows[h]) /\ Len(rows[h]) \in Nat
             /\ \A i \in 1 .. Len(rows[h]) : /\ rows'[h][i].used = rows[h][i].used
                                             /\ rows'[h][i].revoked = rows[h][i].revoked
             /\ rows'[h] = <<>> <=> rows[h] = <<>>
  <2>1. rows'[h] = IF h = f THEN s ELSE rows[h]
    BY <1>1, <1>3, <1>4
  <2>2. Len(rows'[h]) = Len(rows[h]) /\ rows'[h] \in Seq(Row) /\ rows[h] \in Seq(Row)
    BY <1>1, <1>6, <1>8, <2>1
  <2>3. \A i \in 1 .. Len(rows[h]) : /\ rows'[h][i].used = rows[h][i].used
                                     /\ rows'[h][i].revoked = rows[h][i].revoked
    BY <1>7, <2>1
  <2>4. rows'[h] = <<>> <=> rows[h] = <<>>
    BY <2>2
  <2>5. DOMAIN rows'[h] = DOMAIN rows[h] /\ DOMAIN rows[h] = 1 .. Len(rows[h]) /\ Len(rows[h]) \in Nat
    BY <2>2
  <2> QED BY <2>2, <2>3, <2>4, <2>5
<1>10. active' = active /\ tx' = tx /\ ended' = ended
  BY DEF Expire
<1>11. TypeOK' /\ Generations' /\ Exclusive'
  BY <1>1, <1>8, <1>9, <1>10 DEF IInv, TypeOK, Generations, Exclusive, Compatible
<1>12. OnlyNewestIsUnspent'
  BY <1>9 DEF IInv, OnlyNewestIsUnspent
<1>13. EndedExist' /\ EndedStaysEnded'
  <2>1. SUFFICES ASSUME NEW h \in ended PROVE Exists(h)' /\ AllRevoked(h)'
    BY <1>10 DEF EndedExist, EndedStaysEnded
  <2>2. h \in Families /\ Exists(h) /\ AllRevoked(h)
    BY <1>1 DEF IInv, TypeOK, EndedExist, EndedStaysEnded
  <2>3. Exists(h)'
    BY <1>9, <2>2 DEF Exists
  <2>4. AllRevoked(h)'
    <3>1. SUFFICES ASSUME NEW i \in DOMAIN rows'[h] PROVE rows'[h][i].revoked
      BY DEF AllRevoked
    <3>2. i \in DOMAIN rows[h] /\ rows'[h][i].revoked = rows[h][i].revoked
      BY <1>9, <2>2
    <3> QED BY <2>2, <3>2 DEF AllRevoked
  <2> QED BY <2>3, <2>4
<1>14. ASSUME NEW o \in Txs PROVE TxOK(tx[o])'
  <2>1. tx'[o] = tx[o] /\ TxOK(tx[o])
    BY <1>10 DEF IInv
  <2>2. Holds(tx[o]) => Holds(tx[o])'
    BY SMTT(30), <1>9, <2>1 DEF Holds
  <2>3. Covers(tx[o]) => Covers(tx[o])'
    BY <1>9, <2>1 DEF Covers
  <2>4. tx[o].pc = "lookup" => tx[o].gen \in 1 .. Len(rows'[tx[o].fam])
    BY <1>9, <2>1 DEF TxOK
  <2> QED BY <2>1, <2>2, <2>3, <2>4 DEF TxOK, Sweeps
<1> QED BY <1>11, <1>12, <1>13, <1>14 DEF IInv

\* Every step keeps the invariant, whichever transactions it interleaves.
LEMMA NextIInv == IInv /\ [Next]_vars => IInv'
<1> SUFFICES ASSUME IInv, [Next]_vars PROVE IInv'
  OBVIOUS
<1>1. ASSUME NEW t \in Txs, Run(t) PROVE IInv'
  <2>1. CASE CommitMint(t)
    BY <2>1, CreateCommits, RotationCommits
  <2> QED BY <1>1, <2>1, PresentKeeps, InsertKeeps, LockAccountKeeps, SnapshotKeeps, VisitKeeps,
             SweepDoneKeeps, AbortKeeps, RevokeCommits DEF Run
<1>2. CASE UNCHANGED vars
  <2>1. TypeOK' /\ Generations' /\ OnlyNewestIsUnspent'
    BY <1>2 DEF vars, IInv, TypeOK, Generations, OnlyNewestIsUnspent
  <2>2. Exclusive'
    BY <1>2 DEF vars, IInv, Exclusive, Compatible
  <2>3. ASSUME NEW t \in Txs PROVE TxOK(tx[t])'
    <3>1. TxOK(tx[t]) /\ tx' = tx /\ rows' = rows
      BY <1>2 DEF vars, IInv
    <3> QED BY <3>1 DEF TxOK, Holds, Covers
  <2>4. EndedExist' /\ EndedStaysEnded'
    BY <1>2 DEF vars, IInv, EndedExist, EndedStaysEnded, Exists, AllRevoked
  <2> QED BY <2>1, <2>2, <2>3, <2>4 DEF IInv
<1> QED BY <1>1, <1>2, BeginKeeps, ExpireKeeps DEF Next

\* The invariant holds throughout.
LEMMA SpecIInv == Spec => []IInv
BY InitIInv, NextIInv, PTL DEF Spec
-------------------------------------------------------------------------------
\* Every state is well typed.
THEOREM SessionsTypeOK == Spec => []TypeOK
BY SpecIInv, PTL DEF IInv

\* However many requests present the tokens of a family at once, only its
\* newest generation is unspent (RotateSession's locking read).
THEOREM OneTokenPerFamily == Spec => []OnlyNewestIsUnspent
BY SpecIInv, PTL DEF IInv

\* No session survives a completed reset or a deactivation, nor a rotation that
\* was under way (lockAccount against the KEY SHARE of the INSERT).
THEOREM EndedForGood == Spec => []EndedStaysEnded
BY SpecIInv, PTL DEF IInv

\* ListSessionFamilies' judgement by the newest row is right.
THEOREM ListIsRight == Spec => []ListedIffRefreshable
<1>1. IInv => ListedIffRefreshable
  <2> SUFFICES ASSUME IInv, NEW f \in Families
               PROVE  Listed(f) <=> \E g \in Accepted(f) : ~rows[f][g].expired
    BY DEF ListedIffRefreshable
  <2>1. /\ rows[f] \in Seq(Row) /\ Len(rows[f]) \in Nat /\ DOMAIN rows[f] = 1 .. Len(rows[f])
    BY RowsAre DEF IInv
  <2>2. \A g \in 1 .. Len(rows[f]) : rows[f][g].used <=> g < Len(rows[f])
    BY <2>1 DEF IInv, OnlyNewestIsUnspent
  <2>3. \A g : g \in Accepted(f) <=> g \in 1 .. Len(rows[f]) /\ ~rows[f][g].revoked /\ g = Len(rows[f])
    BY <2>1, <2>2 DEF Accepted
  <2>4. Exists(f) <=> Len(rows[f]) \in 1 .. Len(rows[f])
    BY <2>1 DEF Exists
  <2> QED BY <2>1, <2>3, <2>4 DEF Listed, Newest
<1> QED BY SpecIInv, <1>1, PTL

\* A family whose newest generation is revoked is never given another one.
THEOREM RevocationIsFinal == Spec => RevokedIsFinal
<1>1. ASSUME IInv, [Next]_vars, NEW f \in Families, Exists(f), Newest(f).revoked
      PROVE  (Newest(f).revoked)'
  <2>1. /\ rows[f] \in Seq(Row) /\ Len(rows[f]) \in Nat /\ Len(rows[f]) \in 1 .. Len(rows[f])
        /\ DOMAIN rows[f] = 1 .. Len(rows[f]) /\ rows[f][Len(rows[f])].revoked
    BY <1>1, RowsAre DEF IInv, Exists, Newest
  <2>2. rows'[f] = rows[f] => (Newest(f).revoked)'
    BY <2>1 DEF Newest
  <2>3. ASSUME NEW t \in Txs, Begin(t) PROVE rows' = rows
    BY <2>3 DEF Begin, CreateSession, ConsumePasswordReset, UpdateUserAdmin, RevokeFamily,
       RevokeOtherFamilies, UpdatePassword, RotateSession, Start
  <2>4. ASSUME NEW t \in Txs,
               \/ Present(t) \/ Insert(t) \/ LockAccount(t) \/ Snapshot(t) \/ SweepDone(t)
               \/ Abort(t) \/ \E r \in RowIds : Visit(t, r)
        PROVE  rows' = rows
    BY <2>4 DEF Present, Insert, LockAccount, Snapshot, SweepDone, Abort, Visit, Step
  <2>5. ASSUME NEW t \in Txs, CommitMint(t) PROVE rows'[f] = rows[f]
    <3>1. CASE tx[t].op = "CreateSession"
      BY <1>1, <2>5, <3>1 DEF CommitMint, IInv, TypeOK
    <3>2. CASE tx[t].op # "CreateSession"
      <4>1. Holds(tx[t])
        BY <1>1, <2>5, <3>2 DEF CommitMint, IInv, TxOK
      <4>2. tx[t].fam # f
        BY <2>1, <4>1 DEF Holds
      <4>3. rows' = [rows EXCEPT ![tx[t].fam] = Rotation(rows[tx[t].fam], tx[t].gen)]
        BY <2>5, <3>2 DEF CommitMint, Rotation
      <4> QED BY <1>1, <4>2, <4>3 DEF IInv, TypeOK
    <3> QED BY <3>1, <3>2
  <2>6. ASSUME NEW t \in Txs, CommitRevoke(t) PROVE (Newest(f).revoked)'
    <3>1. rows'[f] = Revocation(rows[f], f, tx[t].hits)
      BY <2>6 DEF CommitRevoke, Revocation
    <3>2. Len(rows'[f]) = Len(rows[f]) /\ rows'[f][Len(rows[f])].revoked
      BY <2>1, <3>1, Revoked
    <3> QED BY <3>2 DEF Newest
  <2>7. ASSUME NEW h \in Families, NEW g \in 1 .. MaxGenerations, Expire(h, g)
        PROVE  (Newest(f).revoked)'
    <3>1. rows' = [rows EXCEPT ![h] = [rows[h] EXCEPT ![g] = [rows[h][g] EXCEPT !.expired = TRUE]]]
      BY <2>7 DEF Expire
    <3>2. CASE h # f
      <4>1. rows'[f] = rows[f]
        BY <1>1, <3>1, <3>2 DEF IInv, TypeOK
      <4> QED BY <2>2, <4>1
    <3>3. CASE h = f
      <4>1. rows'[f] = [rows[f] EXCEPT ![g] = [rows[f][g] EXCEPT !.expired = TRUE]]
        BY <1>1, <3>1, <3>3 DEF IInv, TypeOK
      <4>2. g \in 1 .. Len(rows[f]) /\ rows[f][g] \in Row
        BY <1>1, <2>1, <2>7, <3>3, RowsAre DEF Expire, IInv
      <4>3. /\ [rows[f][g] EXCEPT !.expired = TRUE] \in Row
            /\ [rows[f][g] EXCEPT !.expired = TRUE].revoked = rows[f][g].revoked
        BY <4>2 DEF Row
      <4>4. PICK e \in Row : e = [rows[f][g] EXCEPT !.expired = TRUE]
        BY <4>3
      <4>5. rows'[f] = [rows[f] EXCEPT ![g] = e] /\ e.revoked = rows[f][g].revoked
        BY <4>1, <4>3, <4>4
      <4>6. Len(rows'[f]) = Len(rows[f])
        BY <2>1, <4>2, <4>5
      <4>7. rows'[f][Len(rows[f])].revoked
        BY <2>1, <4>2, <4>5
      <4> QED BY <4>6, <4>7 DEF Newest
    <3> QED BY <3>2, <3>3
  <2>8. CASE UNCHANGED vars
    BY <2>2, <2>8 DEF vars
  <2> QED BY <1>1, <2>2, <2>3, <2>4, <2>5, <2>6, <2>7, <2>8 DEF Next, Run
<1>2. IInv /\ [Next]_vars =>
        [\A f \in Families : (Exists(f) /\ Newest(f).revoked) => (Newest(f).revoked)']_vars
  BY <1>1
<1> QED BY SpecIInv, <1>2, PTL DEF Spec, RevokedIsFinal
-------------------------------------------------------------------------------
(* The sockets of the sessions.                                            *)

\* A generation of the family was revoked or ran out.
Over(f) == \E g \in 1 .. Len(rows[f]) : rows[f][g].revoked \/ rows[f][g].expired

\* Sockets and the sweep are well formed.
SocketsTyped ==
  /\ sock \in [Sockets -> [phase : {"none", "hello", "up", "closed"}, fam : Families \cup {NoFamily}]]
  /\ sweep \in [pc : {"idle", "list", "close"}, snap : SUBSET Sockets, live : SUBSET Families]

\* A socket has a family that was signed in to.
SocketsHaveFamilies ==
  \A s \in Sockets : sock[s] # NoSocket => sock[s].fam \in Families /\ Exists(sock[s].fam)

\* The sweep looks at sockets that are still there, and once it has read the
\* families, the one of such a socket is among the live ones or is over.
SweepIsRight ==
  /\ \A s \in sweep.snap : sock[s] # NoSocket
  /\ sweep.pc = "close" => \A s \in sweep.snap : sock[s].fam \in sweep.live \/ Over(sock[s].fam)

SocketsInv == IInv /\ SocketsTyped /\ SocketsHaveFamilies /\ SweepIsRight

\* A step of the sessions forgets no row, and no revocation or expiry of one.
LEMMA RowsOnlyAge ==
  ASSUME IInv, [Next]_vars, NEW f \in Families
  PROVE  (Exists(f) => Exists(f)') /\ (Over(f) => Over(f)')
<1>1. rows \in [Families -> Seq(Row)] /\ rows[f] \in Seq(Row) /\ Len(rows[f]) \in Nat
      /\ (Exists(f) <=> Len(rows[f]) # 0)
  BY DEF IInv, TypeOK, Exists
<1>2. CASE rows'[f] = rows[f]
  BY <1>2 DEF Exists, Over
<1>3. CASE ~Exists(f)
  BY <1>1, <1>3 DEF Over
<1>4. ASSUME NEW u \in Seq(Row), rows'[f] = u, Len(u) >= Len(rows[f]), Exists(f),
             \A i \in 1 .. Len(rows[f]) :
               rows[f][i].revoked \/ rows[f][i].expired => u[i].revoked \/ u[i].expired
      PROVE  Exists(f)' /\ (Over(f) => Over(f)')
  <2>1. Len(u) \in Nat /\ Len(u) # 0 /\ \A i \in 1 .. Len(rows[f]) : i \in 1 .. Len(u)
    BY <1>1, <1>4
  <2>2. Exists(f)'
    BY <1>4, <2>1 DEF Exists
  <2> QED BY <1>4, <2>1, <2>2 DEF Over
<1>5. ASSUME NEW t \in Txs, Begin(t) PROVE rows' = rows
  BY <1>5 DEF Begin, CreateSession, ConsumePasswordReset, UpdateUserAdmin, RevokeFamily,
     RevokeOtherFamilies, UpdatePassword, RotateSession, Start
<1>6. ASSUME NEW t \in Txs,
             \/ Present(t) \/ Insert(t) \/ LockAccount(t) \/ Snapshot(t) \/ SweepDone(t)
             \/ Abort(t) \/ \E r \in RowIds : Visit(t, r)
      PROVE  rows' = rows
  BY <1>6 DEF Present, Insert, LockAccount, Snapshot, SweepDone, Abort, Visit, Step
<1>7. ASSUME NEW t \in Txs, CommitMint(t), Exists(f) PROVE Exists(f)' /\ (Over(f) => Over(f)')
  <2>1. CASE tx[t].op = "CreateSession"
    <3>1. rows'[f] = rows[f]
      BY <1>1, <1>7, <2>1 DEF CommitMint
    <3> QED BY <1>2, <1>7, <3>1
  <2>2. CASE tx[t].op # "CreateSession"
    <3>1. PICK h \in Families, g \in Nat \ {0} : h = tx[t].fam /\ g = tx[t].gen /\ g = Len(rows[h])
      BY <1>7, <2>2 DEF CommitMint, IInv, TxOK, Holds
    <3>2. rows' = [rows EXCEPT ![h] = Rotation(rows[h], g)]
      BY <1>7, <2>2, <3>1 DEF CommitMint, Rotation
    <3>3. CASE h # f
      <4>1. rows'[f] = rows[f]
        BY <1>1, <3>2, <3>3
      <4> QED BY <1>2, <1>7, <4>1
    <3>4. CASE h = f
      <4>1. PICK u : u = Rotation(rows[f], g)
        OBVIOUS
      <4>2. g \in 1 .. Len(rows[f]) /\ rows'[f] = u
        <5>1. rows' = [rows EXCEPT ![f] = u] /\ g = Len(rows[f])
          BY <3>1, <3>2, <3>4, <4>1
        <5>2. rows'[f] = u
          BY <1>1, <5>1
        <5> QED BY <3>1, <5>1, <5>2
      <4>3. /\ u \in Seq(Row) /\ Len(u) = Len(rows[f]) + 1
            /\ \A i \in 1 .. Len(rows[f]) : /\ u[i].revoked <=> rows[f][i].revoked
                                            /\ u[i].expired <=> rows[f][i].expired
        BY <1>1, <4>1, <4>2, Rotated
      <4>4. Len(u) >= Len(rows[f])
        BY <1>1, <4>3
      <4> QED BY <1>4, <1>7, <4>2, <4>3, <4>4
    <3> QED BY <3>3, <3>4
  <2> QED BY <2>1, <2>2
<1>8. ASSUME NEW t \in Txs, CommitRevoke(t), Exists(f) PROVE Exists(f)' /\ (Over(f) => Over(f)')
  <2>1. PICK u : u = Revocation(rows[f], f, tx[t].hits)
    OBVIOUS
  <2>2. rows'[f] = u
    BY <1>8, <2>1 DEF CommitRevoke, Revocation
  <2>3. /\ u \in Seq(Row) /\ Len(u) = Len(rows[f])
        /\ \A i \in 1 .. Len(rows[f]) : /\ u[i].revoked <=> (rows[f][i].revoked \/ <<f, i>> \in tx[t].hits)
                                        /\ u[i].expired <=> rows[f][i].expired
    BY <1>1, <2>1, Revoked
  <2>4. Len(u) >= Len(rows[f])
    BY <1>1, <2>3
  <2> QED BY <1>4, <1>8, <2>2, <2>3, <2>4
<1>9. ASSUME NEW h \in Families, NEW g \in 1 .. MaxGenerations, Expire(h, g), Exists(f)
      PROVE  Exists(f)' /\ (Over(f) => Over(f)')
  <2>1. rows' = [rows EXCEPT ![h] = [rows[h] EXCEPT ![g] = [rows[h][g] EXCEPT !.expired = TRUE]]]
    BY <1>9 DEF Expire
  <2>2. CASE h # f
    <3>1. rows'[f] = rows[f]
      BY <1>1, <2>1, <2>2
    <3> QED BY <1>2, <1>9, <3>1
  <2>3. CASE h = f
    <3>1. g \in 1 .. Len(rows[f]) /\ rows[f][g] \in Row
      BY <1>9, <2>3, RowsAre DEF Expire, IInv
    <3>2. PICK e : e = [rows[f][g] EXCEPT !.expired = TRUE]
      OBVIOUS
    <3>3. e \in Row /\ e.expired
      BY <3>1, <3>2 DEF Row
    <3>4. rows'[f] = [rows[f] EXCEPT ![g] = e]
      BY <1>1, <2>1, <2>3, <3>2
    <3>5. PICK u : u = [rows[f] EXCEPT ![g] = e]
      OBVIOUS
    <3>6. u \in Seq(Row) /\ Len(u) = Len(rows[f])
      BY <1>1, <3>1, <3>3, <3>5
    <3>7. \A i \in 1 .. Len(rows[f]) : u[i] = IF i = g THEN e ELSE rows[f][i]
      BY <1>1, <3>5
    <3>8. Len(u) >= Len(rows[f])
      BY <1>1, <3>6
    <3> QED BY <1>4, <1>9, <3>3, <3>4, <3>5, <3>6, <3>7, <3>8
  <2> QED BY <2>2, <2>3
<1>10. CASE UNCHANGED vars
  BY <1>2, <1>10 DEF vars
<1> QED BY <1>2, <1>3, <1>5, <1>6, <1>7, <1>8, <1>9, <1>10 DEF Next, Run

\* The sockets begin in the invariant.
LEMMA InitSocketsInv == SocketsInit => SocketsInv
<1> SUFFICES ASSUME SocketsInit PROVE SocketsInv
  OBVIOUS
<1>1. IInv
  BY InitIInv DEF SocketsInit
<1>2. NoSocket \in [phase : {"none", "hello", "up", "closed"}, fam : Families \cup {NoFamily}]
  BY DEF NoSocket
<1>3. /\ sweep \in [pc : {"idle", "list", "close"}, snap : SUBSET Sockets, live : SUBSET Families]
      /\ sweep.snap = {} /\ sweep.pc = "idle"
  BY DEF SocketsInit, NoSweep
<1>4. SocketsTyped /\ SocketsHaveFamilies /\ SweepIsRight
  BY <1>2, <1>3 DEF SocketsInit, SocketsTyped, SocketsHaveFamilies, SweepIsRight
<1> QED BY <1>1, <1>4 DEF SocketsInv

\* A step of the sessions alone.
LEMMA SessionStepKeeps ==
  ASSUME SocketsInv, [Next]_vars, UNCHANGED <<sock, sweep>>
  PROVE  SocketsInv'
<1>1. IInv /\ SocketsTyped /\ SocketsHaveFamilies /\ SweepIsRight
  BY DEF SocketsInv
<1>2. IInv' /\ SocketsTyped'
  BY <1>1, NextIInv DEF SocketsTyped
<1>3. \A f \in Families : (Exists(f) => Exists(f)') /\ (Over(f) => Over(f)')
  BY <1>1, RowsOnlyAge
<1>4. ASSUME NEW s \in Sockets, sock'[s] # NoSocket PROVE sock'[s].fam \in Families /\ Exists(sock[s].fam)'
  <2>1. sock'[s] = sock[s] /\ sock[s].fam \in Families /\ Exists(sock[s].fam)
    BY <1>1, <1>4 DEF SocketsHaveFamilies
  <2>2. PICK f \in Families : f = sock[s].fam
    BY <2>1
  <2>3. Exists(f)' /\ sock'[s].fam = f
    BY <1>3, <2>1, <2>2
  <2> QED BY <2>3 DEF Exists
<1>5. ASSUME sweep'.pc = "close", NEW s \in sweep'.snap PROVE sock'[s].fam \in sweep'.live \/ Over(sock[s].fam)'
  <2>1. /\ s \in Sockets /\ sock[s] # NoSocket /\ (sock[s].fam \in sweep.live \/ Over(sock[s].fam))
        /\ sock' = sock /\ sweep' = sweep
    BY <1>1, <1>5 DEF SweepIsRight, SocketsTyped
  <2>2. PICK f \in Families : f = sock[s].fam
    BY <1>1, <2>1 DEF SocketsHaveFamilies
  <2>3. sock'[s].fam = f /\ (f \in sweep'.live \/ Over(f)')
    BY <1>3, <2>1, <2>2
  <2> QED BY <2>3 DEF Over
<1>6. SocketsHaveFamilies'
  BY <1>4 DEF SocketsHaveFamilies
<1>7. SweepIsRight'
  BY <1>1, <1>5 DEF SweepIsRight
<1> QED BY <1>2, <1>6, <1>7 DEF SocketsInv

\* A step of the sockets or of the sweep: what it closes is over.
LEMMA SocketStepKeeps ==
  ASSUME SocketsInv, UNCHANGED vars,
         \/ \E s \in Sockets : Join(s) \/ Leave(s) \/ \E f \in Families : Dial(s, f)
         \/ SnapshotSockets \/ ListFamilies \/ ListFails \/ CloseRevoked
  PROVE  /\ SocketsInv'
         /\ \A s \in Sockets : Up(s) /\ sock'[s].phase = "closed" => Over(sock[s].fam)
<1>1. IInv /\ SocketsTyped /\ SocketsHaveFamilies /\ SweepIsRight
  BY DEF SocketsInv
<1>2. rows' = rows /\ IInv'
  <2>1. [Next]_vars
    OBVIOUS
  <2> QED BY <1>1, <2>1, NextIInv DEF vars
<1>3. /\ \A s \in Sockets : sock[s] \in [phase : {"none", "hello", "up", "closed"}, fam : Families \cup {NoFamily}]
      /\ sock \in [Sockets -> [phase : {"none", "hello", "up", "closed"}, fam : Families \cup {NoFamily}]]
      /\ sweep \in [pc : {"idle", "list", "close"}, snap : SUBSET Sockets, live : SUBSET Families]
      /\ sweep.snap \subseteq Sockets
  BY <1>1 DEF SocketsTyped
<1>4. /\ NoSocket \in [phase : {"none", "hello", "up", "closed"}, fam : Families \cup {NoFamily}]
      /\ NoSocket.phase = "none"
      /\ NoSweep \in [pc : {"idle", "list", "close"}, snap : SUBSET Sockets, live : SUBSET Families]
      /\ NoSweep.snap = {} /\ NoSweep.pc = "idle"
  BY DEF NoSocket, NoSweep
<1> DEFINE Closed == \A s \in Sockets : Up(s) /\ sock'[s].phase = "closed" => Over(sock[s].fam)
<1>5. ASSUME NEW s \in Sockets, Join(s) PROVE SocketsInv' /\ Closed
  <2>1. PICK x : x = [sock[s] EXCEPT !.phase = "up"]
    OBVIOUS
  <2>2. /\ sock' = [sock EXCEPT ![s] = x] /\ sweep' = sweep /\ sock[s] # NoSocket
        /\ x \in [phase : {"none", "hello", "up", "closed"}, fam : Families \cup {NoFamily}]
        /\ x.fam = sock[s].fam /\ x.phase = "up" /\ x # NoSocket
    BY <1>3, <1>4, <1>5, <2>1 DEF Join
  <2>3. \A o \in Sockets : /\ (sock'[o] = NoSocket <=> sock[o] = NoSocket) /\ sock'[o].fam = sock[o].fam
                           /\ (sock'[o] = sock[o] \/ sock'[o].phase = "up")
    BY <1>3, <2>2
  <2>4. SocketsTyped'
    BY <1>3, <2>2 DEF SocketsTyped
  <2>5. SocketsHaveFamilies'
    BY <1>1, <1>2, <2>3 DEF SocketsHaveFamilies, Exists
  <2>6. SweepIsRight'
    BY <1>1, <1>2, <1>3, <2>2, <2>3 DEF SweepIsRight, Over
  <2>7. Closed
    BY <2>3 DEF Up
  <2> QED BY <1>2, <2>4, <2>5, <2>6, <2>7 DEF SocketsInv
<1>6. ASSUME NEW s \in Sockets, Leave(s) PROVE SocketsInv' /\ Closed
  <2>1. sock' = [sock EXCEPT ![s] = NoSocket] /\ sweep' = [sweep EXCEPT !.snap = @ \ {s}]
    BY <1>6 DEF Leave
  <2>2. /\ sweep'.snap = sweep.snap \ {s} /\ sweep'.pc = sweep.pc /\ sweep'.live = sweep.live
        /\ sweep' \in [pc : {"idle", "list", "close"}, snap : SUBSET Sockets, live : SUBSET Families]
    BY <1>3, <2>1
  <2>3. sock'[s] = NoSocket /\ \A o \in Sockets \ {s} : sock'[o] = sock[o]
    BY <1>3, <2>1
  <2>4. SocketsTyped'
    BY <1>3, <1>4, <2>1, <2>2 DEF SocketsTyped
  <2>5. SocketsHaveFamilies'
    BY <1>1, <1>2, <2>3 DEF SocketsHaveFamilies, Exists
  <2>6. SweepIsRight'
    BY <1>1, <1>2, <1>3, <2>2, <2>3 DEF SweepIsRight, Over
  <2>7. Closed
    BY <1>4, <2>3 DEF Up
  <2> QED BY <1>2, <2>4, <2>5, <2>6, <2>7 DEF SocketsInv
<1>7. ASSUME NEW s \in Sockets, NEW f \in Families, Dial(s, f) PROVE SocketsInv' /\ Closed
  <2>1. PICK x : x = [phase |-> "hello", fam |-> f]
    OBVIOUS
  <2>2. /\ sock' = [sock EXCEPT ![s] = x] /\ sweep' = sweep /\ sock[s] = NoSocket
        /\ x \in [phase : {"none", "hello", "up", "closed"}, fam : Families \cup {NoFamily}]
        /\ x.fam = f /\ x.phase = "hello"
    BY <1>7, <2>1 DEF Dial
  <2>3. Exists(f)
    BY <1>7 DEF Dial, Accepted, Exists
  <2>4. /\ sock'[s] = x /\ \A o \in Sockets \ {s} : sock'[o] = sock[o]
        /\ s \notin sweep.snap
    BY <1>1, <1>3, <2>2 DEF SweepIsRight
  <2>5. SocketsTyped'
    BY <1>3, <2>2 DEF SocketsTyped
  <2>6. SocketsHaveFamilies'
    BY <1>1, <1>2, <2>2, <2>3, <2>4 DEF SocketsHaveFamilies, Exists
  <2>7. SweepIsRight'
    BY <1>1, <1>2, <1>3, <2>2, <2>4 DEF SweepIsRight, Over
  <2>8. Closed
    BY <2>2, <2>4 DEF Up
  <2> QED BY <1>2, <2>5, <2>6, <2>7, <2>8 DEF SocketsInv
<1>8. ASSUME sock' = sock PROVE SocketsHaveFamilies' /\ Closed
  BY <1>1, <1>2, <1>8 DEF SocketsHaveFamilies, Exists, Up
<1>9. CASE SnapshotSockets
  <2>1. sock' = sock /\ sweep' = [NoSweep EXCEPT !.pc = "list", !.snap = {s \in Sockets : Up(s)}]
    BY <1>9 DEF SnapshotSockets
  <2>2. /\ sweep' \in [pc : {"idle", "list", "close"}, snap : SUBSET Sockets, live : SUBSET Families]
        /\ sweep'.pc = "list" /\ \A s \in sweep'.snap : sock[s].phase = "up"
    BY <2>1 DEF NoSweep, Up
  <2>3. SocketsTyped' /\ SweepIsRight'
    BY <1>3, <1>4, <2>1, <2>2 DEF SocketsTyped, SweepIsRight
  <2> QED BY <1>2, <1>8, <2>1, <2>3 DEF SocketsInv
<1>10. CASE ListFamilies
  <2>1. sock' = sock /\ sweep' = [sweep EXCEPT !.pc = "close", !.live = {f \in Families : Listed(f)}]
    BY <1>10 DEF ListFamilies
  <2>2. /\ sweep' \in [pc : {"idle", "list", "close"}, snap : SUBSET Sockets, live : SUBSET Families]
        /\ sweep'.snap = sweep.snap /\ \A f \in Families : Listed(f) => f \in sweep'.live
    BY <1>3, <2>1
  <2>3. ASSUME NEW f \in Families, Exists(f) PROVE Listed(f) \/ Over(f)
    <3>1. rows[f] \in Seq(Row) /\ Len(rows[f]) \in Nat
      BY <1>1, RowsAre DEF IInv
    <3>2. Len(rows[f]) \in 1 .. Len(rows[f])
      BY <2>3, <3>1 DEF Exists
    <3> QED BY <2>3, <3>2 DEF Listed, Newest, Over
  <2>4. \A s \in sweep.snap : sock[s].fam \in sweep'.live \/ Over(sock[s].fam)
    BY <1>1, <1>3, <2>2, <2>3 DEF SweepIsRight, SocketsHaveFamilies
  <2>5. SocketsTyped' /\ SweepIsRight'
    BY <1>1, <1>2, <1>3, <2>1, <2>2, <2>4 DEF SocketsTyped, SweepIsRight, Over
  <2> QED BY <1>2, <1>8, <2>1, <2>5 DEF SocketsInv
<1>11. CASE ListFails
  <2>1. sock' = sock /\ sweep' = NoSweep
    BY <1>11 DEF ListFails
  <2>2. SocketsTyped' /\ SweepIsRight'
    BY <1>3, <1>4, <2>1 DEF SocketsTyped, SweepIsRight
  <2> QED BY <1>2, <1>8, <2>1, <2>2 DEF SocketsInv
<1>12. CASE CloseRevoked
  <2>1. /\ sweep.pc = "close" /\ sweep' = NoSweep
        /\ sock' = [s \in Sockets |-> IF s \in sweep.snap /\ Up(s) /\ sock[s].fam \notin sweep.live
                                        THEN [sock[s] EXCEPT !.phase = "closed"] ELSE sock[s]]
    BY <1>12 DEF CloseRevoked
  <2>2. ASSUME NEW s \in Sockets
        PROVE  /\ sock'[s] \in [phase : {"none", "hello", "up", "closed"}, fam : Families \cup {NoFamily}]
               /\ sock'[s].fam = sock[s].fam /\ (sock[s] = NoSocket => sock'[s] = NoSocket)
               /\ \/ sock'[s] = sock[s]
                  \/ s \in sweep.snap /\ sock[s].fam \notin sweep.live
    <3>1. sock[s] \in [phase : {"none", "hello", "up", "closed"}, fam : Families \cup {NoFamily}]
      BY <1>3
    <3>2. CASE s \in sweep.snap /\ Up(s) /\ sock[s].fam \notin sweep.live
      <4>1. sock'[s] = [sock[s] EXCEPT !.phase = "closed"] /\ sock[s].phase = "up"
        BY <2>1, <3>2 DEF Up
      <4>2. sock[s] # NoSocket
        BY <1>4, <4>1
      <4>3. [sock[s] EXCEPT !.phase = "closed"] \in [phase : {"none", "hello", "up", "closed"}, fam : Families \cup {NoFamily}]
            /\ [sock[s] EXCEPT !.phase = "closed"].fam = sock[s].fam
        BY <3>1
      <4> QED BY <3>2, <4>1, <4>2, <4>3
    <3>3. CASE ~(s \in sweep.snap /\ Up(s) /\ sock[s].fam \notin sweep.live)
      BY <2>1, <3>1, <3>3
    <3> QED BY <3>2, <3>3
  <2>3. SocketsTyped'
    BY <1>4, <2>1, <2>2 DEF SocketsTyped
  <2>4. SocketsHaveFamilies'
    BY <1>1, <1>2, <2>2 DEF SocketsHaveFamilies, Exists
  <2>5. SweepIsRight'
    BY <1>4, <2>1 DEF SweepIsRight
  <2>6. Closed
    BY <1>1, <2>1, <2>2 DEF SweepIsRight, Up
  <2> QED BY <1>2, <2>3, <2>4, <2>5, <2>6 DEF SocketsInv
<1> QED BY <1>5, <1>6, <1>7, <1>9, <1>10, <1>11, <1>12

\* The sweep closes the sockets of families that were revoked or ran out, and no
\* others, for every number of sockets, families and transactions, whatever is
\* signed in to, rotated, revoked and dialled between its three steps
\* (closeRevoked).
THEOREM LiveSocketsAreAlwaysKept == SocketsSpec => LiveSocketsAreKept
<1> DEFINE Kept == \A s \in Sockets :
             (Up(s) /\ sock'[s].phase = "closed")
               => \E g \in DOMAIN rows[sock[s].fam] :
                    rows[sock[s].fam][g].revoked \/ rows[sock[s].fam][g].expired
<1>1. ASSUME SocketsInv, [SocketsNext]_allVars PROVE SocketsInv' /\ Kept
  <2>1. SUFFICES SocketsInv' /\ \A s \in Sockets : Up(s) /\ sock'[s].phase = "closed" => Over(sock[s].fam)
    <3>1. ASSUME NEW s \in Sockets, Up(s), Over(sock[s].fam)
          PROVE  \E g \in DOMAIN rows[sock[s].fam] :
                   rows[sock[s].fam][g].revoked \/ rows[sock[s].fam][g].expired
      <4>1. sock[s].fam \in Families
        BY <1>1, <3>1 DEF SocketsInv, SocketsHaveFamilies, Up, NoSocket
      <4>2. DOMAIN rows[sock[s].fam] = 1 .. Len(rows[sock[s].fam])
        BY <1>1, <4>1, RowsAre DEF SocketsInv, IInv
      <4> QED BY <3>1, <4>2 DEF Over
    <3> QED BY <2>1, <3>1
  <2>2. CASE [Next]_vars /\ UNCHANGED <<sock, sweep>>
    <3>1. SocketsInv' /\ sock' = sock
      BY <1>1, <2>2, SessionStepKeeps
    <3> QED BY <3>1 DEF Up
  <2>3. CASE /\ UNCHANGED vars
             /\ \/ \E s \in Sockets : Join(s) \/ Leave(s) \/ \E f \in Families : Dial(s, f)
                \/ SnapshotSockets \/ ListFamilies \/ ListFails \/ CloseRevoked
    BY <1>1, <2>3, SocketStepKeeps
  <2>4. CASE UNCHANGED allVars
    BY <2>2, <2>4 DEF allVars
  <2>5. CASE SocketsNext
    BY <2>2, <2>3, <2>5 DEF SocketsNext, Join, Leave, Dial, SnapshotSockets, ListFamilies, ListFails, CloseRevoked
  <2> QED BY <1>1, <2>4, <2>5
<1>2. SocketsInv /\ [SocketsNext]_allVars => SocketsInv'
  BY <1>1
<1>3. SocketsInv /\ [SocketsNext]_allVars => [Kept]_allVars
  BY <1>1
<1> HIDE DEF Kept
<1>4. SocketsSpec => []SocketsInv
  BY InitSocketsInv, <1>2, PTL DEF SocketsSpec
<1>5. SocketsSpec => [][Kept]_allVars
  BY <1>3, <1>4, PTL DEF SocketsSpec
<1> QED BY <1>5 DEF Kept, LiveSocketsAreKept
===============================================================================
