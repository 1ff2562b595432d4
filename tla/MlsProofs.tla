------------------------------- MODULE MlsProofs -------------------------------
(***************************************************************************)
(* For any number of users, devices, packages, epochs and requests: a key   *)
(* package is handed out once, the log of commits has one entry per epoch,  *)
(* welcomes come with their commit, no backup is lost, and the statements   *)
(* on PostgreSQL do what the single steps of MlsStore do.                   *)
(***************************************************************************)
EXTENDS Mls, FiniteSetTheorems, WellFoundedInduction, TLAPS

Places == {"idle", "register", "cascade", "clear", "insert", "stored", "claim", "advance", "outsiders",
           "welcomes", "welcomed", "announce", "ack", "put", "devices", "listed", "commits", "caughtUp"}
Things == Nat \cup (Nat \X Nat)
Request == [at : Places, by : Nat, on : Nat \cup SignatureKeys, epoch : Nat, to : SUBSET Things,
            held : SUBSET PackageIds, cursor : Nat, got : SUBSET Things, twice : BOOLEAN,
            stay : SUBSET Things]

\* The tables, and what the history variables collect.
Tables ==
  /\ devices \in [DeviceIds -> Store!DeviceRow]
  /\ pool \in [PackageIds -> DeviceIds \cup {0}]
  /\ epoch \in NoGroup .. MaxEpoch /\ commits \in [Store!Epochs -> Users \cup {0}]
  /\ welcomes \subseteq DeviceIds \X Store!Epochs
  /\ backups \in [Users -> 0 .. MaxCounter]
  /\ members \subseteq Users /\ issued \in [devices : 0 .. MaxDevices, packages : 0 .. MaxPackages]
Histories ==
  /\ told \subseteq Store!Epochs /\ greeted \subseteq Users \X Store!Epochs
  /\ stale \subseteq PackageIds /\ handed \in [PackageIds -> Nat]
  /\ sent \cup gone \subseteq DeviceIds \X Store!Epochs
  /\ left \cup reset \cup blind \subseteq Users /\ mute \subseteq Store!Epochs

-------------------------------------------------------------------------------
(* What the tables tell, and what a request knows by where it is.          *)

\* The device of an id that was given out is of one owner for good.
Owned(d, u) == d \in 1 .. issued.devices /\ (Registered(d) => devices[d].by = u)

Committing == {"outsiders", "welcomes", "welcomed"}

\* Locked packages are in the pool, each of another device of the one claimed
\* from; a package that is stored is nobody's yet.
KnowsPackages(r) ==
  /\ r.at \notin {"insert", "stored", "claim"} => r.held = {}
  /\ r.at \in {"cascade", "clear", "insert", "stored"} => r.on \in DeviceIds
  /\ r.at = "clear" => r.stay \subseteq PackageIds
  /\ r.at \in {"insert", "stored"} => r.held \subseteq PoolOf(r.on)
  /\ r.at \in {"cascade", "stored"} => Registered(r.on)
  /\ r.at = "stored" => \E n \in 1 .. issued.packages :
       r.to = {n} /\ pool[n] = 0 /\ handed[n] = 0 /\ n \notin stale
  /\ r.at = "claim" =>
       /\ r.on \in Users /\ r.to \subseteq DeviceIds
       /\ \A d \in r.to : Owned(d, r.on)
       /\ \A k \in r.held : pool[k] # 0 /\ devices[pool[k]].by = r.on /\ pool[k] \notin r.to
       /\ \A k, l \in r.held : pool[k] = pool[l] => k = l

\* A commit that has the group's row has the epoch it names.
KnowsEpoch(r) ==
  /\ r.at \in {"advance"} \cup Committing =>
       r.epoch \in 0 .. MaxEpoch - 1 /\ r.by \in Users /\ r.to \subseteq 1 .. issued.devices
  /\ r.at \in Committing => epoch = r.epoch
  /\ r.at \in {"welcomes", "welcomed"} => \A d \in r.to : Registered(d) => devices[d].by \in members \cup left
  /\ r.at \in {"welcomes", "welcomed"} => \A d \in r.to \ r.stay : Registered(d)
  /\ r.at = "welcomed" => r.stay = {}
  /\ r.at = "announce" => r.epoch \in Store!Epochs /\ r.epoch <= epoch /\ r.to \subseteq Users
  /\ r.at = "ack" =>
       /\ r.to \subseteq DeviceIds \X Store!Epochs /\ \A v, w \in r.to : v = w
       /\ \A w \in r.to : w[2] <= epoch

\* A client seals the next backup from the one it read; what is stored is not
\* older, unless it was deleted.
KnowsBackup(r) ==
  /\ r.at = "register" => r.by \in Users /\ r.on \in SignatureKeys
  /\ r.at = "put" => /\ r.by \in Users /\ r.epoch \in 0 .. MaxCounter - 1
                     /\ r.by \notin reset => r.epoch <= backups[r.by]

\* A walk has listed what is before its cursor, and nothing behind it.
KnowsWalk(r) ==
  /\ r.at = "devices" =>
       /\ ~r.twice
       /\ \A x \in r.got : x \in Nat \X Nat /\ x[1] <= r.cursor
       /\ \A x \in r.stay : x \in r.got \/ (x \in Store!Listing(members) /\ x[1] > r.cursor)
  /\ r.at = "listed" => r.stay \subseteq r.got /\ ~r.twice
  /\ r.at = "commits" =>
       /\ r.epoch <= r.cursor /\ r.cursor <= epoch
       /\ r.got = r.epoch + 1 .. r.cursor
       /\ r.stay \subseteq r.epoch + 1 .. epoch
  /\ r.at = "caughtUp" => r.stay \subseteq r.got /\ r.got = r.epoch + 1 .. r.cursor

\* What two requests hold goes together.
Apart(r, s) ==
  /\ r.held \cap s.held = {}
  /\ r.at \in Committing => s.at \notin Committing
  /\ r.at = "stored" /\ s.at = "stored" => r.to \cap s.to = {}
  /\ r.at = "cascade" =>
       /\ ~(s.at \in {"cascade", "stored"} /\ s.on = r.on)
       /\ ~(s.at \in {"welcomes", "welcomed"} /\ r.on \in s.to \ s.stay)

Packages == \A k \in PackageIds :
  /\ pool[k] # 0 => Registered(pool[k])
  /\ handed[k] = 0 \/ (handed[k] = 1 /\ pool[k] = 0)
  /\ k > issued.packages => pool[k] = 0 /\ handed[k] = 0 /\ k \notin stale
Issued == \A d \in DeviceIds : Registered(d) => d <= issued.devices
Log == \A e \in Store!Epochs : commits[e] # 0 <=> e <= epoch
Welcomes ==
  /\ welcomes = sent \ gone
  /\ \A w \in welcomes : Registered(w[1]) /\ devices[w[1]].by \in members \cup left
  /\ \A w \in sent \cup gone : w[2] <= epoch

\* Each commit was announced, will be, or was cut off.
Announced == \A e \in Store!Epochs : e <= epoch =>
  \/ e \in mute
  \/ e \in told /\ \A w \in welcomes : w[2] = e => <<devices[w[1]].by, e>> \in greeted
  \/ \E p \in Requests : /\ req[p].at = "announce" /\ req[p].epoch = e
                         /\ \A w \in welcomes : w[2] = e => devices[w[1]].by \in req[p].to

Knows(r) == KnowsPackages(r) /\ KnowsEpoch(r) /\ KnowsBackup(r) /\ KnowsWalk(r)

IInv ==
  /\ Tables /\ Histories /\ req \in [Requests -> Request]
  /\ Packages /\ Issued /\ Log /\ Welcomes /\ Announced /\ BackupIsNotLost
  /\ \A p \in Requests : Knows(req[p])
  /\ \A p, q \in Requests : p # q => Apart(req[p], req[q])
-------------------------------------------------------------------------------
(* A step of one request that leaves the tables alone.                     *)

\* A request that is not there knows and holds nothing.
LEMMA IdleOK == /\ Idle \in Request /\ Idle.at = "idle" /\ Idle.held = {}
                /\ Knows(Idle)
                /\ \A s \in Request : Apart(Idle, s) /\ Apart(s, Idle)
<1>1. Idle \in Request /\ Idle.at = "idle" /\ Idle.held = {}
  BY DEF Idle, Request, Places, Things
<1>2. Knows(Idle)
  BY <1>1 DEF Knows, KnowsPackages, KnowsEpoch, KnowsBackup, KnowsWalk, Committing
<1>3. \A s \in Request : Apart(Idle, s) /\ Apart(s, Idle)
  BY <1>1 DEF Apart, Committing
<1> QED BY <1>1, <1>2, <1>3

Shared == <<devices, pool, epoch, commits, welcomes, backups, members, issued, stale, handed, sent, gone,
            left, reset, blind>>

\* What a request knows is about what the requests share.
LEMMA KnowsStays ==
  ASSUME UNCHANGED Shared, NEW r, Knows(r)
  PROVE  Knows(r)'
BY DEF Shared, Knows, KnowsPackages, KnowsEpoch, KnowsBackup, KnowsWalk, Owned, Registered, Store!Registered,
       Store!Listing, Store!DevicesOf, PoolOf

\* When one request moves, leaves the tables alone and knows the truth, and
\* what it holds goes with what the others hold, the invariant stays, up to
\* what was announced.
LEMMA MoveKeeps ==
  ASSUME IInv, NEW p \in Requests, NEW r \in Request, req' = [req EXCEPT ![p] = r],
         UNCHANGED Shared, Histories', Knows(r), Announced',
         \A q \in Requests \ {p} : Apart(r, req[q]) /\ Apart(req[q], r)
  PROVE  IInv'
<1>1. req' \in [Requests -> Request] /\ req'[p] = r /\ \A q \in Requests \ {p} : req'[q] = req[q]
  BY DEF IInv
<1>2. Tables' /\ Packages' /\ Issued' /\ Log' /\ Welcomes' /\ BackupIsNotLost'
  BY DEF IInv, Shared, Tables, Packages, Issued, Log, Welcomes, BackupIsNotLost, Registered, Store!Registered
<1>3. ASSUME NEW q \in Requests PROVE Knows(req[q])'
  <2>1. CASE q = p
    BY <1>1, <2>1, KnowsStays
  <2>2. CASE q # p
    <3>1. Knows(req[q])
      BY DEF IInv
    <3>2. req'[q] = req[q]
      BY <1>1, <2>2
    <3> QED BY <3>1, <3>2, KnowsStays
  <2> QED BY <2>1, <2>2
<1>4. ASSUME NEW q \in Requests, NEW s \in Requests, q # s PROVE Apart(req[q], req[s])'
  <2>1. Apart(req[q], req[s])
    BY <1>4 DEF IInv
  <2> QED BY <1>1, <1>4, <2>1 DEF Apart
<1> QED BY <1>1, <1>2, <1>3, <1>4 DEF IInv

\* Announcements do not depend on requests that announce nothing.
LEMMA AnnouncedStays ==
  ASSUME IInv, NEW p \in Requests, NEW r, req' = [req EXCEPT ![p] = r], req[p].at # "announce",
         UNCHANGED <<devices, epoch, welcomes, told, greeted, mute>>
  PROVE  Announced'
<1>1. \A q \in Requests \ {p} : req'[q] = req[q]
  BY DEF IInv
<1> SUFFICES ASSUME NEW e \in Store!Epochs, e <= epoch
             PROVE  \/ e \in mute
                    \/ e \in told /\ \A w \in welcomes : w[2] = e => <<devices[w[1]].by, e>> \in greeted
                    \/ \E q \in Requests : /\ req'[q].at = "announce" /\ req'[q].epoch = e
                                           /\ \A w \in welcomes : w[2] = e => devices[w[1]].by \in req'[q].to
  BY DEF Announced, Store!Epochs
<1>2. CASE \E q \in Requests : /\ req[q].at = "announce" /\ req[q].epoch = e
                               /\ \A w \in welcomes : w[2] = e => devices[w[1]].by \in req[q].to
  <2>1. PICK q \in Requests : /\ req[q].at = "announce" /\ req[q].epoch = e
                             /\ \A w \in welcomes : w[2] = e => devices[w[1]].by \in req[q].to
    BY <1>2
  <2>2. q # p
    BY <2>1
  <2> QED BY <1>1, <2>1, <2>2
<1> QED BY <1>2 DEF IInv, Announced

\* So does a request that is ended.
LEMMA DoneKeeps ==
  ASSUME IInv, NEW p \in Requests, req[p].at # "announce", Done(p), UNCHANGED <<Shared, told, greeted, mute>>
  PROVE  IInv'
<1>1. req' = [req EXCEPT ![p] = Idle]
  BY DEF Done
<1>2. Announced'
  BY <1>1, AnnouncedStays DEF Shared
<1>3. Histories'
  BY DEF IInv, Histories, Shared
<1>4. \A q \in Requests : req[q] \in Request
  BY DEF IInv
<1> QED BY <1>1, <1>2, <1>3, <1>4, IdleOK, MoveKeeps

-------------------------------------------------------------------------------
(* Pages.                                                                  *)

\* A set of numbers that is not empty has a least one.
LEMMA SmallestOf ==
  ASSUME NEW S, S \subseteq Nat, S # {}
  PROVE  \E x \in S : \A y \in S : x <= y
<1> DEFINE R == {ss \in Nat \X Nat : ss[1] < ss[2]}
<1>1. IsWellFoundedOn(R, Nat)
  BY NatLessThanWellFounded DEF OpToRel
<1> HIDE DEF R
<1>2. PICK x \in S : \A y \in S : ~(<<y, x>> \in R)
  BY <1>1, WFMin
<1>3. ASSUME NEW y \in S PROVE x <= y
  <2>1. x \in Nat /\ y \in Nat /\ ~(<<y, x>> \in R)
    BY <1>2
  <2> QED BY <2>1 DEF R
<1> QED BY <1>3

\* The last row of a page that is not empty is its largest.
LEMMA LastIs ==
  ASSUME NEW n \in Nat, NEW S, S \subseteq 0 .. n, S # {}
  PROVE  Last(S) \in S /\ \A y \in S : y <= Last(S)
<1> DEFINE T == {m \in 0 .. n : n - m \in S}
<1>1. T \subseteq Nat /\ T # {}
  <2>1. PICK x \in S : TRUE
    OBVIOUS
  <2>2. x \in 0 .. n
    BY <2>1
  <2>3. n - x \in 0 .. n /\ n - (n - x) = x
    BY <2>2
  <2>4. n - x \in T
    BY <2>1, <2>3
  <2> HIDE DEF T
  <2>5. T \subseteq Nat
    BY DEF T
  <2> QED BY <2>4, <2>5
<1>2. PICK m \in T : \A l \in T : m <= l
  BY <1>1, SmallestOf
<1>3. ASSUME NEW y \in S PROVE y <= n - m
  <2>1. y \in 0 .. n /\ n - y \in 0 .. n /\ n - (n - y) = y
    OBVIOUS
  <2>2. n - y \in T
    BY <2>1
  <2>3. m <= n - y
    BY <1>2, <2>2
  <2> QED BY <2>1, <2>3
<1>4. n - m \in S
  BY <1>2
<1> QED BY <1>3, <1>4 DEF Last

\* The first rows of a list are a beginning of it, are some if there are some,
\* and are all if they are fewer than were asked for.
LEMMA LeastFacts ==
  ASSUME NEW n \in Nat, NEW S, S \subseteq 0 .. n, NEW m \in Nat
  PROVE  /\ Least(S, m) \subseteq S
         /\ m # 0 /\ S # {} => Least(S, m) # {}
         /\ \A x \in Least(S, m), y \in S : y <= x => y \in Least(S, m)
         /\ Cardinality(Least(S, m)) < m => Least(S, m) = S
         /\ IsFiniteSet(S) /\ Cardinality(S) \in Nat
         /\ Cardinality(S) <= m => Least(S, m) = S
<1> DEFINE Below(x) == {y \in S : y < x}
<1>0. S \subseteq Nat /\ \A x \in S : x \in Int
  OBVIOUS
<1>1. ASSUME NEW T \in SUBSET S PROVE IsFiniteSet(T) /\ Cardinality(T) \in Nat
  <2>1. IsFiniteSet(0 .. n)
    BY FS_Interval
  <2>2. T \in SUBSET (0 .. n)
    OBVIOUS
  <2>3. IsFiniteSet(T)
    BY <2>1, <2>2, FS_Subset
  <2> QED BY <2>3, FS_CardinalityType
<1>2. \A x \in S : Cardinality(Below(x)) \in Nat
  BY <1>1
<1>3. Least(S, m) \subseteq S
  BY DEF Least
<1>4. ASSUME m # 0, S # {} PROVE Least(S, m) # {}
  <2>1. PICK x \in S : \A y \in S : x <= y
    BY <1>0, <1>4, SmallestOf
  <2>2. ASSUME NEW y \in S PROVE ~(y < x)
    <3>1. x \in Int /\ y \in Int /\ x <= y
      BY <1>0, <2>1
    <3> QED BY <3>1
  <2>3. Below(x) = {}
    BY <2>2
  <2>4. Cardinality(Below(x)) = 0
    BY <2>3, FS_EmptySet
  <2> QED BY <1>4, <2>4 DEF Least
<1>5. ASSUME NEW x \in Least(S, m), NEW y \in S, y <= x PROVE y \in Least(S, m)
  <2>1. ASSUME NEW z \in S, z < y PROVE z < x
    <3>1. x \in Int /\ y \in Int /\ z \in Int
      BY <1>0, <1>3
    <3> QED BY <1>5, <2>1, <3>1
  <2>2. Below(y) \subseteq Below(x)
    BY <2>1
  <2>3. Cardinality(Below(y)) <= Cardinality(Below(x))
    BY <1>1, <2>2, FS_Subset
  <2>4. Cardinality(Below(x)) < m
    BY DEF Least
  <2> QED BY <1>2, <1>3, <2>3, <2>4 DEF Least
<1>6. ASSUME Cardinality(Least(S, m)) < m PROVE Least(S, m) = S
  <2> DEFINE Rest == S \ Least(S, m)
  <2>1. SUFFICES ASSUME Rest # {} PROVE FALSE
    BY <1>3
  <2>2. PICK x \in Rest : \A y \in Rest : x <= y
    BY <1>0, <2>1, SmallestOf
  <2>3. ASSUME NEW y \in S, y < x PROVE y \in Least(S, m)
    <3>1. x \in Int /\ y \in Int /\ ~(x <= y)
      BY <1>0, <2>2, <2>3
    <3> QED BY <2>2, <3>1
  <2>4. Below(x) \subseteq Least(S, m)
    BY <2>3
  <2>5. Cardinality(Below(x)) <= Cardinality(Least(S, m))
    BY <1>1, <1>3, <2>4, FS_Subset
  <2>6. Cardinality(Below(x)) < m
    BY <1>1, <1>2, <1>3, <1>6, <2>5
  <2> QED BY <2>2, <2>6 DEF Least
<1>7. ASSUME Cardinality(S) <= m, NEW x \in S PROVE x \in Least(S, m)
  <2>1. Below(x) \in SUBSET S /\ Below(x) # S
    OBVIOUS
  <2>2. Cardinality(Below(x)) <= Cardinality(S) /\ Cardinality(Below(x)) # Cardinality(S)
    BY <1>1, <2>1, FS_Subset
  <2>3. Cardinality(Below(x)) < m
    BY <1>1, <1>2, <1>7, <2>2
  <2> QED BY <2>3 DEF Least
<1> QED BY <1>1, <1>3, <1>4, <1>5, <1>6, <1>7

-------------------------------------------------------------------------------
(* The steps that only move a request.                                     *)

\* The ids are positive numbers.
LEMMA Numbers ==
  /\ Users \subseteq Nat \ {0} /\ Users = 1 .. Cardinality(Users) /\ Cardinality(Users) \in Nat
  /\ DeviceIds \subseteq Nat \ {0} /\ PackageIds \subseteq Nat \ {0} /\ Store!Epochs \subseteq Nat \ {0}
  /\ MaxDevices \in Nat /\ MaxPackages \in Nat /\ MaxEpoch \in Nat /\ MaxCounter \in Nat
  /\ PageLimit \in Nat \ {0}
BY MlsAssumptions DEF DeviceIds, PackageIds, Store!Epochs

\* A device that is there has an owner, and its id was given out.
LEMMA RegisteredHasOwner ==
  ASSUME IInv, NEW d \in DeviceIds
  PROVE  /\ devices[d].by \in Users \cup {0} /\ devices[d].by \in Nat
         /\ Registered(d) <=> devices[d].by # 0
         /\ Registered(d) => d \in 1 .. issued.devices
         /\ issued.devices \in 0 .. MaxDevices /\ issued.packages \in 0 .. MaxPackages
<1>1. devices[d] \in Store!DeviceRow /\ issued.devices \in 0 .. MaxDevices /\ issued.packages \in 0 .. MaxPackages
  BY DEF IInv, Tables
<1>2. devices[d].by \in Users \cup {0} /\ (Registered(d) <=> devices[d].by # 0)
  BY <1>1, Numbers DEF Store!DeviceRow, Store!NoDevice, Registered, Store!Registered
<1>3. Registered(d) => d <= issued.devices
  BY DEF IInv, Issued
<1> QED BY <1>1, <1>2, <1>3, Numbers

\* The same when nothing is announced.
LEMMA StepKeeps ==
  ASSUME IInv, NEW p \in Requests, NEW r \in Request, req' = [req EXCEPT ![p] = r], req[p].at # "announce",
         UNCHANGED <<Shared, told, greeted, mute>>, Knows(r),
         \A q \in Requests \ {p} : Apart(r, req[q]) /\ Apart(req[q], r)
  PROVE  IInv'
<1>1. Announced'
  BY AnnouncedStays DEF Shared
<1>2. Histories'
  BY DEF IInv, Histories, Shared
<1> QED BY <1>1, <1>2, MoveKeeps

Unlocked == {"register", "clear", "claim", "advance", "ack", "put", "devices", "listed", "commits", "caughtUp"}

\* A request that begins holds nothing.
LEMMA BeginKeeps ==
  ASSUME IInv, NEW p \in Requests, NEW op, NEW r \in Request, selfScope(p, op, r),
         r.at \in Unlocked, r.held = {}, Knows(r), UNCHANGED <<Shared, told, greeted, mute>>
  PROVE  IInv'
<1>1. req' = [req EXCEPT ![p] = r] /\ req[p].at # "announce"
  BY DEF selfScope
<1>2. ASSUME NEW q \in Requests PROVE Apart(r, req[q]) /\ Apart(req[q], r)
  BY DEF Apart, Unlocked, Committing
<1> QED BY <1>1, <1>2, StepKeeps

\* A registration begins: it knows its user and its key.
LEMMA RegisterKeeps == ASSUME IInv, NEW p \in Requests, RegisterMlsDevice(p) PROVE IInv'
<1>1. PICK u \in Users, key \in SignatureKeys :
        selfScope(p, "Register", [Idle EXCEPT !.at = "register", !.by = u, !.on = key])
  BY DEF RegisterMlsDevice
<1> DEFINE r == [Idle EXCEPT !.at = "register", !.by = u, !.on = key]
<1>2. r \in Request /\ r.held = {} /\ r.at = "register" /\ r.by = u /\ r.on = key
  BY Numbers DEF Idle, Request, Places, Things
<1>3. Knows(r)
  BY <1>2 DEF Knows, KnowsPackages, KnowsEpoch, KnowsBackup, KnowsWalk, Committing
<1>4. UNCHANGED <<Shared, told, greeted, mute>>
  BY DEF RegisterMlsDevice, Shared, storeVars, ghostVars
<1> HIDE DEF r
<1> QED BY <1>1, <1>2, <1>3, <1>4, BeginKeeps DEF Unlocked, r

\* A replacement begins: its snapshot shows packages of its device.
LEMMA ReplaceKeeps == ASSUME IInv, NEW p \in Requests, ReplaceMlsKeyPackages(p) PROVE IInv'
<1>1. PICK d \in DeviceIds :
        /\ Registered(d)
        /\ selfScope(p, "Replace", [Idle EXCEPT !.at = "clear", !.by = devices[d].by, !.on = d, !.stay = PoolOf(d)])
  BY DEF ReplaceMlsKeyPackages
<1> DEFINE r == [Idle EXCEPT !.at = "clear", !.by = devices[d].by, !.on = d, !.stay = PoolOf(d)]
<1>2. devices[d].by \in Nat /\ PoolOf(d) \subseteq Nat /\ d \in Nat
  BY Numbers, RegisteredHasOwner DEF PoolOf
<1>3. r \in Request /\ r.held = {} /\ r.at = "clear" /\ r.on = d /\ r.stay \subseteq PackageIds
  BY <1>2 DEF Idle, Request, Places, Things, PoolOf
<1>4. Knows(r)
  BY <1>3 DEF Knows, KnowsPackages, KnowsEpoch, KnowsBackup, KnowsWalk, Committing
<1>5. UNCHANGED <<Shared, told, greeted, mute>>
  BY DEF ReplaceMlsKeyPackages, Shared, storeVars, ghostVars
<1> HIDE DEF r
<1> QED BY <1>1, <1>3, <1>4, <1>5, BeginKeeps DEF Unlocked, r

\* A client reads its backup: what is stored is not older.
LEMMA BackupBeginKeeps == ASSUME IInv, NEW p \in Requests, GetMlsBackup(p) PROVE IInv'
<1>1. PICK u \in Users :
        /\ backups[u] < MaxCounter
        /\ selfScope(p, "Backup", [Idle EXCEPT !.at = "put", !.by = u, !.epoch = backups[u]])
  BY DEF GetMlsBackup
<1> DEFINE r == [Idle EXCEPT !.at = "put", !.by = u, !.epoch = backups[u]]
<1>2. backups[u] \in Nat /\ backups[u] \in 0 .. MaxCounter - 1 /\ u \in Nat
  BY <1>1, Numbers DEF IInv, Tables
<1>3. r \in Request /\ r.held = {} /\ r.at = "put" /\ r.by = u /\ r.epoch = backups[u]
  BY <1>2 DEF Idle, Request, Places, Things
<1>4. Knows(r)
  BY <1>2, <1>3 DEF Knows, KnowsPackages, KnowsEpoch, KnowsBackup, KnowsWalk, Committing
<1>5. UNCHANGED <<Shared, told, greeted, mute>>
  BY DEF GetMlsBackup, Shared, storeVars, ghostVars
<1> HIDE DEF r
<1> QED BY <1>1, <1>3, <1>4, <1>5, BeginKeeps DEF Unlocked, r

\* A claim begins: it has read the devices of the user it is about.
LEMMA ClaimBeginKeeps == ASSUME IInv, NEW p \in Requests, ClaimMlsKeyPackages(p) PROVE IInv'
<1>1. PICK u \in Users, v \in Users :
        selfScope(p, "Claim", [Idle EXCEPT !.at = "claim", !.by = u, !.on = v, !.to = DevicesOf(v)])
  BY DEF ClaimMlsKeyPackages, channelMlsScope
<1> DEFINE r == [Idle EXCEPT !.at = "claim", !.by = u, !.on = v, !.to = DevicesOf(v)]
<1>2. u \in Nat /\ v \in Nat \ {0} /\ DevicesOf(v) \subseteq DeviceIds /\ DevicesOf(v) \subseteq Nat
  BY Numbers DEF DevicesOf, Store!DevicesOf, Store!DeviceIds, DeviceIds
<1>3. r \in Request /\ r.held = {} /\ r.at = "claim" /\ r.on = v /\ r.to = DevicesOf(v)
  BY <1>2 DEF Idle, Request, Places, Things
<1>4. \A d \in DevicesOf(v) : Owned(d, v)
  BY <1>2, RegisteredHasOwner DEF Owned, DevicesOf, Store!DevicesOf, Store!DeviceIds, DeviceIds
<1>5. Knows(r)
  BY <1>2, <1>3, <1>4 DEF Knows, KnowsPackages, KnowsEpoch, KnowsBackup, KnowsWalk, Committing
<1>6. UNCHANGED <<Shared, told, greeted, mute>>
  BY DEF ClaimMlsKeyPackages, Shared, storeVars, ghostVars
<1> HIDE DEF r
<1> QED BY <1>1, <1>3, <1>5, <1>6, BeginKeeps DEF Unlocked, r

\* A commit begins: it names devices by ids that were given out.
LEMMA SubmitKeeps == ASSUME IInv, NEW p \in Requests, SubmitMlsCommit(p) PROVE IInv'
<1>1. PICK u \in Users, e \in 0 .. MaxEpoch - 1, to \in SUBSET (1 .. issued.devices) :
        selfScope(p, "Submit", [Idle EXCEPT !.at = "advance", !.by = u, !.epoch = e, !.to = to])
  BY DEF SubmitMlsCommit, channelMlsScope
<1> DEFINE r == [Idle EXCEPT !.at = "advance", !.by = u, !.epoch = e, !.to = to]
<1>2. u \in Nat /\ e \in Nat /\ to \subseteq Nat
  BY Numbers DEF IInv, Tables
<1>3. r \in Request /\ r.held = {} /\ r.at = "advance" /\ r.by = u /\ r.epoch = e /\ r.to = to
  BY <1>2 DEF Idle, Request, Places, Things
<1>4. Knows(r)
  BY <1>3 DEF Knows, KnowsPackages, KnowsEpoch, KnowsBackup, KnowsWalk, Committing
<1>5. UNCHANGED <<Shared, told, greeted, mute>>
  BY DEF SubmitMlsCommit, Shared, storeVars, ghostVars
<1> HIDE DEF r
<1> QED BY <1>1, <1>3, <1>4, <1>5, BeginKeeps DEF Unlocked, r

\* An acknowledgement begins: it names one welcome that is there.
LEMMA AcknowledgeKeeps == ASSUME IInv, NEW p \in Requests, AcknowledgeMlsWelcome(p) PROVE IInv'
<1>1. PICK u \in Users, w \in welcomes :
        selfScope(p, "Acknowledge", [Idle EXCEPT !.at = "ack", !.by = u, !.to = {w}])
  BY DEF AcknowledgeMlsWelcome
<1> DEFINE r == [Idle EXCEPT !.at = "ack", !.by = u, !.to = {w}]
<1>3. w \in DeviceIds \X Store!Epochs /\ w \in Nat \X Nat /\ u \in Nat \ {0}
  BY Numbers DEF IInv, Tables
<1>4. w[2] <= epoch
  BY DEF IInv, Welcomes
<1>5. r \in Request /\ r.held = {} /\ r.at = "ack" /\ r.by = u /\ r.to = {w}
  BY <1>3 DEF Idle, Request, Places, Things
<1>6. Knows(r)
  BY <1>3, <1>4, <1>5 DEF Knows, KnowsPackages, KnowsEpoch, KnowsBackup, KnowsWalk, Committing
<1>7. UNCHANGED <<Shared, told, greeted, mute>>
  BY DEF AcknowledgeMlsWelcome, Shared, storeVars, ghostVars
<1> HIDE DEF r
<1> QED BY <1>1, <1>5, <1>6, <1>7, BeginKeeps DEF Unlocked, r

\* The rows of a listing are pairs of a member and a device or 0.
LEMMA ListingIs ==
  ASSUME IInv, NEW us, us \subseteq members
  PROVE  \A x \in Store!Listing(us) : x \in Nat \X Nat /\ x[1] \in us /\ x[1] \in Nat \ {0} /\ x = <<x[1], x[2]>>
<1>1. us \subseteq Nat \ {0} /\ DeviceIds \cup {0} \subseteq Nat
  BY Numbers DEF IInv, Tables
<1>2. \A x \in Store!Listing(us) : x \in us \X (DeviceIds \cup {0})
  BY DEF Store!Listing, Store!DeviceIds, DeviceIds
<1> QED BY <1>1, <1>2

\* A walk through the members begins: all of the listing is behind its cursor.
LEMMA DevicesBeginKeeps == ASSUME IInv, NEW p \in Requests, ListMlsMemberDevices(p) PROVE IInv'
<1>1. PICK u \in Users :
        selfScope(p, "Devices", [Idle EXCEPT !.at = "devices", !.by = u, !.stay = Store!Listing(members)])
  BY DEF ListMlsMemberDevices, channelMlsScope
<1> DEFINE r == [Idle EXCEPT !.at = "devices", !.by = u, !.stay = Store!Listing(members)]
<1>2. u \in Nat /\ \A x \in Store!Listing(members) : x \in Nat \X Nat /\ x[1] \in Nat \ {0}
  BY Numbers, ListingIs
<1>3. /\ r \in Request /\ r.held = {} /\ r.at = "devices" /\ r.got = {} /\ r.cursor = 0
      /\ r.stay = Store!Listing(members) /\ ~r.twice
  BY <1>2 DEF Idle, Request, Places, Things
<1>4. \A x \in Store!Listing(members) : x[1] > 0
  BY <1>2
<1>5. Knows(r)
  BY <1>3, <1>4 DEF Knows, KnowsPackages, KnowsEpoch, KnowsBackup, KnowsWalk, Committing
<1>6. UNCHANGED <<Shared, told, greeted, mute>>
  BY DEF ListMlsMemberDevices, Shared, storeVars, ghostVars
<1> HIDE DEF r
<1> QED BY <1>1, <1>3, <1>5, <1>6, BeginKeeps DEF Unlocked, r

\* A walk through the log begins at an epoch that is there.
LEMMA CommitsBeginKeeps == ASSUME IInv, NEW p \in Requests, ListMlsCommits(p) PROVE IInv'
<1>1. PICK u \in Users, e \in 0 .. MaxEpoch :
        /\ e <= epoch
        /\ selfScope(p, "Commits", [Idle EXCEPT !.at = "commits", !.by = u, !.cursor = e, !.stay = e + 1 .. epoch,
                                                !.epoch = e])
  BY DEF ListMlsCommits, channelMlsScope
<1> DEFINE r == [Idle EXCEPT !.at = "commits", !.by = u, !.cursor = e, !.stay = e + 1 .. epoch, !.epoch = e]
<1>2. u \in Nat /\ e \in Nat /\ epoch \in Int /\ e + 1 .. epoch \subseteq Nat /\ e + 1 .. e = {}
  BY Numbers DEF IInv, Tables, NoGroup, Store!NoGroup
<1>3. /\ r \in Request /\ r.held = {} /\ r.at = "commits" /\ r.got = {} /\ r.cursor = e
      /\ r.stay = e + 1 .. epoch /\ r.epoch = e
  BY <1>2 DEF Idle, Request, Places, Things
<1> HIDE DEF r
<1>4. KnowsWalk(r)
  BY <1>1, <1>2, <1>3 DEF KnowsWalk
<1>5. Knows(r)
  BY <1>3, <1>4 DEF Knows, KnowsPackages, KnowsEpoch, KnowsBackup, Committing
<1>6. UNCHANGED <<Shared, told, greeted, mute>>
  BY DEF ListMlsCommits, Shared, storeVars, ghostVars
<1> QED BY <1>1, <1>3, <1>5, <1>6, BeginKeeps DEF Unlocked, r

\* A deregistration locks a device that no other request has locked.
LEMMA DeregisterKeeps == ASSUME IInv, NEW p \in Requests, DeregisterMlsDevice(p) PROVE IInv'
<1>1. PICK d \in DeviceIds :
        /\ Registered(d) /\ ~DeviceLocked(p, d) /\ ~DeviceShared(p, d)
        /\ selfScope(p, "Deregister", [Idle EXCEPT !.at = "cascade", !.by = devices[d].by, !.on = d])
  BY DEF DeregisterMlsDevice
<1> DEFINE r == [Idle EXCEPT !.at = "cascade", !.by = devices[d].by, !.on = d]
<1>2. r \in Request /\ r.held = {} /\ r.at = "cascade" /\ r.on = d
  <2>1. d \in Nat /\ devices[d].by \in Nat
    BY Numbers, RegisteredHasOwner
  <2> QED BY <2>1 DEF Idle, Request, Places, Things
<1> HIDE DEF r
<1>3. Knows(r)
  BY <1>1, <1>2 DEF Knows, KnowsPackages, KnowsEpoch, KnowsBackup, KnowsWalk, Committing
<1>4. \A q \in Requests \ {p} : Apart(r, req[q]) /\ Apart(req[q], r)
  BY <1>1, <1>2 DEF Apart, DeviceLocked, DeviceShared, Committing
<1>5. UNCHANGED <<Shared, told, greeted, mute>>
  BY DEF DeregisterMlsDevice, Shared, storeVars, ghostVars
<1>6. req' = [req EXCEPT ![p] = r] /\ req[p].at # "announce"
  BY <1>1 DEF selfScope, r
<1> QED BY <1>2, <1>3, <1>4, <1>5, <1>6, StepKeeps

\* A replacement locks those packages of its snapshot that are still there.
LEMMA ClearKeeps == ASSUME IInv, NEW p \in Requests, ClearPool(p) PROVE IInv'
<1> DEFINE held == {k \in req[p].stay : pool[k] = req[p].on}
           r == [req[p] EXCEPT !.at = "insert", !.held = held, !.stay = {}]
<1>1. req[p] \in Request /\ Knows(req[p]) /\ req[p].at = "clear" /\ \A k \in req[p].stay : ~PackageLocked(p, k)
  BY DEF IInv, ClearPool
<1>2. req[p].on \in DeviceIds /\ req[p].stay \subseteq PackageIds
  BY <1>1 DEF Knows, KnowsPackages
<1>3. r \in Request /\ r.at = "insert" /\ r.held = held /\ r.on = req[p].on
  BY <1>1, <1>2 DEF Request, Places
<1>4. req' = [req EXCEPT ![p] = r]
  BY <1>1 DEF ClearPool, IInv, Request
<1> HIDE DEF r
<1>5. Knows(r)
  BY <1>2, <1>3 DEF Knows, KnowsPackages, KnowsEpoch, KnowsBackup, KnowsWalk, Committing, PoolOf
<1>6. \A q \in Requests \ {p} : Apart(r, req[q]) /\ Apart(req[q], r)
  BY <1>1, <1>3 DEF Apart, PackageLocked, Committing
<1>7. UNCHANGED <<Shared, told, greeted, mute>>
  BY DEF ClearPool, Shared, storeVars, ghostVars
<1> QED BY <1>1, <1>3, <1>4, <1>5, <1>6, <1>7, StepKeeps

\* A commit gets the group's row when no other has it and its epoch is the group's.
LEMMA AdvanceKeeps == ASSUME IInv, NEW p \in Requests, AdvanceEpoch(p) PROVE IInv'
<1> DEFINE r == [req[p] EXCEPT !.at = "outsiders"]
<1>1. req[p] \in Request /\ Knows(req[p]) /\ req[p].at = "advance" /\ ~GroupLocked(p)
  BY DEF IInv, AdvanceEpoch
<1>2. UNCHANGED <<Shared, told, greeted, mute>>
  BY DEF AdvanceEpoch, Shared, storeVars, ghostVars
<1>3. CASE epoch # req[p].epoch
  <2>1. Done(p)
    BY <1>3 DEF AdvanceEpoch
  <2> QED BY <1>1, <1>2, <2>1, DoneKeeps
<1>4. CASE epoch = req[p].epoch
  <2>1. /\ r \in Request /\ r.at = "outsiders" /\ r.held = {}
        /\ r.epoch = req[p].epoch /\ r.by = req[p].by /\ r.to = req[p].to
    BY <1>1 DEF Request, Places, Knows, KnowsPackages
  <2>2. req' = [req EXCEPT ![p] = r]
    BY <1>1, <1>4 DEF AdvanceEpoch, Goto, IInv, Request
  <2> HIDE DEF r
  <2>3. Knows(r)
    BY <1>1, <1>4, <2>1 DEF Knows, KnowsPackages, KnowsEpoch, KnowsBackup, KnowsWalk, Committing
  <2>4. \A q \in Requests \ {p} : Apart(r, req[q]) /\ Apart(req[q], r)
    BY <1>1, <2>1 DEF Apart, GroupLocked, Committing
  <2> QED BY <1>1, <1>2, <2>1, <2>2, <2>3, <2>4, StepKeeps
<1> QED BY <1>3, <1>4

\* A commit goes on when the owners of the devices it welcomes are members.
LEMMA OutsidersKeeps == ASSUME IInv, NEW p \in Requests, CheckOutsiders(p) PROVE IInv'
<1> DEFINE r == [req[p] EXCEPT !.at = "welcomes", !.stay = req[p].to]
<1>1. req[p] \in Request /\ Knows(req[p]) /\ req[p].at = "outsiders"
  BY DEF IInv, CheckOutsiders
<1>2. UNCHANGED <<Shared, told, greeted, mute>>
  BY DEF CheckOutsiders, Shared, storeVars, ghostVars
<1>3. CASE \E d \in req[p].to : Registered(d) /\ devices[d].by \notin members
  <2>1. Done(p)
    BY <1>3 DEF CheckOutsiders
  <2> QED BY <1>1, <1>2, <2>1, DoneKeeps
<1>4. CASE ~\E d \in req[p].to : Registered(d) /\ devices[d].by \notin members
  <2>1. /\ r \in Request /\ r.at = "welcomes" /\ r.held = {}
        /\ r.epoch = req[p].epoch /\ r.by = req[p].by /\ r.to = req[p].to /\ r.stay = req[p].to
    BY <1>1 DEF Request, Places, Knows, KnowsPackages
  <2>2. req' = [req EXCEPT ![p] = r]
    BY <1>1, <1>4 DEF CheckOutsiders, IInv, Request
  <2> HIDE DEF r
  <2>3. Knows(r)
    BY <1>1, <1>4, <2>1 DEF Knows, KnowsPackages, KnowsEpoch, KnowsBackup, KnowsWalk, Committing
  <2>4. \A q \in Requests \ {p} : Apart(r, req[q]) /\ Apart(req[q], r)
    BY <1>1, <2>1 DEF IInv, Apart, Committing
  <2> QED BY <1>1, <1>2, <2>1, <2>2, <2>3, <2>4, StepKeeps
<1> QED BY <1>3, <1>4

\* A commit locks the devices it welcomes, and goes on when all of them are there.
LEMMA InsertWelcomesKeeps == ASSUME IInv, NEW p \in Requests, InsertWelcomes(p) PROVE IInv'
<1>1. req[p] \in Request /\ Knows(req[p]) /\ req[p].at = "welcomes"
  BY DEF IInv, InsertWelcomes
<1>2. UNCHANGED <<Shared, told, greeted, mute>>
  BY DEF InsertWelcomes, Shared, storeVars, ghostVars
<1>3. CASE Done(p)
  BY <1>1, <1>2, <1>3, DoneKeeps
<1>4. ASSUME NEW r \in Request, req' = [req EXCEPT ![p] = r], r.at \in {"welcomes", "welcomed"}, r.held = {},
             r.epoch = req[p].epoch, r.by = req[p].by, r.to = req[p].to, r.at = "welcomed" => r.stay = {},
             \A d \in req[p].stay \ r.stay : Registered(d) /\ ~DeviceLocked(p, d)
      PROVE  IInv'
  <2>1. Knows(r)
    BY <1>1, <1>4 DEF Knows, KnowsPackages, KnowsEpoch, KnowsBackup, KnowsWalk, Committing
  <2>2. \A q \in Requests \ {p} : Apart(r, req[q]) /\ Apart(req[q], r)
    BY <1>1, <1>4 DEF IInv, Apart, Committing, DeviceLocked
  <2> QED BY <1>1, <1>2, <1>4, <2>1, <2>2, StepKeeps
<1>5. CASE req[p].stay = {} /\ Goto(p, "welcomed")
  <2>1. PICK r : r = [req[p] EXCEPT !.at = "welcomed"]
    OBVIOUS
  <2>2. /\ r \in Request /\ r.at = "welcomed" /\ r.held = {} /\ r.stay = {}
        /\ r.epoch = req[p].epoch /\ r.by = req[p].by /\ r.to = req[p].to
    BY <1>1, <1>5, <2>1 DEF Request, Places, Knows, KnowsPackages
  <2>3. req' = [req EXCEPT ![p] = r]
    BY <1>1, <1>5, <2>1 DEF Goto, IInv, Request
  <2> QED BY <1>4, <1>5, <2>2, <2>3
<1>6. ASSUME NEW d \in req[p].stay, ~DeviceLocked(p, d), Registered(d), req' = [req EXCEPT ![p].stay = @ \ {d}]
      PROVE  IInv'
  <2>1. PICK r : r = [req[p] EXCEPT !.stay = @ \ {d}]
    OBVIOUS
  <2>2. /\ r \in Request /\ r.at = "welcomes" /\ r.held = {} /\ r.stay = req[p].stay \ {d}
        /\ r.epoch = req[p].epoch /\ r.by = req[p].by /\ r.to = req[p].to
    BY <1>1, <2>1 DEF Request, Knows, KnowsPackages
  <2>3. req' = [req EXCEPT ![p] = r]
    BY <1>1, <1>6, <2>1 DEF IInv, Request
  <2> QED BY <1>4, <1>6, <2>2, <2>3
<1> QED BY <1>3, <1>5, <1>6 DEF InsertWelcomes

\* A request that is refused, cut off before its commit, or at its end.
LEMMA EndKeeps == ASSUME IInv, NEW p \in Requests, FinishList(p) \/ Rollback(p) PROVE IInv'
<1>1. Done(p) /\ req[p].at # "announce" /\ UNCHANGED <<Shared, told, greeted, mute>>
  BY DEF FinishList, Rollback, Shared, storeVars, ghostVars
<1> QED BY <1>1, DoneKeeps

\* PostgreSQL ends one of two requests that wait for each other.
LEMMA BreakKeeps == ASSUME IInv, NEW p \in Requests, NEW q \in Requests, BreakDeadlock(p, q) PROVE IInv'
<1>1. /\ Done(p) \/ Done(q)
      /\ req[p].at # "announce" /\ req[q].at # "announce" /\ UNCHANGED <<Shared, told, greeted, mute>>
  BY DEF BreakDeadlock, Deadlocked, Shared, storeVars, ghostVars
<1> QED BY <1>1, DoneKeeps

\* A claim takes the oldest package that nobody has locked, of a device that it
\* has taken none from.
LEMMA ClaimOneKeeps == ASSUME IInv, NEW p \in Requests, ClaimOne(p) PROVE IInv'
<1>1. PICK d \in DeviceIds :
        /\ d \in req[p].to
        /\ req' = [req EXCEPT ![p].to = @ \ {d},
                              ![p].held = @ \cup {k \in Claimable(p, d) : \A l \in Claimable(p, d) : k <= l}]
  BY DEF ClaimOne
<1> DEFINE one == {k \in Claimable(p, d) : \A l \in Claimable(p, d) : k <= l}
           r == [req[p] EXCEPT !.to = @ \ {d}, !.held = @ \cup one]
<1>2. req[p] \in Request /\ Knows(req[p]) /\ req[p].at = "claim"
  BY DEF IInv, ClaimOne
<1>3. one \subseteq PackageIds /\ \A k \in one : pool[k] = d /\ k \notin req[p].held /\ ~PackageLocked(p, k)
  BY DEF Claimable, PoolOf
<1>4. \A k, l \in one : k = l
  <2> SUFFICES ASSUME NEW k \in one, NEW l \in one PROVE k = l
    OBVIOUS
  <2>1. k <= l /\ l <= k
    OBVIOUS
  <2>2. k \in Nat /\ l \in Nat
    BY <1>3, Numbers
  <2> QED BY <2>1, <2>2
<1> HIDE DEF one
<1>5. r \in Request /\ r.at = "claim" /\ r.held = req[p].held \cup one /\ r.to = req[p].to \ {d} /\ r.on = req[p].on
  BY <1>2, <1>3 DEF Request
<1>6. req' = [req EXCEPT ![p] = r]
  BY <1>1, <1>2 DEF IInv, Request, one
<1> HIDE DEF r
<1>7. ASSUME NEW k \in r.held
      PROVE  pool[k] # 0 /\ devices[pool[k]].by = r.on /\ pool[k] \notin r.to
  <2>1. CASE k \in req[p].held
    BY <1>2, <1>5, <2>1 DEF Knows, KnowsPackages
  <2>2. CASE k \in one
    <3>1. d # 0 /\ pool[k] = d /\ k \in PackageIds
      BY <1>3, <2>2, Numbers
    <3>2. Registered(d)
      BY <3>1 DEF IInv, Packages
    <3> QED BY <1>1, <1>2, <1>5, <3>1, <3>2 DEF Knows, KnowsPackages, Owned
  <2> QED BY <1>5, <2>1, <2>2
<1>8. ASSUME NEW k \in r.held, NEW l \in r.held, pool[k] = pool[l] PROVE k = l
  BY <1>1, <1>2, <1>3, <1>4, <1>5, <1>8 DEF Knows, KnowsPackages
<1>9. KnowsPackages(r)
  BY <1>2, <1>5, <1>7, <1>8 DEF Knows, KnowsPackages
<1>10. Knows(r)
  BY <1>5, <1>9 DEF Knows, KnowsEpoch, KnowsBackup, KnowsWalk, Committing
<1>11. \A q \in Requests \ {p} : Apart(r, req[q]) /\ Apart(req[q], r)
  BY <1>2, <1>3, <1>5 DEF IInv, Apart, PackageLocked, Committing
<1>12. UNCHANGED <<Shared, told, greeted, mute>>
  BY DEF ClaimOne, Shared, storeVars, ghostVars
<1> QED BY <1>2, <1>5, <1>6, <1>10, <1>11, <1>12, StepKeeps

\* Where a walk through the log stands: the epochs up to its cursor, whose
\* commits are all there.
LEMMA CommitsPageKeeps == ASSUME IInv, NEW p \in Requests, CommitsPage(p) PROVE IInv'
<1> DEFINE rows == Store!CommitsAfter(req[p].cursor)
           page == CommitsInOrder(rows)
           r == [req[p] EXCEPT !.got = @ \cup page, !.cursor = IF page = {} THEN @ ELSE Last(page),
                               !.at = IF page = {} THEN "caughtUp" ELSE @]
           c == req[p].cursor
           n == r.cursor
<1>1. req[p] \in Request /\ Knows(req[p]) /\ req[p].at = "commits"
  BY DEF IInv, CommitsPage
<1>2. UNCHANGED <<Shared, told, greeted, mute>>
  BY DEF CommitsPage, Shared, storeVars, ghostVars
<1>3. CASE req[p].by \notin members
  <2>1. Done(p)
    BY <1>3 DEF CommitsPage
  <2> QED BY <1>1, <1>2, <2>1, DoneKeeps
<1>4. CASE req[p].by \in members
  <2>1. /\ c \in Nat /\ req[p].epoch \in Nat /\ epoch \in Int /\ epoch <= MaxEpoch /\ req[p].epoch <= c /\ c <= epoch
        /\ req[p].got = req[p].epoch + 1 .. c /\ req[p].stay \subseteq req[p].epoch + 1 .. epoch
        /\ req[p].held = {} /\ MaxEpoch \in Nat
    BY <1>1, Numbers DEF IInv, Tables, NoGroup, Store!NoGroup, Request, Knows, KnowsWalk, KnowsPackages
  <2>2. rows = c + 1 .. epoch
    <3>1. ASSUME NEW x \in rows PROVE x \in c + 1 .. epoch
      BY <2>1 DEF Store!CommitsAfter, Store!Epochs, IInv, Log
    <3>2. ASSUME NEW x \in c + 1 .. epoch PROVE x \in rows
      BY <2>1 DEF Store!CommitsAfter, Store!Epochs, IInv, Log
    <3> QED BY <3>1, <3>2
  <2> HIDE DEF rows
  <2>3. rows \subseteq 0 .. MaxEpoch
    BY <2>1, <2>2
  <2>4. /\ page \subseteq rows /\ (rows # {} => page # {})
        /\ \A x \in page, y \in rows : y <= x => y \in page
    BY <2>1, <2>3, Numbers, LeastFacts DEF CommitsInOrder
  <2>5. page # {} => Last(page) \in page /\ \A y \in page : y <= Last(page)
    BY <2>1, <2>3, <2>4, LastIs
  <2> HIDE DEF page
  <2>6. IF page = {} THEN n = c ELSE n = Last(page)
    BY <1>1 DEF Request
  <2>7. n \in Nat /\ c <= n /\ n <= epoch
    BY <2>1, <2>2, <2>4, <2>5, <2>6
  <2>8. page = c + 1 .. n
    <3>1. CASE page = {}
      BY <2>1, <2>6, <3>1
    <3>2. CASE page # {}
      <4>1. ASSUME NEW x \in page PROVE x \in c + 1 .. n
        BY <2>1, <2>2, <2>4, <2>5, <2>6, <2>7, <3>2
      <4>2. ASSUME NEW x \in c + 1 .. n PROVE x \in page
        <5>1. x \in rows /\ x <= Last(page)
          BY <2>1, <2>2, <2>6, <2>7, <3>2
        <5> QED BY <2>4, <2>5, <3>2, <5>1
      <4> QED BY <4>1, <4>2
    <3> QED BY <3>1, <3>2
  <2>9. /\ r.at \in {"commits", "caughtUp"} /\ (r.at = "caughtUp" <=> page = {})
        /\ r.held = {} /\ r.epoch = req[p].epoch /\ r.got = req[p].got \cup page /\ r.stay = req[p].stay
    BY <1>1, <2>1 DEF Request
  <2>10. r \in Request
    <3>1. page \subseteq Things
      BY <2>1, <2>2, <2>4 DEF Things
    <3>2. req[p].got \cup page \in SUBSET Things
      BY <1>1, <3>1 DEF Request
    <3> QED BY <1>1, <2>7, <3>2 DEF Request, Places
  <2>11. req' = [req EXCEPT ![p] = r]
    BY <1>1, <1>4 DEF CommitsPage, IInv, Request, page, rows
  <2> HIDE DEF r
  <2>12. r.got = r.epoch + 1 .. r.cursor
    <3>1. \A x : x \in r.got <=> x \in r.epoch + 1 .. r.cursor
      BY <2>1, <2>7, <2>8, <2>9
    <3> QED BY <3>1
  <2>13. page = {} => c = epoch
    BY <2>1, <2>2, <2>4
  <2>14. KnowsWalk(r)
    <3>1. r.at # "devices" /\ r.at # "listed"
      BY <2>9
    <3>2. r.epoch <= r.cursor /\ r.cursor <= epoch /\ r.stay \subseteq r.epoch + 1 .. epoch
      BY <2>1, <2>7, <2>9
    <3>3. r.at = "caughtUp" => r.stay \subseteq r.got
      <4>1. CASE page = {}
        <5>1. r.got = req[p].epoch + 1 .. epoch
          BY <2>1, <2>9, <2>13, <4>1
        <5> QED BY <2>9, <3>2, <5>1
      <4> QED BY <2>9, <4>1
    <3> QED BY <2>12, <3>1, <3>2, <3>3 DEF KnowsWalk
  <2>15. Knows(r)
    BY <2>9, <2>14 DEF Knows, KnowsPackages, KnowsEpoch, KnowsBackup, Committing
  <2>16. \A q \in Requests \ {p} : Apart(r, req[q]) /\ Apart(req[q], r)
    BY <2>9 DEF Apart, Committing
  <2> QED BY <1>1, <1>2, <2>10, <2>11, <2>15, <2>16, StepKeeps
<1> QED BY <1>3, <1>4

\* Where a walk through the members stands: what has to be listed was, or is
\* behind the cursor.
LEMMA DevicesPageKeeps == ASSUME IInv, NEW p \in Requests, DevicesPage(p) PROVE IInv'
<1> DEFINE c == req[p].cursor
           S == {u \in members : u > c}
           rows == Least(S, PageLimit + 1)
           page == Least(rows, PageLimit)
           more == Cardinality(rows) > PageLimit
           new == MemberDevices(page)
           r == [req[p] EXCEPT !.got = @ \cup new, !.twice = @ \/ new \cap req[p].got # {},
                               !.cursor = IF more THEN Last(page) ELSE @,
                               !.at = IF more THEN @ ELSE "listed"]
<1>1. req[p] \in Request /\ Knows(req[p]) /\ req[p].at = "devices"
  BY DEF IInv, DevicesPage
<1>2. UNCHANGED <<Shared, told, greeted, mute>>
  BY DEF DevicesPage, Shared, storeVars, ghostVars
<1>3. CASE req[p].by \notin members
  <2>1. Done(p)
    BY <1>3 DEF DevicesPage
  <2> QED BY <1>1, <1>2, <2>1, DoneKeeps
<1>4. CASE req[p].by \in members
  <2> DEFINE N == Cardinality(Users)
  <2>1. N \in Nat /\ S \subseteq 0 .. N /\ c \in Nat /\ PageLimit \in Nat /\ PageLimit + 1 \in Nat /\ PageLimit # 0
    <3>1. c \in Nat /\ members \subseteq Users
      BY <1>1 DEF IInv, Tables, Request
    <3>2. N \in Nat /\ members \subseteq 0 .. N
      BY <3>1, Numbers
    <3>3. S \subseteq members
      OBVIOUS
    <3>4. PageLimit \in Nat /\ PageLimit + 1 \in Nat /\ PageLimit # 0
      BY Numbers
    <3> HIDE DEF S, N
    <3> QED BY <3>1, <3>2, <3>3, <3>4
  <2>2. /\ rows \subseteq S /\ \A x \in rows, y \in S : y <= x => y \in rows
        /\ Cardinality(rows) < PageLimit + 1 => rows = S
    BY <2>1, LeastFacts
  <2>3. rows \subseteq 0 .. N
    BY <2>1, <2>2
  <2> HIDE DEF rows
  <2>4. /\ page \subseteq rows /\ (rows # {} => page # {}) /\ \A x \in page, y \in rows : y <= x => y \in page
        /\ Cardinality(rows) \in Nat /\ (Cardinality(rows) <= PageLimit => page = rows)
    BY <2>1, <2>3, LeastFacts
  <2>5. more => page # {}
    <3>1. rows = {} => Cardinality(rows) = 0
      BY FS_EmptySet
    <3>2. more => rows # {}
      BY <2>1, <3>1
    <3> QED BY <2>4, <3>2
  <2>6. ~more => page = S
    BY <2>1, <2>2, <2>4
  <2>7. page # {} => Last(page) \in page /\ \A y \in page : y <= Last(page)
    BY <2>1, <2>3, <2>4, LastIs
  <2> HIDE DEF page
  <2>8. page \subseteq members /\ \A x \in page : x \in Nat /\ x > c
    BY <2>1, <2>2, <2>4
  <2>9. ASSUME NEW x \in new PROVE x \in Nat \X Nat /\ x[1] \in page
    BY <2>8, ListingIs DEF MemberDevices
  <2>10. ASSUME NEW x \in new PROVE x \notin req[p].got
    <3>1. x[1] \in Nat /\ x[1] > c
      BY <2>8, <2>9
    <3> QED BY <1>1, <2>1, <3>1 DEF Knows, KnowsWalk
  <2>11. new \cap req[p].got = {}
    BY <2>10
  <2>12. more => Last(page) \in Nat /\ Last(page) > c
    BY <2>5, <2>7, <2>8
  <2>13. ASSUME NEW x \in Store!Listing(members), x[1] \in page PROVE x \in new
    <3>1. x \in members \X (DeviceIds \cup {0}) /\ x[2] \in Store!DevicesOf(x[1]) \cup {0}
      BY DEF Store!Listing, Store!DeviceIds, DeviceIds
    <3>2. x \in page \X (DeviceIds \cup {0})
      BY <2>13, <3>1
    <3> QED BY <3>1, <3>2 DEF MemberDevices, Store!Listing, Store!DeviceIds, DeviceIds
  <2> HIDE DEF new, more
  <2>14. ~req[p].twice /\ req[p].held = {}
    BY <1>1 DEF Knows, KnowsWalk, KnowsPackages
  <2>15. /\ r.at \in {"devices", "listed"} /\ (r.at = "devices" <=> more) /\ r.held = {}
         /\ r.got = req[p].got \cup new /\ r.stay = req[p].stay
         /\ r.cursor = (IF more THEN Last(page) ELSE c) /\ r.cursor \in Nat
    BY <1>1, <2>1, <2>12, <2>14 DEF Request
  <2>16. r.twice = FALSE
    BY <1>1, <2>11, <2>14 DEF Request
  <2>17. r \in Request
    <3>1. new \subseteq Things
      BY <2>9 DEF Things
    <3>2. (req[p].twice \/ new \cap req[p].got # {}) = FALSE
      BY <1>1, <2>11, <2>14
    <3>3. r = [req[p] EXCEPT !.got = @ \cup new, !.twice = FALSE, !.cursor = IF more THEN Last(page) ELSE @,
                             !.at = IF more THEN @ ELSE "listed"]
      BY <3>2
    <3> HIDE DEF r
    <3> QED BY <1>1, <2>12, <3>1, <3>3 DEF Request, Places
  <2>18. req' = [req EXCEPT ![p] = r]
    BY <1>1, <1>4 DEF DevicesPage, IInv, Request, page, rows, new, more
  <2> HIDE DEF r
  <2>19. ASSUME more, NEW x \in r.got PROVE x \in Nat \X Nat /\ x[1] <= r.cursor
    <3>1. CASE x \in req[p].got
      <4>1. x \in Nat \X Nat /\ x[1] \in Nat /\ x[1] <= c
        BY <1>1, <3>1 DEF Knows, KnowsWalk
      <4> QED BY <2>1, <2>12, <2>15, <2>19, <4>1
    <3>2. CASE x \in new
      BY <2>5, <2>7, <2>9, <2>15, <2>19, <3>2
    <3> QED BY <2>15, <3>1, <3>2
  <2>20. ASSUME NEW x \in r.stay
         PROVE  x \in r.got \/ (more /\ x \in Store!Listing(members) /\ x[1] > r.cursor)
    <3>1. CASE x \in req[p].got
      BY <2>15, <3>1
    <3>2. CASE x \notin req[p].got
      <4>1. x \in Store!Listing(members) /\ x[1] > c
        BY <1>1, <2>15, <3>2 DEF Knows, KnowsWalk
      <4>2. x[1] \in S /\ x[1] \in Nat
        BY <4>1, ListingIs
      <4>3. CASE x[1] \in page
        BY <2>13, <2>15, <4>1, <4>3
      <4>4. CASE x[1] \notin page
        <5>1. more
          BY <2>6, <4>2, <4>4
        <5>2. Last(page) \in page /\ Last(page) \in rows
          BY <2>4, <2>5, <2>7, <5>1
        <5>3. ~(x[1] <= Last(page))
          BY <2>2, <2>4, <4>2, <4>4, <5>2
        <5>4. Last(page) \in Nat
          BY <2>12, <5>1
        <5> QED BY <2>15, <4>1, <4>2, <5>1, <5>3, <5>4
      <4> QED BY <4>3, <4>4
    <3> QED BY <3>1, <3>2
  <2>21. KnowsWalk(r)
    BY <2>15, <2>16, <2>19, <2>20 DEF KnowsWalk
  <2>22. Knows(r)
    BY <2>15, <2>21 DEF Knows, KnowsPackages, KnowsEpoch, KnowsBackup, Committing
  <2>23. \A q \in Requests \ {p} : Apart(r, req[q]) /\ Apart(req[q], r)
    BY <2>15 DEF Apart, Committing
  <2> QED BY <1>1, <1>2, <2>17, <2>18, <2>22, <2>23, StepKeeps
<1> QED BY <1>3, <1>4

\* A commit is announced to the channel and to the owners of welcomed devices,
\* or cut off before it.
LEMMA AnnounceKeeps == ASSUME IInv, NEW p \in Requests, AnnounceCommit(p) \/ CutOff(p) PROVE IInv'
<1> DEFINE r == req[p]
<1>1. r.at = "announce" /\ r.epoch \in Store!Epochs /\ r.epoch <= epoch /\ r.to \subseteq Users
  BY DEF IInv, Knows, KnowsEpoch, AnnounceCommit, CutOff
<1>2. UNCHANGED Shared /\ req' = [req EXCEPT ![p] = Idle]
  BY DEF AnnounceCommit, CutOff, Shared, storeVars, ghostVars, Done
<1>3. \/ told' = told \cup {r.epoch} /\ greeted' = greeted \cup (r.to \X {r.epoch}) /\ mute' = mute
      \/ told' = told /\ greeted' = greeted /\ mute' = mute \cup {r.epoch}
  BY DEF AnnounceCommit, CutOff, ghostVars
<1>4. Histories'
  <2>1. UNCHANGED <<stale, handed, sent, gone, left, reset, blind>>
    BY <1>2 DEF Shared
  <2>2. told' \subseteq Store!Epochs /\ greeted' \subseteq Users \X Store!Epochs /\ mute' \subseteq Store!Epochs
    BY <1>1, <1>3 DEF IInv, Histories
  <2> QED BY <2>1, <2>2 DEF IInv, Histories, Store!Epochs
<1>5. \A q \in Requests \ {p} : req'[q] = req[q]
  BY <1>2 DEF IInv
<1>6. Announced'
  <2> SUFFICES ASSUME NEW e \in Store!Epochs, e <= epoch
               PROVE  \/ e \in mute'
                      \/ e \in told' /\ \A w \in welcomes : w[2] = e => <<devices[w[1]].by, e>> \in greeted'
                      \/ \E q \in Requests : /\ req'[q].at = "announce" /\ req'[q].epoch = e
                                             /\ \A w \in welcomes : w[2] = e => devices[w[1]].by \in req'[q].to
    BY <1>2 DEF Announced, Store!Epochs, Shared
  <2>1. told \subseteq told' /\ greeted \subseteq greeted' /\ mute \subseteq mute'
    BY <1>3
  <2>2. \/ e \in mute
        \/ e \in told /\ \A w \in welcomes : w[2] = e => <<devices[w[1]].by, e>> \in greeted
        \/ \E q \in Requests : /\ req[q].at = "announce" /\ req[q].epoch = e
                               /\ \A w \in welcomes : w[2] = e => devices[w[1]].by \in req[q].to
    BY DEF IInv, Announced
  <2>3. ASSUME NEW q \in Requests, req[q].at = "announce", req[q].epoch = e,
               \A w \in welcomes : w[2] = e => devices[w[1]].by \in req[q].to, q # p
        PROVE  \E s \in Requests : /\ req'[s].at = "announce" /\ req'[s].epoch = e
                                   /\ \A w \in welcomes : w[2] = e => devices[w[1]].by \in req'[s].to
    BY <1>5, <2>3
  <2>4. ASSUME r.epoch = e, \A w \in welcomes : w[2] = e => devices[w[1]].by \in r.to
        PROVE  \/ e \in mute'
               \/ e \in told' /\ \A w \in welcomes : w[2] = e => <<devices[w[1]].by, e>> \in greeted'
    BY <1>3, <2>4
  <2> QED BY <2>1, <2>2, <2>3, <2>4
<1> QED BY <1>2, <1>4, <1>6, IdleOK, MoveKeeps DEF IInv

-------------------------------------------------------------------------------
(* The steps that change what requests share.                              *)

\* Each part of what a request knows is about some of the tables.
LEMMA KnowsPackagesStays ==
  ASSUME UNCHANGED <<devices, pool, issued, stale, handed>>, NEW r, KnowsPackages(r)
  PROVE  KnowsPackages(r)'
BY DEF KnowsPackages, Owned, Registered, Store!Registered, PoolOf

\* What a commit knows is about the group, the devices and the members.
LEMMA KnowsEpochStays ==
  ASSUME UNCHANGED <<devices, epoch, members, issued, left>>, NEW r, KnowsEpoch(r)
  PROVE  KnowsEpoch(r)'
BY DEF KnowsEpoch, Owned, Registered, Store!Registered

\* What a put knows is about the backups.
LEMMA KnowsBackupStays ==
  ASSUME UNCHANGED <<backups, reset>>, NEW r, KnowsBackup(r)
  PROVE  KnowsBackup(r)'
BY DEF KnowsBackup

\* What a walk knows is about the log, the devices and the members.
LEMMA KnowsWalkStays ==
  ASSUME UNCHANGED <<devices, epoch, members>>, NEW r, KnowsWalk(r)
  PROVE  KnowsWalk(r)'
BY DEF KnowsWalk, Store!Listing, Store!DevicesOf

\* The requests, when one of them moves.
LEMMA MovedApart ==
  ASSUME IInv, NEW p \in Requests, NEW r \in Request, req' = [req EXCEPT ![p] = r],
         \A q \in Requests \ {p} : Apart(r, req[q]) /\ Apart(req[q], r)
  PROVE  /\ req' \in [Requests -> Request] /\ req'[p] = r /\ \A q \in Requests \ {p} : req'[q] = req[q]
         /\ \A q, s \in Requests : q # s => Apart(req[q], req[s])'
<1>1. req' \in [Requests -> Request] /\ req'[p] = r /\ \A q \in Requests \ {p} : req'[q] = req[q]
  BY DEF IInv
<1>2. ASSUME NEW q \in Requests, NEW s \in Requests, q # s PROVE Apart(req[q], req[s])'
  <2>1. Apart(req[q], req[s])
    BY <1>2 DEF IInv
  <2> QED BY <1>1, <1>2, <2>1 DEF Apart
<1> QED BY <1>1, <1>2

\* The requests, when one of them ends.
LEMMA DoneApart ==
  ASSUME IInv, NEW p \in Requests, req' = [req EXCEPT ![p] = Idle],
         \A q \in Requests \ {p} : req'[q] = req[q] => Knows(req[q])'
  PROVE  /\ req' \in [Requests -> Request]
         /\ \A q \in Requests : Knows(req[q])'
         /\ \A q, s \in Requests : q # s => Apart(req[q], req[s])'
<1>1. /\ req' \in [Requests -> Request] /\ req'[p] = Idle /\ \A q \in Requests \ {p} : req'[q] = req[q]
      /\ \A q, s \in Requests : q # s => Apart(req[q], req[s])'
  BY IdleOK, MovedApart DEF IInv
<1>2. Knows(req[p])'
  <2>1. req'[p].at = "idle" /\ req'[p].held = {}
    BY <1>1, IdleOK
  <2> QED BY <2>1 DEF Knows, KnowsPackages, KnowsEpoch, KnowsBackup, KnowsWalk, Committing
<1> QED BY <1>1, <1>2

\* A welcome that is deleted counts as gone.
LEMMA DeleteWelcomeKeeps == ASSUME IInv, NEW p \in Requests, DeleteMlsWelcome(p) PROVE IInv'
<1>1. req[p].at = "ack" /\ Knows(req[p])
  BY DEF IInv, DeleteMlsWelcome
<1>2. /\ req[p].to \subseteq DeviceIds \X Store!Epochs
      /\ \A w \in req[p].to : w[2] <= epoch
  BY <1>1 DEF Knows, KnowsEpoch
<1>3. req' = [req EXCEPT ![p] = Idle] /\ UNCHANGED <<devices, pool, epoch, commits, backups, members, issued, told, greeted,
                 stale, handed, sent, left, mute, reset, blind>>
  BY DEF DeleteMlsWelcome, Done
<1>4. ASSUME NEW q \in Requests, req'[q] = req[q] PROVE Knows(req[q])'
  <2>1. Knows(req[q])
    BY DEF IInv
  <2> QED BY <1>3, <1>4, <2>1, KnowsPackagesStays, KnowsEpochStays, KnowsBackupStays, KnowsWalkStays DEF Knows
<1>5. /\ req' \in [Requests -> Request]
      /\ \A q \in Requests : Knows(req[q])'
      /\ \A q, s \in Requests : q # s => Apart(req[q], req[s])'
  BY <1>3, <1>4, DoneApart
<1>6. PICK S : S \subseteq req[p].to /\ welcomes' = welcomes \ S /\ gone' = gone \cup S
  <2>1. PICK S : S = {w \in req[p].to : devices[w[1]].by = req[p].by}
    OBVIOUS
  <2>2. \A w \in welcomes : w \in S <=> w \in req[p].to \cap Store!WelcomesOf(req[p].by)
    BY <1>2, <2>1 DEF Store!WelcomesOf, Store!DevicesOf, Store!DeviceIds, DeviceIds
  <2>3. gone' = gone \cup S /\ welcomes' = welcomes \ (req[p].to \cap Store!WelcomesOf(req[p].by))
    BY <2>1 DEF DeleteMlsWelcome
  <2> QED BY <2>1, <2>2, <2>3
<1>7. Welcomes'
  BY <1>2, <1>3, <1>6 DEF IInv, Welcomes, Registered, Store!Registered
<1>8. Tables' /\ Histories'
  BY <1>2, <1>3, <1>6 DEF IInv, Tables, Histories, Store!Epochs, Store!DeviceRow, Store!NoDevice
<1>9. Packages' /\ Issued' /\ Log' /\ BackupIsNotLost'
  BY <1>3 DEF IInv, Packages, Issued, Log, BackupIsNotLost, Registered, Store!Registered, Store!Epochs
<1>10. \A q \in Requests : req[q].at = "announce" => req'[q] = req[q]
  BY <1>1, <1>3 DEF IInv
<1>11. Announced'
  BY <1>3, <1>6, <1>10 DEF IInv, Announced, Store!Epochs
<1> QED BY <1>5, <1>7, <1>8, <1>9, <1>11 DEF IInv

\* A put raises the counter that its client read, unless the backup was
\* deleted in between.
LEMMA PutBackupKeeps == ASSUME IInv, NEW p \in Requests, PutMlsBackup(p) PROVE IInv'
<1> DEFINE u == req[p].by
           c == req[p].epoch + 1
<1>1. /\ req[p].at = "put" /\ u \in Users /\ req[p].epoch \in 0 .. MaxCounter - 1
      /\ u \notin reset => req[p].epoch <= backups[u]
  BY DEF IInv, PutMlsBackup, Knows, KnowsBackup
<1>2. /\ req' = [req EXCEPT ![p] = Idle]
      /\ UNCHANGED <<devices, pool, epoch, commits, welcomes, members, issued, told, greeted,
                     stale, handed, sent, gone, left, mute, reset>>
  BY DEF PutMlsBackup, Done
<1>3. MaxCounter \in Nat /\ backups \in [Users -> 0 .. MaxCounter] /\ c \in 1 .. MaxCounter /\ backups[u] \in Nat
  <2>1. MaxCounter \in Nat /\ backups \in [Users -> 0 .. MaxCounter]
    BY Numbers DEF IInv, Tables
  <2>2. c \in 1 .. MaxCounter
    BY <1>1, <2>1
  <2>3. backups[u] \in 0 .. MaxCounter
    BY <1>1, <2>1
  <2> QED BY <2>1, <2>2, <2>3
<1>4. \/ /\ c > backups[u] /\ backups' = [backups EXCEPT ![u] = c]
         /\ blind' = IF backups[u] # req[p].epoch THEN blind \cup {u} ELSE blind
      \/ backups' = backups /\ blind' = blind
  BY DEF PutMlsBackup, Supersedes
<1> HIDE DEF c
<1>5. backups' \in [Users -> 0 .. MaxCounter] /\ \A v \in Users : backups'[v] >= backups[v]
  <2>1. CASE backups' = backups
    BY <1>3, <2>1
  <2>2. CASE c > backups[u] /\ backups' = [backups EXCEPT ![u] = c]
    BY <1>1, <1>3, <2>2
  <2> QED BY <1>4, <2>1, <2>2
<1>6. blind' \subseteq reset /\ blind' \subseteq Users
  <2>1. CASE blind' = blind
    BY <2>1 DEF IInv, BackupIsNotLost, Histories
  <2>2. CASE c > backups[u] /\ backups[u] # req[p].epoch /\ blind' = blind \cup {u}
    <3>1. u \in reset
      BY <1>1, <1>3, <2>2 DEF c
    <3> QED BY <1>1, <2>2, <3>1 DEF IInv, BackupIsNotLost, Histories
  <2> QED BY <1>4, <2>1, <2>2
<1>7. ASSUME NEW q \in Requests, req'[q] = req[q] PROVE Knows(req[q])'
  <2>1. Knows(req[q]) /\ req[q] \in Request
    BY DEF IInv
  <2>2. KnowsPackages(req[q])' /\ KnowsEpoch(req[q])' /\ KnowsWalk(req[q])'
    BY <1>2, <1>7, <2>1, KnowsPackagesStays, KnowsEpochStays, KnowsWalkStays DEF Knows
  <2>3. ASSUME req[q].at = "put", req[q].by \notin reset PROVE req[q].epoch <= backups'[req[q].by]
    <3>1. req[q].by \in Users /\ req[q].epoch <= backups[req[q].by] /\ req[q].epoch \in Nat
      BY <2>1, <2>3 DEF Knows, KnowsBackup, Request
    <3>2. backups[req[q].by] \in Nat /\ backups'[req[q].by] \in Nat
      BY <1>3, <1>5, <3>1
    <3> QED BY <1>5, <3>1, <3>2
  <2>4. KnowsBackup(req[q])'
    BY <1>2, <1>7, <2>1, <2>3 DEF Knows, KnowsBackup
  <2> QED BY <2>2, <2>4 DEF Knows
<1>8. /\ req' \in [Requests -> Request]
      /\ \A q \in Requests : Knows(req[q])'
      /\ \A q, s \in Requests : q # s => Apart(req[q], req[s])'
  BY <1>2, <1>7, DoneApart
<1>9. Tables' /\ Histories' /\ BackupIsNotLost'
  BY <1>2, <1>5, <1>6 DEF IInv, Tables, Histories, Store!Epochs, Store!DeviceRow, Store!NoDevice, BackupIsNotLost
<1>10. Packages' /\ Issued' /\ Log' /\ Welcomes'
  BY <1>2 DEF IInv, Packages, Issued, Log, Welcomes, Registered, Store!Registered, Store!Epochs
<1>11. Announced'
  BY <1>1, <1>2, AnnouncedStays
<1> QED BY <1>8, <1>9, <1>10, <1>11 DEF IInv

\* Who deletes a backup counts as having done so.
LEMMA DeleteBackupKeeps == ASSUME IInv, NEW p \in Requests, DeleteMlsBackup(p) PROVE IInv'
<1>1. PICK u \in Users : backups' = [backups EXCEPT ![u] = 0] /\ reset' = reset \cup {u}
  BY DEF DeleteMlsBackup
<1>2. /\ req[p].at = "idle" /\ req' = [req EXCEPT ![p] = Idle]
      /\ UNCHANGED <<devices, pool, epoch, commits, welcomes, members, issued, told, greeted,
                     stale, handed, sent, gone, left, mute, blind>>
  BY DEF DeleteMlsBackup, selfScope
<1>3. backups' \in [Users -> 0 .. MaxCounter] /\ \A v \in Users \ {u} : backups'[v] = backups[v]
  BY <1>1, Numbers DEF IInv, Tables
<1>4. ASSUME NEW q \in Requests, req'[q] = req[q] PROVE Knows(req[q])'
  <2>1. Knows(req[q])
    BY DEF IInv
  <2>2. KnowsPackages(req[q])' /\ KnowsEpoch(req[q])' /\ KnowsWalk(req[q])'
    BY <1>2, <1>4, <2>1, KnowsPackagesStays, KnowsEpochStays, KnowsWalkStays DEF Knows
  <2>3. KnowsBackup(req[q])'
    BY <1>1, <1>3, <1>4, <2>1 DEF Knows, KnowsBackup
  <2> QED BY <2>2, <2>3 DEF Knows
<1>5. /\ req' \in [Requests -> Request]
      /\ \A q \in Requests : Knows(req[q])'
      /\ \A q, s \in Requests : q # s => Apart(req[q], req[s])'
  BY <1>2, <1>4, DoneApart
<1>6. Tables' /\ Histories' /\ BackupIsNotLost'
  BY <1>1, <1>2, <1>3 DEF IInv, Tables, Histories, Store!Epochs, Store!DeviceRow, Store!NoDevice, BackupIsNotLost
<1>7. Packages' /\ Issued' /\ Log' /\ Welcomes'
  BY <1>2 DEF IInv, Packages, Issued, Log, Welcomes, Registered, Store!Registered, Store!Epochs
<1>8. Announced'
  BY <1>2, AnnouncedStays
<1> QED BY <1>5, <1>6, <1>7, <1>8 DEF IInv

\* Before there is a group, no commit and no walk through the log is under way.
LEMMA CreateGroupKeeps == ASSUME IInv, NEW p \in Requests, CreateMlsGroup(p) PROVE IInv'
<1>1. /\ epoch = -1 /\ epoch' = 0 /\ req[p].at = "idle" /\ req' = [req EXCEPT ![p] = Idle]
      /\ UNCHANGED <<devices, pool, commits, welcomes, backups, members, issued, told, greeted,
                     stale, handed, sent, gone, left, mute, reset, blind>>
  BY DEF CreateMlsGroup, InsertGroup, channelMlsScope, selfScope, ghostVars, NoGroup, Store!NoGroup
<1>2. \A e \in Store!Epochs : e \in Nat /\ ~(e <= -1) /\ ~(e <= 0)
  BY Numbers DEF Store!Epochs
<1>3. sent = {} /\ gone = {} /\ welcomes = {}
  <2>1. \A w \in sent \cup gone : w \in DeviceIds \X Store!Epochs /\ w[2] <= -1
    BY <1>1 DEF IInv, Histories, Welcomes
  <2>2. \A w \in sent \cup gone : w[2] \in Store!Epochs
    BY <2>1
  <2>3. sent \cup gone = {}
    BY <1>2, <2>1, <2>2
  <2> QED BY <2>3 DEF IInv, Welcomes
<1>4. ASSUME NEW q \in Requests, req'[q] = req[q] PROVE Knows(req[q])'
  <2>1. Knows(req[q]) /\ req[q] \in Request
    BY DEF IInv
  <2>2. KnowsPackages(req[q])' /\ KnowsBackup(req[q])'
    BY <1>1, <1>4, <2>1, KnowsPackagesStays, KnowsBackupStays DEF Knows
  <2>3. req[q].at \notin Committing
    BY <1>1, <2>1 DEF Knows, KnowsEpoch, Committing
  <2>4. req[q].at # "announce"
    BY <1>1, <1>2, <2>1 DEF Knows, KnowsEpoch
  <2>5. ASSUME req[q].at = "ack" PROVE req[q].to = {}
    <3>1. \A w \in req[q].to : w[2] \in Store!Epochs /\ w[2] <= -1
      BY <1>1, <2>1, <2>5 DEF Knows, KnowsEpoch
    <3> QED BY <1>2, <3>1
  <2>6. KnowsEpoch(req[q])'
    BY <1>1, <1>4, <2>1, <2>3, <2>4, <2>5 DEF Knows, KnowsEpoch, Committing, Registered, Store!Registered
  <2>7. req[q].at # "commits"
    BY <1>1, <2>1 DEF Knows, KnowsWalk, Request
  <2>8. KnowsWalk(req[q])'
    BY <1>1, <1>4, <2>1, <2>7 DEF Knows, KnowsWalk, Store!Listing, Store!DevicesOf
  <2> QED BY <2>2, <2>6, <2>8 DEF Knows
<1>5. /\ req' \in [Requests -> Request]
      /\ \A q \in Requests : Knows(req[q])'
      /\ \A q, s \in Requests : q # s => Apart(req[q], req[s])'
  BY <1>1, <1>4, DoneApart
<1>6. Tables' /\ Histories'
  <2>1. epoch' \in NoGroup .. MaxEpoch
    BY <1>1, Numbers DEF NoGroup, Store!NoGroup
  <2> QED BY <1>1, <2>1 DEF IInv, Tables, Histories, Store!Epochs, Store!DeviceRow, Store!NoDevice
<1>7. Packages' /\ Issued' /\ BackupIsNotLost'
  BY <1>1 DEF IInv, Packages, Issued, Registered, Store!Registered, BackupIsNotLost
<1>8. Log' /\ Welcomes' /\ Announced'
  BY <1>1, <1>2, <1>3 DEF IInv, Log, Welcomes, Announced, Store!Epochs
<1> QED BY <1>5, <1>6, <1>7, <1>8 DEF IInv

\* The log grows by the commit that has the group's row, and its welcomes are
\* there with it.
LEMMA CommitEpochKeeps == ASSUME IInv, NEW p \in Requests, CommitEpoch(p) PROVE IInv'
<1> DEFINE e == req[p].epoch + 1
           to == req[p].to
           owners == {devices[d].by : d \in to}
           r == [req[p] EXCEPT !.at = "announce", !.epoch = e, !.to = owners]
<1>1. /\ req[p] \in Request /\ req[p].at = "welcomed" /\ req[p].held = {} /\ epoch = req[p].epoch
      /\ epoch \in 0 .. MaxEpoch - 1 /\ req[p].by \in Users /\ to \subseteq 1 .. issued.devices
      /\ \A d \in to : Registered(d) /\ devices[d].by \in members \cup left
  BY DEF IInv, CommitEpoch, Knows, KnowsEpoch, KnowsPackages, Committing
<1>2. /\ epoch' = e /\ commits' = [commits EXCEPT ![e] = req[p].by] /\ welcomes' = welcomes \cup (to \X {e})
      /\ sent' = sent \cup (to \X {e})
      /\ UNCHANGED <<devices, pool, backups, members, issued, told, greeted, stale, handed, gone, left, mute, reset, blind>>
  BY DEF CommitEpoch
<1>3. /\ e \in Store!Epochs /\ e \in Nat /\ epoch \in Nat /\ epoch < e /\ e <= MaxEpoch /\ MaxEpoch \in Nat
      /\ req[p].by # 0 /\ to \subseteq DeviceIds
  <2>1. MaxEpoch \in Nat /\ req[p].by # 0
    BY <1>1, Numbers
  <2>2. to \subseteq DeviceIds
    BY <1>1, Numbers DEF DeviceIds, IInv, Tables
  <2> QED BY <1>1, <2>1, <2>2 DEF Store!Epochs
<1>4. owners \subseteq Users
  BY <1>1 DEF IInv, Tables, Histories
<1>5. r \in Request /\ r.at = "announce" /\ r.held = {} /\ r.epoch = e /\ r.to = owners
  <2>1. owners \subseteq Nat
    BY <1>4, Numbers
  <2> QED BY <1>1, <1>3, <2>1 DEF Request, Places, Things
<1>6. req' = [req EXCEPT ![p] = r]
  BY <1>1 DEF CommitEpoch, IInv, Request
<1> HIDE DEF r
<1>7. \A q \in Requests \ {p} : req[q].at \notin Committing
  BY <1>1 DEF IInv, Apart, Committing
<1>8. \A q \in Requests \ {p} : Apart(r, req[q]) /\ Apart(req[q], r)
  BY <1>5 DEF Apart, Committing
<1>9. /\ req' \in [Requests -> Request] /\ req'[p] = r /\ \A q \in Requests \ {p} : req'[q] = req[q]
      /\ \A q, s \in Requests : q # s => Apart(req[q], req[s])'
  BY <1>5, <1>6, <1>8, MovedApart
<1>10. Knows(req[p])'
  <2>1. KnowsEpoch(req[p])'
    BY <1>2, <1>3, <1>4, <1>5, <1>9 DEF KnowsEpoch, Committing, Store!Epochs
  <2> QED BY <1>5, <1>9, <2>1 DEF Knows, KnowsPackages, KnowsBackup, KnowsWalk
<1>11. ASSUME NEW q \in Requests \ {p} PROVE Knows(req[q])'
  <2>1. Knows(req[q]) /\ req[q] \in Request /\ req'[q] = req[q]
    BY <1>9 DEF IInv
  <2>2. KnowsPackages(req[q])' /\ KnowsBackup(req[q])'
    BY <1>2, <2>1, KnowsPackagesStays, KnowsBackupStays DEF Knows
  <2>3. ASSUME req[q].at = "ack", NEW w \in req[q].to PROVE w[2] <= e
    <3>1. w[2] \in Nat /\ w[2] <= epoch
      BY <2>1, <2>3, Numbers DEF Knows, KnowsEpoch
    <3> QED BY <1>3, <3>1
  <2>4. ASSUME req[q].at = "announce" PROVE req[q].epoch <= e
    BY <1>3, <2>1, <2>4 DEF Knows, KnowsEpoch, Request
  <2>5. KnowsEpoch(req[q])'
    BY <1>2, <1>7, <2>1, <2>3, <2>4 DEF Knows, KnowsEpoch, Committing, Owned, Registered, Store!Registered, Store!Epochs
  <2>6. ASSUME req[q].at = "commits" PROVE req[q].cursor <= e /\ req[q].stay \subseteq req[q].epoch + 1 .. e
    <3>1. req[q].cursor \in Nat /\ req[q].epoch \in Nat /\ req[q].cursor <= epoch /\ req[q].stay \subseteq req[q].epoch + 1 .. epoch
      BY <2>1, <2>6 DEF Knows, KnowsWalk, Request
    <3>2. req[q].epoch + 1 .. epoch \subseteq req[q].epoch + 1 .. e
      BY <1>3, <3>1
    <3> QED BY <1>3, <3>1, <3>2
  <2>7. KnowsWalk(req[q])'
    BY <1>2, <2>1, <2>6 DEF Knows, KnowsWalk, Store!Listing, Store!DevicesOf
  <2> QED BY <2>2, <2>5, <2>7 DEF Knows
<1>12. Tables' /\ Histories'
  <2>1. epoch' \in NoGroup .. MaxEpoch
    BY <1>2, <1>3 DEF NoGroup, Store!NoGroup
  <2>2. to \X {e} \subseteq DeviceIds \X Store!Epochs
    BY <1>3
  <2>3. commits' \in [Store!Epochs -> Users \cup {0}]
    BY <1>1, <1>2, <1>3 DEF IInv, Tables
  <2> HIDE DEF e, to
  <2> QED BY <1>2, <2>1, <2>2, <2>3 DEF IInv, Tables, Histories, Store!Epochs, Store!DeviceRow, Store!NoDevice
<1>13. Packages' /\ Issued' /\ BackupIsNotLost'
  BY <1>2 DEF IInv, Packages, Issued, Registered, Store!Registered, BackupIsNotLost
<1>14. Log'
  <2>1. commits \in [Store!Epochs -> Users \cup {0}]
    BY DEF IInv, Tables
  <2>2. ASSUME NEW n \in Store!Epochs PROVE commits'[n] # 0 <=> n <= e
    <3>1. n \in Nat
      BY Numbers
    <3>2. CASE n = e
      BY <1>2, <1>3, <2>1, <3>2
    <3>3. CASE n # e
      <4>1. commits'[n] = commits[n] /\ (commits[n] # 0 <=> n <= epoch)
        BY <1>2, <2>1, <3>3 DEF IInv, Log
      <4> QED BY <1>1, <1>3, <3>1, <3>3, <4>1
    <3> QED BY <3>2, <3>3
  <2> QED BY <1>2, <2>2 DEF Log, Store!Epochs
<1>15. \A w \in sent \cup gone : w[2] \in Nat /\ w[2] <= epoch /\ w[2] # e
  <2>1. \A w \in sent \cup gone : w[2] \in Nat /\ w[2] <= epoch
    BY Numbers DEF IInv, Histories, Welcomes
  <2> QED BY <1>3, <2>1
<1>16. Welcomes'
  <2>1. welcomes' = sent' \ gone'
    <3>1. gone \cap (to \X {e}) = {}
      BY <1>15
    <3> QED BY <1>2, <3>1 DEF IInv, Welcomes
  <2>2. \A w \in sent' \cup gone' : w[2] <= e
    <3> HIDE DEF to, e
    <3>1. \A w \in to \X {e} : w[2] <= e
      BY <1>3
    <3>2. \A w \in sent \cup gone : w[2] <= e
      BY <1>3, <1>15
    <3> QED BY <1>2, <3>1, <3>2
  <2>3. \A w \in welcomes' : Registered(w[1]) /\ devices[w[1]].by \in members \cup left
    BY <1>1, <1>2 DEF IInv, Welcomes
  <2> QED BY <1>2, <2>1, <2>2, <2>3 DEF Welcomes, Registered, Store!Registered
<1>17. Announced'
  <2> SUFFICES ASSUME NEW n \in Store!Epochs, n <= e
               PROVE  \/ n \in mute
                      \/ n \in told /\ \A w \in welcomes' : w[2] = n => <<devices[w[1]].by, n>> \in greeted
                      \/ \E q \in Requests : /\ req'[q].at = "announce" /\ req'[q].epoch = n
                                             /\ \A w \in welcomes' : w[2] = n => devices[w[1]].by \in req'[q].to
    BY <1>2 DEF Announced, Store!Epochs
  <2>1. CASE n = e
    <3>1. \A w \in welcomes' : w[2] = n => devices[w[1]].by \in owners
      BY <1>2, <1>15, <2>1 DEF IInv, Welcomes
    <3> QED BY <1>5, <1>9, <2>1, <3>1
  <2>2. CASE n # e
    <3>1. n \in Nat /\ n <= epoch
      BY <1>1, <1>3, <2>2, Numbers
    <3>2. \A w \in welcomes' : w[2] = n => w \in welcomes
      BY <1>2, <2>2
    <3>3. \A q \in Requests : req[q].at = "announce" => req'[q] = req[q]
      BY <1>1, <1>9
    <3> QED BY <3>1, <3>2, <3>3 DEF IInv, Announced
  <2> QED BY <2>1, <2>2
<1> QED BY <1>9, <1>10, <1>11, <1>12, <1>13, <1>14, <1>16, <1>17 DEF IInv

\* Two claims lock different packages, so that each is handed out once.
LEMMA CommitClaimKeeps == ASSUME IInv, NEW p \in Requests, CommitClaim(p) PROVE IInv'
<1> DEFINE held == req[p].held
<1>1. /\ req[p].at = "claim" /\ held \subseteq PackageIds /\ \A k \in held : pool[k] # 0
  BY DEF IInv, CommitClaim, Knows, KnowsPackages, Request
<1>2. /\ pool' = [k \in PackageIds |-> IF k \in held THEN 0 ELSE pool[k]]
      /\ handed' = [k \in PackageIds |-> IF k \in held THEN handed[k] + 1 ELSE handed[k]]
      /\ req' = [req EXCEPT ![p] = Idle]
      /\ UNCHANGED <<devices, epoch, commits, welcomes, backups, members, issued, told, greeted,
                     stale, sent, gone, left, mute, reset, blind>>
  BY DEF CommitClaim, Done
<1> HIDE DEF held
<1>3. pool \in [PackageIds -> DeviceIds \cup {0}] /\ handed \in [PackageIds -> Nat] /\ Packages
  BY DEF IInv, Tables, Histories
<1>4. \A k \in PackageIds : IF k \in held THEN pool'[k] = 0 /\ handed'[k] = 1 ELSE pool'[k] = pool[k] /\ handed'[k] = handed[k]
  BY <1>1, <1>2, <1>3 DEF Packages
<1>5. Tables' /\ Histories'
  <2>1. pool' \in [PackageIds -> DeviceIds \cup {0}] /\ handed' \in [PackageIds -> Nat]
    BY <1>2, <1>3
  <2> QED BY <1>2, <2>1 DEF IInv, Tables, Histories, Store!Epochs, Store!DeviceRow, Store!NoDevice
<1>6. Packages'
  BY <1>1, <1>2, <1>3, <1>4 DEF Packages, Registered, Store!Registered
<1>7. ASSUME NEW q \in Requests \ {p}, req'[q] = req[q] PROVE Knows(req[q])'
  <2>1. Knows(req[q]) /\ req[q] \in Request /\ req[q].held \cap held = {} /\ req[q].held \subseteq PackageIds
    BY DEF IInv, Apart, Request, held
  <2>2. KnowsEpoch(req[q])' /\ KnowsBackup(req[q])' /\ KnowsWalk(req[q])'
    BY <1>2, <1>7, <2>1, KnowsEpochStays, KnowsBackupStays, KnowsWalkStays DEF Knows
  <2>3. \A k \in req[q].held : pool'[k] = pool[k]
    BY <1>4, <2>1
  <2>4. ASSUME req[q].at = "stored"
        PROVE  \E n \in 1 .. issued.packages : req[q].to = {n} /\ pool'[n] = 0 /\ handed'[n] = 0 /\ n \notin stale
    <3>1. PICK n \in 1 .. issued.packages : req[q].to = {n} /\ pool[n] = 0 /\ handed[n] = 0 /\ n \notin stale
      BY <2>1, <2>4 DEF Knows, KnowsPackages
    <3>2. n \in PackageIds
      BY <3>1, Numbers DEF IInv, Tables, PackageIds
    <3> QED BY <1>1, <1>4, <3>1, <3>2
  <2>5. KnowsPackages(req[q])'
    BY <1>2, <1>7, <2>1, <2>3, <2>4 DEF Knows, KnowsPackages, Owned, Registered, Store!Registered, PoolOf
  <2> QED BY <2>2, <2>5 DEF Knows
<1>8. /\ req' \in [Requests -> Request]
      /\ \A q \in Requests : Knows(req[q])'
      /\ \A q, s \in Requests : q # s => Apart(req[q], req[s])'
  BY <1>2, <1>7, DoneApart
<1>9. Issued' /\ Log' /\ Welcomes' /\ BackupIsNotLost'
  BY <1>2 DEF IInv, Issued, Log, Welcomes, Registered, Store!Registered, Store!Epochs, BackupIsNotLost
<1>10. Announced'
  BY <1>1, <1>2, AnnouncedStays
<1> QED BY <1>5, <1>6, <1>8, <1>9, <1>10 DEF IInv

\* The new packages have ids that were not given out.
LEMMA InsertPackagesKeeps == ASSUME IInv, NEW p \in Requests, InsertPackages(p) PROVE IInv'
<1> DEFINE n == issued.packages + 1
           r == [req[p] EXCEPT !.at = "stored", !.to = {n}]
<1>1. /\ req[p] \in Request /\ req[p].at = "insert" /\ req[p].on \in DeviceIds /\ req[p].held \subseteq PoolOf(req[p].on)
      /\ ~DeviceLocked(p, req[p].on)
  BY DEF IInv, InsertPackages, Knows, KnowsPackages
<1>2. UNCHANGED <<devices, pool, epoch, commits, welcomes, backups, members, stale, handed, sent, gone,
                  left, reset, blind, told, greeted, mute>>
  BY DEF InsertPackages, storeVars, ghostVars
<1>3. CASE ~Registered(req[p].on)
  <2>1. Done(p) /\ UNCHANGED <<Shared, told, greeted, mute>>
    BY <1>2, <1>3 DEF InsertPackages, Shared
  <2> QED BY <1>1, <2>1, DoneKeeps
<1>4. CASE Registered(req[p].on)
  <2>1. /\ issued.packages < MaxPackages /\ issued' = [issued EXCEPT !.packages = n]
        /\ req' = [req EXCEPT ![p].at = "stored", ![p].to = {n}]
    BY <1>4 DEF InsertPackages
  <2>2. issued \in [devices : 0 .. MaxDevices, packages : 0 .. MaxPackages]
    BY DEF IInv, Tables
  <2>3. n \in PackageIds /\ n \in Nat /\ n > issued.packages /\ issued.packages \in Nat
    BY <2>1, <2>2, Numbers DEF PackageIds
  <2>4. pool[n] = 0 /\ handed[n] = 0 /\ n \notin stale
    BY <2>3 DEF IInv, Packages
  <2>5. /\ issued' \in [devices : 0 .. MaxDevices, packages : 0 .. MaxPackages]
        /\ issued'.devices = issued.devices /\ issued'.packages = n
    BY <2>1, <2>2, <2>3 DEF PackageIds
  <2>6. r \in Request /\ r.at = "stored" /\ r.to = {n} /\ r.on = req[p].on /\ r.held = req[p].held
    BY <1>1, <2>3 DEF Request, Places, Things
  <2>7. req' = [req EXCEPT ![p] = r]
    BY <1>1, <2>1 DEF IInv, Request
  <2> HIDE DEF r
  <2>8. ASSUME NEW q \in Requests \ {p} PROVE Apart(r, req[q]) /\ Apart(req[q], r)
    <3>1. Apart(req[p], req[q]) /\ Apart(req[q], req[p]) /\ Knows(req[q])
      BY DEF IInv
    <3>2. req[q].at = "stored" => n \notin req[q].to
      BY <2>3, <3>1 DEF Knows, KnowsPackages
    <3>3. ~(req[q].at = "cascade" /\ req[q].on = r.on)
      BY <1>1, <2>6 DEF DeviceLocked
    <3> QED BY <2>6, <3>1, <3>2, <3>3 DEF Apart, Committing
  <2>9. /\ req' \in [Requests -> Request] /\ req'[p] = r /\ \A q \in Requests \ {p} : req'[q] = req[q]
        /\ \A q, s \in Requests : q # s => Apart(req[q], req[s])'
    BY <2>6, <2>7, <2>8, MovedApart
  <2>10. Knows(req[p])'
    <3>1. n \in 1 .. issued'.packages
      BY <2>3, <2>5
    <3>2. KnowsPackages(req[p])'
      BY <1>1, <1>2, <1>4, <2>4, <2>6, <2>9, <3>1 DEF KnowsPackages, PoolOf, Registered, Store!Registered
    <3> QED BY <2>6, <2>9, <3>2 DEF Knows, KnowsEpoch, KnowsBackup, KnowsWalk, Committing
  <2>11. ASSUME NEW q \in Requests \ {p} PROVE Knows(req[q])'
    <3>1. Knows(req[q]) /\ req'[q] = req[q]
      BY <2>9 DEF IInv
    <3>2. 1 .. issued.packages \subseteq 1 .. issued'.packages
      BY <2>3, <2>5
    <3>3. KnowsBackup(req[q])' /\ KnowsWalk(req[q])'
      BY <1>2, <3>1, KnowsBackupStays, KnowsWalkStays DEF Knows
    <3>4. KnowsPackages(req[q])'
      BY <1>2, <2>5, <3>1, <3>2 DEF Knows, KnowsPackages, Owned, Registered, Store!Registered, PoolOf
    <3>5. KnowsEpoch(req[q])'
      BY <1>2, <2>5, <3>1 DEF Knows, KnowsEpoch, Owned, Registered, Store!Registered
    <3> QED BY <3>1, <3>3, <3>4, <3>5 DEF Knows
  <2>12. Tables' /\ Histories'
    BY <1>2, <2>5 DEF IInv, Tables, Histories, Store!Epochs, Store!DeviceRow, Store!NoDevice
  <2>13. Packages'
    <3>1. \A k \in PackageIds : k \in Nat
      BY Numbers
    <3>2. \A k \in PackageIds : k > issued'.packages => k > issued.packages
      BY <2>3, <2>5, <3>1
    <3> QED BY <1>2, <3>2 DEF IInv, Packages, Registered, Store!Registered
  <2>14. Issued' /\ Log' /\ Welcomes' /\ BackupIsNotLost'
    BY <1>2, <2>5 DEF IInv, Issued, Log, Welcomes, Registered, Store!Registered, Store!Epochs, BackupIsNotLost
  <2>15. Announced'
    BY <1>1, <1>2, <2>7, AnnouncedStays
  <2> QED BY <2>9, <2>10, <2>11, <2>12, <2>13, <2>14, <2>15 DEF IInv
<1> QED BY <1>3, <1>4

\* The packages a replacement removes are its own to remove, and the one it stores is new.
LEMMA CommitReplaceKeeps == ASSUME IInv, NEW p \in Requests, CommitReplace(p) PROVE IInv'
<1> DEFINE d == req[p].on
           held == req[p].held
<1>1. /\ req[p].at = "stored" /\ d \in DeviceIds /\ held \subseteq PoolOf(d) /\ Registered(d)
      /\ \E n \in 1 .. issued.packages : req[p].to = {n} /\ pool[n] = 0 /\ handed[n] = 0 /\ n \notin stale
  BY DEF IInv, CommitReplace, Knows, KnowsPackages
<1>2. PICK n \in 1 .. issued.packages : req[p].to = {n} /\ pool[n] = 0 /\ handed[n] = 0 /\ n \notin stale
  BY <1>1
<1>3. /\ pool' = [k \in PackageIds |-> IF k \in {n} THEN d ELSE IF k \in held THEN 0 ELSE pool[k]]
      /\ stale' = stale \cup (PoolOf(d) \ held) /\ req' = [req EXCEPT ![p] = Idle]
      /\ UNCHANGED <<devices, epoch, commits, welcomes, backups, members, issued, told, greeted,
                     handed, sent, gone, left, mute, reset, blind>>
  BY <1>2 DEF CommitReplace, Done
<1> HIDE DEF d, held
<1>4. /\ n \in PackageIds /\ n \in Nat /\ issued.packages \in Nat /\ n <= issued.packages
      /\ d # 0 /\ held \subseteq PackageIds /\ \A k \in held : pool[k] = d
  <2>1. d # 0 /\ held \subseteq PackageIds /\ \A k \in held : pool[k] = d
    BY <1>1, Numbers DEF PoolOf
  <2>2. issued.packages \in 0 .. MaxPackages /\ MaxPackages \in Nat
    BY Numbers DEF IInv, Tables
  <2> QED BY <2>1, <2>2 DEF PackageIds
<1>5. pool \in [PackageIds -> DeviceIds \cup {0}] /\ Packages
  BY DEF IInv, Tables
<1>6. \A k \in PackageIds : pool'[k] = IF k = n THEN d ELSE IF k \in held THEN 0 ELSE pool[k]
  BY <1>3
<1>7. PoolOf(d) \subseteq PackageIds /\ \A k \in PoolOf(d) : pool[k] = d
  BY DEF PoolOf
<1>8. Tables' /\ Histories'
  <2>1. pool' \in [PackageIds -> DeviceIds \cup {0}] /\ stale' \subseteq PackageIds
    BY <1>1, <1>3, <1>5, <1>7 DEF IInv, Histories
  <2> QED BY <1>3, <2>1 DEF IInv, Tables, Histories, Store!Epochs, Store!DeviceRow, Store!NoDevice
<1>9. Packages'
  <2> SUFFICES ASSUME NEW k \in PackageIds
               PROVE  /\ pool'[k] # 0 => Registered(pool'[k])
                      /\ handed[k] = 0 \/ (handed[k] = 1 /\ pool'[k] = 0)
                      /\ k > issued.packages => pool'[k] = 0 /\ handed[k] = 0 /\ k \notin stale'
    BY <1>3 DEF Packages, Registered, Store!Registered
  <2>1. k \in Nat
    BY Numbers
  <2> QED BY <1>1, <1>2, <1>3, <1>4, <1>5, <1>6, <1>7, <2>1 DEF Packages
<1>10. ASSUME NEW q \in Requests \ {p}, req'[q] = req[q] PROVE Knows(req[q])'
  <2>1. /\ Knows(req[q]) /\ req[q] \in Request /\ req[q].held \cap held = {} /\ req[q].held \subseteq PackageIds
        /\ req[q].at = "stored" => n \notin req[q].to
    BY <1>1, <1>2 DEF IInv, Apart, Request, held
  <2>2. KnowsEpoch(req[q])' /\ KnowsBackup(req[q])' /\ KnowsWalk(req[q])'
    BY <1>3, <1>10, <2>1, KnowsEpochStays, KnowsBackupStays, KnowsWalkStays DEF Knows
  <2>3. ASSUME NEW k \in req[q].held PROVE pool'[k] = pool[k]
    <3>1. pool[k] # 0
      BY <2>1, Numbers DEF Knows, KnowsPackages, PoolOf
    <3> QED BY <1>2, <1>6, <2>1, <3>1
  <2>4. ASSUME req[q].at = "stored"
        PROVE  \E m \in 1 .. issued.packages : req[q].to = {m} /\ pool'[m] = 0 /\ handed[m] = 0 /\ m \notin stale'
    <3>1. PICK m \in 1 .. issued.packages : req[q].to = {m} /\ pool[m] = 0 /\ handed[m] = 0 /\ m \notin stale
      BY <2>1, <2>4 DEF Knows, KnowsPackages
    <3>2. m \in PackageIds /\ m # n
      BY <2>1, <2>4, <3>1, Numbers DEF IInv, Tables, PackageIds
    <3>3. m \notin PoolOf(d)
      BY <1>4, <1>7, <3>1
    <3> QED BY <1>3, <1>4, <1>6, <3>1, <3>2, <3>3
  <2>5. KnowsPackages(req[q])'
    BY <1>3, <1>10, <2>1, <2>3, <2>4 DEF Knows, KnowsPackages, Owned, Registered, Store!Registered, PoolOf
  <2> QED BY <2>2, <2>5 DEF Knows
<1>11. /\ req' \in [Requests -> Request]
       /\ \A q \in Requests : Knows(req[q])'
       /\ \A q, s \in Requests : q # s => Apart(req[q], req[s])'
  BY <1>3, <1>10, DoneApart
<1>12. Issued' /\ Log' /\ Welcomes' /\ BackupIsNotLost'
  BY <1>3 DEF IInv, Issued, Log, Welcomes, Registered, Store!Registered, Store!Epochs, BackupIsNotLost
<1>13. Announced'
  BY <1>1, <1>3, AnnouncedStays
<1> QED BY <1>8, <1>9, <1>11, <1>12, <1>13 DEF IInv

\* A device that is inserted has an id that was not given out, so that nothing
\* a request knows is about it.
LEMMA InsertDeviceKeeps == ASSUME IInv, NEW p \in Requests, InsertDevice(p) PROVE IInv'
<1> DEFINE row == [by |-> req[p].by, key |-> req[p].on]
           n == issued.devices + 1
<1>1. /\ req[p].at = "register" /\ req[p].by \in Users /\ req[p].on \in SignatureKeys
      /\ req' = [req EXCEPT ![p] = Idle]
      /\ UNCHANGED <<pool, epoch, commits, welcomes, backups, members, told, greeted,
                     stale, handed, sent, gone, left, mute, reset, blind>>
  BY DEF IInv, InsertDevice, Done, Knows, KnowsBackup, ghostVars
<1>2. CASE UNCHANGED <<devices, issued>>
  BY <1>1, <1>2, DoneKeeps DEF Done, Shared
<1>3. CASE /\ issued.devices < MaxDevices /\ issued' = [issued EXCEPT !.devices = @ + 1]
           /\ devices' = [devices EXCEPT ![n] = row]
  <2>1. issued \in [devices : 0 .. MaxDevices, packages : 0 .. MaxPackages] /\ devices \in [DeviceIds -> Store!DeviceRow]
    BY DEF IInv, Tables
  <2>2. n \in DeviceIds /\ n \in Nat /\ n > issued.devices /\ issued.devices \in Nat
    BY <1>3, <2>1, Numbers DEF DeviceIds
  <2>3. ~Registered(n) /\ devices[n].by = 0
    BY <2>2, RegisteredHasOwner
  <2>4. /\ issued' \in [devices : 0 .. MaxDevices, packages : 0 .. MaxPackages]
        /\ issued'.devices = n /\ issued'.packages = issued.packages
    BY <1>3, <2>1, <2>2 DEF DeviceIds
  <2>5. row \in Store!DeviceRow /\ row.by = req[p].by /\ row # Store!NoDevice /\ row.by \in Users
    BY <1>1, Numbers DEF Store!DeviceRow, Store!NoDevice
  <2>6. /\ devices' \in [DeviceIds -> Store!DeviceRow] /\ devices'[n] = row
        /\ \A d \in DeviceIds \ {n} : devices'[d] = devices[d]
    BY <1>3, <2>1, <2>2, <2>5
  <2> HIDE DEF row, n
  <2>7. \A d \in DeviceIds : Registered(d) => d # n /\ devices'[d] = devices[d] /\ Registered(d)'
    BY <2>3, <2>6 DEF Registered, Store!Registered
  <2>8. /\ \A d \in 1 .. issued.devices : d \in DeviceIds /\ devices'[d] = devices[d]
        /\ 1 .. issued.devices \subseteq 1 .. issued'.devices
    <3>1. \A d \in 1 .. issued.devices : d \in DeviceIds /\ d # n
      BY <2>1, <2>2, Numbers DEF DeviceIds
    <3> QED BY <2>2, <2>4, <2>6, <3>1
  <2>9. Tables' /\ Histories'
    BY <1>1, <2>4, <2>6 DEF IInv, Tables, Histories, Store!Epochs, Store!DeviceRow, Store!NoDevice
  <2>10. Packages'
    <3>1. \A k \in PackageIds : pool[k] # 0 => pool[k] \in DeviceIds /\ Registered(pool[k])
      BY DEF IInv, Tables, Packages
    <3>2. \A k \in PackageIds : pool[k] # 0 => Registered(pool[k])'
      BY <1>1, <2>7, <3>1 DEF Registered, Store!Registered
    <3> QED BY <1>1, <2>4, <3>2 DEF IInv, Packages
  <2>11. Issued'
    <3> SUFFICES ASSUME NEW d \in DeviceIds, devices'[d] # Store!NoDevice PROVE d <= n
      BY <2>4 DEF Issued, Registered, Store!Registered, Store!NoDevice
    <3>1. d \in Nat
      BY Numbers
    <3>2. CASE d = n
      BY <2>2, <3>2
    <3>3. CASE d # n
      <4>1. Registered(d)
        BY <2>6, <3>3 DEF Registered, Store!Registered
      <4>2. d <= issued.devices
        BY <4>1 DEF IInv, Issued
      <4> QED BY <2>2, <3>1, <4>2
    <3> QED BY <3>2, <3>3
  <2>12. \A w \in welcomes : w[1] \in DeviceIds /\ Registered(w[1]) /\ devices[w[1]].by \in members \cup left
    BY DEF IInv, Tables, Welcomes
  <2>13. \A w \in welcomes : devices'[w[1]] = devices[w[1]] /\ Registered(w[1])'
    BY <1>1, <2>7, <2>12 DEF Registered, Store!Registered
  <2>14. Log' /\ Welcomes' /\ BackupIsNotLost'
    BY <1>1, <2>12, <2>13 DEF IInv, Log, Welcomes, Store!Epochs, BackupIsNotLost
  <2>15. \A q \in Requests : req[q].at = "announce" => req'[q] = req[q]
    BY <1>1 DEF IInv
  <2>16. Announced'
    BY <1>1, <2>13, <2>15 DEF IInv, Announced, Store!Epochs
  <2>17. ASSUME NEW q \in Requests \ {p}, req'[q] = req[q] PROVE Knows(req[q])'
    <3>1. Knows(req[q]) /\ req[q] \in Request /\ req[q].held \subseteq PackageIds
      BY DEF IInv, Request
    <3>2. KnowsBackup(req[q])'
      BY <1>1, <2>17, <3>1, KnowsBackupStays DEF Knows
    <3>3. ASSUME NEW d, NEW u, Owned(d, u) PROVE Owned(d, u)'
      BY <2>8, <3>3 DEF Owned, Registered, Store!Registered
    <3>4. ASSUME req[q].at = "claim", NEW k \in req[q].held PROVE devices'[pool[k]].by = devices[pool[k]].by
      <4>1. k \in PackageIds /\ pool[k] # 0
        BY <3>1, <3>4 DEF Knows, KnowsPackages
      <4>2. pool[k] \in DeviceIds /\ Registered(pool[k])
        BY <4>1 DEF IInv, Tables, Packages
      <4> QED BY <2>7, <4>2
    <3>5. KnowsPackages(req[q])'
      <4>1. req[q].at \in {"cascade", "stored"} => Registered(req[q].on)'
        BY <2>7, <2>17, <3>1 DEF Knows, KnowsPackages, Registered, Store!Registered
      <4>2. req[q].at = "claim" => KnowsPackages(req[q])'
        BY <1>1, <2>17, <3>1, <3>3, <3>4 DEF Knows, KnowsPackages
      <4>3. req[q].at # "claim" => KnowsPackages(req[q])'
        BY <1>1, <2>4, <2>17, <3>1, <4>1 DEF Knows, KnowsPackages, PoolOf
      <4> QED BY <4>2, <4>3
    <3>6. KnowsEpoch(req[q])'
      <4>1. ASSUME req[q].at \in {"advance"} \cup Committing, NEW d \in req[q].to
            PROVE  d \in 1 .. issued'.devices /\ devices'[d] = devices[d]
        BY <2>8, <3>1, <4>1 DEF Knows, KnowsEpoch
      <4>2. req[q].at \in {"advance"} \cup Committing => KnowsEpoch(req[q])'
        BY <1>1, <2>17, <3>1, <4>1 DEF Knows, KnowsEpoch, Committing, Registered, Store!Registered
      <4>3. req[q].at \notin {"advance"} \cup Committing => KnowsEpoch(req[q])'
        BY <1>1, <2>17, <3>1, <3>3 DEF Knows, KnowsEpoch, Committing, Store!Epochs
      <4> QED BY <4>2, <4>3
    <3>7. ASSUME NEW x \in Store!Listing(members) PROVE x \in Store!Listing(members)'
      <4>1. x \in members \X (DeviceIds \cup {0}) /\ x[2] \in Store!DevicesOf(x[1]) \cup {0} /\ x[1] \in members
        BY DEF Store!Listing, Store!DeviceIds, DeviceIds
      <4>2. x[1] \in Nat \ {0}
        BY <4>1, Numbers DEF IInv, Tables
      <4>3. x[2] # 0 => x[2] \in DeviceIds /\ devices[x[2]].by = x[1]
        BY <4>1 DEF Store!DevicesOf, Store!DeviceIds, DeviceIds
      <4>4. x[2] # 0 => devices'[x[2]].by = x[1]
        BY <2>3, <2>6, <4>2, <4>3
      <4> QED BY <1>1, <4>1, <4>3, <4>4 DEF Store!Listing, Store!DevicesOf, Store!DeviceIds, DeviceIds
    <3>8. KnowsWalk(req[q])'
      BY <1>1, <2>17, <3>1, <3>7 DEF Knows, KnowsWalk
    <3> QED BY <3>2, <3>5, <3>6, <3>8 DEF Knows
  <2>18. /\ req' \in [Requests -> Request]
         /\ \A q \in Requests : Knows(req[q])'
         /\ \A q, s \in Requests : q # s => Apart(req[q], req[s])'
    BY <1>1, <2>17, DoneApart
  <2> QED BY <2>9, <2>10, <2>11, <2>14, <2>16, <2>18 DEF IInv
<1> QED BY <1>2, <1>3 DEF InsertDevice

\* What is changed of a walk when what it has to list becomes less.
LEMMA Relisted ==
  ASSUME IInv, NEW p \in Requests, NEW stay, stay \subseteq req[p].stay
  PROVE  LET r == [req[p] EXCEPT !.stay = stay] IN
         /\ r \in Request /\ r.at = req[p].at /\ r.held = req[p].held /\ r.to = req[p].to /\ r.on = req[p].on
         /\ r.by = req[p].by /\ r.epoch = req[p].epoch /\ r.got = req[p].got /\ r.cursor = req[p].cursor
         /\ r.twice = req[p].twice /\ r.stay = stay
<1>1. req[p] \in Request
  BY DEF IInv
<1> QED BY <1>1 DEF Request

\* Nothing another request holds is of the device that goes.
LEMMA CascadeKeeps == ASSUME IInv, NEW p \in Requests, Cascade(p) PROVE IInv'
<1> DEFINE d == req[p].on
           mine == {<<devices[d].by, d>>}
<1>1. /\ req[p].at = "cascade" /\ d \in DeviceIds /\ Registered(d)
      /\ \A k \in PoolOf(d) : ~PackageLocked(p, k)
  BY DEF IInv, Cascade, Knows, KnowsPackages
<1>2. /\ devices' = [devices EXCEPT ![d] = NoDevice]
      /\ pool' = [k \in PackageIds |-> IF pool[k] = d THEN 0 ELSE pool[k]]
      /\ welcomes' = {w \in welcomes : w[1] # d}
      /\ gone' = gone \cup {w \in welcomes : w[1] = d}
      /\ UNCHANGED <<epoch, commits, backups, members, issued, told, greeted,
                     stale, handed, sent, left, mute, reset, blind>>
  BY DEF Cascade
<1>3. req' = [q \in Requests |-> IF q = p THEN Idle
                                 ELSE IF req[q].at = "devices" THEN [req[q] EXCEPT !.stay = req[q].stay \ mine]
                                 ELSE req[q]]
  BY DEF Cascade
<1> HIDE DEF d, mine
<1>4. ASSUME NEW q \in Requests \ {p}
      PROVE  /\ req'[q] \in Request /\ req'[q].at = req[q].at /\ req'[q].held = req[q].held
             /\ req'[q].to = req[q].to /\ req'[q].on = req[q].on
             /\ req'[q].by = req[q].by /\ req'[q].epoch = req[q].epoch /\ req'[q].got = req[q].got
             /\ req'[q].cursor = req[q].cursor /\ req'[q].twice = req[q].twice
             /\ req'[q].stay = IF req[q].at = "devices" THEN req[q].stay \ mine ELSE req[q].stay
             /\ req[q].at # "devices" => req'[q] = req[q]
  <2>1. CASE req[q].at = "devices"
    <3>1. req[q].stay \ mine \subseteq req[q].stay
      OBVIOUS
    <3>2. req'[q] = [req[q] EXCEPT !.stay = req[q].stay \ mine]
      BY <1>3, <2>1
    <3> QED BY <2>1, <3>1, <3>2, Relisted
  <2>2. CASE req[q].at # "devices"
    BY <1>3, <2>2 DEF IInv
  <2> QED BY <2>1, <2>2
<1>5. req'[p] = Idle /\ req' \in [Requests -> Request]
  BY <1>3, <1>4, IdleOK
<1>6. ASSUME NEW q \in Requests, NEW s \in Requests, q # s PROVE Apart(req[q], req[s])'
  <2>1. CASE q = p
    BY <1>5, <1>6, <2>1, IdleOK DEF Apart, Committing
  <2>2. CASE s = p
    BY <1>5, <1>6, <2>2, IdleOK DEF Apart, Committing
  <2>3. CASE q # p /\ s # p
    <3>1. Apart(req[q], req[s])
      BY <1>6 DEF IInv
    <3> QED BY <1>4, <2>3, <3>1 DEF Apart, Committing
  <2> QED BY <2>1, <2>2, <2>3
<1>7. /\ devices \in [DeviceIds -> Store!DeviceRow] /\ pool \in [PackageIds -> DeviceIds \cup {0}]
      /\ Packages /\ Issued /\ Welcomes
  BY DEF IInv, Tables
<1>8. /\ devices' \in [DeviceIds -> Store!DeviceRow] /\ devices'[d] = Store!NoDevice
      /\ \A c \in DeviceIds \ {d} : devices'[c] = devices[c]
  BY <1>1, <1>2, <1>7 DEF NoDevice, Store!NoDevice, Store!DeviceRow, Registered, Store!Registered
<1>9. \A c \in DeviceIds : Registered(c)' => Registered(c) /\ c # d /\ devices'[c] = devices[c]
  BY <1>8 DEF Registered, Store!Registered
<1>10. \A c \in DeviceIds \ {d} : Registered(c) => Registered(c)'
  BY <1>8 DEF Registered, Store!Registered
<1>11. /\ pool' \in [PackageIds -> DeviceIds \cup {0}]
       /\ \A k \in PackageIds : pool'[k] = IF pool[k] = d THEN 0 ELSE pool[k]
  BY <1>2, <1>7
<1>12. Tables' /\ Histories'
  <2>1. welcomes' \subseteq DeviceIds \X Store!Epochs /\ gone' \subseteq DeviceIds \X Store!Epochs
    BY <1>2 DEF IInv, Tables, Histories
  <2> QED BY <1>2, <1>8, <1>11, <2>1 DEF IInv, Tables, Histories, Store!Epochs, Store!DeviceRow, Store!NoDevice
<1>13. Packages'
  <2>1. ASSUME NEW k \in PackageIds, pool'[k] # 0 PROVE Registered(pool[k])' /\ pool'[k] = pool[k]
    <3>1. pool[k] \in DeviceIds \ {d} /\ Registered(pool[k]) /\ pool'[k] = pool[k]
      BY <1>7, <1>11, <2>1 DEF Packages
    <3> QED BY <1>10, <3>1 DEF Registered, Store!Registered
  <2>2. \A k \in PackageIds : pool[k] = 0 => pool'[k] = 0
    BY <1>11
  <2> QED BY <1>2, <1>7, <2>1, <2>2 DEF Packages, Registered, Store!Registered
<1>14. Issued' /\ Log' /\ BackupIsNotLost'
  BY <1>2, <1>7, <1>9 DEF IInv, Issued, Log, Store!Epochs, BackupIsNotLost
<1>15. \A w \in welcomes' : w \in welcomes /\ w[1] \in DeviceIds \ {d} /\ devices'[w[1]] = devices[w[1]] /\ Registered(w[1])'
  <2>1. \A w \in welcomes' : w \in welcomes /\ w[1] \in DeviceIds \ {d} /\ Registered(w[1])
    BY <1>2 DEF IInv, Tables, Welcomes
  <2> QED BY <1>8, <2>1 DEF Registered, Store!Registered
<1>16. Welcomes'
  <2>1. welcomes' = sent' \ gone'
    BY <1>2, <1>7 DEF Welcomes
  <2>2. \A w \in sent' \cup gone' : w[2] <= epoch'
    BY <1>2, <1>7 DEF Welcomes
  <2>3. \A w \in welcomes' : devices'[w[1]].by \in members \cup left
    BY <1>7, <1>15 DEF Welcomes
  <2> QED BY <1>2, <1>15, <2>1, <2>2, <2>3 DEF Welcomes
<1>17. Announced'
  <2>1. \A q \in Requests : req[q].at = "announce" => req'[q] = req[q]
    BY <1>1, <1>4
  <2> QED BY <1>2, <1>15, <2>1 DEF IInv, Announced, Store!Epochs
<1>18. ASSUME NEW q \in Requests PROVE Knows(req[q])'
  <2>1. CASE q = p
    <3>1. req'[q].at = "idle" /\ req'[q].held = {}
      BY <1>5, <2>1, IdleOK
    <3> QED BY <3>1 DEF Knows, KnowsPackages, KnowsEpoch, KnowsBackup, KnowsWalk, Committing
  <2>2. CASE q # p
    <3>1. Knows(req[q]) /\ req[q] \in Request /\ Apart(req[p], req[q]) /\ req[q].held \subseteq PackageIds
      BY <2>2 DEF IInv, Request
    <3>2. KnowsBackup(req[q])'
      BY <1>2, <1>4, <2>2, <3>1 DEF Knows, KnowsBackup
    <3>3. ASSUME NEW c, NEW u, Owned(c, u) PROVE Owned(c, u)'
      <4>1. c \in 1 .. issued.devices /\ c \in DeviceIds
        BY <3>3, Numbers DEF Owned, IInv, Tables, DeviceIds
      <4>2. Registered(c)' => Registered(c) /\ devices'[c] = devices[c]
        BY <1>9, <4>1 DEF Registered, Store!Registered
      <4> QED BY <1>2, <3>3, <4>1, <4>2 DEF Owned
    <3>4. ASSUME NEW k \in req[q].held PROVE pool'[k] = pool[k] /\ pool[k] # d
      BY <1>1, <1>11, <2>2, <3>1 DEF PackageLocked, PoolOf
    <3>5. ASSUME req[q].at = "claim", NEW k \in req[q].held PROVE devices'[pool[k]] = devices[pool[k]]
      <4>1. pool[k] \in DeviceIds \ {d}
        BY <1>7, <3>1, <3>4, <3>5 DEF Knows, KnowsPackages
      <4> QED BY <1>8, <4>1
    <3>6. req[q].at \in {"cascade", "stored"} => Registered(req[q].on)'
      <4>1. req[q].at \in {"cascade", "stored"} => req[q].on \in DeviceIds \ {d} /\ Registered(req[q].on)
        BY <1>1, <3>1 DEF Knows, KnowsPackages, Apart, d
      <4> QED BY <1>4, <1>8, <2>2, <4>1 DEF Registered, Store!Registered
    <3>7. ASSUME req[q].at = "stored"
          PROVE  \E n \in 1 .. issued.packages : req[q].to = {n} /\ pool'[n] = 0 /\ handed[n] = 0 /\ n \notin stale
      <4>1. PICK n \in 1 .. issued.packages : req[q].to = {n} /\ pool[n] = 0 /\ handed[n] = 0 /\ n \notin stale
        BY <3>1, <3>7 DEF Knows, KnowsPackages
      <4>2. n \in PackageIds
        BY Numbers DEF IInv, Tables, PackageIds
      <4> QED BY <1>11, <4>1, <4>2
    <3>8. KnowsPackages(req[q])'
      <4>1. CASE req[q].at = "claim"
        <5>1. req'[q] = req[q]
          BY <1>4, <2>2, <4>1
        <5>2. /\ req[q].on \in Users /\ req[q].to \subseteq DeviceIds
              /\ \A c \in req[q].to : Owned(c, req[q].on)
              /\ \A k \in req[q].held : pool[k] # 0 /\ devices[pool[k]].by = req[q].on /\ pool[k] \notin req[q].to
              /\ \A k, l \in req[q].held : pool[k] = pool[l] => k = l
          BY <3>1, <4>1 DEF Knows, KnowsPackages
        <5>3. \A k \in req[q].held : pool'[k] = pool[k] /\ devices'[pool[k]] = devices[pool[k]]
          BY <3>4, <3>5, <4>1
        <5>4. \A c \in req[q].to : Owned(c, req[q].on)'
          <6>1. ASSUME NEW c \in req[q].to PROVE Owned(c, req[q].on)'
            BY <3>3, <5>1, <5>2
          <6> QED BY <5>1, <6>1
        <5> QED BY <4>1, <5>1, <5>2, <5>3, <5>4 DEF KnowsPackages
      <4>2. req[q].at # "claim" => KnowsPackages(req[q])'
        BY <1>2, <1>4, <2>2, <3>1, <3>4, <3>6, <3>7 DEF Knows, KnowsPackages, PoolOf
      <4> QED BY <4>1, <4>2
    <3>9. ASSUME req[q].at \in {"advance"} \cup Committing, NEW c \in req[q].to
          PROVE  /\ c \in DeviceIds /\ (Registered(c)' => Registered(c) /\ devices'[c] = devices[c])
                 /\ req[q].at \in {"welcomes", "welcomed"} /\ c \notin req[q].stay => Registered(c)'
      <4>1. c \in DeviceIds
        BY <3>1, <3>9, Numbers DEF Knows, KnowsEpoch, IInv, Tables, DeviceIds
      <4>2. req[q].at \in {"welcomes", "welcomed"} /\ c \notin req[q].stay => c # d /\ Registered(c)
        BY <1>1, <3>1, <3>9 DEF Apart, Knows, KnowsEpoch, d
      <4> QED BY <1>9, <1>10, <4>1, <4>2 DEF Registered, Store!Registered
    <3>10. KnowsEpoch(req[q])'
      <4>1. req[q].at \in {"advance"} \cup Committing => KnowsEpoch(req[q])'
        BY <1>2, <1>4, <2>2, <3>1, <3>9 DEF Knows, KnowsEpoch, Committing
      <4>2. req[q].at \notin {"advance"} \cup Committing => KnowsEpoch(req[q])'
        BY <1>2, <1>4, <2>2, <3>1, <3>3 DEF Knows, KnowsEpoch, Committing, Store!Epochs
      <4> QED BY <4>1, <4>2
    <3>11. ASSUME NEW x \in Store!Listing(members), x \notin mine PROVE x \in Store!Listing(members)'
      <4>1. /\ x \in members \X (DeviceIds \cup {0}) /\ x[2] \in Store!DevicesOf(x[1]) \cup {0}
            /\ x = <<x[1], x[2]>>
        BY DEF Store!Listing, Store!DeviceIds, DeviceIds
      <4>2. x[2] # 0 => x[2] \in DeviceIds /\ devices[x[2]].by = x[1]
        BY <4>1 DEF Store!DevicesOf, Store!DeviceIds, DeviceIds
      <4>3. x[2] # 0 => x[2] # d
        BY <3>11, <4>1, <4>2 DEF mine
      <4>4. x[2] # 0 => devices'[x[2]].by = x[1]
        BY <1>8, <4>2, <4>3
      <4> QED BY <1>2, <4>1, <4>2, <4>4 DEF Store!Listing, Store!DevicesOf, Store!DeviceIds, DeviceIds
    <3>12. KnowsWalk(req[q])'
      BY <1>2, <1>4, <2>2, <3>1, <3>11 DEF Knows, KnowsWalk
    <3> QED BY <3>2, <3>8, <3>10, <3>12 DEF Knows
  <2> QED BY <2>1, <2>2
<1> QED BY <1>5, <1>6, <1>12, <1>13, <1>14, <1>16, <1>17, <1>18 DEF IInv

\* Who leaves the channel is remembered, and no longer has to be listed.
LEMMA MembersKeep == ASSUME IInv, ChangeMembers PROVE IInv'
<1>1. PICK u \in Users :
        /\ members' = IF u \in members THEN members \ {u} ELSE members \cup {u}
        /\ left' = IF u \in members THEN left \cup {u} ELSE left
        /\ req' = [p \in Requests |-> IF req[p].at = "devices"
                                      THEN [req[p] EXCEPT !.stay = {x \in req[p].stay : x[1] # u}] ELSE req[p]]
  BY DEF ChangeMembers
<1>2. UNCHANGED <<devices, pool, epoch, commits, welcomes, backups, issued, told, greeted,
                  stale, handed, sent, gone, mute, reset, blind>>
  BY DEF ChangeMembers, storeVars
<1>3. members \cup left \subseteq members' \cup left' /\ members' \subseteq Users /\ left' \subseteq Users
  BY <1>1 DEF IInv, Tables, Histories
<1>4. ASSUME NEW q \in Requests
      PROVE  /\ req'[q] \in Request /\ req'[q].at = req[q].at /\ req'[q].held = req[q].held
             /\ req'[q].to = req[q].to /\ req'[q].on = req[q].on
             /\ req'[q].by = req[q].by /\ req'[q].epoch = req[q].epoch /\ req'[q].got = req[q].got
             /\ req'[q].cursor = req[q].cursor /\ req'[q].twice = req[q].twice
             /\ req'[q].stay = IF req[q].at = "devices" THEN {x \in req[q].stay : x[1] # u} ELSE req[q].stay
             /\ req[q].at # "devices" => req'[q] = req[q]
  <2> DEFINE stay == {x \in req[q].stay : x[1] # u}
  <2>1. CASE req[q].at = "devices"
    <3>1. stay \subseteq req[q].stay
      OBVIOUS
    <3>2. req'[q] = [req[q] EXCEPT !.stay = stay]
      BY <1>1, <2>1
    <3> HIDE DEF stay
    <3>3. req'[q] \in Request /\ req'[q].at = req[q].at /\ req'[q].stay = stay
      BY <2>1, <3>1, <3>2, Relisted
    <3>4. /\ req'[q].held = req[q].held /\ req'[q].to = req[q].to /\ req'[q].on = req[q].on
          /\ req'[q].by = req[q].by /\ req'[q].epoch = req[q].epoch /\ req'[q].got = req[q].got
          /\ req'[q].cursor = req[q].cursor /\ req'[q].twice = req[q].twice
      BY <3>1, <3>2, Relisted
    <3> QED BY <2>1, <3>3, <3>4 DEF stay
  <2>2. CASE req[q].at # "devices"
    BY <1>1, <2>2 DEF IInv
  <2> QED BY <2>1, <2>2
<1>5. req' \in [Requests -> Request]
  BY <1>1, <1>4
<1>6. ASSUME NEW q \in Requests, NEW s \in Requests, q # s PROVE Apart(req[q], req[s])'
  <2>1. Apart(req[q], req[s])
    BY <1>6 DEF IInv
  <2> QED BY <1>4, <2>1 DEF Apart, Committing
<1>7. Tables' /\ Histories'
  BY <1>2, <1>3 DEF IInv, Tables, Histories, Store!Epochs, Store!DeviceRow, Store!NoDevice
<1>8. Packages' /\ Issued' /\ Log' /\ Welcomes' /\ BackupIsNotLost'
  BY <1>2, <1>3 DEF IInv, Packages, Issued, Log, Welcomes, Store!Epochs, BackupIsNotLost, Registered, Store!Registered
<1>9. Announced'
  <2>1. \A q \in Requests : req[q].at = "announce" => req'[q] = req[q]
    BY <1>4
  <2> QED BY <1>2, <2>1 DEF IInv, Announced, Store!Epochs
<1>10. ASSUME NEW q \in Requests PROVE Knows(req[q])'
  <2>1. Knows(req[q]) /\ req[q] \in Request
    BY DEF IInv
  <2>2. KnowsBackup(req[q])'
    BY <1>2, <1>4, <2>1 DEF Knows, KnowsBackup
  <2>3. KnowsPackages(req[q])'
    <3>1. CASE req[q].at # "devices"
      <4>1. req'[q] = req[q]
        BY <1>4, <3>1
      <4> QED BY <1>2, <2>1, <4>1 DEF Knows, KnowsPackages, Owned, Registered, Store!Registered, PoolOf
    <3>2. CASE req[q].at = "devices"
      BY <1>2, <1>4, <2>1, <3>2 DEF Knows, KnowsPackages
    <3> QED BY <3>1, <3>2
  <2>4. KnowsEpoch(req[q])'
    BY <1>2, <1>3, <1>4, <2>1 DEF Knows, KnowsEpoch, Committing, Owned, Registered, Store!Registered, Store!Epochs
  <2>5. ASSUME NEW x \in Store!Listing(members), x[1] # u PROVE x \in Store!Listing(members)'
    <3>1. x \in members \X (DeviceIds \cup {0}) /\ x[2] \in Store!DevicesOf(x[1]) \cup {0}
      BY DEF Store!Listing, Store!DeviceIds, DeviceIds
    <3>2. x \in members' \X (DeviceIds \cup {0})
      BY <1>1, <2>5, <3>1
    <3> QED BY <1>2, <3>1, <3>2 DEF Store!Listing, Store!DevicesOf, Store!DeviceIds, DeviceIds
  <2>6. KnowsWalk(req[q])'
    <3>1. CASE req[q].at # "devices"
      BY <1>2, <1>4, <2>1, <3>1 DEF Knows, KnowsWalk
    <3>2. CASE req[q].at = "devices"
      <4>1. /\ ~req[q].twice /\ \A x \in req[q].got : x \in Nat \X Nat /\ x[1] <= req[q].cursor
            /\ \A x \in req[q].stay : x \in req[q].got \/ (x \in Store!Listing(members) /\ x[1] > req[q].cursor)
        BY <2>1, <3>2 DEF Knows, KnowsWalk
      <4>2. /\ req'[q].at = "devices" /\ req'[q].twice = req[q].twice /\ req'[q].got = req[q].got
            /\ req'[q].cursor = req[q].cursor /\ req'[q].stay = {x \in req[q].stay : x[1] # u}
        BY <1>4, <3>2
      <4>3. \A x \in req'[q].stay :
              x \in req'[q].got \/ (x \in Store!Listing(members)' /\ x[1] > req'[q].cursor)
        BY <2>5, <4>1, <4>2
      <4> QED BY <4>1, <4>2, <4>3 DEF KnowsWalk
    <3> QED BY <3>1, <3>2
  <2> QED BY <2>2, <2>3, <2>4, <2>6 DEF Knows
<1> QED BY <1>5, <1>6, <1>7, <1>8, <1>9, <1>10 DEF IInv

-------------------------------------------------------------------------------
(* The invariant holds.                                                    *)

\* Every user has one device at first, and two packages are stored.
LEMMA InitIInv == Init => IInv
<1> SUFFICES ASSUME Init PROVE IInv
  OBVIOUS
<1> DEFINE n == Cardinality(Users)
           key == CHOOSE k \in SignatureKeys : TRUE
<1>1. /\ key \in SignatureKeys /\ n \in Nat /\ n >= 2 /\ Users = 1 .. n /\ MaxDevices \in Nat /\ n <= MaxDevices
      /\ MaxPackages \in Nat /\ MaxPackages >= 2 /\ FirstMembers \subseteq Users
      /\ MaxEpoch \in Nat /\ MaxCounter \in Nat
  BY MlsAssumptions
<1>2. /\ devices = [d \in DeviceIds |-> IF d \in Users THEN [by |-> d, key |-> key] ELSE NoDevice]
      /\ pool = [k \in PackageIds |-> IF k <= 2 THEN 2 ELSE 0] /\ issued = [devices |-> n, packages |-> 2]
      /\ epoch \in {NoGroup, 0} /\ commits = [e \in Store!Epochs |-> 0]
      /\ welcomes = {} /\ backups = [u \in Users |-> 0] /\ members = FirstMembers
      /\ req = [p \in Requests |-> Idle] /\ told = {} /\ greeted = {}
      /\ stale = {} /\ handed = [k \in PackageIds |-> 0]
      /\ sent = {} /\ gone = {} /\ left = {} /\ mute = {} /\ reset = {} /\ blind = {}
  BY DEF Init
<1> HIDE DEF n, key
<1>3. 2 \in DeviceIds /\ 2 \in Users /\ Users \subseteq DeviceIds
  BY <1>1 DEF DeviceIds
<1>4. \A d \in DeviceIds : Registered(d) => d \in Users
  BY <1>2 DEF Registered, Store!Registered, NoDevice
<1>5. Registered(2)
  <2>1. devices[2] = [by |-> 2, key |-> key]
    BY <1>2, <1>3
  <2> QED BY <2>1 DEF Registered, Store!Registered, Store!NoDevice
<1>6. Tables
  <2>1. devices \in [DeviceIds -> Store!DeviceRow]
    BY <1>1, <1>2 DEF Store!DeviceRow, NoDevice
  <2>2. pool \in [PackageIds -> DeviceIds \cup {0}]
    BY <1>2, <1>3
  <2>3. epoch \in NoGroup .. MaxEpoch /\ issued \in [devices : 0 .. MaxDevices, packages : 0 .. MaxPackages]
    BY <1>1, <1>2 DEF NoGroup, Store!NoGroup
  <2>4. backups \in [Users -> 0 .. MaxCounter]
    BY <1>1, <1>2
  <2> QED BY <1>1, <1>2, <2>1, <2>2, <2>3, <2>4 DEF Tables
<1>7. Histories
  BY <1>2 DEF Histories
<1>8. Packages
  <2>1. \A k \in PackageIds : k \in Nat
    BY Numbers
  <2> QED BY <1>2, <1>5, <2>1 DEF Packages
<1>9. Issued
  BY <1>1, <1>2, <1>4 DEF Issued
<1>10. Log
  BY <1>2, Numbers DEF Log, NoGroup, Store!NoGroup, Store!Epochs
<1>11. Welcomes /\ BackupIsNotLost
  BY <1>2 DEF Welcomes, BackupIsNotLost
<1>12. Announced
  BY <1>2, Numbers DEF Announced, NoGroup, Store!NoGroup, Store!Epochs
<1>13. req \in [Requests -> Request] /\ \A p \in Requests : req[p] = Idle
  BY <1>2, IdleOK
<1> QED BY <1>6, <1>7, <1>8, <1>9, <1>10, <1>11, <1>12, <1>13, IdleOK DEF IInv

\* Every step keeps the invariant: one lemma for each of them.
LEMMA NextKeeps == IInv /\ [Next]_vars => IInv'
<1> SUFFICES ASSUME IInv, [Next]_vars PROVE IInv'
  OBVIOUS
<1>1. CASE UNCHANGED vars
  <2>1. UNCHANGED <<Shared, req, told, greeted, mute>>
    BY <1>1 DEF vars, storeVars, ghostVars, Shared
  <2>2. Tables' /\ Histories' /\ req' \in [Requests -> Request] /\ Packages' /\ Issued' /\ Log' /\ Welcomes' /\ BackupIsNotLost'
    BY <2>1 DEF IInv, Shared, Tables, Histories, Packages, Issued, Log, Welcomes, BackupIsNotLost,
                Registered, Store!Registered, Store!Epochs
  <2>3. Announced'
    BY <2>1 DEF IInv, Shared, Announced, Store!Epochs
  <2>4. ASSUME NEW p \in Requests PROVE Knows(req[p])'
    <3>1. Knows(req[p]) /\ req'[p] = req[p]
      BY <2>1 DEF IInv
    <3> QED BY <2>1, <3>1, KnowsStays
  <2>5. \A p, q \in Requests : p # q => Apart(req[p], req[q])'
    BY <2>1 DEF IInv, Apart
  <2> QED BY <2>2, <2>3, <2>4, <2>5 DEF IInv
<1>2. ASSUME NEW p \in Requests,
             \/ RegisterMlsDevice(p) \/ DeregisterMlsDevice(p) \/ ReplaceMlsKeyPackages(p) \/ ClaimMlsKeyPackages(p)
             \/ CreateMlsGroup(p) \/ SubmitMlsCommit(p) \/ AcknowledgeMlsWelcome(p)
             \/ GetMlsBackup(p) \/ DeleteMlsBackup(p) \/ ListMlsMemberDevices(p) \/ ListMlsCommits(p)
      PROVE  IInv'
  BY <1>2, RegisterKeeps, DeregisterKeeps, ReplaceKeeps, ClaimBeginKeeps, CreateGroupKeeps, SubmitKeeps,
     AcknowledgeKeeps, BackupBeginKeeps, DeleteBackupKeeps, DevicesBeginKeeps, CommitsBeginKeeps
<1>3. ASSUME NEW p \in Requests, Continue(p) PROVE IInv'
  BY <1>3, InsertDeviceKeeps, CascadeKeeps, ClearKeeps, InsertPackagesKeeps, CommitReplaceKeeps, ClaimOneKeeps,
     CommitClaimKeeps, AdvanceKeeps, OutsidersKeeps, InsertWelcomesKeeps, CommitEpochKeeps, AnnounceKeeps,
     DeleteWelcomeKeeps, PutBackupKeeps, DevicesPageKeeps, CommitsPageKeeps, EndKeeps DEF Continue
<1>4. ASSUME NEW p \in Requests, CutOff(p) \/ Rollback(p) \/ \E q \in Requests : BreakDeadlock(p, q) PROVE IInv'
  BY <1>4, AnnounceKeeps, EndKeeps, BreakKeeps
<1>5. CASE ChangeMembers
  BY <1>5, MembersKeep
<1> QED BY <1>1, <1>2, <1>3, <1>4, <1>5 DEF Next

\* The inductive invariant: the tables go together, and every request knows
\* the truth about what it has locked.
THEOREM Invariant == Spec => []IInv
BY InitIInv, NextKeeps, PTL DEF Spec

-------------------------------------------------------------------------------
(* What the service promises.                                              *)

\* A key package is handed to one claimer and is gone then, however claims,
\* replacements and deregistrations interleave (ClaimMlsKeyPackages).
THEOREM HandedOutOnceAlways == Spec => []HandedOutOnce
<1>1. IInv => HandedOutOnce
  BY DEF IInv, Packages, HandedOutOnce
<1> QED BY <1>1, Invariant, PTL

\* The log has one commit for every epoch up to the group's, and who walks
\* through it, or through the members and their devices, misses nothing that
\* was there throughout (SubmitMlsCommit, ListMlsCommits, ListMlsMemberDevices).
THEOREM LogIsWholeAlways == Spec => []LogIsWhole
<1>1. IInv => LogIsWhole
  <2> SUFFICES ASSUME IInv PROVE LogIsWhole
    OBVIOUS
  <2>1. \A p \in Requests : DOMAIN req[p] = DOMAIN Idle
    <3>1. \A p \in Requests : req[p] \in Request
      BY DEF IInv
    <3> QED BY <3>1 DEF Request, Idle
  <2>2. TypeOK
    BY <2>1 DEF IInv, Tables, Histories, TypeOK
  <2>3. LogHasNoGap
    BY DEF IInv, Log, Knows, KnowsWalk, LogHasNoGap
  <2>4. WalkIsComplete
    BY DEF IInv, Knows, KnowsWalk, WalkIsComplete
  <2> QED BY <2>2, <2>3, <2>4 DEF LogIsWhole
<1> QED BY <1>1, Invariant, PTL

\* A commit's welcomes are there with it until they are acknowledged or their
\* device goes, stay inside the channel, and are announced with it unless the
\* request is cut off (insertMlsWelcomes, SubmitMlsCommit).
THEOREM WelcomesArriveAlways == Spec => []WelcomesArrive
<1>1. IInv => WelcomesArrive
  <2> SUFFICES ASSUME IInv PROVE WelcomesArrive
    OBVIOUS
  <2>1. WelcomesComeWithCommit /\ WelcomesStayInside
    BY DEF IInv, Welcomes, WelcomesComeWithCommit, WelcomesStayInside
  <2>2. CommitIsTold
    <3> SUFFICES ASSUME Quiet, NEW e \in 1 .. epoch, e \notin mute
                 PROVE  e \in told /\ \A w \in welcomes : w[2] = e => <<devices[w[1]].by, e>> \in greeted
      BY DEF CommitIsTold
    <3>1. epoch \in Int /\ epoch <= MaxEpoch /\ MaxEpoch \in Nat
      BY Numbers DEF IInv, Tables, NoGroup, Store!NoGroup
    <3>2. e \in Store!Epochs /\ e <= epoch
      BY <3>1 DEF Store!Epochs
    <3> QED BY <3>2 DEF IInv, Announced, Quiet
  <2> QED BY <2>1, <2>2 DEF WelcomesArrive
<1> QED BY <1>1, Invariant, PTL

\* A put never replaces a backup that its client has not read, unless the
\* account has deleted one (PutMlsBackup).
THEOREM BackupIsNotLostAlways == Spec => []BackupIsNotLost
<1>1. IInv => BackupIsNotLost
  BY DEF IInv
<1> QED BY <1>1, Invariant, PTL

-------------------------------------------------------------------------------
(* The statements on PostgreSQL do what the single steps of MlsStore do.   *)

\* The pool without the packages that a replacement failed to remove.
Promised == [k \in 1 .. MaxPackages |-> IF k \in stale THEN 0 ELSE pool[k]]

\* The first tables are tables the store can start with.
LEMMA InitRefines == Init => Store!Init
<1> SUFFICES ASSUME Init PROVE Store!Init
  OBVIOUS
<1>1. IInv
  BY InitIInv
<1>2. /\ devices = [d \in DeviceIds |-> IF d \in Users THEN [by |-> d, key |-> CHOOSE k \in SignatureKeys : TRUE] ELSE NoDevice]
      /\ epoch \in {NoGroup, 0} /\ commits = [e \in Store!Epochs |-> 0]
      /\ welcomes = {} /\ backups = [u \in Users |-> 0] /\ stale = {}
  BY DEF Init
<1>3. ASSUME NEW c \in DeviceIds, NEW d \in DeviceIds, devices[c] = devices[d] PROVE c = d \/ ~Store!Registered(c)
  BY <1>2, <1>3, Numbers DEF Store!Registered, NoDevice, Store!NoDevice
<1>4. Promised \in [PackageIds -> DeviceIds \cup {0}] /\ \A k \in PackageIds : Promised[k] = pool[k]
  BY <1>1, <1>2 DEF Promised, IInv, Tables, PackageIds
<1>5. \A k \in PackageIds : pool[k] # 0 => Store!Registered(pool[k])
  BY <1>1 DEF IInv, Packages, Registered
<1>6. devices \in [DeviceIds -> Store!DeviceRow]
  BY <1>1 DEF IInv, Tables
<1> QED BY <1>2, <1>3, <1>4, <1>5, <1>6
  DEF Store!Init, Promised, NoGroup, DeviceIds, PackageIds, Store!DeviceIds, Store!PackageIds

\* What one statement or commit does to the tables is one operation of the
\* store, or nothing.
LEMMA StepRefines == IInv /\ [Next]_vars => [Store!Next]_(Store!storeVars)
<1> SUFFICES ASSUME IInv, [Next]_vars
             PROVE  Store!Operation \/ UNCHANGED <<devices, Promised, epoch, commits, welcomes, backups>>
  BY DEF Store!Next, Store!storeVars, Promised
<1>1. CASE UNCHANGED <<storeVars, stale>>
  BY <1>1 DEF storeVars, Promised
<1>2. ASSUME NEW p \in Requests, InsertDevice(p) PROVE Store!Operation \/ UNCHANGED <<storeVars, stale>>
  <2> DEFINE n == issued.devices + 1
             row == [by |-> req[p].by, key |-> req[p].on]
  <2>1. req[p].by \in Users /\ req[p].on \in SignatureKeys
    BY <1>2 DEF IInv, InsertDevice, Knows, KnowsBackup
  <2>2. CASE \E d \in DeviceIds : devices[d] = row
    BY <1>2, <2>2 DEF InsertDevice, storeVars, ghostVars
  <2>3. CASE ~\E d \in DeviceIds : devices[d] = row
    <3>1. issued.devices < MaxDevices /\ devices' = [devices EXCEPT ![n] = row]
          /\ UNCHANGED <<pool, epoch, commits, welcomes, backups, stale>>
      BY <1>2, <2>3 DEF InsertDevice, ghostVars
    <3>2. n \in DeviceIds /\ n > issued.devices
      BY <3>1, Numbers DEF IInv, Tables, DeviceIds
    <3>3. ~Registered(n)
      BY <3>1, <3>2 DEF IInv, Issued, Tables
    <3>4. Store!RegisterMlsDevice(n, req[p].by, req[p].on)
      BY <2>3, <3>1, <3>3 DEF Store!RegisterMlsDevice, Registered, Store!DeviceIds, DeviceIds
    <3> HIDE DEF n
    <3> QED BY <2>1, <3>2, <3>4 DEF Store!Operation, Store!DeviceIds, DeviceIds
  <2> QED BY <2>2, <2>3
<1>3. ASSUME NEW p \in Requests, Cascade(p) PROVE Store!Operation
  <2> DEFINE d == req[p].on
  <2>1. d \in DeviceIds /\ Registered(d)
    BY <1>3 DEF IInv, Cascade, Knows, KnowsPackages
  <2>2. /\ devices' = [devices EXCEPT ![d] = NoDevice]
        /\ pool' = [k \in PackageIds |-> IF pool[k] = d THEN 0 ELSE pool[k]]
        /\ welcomes' = {w \in welcomes : w[1] # d}
        /\ UNCHANGED <<epoch, commits, backups, stale>>
    BY <1>3 DEF Cascade
  <2> HIDE DEF d
  <2>3. Promised' = [k \in 1 .. MaxPackages |-> IF Promised[k] = d THEN 0 ELSE Promised[k]]
    BY <2>2 DEF Promised, PackageIds
  <2>4. PICK c \in Store!DeviceIds : c = d
    BY <2>1 DEF Store!DeviceIds, DeviceIds
  <2>5. Store!DeregisterMlsDevice(c)
    BY <2>1, <2>2, <2>3, <2>4 DEF Store!DeregisterMlsDevice, Registered, NoDevice, Promised, Store!PackageIds
  <2> QED BY <2>5 DEF Store!Operation
<1>4. ASSUME NEW p \in Requests, CommitReplace(p) PROVE Store!Operation
  <2> DEFINE d == req[p].on
             held == req[p].held
  <2>1. /\ d \in DeviceIds /\ held \subseteq PoolOf(d) /\ Registered(d)
        /\ \E n \in 1 .. issued.packages : req[p].to = {n} /\ pool[n] = 0 /\ handed[n] = 0 /\ n \notin stale
    BY <1>4 DEF IInv, CommitReplace, Knows, KnowsPackages
  <2>2. PICK n \in 1 .. issued.packages : req[p].to = {n} /\ pool[n] = 0 /\ n \notin stale
    BY <2>1
  <2>3. /\ pool' = [k \in PackageIds |-> IF k \in {n} THEN d ELSE IF k \in held THEN 0 ELSE pool[k]]
        /\ stale' = stale \cup (PoolOf(d) \ held)
        /\ UNCHANGED <<devices, epoch, commits, welcomes, backups>>
    BY <1>4, <2>2 DEF CommitReplace
  <2> HIDE DEF d, held
  <2>4. n \in PackageIds /\ d # 0
    BY <2>1, Numbers DEF IInv, Tables, PackageIds
  <2>5. ASSUME NEW k \in PackageIds
        PROVE  Promised'[k] = IF k \in {n} THEN d ELSE IF Promised[k] = d THEN 0 ELSE Promised[k]
    <3>1. Promised[k] = (IF k \in stale THEN 0 ELSE pool[k]) /\ Promised'[k] = (IF k \in stale' THEN 0 ELSE pool'[k])
      BY DEF Promised, PackageIds
    <3>2. pool'[k] = IF k \in {n} THEN d ELSE IF k \in held THEN 0 ELSE pool[k]
      BY <2>3
    <3>3. (k \in PoolOf(d) <=> pool[k] = d) /\ n \notin PoolOf(d)
      BY <2>2, <2>4 DEF PoolOf
    <3> QED BY <2>1, <2>2, <2>3, <2>4, <3>1, <3>2, <3>3
  <2>6. Promised' = [k \in 1 .. MaxPackages |-> IF k \in {n} THEN d ELSE IF Promised[k] = d THEN 0 ELSE Promised[k]]
    <3>1. Promised' = [k \in 1 .. MaxPackages |-> Promised'[k]]
      BY DEF Promised
    <3> QED BY <2>5, <3>1 DEF PackageIds
  <2>7. Promised[n] = 0
    BY <2>2, <2>4 DEF Promised, PackageIds
  <2>8. Store!ReplaceMlsKeyPackages(d, {n})
    BY <2>1, <2>3, <2>6, <2>7 DEF Store!ReplaceMlsKeyPackages, Registered, Promised, Store!PackageIds
  <2> QED BY <2>1, <2>4, <2>8 DEF Store!Operation, Store!DeviceIds, DeviceIds, Store!PackageIds, PackageIds
<1>5. ASSUME NEW p \in Requests, CommitClaim(p) PROVE Store!Operation
  <2> DEFINE u == req[p].on
             held == req[p].held
             claimed == held \ stale
  <2>1. /\ u \in Users /\ held \subseteq PackageIds
        /\ \A k \in held : pool[k] # 0 /\ devices[pool[k]].by = u
        /\ \A k, l \in held : pool[k] = pool[l] => k = l
    BY <1>5 DEF IInv, CommitClaim, Knows, KnowsPackages, Request
  <2>2. /\ pool' = [k \in PackageIds |-> IF k \in held THEN 0 ELSE pool[k]]
        /\ UNCHANGED <<devices, epoch, commits, welcomes, backups, stale>>
    BY <1>5 DEF CommitClaim
  <2> HIDE DEF u, held
  <2>3. \A k \in claimed : k \in 1 .. MaxPackages /\ Promised[k] = pool[k] /\ pool[k] \in Store!DevicesOf(u)
    <3>1. \A k \in PackageIds : pool[k] \in DeviceIds \cup {0}
      BY DEF IInv, Tables
    <3> QED BY <2>1, <3>1 DEF Promised, PackageIds, DeviceIds, Store!DevicesOf, Store!DeviceIds
  <2>4. Promised' = [k \in 1 .. MaxPackages |-> IF k \in claimed THEN 0 ELSE Promised[k]]
    BY <2>2 DEF Promised, PackageIds
  <2>5. claimed \in SUBSET PackageIds
    BY <2>1
  <2> HIDE DEF claimed
  <2>6. PICK v \in Users, S \in SUBSET Store!PackageIds : v = u /\ S = claimed
    BY <2>1, <2>5 DEF Store!PackageIds, PackageIds
  <2>7. Store!ClaimMlsKeyPackages(v, S)
    <3>1. \A k, l \in S : Promised[k] = Promised[l] => k = l
      BY <2>1, <2>3, <2>6 DEF claimed
    <3>2. \A k \in S : Promised[k] \in Store!DevicesOf(v)
      BY <2>3, <2>6
    <3> QED BY <2>2, <2>4, <2>6, <3>1, <3>2 DEF Store!ClaimMlsKeyPackages, Promised, Store!PackageIds
  <2> QED BY <2>7 DEF Store!Operation
<1>6. ASSUME NEW p \in Requests, CreateMlsGroup(p) PROVE Store!Operation
  <2>1. Store!CreateMlsGroup
    BY <1>6 DEF CreateMlsGroup, InsertGroup, ghostVars, Store!CreateMlsGroup, NoGroup
  <2> QED BY <2>1 DEF Store!Operation
<1>7. ASSUME NEW p \in Requests, CommitEpoch(p) PROVE Store!Operation
  <2>1. /\ epoch = req[p].epoch /\ epoch \in 0 .. MaxEpoch - 1 /\ req[p].by \in Users
        /\ req[p].to \subseteq 1 .. issued.devices /\ \A d \in req[p].to : Registered(d)
    BY <1>7 DEF IInv, CommitEpoch, Knows, KnowsEpoch, Committing
  <2>2. req[p].to \in SUBSET DeviceIds
    BY <2>1, Numbers DEF IInv, Tables, DeviceIds
  <2>3. Store!SubmitMlsCommit(req[p].by, req[p].epoch, req[p].to)
    BY <1>7, <2>1 DEF CommitEpoch, Store!SubmitMlsCommit, Registered
  <2> QED BY <2>1, <2>2, <2>3 DEF Store!Operation, Store!DeviceIds, DeviceIds
<1>8. ASSUME NEW p \in Requests, DeleteMlsWelcome(p) PROVE Store!Operation \/ UNCHANGED <<storeVars, stale>>
  <2> DEFINE mine == req[p].to \cap Store!WelcomesOf(req[p].by)
  <2>1. welcomes' = welcomes \ mine /\ UNCHANGED <<devices, pool, epoch, commits, backups, stale>>
    BY <1>8 DEF DeleteMlsWelcome
  <2>2. \A v, w \in req[p].to : v = w
    BY <1>8 DEF IInv, DeleteMlsWelcome, Knows, KnowsEpoch
  <2>3. CASE mine = {}
    BY <2>1, <2>3 DEF storeVars
  <2>4. CASE mine # {}
    <3>1. PICK w \in mine : TRUE
      BY <2>4
    <3>2. mine = {w} /\ w \in welcomes
      BY <2>2, <3>1 DEF Store!WelcomesOf
    <3>3. Store!DeleteMlsWelcome(w)
      BY <2>1, <3>2 DEF Store!DeleteMlsWelcome
    <3> QED BY <3>2, <3>3 DEF Store!Operation
  <2> QED BY <2>3, <2>4
<1>9. ASSUME NEW p \in Requests, PutMlsBackup(p) PROVE Store!Operation \/ UNCHANGED <<storeVars, stale>>
  <2> DEFINE c == req[p].epoch + 1
  <2>1. req[p].by \in Users /\ req[p].epoch \in 0 .. MaxCounter - 1
    BY <1>9 DEF IInv, PutMlsBackup, Knows, KnowsBackup
  <2>2. c \in 1 .. MaxCounter
    BY <2>1, Numbers
  <2>3. CASE Supersedes(req[p].by, c)
    <3>1. Store!PutMlsBackup(req[p].by, c)
      BY <1>9, <2>3 DEF PutMlsBackup, Supersedes, Store!PutMlsBackup
    <3> HIDE DEF c
    <3> QED BY <2>1, <2>2, <3>1 DEF Store!Operation
  <2>4. CASE ~Supersedes(req[p].by, c)
    BY <1>9, <2>4 DEF PutMlsBackup, storeVars
  <2> QED BY <2>3, <2>4
<1>10. ASSUME NEW p \in Requests, DeleteMlsBackup(p) PROVE Store!Operation
  <2>1. PICK u \in Users : Store!DeleteMlsBackup(u)
    BY <1>10 DEF DeleteMlsBackup, Store!DeleteMlsBackup
  <2> QED BY <2>1 DEF Store!Operation
<1>11. ASSUME NEW p \in Requests,
              \/ RegisterMlsDevice(p) \/ DeregisterMlsDevice(p) \/ ReplaceMlsKeyPackages(p) \/ ClaimMlsKeyPackages(p)
              \/ SubmitMlsCommit(p) \/ AcknowledgeMlsWelcome(p) \/ GetMlsBackup(p) \/ ListMlsMemberDevices(p)
              \/ ListMlsCommits(p)
       PROVE  UNCHANGED <<storeVars, stale>>
  BY <1>11 DEF RegisterMlsDevice, DeregisterMlsDevice, ReplaceMlsKeyPackages, ClaimMlsKeyPackages, SubmitMlsCommit,
     AcknowledgeMlsWelcome, GetMlsBackup, ListMlsMemberDevices, ListMlsCommits, ghostVars
<1>12. ASSUME NEW p \in Requests,
              \/ ClearPool(p) \/ InsertPackages(p) \/ ClaimOne(p) \/ AdvanceEpoch(p) \/ CheckOutsiders(p)
              \/ InsertWelcomes(p) \/ AnnounceCommit(p) \/ DevicesPage(p) \/ CommitsPage(p) \/ FinishList(p)
              \/ CutOff(p) \/ Rollback(p) \/ \E q \in Requests : BreakDeadlock(p, q)
       PROVE  UNCHANGED <<storeVars, stale>>
  BY <1>12 DEF ClearPool, InsertPackages, ClaimOne, AdvanceEpoch, CheckOutsiders, InsertWelcomes, AnnounceCommit,
     DevicesPage, CommitsPage, FinishList, CutOff, Rollback, BreakDeadlock, ghostVars
<1>13. ChangeMembers \/ UNCHANGED vars => UNCHANGED <<storeVars, stale>>
  BY DEF ChangeMembers, vars, ghostVars
<1>14. ASSUME NEW p \in Requests, Continue(p) PROVE Store!Operation \/ UNCHANGED <<storeVars, stale>>
  BY <1>2, <1>3, <1>4, <1>5, <1>7, <1>8, <1>9, <1>12, <1>14 DEF Continue
<1> QED BY <1>1, <1>6, <1>10, <1>11, <1>12, <1>13, <1>14 DEF Next

\* What a claim, a replacement, a commit, a deregistration or a backup does on
\* PostgreSQL, statement by statement and with others in between, is what the
\* operation does as one step on SQLite (server/internal/sqlitestore/mls.go).
THEOREM RefinesStoreAlways == Spec => RefinesStore
BY Invariant, InitRefines, StepRefines, PTL DEF Spec, RefinesStore, Store!Spec
===============================================================================
