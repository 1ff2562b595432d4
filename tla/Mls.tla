---------------------------------- MODULE Mls ---------------------------------
(***************************************************************************)
(* The delivery service of end-to-end encryption for one encrypted channel: *)
(* the handlers (server/internal/httpserver) over the PostgreSQL store      *)
(* (server/internal/storage), one step per statement that another request   *)
(* can come between.  A request that is refused changes nothing, so its     *)
(* refusal is a guard that is false.                                        *)
(*                                                                         *)
(* The locks that matter: the group row of an uncommitted commit; the key   *)
(* packages of an uncommitted claim or replacement; the device row, which   *)
(* deregistration locks FOR UPDATE and an inserted package or welcome locks *)
(* FOR KEY SHARE until it commits.                                          *)
(***************************************************************************)
EXTENDS Integers, FiniteSets

CONSTANTS Users, MaxDevices, SignatureKeys, MaxPackages, MaxEpoch, MaxCounter,   \* see MlsStore
  FirstMembers,  \* members of the channel at first
  Requests,      \* requests that run at once
  PageLimit,     \* limit of a page
  Workloads      \* bound: how often each operation is requested, one of these

VARIABLES
  devices, pool, epoch, commits, welcomes, backups,   \* see MlsStore
  members,   \* the channel's members
  req,       \* per request: where it is and what it read
  budget,    \* requests still to come, per operation
  issued,    \* how many ids of devices and of key packages were given out
  told,      \* epochs announced by mls_commit
  greeted,   \* pairs <<user, epoch>>: mls_welcome sent for a welcome of that commit
  stale,     \* history: packages a replacement should have removed and did not see
  handed,    \* history: how often a package was handed out
  sent,      \* history: pairs <<device, epoch>>: the welcomes a stored commit named
  gone,      \* history: welcomes acknowledged, or whose device was deregistered
  left,      \* history: users removed from the channel
  mute,      \* history: epochs whose commit was cut off before its announcement
  reset,     \* history: users who deleted a backup
  blind      \* history: users with a backup replaced by a client that had not read it

\* Packages that a replacement failed to remove are not in the promised pool.
Store == INSTANCE MlsStore WITH pool <- [k \in 1 .. MaxPackages |-> IF k \in stale THEN 0 ELSE pool[k]]

DeviceIds  == 1 .. MaxDevices
PackageIds == 1 .. MaxPackages
NoGroup    == Store!NoGroup
NoDevice   == Store!NoDevice
Registered(d) == Store!Registered(d)
DevicesOf(u)  == Store!DevicesOf(u)
PoolOf(d)     == {k \in PackageIds : pool[k] = d}

Operations == {"Register", "Replace", "Claim", "CreateGroup", "Submit", "Acknowledge", "Deregister",
               "Backup", "DeleteBackup", "Devices", "Commits", "Membership"}

ASSUME MlsAssumptions ==
  /\ Cardinality(Users) \in Nat \ {0, 1} /\ Users = 1 .. Cardinality(Users)
  /\ FirstMembers \subseteq Users /\ SignatureKeys # {}
  /\ MaxDevices \in Nat /\ MaxDevices >= Cardinality(Users)
  /\ MaxPackages \in Nat /\ MaxPackages >= 2
  /\ MaxEpoch \in Nat /\ MaxCounter \in Nat
  /\ PageLimit \in Nat \ {0} /\ Workloads \subseteq [Operations -> Nat]

\* by: the caller; on: the device, welcome or user it is about; epoch: the
\* epoch a commit names; to: devices; held: packages it has locked; cursor,
\* got, twice, stay: a walk's cursor, what it listed, whether anything twice,
\* and what it had to list; a commit's stay: devices still without their welcome.
Idle == [at |-> "idle", by |-> 0, on |-> 0, epoch |-> 0, to |-> {}, held |-> {},
         cursor |-> 0, got |-> {}, twice |-> FALSE, stay |-> {}]

storeVars  == <<devices, pool, epoch, commits, welcomes, backups>>
ghostVars  == <<stale, handed, sent, gone, left, mute, reset, blind>>
vars == <<storeVars, members, req, budget, issued, told, greeted, ghostVars>>

\* The tables and the requests are well formed; a member is told only of epochs
\* the group can have (SubmitMlsCommit).
TypeOK ==
  /\ devices \in [DeviceIds -> Store!DeviceRow]
  /\ pool \in [PackageIds -> DeviceIds \cup {0}]
  /\ epoch \in NoGroup .. MaxEpoch /\ commits \in [Store!Epochs -> Users \cup {0}]
  /\ welcomes \subseteq DeviceIds \X Store!Epochs
  /\ backups \in [Users -> 0 .. MaxCounter]
  /\ members \subseteq Users /\ issued \in [devices : 0 .. MaxDevices, packages : 0 .. MaxPackages]
  /\ \A p \in Requests : DOMAIN req[p] = DOMAIN Idle
  /\ told \subseteq Store!Epochs /\ greeted \subseteq Users \X Store!Epochs
  /\ stale \subseteq PackageIds /\ handed \in [PackageIds -> Nat]
  /\ sent \cup gone \subseteq DeviceIds \X Store!Epochs
  /\ left \cup reset \cup blind \subseteq Users /\ mute \subseteq Store!Epochs

\* Every user has a device, and the second one a pool of two packages.
Init ==
  LET n == Cardinality(Users)
      key == CHOOSE k \in SignatureKeys : TRUE
  IN
  /\ devices = [d \in DeviceIds |-> IF d \in Users THEN [by |-> d, key |-> key] ELSE NoDevice]
  /\ pool = [k \in PackageIds |-> IF k <= 2 THEN 2 ELSE 0] /\ issued = [devices |-> n, packages |-> 2]
  /\ epoch \in {NoGroup, 0} /\ commits = [e \in Store!Epochs |-> 0]
  /\ welcomes = {} /\ backups = [u \in Users |-> 0]
  /\ members = FirstMembers
  /\ req = [p \in Requests |-> Idle] /\ budget \in Workloads
  /\ told = {} /\ greeted = {}
  /\ stale = {} /\ handed = [k \in PackageIds |-> 0]
  /\ sent = {} /\ gone = {} /\ left = {} /\ mute = {} /\ reset = {} /\ blind = {}

--------------------------------------------------------------------------------
\* The session is the caller's whole authority over its own devices.
selfScope(p, op, r) ==
  /\ req[p].at = "idle"
  /\ budget[op] > 0
  /\ req' = [req EXCEPT ![p] = r]
  /\ budget' = [budget EXCEPT ![op] = @ - 1]

\* The group of a channel is open to its members.
channelMlsScope(p, op, u, r) == u \in members /\ selfScope(p, op, r)

Goto(p, at) == req' = [req EXCEPT ![p].at = at]
Done(p)     == req' = [req EXCEPT ![p] = Idle]

\* Locks that other requests hold.
DeviceLocked(p, d) == \E q \in Requests \ {p} : req[q].at = "cascade" /\ req[q].on = d
DeviceShared(p, d) == \E q \in Requests \ {p} :
  \/ req[q].at = "stored" /\ req[q].on = d
  \/ req[q].at \in {"welcomes", "welcomed"} /\ d \in req[q].to \ req[q].stay
GroupLocked(p) == \E q \in Requests \ {p} : req[q].at \in {"outsiders", "welcomes", "welcomed"}
PackageLocked(p, k) == \E q \in Requests \ {p} : k \in req[q].held

--------------------------------------------------------------------------------
\* Devices.
RegisterMlsDevice(p) == \E u \in Users, key \in SignatureKeys :
  /\ selfScope(p, "Register", [Idle EXCEPT !.at = "register", !.by = u, !.on = key])
  /\ UNCHANGED <<storeVars, members, issued, told, greeted, ghostVars>>

\* INSERT ... ON CONFLICT DO NOTHING.  The row that is there is answered; the
\* SELECT for it changes nothing.
InsertDevice(p) ==
  LET row == [by |-> req[p].by, key |-> req[p].on] IN
  /\ req[p].at = "register"
  /\ \A d \in DeviceIds : devices[d] = row => ~DeviceLocked(p, d)
  /\ IF \E d \in DeviceIds : devices[d] = row
       THEN UNCHANGED <<devices, issued>>
       ELSE /\ issued.devices < MaxDevices
            /\ issued' = [issued EXCEPT !.devices = @ + 1]
            /\ devices' = [devices EXCEPT ![issued.devices + 1] = row]
  /\ Done(p)
  /\ UNCHANGED <<pool, epoch, commits, welcomes, backups, members, budget, told, greeted, ghostVars>>

\* DELETE FROM mls_devices locks the row ...
DeregisterMlsDevice(p) == \E d \in DeviceIds :
  /\ Registered(d)
  /\ ~DeviceLocked(p, d) /\ ~DeviceShared(p, d)
  /\ selfScope(p, "Deregister", [Idle EXCEPT !.at = "cascade", !.by = devices[d].by, !.on = d])
  /\ UNCHANGED <<storeVars, members, issued, told, greeted, ghostVars>>

\* ... and the foreign keys then delete the device's packages and welcomes.
\* A walk no longer has to list the device.
Cascade(p) ==
  LET d == req[p].on IN
  /\ req[p].at = "cascade"
  /\ \A k \in PoolOf(d) : ~PackageLocked(p, k)
  /\ devices' = [devices EXCEPT ![d] = NoDevice]
  /\ pool' = [k \in PackageIds |-> IF pool[k] = d THEN 0 ELSE pool[k]]
  /\ welcomes' = {w \in welcomes : w[1] # d}
  /\ gone' = gone \cup {w \in welcomes : w[1] = d}
  /\ req' = [q \in Requests |-> IF q = p THEN Idle
                                ELSE IF req[q].at = "devices" THEN [req[q] EXCEPT !.stay = @ \ {<<devices[d].by, d>>}]
                                ELSE req[q]]
  /\ UNCHANGED <<epoch, commits, backups, members, budget, issued, told, greeted,
                 stale, handed, sent, left, mute, reset, blind>>

--------------------------------------------------------------------------------
\* Replacing the pool of a device: the check of the owner, then a DELETE whose
\* rows are those that its snapshot shows.
ReplaceMlsKeyPackages(p) == \E d \in DeviceIds :
  /\ Registered(d)
  /\ selfScope(p, "Replace", [Idle EXCEPT !.at = "clear", !.by = devices[d].by, !.on = d, !.stay = PoolOf(d)])
  /\ UNCHANGED <<storeVars, members, issued, told, greeted, ghostVars>>

\* It waits for the rows that are locked; one that is gone then, is skipped.
ClearPool(p) ==
  /\ req[p].at = "clear"
  /\ \A k \in req[p].stay : ~PackageLocked(p, k)
  /\ req' = [req EXCEPT ![p].at = "insert", ![p].held = {k \in req[p].stay : pool[k] = req[p].on}, ![p].stay = {}]
  /\ UNCHANGED <<storeVars, members, budget, issued, told, greeted, ghostVars>>

\* The INSERT of the new packages needs the device, which may be gone: then
\* the whole replacement is undone.
InsertPackages(p) ==
  /\ req[p].at = "insert"
  /\ ~DeviceLocked(p, req[p].on)
  /\ IF Registered(req[p].on)
       THEN /\ issued.packages < MaxPackages
            /\ issued' = [issued EXCEPT !.packages = @ + 1]
            /\ req' = [req EXCEPT ![p].at = "stored", ![p].to = {issued.packages + 1}]
       ELSE Done(p) /\ UNCHANGED issued
  /\ UNCHANGED <<storeVars, members, budget, told, greeted, ghostVars>>

CommitReplace(p) ==
  LET d == req[p].on
      missed == PoolOf(d) \ req[p].held
  IN
  /\ req[p].at = "stored"
  /\ pool' = [k \in PackageIds |-> IF k \in req[p].to THEN d ELSE IF k \in req[p].held THEN 0 ELSE pool[k]]
  /\ stale' = stale \cup missed
  /\ Done(p)
  /\ UNCHANGED <<devices, epoch, commits, welcomes, backups, members, budget, issued, told, greeted,
                 handed, sent, gone, left, mute, reset, blind>>

\* A replacement that has cleared the pool and the deregistration of its
\* device wait for each other: PostgreSQL ends one of them.
Deadlocked(p, q) ==
  /\ req[p].at = "insert" /\ req[p].held # {}
  /\ req[q].at = "cascade" /\ req[q].on = req[p].on
BreakDeadlock(p, q) ==
  /\ Deadlocked(p, q)
  /\ Done(p) \/ Done(q)
  /\ UNCHANGED <<storeVars, members, budget, issued, told, greeted, ghostVars>>

--------------------------------------------------------------------------------
\* Claiming one package of every device of a member.
ClaimMlsKeyPackages(p) == \E u \in Users, v \in Users :
  /\ v \in members
  /\ channelMlsScope(p, "Claim", u, [Idle EXCEPT !.at = "claim", !.by = u, !.on = v, !.to = DevicesOf(v)])
  /\ UNCHANGED <<storeVars, members, issued, told, greeted, ghostVars>>

\* Fault: the row is read and deleted without skipping what others have locked.
ClaimLockedToo(p, d) == PoolOf(d) \ req[p].held

\* FOR UPDATE SKIP LOCKED
Claimable(p, d) == {k \in PoolOf(d) \ req[p].held : ~PackageLocked(p, k)}

\* Fault: a device that has none to give is waited for.
ClaimOneOrWait(p) == \E d \in DeviceIds :
  /\ req[p].at = "claim" /\ d \in req[p].to /\ \A c \in req[p].to : d <= c
  /\ Claimable(p, d) # {}
  /\ req' = [req EXCEPT ![p].to = @ \ {d},
                        ![p].held = @ \cup {k \in Claimable(p, d) : \A l \in Claimable(p, d) : k <= l}]
  /\ UNCHANGED <<storeVars, members, budget, issued, told, greeted, ghostVars>>

\* The oldest one, if there is one that nobody else is claiming.
ClaimOne(p) == \E d \in DeviceIds :
  /\ req[p].at = "claim" /\ d \in req[p].to /\ \A c \in req[p].to : d <= c
  /\ req' = [req EXCEPT ![p].to = @ \ {d},
                        ![p].held = @ \cup {k \in Claimable(p, d) : \A l \in Claimable(p, d) : k <= l}]
  /\ UNCHANGED <<storeVars, members, budget, issued, told, greeted, ghostVars>>

CommitClaim(p) ==
  /\ req[p].at = "claim" /\ req[p].to = {}
  /\ pool' = [k \in PackageIds |-> IF k \in req[p].held THEN 0 ELSE pool[k]]
  /\ handed' = [k \in PackageIds |-> IF k \in req[p].held THEN handed[k] + 1 ELSE handed[k]]
  /\ Done(p)
  /\ UNCHANGED <<devices, epoch, commits, welcomes, backups, members, budget, issued, told, greeted,
                 stale, sent, gone, left, mute, reset, blind>>

--------------------------------------------------------------------------------
\* The group: one INSERT, which the primary key lets only one request win.
InsertGroup == epoch = NoGroup /\ epoch' = 0

CreateMlsGroup(p) == \E u \in Users :
  /\ channelMlsScope(p, "CreateGroup", u, Idle)
  /\ InsertGroup
  /\ UNCHANGED <<devices, pool, commits, welcomes, backups, members, issued, told, greeted, ghostVars>>

\* A commit names the epoch its sender knows and the devices that its welcomes
\* are for, by ids that the store has given out.
SubmitMlsCommit(p) == \E u \in Users, e \in 0 .. MaxEpoch - 1, to \in SUBSET (1 .. issued.devices) :
  /\ e = 0 \/ e <= epoch
  /\ channelMlsScope(p, "Submit", u, [Idle EXCEPT !.at = "advance", !.by = u, !.epoch = e, !.to = to])
  /\ UNCHANGED <<storeVars, members, issued, told, greeted, ghostVars>>

\* Fault: the epoch is compared before the row's lock is there.
AdvanceUnlocked(p) ==
  /\ req[p].at = "advance"
  /\ IF epoch = req[p].epoch THEN Goto(p, "outsiders") ELSE Done(p)
  /\ UNCHANGED <<storeVars, members, budget, issued, told, greeted, ghostVars>>

\* UPDATE mls_groups SET epoch = epoch + 1 WHERE epoch = $2: it waits for the
\* row and compares again.
AdvanceEpoch(p) ==
  /\ req[p].at = "advance"
  /\ ~GroupLocked(p)
  /\ IF epoch = req[p].epoch THEN Goto(p, "outsiders") ELSE Done(p)
  /\ UNCHANGED <<storeVars, members, budget, issued, told, greeted, ghostVars>>

\* A welcome for a device of somebody who is not a member undoes the commit;
\* a device that is not there is left to the INSERT.
CheckOutsiders(p) ==
  /\ req[p].at = "outsiders"
  /\ IF \E d \in req[p].to : Registered(d) /\ devices[d].by \notin members
       THEN Done(p)
       ELSE req' = [req EXCEPT ![p].at = "welcomes", ![p].stay = req[p].to]
  /\ UNCHANGED <<storeVars, members, budget, issued, told, greeted, ghostVars>>

\* Fault: a device that is gone is not noticed.
WelcomeAnyDevice(p) ==
  /\ req[p].at = "welcomes"
  /\ \/ req[p].stay = {} /\ Goto(p, "welcomed")
     \/ \E d \in req[p].stay : req' = [req EXCEPT ![p].stay = @ \ {d}]
  /\ UNCHANGED <<storeVars, members, budget, issued, told, greeted, ghostVars>>

\* The INSERTs, row by row: one waits for a deregistration, and one for a device
\* that is gone fails, and the commit with it.
InsertWelcomes(p) ==
  /\ req[p].at = "welcomes"
  /\ \/ req[p].stay = {} /\ Goto(p, "welcomed")
     \/ \E d \in req[p].stay :
          /\ ~DeviceLocked(p, d)
          /\ IF Registered(d) THEN req' = [req EXCEPT ![p].stay = @ \ {d}] ELSE Done(p)
  /\ UNCHANGED <<storeVars, members, budget, issued, told, greeted, ghostVars>>

CommitEpoch(p) ==
  LET e == req[p].epoch + 1 IN
  /\ req[p].at = "welcomed"
  /\ epoch' = e
  /\ commits' = [commits EXCEPT ![e] = req[p].by]
  /\ welcomes' = welcomes \cup (req[p].to \X {e})
  /\ sent' = sent \cup (req[p].to \X {e})
  /\ req' = [req EXCEPT ![p].at = "announce", ![p].epoch = e, ![p].to = {devices[d].by : d \in req[p].to}]
  /\ UNCHANGED <<devices, pool, backups, members, budget, issued, told, greeted,
                 stale, handed, gone, left, mute, reset, blind>>

\* MlsCommit to the channel, MlsWelcome to every owner of a welcomed device.
AnnounceCommit(p) ==
  /\ req[p].at = "announce"
  /\ told' = told \cup {req[p].epoch}
  /\ greeted' = greeted \cup (req[p].to \X {req[p].epoch})
  /\ Done(p)
  /\ UNCHANGED <<storeVars, members, budget, issued, ghostVars>>

\* The request is cancelled after the commit was sent: it is stored, the
\* handler sees an error and announces nothing.
CutOff(p) ==
  /\ req[p].at = "announce"
  /\ mute' = mute \cup {req[p].epoch}
  /\ Done(p)
  /\ UNCHANGED <<storeVars, members, budget, issued, told, greeted, stale, handed, sent, gone, left, reset, blind>>

\* The connection of a transaction fails before its commit.
Rollback(p) ==
  /\ req[p].at \in {"clear", "insert", "stored", "claim", "outsiders", "welcomes", "welcomed", "cascade"}
  /\ Done(p)
  /\ UNCHANGED <<storeVars, members, budget, issued, told, greeted, ghostVars>>

\* A user acknowledges a welcome, of the list or by an id that is another's.
AcknowledgeMlsWelcome(p) == \E u \in Users, w \in welcomes :
  /\ selfScope(p, "Acknowledge", [Idle EXCEPT !.at = "ack", !.by = u, !.to = {w}])
  /\ UNCHANGED <<storeVars, members, issued, told, greeted, ghostVars>>

\* The DELETE asks for the owner of the device: another's id matches nothing.
DeleteMlsWelcome(p) ==
  /\ req[p].at = "ack"
  /\ welcomes' = welcomes \ (req[p].to \cap Store!WelcomesOf(req[p].by))
  /\ gone' = gone \cup {w \in req[p].to : devices[w[1]].by = req[p].by}
  /\ Done(p)
  /\ UNCHANGED <<devices, pool, epoch, commits, backups, members, budget, issued, told, greeted,
                 stale, handed, sent, left, mute, reset, blind>>

--------------------------------------------------------------------------------
\* A client reads the backup, and seals the next one under the next counter.
GetMlsBackup(p) == \E u \in Users :
  /\ backups[u] < MaxCounter
  /\ selfScope(p, "Backup", [Idle EXCEPT !.at = "put", !.by = u, !.epoch = backups[u]])
  /\ UNCHANGED <<storeVars, members, issued, told, greeted, ghostVars>>

\* Fault: the stored counter may be the same.
NotBelow(u, c) == c >= backups[u]

\* ON CONFLICT DO UPDATE ... WHERE mls_backups.counter < EXCLUDED.counter
Supersedes(u, c) == c > backups[u]

\* A counter that does not rise is refused.
PutMlsBackup(p) ==
  LET u == req[p].by  c == req[p].epoch + 1 IN
  /\ req[p].at = "put"
  /\ IF Supersedes(u, c)
       THEN /\ backups' = [backups EXCEPT ![u] = c]
            /\ blind' = IF backups[u] # req[p].epoch THEN blind \cup {u} ELSE blind
       ELSE UNCHANGED <<backups, blind>>
  /\ Done(p)
  /\ UNCHANGED <<devices, pool, epoch, commits, welcomes, members, budget, issued, told, greeted,
                 stale, handed, sent, gone, left, mute, reset>>

DeleteMlsBackup(p) == \E u \in Users :
  /\ selfScope(p, "DeleteBackup", Idle)
  /\ backups' = [backups EXCEPT ![u] = 0]
  /\ reset' = reset \cup {u}
  /\ UNCHANGED <<devices, pool, epoch, commits, welcomes, members, issued, told, greeted,
                 stale, handed, sent, gone, left, mute, blind>>

--------------------------------------------------------------------------------
\* Walks.  Members come with their devices, in the order of their ids, one row
\* more than the limit; commits come by epoch until a page is empty.
Least(S, n) == {x \in S : Cardinality({y \in S : y < x}) < n}
Last(S) == CHOOSE x \in S : \A y \in S : y <= x

\* LEFT JOIN mls_devices
MemberDevices(us) == Store!Listing(us)

ListMlsMemberDevices(p) == \E u \in Users :
  /\ channelMlsScope(p, "Devices", u, [Idle EXCEPT !.at = "devices", !.by = u, !.stay = Store!Listing(members)])
  /\ UNCHANGED <<storeVars, members, issued, told, greeted, ghostVars>>

DevicesPage(p) ==
  LET rows == Least({u \in members : u > req[p].cursor}, PageLimit + 1)
      page == Least(rows, PageLimit)
      more == Cardinality(rows) > PageLimit
  IN
  /\ req[p].at = "devices"
  /\ IF req[p].by \in members
       THEN req' = [req EXCEPT ![p].got = @ \cup MemberDevices(page),
                               ![p].twice = @ \/ MemberDevices(page) \cap req[p].got # {},
                               ![p].cursor = IF more THEN Last(page) ELSE @,
                               ![p].at = IF more THEN @ ELSE "listed"]
       ELSE Done(p)
  /\ UNCHANGED <<storeVars, members, budget, issued, told, greeted, ghostVars>>

\* A client that has applied the commits up to some epoch catches up.
ListMlsCommits(p) == \E u \in Users, e \in 0 .. MaxEpoch :
  /\ e <= epoch
  /\ channelMlsScope(p, "Commits", u, [Idle EXCEPT !.at = "commits", !.by = u, !.cursor = e, !.stay = e + 1 .. epoch,
                                                   !.epoch = e])
  /\ UNCHANGED <<storeVars, members, issued, told, greeted, ghostVars>>

\* Fault: the page is in no particular order, so its last row is not its newest.
CommitsInAnyOrder(rows) == {x \in rows : Cardinality({y \in rows : y > x}) < PageLimit}

\* ORDER BY epoch LIMIT
CommitsInOrder(rows) == Least(rows, PageLimit)

CommitsPage(p) ==
  LET page == CommitsInOrder(Store!CommitsAfter(req[p].cursor))
  IN
  /\ req[p].at = "commits"
  /\ IF req[p].by \in members
       THEN req' = [req EXCEPT ![p].got = @ \cup page,
                               ![p].cursor = IF page = {} THEN @ ELSE Last(page),
                               ![p].at = IF page = {} THEN "caughtUp" ELSE @]
       ELSE Done(p)
  /\ UNCHANGED <<storeVars, members, budget, issued, told, greeted, ghostVars>>

FinishList(p) ==
  /\ req[p].at \in {"listed", "caughtUp"}
  /\ Done(p)
  /\ UNCHANGED <<storeVars, members, budget, issued, told, greeted, ghostVars>>

\* A member is removed, or somebody is added (see Channels).
ChangeMembers == \E u \in Users :
  /\ budget["Membership"] > 0
  /\ members' = IF u \in members THEN members \ {u} ELSE members \cup {u}
  /\ left' = IF u \in members THEN left \cup {u} ELSE left
  /\ budget' = [budget EXCEPT !["Membership"] = @ - 1]
  /\ req' = [p \in Requests |-> IF req[p].at = "devices" THEN [req[p] EXCEPT !.stay = {x \in @ : x[1] # u}] ELSE req[p]]
  /\ UNCHANGED <<storeVars, issued, told, greeted, stale, handed, sent, gone, mute, reset, blind>>

--------------------------------------------------------------------------------
\* The steps that end a request once it has begun.
Continue(p) ==
  \/ InsertDevice(p) \/ Cascade(p)
  \/ ClearPool(p) \/ InsertPackages(p) \/ CommitReplace(p)
  \/ ClaimOne(p) \/ CommitClaim(p)
  \/ AdvanceEpoch(p) \/ CheckOutsiders(p) \/ InsertWelcomes(p) \/ CommitEpoch(p) \/ AnnounceCommit(p)
  \/ DeleteMlsWelcome(p) \/ PutMlsBackup(p)
  \/ DevicesPage(p) \/ CommitsPage(p) \/ FinishList(p)

Next ==
  \/ \E p \in Requests :
       \/ RegisterMlsDevice(p) \/ DeregisterMlsDevice(p) \/ ReplaceMlsKeyPackages(p) \/ ClaimMlsKeyPackages(p)
       \/ CreateMlsGroup(p) \/ SubmitMlsCommit(p) \/ AcknowledgeMlsWelcome(p)
       \/ GetMlsBackup(p) \/ DeleteMlsBackup(p) \/ ListMlsMemberDevices(p) \/ ListMlsCommits(p)
       \/ Continue(p) \/ CutOff(p) \/ Rollback(p)
       \/ \E q \in Requests : BreakDeadlock(p, q)
  \/ ChangeMembers

\* Handlers run to their end, and PostgreSQL breaks deadlocks.
Fairness == \A p \in Requests : WF_vars(Continue(p)) /\ \A q \in Requests : WF_vars(BreakDeadlock(p, q))

Spec == Init /\ [][Next]_vars /\ Fairness

Quiet == \A p \in Requests : req[p].at = "idle"

\* A key package is handed to one claimer only, and is not kept: claims of the
\* same device take different packages or none (storage/mls.go:183).
HandedOutOnce == \A k \in PackageIds : handed[k] <= 1 /\ (handed[k] = 1 => pool[k] = 0)

\* Every epoch up to the group's has exactly one commit, and none above it, so
\* that a client that catches up applies each commit once, in order and
\* without a gap, however submissions race (storage/mls.go:204 and 601).
LogHasNoGap ==
  /\ \A e \in Store!Epochs : commits[e] # 0 <=> e <= epoch
  /\ \A p \in Requests : req[p].at = "caughtUp" =>
       /\ req[p].stay \subseteq req[p].got
       /\ req[p].got = req[p].epoch + 1 .. req[p].cursor

\* The welcomes a commit named are there as soon as the commit is, until they
\* are acknowledged or their device is deregistered, and no welcome is there
\* without its commit (storage/mls.go:562).
WelcomesComeWithCommit ==
  /\ welcomes = sent \ gone
  /\ \A w \in welcomes : w[2] <= epoch /\ Registered(w[1])

\* A device of somebody who was never in the channel is sent no welcome
\* (storage/mls.go:549).
WelcomesStayInside == \A w \in welcomes : devices[w[1]].by \in members \cup left

\* When nothing runs, every stored commit was announced, and so was every
\* welcome to its owner, unless the request was cut off
\* (mls_handlers.go:484).
CommitIsTold == Quiet => \A e \in 1 .. epoch :
  e \notin mute => e \in told /\ \A w \in welcomes : w[2] = e => <<devices[w[1]].by, e>> \in greeted

\* A client's backup never replaces one that the client has not read, unless
\* the account deleted one (mls_backups.go:77).
BackupIsNotLost == blind \subseteq reset

\* The member list returns, over its pages, every member who stays, once, with
\* every device that stays, and members without a device too
\* (storage/mls.go:266).
WalkIsComplete == \A p \in Requests :
  req[p].at = "listed" => req[p].stay \subseteq req[p].got /\ ~req[p].twice

\* The log is one commit per epoch, and those who page through it, or through
\* the members and their devices, miss nothing.
LogIsWhole == TypeOK /\ LogHasNoGap /\ WalkIsComplete

\* Welcomes are stored with their commit, stay inside the channel, and are
\* announced with it.
WelcomesArrive == WelcomesComeWithCommit /\ WelcomesStayInside /\ CommitIsTold

\* Every request comes to an end: none is left waiting for a lock.
RequestsEnd == \A p \in Requests : req[p].at # "idle" ~> req[p].at = "idle"

\* The PostgreSQL store does to its tables only what the SQLite store does.
RefinesStore == Store!Spec
===============================================================================
