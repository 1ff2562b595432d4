------------------------------- MODULE MlsStore -------------------------------
(***************************************************************************)
(* What the store promises about the delivery service of end-to-end        *)
(* encryption: devices and their key packages, the group of one channel    *)
(* with its log of commits and its welcomes, and the sealed backups, in    *)
(* the form in which the SQLite store keeps that promise                   *)
(* (server/internal/sqlitestore): an operation is one step.  Mls.tla       *)
(* implements this specification.                                          *)
(***************************************************************************)
EXTENDS Integers

CONSTANTS
  Users,         \* accounts
  MaxDevices,    \* bound: devices that are registered
  SignatureKeys, \* signature keys of an account's devices
  MaxPackages,   \* bound: key packages that are stored
  MaxEpoch,      \* bound: epochs that a group reaches
  MaxCounter     \* bound: counter of a backup

VARIABLES
  devices,   \* the mls_devices table
  pool,      \* the mls_key_packages table: the device of a package, or 0
  epoch,     \* mls_groups.epoch, or NoGroup
  commits,   \* the mls_commits table: who reached an epoch, or 0
  welcomes,  \* the mls_welcomes table: pairs <<device, epoch of its commit>>
  backups    \* the mls_backups table: the counter, or 0

storeVars == <<devices, pool, epoch, commits, welcomes, backups>>

DeviceIds  == 1 .. MaxDevices
PackageIds == 1 .. MaxPackages      \* in the order of created_at
Epochs     == 1 .. MaxEpoch
NoGroup    == -1
NoDevice   == [by |-> 0, key |-> 0]
DeviceRow  == [by : Users, key : SignatureKeys] \cup {NoDevice}

Registered(d) == devices[d] # NoDevice
DevicesOf(u)  == {d \in DeviceIds : devices[d].by = u}
PoolOf(d)     == {k \in PackageIds : pool[k] = d}

\* Reads.  A member is listed with every device; <<u, 0>> stands for the member
\* alone, who is listed without a device too.
CommitsAfter(e) == {n \in Epochs : commits[n] # 0 /\ n > e}
WelcomesOf(u) == {w \in welcomes : w[1] \in DevicesOf(u)}
Listing(us) == {x \in us \X (DeviceIds \cup {0}) : x[2] \in DevicesOf(x[1]) \cup {0}}

\* The tables as earlier operations can have left them.
Init ==
  /\ devices \in [DeviceIds -> DeviceRow]
  /\ \A c, d \in DeviceIds : devices[c] = devices[d] => c = d \/ ~Registered(c)
  /\ pool \in [PackageIds -> DeviceIds \cup {0}]
  /\ \A k \in PackageIds : pool[k] # 0 => Registered(pool[k])
  /\ epoch \in {NoGroup, 0}
  /\ commits = [e \in Epochs |-> 0]
  /\ welcomes = {}
  /\ backups = [u \in Users |-> 0]

\* A key that the account has registered before is the same device.
RegisterMlsDevice(d, u, key) ==
  /\ ~Registered(d)
  /\ \A c \in DeviceIds : devices[c] # [by |-> u, key |-> key]
  /\ devices' = [devices EXCEPT ![d] = [by |-> u, key |-> key]]
  /\ UNCHANGED <<pool, epoch, commits, welcomes, backups>>

\* The whole pool of a device is replaced.
ReplaceMlsKeyPackages(d, batch) ==
  /\ Registered(d)
  /\ batch # {} /\ \A k \in batch : pool[k] = 0
  /\ pool' = [k \in PackageIds |-> IF k \in batch THEN d ELSE IF pool[k] = d THEN 0 ELSE pool[k]]
  /\ UNCHANGED <<devices, epoch, commits, welcomes, backups>>

\* At most one package of every device of an account, and those are gone.
\* SQLite takes the oldest; which one it is, is not promised.
ClaimMlsKeyPackages(u, claimed) ==
  /\ \A k \in claimed : pool[k] \in DevicesOf(u)
  /\ \A k, l \in claimed : pool[k] = pool[l] => k = l
  /\ pool' = [k \in PackageIds |-> IF k \in claimed THEN 0 ELSE pool[k]]
  /\ UNCHANGED <<devices, epoch, commits, welcomes, backups>>

CreateMlsGroup ==
  /\ epoch = NoGroup
  /\ epoch' = 0
  /\ UNCHANGED <<devices, pool, commits, welcomes, backups>>

\* The first commit of an epoch wins, and brings its welcomes with it.
SubmitMlsCommit(u, e, to) ==
  /\ epoch = e
  /\ \A d \in to : Registered(d)
  /\ epoch' = e + 1
  /\ commits' = [commits EXCEPT ![e + 1] = u]
  /\ welcomes' = welcomes \cup (to \X {e + 1})
  /\ UNCHANGED <<devices, pool, backups>>

DeleteMlsWelcome(w) ==
  /\ w \in welcomes
  /\ welcomes' = welcomes \ {w}
  /\ UNCHANGED <<devices, pool, epoch, commits, backups>>

\* The packages and the welcomes of the device go with it.
DeregisterMlsDevice(d) ==
  /\ Registered(d)
  /\ devices' = [devices EXCEPT ![d] = NoDevice]
  /\ pool' = [k \in PackageIds |-> IF pool[k] = d THEN 0 ELSE pool[k]]
  /\ welcomes' = {w \in welcomes : w[1] # d}
  /\ UNCHANGED <<epoch, commits, backups>>

\* The counter of a backup that is there only rises.
PutMlsBackup(u, c) ==
  /\ c > backups[u]
  /\ backups' = [backups EXCEPT ![u] = c]
  /\ UNCHANGED <<devices, pool, epoch, commits, welcomes>>

DeleteMlsBackup(u) ==
  /\ backups' = [backups EXCEPT ![u] = 0]
  /\ UNCHANGED <<devices, pool, epoch, commits, welcomes>>

Operation ==
  \/ \E d \in DeviceIds, u \in Users, key \in SignatureKeys : RegisterMlsDevice(d, u, key)
  \/ \E d \in DeviceIds, batch \in SUBSET PackageIds : ReplaceMlsKeyPackages(d, batch)
  \/ \E u \in Users, claimed \in SUBSET PackageIds : ClaimMlsKeyPackages(u, claimed)
  \/ CreateMlsGroup
  \/ \E u \in Users, e \in 0 .. MaxEpoch - 1, to \in SUBSET DeviceIds : SubmitMlsCommit(u, e, to)
  \/ \E w \in welcomes : DeleteMlsWelcome(w)
  \/ \E d \in DeviceIds : DeregisterMlsDevice(d)
  \/ \E u \in Users : DeleteMlsBackup(u) \/ \E c \in 1 .. MaxCounter : PutMlsBackup(u, c)

\* A read or a refusal changes no table.
Next == storeVars' # storeVars /\ Operation

Spec == Init /\ [][Next]_storeVars
===============================================================================
