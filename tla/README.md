# Verification of hamlaneh

hamlaneh is a self-hosted team messenger: a Go server (PostgreSQL, or SQLite in
home mode), a web client, a desktop shell and an installer. This directory holds
TLA+ models of the parts in which several actors share state (the realtime
gateway, the stores and the handlers over them, the web client's view of a
channel), the TLC configurations that check them on small instances, and TLAPS proofs of what can
be proved for every instance. All paths are relative to the repository
(`src/...` here is the repository root).

Contents: [the system](#1-the-system) · [modules](#2-modules-and-code) ·
[runs](#3-runs) · [bounds](#4-bounds) · [fairness](#5-fairness) ·
[proofs](#6-proofs) · [findings](#7-findings) · [known limits](#8-known-limits) ·
[not modelled](#9-what-is-not-modelled) · [plan](#10-plan)

## 1. The system

| Component | State | Operations | Hard behaviour |
|---|---|---|---|
| Realtime gateway, delivery (`wsgateway/dispatch.go`, `conn.go`, `wsgateway.go`) | event queue, per-channel replay buffers, sockets with outbound queue, resync debts, subscriptions | handlers enqueue; the dispatcher resolves an audience and publishes; hello registers and replays; the pump writes | database reads outside `g.mu`; queues that drop when full; pumps that run while `g.mu` is held |
| Replay buffer (`wsgateway/replay.go`) | counter, bounded window | nextSeq, store, canResume, after, prune | boundaries of a window that overflows and is pruned |
| Socket lifecycle (`wsgateway/conn.go`, `wsgateway.go`) | live set, wait groups, closing flag, close code | track, run, shutdown, untrack, Close | several parties end one socket; sockets arrive during Close |
| Presence (`wsgateway/wsgateway.go`) | record per user with a grace period | register, report, deregister, expire | changed under the lock, announced after it |
| Sessions (`storage/sessions.go`, `session_families.go`, `users.go`, `passwordreset.go`) | session rows in families of generations | sign in, rotate, log out, revoke, change or reset password, deactivate | READ COMMITTED updates against concurrent rotations; lock order |
| Revoked-socket sweep (`wsgateway/wsgateway.go`) | sockets bound to families | snapshot, list live families, close | three steps with everything else between them |
| Web client (`webapp/src/chat`) | resume cursors, view of a channel, reads under way | receive, resync, load, enter, leave | REST answers and live events overtake each other |
| Channels, calls, conferences (`storage/channels.go`, `conferences.go`, `calls/calls.go`, their handlers) | channels, memberships, conference links, rooms and tickets at the media server, the registry of running calls | create, open, add, remove, list; mint, eject, webhook; create, join, revoke | unique keys and the channel lock; announcements after the commit; a media server that fails, and tells late or twice |
| Messages (`storage/messages.go`, `attachments.go`, `linkpreviews.go`, `readpositions.go`, `search.go`, `linkpreview/`, their handlers) | messages, mentions, files and their bytes, link cards, read positions, the enricher's queue | send, edit, delete, upload, read, list, search, enrich | retries under an idempotency key; several files claimed at once; a worker with old copies |
| MLS delivery service (`storage/mls.go`, `mls_backups.go`, `mls_handlers.go`) | devices, key packages, the group's epoch, commits, welcomes, backups | register, deregister, replace, claim, commit, welcome, back up | racing commits; packages that may be given out once; cascades against claims |
| Sign-in (`totp.go`, `passwordreset.go`, their handlers, `ratelimit/`, `mailer/`) | second factor, recovery codes, challenge, reset links, sessions, limiters, mail queue | sign in, set up, activate, disable, complete a challenge, mail a link, reset | four locks; liveness judged again under a lock; counting of refused attempts |
| Accounts (`users.go`, `invites.go`, `oidc.go`, `scim/`, `bootstrap/`, `audit/`, their handlers) | accounts, identities, link requests, invitations, the audit chain | bootstrap, invite, redeem, administer, provision, single sign-on, link, append, list | the last administrator; the same person from two sides; a hash chain with several writers |
| Updater, frame codec, MLS client, screens | see `PROJECT.json` | | not modelled, see §9 |

How they interact. An HTTP handler commits to the database and then hands the
gateway an event (`Announcements`, `enqueue`); nothing links the two, and a full
queue drops the event. One dispatcher goroutine takes events in order, counts the
connected users, reads the audience from the database, and then, under `g.mu`,
numbers the event, stores it in the channel's window and queues the frame to each
socket. A client that says hello with the last number it saw of each channel is
replayed what it missed from that window, under the same lock, or is told to
resync and reads the history over REST. A sweep goroutine expires presence,
prunes windows and asks the session store which sockets still belong to a live
session. The web client merges replay, live events and REST pages into one view.

What correctness means, component by component:

* delivery: whoever was in the audience of a numbered event gets it, or is told
  to resync; in order; never after the dispatcher has reached their removal; and
  a slow client holds up nobody;
* replay: an accepted resume is complete;
* lifecycle: Close returns and leaves nothing running; a socket that has been
  told to end ends;
* presence: the record follows the sockets, and peers finally see the truth;
* sessions: one usable token per family, however many requests race; a session
  that was ended stays ended; the list a user sees is the list of usable sessions;
* sweep: closes the sockets of dead sessions, finally, and of no live one;
* web client: when all is quiet, the view is the channel;
* stores: what PostgreSQL's statements do, whatever comes between them, is what the
  same operations do one after another (as SQLite does them); no channel without a
  member, no instance without an administrator, no message with half its files, no
  epoch without exactly one commit;
* handlers: what was announced last is what is stored; who loses the right to a
  call is put out of it; a page-by-page list is complete; what was changed is in
  the audit log;
* credentials: links, codes, invitations and key packages work once; guesses are
  bounded; a reset ends what the old password opened.

## 2. Modules and code

| Module | Models | Extends |
|---|---|---|
| `ReplayBuffer` | `replay.go`: the window as pure operators | |
| `Gateway` | handlers' announcements, dispatcher, replay, sockets, pumps | `ReplayBuffer` |
| `Presence` | presence of one user, seen by one peer | |
| `SocketLifecycle` | `serve`, `run`, `writePump`, `shutdown`, `Close` | |
| `Sessions` | the transactions on `sessions` and `users`, with PostgreSQL's locks | |
| `SessionSockets` | `Sessions` composed with sockets and `closeRevoked` | `Sessions` |
| `ChatSync` | client cursor, view and reads, composed with the gateway in large steps | `ReplayBuffer` |
| `Channels` | channels and memberships: handlers over PostgreSQL's statements | `INSTANCE ChannelStore` |
| `Calls` | `Channels` composed with calls, conferences and the media server | `Channels` |
| `Messages` | messages, files, link cards, read positions, history, search | `INSTANCE MessageStore` |
| `Mls` | the delivery service of end-to-end encryption, for one channel | `INSTANCE MlsStore` |
| `SignIn` | password, second factor and reset of one account, limiters, mail queue | `INSTANCE SignInStore` |
| `Accounts` | accounts, invitations, administration, SCIM, single sign-on, audit log | `INSTANCE AccountStore` |
| `ChannelStore`, `MessageStore`, `MlsStore`, `SignInStore`, `AccountStore` | the store's operations as single steps: the SQLite store, and the abstract specification of the modules above | |
| `*Proofs` | theorems of the module before the suffix (`SessionsProofs`: also of `SessionSockets`; `SocketsProofs`: of `Presence`, `SocketLifecycle` and `ChatSync`) | that module, `TLAPS` |
| `MC*` | symmetry sets, constant values and workloads for TLC; `MCClients` (`Sessions`, `ChatSync`) and `MCSockets` (`SessionSockets`, `Presence`, `SocketLifecycle`) hold several modules (§3) | those modules |

`PROJECT.json` maps every definition to the lines it stands for. Definitions keep
the names of the code (`canResume`, `deliver`, `expirePresence`, `closeRevoked` as
`CloseRevoked`...). A definition preceded by a comment that begins *Fault:* is no
part of any specification: it is a plausible mistake in the definition that
follows it, and shows that the property it is paired with in `PROJECT.json` can
fail.

**ReplayBuffer.** A buffer is `[lastSeq, entries]`. The bytes of a frame depend
on its number only, so an entry is its number. `store` drops the oldest entry
past `ReplayMaxEvents`; `prune` drops what is too old, where age is a choice of
how many entries go, because time enters the code only through that comparison.

**Gateway.** `lock` is `g.mu`. It is a variable because `publish` and
`registerAndReplay` hold it over many channel sends, while the write pumps run
without it: `Publish … SendTo … SendDone` and `Register … Replay … ReplayDone` are
separate steps. `s.mu` guards one-step sections only and needs no variable. The
dispatcher's three stages (`CountConnected`, `ResolveAudience`, `Publish`) are
three steps, since no lock joins them. `deliver` is the code's non-blocking send,
and a full queue leaves a debt (`owed`) that `MarkResync` turns into a mark in a
second step, as the code does after its `select`. The pump flushes resync marks
after every frame it has written and on its ticker. `sent`, `promise`, `told` and
`fenced` are history: what was written to a connection, from which number a
socket is owed everything, to whom each event was sent, and whose removal has been
dispatched. The names, bodies and wording of events are gone; an event keeps its
channel, whether it is ordered, its audience rule and its effect on subscriptions.

**Presence.** `record` changes under `g.mu`; `say` and `expired` are the
announcements a read loop and the sweep still owe when they have released it.
`seen` is what a peer was last told.

**SocketLifecycle.** Per slot: the serving goroutine, the hello timer, the pump,
the connection and the close code. `shutdown` is `closeOnce`: the first caller
names the code. `Close` sets `closing`, snapshots `live`, shuts each down, waits,
cancels and waits for the two loops.

**Sessions.** `rows[f]` is the committed generations of a family, oldest first.
A transaction has a program counter, the session rows and the users-row lock it
holds, and the rows its UPDATE still has to visit (`todo`) or will change
(`hits`). `Snapshot` fixes the rows a sweep looks at when the statement starts;
`Visit` waits for each row's lock and looks at it again, which is what READ
COMMITTED does; rows committed later are never visited. The INSERT takes KEY SHARE
on the users row through its foreign key; `lockAccount` takes FOR UPDATE, a
change of the password NO KEY UPDATE. Any transaction may abort at any point. The
row locks and the visibility rule are PostgreSQL's, modelled where the code's
statements rely on them. `ended` is history: the families that existed when a
reset or a deactivation committed.

**SessionSockets.** A socket carries the family whose access token opened it.
`SnapshotSockets`, `ListFamilies` and `CloseRevoked` are the three steps of
`closeRevoked`; `ListFails` is the query that returns an error.

**ChatSync.** The gateway in large steps (an event is published, or a socket
registered and answered, in one), the network as a sequence of frames that a
disconnect empties, and the client: `cursor` is `seqByChannel`, `view` the
messages of the channel's history, `load` the REST reads with the page each has
read. `disturbed` is history and collects which of five things has happened
(§8) that the code does not repair.

**The stores and what implements them.** Home mode runs on SQLite with one
connection (`sqlitestore`), so an operation there is one step. The five `*Store`
modules state those steps. The team server runs the same operations as several
statements on PostgreSQL at READ COMMITTED, where another request can come between
any two; the modules beside them have one step per statement, the locks each
statement takes or waits for, and the handler around it (the checks before, the
announcement after). `RefinesStore == Store!Spec` says that every step changes the
tables as one store operation does, or not at all; that of `SignIn` has one exception,
`Overrun` (§8). Writes are shown when the
transaction commits; what they lock is held until then. In `Messages`, mentions are
outside the store's promise, because two edits can leave them wrong (§8); in `Mls`
the mapping leaves out of the pool the packages a replacement did not see, for the
same reason.

All five have the same shape. A request has a program counter and what it has read
(`req`). `budget` is how many requests of each kind are still to come, and starts
as one of `Workloads`, so that a run covers several mixes of requests instead of
their product. A refused request changes nothing, so its refusal is a false guard
or the end of the request. History variables collect what a property excepts by
name.

**Channels, Calls.** `locked` is the channel row under FOR NO KEY UPDATE; a unique
key held by an uncommitted INSERT makes the next one wait. `shown` is whom the last
announcement left in a channel. What follows a commit can fail: the invitation needs a
read and is dropped without it (`AnnounceChannel`, `AnnounceAdded`), and a commit whose
answer is lost is announced to nobody (`CommitAnswerLost`, `RemovalAnswerLost`, which
ejects nobody either). `untold` collects the memberships this happened to, until an
announcement that reaches the user. `Calls` adds the rooms, tickets and participants of
the media server (external: what `calls.go` asks of it), ejections with their one
retry, webhooks in three steps (read the room, `Transition` under its mutex,
announce) and conferences, whose revocation closes the room before it marks the
link.

**Messages.** A body is its first link and the users it mentions. A send with files
locks their rows in the order of ids and claims all or none; without files it is one
statement. An edit reads, waits for the row and rewrites text and mentions; the mentions
it drops are those its snapshot shows. Sends, edits and deletions can be cut off after
their commit (`CutOff`: the answer is lost, or the files and the card cannot be read),
and then nobody is told and nothing is enqueued. The enricher is one goroutine with a
bounded queue of copies, and each of its steps may fail, the deletion of a card
included; what it announces is the copy, with the card the copy has. History is walked
backwards, forwards and around a message, search over messages and files, each page a
request of its own.

**Mls.** The device row is locked FOR UPDATE by a deregistration and shared by what
refers to it; packages are claimed with SKIP LOCKED; the epoch is advanced by an
UPDATE that waits for the group's row and compares again. A commit welcomes any set of
devices, and its welcomes are inserted one after the other, each of them sharing its
device's row. A welcome may be acknowledged under the id of somebody else's, which
deletes nothing. `BreakDeadlock` is
PostgreSQL's own: a replacement and a deregistration of one device can wait for each
other.

**SignIn.** One account. Locks: the advisory lock of minting, the `user_totp` row,
the challenge row, the users row. A code is the secret and the time step it is of;
time is `clock`, and a code is good for `SkewSteps` around it. `late` is what had
expired when the transaction began, which is what `now()` means to PostgreSQL. Names
of sessions, challenges, links and secrets are the requests that made them. A password
is the reset that set it; `outdated` says that its hash was made with old parameters, and
a sign-in that finds it so stores it again (`rehashPassword`), whatever is stored by
then. `chosen` is the password that was set last, `revived` those that sign-ins
overlapped by that reset put back.

**Accounts.** Persons are what the identity provider and the directory vouch for; a
person is also the address of their account. An INSERT waits for transactions that
inserted one of its keys (username, address, the directory's userName and external id,
identity). The directory may clear what it gave an account, but for the userName. The
advisory lock of the set of administrators, the account row, the invitation row and the
audit chain's lock are `held`. Audit entries are appended after the change they record,
in transactions of their own, and an append that fails is only logged; a change whose
answer is lost is not recorded at all (`AnswerLost`; both are in `lost`). `owed` is
every change, the account an administrator makes included, which the code does not
record. A page of the log is verified as a range; `alarm` is the report of a break. The
directory's token and the setting that lets a sign-in make an account are an
administrator's, so neither way of making one comes before the first account.

## 3. Runs

Run one with `tlc -workers 2 -config <file>.cfg <module>`.

| Run (cfg) | Checks | Shows |
|---|---|---|
| `gateway` (`MCGateway`) | `WindowIsSound`, `DeliveryIsSound` (`TypeOK`, `NoSilentGap`, `InOrder`), `RemovalIsFence`, `ResyncIsTold`, `LockComesFree` | A client connects twice and claims any number; every event sent to it has been written, is queued, will be replayed, or is covered by a resync mark. Numbers are written in order. A resync owed is written, and `g.mu` comes free. Removals and additions race announcements, a subscribe or a typing frame and failing reads: after the dispatcher has reached a removal, no audience it reads holds the removed user unless they were added again |
| `gateway_fall` (`MCGatewayFall`) | `NothingFallsThrough` | *violated*, see §7 |
| `clients` (`MCClients`) | `OnlyNewestIsUnspent`, `EndedStaysEnded`, `ListedIffRefreshable`, `ViewIsTrue` (`SyncTypeOK`, `Converges`) | `Sessions`: two transactions of all seven kinds at once, with expiry and aborts; a reset or a deactivation leaves no row usable, not even that of a rotation under way. `ChatSync`: a client that none of the five disturbances hit ends with the whole channel, through disconnects, pruning, resyncs and failed reads |
| `sockets` (`MCSockets`) | `LiveSocketsAreKept`, `DeadSocketsAreClosed`, `LastWordIsOffline`, `GoneIsShown`, `NothingOutlivesClose`, `EverythingEnds` (`CloseTerminates`, `ShutDownSocketsEnd`) | `SessionSockets`: sign-ins, rotations, revocations and dials between the steps of the sweep. `Presence`: three sockets of a user, the sweep and the dispatcher in any order; a user who leaves for good is shown offline for good. `SocketLifecycle`: every way a socket can end, in every order, with Close at any moment |
| `calls` (`MCCalls`) | `MembershipIsTrue` (`TypeOK`, `NobodyIsStranded`, `TellsMembership`, `WalkIsComplete`), `AccessEnds` (`NobodyIsForgotten`, `RevokedHasNoRoom`), `BannerFollowsCall`, `RefinesStore` | Two requests, two webhook deliveries and two failures of the media server: a channel keeps a member; users were last told what they are in, unless announcements crossed or the last was never made; who may no longer be in a call is being put out, unless both tries failed or a ticket from before let them in again; a revoked conference has no room |
| `messages` (`MCMessages`) | `ClaimsAreSound` (`TypeOK`, `FilesAreWhole`, `SendersNeverWaitInCircle`), `RowsFollowText` (`MentionsFollowText`, `CardFollowsText`), `ToldWhatIsStored`, `WalkIsComplete`, `RefinesStore` | Two requests and the enricher: files whole and served, no send waits in a circle, what members see is what is stored, with the exceptions of §8 |
| `messages_card` (`MCMessagesCard`) | `CardIsDelivered` | *violated*, see §7 |
| `mls` (`MCMls`) | `HandedOutOnce`, `LogIsWhole` (`TypeOK`, `LogHasNoGap`, `WalkIsComplete`), `WelcomesArrive` (`WelcomesComeWithCommit`, `WelcomesStayInside`, `CommitIsTold`), `BackupIsNotLost`, `RefinesStore`, `RequestsEnd` | Racing commits, claims, replacements, deregistrations and backups; every request ends |
| `signin` (`MCSignIn`) | `ResetEndsAccess`, `WorksOnce` (`OneLiveLink`, `CodesWorkOnce`), `AttemptsAreCounted` (`TypeOK`, `GuessesAreBounded`, `EveryAttemptIsCounted`), `SecondFactorHolds` (`SecondFactorIsProven`, `NobodyWaitsInVain`), `RefinesStore` | Up to five requests for one account, in 16 mixes, two setups from no row and sign-ins that store the hash anew among them |
| `signin_rehash` (`MCSignInRehash`) | `ResetSticks` | *violated*, see §7 |
| `accounts` (`MCAccounts`) | `AdministrationRemains` (`TypeOK`, `AdminRemains`), `OneAccountEach` (`OneAccountPerInvite`, `SameAccount`), `AuditIsWhole` (`ChainDoesNotFork`, `ChangesAreAudited`), `PagesAreTrue` (`NoFalseAlarm`, `WalkIsComplete`), `RefinesStore` | Up to three requests over two administrators, a provisioned account and an invitation, or over none, in 16 mixes |
| `accounts_audit` (`MCAccountsAudit`) | `AdminMutationsAreAudited` | *violated*, see §7 |

A property with parts in brackets is their conjunction; the parts are definitions of
their own, each with its comment. Six statements are proved for every instance (§6)
and left out of the runs: the type invariants of `Sessions`, `Presence` and
`SocketLifecycle`, `Sessions!RevokedIsFinal`, `Presence!RecordFollowsSockets` and
`SocketLifecycle!LoopsOutliveSockets`.

`MCClients` and `MCSockets` each hold modules that share no state. A variable `part`,
chosen at the beginning, says which of them moves; the others stay in their initial
states, in which no action that fairness speaks of is enabled. What is explored is the
sum of what the modules do, not a product.

Deadlock is checked in these two runs; a server that Close has stopped and that nobody
dials any more may rest (`AtRest`). The gateway configurations turn the check off because
their system may stop: the bounds on dials and messages are spent and every client has
left. So do the configurations with workloads: when the requests are over, nothing is
left to do. That a request does not stay behind, waiting, is `RequestsEnd` in `mls`
and `SendersNeverWaitInCircle` in `messages`.

## 4. Bounds

Every bound is a constant named `Max…` or the size of a set; the queue and window
sizes are the code's own constants made small.

* `gateway`: one socket slot dialled twice is enough for a resume, since a resume
  relates one connection to an earlier one of the same client; claims are all
  numbers, not only honest ones. A window of 2 with 3 events overflows. An
  outbound queue of 2 fills during a replay and during publishing. Two changes are a
  removal and the addition that undoes it, or two removals; one frame is the
  subscribe or typing that is checked before a change and acted on after it.
  `Scenarios` (a state constraint) keeps the two halves apart: messages and two
  connections without changes, or changes, hints and frames around one connection.
  It only cuts off steps of clients and handlers, which no fairness demands, and
  looks at counters only those steps raise, so it takes no continuation from a
  behaviour that the liveness properties speak of. Sockets do not read each other's
  state; what they share is the lock and the dispatcher's loop over them, in which
  the order of the sends does not matter to any of them.
* `clients`, sessions: two transactions give every pairwise race. Two families let a
  sweep of the others spare one; a second generation is what a rotation mints, and an
  old one to reuse. The proofs remove these bounds.
* `sockets`, sweep: the sweep treats each socket on its own; two families give the
  one a socket has and one signed in on between the reads.
* `sockets`, presence: three sockets give a first, a last and one between them; a queue of
  3 fills, and `MayLose` adds the peer's own full queue and the failing query.
* `sockets`, lifecycle: two slots and four dials, so each slot is used again while Close
  walks over the other.
* `clients`, view: window 2, three messages, so the window overflows with one message
  to spare; two reads, because one must be able to overtake another; one restart.
* `calls`, `messages`, `mls`: two requests at once give every pairwise race, and the
  background workers (enricher, webhooks, ejections, the media server) run beside
  them; a workload has up to four requests one after the other. Pages have one or two
  rows, so that every walk has several. Three channels, three messages, two files,
  two epochs, four devices and four packages are what the largest workload can use,
  and one to be in the way.
* `signin`: five requests, because a code must be shown at a setup and a challenge
  opened before it can race a reset. Two attempts, two time steps and a queue of one
  reach each limit and pass it. Two setups begin from no row at all in one mix; three
  sign-ins beside one reset let an old password be put back, and used, after it.
* `accounts`: three requests, two persons and three usernames; two attempts at a
  username let the first one be taken; two clock values let one server lag.

Symmetry is used over transactions, families, reads, requests, deliveries,
idempotency keys and persons, in runs that check invariants, action properties and
refinement (safety) only, never with a liveness property.

## 5. Fairness

* `Gateway!Fairness`: the dispatcher, the holder of `g.mu` and the mark after a
  failed send proceed because they are running goroutines with nothing to block
  on (`deliver` never waits); the pump's flush and its ticker
  come round, because a write either succeeds or fails within `writeWait`
  (`conn.go:515`), which ends the pump. No client, handler or sweep is obliged to
  act, and no frame of the queue is obliged to be taken before a tick.
* `SocketsFairness`: the sweep's ticker fires and its closes happen. Listing the
  families is strongly fair: the database may fail any number of times, but a
  query that is tried again and again is answered sometimes.
* `PresenceFairness`: read loops announce what they owe, the sweep expires a
  record whose grace period is over, the dispatcher takes what is queued. Losing
  an announcement is allowed to it; `GoneIsShown` excludes behaviours in which one
  was lost, since the code does not repeat an announcement.
* `LifecycleFairness`: a socket that was told to end goes on ending,
  because the websocket library's close gives up after its own timeout and a
  closed connection fails the read; Close goes on because those it waits for do.
* `Mls!Fairness`: a handler that has begun goes on when it is not waiting for a lock,
  since its statements return or fail; and PostgreSQL ends one transaction of a
  deadlock (`deadlock_timeout`). Nobody is obliged to send a request, and no
  connection to fail or to live.
* `ChatSync`, `Sessions`, `Calls`, `Messages`, `SignIn` and `Accounts` state safety
  only.

## 6. Proofs

Checked by TLAPS 1.4.5 for every value of the constants allowed by the named assumptions
of the modules (`ReplayMaxEventsAssumption`, `GatewayAssumptions`,
`SessionsAssumptions`, `PresenceAssumptions`, `LifecycleAssumptions`, `MlsAssumptions`,
`SignInAssumptions`, `AccountsAssumptions`, `MessagesAssumptions`,
`ChannelsAssumptions`, `CallsAssumptions`, `ChatSyncAssumptions`): sizes are positive
naturals, the null values are no members of the sets they stand beside, flags are
Booleans. In `Mls` users are numbered from 1 and the ids of devices and packages reach
at least as far as the initial state uses them; in `Accounts` the names include those
the initial accounts and the attempts of a sign-in use; in `Messages` there is a user, a
body is a link and the users it mentions, the empty one among them, and files are
numbered from 1 and finitely many (a search counts their places); in `Channels` users
are numbered from 1 in the order of their names and finitely many (a page counts them),
the first channel has a member and there is a name for it. Requests, channels of the
gateway, sockets, families, deliveries, conferences and people are any sets, not assumed
finite.

| Theorem | Says |
|---|---|
| `GatewayProofs!ResumeSound` | on a consecutive buffer, an accepted resume is answered with exactly the numbers after the claim |
| `GatewayProofs!WindowsAreSound` | `Gateway!Spec => []WindowIsSound` |
| `GatewayProofs!DeliveryIsSoundAlways`, `RemovalIsFenceAlways` | `DeliveryIsSound` (`TypeOK`, `NoSilentGap`, `InOrder`), `RemovalIsFence` |
| `SessionsProofs!SessionsTypeOK`, `OneTokenPerFamily`, `EndedForGood`, `ListIsRight` | `TypeOK`, `OnlyNewestIsUnspent`, `EndedStaysEnded`, `ListedIffRefreshable` |
| `SessionsProofs!RevocationIsFinal` | the action property `RevokedIsFinal` |
| `SessionsProofs!LiveSocketsAreAlwaysKept` | `SocketsSpec => LiveSocketsAreKept`, an action property |
| `SocketsProofs!PresenceIsTyped`, `RecordAlwaysFollows`, `OfflineIsLast` | `PresenceTypeOK`, `RecordFollowsSockets`, `LastWordIsOffline` |
| `SocketsProofs!LifecycleIsTyped`, `CloseLeavesNothing`, `LoopsAlwaysOutliveSockets` | `LifecycleTypeOK`, `NothingOutlivesClose`, `LoopsOutliveSockets` |
| `SocketsProofs!ViewIsAlwaysTrue` | `SyncSpec => []ViewIsTrue` (`SyncTypeOK`, `Converges`) |
| `MlsProofs!HandedOutOnceAlways`, `LogIsWholeAlways`, `WelcomesArriveAlways`, `BackupIsNotLostAlways` | the four invariants of the run `mls` |
| `MlsProofs!RefinesStoreAlways` | `Mls!Spec => RefinesStore`: every step is one of `MlsStore` or a stutter |
| `AccountsProofs!AdministrationRemainsAlways`, `OneAccountEachAlways`, `AuditIsWholeAlways`, `PagesAreTrueAlways` | the four invariants of the run `accounts` |
| `AccountsProofs!RefinesStoreAlways` | `Accounts!Spec => RefinesStore`: every step is one of `AccountStore` or a stutter |
| `SignInProofs!ResetEndsAccessAlways`, `WorksOnceAlways`, `AttemptsAreCountedAlways`, `SecondFactorHoldsAlways` | the four invariants of the run `signin` |
| `MessagesProofs!ClaimsAreSoundAlways`, `RowsFollowTextAlways`, `ToldWhatIsStoredAlways`, `WalkIsCompleteAlways` | the four invariants of the run `messages` |
| `MessagesProofs!RefinesStoreAlways` | `Messages!Spec => RefinesStore`: every step is one of `MessageStore` or a stutter |
| `CallsProofs!MembershipIsTrueAlways`, `AccessEndsAlways`, `BannerFollowsCallAlways` | the three invariants of the run `calls` |
| `CallsProofs!RefinesStoreAlways` | `Calls!Spec => RefinesStore`: every step is one of `ChannelStore` or a stutter |
| `SignInProofs!RefinesStoreAlways` | `SignIn!Spec => RefinesStore`: every step is one of `SignInStore`, a stutter or an `Overrun` |

In `GatewayProofs`, `MlsProofs`, `AccountsProofs`, `SignInProofs`, `MessagesProofs` and
`CallsProofs` the inductive invariant is `IInv`, a lemma states `Spec => []IInv`, and
the theorems follow from it. Each `IInv` was checked by TLC on the bounds of the
component's run before it was proved.

**Windows.** `WindowIsSound` is not inductive: that a resume is complete follows
from the window being consecutive and ending at the counter. `BufferInv` says
that (`Contiguous`) with the type of the buffers; lemmas about the buffer's operators
show `nextSeq` followed by `store` keeps it, and so does `prune`, whatever it cuts.
The other actions leave the buffers alone.

**Delivery.** `Line(s, ch)` is the argument, for one socket and one channel: what was
written or queued is below what is still to come, from the replay or the dispatcher
(`Below`), is in order (`Orderly`), and leaves nothing out (`Complete`: during a
replay nothing of what is promised, after it nothing that was sent to the user). It is
inductive only with what `g.mu` gives: `Locking` says that at most one socket replays,
with the lock, and that the dispatcher has the lock exactly while it sends, so a
number is never assigned in the middle of a replay, and that at most one drop is owed
a mark, by the holder. `Dispatching` says the frame being sent has its channel's newest
number, `Windows` that a window ends at its counter and `told` has an entry per number,
`Slots` that an empty slot has nothing. For the fence, whoever's removal the dispatcher
has reached is no member (`Fence`), so an audience read later cannot hold them.

**Sessions.** `IInv` strengthens the invariants by what a transaction knows at
each program counter (`TxOK`). A rotation past its lookup still holds the lock of
the unspent newest row (`Holds`), so no second rotation can spend it. A sweep
under `lockAccount` covers every row there is (`Covers`: each is revoked, still to
be visited, or will be revoked on commit), because nobody can insert a row while
the users row is locked FOR UPDATE; that is where `Exclusive`, that locks held by
two transactions are compatible, is used, and it is exactly the conjunct that
would fail for `RevokeFamily`, which takes no such lock (§8). A reset or
a deactivation past the account step holds that lock. `Generations` bounds the
rows, and `EndedExist` keeps `EndedStaysEnded` from being vacuous.

**The sweep of sockets.** Rows are never forgotten, nor is a revocation or an expiry of
one (`RowsOnlyAge`, from the proved invariant of `Sessions`). A socket's family exists
(`SocketsHaveFamilies`), so when the families are read, that of a socket in the snapshot is
listed or has a newest row that is revoked or expired (`SweepIsRight`), and stays so until
the close. A socket dialled later is in a slot the snapshot does not hold.

**Presence.** `LastWordIsOffline` needs `SpeakersAreUp`: only a registered socket
owes an announcement, so none can follow the sweep's for a user who is gone.

**Lifecycle.** `NothingOutlivesClose` needs `LiveIsServed` (the live set is the
slots whose goroutines run) and `CloseProgress` (what holds at each stage of Close:
after the flag is set the live set only shrinks, and after the wait it is empty).

**A client's view.** `Converges` speaks of quiet states only. `NothingIsLost` says where a
message is in the others: in the view, being announced or queued, asked for or read by a
REST read, or `Ahead`, numbered above the cursor, and then the socket is down (the next
hello will ask), or the event or a resync is under way. `InLine` keeps that true when an
event is received: numbers go up from the cursor and every resync is ahead of every
event, so the cursor never passes a message on its way, nor one that only a resync
will bring. `ReadsAreKnown`: a view that opening will load has no read under way. Each of the five
disturbances is where one of these would fail (§8).

**Mls.** `Knows` says what a request knows by where it is, `Apart` that what two
requests hold goes together. Packages a claim or a replacement has locked are in the
pool and held by nobody else, and a package being inserted has a number nobody has
seen: so none is handed out twice, although a claim has read its packages before it
takes them. A commit past its compare-and-advance has the group's row (`Committing`, one
request at a time) and the epoch it names, so the log grows by exactly the next epoch.
An id once given out is of one owner for good (`Owned`), which is what lets a welcome's
addressee be judged by a row read before. `KnowsBackup` bounds a counter that was read
by the one stored, unless a deletion came between. A walk has listed what is before its
cursor and nothing behind it (`KnowsWalk`), while members come and go. The refinement
takes each action to one `MlsStore` operation or to a stutter; the mapping leaves the
packages a replacement did not see (`stale`) out of the pool.

**Accounts.** Again `Knows` and `Apart`: locks and inserted keys are determined by the
place of the request, and those of two requests are disjoint. Keys that are held stay
new (`KnowsRow`), because every other INSERT of one of them waits. `KnowsAdmins` is the
heart of `AdminRemains`: the administrator that was counted before the update (`Leaves`)
is still one at the commit, because whoever could demote them needs the lock the request
holds, and everything else only adds accounts. The row of an invitation stays as it was
read while it is locked, and `Invited` counts one account per accepted one;
`OneIdentityEach` and `KnowsWho` tie a person's sign-ins to one account until they are
unlinked. The end of the chain is what it was when its lock was taken (`KnowsTail`), and
since stamps are clamped under that lock (`Times`) pages by time are pages by number: so
no page shows a break. A change is in the log, lost, still to be appended by the request
that made it, or an account that an administrator made (`Audited`). The refinement maps
each step to one `AccountStore` operation or a stutter.

**SignIn.** `Knows` and `Apart` once more. An answer at the challenge's row finds it
answerable and a code it has judged right is still right (`KnowsChallenge`,
`KnowsFactor`), because whoever could spend it needs a row the answer has locked; so
`Spent`, that nothing accepted can be presented again, is kept and `CodesWorkOnce`
with it, also between a setup and a sign-in. `ResetEndsAccess` needs that a sign-in
under way was let in by the password set last, by one put back since, or overlapped a
reset (`Word`): so a hash that is computed anew is of one of these, and only one that
overlapped can put another password back; it needs that so
was a challenge that is still open (`Challenged`), and that the sweep has the
challenge's row, or the challenge is consumed or known to overlap
(`KnowsChallenge`). `KnowsLinks` says that who issues a link has seen all that are
outstanding under the account lock: so one is (`Linked`). A session is minted
unenrolled only under the lock of minting, which the activation needs too: that is
`NobodyWaitsInVain`. `Counted` is a balance: what was tried is what was counted and
what a request is on its way to count. The invariants hold for any mix of requests,
two first setups at once included, and so does the refinement, which names the one step
that the store's operations cannot take: a setup that found no row to lock is stored
over a factor that another has switched on meanwhile (`Overrun`, §8). Where the setup
holds the row, or the factor is not on, its step is `StartTotpSetup`'s.
The other writes are covered by what `Knows` says of the request.

**Messages.** `IInv` has seven layers, each proved over the ones before it. `Typed` and
`Numbered`: a request is about a row that is there, or about an id that nobody else has
(`Reserved`). `Claims`: a send has locked a lower part of its files in the order of
their ids, found each claimable, and nothing can change them while it waits
(`KnowsFiles`); two sends hold disjoint files and different keys (`ApartFiles`). So
files go to a message all or none, and of two senders that wait for each other each
would hold a file below one it waits for. `Texts`: unless another write of the message
met this one (`crossed`), who is to write has the mentions to drop as they are
(`KnowsTags`), who is to announce has the row's text (`KnowsText`), and two writers of
one message know of each other (`ApartWrites`). `Announced`: what members have not been
told, a request is on its way to tell. `Cards`: of all the work there is for a message,
the last is of its text: a request that will enqueue it, the last job queued for it, the
job the worker has, or the card stored (`Follows`); since the queue is first in first
out, an old copy is never the last word, unless the last job was dropped, failed or
never queued (`cardless`). `Walks`: what a walk has to list was listed or is beyond its
cursor, and what was listed is not (`Backward`, `Forward`); a page around a message is
the older half of some earlier rows and the newer half of some later ones (`Whole2`), so
it has no hole. That the pages are ends of the rows is proved from `Newest` and `Oldest`
being defined by cardinality (`NewestIs`, `OldestIs`: the end of a finite set with the
given number of elements). The refinement takes each commit or statement to one
`MessageStore` operation: a commit's files are claimable and its key is free by
`KnowsFiles` and `KnowsKey`, and an edit or a deletion finds its row live because a row
never disappears.

**Channels and calls.** Four layers say what the tables and requests have to do with
each other, and three the calls. `Numbered`: an uncommitted row has an id and a key
nobody else has, and a channel that a request is about has a row of the right kind.
`Peopled`: who counted the members holds the row's lock (`KnowsLock`) and two never hold
the same (`ApartLocks`), so a DELETE still finds another member: `NobodyIsStranded`.
`Told`: what users were last told of a membership is true, or a request is about to tell
the truth (`KnowsTold`), unless two changes crossed or the last went unannounced. This
one failed at first: a creation's announcement can also be overtaken by a removal, which
`Unannounced` did not count as a crossing; the workload that shows it is now in the run.
`Walks`: as in `Messages`, with `Before` of a finite set. `Attended`: whoever is in a
channel's room may be, or is listed in one of the four ways `NobodyIsForgotten` names;
that the ejected room is always one that exists (`t[1] \in rooms`) is what makes the
sweep's single listing enough. `Revoked`: between closing the room and marking the link
nobody but a join that was under way makes it again. `Bannered`: a delivery that was
alone has read how things are unless another report waits, and then the registry and the
banner agree (`KnowsCall`); two deliveries of one channel know of each other
(`ApartCalls`); and where none is under way all three agree (`Settled`). The refinement
needs `Numbered` for the unique keys of a commit and `Peopled` for the removal.

Only model-checked: the liveness properties (`ResyncIsTold`, `LockComesFree`,
`DeadSocketsAreClosed`, `GoneIsShown`, `EverythingEnds`, `RequestsEnd`), because fairness and
ENABLED are outside the prover. Every invariant, action property and refinement of a passing
run is proved. What a recursive definition computes
cannot be proved by induction over data
with this prover; the modules use none.

## 7. Findings

**An event can fall between replay and publish.** `deliver` counts the connected
users before `publish` takes `g.mu` (`dispatch.go:297`). With nobody connected the
audience is left unresolved; a socket that registers in between finds the event
neither in the window nor on its queue, and is owed no resync.
`wsgateway.go:506-510` says there is no such window. Run `gateway_fall`.

**The enricher announces a message without its card.** `process` stores the card and
hands the gateway the copy of the message that its job carries (`linkpreview.go:189`),
whose `Preview` it has not set, so members are told of the card of before, or of none.
`storage/messages.go:49-54` says that the enricher sets it, because a missing one "would
make message_updated erase the very card it exists to deliver". Run `messages_card`.

**A sign-in can undo a password reset.** `Login` verifies the password against the hash
it read, and when that was made with old parameters stores a new hash of the same
password (`auth_handlers.go:134-136`) with an UPDATE that does not look at what is stored
(`storage/users.go:237-249`). After a reset in between, the old password works again and
the new one does not; `reset_handlers_test.go:537` says the opposite. Run
`signin_rehash`.

**An account made by an administrator is not in the audit log.** `AdminCreateUser`
(`user_handlers.go:157-192`) records nothing, while `docs/ROADMAP.md:488` lists the test
"every admin mutation appears in the audit log". Run `accounts_audit`.

## 8. Known limits

Behaviours the models have, because the code has them, and that no run of its own
shows. Where a property meets one, it excepts it by name with a history variable.

*Delivery and presence*

* The audience is read before the removal that may already be under way commits
  (`dispatch.go:299`), so an event announced around a removal can reach the removed
  user; `docs/api/ws-protocol.md:230-231` reads more strictly. What holds is
  `RemovalIsFence`.
* A subscribe whose check passed before the removal was dispatched adds its
  subscription after it (`conn.go:355`; compare `ws-protocol.md:227-229`). The
  audience, read for each event, still leaves the user out.
* A connected user can stay shown offline until their next change, when the sweep's
  announcement is queued after that of the reconnect it raced (`wsgateway.go:698`;
  compare `ws-protocol.md:215-217`).

*Sessions*

* A logout can miss a rotation's new generation: `RevokeFamily` is one UPDATE
  (`sessions.go:341`), which does not see rows committed after it started. The
  sweeps under `lockAccount` do not have this problem (`EndedForGood`).
* A rotation can deadlock with a reset or a deactivation: session row then users row
  in one, the other way round in the other; `storage.go:46-49` says a rotation
  cannot. PostgreSQL aborts one of the two.
* A sign-in that read the account before it was deactivated can commit its session
  after the sweep (`auth_handlers.go:122`; compare `users.go:354-358` and
  `openapi.yaml:3950`). `EndedStaysEnded` is therefore about the families that
  existed when the sweep committed. Single sign-on has the same gap.

*Web client*: the five causes `Converges` excepts (`Causes`)

* *dropped*: an event that finds the queue full never gets a number, so no gap
  shows it (`dispatch.go:258`; compare the comment at 254-257).
* *restarted*: after a restart the numbers begin again, and a cursor of the last
  life may be accepted (`replay.go:62`; compare `ws-protocol.md:268-269`).
* *cursorless*: a channel whose cursor was deleted while its view stays loaded is
  left out of the next hello (`realtime.ts:398`; compare `ws-protocol.md:233-234`).
* *overwritten*: a page read before a live event and applied after it removes the
  event's message from the view (`store.ts:257`), and the cursor is already past it;
  `ws-protocol.md:290-291` calls such an overlap harmless.
* *forgotten*: a failed backfill is not tried again once another read has made the
  view ready (`store.ts:307`).

*Channels and calls*

* The announcements of two changes of one membership can cross (`raced`), that of the
  channel's creation included.
* A member who was added is not told when the channel cannot be read for the invitation
  (`channel_handlers.go:538`), and nobody is when the answer to a commit is lost
  (`untold`); then a removed member is not ejected either (`kept`). The client's next
  read of its channels repairs the first.
* Two overlapping webhook deliveries of one channel can leave the wrong banner
  (`muddied`): each reads the room before it takes the registry's mutex
  (`call_handlers.go:153`; the comment at `calls.go:702` calls the path
  order-proof).
* A ticket minted before a removal lets the removed member in until it expires, and a
  late ejection can put out somebody who was added again (`kept`; ADR 005 accepts
  the first).
* A join that looked its link up before a revocation makes the conference's room
  again (`slipped`; compare the comment at `conference_handlers.go:175-180`).
* A channel is born with the organisation's encryption mode as it was read before the
  INSERT.

*Messages*

* Two edits that overlap can leave mention rows of the one that lost, since what an
  edit deletes is chosen by its snapshot (`crossed`; compare
  `storage/messages.go:211-215`). They can also be announced in the other order.
* The enricher announces the copy its job carries (`linkpreview.go:189`): an older
  text, a deleted message (`late`), and the card of before (§7). A full queue, a failed
  fetch or a failed deletion leaves the old card (`cardless`; `linkpreview.go:142, 179
  and 197`).
* A send, an edit or a deletion that fails after its commit (its answer is lost, or
  `storage/messages.go:572` cannot read the cards) is never announced, and a send's retry
  announces nothing either (`unheard`); nor is the enricher asked (`cardless`).
* A message with an earlier `created_at` that commits later can be skipped by a
  forward page and by the unread count. A read position is announced as asked for,
  even when the stored one is newer. An upload whose INSERT answer is lost leaves a
  row nobody has the id of; `SweepOrphanAttachments` has no caller.

*MLS*

* Two overlapping replacements leave the packages of both (`stale`; `mls.go:327`).
* A commit cut off after it is stored is not announced (`mute`).
* A member removed between the check and the commit can still be sent a welcome
  (`left`). After a backup was deleted a lower counter is accepted (`reset`).

*Sign-in*

* A password sign-in that overlaps a reset can mint a session or a challenge after it
  (`crossed`), and put the old password back (§7; `revived`). A code that completes a
  challenge and a reset can deadlock; PostgreSQL ends one.
* A login that read "no second factor" before an activation mints a session by
  password alone; a rotation concurrent with it can carry the enrolment flag on until
  the next one. The policy read of `DisableTotp` takes no lock.
* `StartTotpSetup` with no row takes no lock (`totp.go:94-101`), so its upsert can replace
  a factor that another setup, begun at the same time, had verified and switched on
  meanwhile (`Overrun`); the comment at `totp.go:88-90` says such an account is refused.
  `RefinesStore` names this step as the one the store's operations cannot take.
* A request that is cancelled after its wrong code was burned does not reach the limiter
  (`totp_handlers.go:342-345`); the model lets such a request go on.
* Limiters are asked and told in two calls, so requests at once can pass the last
  place together; a full mail queue drops the mail while its link stays live.

*Accounts*

* A SCIM patch writes back a row read before (`scim/users.go:323`), and skips the
  active flag when the row read already had it.
* Of two first sign-ins that adopt the same account, one is refused
  (`oidc_handlers.go:461` accepts this).
* Revoking an accepted invitation changes nothing and is recorded all the same; a
  failing append is only logged, and a change whose answer is lost is not recorded
  (`lost`).
* Lists go by `created_at`, so a row that commits late can be skipped by a walk.

## 9. What is not modelled

* Frame codec, directory, fetching of previews, signing and serving of files,
  screens, desktop shell, process wiring, updater and installer: parsing, I/O or
  rendering without shared state, or shell over Docker.
* `api.gen.go` is generated; `authztest` and `*test` packages are test code.
* Rate limiting of frames (`rateLimited`): answers a frame with an error and
  changes nothing the properties see. The connect budget: a pair of limiters like
  those of `SignIn`. The limiters' windows of time.
* `encodeOrLog` returning nil: encoding a value of the program's own types does not
  fail.
* SQLite's sessions: one writer at a time removes the interleavings `Sessions` is
  about.
* In `Sessions`: the access token's own expiry. In `ChatSync`: paging, edits, outbox,
  typing, the reconnect timer. In `SignIn`: SMTP and the queue's Close. In
  `Accounts`: SCIM tokens, the authorization-code exchange, the second factor of a
  single sign-on (the challenge it opens is that of `SignIn`), settings and profiles.
* The MLS client: the cryptography is a library, and what its reconcile loop does
  depends on what the library accepts.

## 10. Plan

Done, in this order: `ReplayBuffer`, `Gateway`, `Sessions`, `Presence`,
`SocketLifecycle`, `SessionSockets`, `ChatSync`, with proofs for the first five;
then the stores as abstract specifications with `Channels` and `Calls`, `Messages`,
`Mls`, `SignIn` and `Accounts` as their implementations.

Then the proofs of `Mls`, `Accounts`, `SignIn`, `Messages` and `Calls`, with their
refinements, of delivery in `Gateway`, and of `ChatSync` and `SessionSockets`: no safety
property of a passing run is left without one.

Next models: a session family as one token that moves or dies, implemented by
`Sessions`; a channel as a log every client has a prefix of or is told to read again,
implemented by `Gateway` and used by `ChatSync` in place of its large steps; the
client's outbox over the idempotent send of `Messages`.
