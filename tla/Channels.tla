------------------------------- MODULE Channels -------------------------------
(***************************************************************************)
(* Channels and memberships: the handlers (server/internal/httpserver) over *)
(* the PostgreSQL store (server/internal/storage), one step per statement   *)
(* that another request can come between.  A request that is refused        *)
(* changes nothing, so its refusal is a guard that is false.                *)
(*                                                                         *)
(* Only these waits matter at READ COMMITTED: a row locked FOR NO KEY       *)
(* UPDATE, and a unique key that an uncommitted INSERT holds.  The check of *)
(* a foreign key takes KEY SHARE, which conflicts with neither.             *)
(***************************************************************************)
EXTENDS Integers, FiniteSets

CONSTANTS Users, MaxChannels, Slugs, NoSlug, Conferences,   \* see ChannelStore
  Admins,          \* users with is_admin
  Requests,        \* requests that run at once
  InitialMembers,  \* members of the first channel
  PageLimit,       \* limit of a page
  Workloads        \* bound: how often each operation is requested, one of these

VARIABLES
  channels, members, conferences,   \* see ChannelStore
  locked,      \* channel rows locked FOR NO KEY UPDATE
  active,      \* users.is_active
  req,         \* per request: where it is and what it read
  budget,      \* requests still to come, per operation
  shown,       \* pairs <<channel, user>>: whom the last announcement left in
  raced,       \* history: pairs with two changes whose announcements crossed
  untold       \* history: pairs whose last change nobody announced to the user

Store == INSTANCE ChannelStore

ChannelIds == 1 .. MaxChannels
NoRow == Store!NoRow
Members(c) == Store!Members(c)

Operations == {"CreateChannel", "OpenDirectMessage", "UpdateChannel", "AddChannelMember",
               "RemoveChannelMember", "ListChannelMembers", "ListChannels",
               "CreateCallToken", "CreateConference", "RevokeConference", "JoinConference",
               "DeactivateUser"}

ASSUME ChannelsAssumptions ==
  /\ Cardinality(Users) \in Nat /\ Users = 1 .. Cardinality(Users) /\ MaxChannels \in Nat \ {0} /\ Slugs # {}
  /\ Admins \subseteq Users /\ InitialMembers \subseteq Users /\ InitialMembers # {}
  /\ NoSlug \notin Slugs
  /\ PageLimit \in Nat \ {0}
  /\ Workloads \subseteq [Operations -> Nat]

\* by: the caller; on: the channel or conference; who: the user it is about;
\* row: the row it inserts; cursor, got, twice: a walk's cursor, what it
\* listed, and whether anything twice; stay: what a walk had to list.
Idle == [at |-> "idle", by |-> 0, on |-> 0, who |-> 0, row |-> NoRow,
         cursor |-> 0, got |-> {}, twice |-> FALSE, stay |-> {}]

storeVars   == <<channels, members, conferences>>
channelVars == <<storeVars, locked, active, req, budget, shown, raced, untold>>

ChannelsTypeOK ==
  /\ channels \in [ChannelIds -> Store!ChannelRow]
  /\ members \subseteq ChannelIds \X Users
  /\ conferences \in [Conferences -> Store!ConferenceRow]
  /\ locked \subseteq ChannelIds
  /\ active \subseteq Users
  /\ \A p \in Requests : DOMAIN req[p] = DOMAIN Idle
  /\ budget \in [Operations -> Nat]
  /\ shown \subseteq ChannelIds \X Users
  /\ raced \subseteq ChannelIds \X Users /\ untold \subseteq ChannelIds \X Users

ChannelsInit ==
  /\ channels = [c \in ChannelIds |->
        IF c = 1 THEN Store!Group(CHOOSE s \in Slugs : TRUE, FALSE, CHOOSE u \in InitialMembers : TRUE)
                 ELSE NoRow]
  /\ members = {1} \X InitialMembers
  /\ conferences = [k \in Conferences |-> Store!NoConference]
  /\ locked = {} /\ active = Users
  /\ req = [p \in Requests |-> Idle]
  /\ budget \in Workloads
  /\ shown = members /\ raced = {} /\ untold = {}

--------------------------------------------------------------------------------
\* Every path to a channel asks whether the caller is a member, of the
\* database and not of the session, and only members may do anything.
resolveChannel(c, u) == channels[c] # NoRow /\ <<c, u>> \in members

\* What a member may do: everything, but only the creator and administrators
\* remove another member.
canChannel(c, u, action) ==
  \/ action # "ChannelMemberRemove"
  \/ channels[c].by = u
  \/ u \in Admins

\* A request arrives; the session middleware admits only active accounts.
Arrive(p, op, u, r) ==
  /\ req[p].at = "idle"
  /\ budget[op] > 0
  /\ u \in active
  /\ req' = [req EXCEPT ![p] = r]
  /\ budget' = [budget EXCEPT ![op] = @ - 1]

Goto(p, at) == req' = [req EXCEPT ![p].at = at]
Done(p)     == req' = [req EXCEPT ![p] = Idle]

\* The ids of rows, committed or not, in the order of created_at.
FreeId == CHOOSE c \in ChannelIds :
  /\ channels[c] = NoRow /\ \A p \in Requests : req[p].row = NoRow \/ req[p].on # c
  /\ \A d \in 1 .. c - 1 : channels[d] # NoRow \/ \E p \in Requests : req[p].row # NoRow /\ req[p].on = d
HasFreeId == \E c \in ChannelIds :
  channels[c] = NoRow /\ \A p \in Requests : req[p].row = NoRow \/ req[p].on # c

\* An uncommitted INSERT holds this slug, or this pair of users.
KeyHeld(row) == \E q \in Requests :
  req[q].at = "inserted" /\ <<req[q].row.slug, req[q].row.pair>> = <<row.slug, row.pair>>

--------------------------------------------------------------------------------
\* Creating a channel and opening a direct message.  The encryption is the
\* organisation's mode when the request arrives.
CreateChannel(p) == \E u \in Users, slug \in Slugs, e2eeAtBirth \in BOOLEAN :
  /\ Arrive(p, "CreateChannel", u,
       [Idle EXCEPT !.at = "insert", !.by = u, !.row = Store!Group(slug, e2eeAtBirth, u)])
  /\ UNCHANGED <<storeVars, locked, active, shown, raced, untold>>

OpenDirectMessage(p) == \E u, v \in Users, e2eeAtBirth \in BOOLEAN :
  /\ u # v
  /\ Arrive(p, "OpenDirectMessage", u,
       [Idle EXCEPT !.at = "insert", !.by = u, !.who = v, !.row = Store!Direct(u, v, e2eeAtBirth)])
  /\ UNCHANGED <<storeVars, locked, active, shown, raced, untold>>

\* Fault: the conflict target of a direct message is left out, so the INSERT
\* neither waits nor finds the other row.
InsertWithoutConflict(p) ==
  /\ req[p].at = "insert"
  /\ HasFreeId
  /\ req' = [req EXCEPT ![p].at = "inserted", ![p].on = FreeId]
  /\ UNCHANGED <<storeVars, locked, active, budget, shown, raced, untold>>

\* The INSERT waits for an uncommitted row with its key.  Over a committed one
\* a channel is refused and a direct message answers with what is there.
InsertChannel(p) ==
  /\ req[p].at = "insert"
  /\ ~KeyHeld(req[p].row)
  /\ IF \E c \in ChannelIds : <<channels[c].slug, channels[c].pair>> = <<req[p].row.slug, req[p].row.pair>>
       THEN Done(p)
       ELSE /\ HasFreeId
            /\ req' = [req EXCEPT ![p].at = "inserted", ![p].on = FreeId]
  /\ UNCHANGED <<storeVars, locked, active, budget, shown, raced, untold>>

\* The creator, or both participants, become members in the same transaction.
CommitChannel(p) ==
  /\ req[p].at = "inserted"
  /\ channels' = [channels EXCEPT ![req[p].on] = req[p].row]
  /\ members' = members \cup ({req[p].on} \X ({req[p].by} \cup req[p].row.pair))
  /\ req' = [req EXCEPT ![p].at = "announce", ![p].row = NoRow]
  /\ UNCHANGED <<conferences, locked, active, budget, shown, raced, untold>>

\* The connection or a foreign key fails, and the row is gone.
RollbackChannel(p) ==
  /\ req[p].at = "inserted"
  /\ Done(p)
  /\ UNCHANGED <<storeVars, locked, active, budget, shown, raced, untold>>

\* The users of S are members now, and those of T are told so.
Invite(c, S, T) ==
  /\ shown'  = shown \cup ({c} \X T)
  /\ untold' = (untold \ ({c} \X T)) \cup ({c} \X (S \ T))

\* ChannelCreated to the caller, and the invitation to the other participant,
\* which is dropped when the channel cannot be read as that user sees it.
AnnounceChannel(p) ==
  LET first == {req[p].by, req[p].who} \ {0} IN
  /\ req[p].at = "announce"
  /\ \E T \in {first, {req[p].by}} : Invite(req[p].on, first, T)
  /\ Done(p)
  /\ UNCHANGED <<storeVars, locked, active, budget, raced>>

--------------------------------------------------------------------------------
\* Only the topic of a group changes; the UPDATE waits for the row's lock.
UpdateChannel(p) == \E u \in Users, c \in ChannelIds :
  /\ resolveChannel(c, u) /\ canChannel(c, u, "ChannelUpdate")
  /\ channels[c].kind = "group"
  /\ Arrive(p, "UpdateChannel", u, [Idle EXCEPT !.at = "update", !.by = u, !.on = c])
  /\ UNCHANGED <<storeVars, locked, active, shown, raced, untold>>

UpdateChannelTopic(p) ==
  /\ req[p].at = "update"
  /\ req[p].on \notin locked
  /\ channels' = [channels EXCEPT ![req[p].on].topic = 1]
  /\ Done(p)
  /\ UNCHANGED <<members, conferences, locked, active, budget, shown, raced, untold>>

AddChannelMember(p) == \E u, v \in Users, c \in ChannelIds :
  /\ resolveChannel(c, u) /\ canChannel(c, u, "ChannelMemberAdd")
  /\ Arrive(p, "AddChannelMember", u, [Idle EXCEPT !.at = "add", !.by = u, !.on = c, !.who = v])
  /\ UNCHANGED <<storeVars, locked, active, shown, raced, untold>>

\* Another request has changed this membership and not yet announced it; a
\* channel that was made is announced to its first members.
Tells(r, c, u) ==
  /\ r.on = c
  /\ \/ r.at \in {"added", "removed"} /\ r.who = u
     \/ r.at = "announce" /\ u \in {r.by, r.who}
Unannounced(p, c, u) == \E q \in Requests \ {p} : Tells(req[q], c, u)

\* A direct message's membership is fixed; adding a member twice is the same
\* as once.
InsertMember(p) ==
  LET c == req[p].on  v == req[p].who IN
  /\ req[p].at = "add"
  /\ IF channels[c].kind = "dm"
       THEN Done(p) /\ UNCHANGED <<members, raced>>
       ELSE /\ members' = members \cup {<<c, v>>}
            /\ raced' = IF Unannounced(p, c, v) THEN raced \cup {<<c, v>>} ELSE raced
            /\ Goto(p, "added")
  /\ UNCHANGED <<channels, conferences, locked, active, budget, shown, untold>>

\* The invitation, which is dropped when the channel cannot be read, and then
\* MemberAdded to the others.
AnnounceAdded(p) ==
  /\ req[p].at = "added"
  /\ \E T \in SUBSET {req[p].who} : Invite(req[p].on, {req[p].who}, T)
  /\ Done(p)
  /\ UNCHANGED <<storeVars, locked, active, budget, raced>>

\* The commit went through and its answer is lost: status 500 for a change that
\* happened, and nobody is told.
CommitAnswerLost(p) ==
  /\ req[p].at \in {"announce", "added"}
  /\ Invite(req[p].on, IF req[p].at = "added" THEN {req[p].who} ELSE {req[p].by, req[p].who} \ {0}, {})
  /\ Done(p)
  /\ UNCHANGED <<storeVars, locked, active, budget, raced>>

--------------------------------------------------------------------------------
\* Leaving is open to every member; removing another is not.
RemoveChannelMember(p) == \E u, v \in Users, c \in ChannelIds :
  /\ resolveChannel(c, u) /\ channels[c].kind # "dm"
  /\ canChannel(c, u, IF u = v THEN "ChannelRead" ELSE "ChannelMemberRemove")
  /\ Arrive(p, "RemoveChannelMember", u, [Idle EXCEPT !.at = "lock", !.by = u, !.on = c, !.who = v])
  /\ UNCHANGED <<storeVars, locked, active, shown, raced, untold>>

\* Fault: the channel row is read without its lock.
ReadChannel(p) ==
  /\ req[p].at = "lock"
  /\ Goto(p, "count")
  /\ UNCHANGED <<storeVars, locked, active, budget, shown, raced, untold>>

\* SELECT kind FROM channels ... FOR NO KEY UPDATE
LockChannel(p) ==
  /\ req[p].at = "lock"
  /\ req[p].on \notin locked
  /\ locked' = locked \cup {req[p].on}
  /\ Goto(p, "count")
  /\ UNCHANGED <<storeVars, active, budget, shown, raced, untold>>

CountMembers(p) ==
  /\ req[p].at = "count"
  /\ IF Members(req[p].on) = {req[p].who}
       THEN Done(p) /\ locked' = locked \ {req[p].on}
       ELSE Goto(p, "delete") /\ UNCHANGED locked
  /\ UNCHANGED <<storeVars, active, budget, shown, raced, untold>>

\* A walk no longer has to list what left under it.
Leaves(r, c, u) ==
  [r EXCEPT !.stay = IF r.at \notin {"members", "channels"} THEN @
                     ELSE IF r.at = "members" /\ r.on = c THEN @ \ {u}
                     ELSE IF r.at = "channels" /\ r.by = u THEN @ \ {c} ELSE @]

\* The DELETE and the commit, which releases the lock.
DeleteMember(p) ==
  LET c == req[p].on  v == req[p].who IN
  /\ req[p].at = "delete"
  /\ members' = members \ {<<c, v>>}
  /\ raced' = IF Unannounced(p, c, v) THEN raced \cup {<<c, v>>} ELSE raced
  /\ locked' = locked \ {c}
  /\ req' = [q \in Requests |-> IF q = p THEN [req[p] EXCEPT !.at = "removed"] ELSE Leaves(req[q], c, v)]
  /\ UNCHANGED <<channels, conferences, active, budget, shown, untold>>

--------------------------------------------------------------------------------
\* Pages.  A page asks for one row more than its limit; when it gets it, it
\* drops it and its cursor is the last row it kept.
Before(S, n) == {x \in S : Cardinality({y \in S : y < x}) < n}
Rows(S, cursor) == Before({x \in S : x > cursor}, PageLimit + 1)
Last(S) == CHOOSE x \in S : \A y \in S : y <= x

\* The request after a page: the next page, or nothing more.
AfterPage(r, S) ==
  LET rows == Rows(S, r.cursor)
      page == Before(rows, PageLimit)
      more == Cardinality(rows) > PageLimit
  IN [r EXCEPT !.got = @ \cup page, !.twice = @ \/ page \cap r.got # {},
               !.cursor = IF more THEN Last(page) ELSE @, !.at = IF more THEN @ ELSE "listed"]

ListChannelMembers(p) == \E u \in Users, c \in ChannelIds :
  /\ resolveChannel(c, u) /\ canChannel(c, u, "ChannelRead")
  /\ Arrive(p, "ListChannelMembers", u,
       [Idle EXCEPT !.at = "members", !.by = u, !.on = c, !.stay = Members(c)])
  /\ UNCHANGED <<storeVars, locked, active, shown, raced, untold>>

\* Every page is a request of its own and asks again for the membership.
MembersPage(p) ==
  /\ req[p].at = "members"
  /\ IF resolveChannel(req[p].on, req[p].by)
       THEN req' = [req EXCEPT ![p] = AfterPage(@, Members(@.on))]
       ELSE Done(p)
  /\ UNCHANGED <<storeVars, locked, active, budget, shown, raced, untold>>

ChannelsOf(u) == {c \in ChannelIds : <<c, u>> \in members}

ListChannels(p) == \E u \in Users :
  /\ Arrive(p, "ListChannels", u, [Idle EXCEPT !.at = "channels", !.by = u, !.stay = ChannelsOf(u)])
  /\ UNCHANGED <<storeVars, locked, active, shown, raced, untold>>

ChannelsPage(p) ==
  /\ req[p].at = "channels"
  /\ req' = [req EXCEPT ![p] = AfterPage(@, ChannelsOf(@.by))]
  /\ UNCHANGED <<storeVars, locked, active, budget, shown, raced, untold>>

FinishList(p) ==
  /\ req[p].at = "listed"
  /\ Done(p)
  /\ UNCHANGED <<storeVars, locked, active, budget, shown, raced, untold>>

--------------------------------------------------------------------------------
\* The steps of a request on channels that concern nothing but channels.
ChannelStep(p) ==
  \/ CreateChannel(p) \/ OpenDirectMessage(p)
  \/ InsertChannel(p) \/ CommitChannel(p) \/ RollbackChannel(p) \/ AnnounceChannel(p)
  \/ UpdateChannel(p) \/ UpdateChannelTopic(p)
  \/ AddChannelMember(p) \/ InsertMember(p) \/ AnnounceAdded(p) \/ CommitAnswerLost(p)
  \/ RemoveChannelMember(p) \/ LockChannel(p) \/ CountMembers(p) \/ DeleteMember(p)
  \/ ListChannelMembers(p) \/ MembersPage(p) \/ ListChannels(p) \/ ChannelsPage(p) \/ FinishList(p)

Quiet == \A p \in Requests : req[p].at = "idle"

\* However requests interleave, a channel keeps at least one member and a
\* direct message exactly its two, although removing a member counts and
\* deletes in two statements (storage/channels.go:563).
NobodyIsStranded == \A c \in ChannelIds :
  /\ channels[c].kind = "group" => Members(c) # {}
  /\ channels[c].kind = "dm"    => Members(c) = channels[c].pair

\* When nothing runs, a user was last told to be in exactly the channels the
\* user is a member of, unless two changes of one membership announced
\* themselves in the other order (channel_handlers.go:518 and 638), or the last
\* change was not announced to the user at all: the read for the invitation
\* failed (538) or the commit's answer was lost.
TellsMembership == Quiet => \A m \in ChannelIds \X Users :
  m \notin raced \cup untold => (m \in shown <=> m \in members)

\* A walk through the pages of a list returns everything that was in it from
\* its first page to its last, and nothing twice, whatever is added and
\* removed meanwhile (channels.go:394 and 619).
WalkIsComplete == \A p \in Requests :
  req[p].at = "listed" => req[p].stay \subseteq req[p].got /\ ~req[p].twice

\* The PostgreSQL store does to its tables only what the SQLite store does.
RefinesStore == Store!Spec
===============================================================================
