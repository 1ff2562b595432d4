------------------------------ MODULE CallsProofs ------------------------------
(***************************************************************************)
(* For any number of requests, users, channels, conferences and webhook    *)
(* deliveries: every channel keeps a member and users are told and shown   *)
(* their channels, access to a call ends with the right to it, the banner  *)
(* follows the call, and the tables change as the operations of the store  *)
(* change them in single steps.                                            *)
(***************************************************************************)
EXTENDS Calls, FiniteSetTheorems, WellFoundedInduction, TLAPS

Inserting  == {"insert", "inserted"}
Removing   == {"lock", "count", "delete", "removed"}
Locking    == {"count", "delete"}
OnGroup    == Removing \cup {"update", "added"}
OnChannel  == OnGroup \cup {"announce", "add", "members", "mint"}
OnLink     == {"close", "revoke", "mintGuest"}
Walking    == {"members", "channels"}
Telling    == {"added", "removed", "announce"}
Places     == OnChannel \cup Inserting \cup OnLink \cup {"idle", "channels", "listed"}

Request == [at : Places, by : Users \cup {0}, on : ChannelIds \cup Conferences \cup {0}, who : Identities \cup {0},
            row : Store!ChannelRow, cursor : Nat, got : SUBSET Nat, twice : BOOLEAN, stay : SUBSET Nat]
Delivery == [at : {"idle", "read", "announce"}, ch : ChannelIds \cup {0}, active : BOOLEAN,
             label : {"none", "Started", "Updated", "Ended"}, alone : BOOLEAN]

-------------------------------------------------------------------------------
(* Types, and what each request is about.                                  *)

Tables ==
  /\ channels \in [ChannelIds -> Store!ChannelRow]
  /\ members \subseteq ChannelIds \X Users
  /\ conferences \in [Conferences -> Store!ConferenceRow]
  /\ locked \subseteq ChannelIds /\ active \subseteq Users
  /\ budget \in [Operations -> Nat]
  /\ shown \subseteq ChannelIds \X Users /\ raced \subseteq ChannelIds \X Users /\ untold \subseteq ChannelIds \X Users
Media ==
  /\ rooms \subseteq Rooms /\ inRoom \subseteq Rooms \X Identities /\ tickets \subseteq Rooms \X Identities
  /\ ejecting \subseteq Rooms \X Users \X {1, 2}
  /\ sweeping \subseteq Users /\ announced \subseteq ChannelIds /\ pending \subseteq ChannelIds
  /\ hook \in [Hooks -> Delivery]
  /\ banner \subseteq ChannelIds /\ outages \in 0 .. MaxOutages
  /\ kept \subseteq Rooms \X Users /\ muddied \subseteq ChannelIds /\ slipped \subseteq Conferences
Typed == Tables /\ Media /\ req \in [Requests -> Request]

\* The rows that are inserted, for the caller and, in a direct message, a peer.
GroupRow(row, u) == \E slug \in Slugs, e \in BOOLEAN : row = Store!Group(slug, e, u)
DirectRow(row, u, v) == u # v /\ \E e \in BOOLEAN : row = Store!Direct(u, v, e)
SameKey(a, b) == a.slug = b.slug /\ a.pair = b.pair

\* T, F, M, L and X are the channels, the conferences, the memberships, the
\* locks and the memberships that raced.
KnowsRow(r, T, F) ==
  /\ r.at \in Inserting => /\ r.by \in Users
                           /\ \/ r.who = 0 /\ GroupRow(r.row, r.by)
                              \/ r.who \in Users /\ DirectRow(r.row, r.by, r.who)
  /\ r.at \notin Inserting => r.row = NoRow
  /\ r.at = "insert" => r.on = 0
  /\ r.at = "inserted" => r.on \in ChannelIds /\ T[r.on] = NoRow /\ \A c \in ChannelIds : ~SameKey(T[c], r.row)
  /\ r.at \in OnChannel => r.on \in ChannelIds /\ T[r.on] # NoRow /\ r.by \in Users
  /\ r.at \in OnGroup => T[r.on].kind = "group"
  /\ r.at \in Removing \cup {"add", "added"} => r.who \in Users
  /\ r.at = "announce" => r.who \in Users \cup {0}
  /\ r.at = "channels" => r.by \in Users
  /\ r.at \in OnLink => r.on \in Conferences
  /\ r.at \in {"close", "revoke"} => F[r.on].state # "none"
  /\ r.at = "mintGuest" => r.who \in Guests
ApartRows(r, s) == r.at = "inserted" /\ s.at = "inserted" => r.on # s.on /\ ~SameKey(r.row, s.row)

\* A row is of one of three kinds.
Rowed(T) == \A c \in ChannelIds :
  /\ T[c].kind = "none"  => T[c] = NoRow
  /\ T[c].kind = "group" => T[c].slug \in Slugs /\ T[c].pair = {}
  /\ T[c].kind = "dm"    => T[c].slug = NoSlug /\ T[c].pair # {}

Numbered ==
  /\ \A p \in Requests : KnowsRow(req[p], channels, conferences)
  /\ \A p, q \in Requests : p # q => ApartRows(req[p], req[q])
  /\ Rowed(channels)

-------------------------------------------------------------------------------
(* Who is in a channel, who was told so, and what a walk lists.            *)

In(M, c) == {u \in Users : <<c, u>> \in M}
Of(M, u) == {c \in ChannelIds : <<c, u>> \in M}

\* Whoever counted the members has the row's lock until they are deleted.
KnowsLock(r, M, L) ==
  /\ r.at \in Locking => r.on \in L
  /\ r.at = "delete" => In(M, r.on) # {r.who}
ApartLocks(r, s) == r.at \in Locking /\ s.at \in Locking => r.on # s.on
Full(T, M) == \A c \in ChannelIds :
  /\ T[c].kind = "none"  => In(M, c) = {}
  /\ T[c].kind = "group" => In(M, c) # {}
  /\ T[c].kind = "dm"    => In(M, c) = T[c].pair
Peopled ==
  /\ \A p \in Requests : KnowsLock(req[p], members, locked)
  /\ \A p, q \in Requests : p # q => ApartLocks(req[p], req[q])
  /\ Full(channels, members)

\* What was not told yet, somebody is about to tell, and it is true.
KnowsTold(r, M, X) == \A c \in ChannelIds, u \in Users :
  Tells(r, c, u) /\ <<c, u>> \notin X => (<<c, u>> \in M <=> r.at # "removed")
Told ==
  /\ \A p \in Requests : KnowsTold(req[p], members, raced)
  /\ \A c \in ChannelIds, u \in Users : <<c, u>> \notin raced \cup untold =>
       (<<c, u>> \in shown <=> <<c, u>> \in members) \/ \E p \in Requests : Tells(req[p], c, u)

\* What has to be listed was, or is beyond the cursor; what was is not.
Listing(r, M) == IF r.at = "members" THEN In(M, r.on) ELSE Of(M, r.by)
KnowsWalk(r, M) ==
  /\ r.at \in Walking => /\ ~r.twice /\ r.stay \subseteq Listing(r, M)
                         /\ \A x \in r.stay : x \in r.got \/ r.cursor < x
                         /\ \A x \in r.got : x <= r.cursor
  /\ r.at = "listed" => ~r.twice /\ r.stay \subseteq r.got
Walks == \A p \in Requests : KnowsWalk(req[p], members)

-------------------------------------------------------------------------------
(* Calls.                                                                  *)

\* Whoever is in a channel's room may be, or somebody sees to it; K, W, E and R
\* are kept, sweeping, ejecting and the requests.
May(A, M, r, u) == u \in A /\ \E c \in ChannelIds : r = RoomFor(c) /\ <<c, u>> \in M
Removes(q, r, u) == q.at = "removed" /\ RoomFor(q.on) = r /\ q.who = u
Minded(K, W, E, R, r, u) ==
  \/ <<r, u>> \in K \/ u \in W
  \/ \E n \in {1, 2} : <<r, u, n>> \in E
  \/ \E p \in Requests : Removes(R[p], r, u)
Attended ==
  /\ \A t \in inRoom : t[1] \in rooms
  /\ \A r \in ChannelRooms, u \in Users : <<r, u>> \in inRoom =>
       May(active, members, r, u) \/ Minded(kept, sweeping, ejecting, req, r, u)

\* A room that was closed in order to be revoked is gone, unless a join made it
\* again; F, G and S are the conferences, the rooms and slipped.
Shut(F, G, S) == \A k \in Conferences : F[k].state = "revoked" /\ k \notin S => ConferenceRoomFor(k) \notin G
Closed(r, G, S) == r.at = "revoke" /\ r.on \notin S => ConferenceRoomFor(r.on) \notin G
Revoked ==
  /\ Shut(conferences, rooms, slipped)
  /\ \A p \in Requests : Closed(req[p], rooms, slipped)

\* A delivery that was alone has read how things are, unless another report
\* waits, and nobody else changes what was announced; one that was not leaves
\* the channel muddied.  B, A, P, D and I are the banner, announced, pending,
\* muddied and the participants.
Runs(I, c) == \E u \in Users : <<RoomFor(c), u>> \in I
Free(H, c) == \A h \in Hooks : H[h].ch # c
KnowsCall(d, B, A, P, D, I) ==
  /\ d.at = "idle" <=> d.ch = 0
  /\ d.at # "idle" /\ ~d.alone => d.ch \in D
  /\ d.at # "idle" /\ d.alone /\ d.ch \notin P => (d.active <=> Runs(I, d.ch))
  /\ d.at = "read" /\ d.alone /\ d.ch \notin D => (d.ch \in B <=> d.ch \in A)
  /\ d.at = "announce" /\ d.alone =>
       /\ d.active <=> d.ch \in A
       /\ d.label \in {"Started", "Updated"} <=> d.active
       /\ d.label = "none" /\ d.ch \notin D => d.ch \notin B
ApartCalls(d, e) == d.ch = e.ch /\ d.ch # 0 => ~d.alone /\ ~e.alone
Settled(c, B, A, P, I) == (c \in B <=> c \in A) /\ (c \notin P => (c \in B <=> Runs(I, c)))
Bannered ==
  /\ \A h \in Hooks : KnowsCall(hook[h], banner, announced, pending, muddied, inRoom)
  /\ \A g, h \in Hooks : g # h => ApartCalls(hook[g], hook[h])
  /\ \A c \in ChannelIds : Free(hook, c) /\ c \notin muddied => Settled(c, banner, announced, pending, inRoom)

IInv == Typed /\ Numbered /\ Peopled /\ Told /\ Walks /\ Attended /\ Revoked /\ Bannered

-------------------------------------------------------------------------------
(* Constants and rows.                                                     *)

LEMMA Constants ==
  /\ MaxChannels \in Nat \ {0} /\ PageLimit \in Nat \ {0} /\ MaxOutages \in Nat
  /\ ChannelIds = 1 .. MaxChannels /\ 1 \in ChannelIds /\ ChannelIds \subseteq Nat /\ 0 \notin ChannelIds
  /\ Users \subseteq Nat /\ 0 \notin Users /\ Users \subseteq Identities
  /\ \E n \in Nat : Users \subseteq 0 .. n /\ ChannelIds \subseteq 0 .. n
  /\ NoSlug \notin Slugs /\ Slugs # {}
  /\ NoRow = [kind |-> "none", slug |-> NoSlug, pair |-> {}, by |-> 0, e2ee |-> FALSE, topic |-> 0]
  /\ Store!ChannelRow = [kind : {"none", "group", "dm"}, slug : Slugs \cup {NoSlug}, pair : SUBSET Users,
                         by : Users \cup {0}, e2ee : BOOLEAN, topic : {0, 1}]
  /\ Store!ConferenceRow = [state : {"none", "live", "expired", "revoked"}, by : Users \cup {0}]
  /\ Store!NoConference = [state |-> "none", by |-> 0]
  /\ Store!ChannelIds = ChannelIds
<1>1. PICK n, k \in Nat : n = Cardinality(Users) /\ Users = 1 .. n /\ k = MaxChannels /\ k # 0
  BY ChannelsAssumptions
<1>2. PICK m \in Nat : n <= m /\ k <= m
  OBVIOUS
<1>5. Users \subseteq 0 .. m
  <2>1. 1 .. n \subseteq 0 .. m
    BY <1>2
  <2> QED BY <1>1, <2>1
<1>6. ChannelIds \subseteq 0 .. m
  BY <1>1, <1>2 DEF ChannelIds
<1>3. Users \subseteq Nat /\ 0 \notin Users /\ Users \subseteq Identities
  BY <1>1 DEF Identities
<1>4. ChannelIds = 1 .. MaxChannels /\ 1 \in ChannelIds /\ ChannelIds \subseteq Nat /\ 0 \notin ChannelIds /\ Store!ChannelIds = ChannelIds
  BY <1>1 DEF ChannelIds, Store!ChannelIds
<1> QED BY <1>2, <1>3, <1>4, <1>5, <1>6, ChannelsAssumptions, CallsAssumptions
  DEF NoRow, Store!NoRow, Store!Unassigned, Store!ChannelRow, Store!ConferenceRow, Store!NoConference

LEMMA NoRowIs == NoRow \in Store!ChannelRow /\ NoRow.kind = "none" /\ NoRow.slug = NoSlug /\ NoRow.pair = {}
BY Constants

LEMMA GroupIs ==
  ASSUME NEW u \in Users, NEW row, GroupRow(row, u)
  PROVE  row \in Store!ChannelRow /\ row.kind = "group" /\ row.slug \in Slugs /\ row.pair = {} /\ row # NoRow
<1>1. PICK slug \in Slugs, e \in BOOLEAN : row = [kind |-> "group", slug |-> slug, pair |-> {}, by |-> u, e2ee |-> e, topic |-> 0]
  BY DEF GroupRow, Store!Group
<1> QED BY <1>1, Constants, NoRowIs

LEMMA DirectIs ==
  ASSUME NEW u \in Users, NEW v \in Users, NEW row, DirectRow(row, u, v)
  PROVE  row \in Store!ChannelRow /\ row.kind = "dm" /\ row.slug = NoSlug /\ row.pair = {u, v} /\ u # v /\ row # NoRow
<1>1. PICK e \in BOOLEAN : row = [kind |-> "dm", slug |-> NoSlug, pair |-> {u, v}, by |-> u, e2ee |-> e, topic |-> 0]
  BY DEF DirectRow, Store!Direct
<1> QED BY <1>1, Constants, NoRowIs DEF DirectRow

LEMMA IdleIs ==
  /\ Idle \in Request /\ Idle.at = "idle" /\ Idle.by = 0 /\ Idle.on = 0 /\ Idle.who = 0 /\ Idle.row = NoRow
  /\ Idle.cursor = 0 /\ Idle.got = {} /\ Idle.twice = FALSE /\ Idle.stay = {}
BY NoRowIs DEF Idle, Request, Places

LEMMA MembersAre == \A c : Members(c) = In(members, c)
BY DEF Members, Store!Members, In

-------------------------------------------------------------------------------
(* Requests.                                                               *)

Rest(p) == \A q \in Requests \ {p} : req'[q] = req[q]
Alike(s, r) == s.at = r.at /\ s.by = r.by /\ s.on = r.on /\ s.who = r.who /\ s.row = r.row

LEMMA MovedIs ==
  ASSUME Typed, NEW p \in Requests, NEW r \in Request, req' = [req EXCEPT ![p] = r]
  PROVE  req' \in [Requests -> Request] /\ req'[p] = r /\ Rest(p)
BY DEF Typed, Rest

LEMMA DoneIs == ASSUME Typed, NEW p \in Requests, Done(p) PROVE req' \in [Requests -> Request] /\ req'[p] = Idle /\ Rest(p)
BY MovedIs, IdleIs DEF Done

LEMMA GotoIs ==
  ASSUME Typed, NEW p \in Requests, NEW at \in Places, Goto(p, at)
  PROVE  /\ req' \in [Requests -> Request] /\ Rest(p) /\ req'[p].at = at
         /\ req'[p].by = req[p].by /\ req'[p].on = req[p].on /\ req'[p].who = req[p].who /\ req'[p].row = req[p].row
<1>1. PICK r : r = [req[p] EXCEPT !.at = at]
  OBVIOUS
<1>2. req[p] \in Request
  BY DEF Typed
<1>3. r \in Request /\ r.at = at /\ r.by = req[p].by /\ r.on = req[p].on /\ r.who = req[p].who /\ r.row = req[p].row
  BY <1>1, <1>2 DEF Request
<1>4. req' = [req EXCEPT ![p] = r]
  BY <1>1 DEF Goto
<1> QED BY <1>3, <1>4, MovedIs

\* A request that holds nothing and owes nothing.
Plain(r) == r.at \in Places \ (Locking \cup Telling \cup {"inserted", "revoke"})
Only == UNCHANGED <<storeVars, locked, active, shown, raced, untold, callVars>>

Begins(p) ==
  /\ req[p].at = "idle" /\ Rest(p) /\ Only /\ Typed'
  /\ Plain(req'[p]) /\ KnowsRow(req'[p], channels, conferences) /\ KnowsWalk(req'[p], members)

\* A request arrives, with what it knows.
LEMMA ArriveIs ==
  ASSUME Typed, NEW p \in Requests, NEW op \in Operations, NEW r \in Request, req[p].at = "idle",
         req' = [req EXCEPT ![p] = r], budget[op] > 0, budget' = [budget EXCEPT ![op] = @ - 1], Only,
         Plain(r), KnowsRow(r, channels, conferences), KnowsWalk(r, members)
  PROVE  Begins(p)
<1>1. budget' \in [Operations -> Nat]
  BY DEF Typed, Tables
<1>2. req' \in [Requests -> Request] /\ req'[p] = r /\ Rest(p)
  BY MovedIs
<1>3. Typed'
  BY <1>1, <1>2 DEF Typed, Tables, Media, Only, storeVars, callVars
<1> QED BY <1>2, <1>3 DEF Begins

LEMMA CreateChannelIs == ASSUME Typed, NEW p \in Requests, CreateChannel(p), UNCHANGED callVars PROVE Begins(p)
<1>1. PICK u \in Users, slug \in Slugs, e \in BOOLEAN :
        /\ Arrive(p, "CreateChannel", u, [Idle EXCEPT !.at = "insert", !.by = u, !.row = Store!Group(slug, e, u)])
        /\ UNCHANGED <<storeVars, locked, active, shown, raced, untold>>
  BY DEF CreateChannel
<1>2. PICK row : row = Store!Group(slug, e, u)
  OBVIOUS
<1>3. PICK r : r = [Idle EXCEPT !.at = "insert", !.by = u, !.row = row]
  OBVIOUS
<1>4. GroupRow(row, u) /\ row \in Store!ChannelRow
  BY <1>2, GroupIs DEF GroupRow
<1>5. r \in Request /\ r.at = "insert" /\ r.by = u /\ r.on = 0 /\ r.who = 0 /\ r.row = row
  BY <1>3, <1>4, IdleIs DEF Request, Places, Inserting
<1>6. Plain(r) /\ KnowsRow(r, channels, conferences) /\ KnowsWalk(r, members)
  BY <1>4, <1>5 DEF Plain, KnowsRow, KnowsWalk, Places, Inserting, Locking, Telling, OnChannel, OnGroup, OnLink, Removing, Walking
<1> QED BY <1>1, <1>2, <1>3, <1>5, <1>6, ArriveIs DEF Arrive, Operations, Only

LEMMA OpenDirectMessageIs == ASSUME Typed, NEW p \in Requests, OpenDirectMessage(p), UNCHANGED callVars PROVE Begins(p)
<1>1. PICK u \in Users, v \in Users, e \in BOOLEAN :
        /\ u # v
        /\ Arrive(p, "OpenDirectMessage", u, [Idle EXCEPT !.at = "insert", !.by = u, !.who = v, !.row = Store!Direct(u, v, e)])
        /\ UNCHANGED <<storeVars, locked, active, shown, raced, untold>>
  BY DEF OpenDirectMessage
<1>2. PICK row : row = Store!Direct(u, v, e)
  OBVIOUS
<1>3. PICK r : r = [Idle EXCEPT !.at = "insert", !.by = u, !.who = v, !.row = row]
  OBVIOUS
<1>4. DirectRow(row, u, v) /\ row \in Store!ChannelRow
  BY <1>1, <1>2, DirectIs DEF DirectRow
<1>5. r \in Request /\ r.at = "insert" /\ r.by = u /\ r.on = 0 /\ r.who = v /\ r.row = row
  BY <1>3, <1>4, IdleIs DEF Request, Places, Inserting, Identities
<1>6. Plain(r) /\ KnowsRow(r, channels, conferences) /\ KnowsWalk(r, members)
  BY <1>4, <1>5 DEF Plain, KnowsRow, KnowsWalk, Places, Inserting, Locking, Telling, OnChannel, OnGroup, OnLink, Removing, Walking
<1> QED BY <1>1, <1>2, <1>3, <1>5, <1>6, ArriveIs DEF Arrive, Operations, Only

\* A request on a channel, of a member of it.
OnlyOn(r, at, u, c, v) == r \in Request /\ r.at = at /\ r.by = u /\ r.on = c /\ r.who = v /\ r.row = NoRow
LEMMA OnChannelIs ==
  ASSUME Typed, NEW u \in Users, NEW c \in ChannelIds, NEW v \in Users \cup {0}, resolveChannel(c, u),
         NEW at \in {"update", "add", "lock", "mint"}, NEW r, OnlyOn(r, at, u, c, v),
         at \in {"update", "lock"} => channels[c].kind = "group",
         at \in {"add", "lock"} => v \in Users
  PROVE  r \in Request /\ Plain(r) /\ KnowsRow(r, channels, conferences) /\ KnowsWalk(r, members)
<1>1. r \in Request /\ r.at = at /\ r.by = u /\ r.on = c /\ r.who = v /\ r.row = NoRow
  BY DEF OnlyOn
<1>2. Plain(r) /\ KnowsWalk(r, members)
  BY <1>1 DEF Plain, KnowsWalk, Places, Inserting, Locking, Telling, OnChannel, OnGroup, Removing, Walking
<1>3. KnowsRow(r, channels, conferences)
  BY <1>1 DEF resolveChannel, KnowsRow, Inserting, OnChannel, OnGroup, OnLink, Removing
<1> QED BY <1>1, <1>2, <1>3

LEMMA UpdateChannelIs == ASSUME Typed, NEW p \in Requests, UpdateChannel(p), UNCHANGED callVars PROVE Begins(p)
<1>1. PICK u \in Users, c \in ChannelIds :
        /\ resolveChannel(c, u) /\ channels[c].kind = "group"
        /\ Arrive(p, "UpdateChannel", u, [Idle EXCEPT !.at = "update", !.by = u, !.on = c])
        /\ UNCHANGED <<storeVars, locked, active, shown, raced, untold>>
  BY DEF UpdateChannel
<1>2. PICK r : r = [Idle EXCEPT !.at = "update", !.by = u, !.on = c]
  OBVIOUS
<1>3. OnlyOn(r, "update", u, c, 0)
  BY <1>2, IdleIs DEF OnlyOn, Request, Places, OnChannel, OnGroup
<1>4. r \in Request /\ Plain(r) /\ KnowsRow(r, channels, conferences) /\ KnowsWalk(r, members)
  BY <1>1, <1>3, OnChannelIs
<1> QED BY <1>1, <1>2, <1>4, ArriveIs DEF Arrive, Operations, Only

LEMMA AddChannelMemberIs == ASSUME Typed, NEW p \in Requests, AddChannelMember(p), UNCHANGED callVars PROVE Begins(p)
<1>1. PICK u \in Users, v \in Users, c \in ChannelIds :
        /\ resolveChannel(c, u)
        /\ Arrive(p, "AddChannelMember", u, [Idle EXCEPT !.at = "add", !.by = u, !.on = c, !.who = v])
        /\ UNCHANGED <<storeVars, locked, active, shown, raced, untold>>
  BY DEF AddChannelMember
<1>2. PICK r : r = [Idle EXCEPT !.at = "add", !.by = u, !.on = c, !.who = v]
  OBVIOUS
<1>3. OnlyOn(r, "add", u, c, v)
  BY <1>2, IdleIs DEF OnlyOn, Request, Places, OnChannel, Identities
<1>4. r \in Request /\ Plain(r) /\ KnowsRow(r, channels, conferences) /\ KnowsWalk(r, members)
  BY <1>1, <1>3, OnChannelIs
<1> QED BY <1>1, <1>2, <1>4, ArriveIs DEF Arrive, Operations, Only

LEMMA KindIs == ASSUME Typed, NEW c \in ChannelIds PROVE channels[c].kind \in {"none", "group", "dm"}
BY Constants DEF Typed, Tables

LEMMA RemoveChannelMemberIs ==
  ASSUME Typed, Numbered, NEW p \in Requests, RemoveChannelMember(p), UNCHANGED callVars PROVE Begins(p)
<1>1. PICK u \in Users, v \in Users, c \in ChannelIds :
        /\ resolveChannel(c, u) /\ channels[c].kind # "dm"
        /\ Arrive(p, "RemoveChannelMember", u, [Idle EXCEPT !.at = "lock", !.by = u, !.on = c, !.who = v])
        /\ UNCHANGED <<storeVars, locked, active, shown, raced, untold>>
  BY DEF RemoveChannelMember
<1>2. PICK r : r = [Idle EXCEPT !.at = "lock", !.by = u, !.on = c, !.who = v]
  OBVIOUS
<1>3. channels[c].kind = "group"
  BY <1>1, KindIs DEF resolveChannel, Numbered, Rowed
<1>5. OnlyOn(r, "lock", u, c, v)
  BY <1>2, IdleIs DEF OnlyOn, Request, Places, OnChannel, OnGroup, Removing, Identities
<1>4. r \in Request /\ Plain(r) /\ KnowsRow(r, channels, conferences) /\ KnowsWalk(r, members)
  BY <1>1, <1>3, <1>5, OnChannelIs
<1> QED BY <1>1, <1>2, <1>4, ArriveIs DEF Arrive, Operations, Only

LEMMA CreateCallTokenIs == ASSUME Typed, NEW p \in Requests, CreateCallToken(p) PROVE Begins(p)
<1>1. PICK u \in Users, c \in ChannelIds :
        /\ resolveChannel(c, u)
        /\ Arrive(p, "CreateCallToken", u, [Idle EXCEPT !.at = "mint", !.by = u, !.on = c])
        /\ UNCHANGED <<storeVars, locked, active, shown, raced, untold, callVars>>
  BY DEF CreateCallToken
<1>2. PICK r : r = [Idle EXCEPT !.at = "mint", !.by = u, !.on = c]
  OBVIOUS
<1>3. OnlyOn(r, "mint", u, c, 0)
  BY <1>2, IdleIs DEF OnlyOn, Request, Places, OnChannel, OnGroup
<1>4. r \in Request /\ Plain(r) /\ KnowsRow(r, channels, conferences) /\ KnowsWalk(r, members)
  BY <1>1, <1>3, OnChannelIs
<1> QED BY <1>1, <1>2, <1>4, ArriveIs DEF Arrive, Operations, Only

LEMMA ListChannelMembersIs == ASSUME Typed, NEW p \in Requests, ListChannelMembers(p), UNCHANGED callVars PROVE Begins(p)
<1>1. PICK u \in Users, c \in ChannelIds :
        /\ resolveChannel(c, u)
        /\ Arrive(p, "ListChannelMembers", u, [Idle EXCEPT !.at = "members", !.by = u, !.on = c, !.stay = Members(c)])
        /\ UNCHANGED <<storeVars, locked, active, shown, raced, untold>>
  BY DEF ListChannelMembers
<1>2. PICK r : r = [Idle EXCEPT !.at = "members", !.by = u, !.on = c, !.stay = Members(c)]
  OBVIOUS
<1>3. Members(c) = In(members, c) /\ Members(c) \subseteq Users /\ Members(c) \subseteq Nat
  BY MembersAre, Constants DEF In
<1>4. r \in Request /\ r.at = "members" /\ r.by = u /\ r.on = c /\ r.who = 0 /\ r.row = NoRow
  BY <1>2, <1>3, IdleIs DEF Request, Places, OnChannel
<1>5. r.stay = Members(c) /\ ~r.twice /\ r.got = {} /\ r.cursor = 0
  BY <1>2, IdleIs DEF Request
<1>6. \A x \in r.stay : 0 < x
  BY <1>3, <1>5, Constants
<1>7. Plain(r) /\ KnowsRow(r, channels, conferences)
  BY <1>1, <1>4 DEF resolveChannel, Plain, KnowsRow, Places, Inserting, Locking, Telling, OnChannel, OnGroup, OnLink, Removing, Walking
<1>8. KnowsWalk(r, members)
  BY <1>3, <1>4, <1>5, <1>6 DEF KnowsWalk, Walking, Listing
<1> QED BY <1>1, <1>2, <1>4, <1>7, <1>8, ArriveIs DEF Arrive, Operations, Only

LEMMA ListChannelsIs == ASSUME Typed, NEW p \in Requests, ListChannels(p), UNCHANGED callVars PROVE Begins(p)
<1>1. PICK u \in Users :
        /\ Arrive(p, "ListChannels", u, [Idle EXCEPT !.at = "channels", !.by = u, !.stay = ChannelsOf(u)])
        /\ UNCHANGED <<storeVars, locked, active, shown, raced, untold>>
  BY DEF ListChannels
<1>2. PICK r : r = [Idle EXCEPT !.at = "channels", !.by = u, !.stay = ChannelsOf(u)]
  OBVIOUS
<1>3. ChannelsOf(u) = Of(members, u) /\ ChannelsOf(u) \subseteq ChannelIds /\ ChannelsOf(u) \subseteq Nat
  BY Constants DEF ChannelsOf, Of
<1>4. r \in Request /\ r.at = "channels" /\ r.by = u /\ r.on = 0 /\ r.who = 0 /\ r.row = NoRow
  BY <1>2, <1>3, IdleIs DEF Request, Places
<1>5. r.stay = ChannelsOf(u) /\ ~r.twice /\ r.got = {} /\ r.cursor = 0
  BY <1>2, IdleIs DEF Request
<1>6. \A x \in r.stay : 0 < x
  BY <1>3, <1>5, Constants
<1>7. Plain(r) /\ KnowsRow(r, channels, conferences)
  BY <1>1, <1>4 DEF Plain, KnowsRow, Places, Inserting, Locking, Telling, OnChannel, OnGroup, OnLink, Removing, Walking
<1>8. KnowsWalk(r, members)
  BY <1>3, <1>4, <1>5, <1>6 DEF KnowsWalk, Walking, Listing
<1> QED BY <1>1, <1>2, <1>4, <1>7, <1>8, ArriveIs DEF Arrive, Operations, Only

LEMMA RevokeConferenceIs == ASSUME Typed, NEW p \in Requests, RevokeConference(p) PROVE Begins(p)
<1>1. PICK u \in Users, k \in Conferences :
        /\ conferences[k].state \in {"live", "expired"}
        /\ Arrive(p, "RevokeConference", u, [Idle EXCEPT !.at = "close", !.by = u, !.on = k])
        /\ UNCHANGED <<storeVars, locked, active, shown, raced, untold, callVars>>
  BY DEF RevokeConference
<1>2. PICK r : r = [Idle EXCEPT !.at = "close", !.by = u, !.on = k]
  OBVIOUS
<1>3. r \in Request /\ r.at = "close" /\ r.by = u /\ r.on = k /\ r.who = 0 /\ r.row = NoRow
  BY <1>2, IdleIs DEF Request, Places, OnLink
<1>4. Plain(r) /\ KnowsRow(r, channels, conferences) /\ KnowsWalk(r, members)
  BY <1>1, <1>3 DEF Plain, KnowsRow, KnowsWalk, Places, Inserting, Locking, Telling, OnChannel, OnGroup, OnLink, Removing, Walking
<1> QED BY <1>1, <1>2, <1>3, <1>4, ArriveIs DEF Arrive, Operations, Only

LEMMA JoinConferenceIs == ASSUME Typed, NEW p \in Requests, JoinConference(p) PROVE Begins(p)
<1>1. PICK k \in Conferences, g \in Guests :
        /\ req[p].at = "idle" /\ budget["JoinConference"] > 0
        /\ req' = [req EXCEPT ![p] = [Idle EXCEPT !.at = "mintGuest", !.on = k, !.who = g]]
        /\ budget' = [budget EXCEPT !["JoinConference"] = @ - 1]
        /\ UNCHANGED <<storeVars, locked, active, shown, raced, untold, callVars>>
  BY DEF JoinConference
<1>2. PICK r : r = [Idle EXCEPT !.at = "mintGuest", !.on = k, !.who = g]
  OBVIOUS
<1>3. r \in Request /\ r.at = "mintGuest" /\ r.on = k /\ r.who = g /\ r.row = NoRow
  BY <1>2, IdleIs DEF Request, Places, OnLink, Identities
<1>4. Plain(r) /\ KnowsRow(r, channels, conferences) /\ KnowsWalk(r, members)
  BY <1>3 DEF Plain, KnowsRow, KnowsWalk, Places, Inserting, Locking, Telling, OnChannel, OnGroup, OnLink, Removing, Walking
<1> QED BY <1>1, <1>2, <1>3, <1>4, ArriveIs DEF Operations, Only

-------------------------------------------------------------------------------
(* A step of one request, for what the requests know of the tables.        *)

Others(p) == Requests \ {p}
RestAlike(p) == \A q \in Others(p) : Alike(req'[q], req[q])
Stores == Numbered /\ Peopled /\ Told /\ Walks
Still == UNCHANGED <<channels, members, conferences, locked, shown, raced, untold>>

LEMMA RestIsAlike == ASSUME NEW p, Rest(p) PROVE RestAlike(p)
BY DEF Rest, RestAlike, Alike, Others

LEMMA AlikeKnows ==
  ASSUME NEW s, NEW r, Alike(s, r), NEW T, NEW F, NEW M, NEW L, NEW X
  PROVE  /\ KnowsRow(r, T, F) => KnowsRow(s, T, F)
         /\ KnowsLock(r, M, L) => KnowsLock(s, M, L)
         /\ KnowsTold(r, M, X) => KnowsTold(s, M, X)
         /\ \A c, u : Tells(s, c, u) <=> Tells(r, c, u)
         /\ \A t : ApartRows(t, s) <=> ApartRows(t, r)
         /\ \A t : ApartLocks(t, s) <=> ApartLocks(t, r)
<1> USE DEF Alike
<1>1. KnowsRow(r, T, F) => KnowsRow(s, T, F)
  BY DEF KnowsRow
<1>2. KnowsLock(r, M, L) => KnowsLock(s, M, L)
  BY DEF KnowsLock
<1>3. \A c, u : Tells(s, c, u) <=> Tells(r, c, u)
  BY DEF Tells
<1>4. KnowsTold(r, M, X) => KnowsTold(s, M, X)
  BY <1>3 DEF KnowsTold
<1>5. \A t : (ApartRows(t, s) <=> ApartRows(t, r)) /\ (ApartLocks(t, s) <=> ApartLocks(t, r))
  BY DEF ApartRows, ApartLocks
<1> QED BY <1>1, <1>2, <1>3, <1>4, <1>5

LEMMA ApartIsMutual == \A r, s : (ApartRows(r, s) <=> ApartRows(s, r)) /\ (ApartLocks(r, s) <=> ApartLocks(s, r))
BY DEF ApartRows, ApartLocks, SameKey

LEMMA NumberedStep ==
  ASSUME Numbered, NEW p \in Requests, RestAlike(p), Rowed(channels'),
         \A q \in Others(p) : KnowsRow(req[q], channels', conferences') /\ ApartRows(req'[p], req[q]),
         KnowsRow(req'[p], channels', conferences')
  PROVE  Numbered'
<1>1. \A q \in Requests : KnowsRow(req'[q], channels', conferences')
  BY AlikeKnows DEF RestAlike, Others
<1>2. ASSUME NEW q \in Requests, NEW s \in Requests, q # s PROVE ApartRows(req'[q], req'[s])
  <2>1. CASE q = p
    BY <1>2, <2>1, AlikeKnows DEF RestAlike, Others
  <2>2. CASE s = p
    BY <1>2, <2>2, AlikeKnows, ApartIsMutual DEF RestAlike, Others
  <2>3. CASE q # p /\ s # p
    <3>1. ApartRows(req[q], req[s])
      BY <1>2 DEF Numbered
    <3>2. Alike(req'[q], req[q]) /\ Alike(req'[s], req[s])
      BY <2>3 DEF RestAlike, Others
    <3>3. ApartRows(req[q], req'[s])
      BY <3>1, <3>2, AlikeKnows
    <3> QED BY <3>2, <3>3, AlikeKnows, ApartIsMutual
  <2> QED BY <2>1, <2>2, <2>3
<1> QED BY <1>1, <1>2 DEF Numbered

LEMMA PeopledStep ==
  ASSUME Peopled, NEW p \in Requests, RestAlike(p), Full(channels', members'),
         \A q \in Others(p) : KnowsLock(req[q], members', locked') /\ ApartLocks(req'[p], req[q]),
         KnowsLock(req'[p], members', locked')
  PROVE  Peopled'
<1>1. \A q \in Requests : KnowsLock(req'[q], members', locked')
  BY AlikeKnows DEF RestAlike, Others
<1>2. ASSUME NEW q \in Requests, NEW s \in Requests, q # s PROVE ApartLocks(req'[q], req'[s])
  <2>1. CASE q = p
    BY <1>2, <2>1, AlikeKnows DEF RestAlike, Others
  <2>2. CASE s = p
    BY <1>2, <2>2, AlikeKnows, ApartIsMutual DEF RestAlike, Others
  <2>3. CASE q # p /\ s # p
    <3>1. ApartLocks(req[q], req[s])
      BY <1>2 DEF Peopled
    <3>2. Alike(req'[q], req[q]) /\ Alike(req'[s], req[s])
      BY <2>3 DEF RestAlike, Others
    <3>3. ApartLocks(req[q], req'[s])
      BY <3>1, <3>2, AlikeKnows
    <3> QED BY <3>2, <3>3, AlikeKnows, ApartIsMutual
  <2> QED BY <2>1, <2>2, <2>3
<1> QED BY <1>1, <1>2 DEF Peopled

\* Somebody but p tells u about c.
TellsOther(p, c, u) == \E q \in Others(p) : Tells(req[q], c, u)

LEMMA ToldStep ==
  ASSUME NEW p \in Requests, RestAlike(p),
         \A q \in Others(p) : KnowsTold(req[q], members', raced'),
         KnowsTold(req'[p], members', raced'),
         \A c \in ChannelIds, u \in Users : <<c, u>> \notin raced' \cup untold' =>
           \/ <<c, u>> \in shown' <=> <<c, u>> \in members'
           \/ TellsOther(p, c, u) \/ Tells(req'[p], c, u)
  PROVE  Told'
<1>1. \A q \in Requests : KnowsTold(req'[q], members', raced')
  BY AlikeKnows DEF RestAlike, Others
<1>2. \A c, u : TellsOther(p, c, u) => \E q \in Requests : Tells(req'[q], c, u)
  BY AlikeKnows DEF TellsOther, RestAlike, Others
<1>3. ASSUME NEW c \in ChannelIds, NEW u \in Users, <<c, u>> \notin raced' \cup untold'
      PROVE  (<<c, u>> \in shown' <=> <<c, u>> \in members') \/ \E q \in Requests : Tells(req'[q], c, u)
  BY <1>2, <1>3
<1> QED BY <1>1, <1>3 DEF Told

LEMMA ToldIs ==
  ASSUME Told, NEW p \in Requests, NEW c \in ChannelIds, NEW u \in Users, <<c, u>> \notin raced \cup untold
  PROVE  \/ <<c, u>> \in shown <=> <<c, u>> \in members
         \/ TellsOther(p, c, u) \/ Tells(req[p], c, u)
BY DEF Told, TellsOther, Others

LEMMA WalksStep ==
  ASSUME Walks, NEW p \in Requests, Rest(p), members' = members, KnowsWalk(req'[p], members) PROVE Walks'
BY DEF Walks, Rest, Others

LEMMA PlainStep ==
  ASSUME Stores, NEW p \in Requests, Rest(p), Still, req[p].at \notin Telling,
         Plain(req'[p]), KnowsRow(req'[p], channels, conferences), KnowsWalk(req'[p], members)
  PROVE  Stores'
<1>1. RestAlike(p)
  BY RestIsAlike
<1>2. req'[p].at \notin Locking /\ req'[p].at \notin Telling /\ req'[p].at # "inserted"
  BY DEF Plain
<1>3. Numbered'
  <2>1. \A q \in Others(p) : KnowsRow(req[q], channels, conferences) /\ ApartRows(req'[p], req[q])
    BY <1>2 DEF Stores, Numbered, ApartRows, Others
  <2> QED BY <1>1, <2>1, NumberedStep DEF Stores, Numbered, Still
<1>4. Peopled'
  <2>1. \A q \in Others(p) : KnowsLock(req[q], members, locked) /\ ApartLocks(req'[p], req[q])
    BY <1>2 DEF Stores, Peopled, ApartLocks, Others
  <2>2. KnowsLock(req'[p], members, locked)
    BY <1>2 DEF KnowsLock, Locking
  <2> QED BY <1>1, <2>1, <2>2, PeopledStep DEF Stores, Peopled, Still
<1>5. Told'
  <2>1. \A c, u : ~Tells(req[p], c, u) /\ ~Tells(req'[p], c, u)
    BY <1>2 DEF Tells, Telling
  <2>2. KnowsTold(req'[p], members, raced) /\ \A q \in Others(p) : KnowsTold(req[q], members, raced)
    BY <2>1 DEF Stores, Told, KnowsTold, Others
  <2> QED BY <1>1, <2>1, <2>2, ToldStep, ToldIs DEF Stores, Still
<1>6. Walks'
  BY WalksStep DEF Stores, Still
<1> QED BY <1>3, <1>4, <1>5, <1>6 DEF Stores

LEMMA IdleKnows == Plain(Idle) /\ KnowsRow(Idle, channels, conferences) /\ KnowsWalk(Idle, members)
BY IdleIs DEF Plain, KnowsRow, KnowsWalk, Places, Inserting, Locking, Telling, OnChannel, OnGroup, OnLink, Removing, Walking

LEMMA BeginStores == ASSUME Stores, NEW p \in Requests, Begins(p) PROVE Stores'
BY PlainStep DEF Begins, Only, Still, storeVars, Telling

LEMMA DoneStores ==
  ASSUME Stores, Typed, NEW p \in Requests, Done(p), Still, req[p].at \notin Telling PROVE Stores' /\ req' \in [Requests -> Request]
BY PlainStep, IdleKnows, DoneIs

-------------------------------------------------------------------------------
(* Pages.                                                                  *)

\* A set of numbers that is not empty has a least one.
LEMMA SmallestOf ==
  ASSUME NEW S, S \subseteq Nat, S # {}
  PROVE  \E x \in S : \A y \in S : x <= y
<1> DEFINE R == {ss \in Nat \X Nat : ss[1] < ss[2]}
<1>1. IsWellFoundedOn(R, Nat)
  BY NatLessThanWellFounded DEF OpToRel
<1> HIDE DEF R
<1>2. PICK x \in S : \A y \in S : ~(<<y, x>> \in R)
  BY <1>1, WFMin
<1>3. ASSUME NEW y \in S PROVE x <= y
  <2>1. x \in Nat /\ y \in Nat /\ ~(<<y, x>> \in R)
    BY <1>2
  <2> QED BY <2>1 DEF R
<1> QED BY <1>3

\* A set of numbers that has a bound and is not empty has a greatest one.
LEMMA LargestOf ==
  ASSUME NEW n \in Nat, NEW S, S \subseteq 0 .. n, S # {}
  PROVE  \E x \in S : \A y \in S : y <= x
<1> DEFINE T == {m \in 0 .. n : n - m \in S}
<1>1. T \subseteq Nat /\ T # {}
  <2>1. PICK x \in S : TRUE
    OBVIOUS
  <2>2. x \in 0 .. n
    BY <2>1
  <2>3. n - x \in 0 .. n /\ n - (n - x) = x
    BY <2>2
  <2>4. n - x \in T
    BY <2>1, <2>3
  <2> HIDE DEF T
  <2>5. T \subseteq Nat
    BY DEF T
  <2> QED BY <2>4, <2>5
<1>2. PICK m \in T : \A l \in T : m <= l
  BY <1>1, SmallestOf
<1>3. ASSUME NEW y \in S PROVE y <= n - m
  <2>1. y \in 0 .. n /\ n - y \in 0 .. n /\ n - (n - y) = y
    OBVIOUS
  <2>2. n - y \in T
    BY <2>1
  <2>3. m <= n - y
    BY <1>2, <2>2
  <2> QED BY <2>1, <2>3
<1>4. n - m \in S
  BY <1>2
<1> QED BY <1>3, <1>4

LEMMA LastIs ==
  ASSUME NEW n \in Nat, NEW S, S \subseteq 0 .. n, S # {}
  PROVE  Last(S) \in S /\ \A y \in S : y <= Last(S)
BY LargestOf DEF Last

\* The first rows of a list: a part of it without a hole, some if there are
\* some, and all if they are fewer than were asked for.
Start(P, S, m) ==
  /\ P \subseteq S
  /\ m # 0 /\ S # {} => P # {}
  /\ \A x \in P, y \in S : y <= x => y \in P
  /\ Cardinality(P) < m => P = S
  /\ Cardinality(S) \in Nat
  /\ Cardinality(S) <= m => P = S

LEMMA PartsAreFinite ==
  ASSUME NEW n \in Nat, NEW S, S \subseteq 0 .. n
  PROVE  \A T \in SUBSET S : IsFiniteSet(T) /\ Cardinality(T) \in Nat
<1> SUFFICES ASSUME NEW T \in SUBSET S PROVE IsFiniteSet(T) /\ Cardinality(T) \in Nat
  OBVIOUS
<1>1. IsFiniteSet(0 .. n)
  BY FS_Interval
<1>2. T \in SUBSET (0 .. n)
  OBVIOUS
<1>3. IsFiniteSet(T)
  BY <1>1, <1>2, FS_Subset
<1> QED BY <1>3, FS_CardinalityType

LEMMA BeforeIs ==
  ASSUME NEW n \in Nat, NEW S, S \subseteq 0 .. n, NEW m \in Nat
  PROVE  Start(Before(S, m), S, m)
<1> DEFINE Below(x) == {y \in S : y < x}
           P == Before(S, m)
<1>0. S \subseteq Nat /\ \A x \in S : x \in Int
  OBVIOUS
<1>1. \A T \in SUBSET S : IsFiniteSet(T) /\ Cardinality(T) \in Nat
  BY PartsAreFinite
<1>2. \A x \in S : Cardinality(Below(x)) \in Nat
  BY <1>1
<1>d. P = {x \in S : Cardinality(Below(x)) < m}
  BY DEF Before
<1> HIDE DEF P
<1>3. P \subseteq S
  BY <1>d
<1>4. ASSUME m # 0, S # {} PROVE P # {}
  <2>1. PICK x \in S : \A y \in S : x <= y
    BY <1>0, <1>4, SmallestOf
  <2>2. ASSUME NEW y \in S PROVE ~(y < x)
    <3>1. x \in Int /\ y \in Int /\ x <= y
      BY <1>0, <2>1
    <3> QED BY <3>1
  <2>3. Below(x) = {}
    BY <2>2
  <2>4. Cardinality(Below(x)) = 0
    BY <2>3, FS_EmptySet
  <2> QED BY <1>4, <1>d, <2>4
<1>5. ASSUME NEW x \in P, NEW y \in S, y <= x PROVE y \in P
  <2>1. ASSUME NEW z \in S, z < y PROVE z < x
    <3>1. x \in Int /\ y \in Int /\ z \in Int
      BY <1>0, <1>3
    <3> QED BY <1>5, <2>1, <3>1
  <2>2. Below(y) \subseteq Below(x)
    BY <2>1
  <2>3. Cardinality(Below(y)) <= Cardinality(Below(x))
    BY <1>1, <2>2, FS_Subset
  <2>4. Cardinality(Below(x)) < m
    BY <1>d
  <2> QED BY <1>2, <1>3, <1>d, <2>3, <2>4
<1>6. ASSUME Cardinality(P) < m PROVE P = S
  <2>1. SUFFICES ASSUME S \ P # {} PROVE FALSE
    BY <1>3
  <2>2. PICK x \in S \ P : \A y \in S \ P : x <= y
    BY <1>0, <2>1, SmallestOf
  <2>3. ASSUME NEW y \in S, y < x PROVE y \in P
    <3>1. x \in Int /\ y \in Int /\ ~(x <= y)
      BY <1>0, <2>2, <2>3
    <3> QED BY <2>2, <3>1
  <2>4. Below(x) \subseteq P
    BY <2>3
  <2>5. Cardinality(Below(x)) <= Cardinality(P)
    BY <1>1, <1>3, <2>4, FS_Subset
  <2>6. Cardinality(Below(x)) < m
    BY <1>1, <1>2, <1>3, <1>6, <2>5
  <2> QED BY <1>d, <2>2, <2>6
<1>7. ASSUME Cardinality(S) <= m, NEW x \in S PROVE x \in P
  <2>1. Below(x) \in SUBSET S /\ Below(x) # S
    OBVIOUS
  <2>2. Cardinality(Below(x)) <= Cardinality(S) /\ Cardinality(Below(x)) # Cardinality(S)
    BY <1>1, <2>1, FS_Subset
  <2>3. Cardinality(Below(x)) < m
    BY <1>1, <1>2, <1>7, <2>2
  <2> QED BY <1>d, <2>3
<1>8. Cardinality(S) \in Nat /\ (Cardinality(S) <= m => P = S)
  BY <1>1, <1>3, <1>7
<1> QED BY <1>3, <1>4, <1>5, <1>6, <1>8 DEF Start, P

\* One page of a walk, the rows up to the next cursor or all that are left.
Turned(s, r, left, more, page) ==
  /\ page \subseteq left /\ (~more => page = left)
  /\ s.got = r.got \cup page /\ s.twice = (r.twice \/ page \cap r.got # {})
  /\ s.at = (IF more THEN r.at ELSE "listed") /\ s.stay = r.stay
  /\ s.by = r.by /\ s.on = r.on /\ s.who = r.who /\ s.row = r.row

Listed(r, page, more, c) ==
  [r EXCEPT !.got = @ \cup page, !.twice = @ \/ page \cap r.got # {}, !.cursor = c, !.at = IF more THEN @ ELSE "listed"]
APage(r, left, page, more, c) ==
  /\ r \in Request /\ r.at \in Walking /\ page \subseteq left /\ left \subseteq Nat /\ c \in Nat
  /\ more \in BOOLEAN /\ (~more => page = left)

LEMMA ListedIs ==
  ASSUME NEW r, NEW left, NEW page, NEW more, NEW c, APage(r, left, page, more, c)
  PROVE  Listed(r, page, more, c) \in Request /\ Turned(Listed(r, page, more, c), r, left, more, page) /\ Listed(r, page, more, c).cursor = c
<1>0. /\ r \in Request /\ r.at \in Walking /\ page \subseteq left /\ left \subseteq Nat /\ c \in Nat /\ more \in BOOLEAN
      /\ (~more => page = left)
  BY DEF APage
<1>1. PICK t : t = (r.twice \/ page \cap r.got # {})
  OBVIOUS
<1>2. t \in BOOLEAN
  <2>1. r.twice \in BOOLEAN
    BY <1>0 DEF Request
  <2>2. (page \cap r.got # {}) \in BOOLEAN
    OBVIOUS
  <2> QED BY <1>1, <2>1, <2>2
<1>3. PICK g : g = r.got \cup page
  OBVIOUS
<1>4. g \subseteq Nat
  BY <1>0, <1>3 DEF Request
<1>9. PICK p : p = IF more THEN r.at ELSE "listed"
  OBVIOUS
<1>10. p \in Places
  <2>1. r.at \in Places /\ "listed" \in Places
    BY <1>0 DEF Request, Places
  <2> QED BY <1>9, <2>1
<1>5. PICK s : s = [r EXCEPT !.got = g, !.twice = t, !.cursor = c, !.at = p]
  OBVIOUS
<1>6. Listed(r, page, more, c) = s
  BY <1>1, <1>3, <1>5, <1>9 DEF Listed
<1>11. s.got = g /\ s.twice = t /\ s.cursor = c /\ s.at = p /\ s.stay = r.stay
  BY <1>0, <1>5 DEF Request
<1>12. s \in Request
  BY <1>0, <1>2, <1>4, <1>5, <1>10 DEF Request
<1>7. s \in Request /\ s.got = g /\ s.twice = t /\ s.cursor = c /\ s.at = (IF more THEN r.at ELSE "listed") /\ s.stay = r.stay
  BY <1>9, <1>11, <1>12
<1>8. /\ s.by = r.by /\ s.on = r.on /\ s.who = r.who /\ s.row = r.row
  BY <1>0, <1>5 DEF Request
<1> QED BY <1>0, <1>1, <1>3, <1>6, <1>7, <1>8 DEF Turned

WentOn(s, r, S) == \E more \in BOOLEAN, page \in SUBSET S :
  /\ Turned(s, r, {x \in S : x > r.cursor}, more, page)
  /\ more => /\ r.cursor < s.cursor /\ \A x \in page : x <= s.cursor
             /\ \A x \in S : x > r.cursor /\ x <= s.cursor => x \in page
  /\ ~more => s.cursor = r.cursor

LEMMA AfterIs ==
  ASSUME NEW r \in Request, r.at \in Walking, NEW n \in Nat, NEW S, S \subseteq 0 .. n
  PROVE  /\ AfterPage(r, S) \in Request
         /\ WentOn(AfterPage(r, S), r, S)
<1> DEFINE left == {x \in S : x > r.cursor}
           rows == Before(left, PageLimit + 1)
           page == Before(rows, PageLimit)
           more == Cardinality(rows) > PageLimit
           c == IF more THEN Last(page) ELSE r.cursor
<1>1. r.cursor \in Nat /\ left \subseteq 0 .. n /\ left \subseteq S /\ PageLimit \in Nat /\ PageLimit + 1 \in Nat /\ PageLimit # 0
  <2>1. r.cursor \in Nat
    BY DEF Request
  <2>2. PageLimit \in Nat /\ PageLimit + 1 \in Nat /\ PageLimit # 0
    BY Constants
  <2>3. left \subseteq S
    OBVIOUS
  <2> HIDE DEF left
  <2> QED BY <2>1, <2>2, <2>3
<1>l. \A x \in left : x > r.cursor
  OBVIOUS
<1>m. \A x \in S : x > r.cursor => x \in left
  OBVIOUS
<1> HIDE DEF left
<1>2. Start(rows, left, PageLimit + 1)
  BY <1>1, BeforeIs
<1>3. rows \subseteq left /\ rows \subseteq 0 .. n
  BY <1>1, <1>2 DEF Start
<1> HIDE DEF rows
<1>4. Start(page, rows, PageLimit)
  BY <1>1, <1>3, BeforeIs
<1>5. page \subseteq rows /\ page \subseteq left /\ page \subseteq Nat /\ page \subseteq 0 .. n
  <2>1. page \subseteq rows
    BY <1>4 DEF Start
  <2> HIDE DEF page
  <2> QED BY <1>3, <2>1
<1> HIDE DEF page
<1>6. Cardinality(rows) \in Nat
  BY <1>4 DEF Start
<1>7. more \in BOOLEAN
  OBVIOUS
<1>8. more => page # {}
  <2>1. rows = {} => Cardinality(rows) = 0
    BY FS_EmptySet
  <2>2. more => rows # {}
    BY <1>1, <2>1
  <2> QED BY <1>1, <1>4, <2>2 DEF Start
<1>9. ~more => page = left
  <2>1. ~more => Cardinality(rows) <= PageLimit /\ Cardinality(rows) < PageLimit + 1
    BY <1>1, <1>6
  <2> QED BY <1>2, <1>4, <2>1 DEF Start
<1>10. more => Last(page) \in page /\ \A y \in page : y <= Last(page)
  BY <1>5, <1>8, LastIs
<1>11. ASSUME more, NEW x \in S, x > r.cursor, x <= Last(page) PROVE x \in page
  <2>1. x \in left /\ Last(page) \in rows
    BY <1>5, <1>10, <1>11, <1>m
  <2>2. x \in rows
    BY <1>2, <1>11, <2>1 DEF Start
  <2> QED BY <1>4, <1>10, <1>11, <2>2 DEF Start
<1>12. c \in Nat /\ (more => c = Last(page) /\ r.cursor < c) /\ (~more => c = r.cursor)
  BY <1>1, <1>5, <1>10, <1>l
<1>13. AfterPage(r, S) = Listed(r, page, more, c)
  BY DEF AfterPage, Rows, Listed, page, rows, left
<1> HIDE DEF more, c
<1>14. left \subseteq Nat
  BY <1>1
<1>15. /\ Listed(r, page, more, c) \in Request /\ Turned(Listed(r, page, more, c), r, left, more, page)
       /\ Listed(r, page, more, c).cursor = c
  <2>1. APage(r, left, page, more, c)
    BY <1>5, <1>7, <1>9, <1>12, <1>14 DEF APage
  <2> QED BY <2>1, ListedIs
<1>16. page \in SUBSET S
  BY <1>1, <1>5
<1>17. more => \A x \in page : x <= c
  BY <1>10, <1>12
<1>18. more => \A x \in S : x > r.cursor /\ x <= c => x \in page
  BY <1>11, <1>12
<1> QED BY <1>7, <1>12, <1>13, <1>15, <1>16, <1>17, <1>18 DEF left, WentOn

\* A page leaves what has to be listed to be listed, and lists nothing twice.
LEMMA PageKnows ==
  ASSUME NEW r \in Request, r.at \in Walking, NEW n \in Nat, NEW S, S \subseteq 0 .. n, NEW T, NEW F, NEW M,
         S = Listing(r, M), KnowsRow(r, T, F), KnowsWalk(r, M)
  PROVE  LET s == AfterPage(r, S) IN s \in Request /\ Plain(s) /\ KnowsRow(s, T, F) /\ KnowsWalk(s, M)
<1>1. PICK s : s = AfterPage(r, S)
  OBVIOUS
<1>2. s \in Request /\ WentOn(s, r, S)
  BY <1>1, AfterIs
<1>3. PICK more \in BOOLEAN, page \in SUBSET S :
        /\ Turned(s, r, {x \in S : x > r.cursor}, more, page)
        /\ more => /\ r.cursor < s.cursor /\ \A x \in page : x <= s.cursor
                   /\ \A x \in S : x > r.cursor /\ x <= s.cursor => x \in page
        /\ ~more => s.cursor = r.cursor
  BY <1>2 DEF WentOn
<1>4. /\ page \subseteq {x \in S : x > r.cursor} /\ (~more => page = {x \in S : x > r.cursor})
      /\ s.got = r.got \cup page /\ s.twice = (r.twice \/ page \cap r.got # {})
      /\ s.at = (IF more THEN r.at ELSE "listed") /\ s.stay = r.stay
      /\ s.by = r.by /\ s.on = r.on /\ s.who = r.who /\ s.row = r.row
  BY <1>3 DEF Turned
<1>5. r.cursor \in Nat /\ s.cursor \in Nat /\ r.got \subseteq Nat /\ r.stay \subseteq Nat /\ S \subseteq Nat
  BY <1>2 DEF Request
<1>6. ~r.twice /\ r.stay \subseteq S /\ (\A x \in r.stay : x \in r.got \/ r.cursor < x) /\ (\A x \in r.got : x <= r.cursor)
  BY DEF KnowsWalk
<1>7. page \cap r.got = {}
  <2> SUFFICES ASSUME NEW x \in page, x \in r.got PROVE FALSE
    OBVIOUS
  <2>1. x \in Nat /\ x > r.cursor /\ x <= r.cursor
    BY <1>4, <1>5, <1>6
  <2> QED BY <1>5, <2>1
<1>8. ~s.twice
  BY <1>4, <1>6, <1>7
<1>9. CASE more
  <2>1. s.at = r.at /\ Listing(s, M) = S
    BY <1>4, <1>9 DEF Listing
  <2>2. ASSUME NEW x \in s.stay PROVE x \in s.got \/ s.cursor < x
    <3>1. x \in S /\ x \in Nat /\ (x \in r.got \/ x > r.cursor)
      BY <1>4, <1>5, <1>6
    <3>2. x <= s.cursor \/ s.cursor < x
      BY <1>5, <3>1
    <3> QED BY <1>3, <1>4, <1>9, <3>1, <3>2
  <2>3. ASSUME NEW x \in s.got PROVE x <= s.cursor
    <3>1. CASE x \in r.got
      <4>1. x \in Nat /\ x <= r.cursor /\ r.cursor < s.cursor
        BY <1>3, <1>5, <1>6, <1>9, <3>1
      <4> QED BY <1>5, <4>1
    <3>2. CASE x \in page
      BY <1>3, <1>9, <3>2
    <3> QED BY <1>4, <3>1, <3>2
  <2>4. KnowsWalk(s, M)
    <3>1. s.stay \subseteq Listing(s, M) /\ s.at # "listed"
      BY <1>4, <1>6, <2>1 DEF Walking
    <3> QED BY <1>8, <2>2, <2>3, <3>1 DEF KnowsWalk
  <2>5. KnowsRow(s, T, F)
    BY <1>4, <2>1 DEF KnowsRow
  <2>6. Plain(s)
    BY <2>1 DEF Plain, Walking, Places, OnChannel, Locking, Telling
  <2> QED BY <1>1, <1>2, <2>4, <2>5, <2>6
<1>10. CASE ~more
  <2>1. s.at = "listed" /\ s.row = NoRow
    BY <1>4, <1>10 DEF KnowsRow, Inserting, Walking
  <2>2. s.stay \subseteq s.got
    BY <1>4, <1>6, <1>10
  <2>3. KnowsWalk(s, M)
    BY <1>8, <2>1, <2>2 DEF KnowsWalk, Walking
  <2>4. KnowsRow(s, T, F)
    BY <2>1 DEF KnowsRow, Inserting, OnChannel, OnGroup, OnLink, Removing
  <2>5. Plain(s)
    BY <2>1 DEF Plain, Places, Locking, Telling
  <2> QED BY <1>1, <1>2, <2>3, <2>4, <2>5
<1> QED BY <1>9, <1>10

-------------------------------------------------------------------------------
(* The steps of a request on channels.                                     *)

LEMMA TypedStep ==
  ASSUME Typed, req' \in [Requests -> Request], UNCHANGED callVars, UNCHANGED <<conferences, active, budget>>,
         channels' \in [ChannelIds -> Store!ChannelRow], members' \subseteq ChannelIds \X Users, locked' \subseteq ChannelIds,
         shown' \subseteq ChannelIds \X Users, raced' \subseteq ChannelIds \X Users, untold' \subseteq ChannelIds \X Users
  PROVE  Typed'
BY DEF Typed, Tables, Media, callVars

LEMMA StillTyped ==
  ASSUME Typed, req' \in [Requests -> Request], UNCHANGED callVars, UNCHANGED <<active, budget>>, Still PROVE Typed'
BY TypedStep DEF Typed, Tables, Still

Good == Typed /\ Stores

LEMMA KnowsOf ==
  ASSUME Good, NEW p \in Requests
  PROVE  /\ req[p] \in Request /\ KnowsRow(req[p], channels, conferences) /\ KnowsLock(req[p], members, locked)
         /\ KnowsTold(req[p], members, raced) /\ KnowsWalk(req[p], members)
BY DEF Good, Typed, Stores, Numbered, Peopled, Told, Walks

LEMMA PageSteps == ASSUME Good, NEW p \in Requests, MembersPage(p) \/ ChannelsPage(p), UNCHANGED callVars PROVE Good'
<1>1. Still /\ UNCHANGED <<active, budget>> /\ req[p].at \in Walking
  BY DEF MembersPage, ChannelsPage, Still, storeVars, Walking
<1>2. Done(p) \/ req' = [req EXCEPT ![p] = AfterPage(req[p], Listing(req[p], members))]
  <2>1. CASE MembersPage(p)
    BY <2>1, MembersAre DEF MembersPage, Listing
  <2>2. CASE ChannelsPage(p)
    BY <2>2 DEF ChannelsPage, Listing, ChannelsOf, Of
  <2> QED BY <2>1, <2>2
<1>3. CASE Done(p)
  BY <1>1, <1>3, DoneStores, StillTyped DEF Good, Walking, Telling
<1>4. CASE req' = [req EXCEPT ![p] = AfterPage(req[p], Listing(req[p], members))]
  <2>1. PICK n \in Nat : Users \subseteq 0 .. n /\ ChannelIds \subseteq 0 .. n
    BY Constants
  <2>2. Listing(req[p], members) \subseteq 0 .. n
    BY <2>1 DEF Listing, In, Of
  <2>3. PICK S : S = Listing(req[p], members)
    OBVIOUS
  <2>4. PICK s : s = AfterPage(req[p], S)
    OBVIOUS
  <2>5. s \in Request /\ Plain(s) /\ KnowsRow(s, channels, conferences) /\ KnowsWalk(s, members)
    BY <1>1, <2>2, <2>3, <2>4, KnowsOf, PageKnows
  <2>6. req' \in [Requests -> Request] /\ req'[p] = s /\ Rest(p)
    BY <1>4, <2>3, <2>4, <2>5, MovedIs DEF Good
  <2> QED BY <1>1, <2>5, <2>6, PlainStep, StillTyped DEF Good, Walking, Telling
<1> QED BY <1>2, <1>3, <1>4

LEMMA EndSteps == ASSUME Good, NEW p \in Requests, RollbackChannel(p) \/ FinishList(p), UNCHANGED callVars PROVE Good'
<1>1. Still /\ UNCHANGED <<active, budget>> /\ req[p].at \notin Telling /\ Done(p)
  BY DEF RollbackChannel, FinishList, Still, storeVars, Telling
<1> QED BY <1>1, DoneStores, StillTyped DEF Good

LEMMA QuietStep ==
  ASSUME Stores, NEW p \in Requests, RestAlike(p), UNCHANGED <<channels, members, locked>>,
         req'[p].at \notin Locking
  PROVE  Peopled'
<1>1. \A q \in Others(p) : KnowsLock(req[q], members, locked) /\ ApartLocks(req'[p], req[q])
  BY DEF Stores, Peopled, ApartLocks, Others
<1>2. KnowsLock(req'[p], members, locked)
  BY DEF KnowsLock, Locking
<1> QED BY <1>1, <1>2, PeopledStep DEF Stores, Peopled

LEMMA SilentStep ==
  ASSUME Stores, NEW p \in Requests, RestAlike(p), UNCHANGED <<members, shown, raced, untold>>,
         req[p].at \notin Telling, req'[p].at \notin Telling
  PROVE  Told'
<1>1. \A c, u : ~Tells(req[p], c, u) /\ ~Tells(req'[p], c, u)
  BY DEF Tells, Telling
<1>2. KnowsTold(req'[p], members, raced) /\ \A q \in Others(p) : KnowsTold(req[q], members, raced)
  BY <1>1 DEF Stores, Told, KnowsTold, Others
<1> QED BY <1>1, <1>2, ToldStep, ToldIs DEF Stores

LEMMA SameRowStep ==
  ASSUME Stores, NEW p \in Requests, RestAlike(p), UNCHANGED <<channels, conferences>>,
         req'[p].at # "inserted", KnowsRow(req'[p], channels, conferences)
  PROVE  Numbered'
<1>1. \A q \in Others(p) : KnowsRow(req[q], channels, conferences) /\ ApartRows(req'[p], req[q])
  BY DEF Stores, Numbered, ApartRows, Others
<1> QED BY <1>1, NumberedStep DEF Stores, Numbered

\* An id that no row has, committed or not.
New(c) == c \in ChannelIds /\ channels[c] = NoRow /\ \A q \in Requests : req[q].row = NoRow \/ req[q].on # c

LEMMA FreeIdIs == HasFreeId => New(FreeId)
<1> SUFFICES ASSUME HasFreeId PROVE New(FreeId)
  OBVIOUS
<1> DEFINE Taken(c) == channels[c] # NoRow \/ \E q \in Requests : req[q].row # NoRow /\ req[q].on = c
           S == {c \in ChannelIds : ~Taken(c)}
<1>1. S # {}
  BY DEF HasFreeId
<1>2. S \subseteq Nat
  BY Constants
<1>3. PICK c \in S : \A d \in S : c <= d
  BY <1>1, <1>2, SmallestOf
<1>4. ASSUME NEW d \in 1 .. c - 1 PROVE Taken(d)
  <2>1. c \in 1 .. MaxChannels /\ MaxChannels \in Nat
    BY <1>3, Constants
  <2>2. d \in ChannelIds /\ ~(c <= d)
    BY <2>1, Constants
  <2> QED BY <1>3, <2>2
<1>5. FreeId \in ChannelIds /\ ~Taken(FreeId)
  BY <1>3, <1>4 DEF FreeId
<1> QED BY <1>5 DEF New

LEMMA InsertedRowIs ==
  ASSUME NEW r, NEW T, NEW F, KnowsRow(r, T, F), r.at \in Inserting
  PROVE  /\ r.by \in Users /\ r.who \in Users \cup {0} /\ r.row \in Store!ChannelRow /\ r.row # NoRow
         /\ \/ r.row.kind = "group" /\ r.row.slug \in Slugs /\ r.row.pair = {} /\ r.who = 0
            \/ r.row.kind = "dm" /\ r.row.slug = NoSlug /\ r.row.pair = {r.by, r.who} /\ r.who \in Users /\ r.by # r.who
<1>1. r.by \in Users /\ ((r.who = 0 /\ GroupRow(r.row, r.by)) \/ (r.who \in Users /\ DirectRow(r.row, r.by, r.who)))
  BY DEF KnowsRow
<1>2. CASE r.who = 0 /\ GroupRow(r.row, r.by)
  BY <1>1, <1>2, GroupIs
<1>3. CASE r.who \in Users /\ DirectRow(r.row, r.by, r.who)
  BY <1>1, <1>3, DirectIs
<1> QED BY <1>1, <1>2, <1>3

LEMMA InsertChannelSteps == ASSUME Good, NEW p \in Requests, InsertChannel(p), UNCHANGED callVars PROVE Good'
<1>1. Still /\ UNCHANGED <<active, budget>> /\ req[p].at = "insert" /\ ~KeyHeld(req[p].row)
  BY DEF InsertChannel, Still, storeVars
<1>2. CASE Done(p)
  BY <1>1, <1>2, DoneStores, StillTyped DEF Good, Telling
<1>3. CASE ~Done(p)
  <2>1. /\ \A c \in ChannelIds : <<channels[c].slug, channels[c].pair>> # <<req[p].row.slug, req[p].row.pair>>
        /\ HasFreeId /\ req' = [req EXCEPT ![p].at = "inserted", ![p].on = FreeId]
    BY <1>3 DEF InsertChannel
  <2>2. PICK c : c = FreeId /\ New(c)
    BY <2>1, FreeIdIs
  <2>3. PICK r : r = [req[p] EXCEPT !.at = "inserted", !.on = c]
    OBVIOUS
  <2>4. req[p] \in Request /\ KnowsRow(req[p], channels, conferences)
    BY KnowsOf
  <2>5. r \in Request /\ r.at = "inserted" /\ r.on = c /\ r.by = req[p].by /\ r.who = req[p].who /\ r.row = req[p].row
    BY <2>2, <2>3, <2>4 DEF Request, Places, Inserting, New
  <2>6. req' = [req EXCEPT ![p] = r]
    BY <2>1, <2>2, <2>3
  <2>7. req' \in [Requests -> Request] /\ req'[p] = r /\ Rest(p)
    BY <2>5, <2>6, MovedIs DEF Good
  <2>8. KnowsRow(r, channels, conferences)
    <3>1. \A d \in ChannelIds : ~SameKey(channels[d], r.row)
      BY <2>1, <2>5 DEF SameKey
    <3>2. /\ r.by \in Users
          /\ \/ r.who = 0 /\ GroupRow(r.row, r.by)
             \/ r.who \in Users /\ DirectRow(r.row, r.by, r.who)
      BY <1>1, <2>4, <2>5 DEF KnowsRow, Inserting
    <3> QED BY <2>2, <2>5, <3>1, <3>2 DEF KnowsRow, Inserting, OnChannel, OnGroup, OnLink, Removing, New
  <2>9. ASSUME NEW q \in Others(p) PROVE ApartRows(r, req[q])
    <3> SUFFICES ASSUME req[q].at = "inserted" PROVE r.on # req[q].on /\ ~SameKey(r.row, req[q].row)
      BY DEF ApartRows
    <3>1. KnowsRow(req[q], channels, conferences) /\ q \in Requests
      BY KnowsOf DEF Others
    <3>2. req[q].row # NoRow
      BY <3>1, InsertedRowIs DEF Inserting
    <3>3. r.on # req[q].on
      BY <2>2, <2>5, <3>1, <3>2 DEF New
    <3> QED BY <1>1, <2>5, <3>1, <3>3 DEF KeyHeld, SameKey
  <2>10. Numbered'
    <3>1. \A q \in Others(p) : KnowsRow(req[q], channels, conferences) /\ ApartRows(req'[p], req[q])
      BY <2>7, <2>9, KnowsOf DEF Others
    <3> QED BY <1>1, <2>7, <2>8, <3>1, RestIsAlike, NumberedStep DEF Good, Stores, Numbered, Still
  <2>11. Peopled' /\ Told'
    BY <1>1, <2>5, <2>7, RestIsAlike, QuietStep, SilentStep DEF Good, Still, Locking, Telling
  <2>12. Walks'
    BY <1>1, <2>5, <2>7, WalksStep DEF Good, Stores, Still, KnowsWalk, Walking
  <2> QED BY <1>1, <2>7, <2>10, <2>11, <2>12, StillTyped DEF Good, Stores
<1> QED BY <1>2, <1>3

\* More members leave a walk what it had to list.
LEMMA MoreToList == ASSUME NEW r, NEW M, NEW N, M \subseteq N, KnowsWalk(r, M) PROVE KnowsWalk(r, N)
<1>1. Listing(r, M) \subseteq Listing(r, N)
  BY DEF Listing, In, Of
<1> QED BY <1>1 DEF KnowsWalk

LEMMA MoreWalks ==
  ASSUME Walks, NEW p \in Requests, Rest(p), members \subseteq members', req'[p].at \notin Walking \cup {"listed"} PROVE Walks'
<1>1. \A q \in Others(p) : KnowsWalk(req[q], members')
  BY MoreToList DEF Walks, Others
<1>2. KnowsWalk(req'[p], members')
  BY DEF KnowsWalk
<1> QED BY <1>1, <1>2 DEF Walks, Rest, Others

\* A channel with a row is not the one that is committed.
LEMMA RowIsThere ==
  ASSUME Good, NEW q \in Requests, req[q].at \in OnChannel PROVE req[q].on \in ChannelIds /\ channels[req[q].on] # NoRow
BY KnowsOf DEF KnowsRow

LEMMA CommitSteps == ASSUME Good, NEW p \in Requests, CommitChannel(p), UNCHANGED callVars PROVE Good'
<1>1. PICK c, row : c = req[p].on /\ row = req[p].row
  OBVIOUS
<1>2. /\ req[p].at = "inserted" /\ channels' = [channels EXCEPT ![c] = row]
      /\ members' = members \cup ({c} \X ({req[p].by} \cup row.pair))
      /\ req' = [req EXCEPT ![p].at = "announce", ![p].row = NoRow]
      /\ UNCHANGED <<conferences, locked, active, budget, shown, raced, untold>>
  BY <1>1 DEF CommitChannel
<1>3. req[p] \in Request /\ KnowsRow(req[p], channels, conferences)
  BY KnowsOf
<1>4. c \in ChannelIds /\ channels[c] = NoRow /\ \A d \in ChannelIds : ~SameKey(channels[d], row)
  BY <1>1, <1>2, <1>3 DEF KnowsRow
<1>5. /\ req[p].by \in Users /\ req[p].who \in Users \cup {0} /\ row \in Store!ChannelRow /\ row # NoRow
      /\ \/ row.kind = "group" /\ row.slug \in Slugs /\ row.pair = {} /\ req[p].who = 0
         \/ row.kind = "dm" /\ row.slug = NoSlug /\ row.pair = {req[p].by, req[p].who} /\ req[p].who \in Users
  BY <1>1, <1>2, <1>3, InsertedRowIs DEF Inserting
<1>6. PICK r : r = [req[p] EXCEPT !.at = "announce", !.row = NoRow]
  OBVIOUS
<1>7. r \in Request /\ r.at = "announce" /\ r.on = c /\ r.by = req[p].by /\ r.who = req[p].who /\ r.row = NoRow
  BY <1>1, <1>3, <1>6, NoRowIs DEF Request, Places, OnChannel
<1>8. req' = [req EXCEPT ![p] = r]
  BY <1>2, <1>6
<1>9. req' \in [Requests -> Request] /\ req'[p] = r /\ Rest(p)
  BY <1>7, <1>8, MovedIs DEF Good
<1>10. /\ channels' \in [ChannelIds -> Store!ChannelRow] /\ channels'[c] = row
       /\ \A d \in ChannelIds \ {c} : channels'[d] = channels[d]
  BY <1>2, <1>4, <1>5 DEF Good, Typed, Tables
<1>11. /\ members' \subseteq ChannelIds \X Users /\ members \subseteq members'
       /\ \A d \in ChannelIds, u \in Users : <<d, u>> \in members' <=> <<d, u>> \in members \/ (d = c /\ u \in {req[p].by} \cup row.pair)
  <2>1. row.pair \subseteq Users
    BY <1>5
  <2> QED BY <1>2, <1>4, <1>5, <2>1 DEF Good, Typed, Tables
<1>12. Typed'
  BY <1>2, <1>9, <1>10, <1>11, TypedStep DEF Good, Typed, Tables
<1>13. Numbered'
  <2>1. Rowed(channels')
    <3>1. ASSUME NEW d \in ChannelIds
          PROVE  /\ channels'[d].kind = "none"  => channels'[d] = NoRow
                 /\ channels'[d].kind = "group" => channels'[d].slug \in Slugs /\ channels'[d].pair = {}
                 /\ channels'[d].kind = "dm"    => channels'[d].slug = NoSlug /\ channels'[d].pair # {}
      <4>1. CASE d = c
        BY <1>5, <1>10, <4>1
      <4>2. CASE d # c
        BY <1>10, <4>2 DEF Good, Stores, Numbered, Rowed
      <4> QED BY <4>1, <4>2
    <3> QED BY <3>1 DEF Rowed
  <2>2. ASSUME NEW q \in Others(p) PROVE KnowsRow(req[q], channels', conferences) /\ ApartRows(r, req[q])
    <3>1. q \in Requests /\ q # p /\ KnowsRow(req[q], channels, conferences) /\ ApartRows(req[p], req[q])
      BY KnowsOf DEF Good, Stores, Numbered, Others
    <3>2. ApartRows(r, req[q])
      BY <1>7 DEF ApartRows
    <3>3. req[q].at = "inserted" => req[q].on \in ChannelIds /\ req[q].on # c /\ ~SameKey(row, req[q].row)
      BY <1>1, <1>2, <3>1 DEF ApartRows, KnowsRow
    <3>4. req[q].at = "inserted" => channels'[req[q].on] = NoRow /\ \A d \in ChannelIds : ~SameKey(channels'[d], req[q].row)
      BY <1>10, <3>1, <3>3 DEF KnowsRow
    <3>5. req[q].at \in OnChannel => req[q].on \in ChannelIds /\ channels'[req[q].on] = channels[req[q].on]
      BY <1>4, <1>10, <3>1, RowIsThere
    <3>6. OnGroup \subseteq OnChannel
      BY DEF OnChannel
    <3> QED BY <3>1, <3>2, <3>3, <3>4, <3>5, <3>6 DEF KnowsRow
  <2>3. KnowsRow(r, channels', conferences)
    BY <1>4, <1>5, <1>7, <1>10 DEF KnowsRow, Inserting, OnChannel, OnGroup, OnLink, Removing
  <2> QED BY <1>2, <1>9, <2>1, <2>2, <2>3, RestIsAlike, NumberedStep DEF Good, Stores
<1>14. Peopled'
  <2>1. \A d \in ChannelIds \ {c} : In(members', d) = In(members, d)
    BY <1>11 DEF In
  <2>2. In(members, c) = {}
    BY <1>4, NoRowIs DEF Good, Stores, Peopled, Full
  <2>3. In(members', c) = {req[p].by} \cup row.pair
    <3>1. row.pair \subseteq Users
      BY <1>5
    <3> QED BY <1>4, <1>5, <1>11, <2>2, <3>1 DEF In
  <2>4. Full(channels', members')
    <3>1. ASSUME NEW d \in ChannelIds
          PROVE  /\ channels'[d].kind = "none"  => In(members', d) = {}
                 /\ channels'[d].kind = "group" => In(members', d) # {}
                 /\ channels'[d].kind = "dm"    => In(members', d) = channels'[d].pair
      <4>1. CASE d = c
        BY <1>5, <1>10, <2>3, <4>1
      <4>2. CASE d # c
        BY <1>10, <2>1, <4>2 DEF Good, Stores, Peopled, Full
      <4> QED BY <4>1, <4>2
    <3> QED BY <3>1 DEF Full
  <2>5. ASSUME NEW q \in Others(p) PROVE KnowsLock(req[q], members', locked) /\ ApartLocks(r, req[q])
    <3>1. q \in Requests /\ KnowsLock(req[q], members, locked)
      BY KnowsOf DEF Others
    <3>2. req[q].at = "delete" => req[q].on \in ChannelIds \ {c}
      BY <1>4, <3>1, RowIsThere DEF OnChannel, OnGroup, Removing
    <3> QED BY <1>7, <2>1, <3>1, <3>2 DEF KnowsLock, ApartLocks, Locking
  <2>6. KnowsLock(r, members', locked)
    BY <1>7 DEF KnowsLock, Locking
  <2> QED BY <1>2, <1>9, <2>4, <2>5, <2>6, RestIsAlike, PeopledStep DEF Good, Stores
<1>15. Told'
  <2>1. ASSUME NEW q \in Others(p) PROVE KnowsTold(req[q], members', raced)
    <3>1. q \in Requests /\ KnowsTold(req[q], members, raced)
      BY KnowsOf DEF Others
    <3>2. \A d \in ChannelIds, u \in Users : Tells(req[q], d, u) => d # c
      BY <1>4, <3>1, RowIsThere DEF Tells, OnChannel, OnGroup, Removing
    <3> QED BY <1>11, <3>1, <3>2 DEF KnowsTold
  <2>2. ASSUME NEW d \in ChannelIds, NEW u \in Users PROVE Tells(r, d, u) <=> d = c /\ u \in {req[p].by, req[p].who}
    BY <1>7 DEF Tells
  <2>3. \A u \in Users : u \in {req[p].by, req[p].who} <=> u \in {req[p].by} \cup row.pair
    BY <1>5, Constants
  <2>4. KnowsTold(r, members', raced)
    BY <1>7, <1>11, <2>2, <2>3 DEF KnowsTold
  <2>5. ASSUME NEW d \in ChannelIds, NEW u \in Users, <<d, u>> \notin raced \cup untold
        PROVE  \/ <<d, u>> \in shown <=> <<d, u>> \in members'
               \/ TellsOther(p, d, u) \/ Tells(r, d, u)
    <3>1. CASE d = c /\ u \in {req[p].by, req[p].who}
      BY <2>2, <3>1
    <3>2. CASE ~(d = c /\ u \in {req[p].by, req[p].who})
      <4>1. <<d, u>> \in members' <=> <<d, u>> \in members
        BY <1>11, <2>3, <3>2
      <4>2. ~Tells(req[p], d, u)
        BY <1>2 DEF Tells
      <4> QED BY <2>5, <4>1, <4>2, ToldIs DEF Good, Stores
    <3> QED BY <3>1, <3>2
  <2> QED BY <1>2, <1>9, <2>1, <2>4, <2>5, RestIsAlike, ToldStep
<1>16. Walks'
  BY <1>7, <1>9, <1>11, MoreWalks DEF Good, Stores, Walking
<1> QED BY <1>12, <1>13, <1>14, <1>15, <1>16 DEF Good, Stores

\* Announcing to the users in T, of those in S, that they are in channel c.
LEMMA AnnounceSteps ==
  ASSUME Good, NEW p \in Requests, NEW c \in ChannelIds, NEW S, S \subseteq Users, NEW T, T \subseteq S, UNCHANGED callVars,
         Invite(c, S, T), Done(p), UNCHANGED <<storeVars, locked, active, budget, raced>>,
         \A d \in ChannelIds, u \in Users : Tells(req[p], d, u) <=> d = c /\ u \in S,
         req[p].at # "removed"
  PROVE  Good'
<1>1. req' \in [Requests -> Request] /\ req'[p] = Idle /\ Rest(p) /\ RestAlike(p)
  BY DoneIs, RestIsAlike DEF Good
<1>2. Typed'
  <2>1. shown' \subseteq ChannelIds \X Users /\ untold' \subseteq ChannelIds \X Users
    BY DEF Invite, Good, Typed, Tables
  <2> QED BY <1>1, <2>1, TypedStep DEF Good, Typed, Tables, storeVars
<1>3. Numbered' /\ Peopled'
  BY <1>1, IdleKnows, SameRowStep, QuietStep DEF Good, storeVars, Plain
<1>4. Walks'
  BY <1>1, IdleKnows, WalksStep DEF Good, Stores, storeVars
<1>5. Told'
  <2>1. \A d, u : ~Tells(Idle, d, u)
    BY IdleIs DEF Tells
  <2>2. KnowsTold(Idle, members, raced)
    BY <2>1 DEF KnowsTold
  <2>3. \A q \in Others(p) : KnowsTold(req[q], members, raced)
    BY KnowsOf DEF Others
  <2>4. ASSUME NEW d \in ChannelIds, NEW u \in Users, <<d, u>> \notin raced \cup untold'
        PROVE  (<<d, u>> \in shown' <=> <<d, u>> \in members) \/ TellsOther(p, d, u)
    <3>1. CASE d = c /\ u \in S
      <4>1. <<d, u>> \in members
        BY <2>4, <3>1, KnowsOf DEF KnowsTold
      <4>2. <<d, u>> \in shown'
        BY <2>4, <3>1 DEF Invite
      <4> QED BY <4>1, <4>2
    <3>2. CASE ~(d = c /\ u \in S)
      <4>1. (<<d, u>> \in shown' <=> <<d, u>> \in shown) /\ <<d, u>> \notin raced \cup untold
        BY <2>4, <3>2 DEF Invite
      <4> QED BY <3>2, <4>1, ToldIs DEF Good, Stores
    <3> QED BY <3>1, <3>2
  <2> QED BY <1>1, <2>2, <2>3, <2>4, ToldStep DEF storeVars
<1> QED BY <1>2, <1>3, <1>4, <1>5 DEF Good, Stores

\* Whom a request that made a channel tells, and one that added a member.
LEMMA FirstAre ==
  ASSUME Good, NEW p \in Requests, req[p].at = "announce"
  PROVE  /\ req[p].on \in ChannelIds /\ {req[p].by, req[p].who} \ {0} \subseteq Users /\ req[p].by \in {req[p].by, req[p].who} \ {0}
         /\ \A d \in ChannelIds, u \in Users : Tells(req[p], d, u) <=> d = req[p].on /\ u \in {req[p].by, req[p].who} \ {0}
<1>1. KnowsRow(req[p], channels, conferences)
  BY KnowsOf
<1>2. req[p].on \in ChannelIds /\ req[p].by \in Users /\ req[p].who \in Users \cup {0} /\ 0 \notin Users
  BY <1>1, Constants DEF KnowsRow, OnChannel
<1> QED BY <1>2 DEF Tells

LEMMA AddedIs ==
  ASSUME Good, NEW p \in Requests, req[p].at = "added"
  PROVE  /\ req[p].on \in ChannelIds /\ {req[p].who} \subseteq Users
         /\ \A d \in ChannelIds, u \in Users : Tells(req[p], d, u) <=> d = req[p].on /\ u \in {req[p].who}
<1>1. KnowsRow(req[p], channels, conferences)
  BY KnowsOf
<1> QED BY <1>1 DEF KnowsRow, OnChannel, OnGroup, Tells

LEMMA AnnounceChannelSteps == ASSUME Good, NEW p \in Requests, AnnounceChannel(p), UNCHANGED callVars PROVE Good'
<1>1. PICK S : S = {req[p].by, req[p].who} \ {0}
  OBVIOUS
<1>2. /\ req[p].at = "announce" /\ Done(p) /\ UNCHANGED <<storeVars, locked, active, budget, raced>>
      /\ \E T \in {S, {req[p].by}} : Invite(req[p].on, S, T)
  BY <1>1 DEF AnnounceChannel
<1>3. PICK T \in {S, {req[p].by}} : Invite(req[p].on, S, T)
  BY <1>2
<1>4. T \subseteq S
  BY <1>1, <1>2, <1>3, FirstAre
<1> QED BY <1>1, <1>2, <1>3, <1>4, FirstAre, AnnounceSteps

LEMMA AnnounceAddedSteps == ASSUME Good, NEW p \in Requests, AnnounceAdded(p), UNCHANGED callVars PROVE Good'
<1>1. /\ req[p].at = "added" /\ Done(p) /\ UNCHANGED <<storeVars, locked, active, budget, raced>>
      /\ \E T \in SUBSET {req[p].who} : Invite(req[p].on, {req[p].who}, T)
  BY DEF AnnounceAdded
<1>2. PICK T \in SUBSET {req[p].who} : Invite(req[p].on, {req[p].who}, T)
  BY <1>1
<1>3. T \subseteq {req[p].who}
  BY <1>2
<1> QED BY <1>1, <1>2, <1>3, AddedIs, AnnounceSteps

LEMMA AnswerLostSteps == ASSUME Good, NEW p \in Requests, CommitAnswerLost(p), UNCHANGED callVars PROVE Good'
<1>1. PICK S : S = IF req[p].at = "added" THEN {req[p].who} ELSE {req[p].by, req[p].who} \ {0}
  OBVIOUS
<1>2. /\ req[p].at \in {"announce", "added"} /\ Done(p) /\ UNCHANGED <<storeVars, locked, active, budget, raced>>
      /\ Invite(req[p].on, S, {})
  BY <1>1 DEF CommitAnswerLost
<1>3. /\ req[p].on \in ChannelIds /\ S \subseteq Users
      /\ \A d \in ChannelIds, u \in Users : Tells(req[p], d, u) <=> d = req[p].on /\ u \in S
  BY <1>1, <1>2, FirstAre, AddedIs
<1> QED BY <1>2, <1>3, AnnounceSteps

LEMMA UpdateTopicSteps == ASSUME Good, NEW p \in Requests, UpdateChannelTopic(p), UNCHANGED callVars PROVE Good'
<1>1. PICK c : c = req[p].on
  OBVIOUS
<1>2. /\ req[p].at = "update" /\ channels' = [channels EXCEPT ![c].topic = 1] /\ Done(p)
      /\ UNCHANGED <<members, conferences, locked, active, budget, shown, raced, untold>>
  BY <1>1 DEF UpdateChannelTopic
<1>3. c \in ChannelIds /\ channels[c].kind = "group" /\ channels[c] # NoRow
  BY <1>1, <1>2, KnowsOf DEF KnowsRow, OnChannel, OnGroup
<1>4. PICK row : row = [channels[c] EXCEPT !.topic = 1]
  OBVIOUS
<1>5. channels[c] \in Store!ChannelRow
  BY <1>3 DEF Good, Typed, Tables
<1>6. row \in Store!ChannelRow /\ row.kind = "group" /\ row.slug = channels[c].slug /\ row.pair = channels[c].pair
  BY <1>3, <1>4, <1>5, Constants
<1>7. channels' = [channels EXCEPT ![c] = row]
  BY <1>2, <1>4
<1>8. /\ channels' \in [ChannelIds -> Store!ChannelRow] /\ channels'[c] = row
      /\ \A d \in ChannelIds \ {c} : channels'[d] = channels[d]
  BY <1>3, <1>6, <1>7 DEF Good, Typed, Tables
<1>9. \A d \in ChannelIds : /\ channels'[d].kind = channels[d].kind /\ channels'[d].slug = channels[d].slug
                            /\ channels'[d].pair = channels[d].pair /\ (channels'[d] = NoRow <=> channels[d] = NoRow)
  BY <1>3, <1>6, <1>8, NoRowIs
<1>10. req' \in [Requests -> Request] /\ req'[p] = Idle /\ Rest(p) /\ RestAlike(p)
  BY <1>2, DoneIs, RestIsAlike DEF Good
<1>11. Typed'
  BY <1>2, <1>8, <1>10, TypedStep DEF Good, Typed, Tables
<1>12. Numbered'
  <2>1. ASSUME NEW q \in Others(p) PROVE KnowsRow(req[q], channels', conferences) /\ ApartRows(Idle, req[q])
    <3>1. q \in Requests /\ KnowsRow(req[q], channels, conferences)
      BY KnowsOf DEF Others
    <3>2. OnGroup \subseteq OnChannel
      BY DEF OnChannel
    <3>3. \A d \in ChannelIds : SameKey(channels'[d], req[q].row) <=> SameKey(channels[d], req[q].row)
      BY <1>9 DEF SameKey
    <3>4. KnowsRow(req[q], channels', conferences)
      BY <1>9, <3>1, <3>2, <3>3 DEF KnowsRow
    <3> QED BY <3>4, IdleIs DEF ApartRows
  <2>2. KnowsRow(Idle, channels', conferences)
    BY IdleIs DEF KnowsRow, Inserting, OnChannel, OnGroup, OnLink, Removing
  <2>3. Rowed(channels')
    BY <1>9 DEF Good, Stores, Numbered, Rowed
  <2> QED BY <1>2, <1>10, <2>1, <2>2, <2>3, NumberedStep DEF Good, Stores
<1>13. Peopled'
  <2>1. Full(channels', members)
    BY <1>9 DEF Good, Stores, Peopled, Full
  <2>2. \A q \in Others(p) : KnowsLock(req[q], members, locked) /\ ApartLocks(Idle, req[q])
    BY KnowsOf, IdleIs DEF ApartLocks, Locking, Others
  <2>3. KnowsLock(Idle, members, locked)
    BY IdleIs DEF KnowsLock, Locking
  <2> QED BY <1>2, <1>10, <2>1, <2>2, <2>3, PeopledStep DEF Good, Stores
<1>14. Told'
  BY <1>2, <1>10, IdleIs, SilentStep DEF Good, Telling
<1>15. Walks'
  BY <1>2, <1>10, IdleKnows, WalksStep DEF Good, Stores
<1> QED BY <1>11, <1>12, <1>13, <1>14, <1>15 DEF Good, Stores

\* The membership of u in c changes to whether it is in M, a request of p will
\* tell it, and what others were about to tell of it is counted as raced.
Changes(p, c, u, M, r) ==
  /\ c \in ChannelIds /\ u \in Users
  /\ M \subseteq ChannelIds \X Users
  /\ \A d \in ChannelIds, v \in Users : <<d, v>> # <<c, u>> => (<<d, v>> \in M <=> <<d, v>> \in members)
  /\ r.at \in {"added", "removed"} /\ r.on = c /\ r.who = u
  /\ <<c, u>> \in M <=> r.at # "removed"
  /\ raced' = (IF Unannounced(p, c, u) THEN raced \cup {<<c, u>>} ELSE raced)
  /\ UNCHANGED <<shown, untold>>

LEMMA ChangeTold ==
  ASSUME Good, NEW p \in Requests, NEW c, NEW u, Changes(p, c, u, members', req'[p]), RestAlike(p), req[p].at \notin Telling
  PROVE  Told' /\ raced' \subseteq ChannelIds \X Users
<1> USE DEF Changes
<1>1. raced \subseteq raced' /\ raced' \subseteq ChannelIds \X Users /\ \A d, v : <<d, v>> # <<c, u>> => (<<d, v>> \in raced' <=> <<d, v>> \in raced)
  BY DEF Good, Typed, Tables
<1>2. \A d \in ChannelIds, v \in Users : Tells(req'[p], d, v) <=> <<d, v>> = <<c, u>>
  BY DEF Tells
<1>3. ASSUME NEW q \in Others(p) PROVE KnowsTold(req[q], members', raced')
  <2>1. q \in Requests /\ q # p /\ KnowsTold(req[q], members, raced)
    BY KnowsOf DEF Others
  <2>2. ASSUME NEW d \in ChannelIds, NEW v \in Users, Tells(req[q], d, v), <<d, v>> \notin raced'
        PROVE  <<d, v>> \in members' <=> req[q].at # "removed"
    <3>1. <<d, v>> # <<c, u>>
      BY <2>1, <2>2 DEF Unannounced
    <3> QED BY <1>1, <2>1, <2>2, <3>1 DEF KnowsTold
  <2> QED BY <2>2 DEF KnowsTold
<1>4. KnowsTold(req'[p], members', raced')
  BY <1>2 DEF KnowsTold
<1>5. ASSUME NEW d \in ChannelIds, NEW v \in Users, <<d, v>> \notin raced' \cup untold'
      PROVE  \/ <<d, v>> \in shown' <=> <<d, v>> \in members'
             \/ TellsOther(p, d, v) \/ Tells(req'[p], d, v)
  <2>1. CASE <<d, v>> = <<c, u>>
    BY <1>2, <2>1
  <2>2. CASE <<d, v>> # <<c, u>>
    <3>1. ~Tells(req[p], d, v)
      BY DEF Tells, Telling
    <3>2. <<d, v>> \notin raced \cup untold /\ (<<d, v>> \in members' <=> <<d, v>> \in members)
      BY <1>1, <1>5, <2>2
    <3> QED BY <3>1, <3>2, ToldIs DEF Good, Stores
  <2> QED BY <2>1, <2>2
<1> QED BY <1>1, <1>3, <1>4, <1>5, ToldStep

LEMMA InsertMemberSteps == ASSUME Good, NEW p \in Requests, InsertMember(p), UNCHANGED callVars PROVE Good'
<1>1. PICK c, v : c = req[p].on /\ v = req[p].who
  OBVIOUS
<1>2. req[p].at = "add" /\ UNCHANGED <<channels, conferences, locked, active, budget, shown, untold>>
  BY DEF InsertMember
<1>3. c \in ChannelIds /\ channels[c] # NoRow /\ v \in Users /\ req[p].by \in Users
  BY <1>1, <1>2, KnowsOf DEF KnowsRow, OnChannel
<1>4. CASE channels[c].kind = "dm"
  <2>1. Done(p) /\ Still
    BY <1>1, <1>2, <1>4 DEF InsertMember, Still
  <2> QED BY <1>2, <2>1, DoneStores, StillTyped DEF Good, Telling
<1>5. CASE channels[c].kind # "dm"
  <2>1. /\ members' = members \cup {<<c, v>>} /\ Goto(p, "added")
        /\ raced' = IF Unannounced(p, c, v) THEN raced \cup {<<c, v>>} ELSE raced
    BY <1>1, <1>5 DEF InsertMember
  <2>2. channels[c].kind = "group"
    BY <1>3, <1>5, KindIs DEF Good, Stores, Numbered, Rowed
  <2>3. /\ req' \in [Requests -> Request] /\ Rest(p) /\ RestAlike(p) /\ req'[p].at = "added"
        /\ req'[p].by = req[p].by /\ req'[p].on = c /\ req'[p].who = v /\ req'[p].row = req[p].row
    BY <1>1, <2>1, GotoIs, RestIsAlike DEF Good, Places, OnChannel, OnGroup
  <2>4. /\ members' \subseteq ChannelIds \X Users /\ members \subseteq members'
        /\ \A d \in ChannelIds, u \in Users : <<d, u>> # <<c, v>> => (<<d, u>> \in members' <=> <<d, u>> \in members)
        /\ <<c, v>> \in members'
    BY <1>3, <2>1 DEF Good, Typed, Tables
  <2>5. Told' /\ raced' \subseteq ChannelIds \X Users
    <3>1. Changes(p, c, v, members', req'[p])
      BY <1>2, <1>3, <2>1, <2>3, <2>4 DEF Changes
    <3> QED BY <1>2, <2>3, <3>1, ChangeTold DEF Telling
  <2>6. Typed'
    BY <1>2, <2>3, <2>4, <2>5, TypedStep DEF Good, Typed, Tables
  <2>7. Numbered'
    <3>1. req[p].row = NoRow
      BY <1>2, KnowsOf DEF KnowsRow, Inserting
    <3>2. KnowsRow(req'[p], channels, conferences)
      BY <1>3, <2>2, <2>3, <3>1 DEF KnowsRow, Inserting, OnChannel, OnGroup, OnLink, Removing
    <3> QED BY <1>2, <2>3, <3>2, SameRowStep DEF Good
  <2>8. Peopled'
    <3>1. \A d \in ChannelIds \ {c} : In(members', d) = In(members, d)
      BY <2>4 DEF In
    <3>2. In(members', c) = In(members, c) \cup {v} /\ In(members, c) # {}
      BY <1>3, <2>2, <2>4 DEF In, Good, Stores, Peopled, Full
    <3>3. Full(channels, members')
      BY <2>2, <3>1, <3>2 DEF Good, Stores, Peopled, Full
    <3>4. ASSUME NEW q \in Others(p) PROVE KnowsLock(req[q], members', locked) /\ ApartLocks(req'[p], req[q])
      <4>1. q \in Requests /\ KnowsLock(req[q], members, locked)
        BY KnowsOf DEF Others
      <4>2. req[q].at = "delete" => req[q].on \in ChannelIds
        BY <4>1, RowIsThere DEF OnChannel, OnGroup, Removing
      <4>3. req[q].at = "delete" => In(members', req[q].on) # {req[q].who}
        BY <3>1, <3>2, <4>1, <4>2 DEF KnowsLock
      <4> QED BY <2>3, <4>1, <4>3 DEF KnowsLock, ApartLocks, Locking
    <3>5. KnowsLock(req'[p], members', locked)
      BY <2>3 DEF KnowsLock, Locking
    <3> QED BY <1>2, <2>3, <3>3, <3>4, <3>5, PeopledStep DEF Good, Stores
  <2>9. Walks'
    BY <2>3, <2>4, MoreWalks DEF Good, Stores, Walking
  <2> QED BY <2>5, <2>6, <2>7, <2>8, <2>9 DEF Good, Stores
<1> QED BY <1>4, <1>5

LEMMA LockSteps == ASSUME Good, NEW p \in Requests, LockChannel(p), UNCHANGED callVars PROVE Good'
<1>1. PICK c : c = req[p].on
  OBVIOUS
<1>2. /\ req[p].at = "lock" /\ c \notin locked /\ locked' = locked \cup {c} /\ Goto(p, "count")
      /\ UNCHANGED <<storeVars, active, budget, shown, raced, untold>>
  BY <1>1 DEF LockChannel
<1>3. /\ req' \in [Requests -> Request] /\ Rest(p) /\ RestAlike(p) /\ req'[p].at = "count"
      /\ req'[p].by = req[p].by /\ req'[p].on = c /\ req'[p].who = req[p].who /\ req'[p].row = req[p].row
  BY <1>1, <1>2, GotoIs, RestIsAlike DEF Good, Places, OnChannel, OnGroup, Removing
<1>4. KnowsRow(req[p], channels, conferences) /\ c \in ChannelIds
  BY <1>1, <1>2, KnowsOf DEF KnowsRow, OnChannel, OnGroup, Removing
<1>5. Typed'
  BY <1>2, <1>3, <1>4, TypedStep DEF Good, Typed, Tables, storeVars
<1>6. Numbered'
  <2>1. KnowsRow(req'[p], channels, conferences)
    BY <1>1, <1>2, <1>3, <1>4 DEF KnowsRow, Inserting, OnChannel, OnGroup, OnLink, Removing
  <2> QED BY <1>2, <1>3, <2>1, SameRowStep DEF Good, storeVars
<1>7. Peopled'
  <2>1. \A q \in Others(p) : KnowsLock(req[q], members, locked)
    BY KnowsOf DEF Others
  <2>2. \A q \in Others(p) : KnowsLock(req[q], members, locked') /\ ApartLocks(req'[p], req[q])
    BY <1>2, <1>3, <2>1 DEF KnowsLock, ApartLocks
  <2>3. KnowsLock(req'[p], members, locked')
    BY <1>2, <1>3 DEF KnowsLock
  <2>4. Full(channels, members)
    BY DEF Good, Stores, Peopled
  <2> QED BY <1>2, <1>3, <2>2, <2>3, <2>4, PeopledStep DEF Good, Stores, storeVars
<1>8. Told'
  BY <1>2, <1>3, SilentStep DEF Good, Telling, storeVars
<1>9. Walks'
  BY <1>2, <1>3, WalksStep DEF Good, Stores, KnowsWalk, Walking, storeVars
<1> QED BY <1>5, <1>6, <1>7, <1>8, <1>9 DEF Good, Stores

LEMMA CountSteps == ASSUME Good, NEW p \in Requests, CountMembers(p), UNCHANGED callVars PROVE Good'
<1>1. PICK c : c = req[p].on
  OBVIOUS
<1>2. req[p].at = "count" /\ UNCHANGED <<storeVars, active, budget, shown, raced, untold>>
  BY DEF CountMembers
<1>3. KnowsRow(req[p], channels, conferences) /\ KnowsLock(req[p], members, locked) /\ c \in ChannelIds
  BY <1>1, <1>2, KnowsOf DEF KnowsRow, OnChannel, OnGroup, Removing
<1>4. \A q \in Others(p) : KnowsLock(req[q], members, locked) /\ ApartLocks(req[p], req[q])
  BY KnowsOf DEF Good, Stores, Peopled, Others
<1>5. Full(channels, members)
  BY DEF Good, Stores, Peopled
<1>6. CASE Members(c) = {req[p].who}
  <2>1. Done(p) /\ locked' = locked \ {c}
    BY <1>1, <1>6 DEF CountMembers
  <2>2. req' \in [Requests -> Request] /\ req'[p] = Idle /\ Rest(p) /\ RestAlike(p)
    BY <2>1, DoneIs, RestIsAlike DEF Good
  <2>3. Typed'
    BY <1>2, <2>1, <2>2, TypedStep DEF Good, Typed, Tables, storeVars
  <2>4. Peopled'
    <3>1. \A q \in Others(p) : KnowsLock(req[q], members, locked') /\ ApartLocks(Idle, req[q])
      BY <1>1, <1>2, <1>4, <2>1, IdleIs DEF KnowsLock, ApartLocks, Locking
    <3>2. KnowsLock(Idle, members, locked')
      BY IdleIs DEF KnowsLock, Locking
    <3> QED BY <1>2, <1>5, <2>2, <3>1, <3>2, PeopledStep DEF Good, Stores, storeVars
  <2>5. Numbered' /\ Told' /\ Walks'
    BY <1>2, <2>2, IdleKnows, IdleIs, SameRowStep, SilentStep, WalksStep DEF Good, Stores, storeVars, Telling
  <2> QED BY <2>3, <2>4, <2>5 DEF Good, Stores
<1>7. CASE Members(c) # {req[p].who}
  <2>1. Goto(p, "delete") /\ UNCHANGED locked
    BY <1>1, <1>7 DEF CountMembers
  <2>2. /\ req' \in [Requests -> Request] /\ Rest(p) /\ RestAlike(p) /\ req'[p].at = "delete"
        /\ req'[p].by = req[p].by /\ req'[p].on = c /\ req'[p].who = req[p].who /\ req'[p].row = req[p].row
    BY <1>1, <2>1, GotoIs, RestIsAlike DEF Good, Places, OnChannel, OnGroup, Removing
  <2>3. Typed'
    BY <1>2, <2>1, <2>2, TypedStep DEF Good, Typed, Tables, storeVars
  <2>4. Numbered'
    <3>1. KnowsRow(req'[p], channels, conferences)
      BY <1>1, <1>2, <1>3, <2>2 DEF KnowsRow, Inserting, OnChannel, OnGroup, OnLink, Removing
    <3> QED BY <1>2, <2>2, <3>1, SameRowStep DEF Good, storeVars
  <2>5. Peopled'
    <3>1. \A q \in Others(p) : ApartLocks(req'[p], req[q])
      BY <1>1, <1>2, <1>4, <2>2 DEF ApartLocks, Locking
    <3>2. KnowsLock(req'[p], members, locked)
      BY <1>1, <1>2, <1>3, <1>7, <2>2, MembersAre DEF KnowsLock, Locking
    <3> QED BY <1>2, <1>4, <1>5, <2>1, <2>2, <3>1, <3>2, PeopledStep DEF Good, Stores, storeVars
  <2>6. Told' /\ Walks'
    BY <1>2, <2>2, SilentStep, WalksStep DEF Good, Stores, KnowsWalk, Walking, storeVars, Telling
  <2> QED BY <2>3, <2>4, <2>5, <2>6 DEF Good, Stores
<1> QED BY <1>6, <1>7

LEMMA LeavesIs ==
  ASSUME NEW r \in Request, NEW c \in ChannelIds, NEW u \in Users, NEW M, NEW N, N = M \ {<<c, u>>}, KnowsWalk(r, M)
  PROVE  Leaves(r, c, u) \in Request /\ Alike(Leaves(r, c, u), r) /\ KnowsWalk(Leaves(r, c, u), N)
<1>1. PICK st : st = IF r.at \notin {"members", "channels"} THEN r.stay
                     ELSE IF r.at = "members" /\ r.on = c THEN r.stay \ {u}
                     ELSE IF r.at = "channels" /\ r.by = u THEN r.stay \ {c} ELSE r.stay
  OBVIOUS
<1>2. PICK s : s = [r EXCEPT !.stay = st]
  OBVIOUS
<1>3. Leaves(r, c, u) = s
  BY <1>1, <1>2 DEF Leaves
<1>4. st \subseteq r.stay /\ st \in SUBSET Nat
  BY <1>1 DEF Request
<1>5. s \in Request /\ Alike(s, r) /\ s.stay = st /\ s.got = r.got /\ s.cursor = r.cursor /\ s.twice = r.twice
  BY <1>2, <1>4 DEF Request, Alike
<1>6. s.at = "listed" => ~s.twice /\ s.stay \subseteq s.got
  BY <1>4, <1>5 DEF KnowsWalk, Alike
<1>7. s.at \in Walking => ~s.twice /\ (\A x \in s.stay : x \in s.got \/ s.cursor < x) /\ (\A x \in s.got : x <= s.cursor)
  BY <1>4, <1>5 DEF KnowsWalk, Alike
<1>8. r.at \in Walking => st \subseteq Listing(r, N)
  <2>1. r.at \in Walking => r.stay \subseteq Listing(r, M)
    BY DEF KnowsWalk
  <2>2. CASE r.at = "members"
    <3>1. r.stay \subseteq In(M, r.on)
      BY <2>1, <2>2 DEF Listing, Walking
    <3>2. \A x \in In(M, r.on) : x \in In(N, r.on) \/ (r.on = c /\ x = u)
      BY DEF In
    <3> QED BY <1>1, <2>2, <3>1, <3>2 DEF Listing
  <2>3. CASE r.at = "channels"
    <3>1. r.stay \subseteq Of(M, r.by)
      BY <2>1, <2>3 DEF Listing, Walking
    <3>2. \A x \in Of(M, r.by) : x \in Of(N, r.by) \/ (r.by = u /\ x = c)
      BY DEF Of
    <3> QED BY <1>1, <2>3, <3>1, <3>2 DEF Listing
  <2> QED BY <2>2, <2>3 DEF Walking
<1>9. s.at \in Walking => s.stay \subseteq Listing(s, N)
  BY <1>5, <1>8 DEF Listing, Alike
<1> QED BY <1>3, <1>5, <1>6, <1>7, <1>9 DEF KnowsWalk

LEMMA DeleteSteps == ASSUME Good, NEW p \in Requests, DeleteMember(p), UNCHANGED callVars PROVE Good'
<1>1. PICK c, v : c = req[p].on /\ v = req[p].who
  OBVIOUS
<1>2. /\ req[p].at = "delete" /\ members' = members \ {<<c, v>>} /\ locked' = locked \ {c}
      /\ raced' = IF Unannounced(p, c, v) THEN raced \cup {<<c, v>>} ELSE raced
      /\ req' = [q \in Requests |-> IF q = p THEN [req[p] EXCEPT !.at = "removed"] ELSE Leaves(req[q], c, v)]
      /\ UNCHANGED <<channels, conferences, active, budget, shown, untold>>
  BY <1>1 DEF DeleteMember
<1>3. /\ req[p] \in Request /\ KnowsRow(req[p], channels, conferences) /\ KnowsLock(req[p], members, locked)
      /\ c \in ChannelIds /\ v \in Users /\ channels[c].kind = "group" /\ channels[c] # NoRow
  BY <1>1, <1>2, KnowsOf DEF KnowsRow, OnChannel, OnGroup, Removing
<1>4. PICK r : r = [req[p] EXCEPT !.at = "removed"]
  OBVIOUS
<1>5. r \in Request /\ r.at = "removed" /\ r.by = req[p].by /\ r.on = c /\ r.who = v /\ r.row = req[p].row
  BY <1>1, <1>3, <1>4 DEF Request, Places, OnChannel, OnGroup, Removing
<1>6. ASSUME NEW q \in Others(p)
      PROVE  req'[q] \in Request /\ Alike(req'[q], req[q]) /\ KnowsWalk(req'[q], members')
  <2>1. q \in Requests /\ q # p /\ req[q] \in Request /\ KnowsWalk(req[q], members)
    BY KnowsOf DEF Others
  <2>2. req'[q] = Leaves(req[q], c, v)
    BY <1>2, <2>1
  <2> QED BY <1>2, <1>3, <2>1, <2>2, LeavesIs
<1>7. req'[p] = r /\ RestAlike(p)
  BY <1>2, <1>4, <1>6 DEF RestAlike
<1>8. req' \in [Requests -> Request]
  <2>1. \A q \in Requests : req'[q] \in Request
    BY <1>5, <1>6, <1>7 DEF Others
  <2> QED BY <1>2, <2>1
<1>9. /\ members' \subseteq ChannelIds \X Users
      /\ \A d \in ChannelIds, u \in Users : <<d, u>> # <<c, v>> => (<<d, u>> \in members' <=> <<d, u>> \in members)
      /\ <<c, v>> \notin members'
  BY <1>2 DEF Good, Typed, Tables
<1>10. Told' /\ raced' \subseteq ChannelIds \X Users
  <2>1. Changes(p, c, v, members', req'[p])
    BY <1>2, <1>3, <1>5, <1>7, <1>9 DEF Changes
  <2> QED BY <1>2, <1>7, <2>1, ChangeTold DEF Telling
<1>11. Typed'
  BY <1>2, <1>8, <1>9, <1>10, TypedStep DEF Good, Typed, Tables
<1>12. Numbered'
  <2>1. KnowsRow(req'[p], channels, conferences)
    BY <1>1, <1>2, <1>3, <1>5, <1>7 DEF KnowsRow, Inserting, OnChannel, OnGroup, OnLink, Removing
  <2> QED BY <1>2, <1>5, <1>7, <2>1, SameRowStep DEF Good
<1>13. Peopled'
  <2>1. \A d \in ChannelIds \ {c} : In(members', d) = In(members, d)
    BY <1>9 DEF In
  <2>2. In(members, c) # {} /\ In(members, c) # {v}
    BY <1>1, <1>2, <1>3 DEF Good, Stores, Peopled, Full, KnowsLock
  <2>3. In(members', c) = In(members, c) \ {v}
    BY <1>3, <1>9 DEF In
  <2>4. Full(channels, members')
    BY <1>3, <2>1, <2>2, <2>3 DEF Good, Stores, Peopled, Full
  <2>5. ASSUME NEW q \in Others(p) PROVE KnowsLock(req[q], members', locked') /\ ApartLocks(req'[p], req[q])
    <3>1. q \in Requests /\ KnowsLock(req[q], members, locked) /\ ApartLocks(req[p], req[q])
      BY KnowsOf DEF Good, Stores, Peopled, Others
    <3>2. req[q].at \in Locking => req[q].on \in ChannelIds /\ req[q].on # c
      BY <1>1, <1>2, <3>1, RowIsThere DEF OnChannel, OnGroup, Removing, Locking, ApartLocks
    <3> QED BY <1>2, <1>5, <1>7, <2>1, <3>1, <3>2 DEF KnowsLock, ApartLocks, Locking
  <2>6. KnowsLock(req'[p], members', locked')
    BY <1>5, <1>7 DEF KnowsLock, Locking
  <2> QED BY <1>2, <1>7, <2>4, <2>5, <2>6, PeopledStep DEF Good, Stores
<1>14. Walks'
  <2>1. KnowsWalk(req'[p], members')
    BY <1>5, <1>7 DEF KnowsWalk, Walking
  <2> QED BY <1>6, <2>1 DEF Walks, Others
<1> QED BY <1>10, <1>11, <1>12, <1>13, <1>14 DEF Good, Stores

LEMMA ArrivalSteps ==
  ASSUME Good, NEW p \in Requests, UNCHANGED callVars,
         \/ CreateChannel(p) \/ OpenDirectMessage(p) \/ UpdateChannel(p) \/ AddChannelMember(p) \/ RemoveChannelMember(p)
         \/ ListChannelMembers(p) \/ ListChannels(p)
  PROVE  Begins(p)
BY CreateChannelIs, OpenDirectMessageIs, UpdateChannelIs, AddChannelMemberIs, RemoveChannelMemberIs, ListChannelMembersIs,
   ListChannelsIs DEF Good, Stores

LEMMA BeginSteps == ASSUME Good, NEW p \in Requests, Begins(p) PROVE Good'
BY BeginStores DEF Good, Begins

LEMMA ChannelSteps == ASSUME Good, NEW p \in Requests, ChannelStep(p), UNCHANGED callVars PROVE Good'
BY ArrivalSteps, BeginSteps, InsertChannelSteps, CommitSteps, EndSteps, AnnounceChannelSteps, UpdateTopicSteps,
   InsertMemberSteps, AnnounceAddedSteps, AnswerLostSteps, LockSteps, CountSteps, DeleteSteps, PageSteps DEF ChannelStep

-------------------------------------------------------------------------------
(* The steps of calls and conferences, for the tables and the requests.    *)

LEMMA RoomsAre ==
  /\ \A c \in ChannelIds : RoomFor(c) \in Rooms /\ RoomFor(c) \in ChannelRooms
  /\ \A k \in Conferences : ConferenceRoomFor(k) \in Rooms
  /\ \A c, k : RoomFor(c) # ConferenceRoomFor(k)
  /\ \A c, d : RoomFor(c) = RoomFor(d) => c = d
  /\ \A k, l : ConferenceRoomFor(k) = ConferenceRoomFor(l) => k = l
<1>1. \A c \in ChannelIds : RoomFor(c) \in Rooms /\ RoomFor(c) \in ChannelRooms
  BY DEF Rooms, ChannelRooms
<1>2. \A k \in Conferences : ConferenceRoomFor(k) \in Rooms
  BY DEF Rooms, ConferenceRooms
<1>3. \A c, k : RoomFor(c) # ConferenceRoomFor(k)
  BY DEF RoomFor, ConferenceRoomFor
<1>4. \A c, d : (RoomFor(c) = RoomFor(d) => c = d) /\ (ConferenceRoomFor(c) = ConferenceRoomFor(d) => c = d)
  BY DEF RoomFor, ConferenceRoomFor
<1> QED BY <1>1, <1>2, <1>3, <1>4

LEMMA OutageIs == ASSUME Typed, Outage PROVE outages' \in 0 .. MaxOutages
BY Constants DEF Typed, Media, Outage

Tabled == UNCHANGED <<storeVars, locked, active, budget, shown, raced, untold>>

LEMMA JoinTokenSteps == ASSUME Good, NEW p \in Requests, JoinToken(p) PROVE Good'
<1>1. Tabled /\ Done(p) /\ req[p].at = "mint"
  BY DEF JoinToken, Tabled
<1>2. req[p].on \in ChannelIds /\ req[p].by \in Identities
  BY <1>1, KnowsOf DEF KnowsRow, OnChannel, Identities
<1>3. rooms' \subseteq Rooms /\ tickets' \subseteq Rooms \X Identities
  BY <1>2, RoomsAre DEF JoinToken, ticket, Good, Typed, Media
<1>4. Media'
  BY <1>3 DEF JoinToken, Good, Typed, Media
<1>5. Stores' /\ req' \in [Requests -> Request]
  BY <1>1, DoneStores DEF Good, Tabled, Still, storeVars, Telling
<1> QED BY <1>1, <1>4, <1>5 DEF Good, Typed, Tables, Tabled, storeVars

LEMMA MintFailsSteps == ASSUME Good, NEW p \in Requests, MintFails(p) PROVE Good'
<1>1. Tabled /\ Done(p) /\ req[p].at \in {"mint", "mintGuest"}
  BY DEF MintFails, Tabled
<1>2. Media'
  BY OutageIs DEF MintFails, Good, Typed, Media
<1>3. Stores' /\ req' \in [Requests -> Request]
  BY <1>1, DoneStores DEF Good, Tabled, Still, storeVars, Telling
<1> QED BY <1>1, <1>2, <1>3 DEF Good, Typed, Tables, Tabled, storeVars

LEMMA GuestTokenSteps == ASSUME Good, NEW p \in Requests, GuestToken(p) PROVE Good'
<1>1. Tabled /\ Done(p) /\ req[p].at = "mintGuest"
  BY DEF GuestToken, Tabled
<1>2. req[p].on \in Conferences /\ req[p].who \in Identities
  BY <1>1, KnowsOf DEF KnowsRow, OnLink, Identities
<1>3. rooms' \subseteq Rooms /\ tickets' \subseteq Rooms \X Identities
  BY <1>2, RoomsAre DEF GuestToken, ticket, Good, Typed, Media
<1>4. slipped' \subseteq Conferences
  BY <1>2 DEF GuestToken, Good, Typed, Media
<1>5. Media'
  BY <1>3, <1>4 DEF GuestToken, Good, Typed, Media
<1>6. Stores' /\ req' \in [Requests -> Request]
  BY <1>1, DoneStores DEF Good, Tabled, Still, storeVars, Telling
<1> QED BY <1>1, <1>5, <1>6 DEF Good, Typed, Tables, Tabled, storeVars

LEMMA CloseConferenceSteps == ASSUME Good, NEW p \in Requests, CloseConference(p) PROVE Good'
<1>1. Tabled /\ req[p].at = "close" /\ Still
  BY DEF CloseConference, Tabled, Still, storeVars
<1>2. rooms' \subseteq Rooms /\ inRoom' \subseteq Rooms \X Identities /\ outages' \in 0 .. MaxOutages
  BY OutageIs DEF CloseConference, Good, Typed, Media
<1>3. Media'
  BY <1>2 DEF CloseConference, Good, Typed, Media
<1>4. Stores' /\ req' \in [Requests -> Request]
  <2>1. CASE Done(p)
    BY <1>1, <2>1, DoneStores DEF Good, Telling
  <2>2. CASE Goto(p, "revoke")
    <3>1. /\ req' \in [Requests -> Request] /\ Rest(p) /\ RestAlike(p) /\ req'[p].at = "revoke"
          /\ req'[p].on = req[p].on /\ req'[p].row = req[p].row
      BY <2>2, GotoIs, RestIsAlike DEF Good, Places, OnLink
    <3>2. KnowsRow(req'[p], channels, conferences)
      <4>1. KnowsRow(req[p], channels, conferences)
        BY KnowsOf
      <4> QED BY <1>1, <3>1, <4>1 DEF KnowsRow, Inserting, OnChannel, OnGroup, OnLink, Removing
    <3>3. Numbered' /\ Peopled' /\ Told'
      BY <1>1, <3>1, <3>2, SameRowStep, QuietStep, SilentStep DEF Good, Still, Locking, Telling
    <3>4. Walks'
      BY <1>1, <3>1, WalksStep DEF Good, Stores, Still, KnowsWalk, Walking
    <3> QED BY <3>1, <3>3, <3>4 DEF Stores
  <2> QED BY <2>1, <2>2 DEF CloseConference
<1> QED BY <1>1, <1>3, <1>4 DEF Good, Typed, Tables, Tabled, storeVars

LEMMA AnnounceRemovedSteps == ASSUME Good, NEW p \in Requests, AnnounceRemoved(p) PROVE Good'
<1>1. PICK c, v : c = req[p].on /\ v = req[p].who
  OBVIOUS
<1>2. /\ req[p].at = "removed" /\ shown' = shown \ {<<c, v>>} /\ untold' = untold \ {<<c, v>>} /\ ejecting' = ejecting \cup {<<RoomFor(c), v, 1>>}
      /\ Done(p) /\ UNCHANGED <<storeVars, locked, active, budget, raced>>
  BY <1>1 DEF AnnounceRemoved
<1>3. c \in ChannelIds /\ v \in Users
  BY <1>1, <1>2, KnowsOf DEF KnowsRow, OnChannel, OnGroup, Removing
<1>4. req' \in [Requests -> Request] /\ req'[p] = Idle /\ Rest(p) /\ RestAlike(p)
  BY <1>2, DoneIs, RestIsAlike DEF Good
<1>5. ejecting' \subseteq Rooms \X Users \X {1, 2}
  BY <1>2, <1>3, RoomsAre DEF Good, Typed, Media
<1>6. Media'
  BY <1>5 DEF AnnounceRemoved, Good, Typed, Media
<1>7. Tables'
  BY <1>2 DEF Good, Typed, Tables, storeVars
<1>8. Numbered' /\ Peopled' /\ Walks'
  BY <1>2, <1>4, IdleKnows, SameRowStep, QuietStep, WalksStep DEF Good, Stores, storeVars, Plain
<1>9. Told'
  <2>1. \A d, u : ~Tells(Idle, d, u)
    BY IdleIs DEF Tells
  <2>2. KnowsTold(Idle, members, raced)
    BY <2>1 DEF KnowsTold
  <2>3. \A q \in Others(p) : KnowsTold(req[q], members, raced)
    BY KnowsOf DEF Others
  <2>4. \A d \in ChannelIds, u \in Users : Tells(req[p], d, u) <=> <<d, u>> = <<c, v>>
    BY <1>1, <1>2 DEF Tells
  <2>5. ASSUME NEW d \in ChannelIds, NEW u \in Users, <<d, u>> \notin raced \cup untold'
        PROVE  (<<d, u>> \in shown' <=> <<d, u>> \in members) \/ TellsOther(p, d, u)
    <3>1. CASE <<d, u>> = <<c, v>>
      BY <1>2, <2>4, <2>5, <3>1, KnowsOf DEF KnowsTold
    <3>2. CASE <<d, u>> # <<c, v>>
      <4>1. (<<d, u>> \in shown' <=> <<d, u>> \in shown) /\ <<d, u>> \notin raced \cup untold
        BY <1>2, <2>5, <3>2
      <4> QED BY <2>4, <3>2, <4>1, ToldIs DEF Good, Stores
    <3> QED BY <3>1, <3>2
  <2> QED BY <1>2, <1>4, <2>2, <2>3, <2>5, ToldStep DEF storeVars
<1> QED BY <1>4, <1>6, <1>7, <1>8, <1>9 DEF Good, Typed, Stores

LEMMA RemovalLostSteps == ASSUME Good, NEW p \in Requests, RemovalAnswerLost(p) PROVE Good'
<1>1. PICK c, v : c = req[p].on /\ v = req[p].who
  OBVIOUS
<1>2. /\ req[p].at = "removed" /\ untold' = untold \cup {<<c, v>>} /\ kept' = kept \cup {<<RoomFor(c), v>>}
      /\ Done(p) /\ UNCHANGED <<storeVars, locked, active, budget, shown, raced>>
  BY <1>1 DEF RemovalAnswerLost
<1>3. c \in ChannelIds /\ v \in Users
  BY <1>1, <1>2, KnowsOf DEF KnowsRow, OnChannel, OnGroup, Removing
<1>4. req' \in [Requests -> Request] /\ req'[p] = Idle /\ Rest(p) /\ RestAlike(p)
  BY <1>2, DoneIs, RestIsAlike DEF Good
<1>5. kept' \subseteq Rooms \X Users
  BY <1>2, <1>3, RoomsAre DEF Good, Typed, Media
<1>6. Media'
  BY <1>5 DEF RemovalAnswerLost, Good, Typed, Media
<1>7. Tables'
  BY <1>2, <1>3 DEF Good, Typed, Tables, storeVars
<1>8. Numbered' /\ Peopled' /\ Walks'
  BY <1>2, <1>4, IdleKnows, SameRowStep, QuietStep, WalksStep DEF Good, Stores, storeVars, Plain
<1>9. Told'
  <2>1. \A d, u : ~Tells(Idle, d, u)
    BY IdleIs DEF Tells
  <2>2. KnowsTold(Idle, members, raced)
    BY <2>1 DEF KnowsTold
  <2>3. \A q \in Others(p) : KnowsTold(req[q], members, raced)
    BY KnowsOf DEF Others
  <2>4. \A d \in ChannelIds, u \in Users : Tells(req[p], d, u) <=> <<d, u>> = <<c, v>>
    BY <1>1, <1>2 DEF Tells
  <2>5. ASSUME NEW d \in ChannelIds, NEW u \in Users, <<d, u>> \notin raced \cup untold'
        PROVE  (<<d, u>> \in shown <=> <<d, u>> \in members) \/ TellsOther(p, d, u)
    BY <1>2, <2>4, <2>5, ToldIs DEF Good, Stores
  <2> QED BY <1>2, <1>4, <2>2, <2>3, <2>5, ToldStep DEF storeVars
<1> QED BY <1>4, <1>6, <1>7, <1>8, <1>9 DEF Good, Typed, Stores

\* Conferences change, and none is forgotten.
LEMMA ConferenceStays ==
  ASSUME Good, UNCHANGED channels, \A k \in Conferences : conferences[k].state # "none" => conferences'[k].state # "none",
         NEW q \in Requests
  PROVE  KnowsRow(req[q], channels', conferences')
<1>1. KnowsRow(req[q], channels, conferences)
  BY KnowsOf
<1>2. req[q].at \in {"close", "revoke"} => req[q].on \in Conferences /\ conferences'[req[q].on].state # "none"
  BY <1>1 DEF KnowsRow, OnLink
<1> QED BY <1>1, <1>2 DEF KnowsRow

LEMMA ConferenceSteps ==
  ASSUME Good, NEW p \in Requests, req' = [req EXCEPT ![p] = Idle], req[p].at \notin Telling,
         conferences' \in [Conferences -> Store!ConferenceRow],
         \A k \in Conferences : conferences[k].state # "none" => conferences'[k].state # "none",
         budget' \in [Operations -> Nat], UNCHANGED <<channels, members, locked, active, shown, raced, untold, callVars>>
  PROVE  Good'
<1>1. req' \in [Requests -> Request] /\ req'[p] = Idle /\ Rest(p) /\ RestAlike(p)
  BY DoneIs, RestIsAlike DEF Good, Done
<1>2. Typed'
  BY <1>1 DEF Good, Typed, Tables, Media, callVars
<1>3. Numbered'
  <2>1. \A q \in Others(p) : KnowsRow(req[q], channels', conferences') /\ ApartRows(Idle, req[q])
    BY ConferenceStays, IdleIs DEF Others, ApartRows
  <2>2. KnowsRow(Idle, channels', conferences')
    BY IdleIs DEF KnowsRow, Inserting, OnChannel, OnGroup, OnLink, Removing
  <2> QED BY <1>1, <2>1, <2>2, NumberedStep DEF Good, Stores, Numbered
<1>4. Peopled' /\ Told' /\ Walks'
  BY <1>1, IdleKnows, IdleIs, QuietStep, SilentStep, WalksStep DEF Good, Stores, Locking, Telling
<1> QED BY <1>2, <1>3, <1>4 DEF Good, Stores

LEMMA CreateConferenceSteps == ASSUME Good, NEW p \in Requests, CreateConference(p) PROVE Good'
<1>1. PICK u \in Users, k \in Conferences :
        /\ Arrive(p, "CreateConference", u, Idle)
        /\ conferences' = [conferences EXCEPT ![k] = [state |-> "live", by |-> u]]
        /\ UNCHANGED <<channels, members, locked, active, shown, raced, untold, callVars>>
  BY DEF CreateConference
<1>2. PICK row : row = [state |-> "live", by |-> u]
  OBVIOUS
<1>3. row \in Store!ConferenceRow /\ row.state = "live"
  BY <1>2, Constants
<1>4. /\ conferences' \in [Conferences -> Store!ConferenceRow]
      /\ \A l \in Conferences : conferences[l].state # "none" => conferences'[l].state # "none"
  BY <1>1, <1>2, <1>3 DEF Good, Typed, Tables
<1>5. budget' \in [Operations -> Nat]
  BY <1>1 DEF Arrive, Operations, Good, Typed, Tables
<1>6. req' = [req EXCEPT ![p] = Idle] /\ req[p].at \notin Telling
  BY <1>1 DEF Arrive, Telling
<1> QED BY <1>1, <1>4, <1>5, <1>6, ConferenceSteps

LEMMA StateChanges ==
  ASSUME Typed, NEW k \in Conferences, NEW st \in {"expired", "revoked"}, conferences' = [conferences EXCEPT ![k].state = st]
  PROVE  /\ conferences' \in [Conferences -> Store!ConferenceRow] /\ conferences'[k].state = st
         /\ \A l \in Conferences : conferences[l].state # "none" => conferences'[l].state # "none"
         /\ \A l \in Conferences \ {k} : conferences'[l] = conferences[l]
<1>1. PICK row : row = [conferences[k] EXCEPT !.state = st]
  OBVIOUS
<1>2. conferences[k] \in Store!ConferenceRow
  BY DEF Typed, Tables
<1>3. row \in Store!ConferenceRow /\ row.state = st
  BY <1>1, <1>2, Constants
<1>4. conferences' = [conferences EXCEPT ![k] = row]
  BY <1>1
<1> QED BY <1>3, <1>4 DEF Typed, Tables

LEMMA MarkRevokedSteps == ASSUME Good, NEW p \in Requests, MarkRevoked(p) PROVE Good'
<1>1. req[p].at = "revoke" /\ req[p].on \in Conferences
  BY KnowsOf DEF MarkRevoked, KnowsRow, OnLink
<1>2. /\ conferences' = [conferences EXCEPT ![req[p].on].state = "revoked"] /\ req' = [req EXCEPT ![p] = Idle]
      /\ UNCHANGED <<channels, members, locked, active, budget, shown, raced, untold, callVars>>
  BY DEF MarkRevoked, Done
<1>3. /\ conferences' \in [Conferences -> Store!ConferenceRow]
      /\ \A l \in Conferences : conferences[l].state # "none" => conferences'[l].state # "none"
  BY <1>1, <1>2, StateChanges DEF Good
<1>4. budget' \in [Operations -> Nat]
  BY <1>2 DEF Good, Typed, Tables
<1> QED BY <1>1, <1>2, <1>3, <1>4, ConferenceSteps DEF Telling

LEMMA StoresStay ==
  ASSUME Good, UNCHANGED <<channels, members, locked, shown, raced, untold, req>>,
         \A k \in Conferences : conferences[k].state # "none" => conferences'[k].state # "none"
  PROVE  Stores'
<1>1. Numbered'
  BY ConferenceStays DEF Good, Stores, Numbered
<1>2. Peopled' /\ Told' /\ Walks'
  BY DEF Good, Stores, Peopled, Told, Walks
<1> QED BY <1>1, <1>2 DEF Stores

LEMMA ConferenceExpiresSteps == ASSUME Good, NEW k \in Conferences, ConferenceExpires(k) PROVE Good'
<1>1. /\ conferences' = [conferences EXCEPT ![k].state = "expired"]
      /\ UNCHANGED <<channels, members, locked, active, req, budget, shown, raced, untold, callVars>>
  BY DEF ConferenceExpires
<1>2. /\ conferences' \in [Conferences -> Store!ConferenceRow]
      /\ \A l \in Conferences : conferences[l].state # "none" => conferences'[l].state # "none"
  BY <1>1, StateChanges DEF Good
<1>3. Typed'
  BY <1>1, <1>2 DEF Good, Typed, Tables, Media, callVars
<1> QED BY <1>1, <1>2, <1>3, StoresStay DEF Good

LEMMA DeactivateUserSteps == ASSUME Good, NEW u \in Users, DeactivateUser(u) PROVE Good'
<1>1. /\ budget' = [budget EXCEPT !["DeactivateUser"] = @ - 1] /\ budget["DeactivateUser"] > 0
      /\ active' = active \ {u} /\ sweeping' = sweeping \cup {u}
      /\ UNCHANGED <<channels, members, conferences, locked, req, shown, raced, untold>>
  BY DEF DeactivateUser, storeVars
<1>2. budget' \in [Operations -> Nat]
  BY <1>1 DEF Good, Typed, Tables, Operations
<1>3. Media'
  BY <1>1 DEF DeactivateUser, Good, Typed, Media
<1>4. Typed'
  BY <1>1, <1>2, <1>3 DEF Good, Typed, Tables
<1> QED BY <1>1, <1>4, StoresStay DEF Good

\* What LiveKit and the deliveries do leaves the tables and the requests alone.
LEMMA MediaSteps == ASSUME Good, Media', UNCHANGED channelVars PROVE Good'
<1>1. UNCHANGED <<channels, members, conferences, locked, active, req, budget, shown, raced, untold>>
  BY DEF channelVars, storeVars
<1>2. Typed'
  BY <1>1 DEF Good, Typed, Tables
<1> QED BY <1>1, <1>2, StoresStay DEF Good

LEMMA ReportIs == ASSUME Typed, NEW R, Report(R) PROVE pending' \subseteq ChannelIds
BY DEF Typed, Media, Report

LEMMA EjectEverywhereSteps == ASSUME Good, NEW u \in Users, EjectEverywhere(u) PROVE Good'
<1>1. ejecting' \subseteq Rooms \X Users \X {1, 2}
  <2>1. \A r \in rooms : r \in Rooms
    BY DEF Good, Typed, Media
  <2> QED BY <2>1 DEF EjectEverywhere, Good, Typed, Media
<1>2. kept' \subseteq Rooms \X Users /\ outages' \in 0 .. MaxOutages
  <2>1. \A r \in rooms : r \in Rooms
    BY DEF Good, Typed, Media
  <2> QED BY <2>1, OutageIs DEF EjectEverywhere, Good, Typed, Media
<1>3. sweeping' \subseteq Users
  BY DEF EjectEverywhere, Good, Typed, Media
<1>4. Media'
  BY <1>1, <1>2, <1>3 DEF EjectEverywhere, Good, Typed, Media
<1> QED BY <1>4, MediaSteps DEF EjectEverywhere

LEMMA EjectionIs ==
  ASSUME Typed, NEW e \in ejecting
  PROVE  e[1] \in Rooms /\ e[2] \in Users /\ e[3] \in {1, 2} /\ e = <<e[1], e[2], e[3]>>
<1>1. e \in Rooms \X Users \X {1, 2}
  BY DEF Typed, Media
<1> QED BY <1>1

LEMMA ejectWithRetrySteps == ASSUME Good, NEW e \in ejecting, ejectWithRetry(e) PROVE Good'
<1>1. e[1] \in Rooms /\ e[2] \in Users
  BY EjectionIs DEF Good
<1>2. ejecting' \subseteq Rooms \X Users \X {1, 2}
  BY <1>1 DEF ejectWithRetry, Good, Typed, Media
<1>3. kept' \subseteq Rooms \X Users
  BY <1>1 DEF ejectWithRetry, Good, Typed, Media
<1>4. inRoom' \subseteq Rooms \X Identities
  BY DEF ejectWithRetry, Good, Typed, Media
<1>5. pending' \subseteq ChannelIds /\ outages' \in 0 .. MaxOutages
  BY OutageIs, ReportIs DEF ejectWithRetry, Good, Typed, Media
<1>6. Media'
  BY <1>2, <1>3, <1>4, <1>5 DEF ejectWithRetry, Good, Typed, Media
<1> QED BY <1>6, MediaSteps DEF ejectWithRetry

LEMMA TicketIs ==
  ASSUME Typed, NEW t \in tickets \cup inRoom PROVE t[1] \in Rooms /\ t[2] \in Identities /\ t = <<t[1], t[2]>>
<1>1. t \in Rooms \X Identities
  BY DEF Typed, Media
<1> QED BY <1>1

LEMMA JoinRoomSteps == ASSUME Good, NEW t \in tickets, JoinRoom(t) PROVE Good'
<1>1. t[1] \in Rooms /\ t[2] \in Identities /\ t = <<t[1], t[2]>> /\ t \in Rooms \X Identities
  BY TicketIs DEF Good
<1>2. inRoom' \subseteq Rooms \X Identities
  BY <1>1 DEF JoinRoom, Good, Typed, Media
<1>3. kept' \subseteq Rooms \X Users
  <2>1. t[2] \in Users => t \in Rooms \X Users
    BY <1>1
  <2> QED BY <2>1 DEF JoinRoom, Good, Typed, Media
<1>4. Media'
  BY <1>2, <1>3, ReportIs DEF JoinRoom, Good, Typed, Media
<1> QED BY <1>4, MediaSteps DEF JoinRoom

LEMMA LeaveRoomSteps == ASSUME Good, NEW t \in inRoom, LeaveRoom(t) PROVE Good'
<1>1. Media'
  BY ReportIs DEF LeaveRoom, Good, Typed, Media
<1> QED BY <1>1, MediaSteps DEF LeaveRoom

LEMMA TicketExpiresSteps == ASSUME Good, NEW t, TicketExpires(t) PROVE Good'
<1>1. Media'
  BY DEF TicketExpires, Good, Typed, Media
<1> QED BY <1>1, MediaSteps DEF TicketExpires

LEMMA EmptyRoomClosesSteps == ASSUME Good, NEW r, EmptyRoomCloses(r) PROVE Good'
<1>1. Media'
  BY DEF EmptyRoomCloses, Good, Typed, Media
<1> QED BY <1>1, MediaSteps DEF EmptyRoomCloses

\* A delivery is not alone any more.
Joined(d) == [d EXCEPT !.alone = FALSE]
LEMMA JoinedIs ==
  ASSUME NEW d \in Delivery
  PROVE  /\ Joined(d) \in Delivery /\ ~Joined(d).alone /\ Joined(d).at = d.at /\ Joined(d).ch = d.ch
         /\ Joined(d).active = d.active /\ Joined(d).label = d.label
BY DEF Joined, Delivery

\* What a read leaves in the deliveries of the channel.
Reading(h, c) == [at |-> "read", ch |-> c, active |-> CallRuns(c), label |-> "none", alone |-> Busy(c) = {}]

LEMMA CallRunsIs == \A c : (CallRuns(c) \in BOOLEAN) /\ (CallRuns(c) <=> Runs(inRoom, c))
BY DEF CallRuns, Runs

LEMMA ReadingIs ==
  ASSUME NEW h, NEW c \in ChannelIds
  PROVE  /\ Reading(h, c) \in Delivery /\ Reading(h, c).at = "read" /\ Reading(h, c).ch = c
         /\ Reading(h, c).active <=> Runs(inRoom, c)
         /\ Reading(h, c).alone <=> Busy(c) = {}
<1>1. PICK a, b : a = CallRuns(c) /\ b = (Busy(c) = {})
  OBVIOUS
<1>2. a \in BOOLEAN /\ b \in BOOLEAN
  BY <1>1, CallRunsIs
<1>3. PICK d : d = [at |-> "read", ch |-> c, active |-> a, label |-> "none", alone |-> b]
  OBVIOUS
<1>4. Reading(h, c) = d
  BY <1>1, <1>3 DEF Reading
<1>5. d \in Delivery /\ d.at = "read" /\ d.ch = c /\ d.active = a /\ d.alone = b
  BY <1>2, <1>3 DEF Delivery
<1> QED BY <1>1, <1>4, <1>5, CallRunsIs

LEMMA HookReadsIs ==
  ASSUME Typed, NEW h \in Hooks, NEW c \in ChannelIds, HookReads(h, c)
  PROVE  /\ hook[h].at = "idle" /\ c \in pending /\ pending' \subseteq pending /\ pending \subseteq pending' \cup {c}
         /\ \A g \in Hooks \ {h} : hook'[g] = IF hook[g].ch = c THEN Joined(hook[g]) ELSE hook[g]
         /\ \/ hook'[h] = Reading(h, c) /\ muddied' = (IF Busy(c) = {} THEN muddied ELSE muddied \cup {c}) /\ UNCHANGED outages
            \/ Outage /\ hook'[h] = (IF hook[h].ch = c THEN Joined(hook[h]) ELSE hook[h]) /\ muddied' = muddied \cup {c}
         /\ hook' \in [Hooks -> Delivery]
         /\ UNCHANGED <<channelVars, rooms, inRoom, tickets, ejecting, sweeping, announced, banner, kept, slipped>>
<1>1. /\ hook[h].at = "idle" /\ c \in pending /\ pending' \subseteq pending /\ pending \subseteq pending' \cup {c}
      /\ UNCHANGED <<channelVars, rooms, inRoom, tickets, ejecting, sweeping, announced, banner, kept, slipped>>
  BY DEF HookReads
<1>2. \A g \in Hooks : hook[g] \in Delivery /\ Joined(hook[g]) \in Delivery
  BY JoinedIs DEF Typed, Media
<1>3. CASE /\ hook' = [g \in Hooks |-> IF g = h THEN Reading(h, c) ELSE IF hook[g].ch = c THEN Joined(hook[g]) ELSE hook[g]]
           /\ muddied' = (IF Busy(c) = {} THEN muddied ELSE muddied \cup {c}) /\ UNCHANGED outages
  <2>1. \A g \in Hooks : hook'[g] \in Delivery
    BY <1>2, <1>3, ReadingIs
  <2>2. hook' \in [Hooks -> Delivery]
    BY <1>3, <2>1
  <2> QED BY <1>1, <1>3, <2>2
<1>4. CASE /\ Outage /\ hook' = [g \in Hooks |-> IF hook[g].ch = c THEN Joined(hook[g]) ELSE hook[g]]
           /\ muddied' = muddied \cup {c}
  <2>1. \A g \in Hooks : hook'[g] \in Delivery
    BY <1>2, <1>4
  <2>2. hook' \in [Hooks -> Delivery]
    BY <1>4, <2>1
  <2> QED BY <1>1, <1>4, <2>2
<1> QED BY <1>3, <1>4 DEF HookReads, Joined, Reading

LEMMA HookReadsSteps == ASSUME Good, NEW h \in Hooks, NEW c \in ChannelIds, HookReads(h, c) PROVE Good'
<1>1. /\ hook' \in [Hooks -> Delivery] /\ pending' \subseteq pending /\ muddied' \subseteq muddied \cup {c} /\ (Outage \/ UNCHANGED outages)
      /\ UNCHANGED <<channelVars, rooms, inRoom, tickets, ejecting, sweeping, announced, banner, kept, slipped>>
  BY HookReadsIs DEF Good
<1>2. Media'
  BY <1>1, OutageIs DEF Good, Typed, Media
<1> QED BY <1>1, <1>2, MediaSteps

LEMMA TransitionIs ==
  ASSUME Typed, NEW h \in Hooks, Transition(h)
  PROVE  /\ hook[h].at = "read" /\ hook' \in [Hooks -> Delivery] /\ \A g \in Hooks \ {h} : hook'[g] = hook[g]
         /\ hook'[h].at = "announce" /\ hook'[h].ch = hook[h].ch /\ hook'[h].active = hook[h].active /\ hook'[h].alone = hook[h].alone
         /\ hook'[h].label \in {"Started", "Updated"} <=> hook[h].active
         /\ hook'[h].label = "none" => hook[h].ch \notin announced
         /\ announced' = IF hook[h].active THEN announced \cup {hook[h].ch} ELSE announced \ {hook[h].ch}
         /\ UNCHANGED <<channelVars, rooms, inRoom, tickets, ejecting, sweeping, pending, banner, outages, kept, muddied, slipped>>
<1>1. PICK lb : lb = IF hook[h].active THEN (IF hook[h].ch \in announced THEN "Updated" ELSE "Started")
                     ELSE (IF hook[h].ch \in announced THEN "Ended" ELSE "none")
  OBVIOUS
<1>2. PICK d : d = [hook[h] EXCEPT !.at = "announce", !.label = lb]
  OBVIOUS
<1>3. hook[h] \in Delivery /\ hook \in [Hooks -> Delivery]
  BY DEF Typed, Media
<1>4. lb \in {"none", "Started", "Updated", "Ended"} /\ (lb \in {"Started", "Updated"} <=> hook[h].active) /\ (lb = "none" => hook[h].ch \notin announced)
  BY <1>1
<1>5. d \in Delivery /\ d.at = "announce" /\ d.label = lb /\ d.ch = hook[h].ch /\ d.active = hook[h].active /\ d.alone = hook[h].alone
  BY <1>2, <1>3, <1>4 DEF Delivery
<1>6. hook' = [hook EXCEPT ![h] = d]
  BY <1>1, <1>2 DEF Transition
<1>7. hook' \in [Hooks -> Delivery] /\ hook'[h] = d /\ \A g \in Hooks \ {h} : hook'[g] = hook[g]
  BY <1>3, <1>5, <1>6
<1> QED BY <1>4, <1>5, <1>7 DEF Transition

LEMMA ChannelOf == ASSUME Good, Bannered, NEW h \in Hooks, hook[h].at # "idle" PROVE hook[h].ch \in ChannelIds /\ hook[h] \in Delivery
<1>1. hook[h] \in Delivery
  BY DEF Good, Typed, Media
<1>2. hook[h].ch # 0
  BY DEF Bannered, KnowsCall
<1> QED BY <1>1, <1>2 DEF Delivery

LEMMA TransitionSteps == ASSUME Good, Bannered, NEW h \in Hooks, Transition(h) PROVE Good'
<1>1. /\ hook' \in [Hooks -> Delivery] /\ announced' \subseteq announced \cup {hook[h].ch} /\ hook[h].at = "read"
      /\ UNCHANGED <<channelVars, rooms, inRoom, tickets, ejecting, sweeping, pending, banner, outages, kept, muddied, slipped>>
  BY TransitionIs DEF Good
<1>2. hook[h].ch \in ChannelIds
  BY <1>1, ChannelOf
<1>3. Media'
  BY <1>1, <1>2 DEF Good, Typed, Media
<1> QED BY <1>1, <1>3, MediaSteps

LEMMA NoHookIs == NoHook \in Delivery /\ NoHook.at = "idle" /\ NoHook.ch = 0
BY DEF NoHook, Delivery

LEMMA announceCallIs ==
  ASSUME Typed, NEW h \in Hooks, announceCall(h)
  PROVE  /\ hook[h].at = "announce" /\ hook' \in [Hooks -> Delivery] /\ hook'[h] = NoHook /\ \A g \in Hooks \ {h} : hook'[g] = hook[g]
         /\ hook[h].label = "Ended" => banner' = banner \ {hook[h].ch}
         /\ hook[h].label = "none" => banner' = banner
         /\ hook[h].label \in {"Started", "Updated"} => banner' = banner \cup {hook[h].ch}
         /\ muddied' = IF hook[h].label # "none" /\ hook[h].alone THEN muddied \ {hook[h].ch} ELSE muddied
         /\ UNCHANGED <<channelVars, rooms, inRoom, tickets, ejecting, sweeping, announced, pending, outages, kept, slipped>>
<1>1. hook' = [hook EXCEPT ![h] = NoHook] /\ hook \in [Hooks -> Delivery]
  BY DEF announceCall, Typed, Media
<1>2. hook' \in [Hooks -> Delivery] /\ hook'[h] = NoHook /\ \A g \in Hooks \ {h} : hook'[g] = hook[g]
  BY <1>1, NoHookIs
<1> QED BY <1>2 DEF announceCall

LEMMA announceCallSteps == ASSUME Good, Bannered, NEW h \in Hooks, announceCall(h) PROVE Good'
<1>1. hook[h].at = "announce"
  BY DEF announceCall
<1>2. hook[h].ch \in ChannelIds /\ hook[h].label \in {"none", "Started", "Updated", "Ended"}
  BY <1>1, ChannelOf DEF Delivery
<1>3. /\ hook' \in [Hooks -> Delivery] /\ banner' \subseteq banner \cup {hook[h].ch} /\ muddied' \subseteq muddied
      /\ UNCHANGED <<channelVars, rooms, inRoom, tickets, ejecting, sweeping, announced, pending, outages, kept, slipped>>
  BY <1>2, announceCallIs DEF Good
<1>4. Media'
  BY <1>2, <1>3 DEF Good, Typed, Media
<1> QED BY <1>3, <1>4, MediaSteps

LEMMA NextGood == Good /\ Bannered /\ Next => Good'
<1> SUFFICES ASSUME Good, Bannered, Next PROVE Good'
  OBVIOUS
<1>1. ASSUME NEW p \in Requests, ChannelStep(p), UNCHANGED callVars PROVE Good'
  BY <1>1, ChannelSteps
<1>2. ASSUME NEW p \in Requests, CreateCallToken(p) \/ RevokeConference(p) \/ JoinConference(p) PROVE Good'
  BY <1>2, BeginSteps, CreateCallTokenIs, RevokeConferenceIs, JoinConferenceIs DEF Good
<1>3. ASSUME NEW p \in Requests,
             \/ JoinToken(p) \/ MintFails(p) \/ AnnounceRemoved(p) \/ RemovalAnswerLost(p) \/ CreateConference(p) \/ CloseConference(p) \/ MarkRevoked(p)
             \/ GuestToken(p)
      PROVE  Good'
  BY <1>3, JoinTokenSteps, MintFailsSteps, AnnounceRemovedSteps, RemovalLostSteps, CreateConferenceSteps, CloseConferenceSteps, MarkRevokedSteps, GuestTokenSteps
<1>4. ASSUME NEW u \in Users, DeactivateUser(u) \/ EjectEverywhere(u) PROVE Good'
  BY <1>4, DeactivateUserSteps, EjectEverywhereSteps
<1>5. ASSUME NEW e \in ejecting, ejectWithRetry(e) PROVE Good'
  BY <1>5, ejectWithRetrySteps
<1>6. ASSUME NEW t \in tickets, JoinRoom(t) \/ TicketExpires(t) PROVE Good'
  BY <1>6, JoinRoomSteps, TicketExpiresSteps
<1>7. ASSUME NEW t \in inRoom, LeaveRoom(t) PROVE Good'
  BY <1>7, LeaveRoomSteps
<1>8. ASSUME NEW r \in rooms, EmptyRoomCloses(r) PROVE Good'
  BY <1>8, EmptyRoomClosesSteps
<1>9. ASSUME NEW k \in Conferences, ConferenceExpires(k) PROVE Good'
  BY <1>9, ConferenceExpiresSteps
<1>10. ASSUME NEW h \in Hooks, Transition(h) \/ announceCall(h) \/ \E c \in ChannelIds : HookReads(h, c) PROVE Good'
  BY <1>10, TransitionSteps, announceCallSteps, HookReadsSteps
<1> QED BY <1>1, <1>2, <1>3, <1>4, <1>5, <1>6, <1>7, <1>8, <1>9, <1>10 DEF Next

-------------------------------------------------------------------------------
(* Who is in a room and may not be.                                        *)

\* What a request on channels does to requests and memberships, as far as
\* calls are concerned.
Shape(p) ==
  /\ RestAlike(p) /\ UNCHANGED <<conferences, active>> /\ req[p].at # "removed" /\ req'[p].at # "revoke"
  /\ \A c \in ChannelIds, u \in Users : <<c, u>> \in members =>
       <<c, u>> \in members' \/ (req'[p].at = "removed" /\ req'[p].on = c /\ req'[p].who = u)

LEMMA DoneShape ==
  ASSUME Good, NEW p \in Requests, Done(p), UNCHANGED <<members, conferences, active>>, req[p].at # "removed" PROVE Shape(p)
BY DoneIs, RestIsAlike, IdleIs DEF Good, Shape

LEMMA GotoShape ==
  ASSUME Good, NEW p \in Requests, NEW at \in Places \ {"revoke"}, Goto(p, at), members \subseteq members', UNCHANGED <<conferences, active>>,
         req[p].at # "removed"
  PROVE  Shape(p)
BY GotoIs, RestIsAlike DEF Good, Shape

LEMMA BeginShape == ASSUME NEW p \in Requests, Begins(p) PROVE Shape(p)
BY RestIsAlike DEF Begins, Only, storeVars, Plain, Shape

LEMMA PageShape == ASSUME Good, NEW p \in Requests, MembersPage(p) \/ ChannelsPage(p) PROVE Shape(p)
<1>1. UNCHANGED <<members, conferences, active>> /\ req[p].at \in Walking
  BY DEF MembersPage, ChannelsPage, storeVars, Walking
<1>2. CASE Done(p)
  BY <1>1, <1>2, DoneShape DEF Walking
<1>3. ASSUME NEW S, S \subseteq Users \/ S \subseteq ChannelIds, req' = [req EXCEPT ![p] = AfterPage(req[p], S)] PROVE Shape(p)
  <2>1. PICK n \in Nat : Users \subseteq 0 .. n /\ ChannelIds \subseteq 0 .. n
    BY Constants
  <2>2. S \subseteq 0 .. n /\ req[p] \in Request
    BY <1>3, <2>1, KnowsOf
  <2>3. PICK s : s = AfterPage(req[p], S)
    OBVIOUS
  <2>4. s \in Request /\ WentOn(s, req[p], S)
    BY <1>1, <2>2, <2>3, AfterIs
  <2>5. s.at # "revoke"
    BY <1>1, <2>4 DEF WentOn, Turned, Walking
  <2>6. req'[p] = s /\ Rest(p)
    BY <1>3, <2>3, <2>4, MovedIs DEF Good
  <2> QED BY <1>1, <2>5, <2>6, RestIsAlike DEF Shape, Walking
<1>4. \A c, u : Members(c) \subseteq Users /\ ChannelsOf(u) \subseteq ChannelIds
  BY MembersAre DEF ChannelsOf, In
<1> QED BY <1>2, <1>3, <1>4 DEF MembersPage, ChannelsPage

LEMMA ChannelShape == ASSUME Good, NEW p \in Requests, ChannelStep(p), UNCHANGED callVars PROVE Shape(p)
<1>1. CASE \/ CreateChannel(p) \/ OpenDirectMessage(p) \/ UpdateChannel(p) \/ AddChannelMember(p) \/ RemoveChannelMember(p)
           \/ ListChannelMembers(p) \/ ListChannels(p)
  BY <1>1, ArrivalSteps, BeginShape
<1>2. CASE InsertChannel(p)
  <2>1. CASE Done(p)
    BY <1>2, <2>1, DoneShape DEF InsertChannel, storeVars
  <2>2. CASE req' = [req EXCEPT ![p].at = "inserted", ![p].on = FreeId]
    <3>1. req \in [Requests -> Request]
      BY DEF Good, Typed
    <3>2. req'[p].at = "inserted" /\ Rest(p)
      BY <2>2, <3>1 DEF Rest, Request
    <3> QED BY <1>2, <3>2, RestIsAlike DEF Shape, InsertChannel, storeVars
  <2> QED BY <1>2, <2>1, <2>2 DEF InsertChannel
<1>3. CASE CommitChannel(p)
  <2>1. req \in [Requests -> Request]
    BY DEF Good, Typed
  <2>2. req' = [req EXCEPT ![p].at = "announce", ![p].row = NoRow] /\ members \subseteq members'
    BY <1>3 DEF CommitChannel
  <2>3. req'[p].at = "announce" /\ Rest(p)
    BY <2>1, <2>2 DEF Rest, Request
  <2> QED BY <1>3, <2>2, <2>3, RestIsAlike DEF Shape, CommitChannel
<1>4. CASE RollbackChannel(p) \/ AnnounceChannel(p) \/ UpdateChannelTopic(p) \/ AnnounceAdded(p) \/ CommitAnswerLost(p) \/ FinishList(p)
  BY <1>4, DoneShape DEF RollbackChannel, AnnounceChannel, UpdateChannelTopic, AnnounceAdded, CommitAnswerLost, FinishList, storeVars
<1>5. CASE InsertMember(p)
  <2>1. CASE Done(p) /\ UNCHANGED members
    BY <1>5, <2>1, DoneShape DEF InsertMember
  <2>2. CASE Goto(p, "added") /\ members \subseteq members'
    BY <1>5, <2>2, GotoShape DEF InsertMember, Places, OnChannel, OnGroup
  <2> QED BY <1>5, <2>1, <2>2 DEF InsertMember
<1>6. CASE LockChannel(p)
  BY <1>6, GotoShape DEF LockChannel, storeVars, Places, OnChannel, OnGroup, Removing
<1>7. CASE CountMembers(p)
  <2>1. CASE Done(p)
    BY <1>7, <2>1, DoneShape DEF CountMembers, storeVars
  <2>2. CASE Goto(p, "delete")
    BY <1>7, <2>2, GotoShape DEF CountMembers, storeVars, Places, OnChannel, OnGroup, Removing
  <2> QED BY <1>7, <2>1, <2>2 DEF CountMembers
<1>8. CASE DeleteMember(p)
  <2>1. PICK c, v : c = req[p].on /\ v = req[p].who
    OBVIOUS
  <2>2. /\ req[p].at = "delete" /\ members' = members \ {<<c, v>>} /\ UNCHANGED <<conferences, active>>
        /\ req' = [q \in Requests |-> IF q = p THEN [req[p] EXCEPT !.at = "removed"] ELSE Leaves(req[q], c, v)]
    BY <1>8, <2>1 DEF DeleteMember
  <2>3. req[p] \in Request /\ c \in ChannelIds /\ v \in Users
    BY <2>1, <2>2, KnowsOf DEF KnowsRow, OnChannel, OnGroup, Removing
  <2>4. req'[p].at = "removed" /\ req'[p].on = c /\ req'[p].who = v
    BY <2>1, <2>2, <2>3 DEF Request
  <2>5. ASSUME NEW q \in Others(p) PROVE Alike(req'[q], req[q])
    <3>1. q \in Requests /\ q # p /\ req[q] \in Request /\ KnowsWalk(req[q], members)
      BY KnowsOf DEF Others
    <3>2. req'[q] = Leaves(req[q], c, v)
      BY <2>2, <3>1
    <3> QED BY <2>3, <3>1, <3>2, LeavesIs
  <2> QED BY <2>2, <2>4, <2>5 DEF Shape, RestAlike
<1>9. CASE MembersPage(p) \/ ChannelsPage(p)
  BY <1>9, PageShape
<1> QED BY <1>1, <1>2, <1>3, <1>4, <1>5, <1>6, <1>7, <1>8, <1>9 DEF ChannelStep

LEMMA AlikeRemoves == ASSUME NEW s, NEW r, Alike(s, r), NEW G, NEW S PROVE (\A x, u : Removes(s, x, u) <=> Removes(r, x, u)) /\ (Closed(r, G, S) => Closed(s, G, S))
BY DEF Alike, Removes, Closed

LEMMA MindedStays ==
  ASSUME NEW p \in Requests, RestAlike(p), req[p].at # "removed", kept \subseteq kept', sweeping \subseteq sweeping', ejecting \subseteq ejecting',
         NEW r, NEW u, Minded(kept, sweeping, ejecting, req, r, u)
  PROVE  Minded(kept', sweeping', ejecting', req', r, u)
<1>1. \A q \in Requests : Removes(req[q], r, u) => q \in Others(p)
  BY DEF Removes, Others
<1>2. \A q \in Others(p) : Removes(req[q], r, u) => Removes(req'[q], r, u) /\ q \in Requests
  BY AlikeRemoves DEF RestAlike, Others
<1> QED BY <1>1, <1>2 DEF Minded

LEMMA AttendedShape ==
  ASSUME Attended, NEW p \in Requests, Shape(p), UNCHANGED <<rooms, inRoom, kept, sweeping, ejecting>> PROVE Attended'
<1>1. \A t \in inRoom' : t[1] \in rooms'
  BY DEF Attended
<1>2. ASSUME NEW r \in ChannelRooms, NEW u \in Users, <<r, u>> \in inRoom'
      PROVE  May(active', members', r, u) \/ Minded(kept', sweeping', ejecting', req', r, u)
  <2>1. CASE May(active, members, r, u)
    <3>1. PICK c \in ChannelIds : r = RoomFor(c) /\ <<c, u>> \in members
      BY <2>1 DEF May
    <3>2. CASE <<c, u>> \in members'
      BY <2>1, <3>1, <3>2 DEF May, Shape
    <3>3. CASE req'[p].at = "removed" /\ req'[p].on = c /\ req'[p].who = u
      BY <3>1, <3>3 DEF Minded, Removes
    <3> QED BY <3>1, <3>2, <3>3 DEF Shape
  <2>2. CASE Minded(kept, sweeping, ejecting, req, r, u)
    BY <2>2, MindedStays DEF Shape
  <2> QED BY <1>2, <2>1, <2>2 DEF Attended
<1> QED BY <1>1, <1>2 DEF Attended

LEMMA AttendedCalm ==
  ASSUME Attended, NEW p \in Requests, RestAlike(p), req[p].at # "removed", UNCHANGED <<active, members, kept, sweeping, ejecting>>,
         inRoom' \subseteq inRoom, \A t \in inRoom' : t[1] \in rooms'
  PROVE  Attended'
<1>1. ASSUME NEW r \in ChannelRooms, NEW u \in Users, <<r, u>> \in inRoom'
      PROVE  May(active', members', r, u) \/ Minded(kept', sweeping', ejecting', req', r, u)
  BY <1>1, MindedStays DEF Attended
<1> QED BY <1>1 DEF Attended

\* A step of no request: whoever comes in may or is kept, and nobody who is in
\* loses the one who sees to it.
LEMMA AttendedStep ==
  ASSUME Attended, UNCHANGED <<members, req>>, \A t \in inRoom' : t[1] \in rooms',
         \A r \in ChannelRooms, u \in Users : <<r, u>> \in inRoom' /\ <<r, u>> \notin inRoom =>
           May(active', members, r, u) \/ <<r, u>> \in kept',
         \A r \in ChannelRooms, u \in Users : <<r, u>> \in inRoom' /\ May(active, members, r, u) =>
           May(active', members, r, u) \/ u \in sweeping',
         \A r \in ChannelRooms, u \in Users : <<r, u>> \in inRoom' /\ Minded(kept, sweeping, ejecting, req, r, u) =>
           Minded(kept', sweeping', ejecting', req, r, u)
  PROVE  Attended'
<1>1. ASSUME NEW r \in ChannelRooms, NEW u \in Users, <<r, u>> \in inRoom'
      PROVE  May(active', members', r, u) \/ Minded(kept', sweeping', ejecting', req', r, u)
  <2>1. \A x, v : <<x, v>> \in kept' \/ v \in sweeping' => Minded(kept', sweeping', ejecting', req', x, v)
    BY DEF Minded
  <2>2. CASE <<r, u>> \in inRoom
    BY <1>1, <2>1, <2>2 DEF Attended
  <2>3. CASE <<r, u>> \notin inRoom
    BY <1>1, <2>1, <2>3
  <2> QED BY <2>2, <2>3
<1> QED BY <1>1 DEF Attended

\* Nothing but who is in a room, or who must go, changes.
LEMMA AttendedQuiet ==
  ASSUME Attended, UNCHANGED <<members, req, active, kept, sweeping, ejecting>>, inRoom' \subseteq inRoom, \A t \in inRoom' : t[1] \in rooms'
  PROVE  Attended'
BY AttendedStep

LEMMA AnnounceRemovedAttends == ASSUME Good, Attended, NEW p \in Requests, AnnounceRemoved(p) PROVE Attended'
<1>1. PICK c, v : c = req[p].on /\ v = req[p].who
  OBVIOUS
<1>2. /\ req[p].at = "removed" /\ ejecting' = ejecting \cup {<<RoomFor(c), v, 1>>} /\ Done(p)
      /\ UNCHANGED <<members, active, rooms, inRoom, sweeping, kept>>
  BY <1>1 DEF AnnounceRemoved, storeVars
<1>3. RestAlike(p)
  BY <1>2, DoneIs, RestIsAlike DEF Good
<1>4. ASSUME NEW r \in ChannelRooms, NEW u \in Users, <<r, u>> \in inRoom'
      PROVE  May(active', members', r, u) \/ Minded(kept', sweeping', ejecting', req', r, u)
  <2>1. CASE May(active, members, r, u)
    BY <1>2, <2>1
  <2>2. CASE <<r, u>> \in kept \/ u \in sweeping \/ \E n \in {1, 2} : <<r, u, n>> \in ejecting
    BY <1>2, <2>2 DEF Minded
  <2>3. ASSUME NEW q \in Requests, Removes(req[q], r, u) PROVE Minded(kept', sweeping', ejecting', req', r, u)
    <3>1. CASE q = p
      <4>1. RoomFor(c) = r /\ v = u
        BY <1>1, <2>3, <3>1 DEF Removes
      <4>2. <<r, u, 1>> \in ejecting'
        BY <1>2, <4>1
      <4> QED BY <4>2 DEF Minded
    <3>2. CASE q # p
      <4>1. Removes(req'[q], r, u)
        BY <1>3, <2>3, <3>2, AlikeRemoves DEF RestAlike, Others
      <4> QED BY <4>1 DEF Minded
    <3> QED BY <3>1, <3>2
  <2> QED BY <1>2, <1>4, <2>1, <2>2, <2>3 DEF Attended, Minded
<1> QED BY <1>2, <1>4 DEF Attended

LEMMA RemovalLostAttends == ASSUME Good, Attended, NEW p \in Requests, RemovalAnswerLost(p) PROVE Attended'
<1>1. PICK c, v : c = req[p].on /\ v = req[p].who
  OBVIOUS
<1>2. /\ req[p].at = "removed" /\ kept' = kept \cup {<<RoomFor(c), v>>} /\ Done(p)
      /\ UNCHANGED <<members, active, rooms, inRoom, sweeping, ejecting>>
  BY <1>1 DEF RemovalAnswerLost, storeVars
<1>3. RestAlike(p)
  BY <1>2, DoneIs, RestIsAlike DEF Good
<1>4. ASSUME NEW r \in ChannelRooms, NEW u \in Users, <<r, u>> \in inRoom'
      PROVE  May(active', members', r, u) \/ Minded(kept', sweeping', ejecting', req', r, u)
  <2>1. CASE May(active, members, r, u)
    BY <1>2, <2>1
  <2>2. CASE <<r, u>> \in kept \/ u \in sweeping \/ \E n \in {1, 2} : <<r, u, n>> \in ejecting
    BY <1>2, <2>2 DEF Minded
  <2>3. ASSUME NEW q \in Requests, Removes(req[q], r, u) PROVE Minded(kept', sweeping', ejecting', req', r, u)
    <3>1. CASE q = p
      <4>1. RoomFor(c) = r /\ v = u
        BY <1>1, <2>3, <3>1 DEF Removes
      <4>2. <<r, u>> \in kept'
        BY <1>2, <4>1
      <4> QED BY <4>2 DEF Minded
    <3>2. CASE q # p
      <4>1. Removes(req'[q], r, u)
        BY <1>3, <2>3, <3>2, AlikeRemoves DEF RestAlike, Others
      <4> QED BY <4>1 DEF Minded
    <3> QED BY <3>1, <3>2
  <2> QED BY <1>2, <1>4, <2>1, <2>2, <2>3 DEF Attended, Minded
<1> QED BY <1>2, <1>4 DEF Attended

LEMMA DeactivateAttends == ASSUME Good, Attended, NEW u \in Users, DeactivateUser(u) PROVE Attended'
<1>1. /\ active' = active \ {u} /\ sweeping' = sweeping \cup {u} /\ UNCHANGED <<members, req, rooms, inRoom, ejecting, kept>>
  BY DEF DeactivateUser, storeVars
<1>2. \A r \in ChannelRooms, v \in Users : May(active, members, r, v) => May(active', members, r, v) \/ v \in sweeping'
  BY <1>1 DEF May
<1>3. \A r \in ChannelRooms, v \in Users : Minded(kept, sweeping, ejecting, req, r, v) => Minded(kept', sweeping', ejecting', req, r, v)
  BY <1>1 DEF Minded
<1>4. \A t \in inRoom' : t[1] \in rooms'
  BY <1>1 DEF Attended
<1> QED BY <1>1, <1>2, <1>3, <1>4, AttendedStep

LEMMA SweepAttends == ASSUME Good, Attended, NEW u \in Users, EjectEverywhere(u) PROVE Attended'
<1>1. sweeping' = sweeping \ {u} /\ UNCHANGED <<members, active, req, rooms, inRoom>> /\ kept \subseteq kept' /\ ejecting \subseteq ejecting'
  BY DEF EjectEverywhere, channelVars, storeVars
<1>2. \A r \in rooms \cap ChannelRooms : <<r, u, 1>> \in ejecting' \/ <<r, u>> \in kept'
  BY DEF EjectEverywhere
<1>3. \A r, v : <<r, v>> \in inRoom => r \in rooms
  BY DEF Attended
<1>4. ASSUME NEW r \in ChannelRooms, NEW v \in Users, <<r, v>> \in inRoom', Minded(kept, sweeping, ejecting, req, r, v)
      PROVE  Minded(kept', sweeping', ejecting', req, r, v)
  <2>1. CASE v = u
    <3>1. <<r, v, 1>> \in ejecting' \/ <<r, v>> \in kept'
      BY <1>1, <1>2, <1>3, <1>4, <2>1
    <3> QED BY <3>1 DEF Minded
  <2>2. CASE v # u
    BY <1>1, <1>4, <2>2 DEF Minded
  <2> QED BY <2>1, <2>2
<1>5. \A t \in inRoom' : t[1] \in rooms'
  BY <1>1 DEF Attended
<1> QED BY <1>1, <1>4, <1>5, AttendedStep

LEMMA EjectionAttends == ASSUME Good, Attended, NEW e \in ejecting, ejectWithRetry(e) PROVE Attended'
<1>1. UNCHANGED <<members, active, req, rooms, sweeping>> /\ inRoom' \subseteq inRoom /\ kept \subseteq kept'
  BY DEF ejectWithRetry, channelVars, storeVars
<1>2. e[1] \in Rooms /\ e[2] \in Users /\ e[3] \in {1, 2} /\ e = <<e[1], e[2], e[3]>>
  BY EjectionIs DEF Good
<1>3. PICK x, v, n : x = e[1] /\ v = e[2] /\ n = e[3] /\ e = <<x, v, n>> /\ n \in {1, 2}
  BY <1>2
<1>4. \/ ejecting' = ejecting \ {e} /\ inRoom' = inRoom \ {<<x, v>>}
      \/ ejecting' = (ejecting \ {e}) \cup (IF n = 1 THEN {<<x, v, 2>>} ELSE {}) /\ kept' = (IF n = 1 THEN kept ELSE kept \cup {<<x, v>>})
  BY <1>3 DEF ejectWithRetry
<1>5. ASSUME NEW r \in ChannelRooms, NEW u \in Users, <<r, u>> \in inRoom', Minded(kept, sweeping, ejecting, req, r, u)
      PROVE  Minded(kept', sweeping', ejecting', req, r, u)
  <2>1. CASE <<r, u>> \in kept \/ u \in sweeping \/ \E p \in Requests : Removes(req[p], r, u)
    BY <1>1, <2>1 DEF Minded
  <2>2. ASSUME NEW m \in {1, 2}, <<r, u, m>> \in ejecting PROVE Minded(kept', sweeping', ejecting', req, r, u)
    <3>1. CASE <<r, u, m>> # e
      <4>1. <<r, u, m>> \in ejecting'
        BY <1>4, <2>2, <3>1
      <4> QED BY <4>1 DEF Minded
    <3>2. CASE <<r, u, m>> = e
      <4>1. r = x /\ u = v /\ m = n
        BY <1>3, <3>2
      <4>2. <<x, v>> \in inRoom'
        BY <1>5, <4>1
      <4>3. <<x, v, 2>> \in ejecting' \/ <<x, v>> \in kept'
        BY <1>3, <1>4, <4>2
      <4> QED BY <4>1, <4>3 DEF Minded
    <3> QED BY <3>1, <3>2
  <2> QED BY <1>5, <2>1, <2>2 DEF Minded
<1>6. \A t \in inRoom' : t[1] \in rooms'
  BY <1>1 DEF Attended
<1> QED BY <1>1, <1>5, <1>6, AttendedStep

LEMMA JoinAttends == ASSUME Good, Attended, NEW t \in tickets, JoinRoom(t) PROVE Attended'
<1>1. /\ t[1] \in rooms /\ inRoom' = inRoom \cup {t} /\ kept \subseteq kept'
      /\ t[2] \in Users /\ ~Entitled(t[1], t[2]) => t \in kept'
      /\ UNCHANGED <<members, active, req, rooms, sweeping, ejecting>>
  BY DEF JoinRoom, channelVars, storeVars
<1>2. \A s \in inRoom' : s[1] \in rooms'
  BY <1>1 DEF Attended
<1>3. ASSUME NEW r \in ChannelRooms, NEW u \in Users, <<r, u>> \in inRoom', <<r, u>> \notin inRoom
      PROVE  May(active', members, r, u) \/ <<r, u>> \in kept'
  <2>1. t = <<r, u>>
    BY <1>1, <1>3
  <2>2. t[1] = r /\ t[2] = u
    BY <2>1
  <2> QED BY <1>1, <2>1, <2>2 DEF Entitled, May
<1>4. \A r, u : Minded(kept, sweeping, ejecting, req, r, u) => Minded(kept', sweeping', ejecting', req, r, u)
  BY <1>1 DEF Minded
<1> QED BY <1>1, <1>2, <1>3, <1>4, AttendedStep

LEMMA CloseAttends == ASSUME Good, Attended, NEW r \in rooms, EmptyRoomCloses(r) PROVE Attended'
<1>1. /\ \A i \in Identities : <<r, i>> \notin inRoom
      /\ rooms' = rooms \ {r} /\ UNCHANGED <<members, active, req, inRoom, kept, sweeping, ejecting>>
  BY DEF EmptyRoomCloses, channelVars, storeVars
<1>2. ASSUME NEW t \in inRoom' PROVE t[1] \in rooms'
  <2>1. t \in inRoom /\ t[2] \in Identities /\ t = <<t[1], t[2]>>
    BY <1>1, <1>2, TicketIs DEF Good
  <2>2. t[1] # r
    BY <1>1, <2>1
  <2> QED BY <1>1, <2>1, <2>2 DEF Attended
<1> QED BY <1>1, <1>2, AttendedQuiet

LEMMA DoneAlike == ASSUME Good, NEW p \in Requests, Done(p) PROVE RestAlike(p) /\ req'[p] = Idle
BY DoneIs, RestIsAlike DEF Good

LEMMA CloseConferenceIs ==
  ASSUME Good, NEW p \in Requests, CloseConference(p)
  PROVE  /\ req[p].at = "close" /\ RestAlike(p) /\ Tabled
         /\ UNCHANGED <<tickets, ejecting, sweeping, announced, pending, hook, banner, kept, muddied, slipped>>
         /\ \/ /\ rooms' = rooms \ {ConferenceRoomFor(req[p].on)} /\ req'[p].at = "revoke" /\ req'[p].on = req[p].on
               /\ inRoom' = {t \in inRoom : t[1] # ConferenceRoomFor(req[p].on)}
            \/ req'[p] = Idle /\ UNCHANGED <<rooms, inRoom>>
<1>1. /\ req[p].at = "close" /\ Tabled
      /\ UNCHANGED <<tickets, ejecting, sweeping, announced, pending, hook, banner, kept, muddied, slipped>>
  BY DEF CloseConference, Tabled
<1>2. CASE Done(p) /\ UNCHANGED <<rooms, inRoom>>
  BY <1>1, <1>2, DoneAlike
<1>3. CASE /\ rooms' = rooms \ {ConferenceRoomFor(req[p].on)} /\ Goto(p, "revoke")
           /\ inRoom' = {t \in inRoom : t[1] # ConferenceRoomFor(req[p].on)}
  BY <1>1, <1>3, GotoIs, RestIsAlike DEF Good, Places, OnLink
<1> QED BY <1>2, <1>3 DEF CloseConference

LEMMA RequestAttends ==
  ASSUME Good, Attended, NEW p \in Requests,
         JoinToken(p) \/ MintFails(p) \/ CreateConference(p) \/ CloseConference(p) \/ MarkRevoked(p) \/ GuestToken(p)
  PROVE  Attended'
<1>1. CASE JoinToken(p) \/ GuestToken(p)
  <2>1. /\ rooms \subseteq rooms' /\ UNCHANGED <<active, members, kept, sweeping, ejecting, inRoom>> /\ Done(p) /\ req[p].at # "removed"
    BY <1>1 DEF JoinToken, GuestToken, ticket, storeVars
  <2>2. \A t \in inRoom' : t[1] \in rooms'
    BY <2>1 DEF Attended
  <2> QED BY <2>1, <2>2, DoneAlike, AttendedCalm
<1>2. CASE MintFails(p) \/ MarkRevoked(p) \/ CreateConference(p)
  <2>1. UNCHANGED <<active, members, kept, sweeping, ejecting, inRoom, rooms>> /\ Done(p) /\ req[p].at # "removed"
    BY <1>2 DEF MintFails, MarkRevoked, CreateConference, Arrive, Done, storeVars, callVars
  <2>2. \A t \in inRoom' : t[1] \in rooms'
    BY <2>1 DEF Attended
  <2> QED BY <2>1, <2>2, DoneAlike, AttendedCalm
<1>3. CASE CloseConference(p)
  <2>1. UNCHANGED <<active, members, kept, sweeping, ejecting>> /\ RestAlike(p) /\ req[p].at # "removed"
    BY <1>3, CloseConferenceIs DEF Tabled, storeVars
  <2>2. inRoom' \subseteq inRoom /\ \A t \in inRoom' : t[1] \in rooms'
    BY <1>3, CloseConferenceIs DEF Attended
  <2> QED BY <2>1, <2>2, AttendedCalm
<1> QED BY <1>1, <1>2, <1>3

LEMMA AttendedNext == Good /\ Attended /\ Next => Attended'
<1> SUFFICES ASSUME Good, Attended, Next PROVE Attended'
  OBVIOUS
<1>1. ASSUME NEW p \in Requests, ChannelStep(p), UNCHANGED callVars PROVE Attended'
  BY <1>1, ChannelShape, AttendedShape DEF callVars
<1>2. ASSUME NEW p \in Requests, CreateCallToken(p) \/ RevokeConference(p) \/ JoinConference(p) PROVE Attended'
  <2>1. Begins(p)
    BY <1>2, CreateCallTokenIs, RevokeConferenceIs, JoinConferenceIs DEF Good
  <2> QED BY <2>1, BeginShape, AttendedShape DEF Begins, Only, callVars
<1>3. ASSUME NEW p \in Requests,
             \/ JoinToken(p) \/ MintFails(p) \/ AnnounceRemoved(p) \/ RemovalAnswerLost(p) \/ CreateConference(p) \/ CloseConference(p) \/ MarkRevoked(p)
             \/ GuestToken(p)
      PROVE  Attended'
  BY <1>3, RequestAttends, AnnounceRemovedAttends, RemovalLostAttends
<1>4. ASSUME NEW u \in Users, DeactivateUser(u) \/ EjectEverywhere(u) PROVE Attended'
  BY <1>4, DeactivateAttends, SweepAttends
<1>5. ASSUME NEW e \in ejecting, ejectWithRetry(e) PROVE Attended'
  BY <1>5, EjectionAttends
<1>6. ASSUME NEW t \in tickets, JoinRoom(t) PROVE Attended'
  BY <1>6, JoinAttends
<1>7. ASSUME NEW r \in rooms, EmptyRoomCloses(r) PROVE Attended'
  BY <1>7, CloseAttends
<1>8. ASSUME UNCHANGED <<members, req, active, kept, sweeping, ejecting, rooms>>, inRoom' \subseteq inRoom PROVE Attended'
  BY <1>8, AttendedQuiet DEF Attended
<1>9. ASSUME NEW t, TicketExpires(t) \/ LeaveRoom(t) PROVE Attended'
  BY <1>8, <1>9 DEF TicketExpires, LeaveRoom, channelVars, storeVars
<1>10. ASSUME NEW k, ConferenceExpires(k) PROVE Attended'
  BY <1>8, <1>10 DEF ConferenceExpires, callVars
<1>11. ASSUME NEW h \in Hooks, Transition(h) \/ announceCall(h) \/ \E c \in ChannelIds : HookReads(h, c) PROVE Attended'
  BY <1>8, <1>11 DEF Transition, announceCall, HookReads, channelVars, storeVars
<1> QED BY <1>1, <1>2, <1>3, <1>4, <1>5, <1>6, <1>7, <1>9, <1>10, <1>11 DEF Next

-------------------------------------------------------------------------------
(* Revoked conferences.                                                    *)

LEMMA RevokedStep ==
  ASSUME NEW p \in Requests, RestAlike(p), Shut(conferences', rooms', slipped'),
         Closed(req'[p], rooms', slipped'), \A q \in Others(p) : Closed(req[q], rooms', slipped')
  PROVE  Revoked'
<1>1. \A q \in Requests : Closed(req'[q], rooms', slipped')
  BY AlikeRemoves DEF RestAlike, Others
<1> QED BY <1>1 DEF Revoked

LEMMA RevokedCalm ==
  ASSUME Revoked, NEW p \in Requests, RestAlike(p), req'[p].at # "revoke", UNCHANGED <<conferences, rooms, slipped>> PROVE Revoked'
BY RevokedStep DEF Revoked, Closed, Others

LEMMA DoneIsClosed == \A G, S : Closed(Idle, G, S)
BY IdleIs DEF Closed

LEMMA JoinTokenRevokes == ASSUME Good, Revoked, NEW p \in Requests, JoinToken(p) PROVE Revoked'
<1>1. rooms' = rooms \cup {RoomFor(req[p].on)} /\ Done(p) /\ UNCHANGED <<conferences, slipped>>
  BY DEF JoinToken, ticket, storeVars
<1>2. \A k : ConferenceRoomFor(k) \in rooms' => ConferenceRoomFor(k) \in rooms
  BY <1>1, RoomsAre
<1>3. Shut(conferences', rooms', slipped') /\ \A q \in Others(p) : Closed(req[q], rooms', slipped')
  BY <1>1, <1>2 DEF Revoked, Shut, Closed, Others
<1> QED BY <1>1, <1>3, DoneAlike, DoneIsClosed, RevokedStep

LEMMA GuestTokenRevokes == ASSUME Good, Revoked, NEW p \in Requests, GuestToken(p) PROVE Revoked'
<1>1. PICK k : k = req[p].on
  OBVIOUS
<1>2. /\ rooms' = rooms \cup {ConferenceRoomFor(k)} /\ Done(p) /\ UNCHANGED conferences
      /\ slipped' = IF ClosedUnder(p) THEN slipped \cup {k} ELSE slipped
  BY <1>1 DEF GuestToken, ticket, storeVars
<1>3. \A l : ConferenceRoomFor(l) \in rooms' => ConferenceRoomFor(l) \in rooms \/ l = k
  BY <1>2, RoomsAre
<1>4. slipped \subseteq slipped' /\ (ClosedUnder(p) => k \in slipped')
  BY <1>2
<1>5. ASSUME NEW l \in Conferences, conferences[l].state = "revoked", l \notin slipped' PROVE ConferenceRoomFor(l) \notin rooms'
  <2>1. l # k
    BY <1>1, <1>4, <1>5 DEF ClosedUnder
  <2> QED BY <1>3, <1>4, <1>5, <2>1 DEF Revoked, Shut
<1>6. ASSUME NEW q \in Others(p), req[q].at = "revoke", req[q].on \notin slipped' PROVE ConferenceRoomFor(req[q].on) \notin rooms'
  <2>1. q \in Requests /\ req[q].on # k
    BY <1>1, <1>4, <1>6 DEF ClosedUnder, Others
  <2> QED BY <1>3, <1>4, <1>6, <2>1 DEF Revoked, Closed
<1>7. Shut(conferences', rooms', slipped')
  BY <1>2, <1>5 DEF Shut
<1>8. \A q \in Others(p) : Closed(req[q], rooms', slipped')
  BY <1>6 DEF Closed
<1> QED BY <1>2, <1>7, <1>8, DoneAlike, DoneIsClosed, RevokedStep

LEMMA CloseConferenceRevokes == ASSUME Good, Revoked, NEW p \in Requests, CloseConference(p) PROVE Revoked'
<1>1. RestAlike(p) /\ rooms' \subseteq rooms /\ UNCHANGED <<conferences, slipped>>
  BY CloseConferenceIs DEF Tabled, storeVars
<1>2. Closed(req'[p], rooms', slipped')
  <2>1. CASE req'[p] = Idle
    BY <2>1, DoneIsClosed
  <2>2. CASE rooms' = rooms \ {ConferenceRoomFor(req[p].on)} /\ req'[p].on = req[p].on
    BY <2>2 DEF Closed
  <2> QED BY <2>1, <2>2, CloseConferenceIs
<1>3. Shut(conferences', rooms', slipped') /\ \A q \in Others(p) : Closed(req[q], rooms', slipped')
  BY <1>1 DEF Revoked, Shut, Closed, Others
<1> QED BY <1>1, <1>2, <1>3, RevokedStep

LEMMA MarkRevokedRevokes == ASSUME Good, Revoked, NEW p \in Requests, MarkRevoked(p) PROVE Revoked'
<1>1. PICK k : k = req[p].on
  OBVIOUS
<1>2. k \in Conferences /\ req[p].at = "revoke"
  BY <1>1, KnowsOf DEF MarkRevoked, KnowsRow, OnLink
<1>3. conferences' = [conferences EXCEPT ![k].state = "revoked"] /\ Done(p) /\ UNCHANGED <<rooms, slipped>>
  BY <1>1 DEF MarkRevoked, callVars
<1>4. \A l \in Conferences \ {k} : conferences'[l] = conferences[l]
  BY <1>2, <1>3, StateChanges DEF Good
<1>5. k \notin slipped => ConferenceRoomFor(k) \notin rooms
  BY <1>1, <1>2 DEF Revoked, Closed
<1>6. Shut(conferences', rooms', slipped')
  BY <1>3, <1>4, <1>5 DEF Revoked, Shut
<1>7. \A q \in Others(p) : Closed(req[q], rooms', slipped')
  BY <1>3 DEF Revoked, Others
<1> QED BY <1>3, <1>6, <1>7, DoneAlike, DoneIsClosed, RevokedStep

LEMMA CreateConferenceRevokes == ASSUME Good, Revoked, NEW p \in Requests, CreateConference(p) PROVE Revoked'
<1>1. PICK u \in Users, k \in Conferences :
        /\ Arrive(p, "CreateConference", u, Idle)
        /\ conferences' = [conferences EXCEPT ![k] = [state |-> "live", by |-> u]]
        /\ UNCHANGED callVars
  BY DEF CreateConference
<1>2. PICK row : row = [state |-> "live", by |-> u]
  OBVIOUS
<1>3. row.state = "live"
  BY <1>2
<1>4. conferences' = [conferences EXCEPT ![k] = row] /\ conferences \in [Conferences -> Store!ConferenceRow]
  BY <1>1, <1>2 DEF Good, Typed, Tables
<1>5. \A l \in Conferences : conferences'[l].state = "revoked" => conferences[l].state = "revoked"
  BY <1>3, <1>4
<1>6. Shut(conferences', rooms', slipped')
  BY <1>1, <1>5 DEF Revoked, Shut, callVars
<1>7. \A q \in Others(p) : Closed(req[q], rooms', slipped')
  BY <1>1 DEF Revoked, Others, callVars
<1>8. Done(p)
  BY <1>1 DEF Arrive, Done
<1> QED BY <1>6, <1>7, <1>8, DoneAlike, DoneIsClosed, RevokedStep

LEMMA RevokedQuiet ==
  ASSUME Revoked, UNCHANGED <<req, slipped>>, rooms' \subseteq rooms,
         \A k \in Conferences : conferences'[k].state = "revoked" => conferences[k].state = "revoked"
  PROVE  Revoked'
BY DEF Revoked, Shut, Closed

LEMMA RevokedNext == Good /\ Revoked /\ Next => Revoked'
<1> SUFFICES ASSUME Good, Revoked, Next PROVE Revoked'
  OBVIOUS
<1>1. ASSUME NEW p \in Requests, ChannelStep(p), UNCHANGED callVars PROVE Revoked'
  BY <1>1, ChannelShape, RevokedCalm DEF Shape, callVars
<1>2. ASSUME NEW p \in Requests, CreateCallToken(p) \/ RevokeConference(p) \/ JoinConference(p) PROVE Revoked'
  <2>1. Begins(p)
    BY <1>2, CreateCallTokenIs, RevokeConferenceIs, JoinConferenceIs DEF Good
  <2> QED BY <2>1, BeginShape, RevokedCalm DEF Begins, Only, Shape, callVars
<1>3. ASSUME NEW p \in Requests, MintFails(p) \/ AnnounceRemoved(p) \/ RemovalAnswerLost(p) PROVE Revoked'
  <2>1. Done(p) /\ UNCHANGED <<conferences, rooms, slipped>>
    BY <1>3 DEF MintFails, AnnounceRemoved, RemovalAnswerLost, storeVars
  <2> QED BY <2>1, DoneAlike, IdleIs, RevokedCalm
<1>4. ASSUME NEW p \in Requests, JoinToken(p) \/ CreateConference(p) \/ CloseConference(p) \/ MarkRevoked(p) \/ GuestToken(p) PROVE Revoked'
  BY <1>4, JoinTokenRevokes, CreateConferenceRevokes, CloseConferenceRevokes, MarkRevokedRevokes, GuestTokenRevokes
<1>5. ASSUME UNCHANGED <<req, slipped, rooms, conferences>> PROVE Revoked'
  BY <1>5, RevokedQuiet
<1>6. ASSUME NEW u \in Users, DeactivateUser(u) \/ EjectEverywhere(u) PROVE Revoked'
  BY <1>5, <1>6 DEF DeactivateUser, EjectEverywhere, channelVars, storeVars
<1>7. ASSUME NEW e, ejectWithRetry(e) \/ JoinRoom(e) \/ TicketExpires(e) \/ LeaveRoom(e) PROVE Revoked'
  BY <1>5, <1>7 DEF ejectWithRetry, JoinRoom, TicketExpires, LeaveRoom, channelVars, storeVars
<1>8. ASSUME NEW r \in rooms, EmptyRoomCloses(r) PROVE Revoked'
  BY <1>8, RevokedQuiet DEF EmptyRoomCloses, channelVars, storeVars
<1>9. ASSUME NEW k \in Conferences, ConferenceExpires(k) PROVE Revoked'
  <2>1. conferences' = [conferences EXCEPT ![k].state = "expired"] /\ UNCHANGED <<req, slipped, rooms>>
    BY <1>9 DEF ConferenceExpires, callVars
  <2>2. \A l \in Conferences : conferences'[l].state = "revoked" => conferences[l].state = "revoked"
    BY <2>1, StateChanges DEF Good
  <2> QED BY <2>1, <2>2, RevokedQuiet
<1>10. ASSUME NEW h \in Hooks, Transition(h) \/ announceCall(h) \/ \E c \in ChannelIds : HookReads(h, c) PROVE Revoked'
  BY <1>5, <1>10 DEF Transition, announceCall, HookReads, channelVars, storeVars
<1> QED BY <1>1, <1>2, <1>3, <1>4, <1>6, <1>7, <1>8, <1>9, <1>10 DEF Next

-------------------------------------------------------------------------------
(* The banner.                                                             *)

\* A room changes and is reported.
LEMMA ReportBanners ==
  ASSUME Good, Bannered, UNCHANGED <<hook, banner, announced, muddied>>, pending \subseteq pending',
         \A c \in ChannelIds : c \notin pending' => (Runs(inRoom', c) <=> Runs(inRoom, c))
  PROVE  Bannered'
<1>1. ASSUME NEW h \in Hooks PROVE KnowsCall(hook[h], banner, announced, pending', muddied, inRoom')
  <2>1. KnowsCall(hook[h], banner, announced, pending, muddied, inRoom)
    BY DEF Bannered
  <2>2. hook[h].at # "idle" => hook[h].ch \in ChannelIds
    BY ChannelOf
  <2>3. hook[h].at # "idle" /\ hook[h].alone /\ hook[h].ch \notin pending' => (hook[h].active <=> Runs(inRoom', hook[h].ch))
    BY <2>1, <2>2 DEF KnowsCall
  <2> QED BY <2>1, <2>3 DEF KnowsCall
<1>2. ASSUME NEW c \in ChannelIds, Free(hook, c), c \notin muddied PROVE Settled(c, banner, announced, pending', inRoom')
  <2>1. Settled(c, banner, announced, pending, inRoom)
    BY <1>2 DEF Bannered
  <2> QED BY <2>1 DEF Settled
<1> QED BY <1>1, <1>2 DEF Bannered

LEMMA StayBanners ==
  ASSUME Bannered, UNCHANGED <<hook, banner, announced, pending, muddied, inRoom>> PROVE Bannered'
BY DEF Bannered

\* Only the reported room changes.
LEMMA ReportsIs ==
  ASSUME Typed, NEW r, NEW i, Report({r}), inRoom' \in {inRoom \cup {<<r, i>>}, inRoom \ {<<r, i>>}}
  PROVE  pending \subseteq pending' /\ \A c \in ChannelIds : c \notin pending' => (Runs(inRoom', c) <=> Runs(inRoom, c))
<1>1. pending' = pending \cup {c \in ChannelIds : RoomFor(c) \in {r}}
  BY DEF Report
<1>2. ASSUME NEW c \in ChannelIds, c \notin pending' PROVE Runs(inRoom', c) <=> Runs(inRoom, c)
  <2>1. RoomFor(c) # r
    BY <1>1, <1>2
  <2>2. \A u : <<RoomFor(c), u>> \in inRoom' <=> <<RoomFor(c), u>> \in inRoom
    BY <2>1
  <2> QED BY <2>2 DEF Runs
<1> QED BY <1>1, <1>2

LEMMA EjectionBanners == ASSUME Good, Bannered, NEW e \in ejecting, ejectWithRetry(e) PROVE Bannered'
<1>1. UNCHANGED <<hook, banner, announced, muddied>>
  BY DEF ejectWithRetry
<1>2. CASE inRoom' = inRoom \ {<<e[1], e[2]>>} /\ Report({e[1]})
  BY <1>1, <1>2, ReportsIs, ReportBanners DEF Good
<1>3. CASE UNCHANGED <<inRoom, pending>>
  BY <1>1, <1>3, StayBanners
<1>4. <<e[1], e[2]>> \notin inRoom => inRoom \ {<<e[1], e[2]>>} = inRoom
  OBVIOUS
<1> QED BY <1>2, <1>3, <1>4 DEF ejectWithRetry

LEMMA JoinBanners == ASSUME Good, Bannered, NEW t \in tickets, JoinRoom(t) PROVE Bannered'
<1>1. UNCHANGED <<hook, banner, announced, muddied>> /\ inRoom' = inRoom \cup {t} /\ Report({t[1]})
  BY DEF JoinRoom
<1>2. t = <<t[1], t[2]>>
  BY TicketIs DEF Good
<1>3. inRoom' = inRoom \cup {<<t[1], t[2]>>}
  BY <1>1, <1>2
<1> QED BY <1>1, <1>3, ReportsIs, ReportBanners DEF Good

LEMMA LeaveBanners == ASSUME Good, Bannered, NEW t \in inRoom, LeaveRoom(t) PROVE Bannered'
<1>1. UNCHANGED <<hook, banner, announced, muddied>> /\ inRoom' = inRoom \ {t} /\ Report({t[1]})
  BY DEF LeaveRoom
<1>2. t = <<t[1], t[2]>>
  BY TicketIs DEF Good
<1>3. inRoom' = inRoom \ {<<t[1], t[2]>>}
  BY <1>1, <1>2
<1> QED BY <1>1, <1>3, ReportsIs, ReportBanners DEF Good

LEMMA CloseConferenceBanners == ASSUME Good, Bannered, NEW p \in Requests, CloseConference(p) PROVE Bannered'
<1>1. UNCHANGED <<hook, banner, announced, muddied, pending>>
  BY CloseConferenceIs
<1>2. CASE UNCHANGED inRoom
  BY <1>1, <1>2, StayBanners
<1>3. CASE inRoom' = {t \in inRoom : t[1] # ConferenceRoomFor(req[p].on)}
  <2>1. \A c, u : <<RoomFor(c), u>> \in inRoom' <=> <<RoomFor(c), u>> \in inRoom
    BY <1>3, RoomsAre
  <2>2. \A c \in ChannelIds : Runs(inRoom', c) <=> Runs(inRoom, c)
    BY <2>1 DEF Runs
  <2> QED BY <1>1, <2>2, ReportBanners
<1> QED BY <1>2, <1>3, CloseConferenceIs

LEMMA BusyIs == \A c : Busy(c) = {} <=> Free(hook, c)
BY DEF Busy, Free

\* What a delivery of another channel knows does not depend on this one.
LEMMA ElsewhereKnows ==
  ASSUME NEW d, NEW B, NEW A, NEW P, NEW D, NEW B2, NEW A2, NEW P2, NEW D2, NEW I, KnowsCall(d, B, A, P, D, I),
         \/ /\ d.ch \in B <=> d.ch \in B2
            /\ d.ch \in A <=> d.ch \in A2
            /\ d.ch \in P <=> d.ch \in P2
            /\ d.ch \in D <=> d.ch \in D2
         \/ ~d.alone /\ d.ch \in D2
  PROVE  KnowsCall(d, B2, A2, P2, D2, I)
BY DEF KnowsCall

LEMMA JoinedKnows ==
  ASSUME NEW d \in Delivery, NEW B, NEW A, NEW P, NEW D, NEW P2, NEW D2, NEW I, KnowsCall(d, B, A, P, D, I), d.ch \in D2
  PROVE  KnowsCall(Joined(d), B, A, P2, D2, I)
<1>1. ~Joined(d).alone /\ Joined(d).at = d.at /\ Joined(d).ch = d.ch
  BY JoinedIs
<1> QED BY <1>1 DEF KnowsCall

LEMMA ReadBanners == ASSUME Good, Bannered, NEW h \in Hooks, NEW c \in ChannelIds, HookReads(h, c) PROVE Bannered'
<1>1. /\ hook[h].at = "idle" /\ c \in pending /\ pending' \subseteq pending /\ pending \subseteq pending' \cup {c}
      /\ \A g \in Hooks \ {h} : hook'[g] = IF hook[g].ch = c THEN Joined(hook[g]) ELSE hook[g]
      /\ \/ hook'[h] = Reading(h, c) /\ muddied' = (IF Busy(c) = {} THEN muddied ELSE muddied \cup {c})
         \/ hook'[h] = (IF hook[h].ch = c THEN Joined(hook[h]) ELSE hook[h]) /\ muddied' = muddied \cup {c}
      /\ UNCHANGED <<inRoom, announced, banner>>
  BY HookReadsIs DEF Good
<1>2. \A g \in Hooks : hook[g] \in Delivery /\ KnowsCall(hook[g], banner, announced, pending, muddied, inRoom)
  BY DEF Good, Typed, Media, Bannered
<1>3. hook[h].ch = 0 /\ hook[h].ch # c
  BY <1>1, <1>2, Constants DEF KnowsCall
<1>4. \/ hook'[h] = Reading(h, c) /\ muddied' = (IF Busy(c) = {} THEN muddied ELSE muddied \cup {c})
      \/ hook'[h] = hook[h] /\ muddied' = muddied \cup {c}
  BY <1>1, <1>3
<1>5. /\ \A e : e # c => (e \in pending' <=> e \in pending) /\ (e \in muddied' <=> e \in muddied)
      /\ muddied \subseteq muddied'
  BY <1>1, <1>4
<1>6. ASSUME NEW g \in Hooks \ {h} PROVE hook'[g].ch = hook[g].ch /\ (hook[g].ch = c => ~hook'[g].alone) /\ (hook[g].ch # c => hook'[g] = hook[g])
  BY <1>1, <1>2, JoinedIs
<1>7. ASSUME NEW g \in Hooks \ {h}, hook[g].ch = c PROVE c \in muddied' /\ Busy(c) # {}
  BY <1>4, <1>7 DEF Busy
<1>8. ASSUME NEW g \in Hooks \ {h} PROVE KnowsCall(hook'[g], banner, announced, pending', muddied', inRoom)
  <2>1. CASE hook[g].ch = c
    BY <1>1, <1>2, <1>7, <2>1, JoinedKnows
  <2>2. CASE hook[g].ch # c
    BY <1>2, <1>5, <1>6, <2>2, ElsewhereKnows
  <2> QED BY <2>1, <2>2
<1>9. KnowsCall(hook'[h], banner, announced, pending', muddied', inRoom)
  <2>1. CASE hook'[h] = hook[h]
    BY <1>2, <1>3, <1>5, <2>1, ElsewhereKnows
  <2>2. CASE hook'[h] = Reading(h, c) /\ muddied' = (IF Busy(c) = {} THEN muddied ELSE muddied \cup {c})
    <3>1. PICK d : d = hook'[h]
      OBVIOUS
    <3>2. d.at = "read" /\ d.ch = c /\ (d.active <=> Runs(inRoom, c)) /\ (d.alone <=> Busy(c) = {})
      BY <2>2, <3>1, ReadingIs
    <3>3. ~d.alone => c \in muddied'
      BY <2>2, <3>2
    <3>4. d.alone /\ c \notin muddied' => (c \in banner <=> c \in announced)
      BY <2>2, <3>2, BusyIs DEF Bannered, Settled
    <3>5. c # 0
      BY Constants
    <3> QED BY <3>1, <3>2, <3>3, <3>4, <3>5 DEF KnowsCall
  <2> QED BY <1>4, <2>1, <2>2
<1>10. ASSUME NEW g \in Hooks \ {h} PROVE ApartCalls(hook'[h], hook'[g]) /\ ApartCalls(hook'[g], hook'[h])
  <2>1. CASE hook'[h] = hook[h]
    BY <1>3, <1>6, <2>1 DEF ApartCalls
  <2>2. CASE hook'[h] = Reading(h, c)
    <3>1. hook'[h].ch = c /\ (hook'[h].alone <=> Busy(c) = {})
      BY <2>2, ReadingIs
    <3> QED BY <1>6, <1>7, <3>1 DEF ApartCalls
  <2> QED BY <1>4, <2>1, <2>2
<1>11. ASSUME NEW f \in Hooks \ {h}, NEW g \in Hooks \ {h}, f # g PROVE ApartCalls(hook'[f], hook'[g])
  <2>1. ApartCalls(hook[f], hook[g])
    BY <1>11 DEF Bannered
  <2> QED BY <1>6, <2>1 DEF ApartCalls
<1>12. ASSUME NEW e \in ChannelIds, Free(hook', e), e \notin muddied' PROVE Settled(e, banner, announced, pending', inRoom)
  <2>1. e # c
    <3>1. CASE hook'[h] = Reading(h, c)
      BY <1>12, <3>1, ReadingIs DEF Free
    <3>2. CASE muddied' = muddied \cup {c}
      BY <1>12, <3>2
    <3> QED BY <1>4, <3>1, <3>2
  <2>2. Free(hook, e)
    BY <1>3, <1>6, <1>12, Constants DEF Free
  <2>3. Settled(e, banner, announced, pending, inRoom)
    BY <1>5, <1>12, <2>2 DEF Bannered
  <2> QED BY <1>5, <2>1, <2>3 DEF Settled
<1>13. \A g \in Hooks : KnowsCall(hook'[g], banner, announced, pending', muddied', inRoom)
  BY <1>8, <1>9
<1>14. \A f, g \in Hooks : f # g => ApartCalls(hook'[f], hook'[g])
  BY <1>10, <1>11
<1> QED BY <1>1, <1>12, <1>13, <1>14 DEF Bannered

LEMMA TransitionBanners == ASSUME Good, Bannered, NEW h \in Hooks, Transition(h) PROVE Bannered'
<1>1. PICK c, d : c = hook[h].ch /\ d = hook'[h]
  OBVIOUS
<1>2. /\ hook[h].at = "read" /\ \A g \in Hooks \ {h} : hook'[g] = hook[g]
      /\ d.at = "announce" /\ d.ch = c /\ d.active = hook[h].active /\ d.alone = hook[h].alone
      /\ d.label \in {"Started", "Updated"} <=> hook[h].active
      /\ d.label = "none" => c \notin announced
      /\ announced' = IF hook[h].active THEN announced \cup {c} ELSE announced \ {c}
      /\ UNCHANGED <<inRoom, pending, banner, muddied>>
  BY <1>1, TransitionIs DEF Good
<1>3. c \in ChannelIds /\ c # 0
  BY <1>1, <1>2, ChannelOf, Constants
<1>4. \A g \in Hooks : KnowsCall(hook[g], banner, announced, pending, muddied, inRoom)
  BY DEF Bannered
<1>5. (c \in announced' <=> hook[h].active) /\ \A e : e # c => (e \in announced' <=> e \in announced)
  BY <1>2
<1>6. KnowsCall(d, banner, announced', pending, muddied, inRoom)
  <2>1. KnowsCall(hook[h], banner, announced, pending, muddied, inRoom)
    BY <1>4
  <2>2. hook[h].alone /\ c \notin muddied => (c \in banner <=> c \in announced)
    BY <1>1, <1>2, <2>1 DEF KnowsCall
  <2>3. (~hook[h].alone => c \in muddied) /\ (hook[h].alone /\ c \notin pending => (hook[h].active <=> Runs(inRoom, c)))
    BY <1>1, <1>2, <2>1 DEF KnowsCall
  <2> QED BY <1>2, <1>3, <1>5, <2>2, <2>3 DEF KnowsCall
<1>7. ASSUME NEW g \in Hooks \ {h} PROVE KnowsCall(hook[g], banner, announced', pending, muddied, inRoom)
  <2>1. CASE hook[g].ch = c
    <3>1. ~hook[g].alone
      BY <1>1, <1>3, <2>1 DEF Bannered, ApartCalls
    <3>2. hook[g].ch \in muddied
      BY <1>3, <1>4, <2>1, <3>1 DEF KnowsCall
    <3> QED BY <1>4, <3>1, <3>2, ElsewhereKnows
  <2>2. CASE hook[g].ch # c
    BY <1>4, <1>5, <2>2, ElsewhereKnows
  <2> QED BY <2>1, <2>2
<1>8. \A g \in Hooks : KnowsCall(hook'[g], banner, announced', pending, muddied, inRoom)
  BY <1>1, <1>2, <1>6, <1>7
<1>9. ASSUME NEW f \in Hooks, NEW g \in Hooks, f # g PROVE ApartCalls(hook'[f], hook'[g])
  <2>1. ApartCalls(hook[f], hook[g])
    BY <1>9 DEF Bannered
  <2>2. \A x \in Hooks : hook'[x].ch = hook[x].ch /\ hook'[x].alone = hook[x].alone
    BY <1>1, <1>2
  <2> QED BY <2>1, <2>2 DEF ApartCalls
<1>10. ASSUME NEW e \in ChannelIds, Free(hook', e), e \notin muddied PROVE Settled(e, banner, announced', pending, inRoom)
  <2>1. e # c
    BY <1>1, <1>2, <1>10 DEF Free
  <2>2. Free(hook, e)
    BY <1>1, <1>2, <1>10, <2>1 DEF Free
  <2> QED BY <1>5, <1>10, <2>1, <2>2 DEF Bannered, Settled
<1> QED BY <1>2, <1>8, <1>9, <1>10 DEF Bannered

LEMMA AnnounceBanners == ASSUME Good, Bannered, NEW h \in Hooks, announceCall(h) PROVE Bannered'
<1>1. PICK c, d : c = hook[h].ch /\ d = hook[h]
  OBVIOUS
<1>2. /\ d.at = "announce" /\ hook'[h] = NoHook /\ \A g \in Hooks \ {h} : hook'[g] = hook[g]
      /\ d.label = "Ended" => banner' = banner \ {c}
      /\ d.label = "none" => banner' = banner
      /\ d.label \in {"Started", "Updated"} => banner' = banner \cup {c}
      /\ muddied' = IF d.label # "none" /\ d.alone THEN muddied \ {c} ELSE muddied
      /\ UNCHANGED <<inRoom, pending, announced>>
  BY <1>1, announceCallIs DEF Good
<1>3. c \in ChannelIds /\ c # 0 /\ d.label \in {"none", "Started", "Updated", "Ended"}
  BY <1>1, <1>2, ChannelOf, Constants DEF Delivery
<1>4. \A g \in Hooks : KnowsCall(hook[g], banner, announced, pending, muddied, inRoom)
  BY DEF Bannered
<1>5. \A e : e # c => (e \in banner' <=> e \in banner) /\ (e \in muddied' <=> e \in muddied)
  BY <1>2, <1>3
<1>6. /\ ~d.alone => c \in muddied /\ muddied' = muddied
      /\ d.alone /\ c \notin pending => (d.active <=> Runs(inRoom, c))
      /\ d.alone => /\ d.active <=> c \in announced
                    /\ d.label \in {"Started", "Updated"} <=> d.active
                    /\ d.label = "none" /\ c \notin muddied => c \notin banner
  BY <1>1, <1>2, <1>4 DEF KnowsCall
<1>7. KnowsCall(NoHook, banner', announced, pending, muddied', inRoom)
  BY NoHookIs DEF KnowsCall
<1>8. ASSUME NEW g \in Hooks \ {h} PROVE KnowsCall(hook[g], banner', announced, pending, muddied', inRoom)
  <2>1. CASE hook[g].ch = c
    <3>1. ~hook[g].alone /\ ~d.alone
      BY <1>1, <1>3, <2>1 DEF Bannered, ApartCalls
    <3>2. hook[g].ch \in muddied'
      BY <1>6, <2>1, <3>1
    <3> QED BY <1>4, <3>1, <3>2, ElsewhereKnows
  <2>2. CASE hook[g].ch # c
    BY <1>4, <1>5, <2>2, ElsewhereKnows
  <2> QED BY <2>1, <2>2
<1>9. \A g \in Hooks : KnowsCall(hook'[g], banner', announced, pending, muddied', inRoom)
  BY <1>2, <1>7, <1>8
<1>10. ASSUME NEW f \in Hooks, NEW g \in Hooks, f # g PROVE ApartCalls(hook'[f], hook'[g])
  <2>1. ApartCalls(hook[f], hook[g])
    BY <1>10 DEF Bannered
  <2> QED BY <1>2, <2>1, NoHookIs DEF ApartCalls
<1>11. ASSUME NEW e \in ChannelIds, Free(hook', e), e \notin muddied' PROVE Settled(e, banner', announced, pending, inRoom)
  <2>1. CASE e = c
    <3>1. d.alone
      BY <1>6, <1>11, <2>1
    <3>2. c \in banner' <=> d.active
      BY <1>2, <1>3, <1>6, <1>11, <2>1, <3>1
    <3> QED BY <1>6, <2>1, <3>1, <3>2 DEF Settled
  <2>2. CASE e # c
    <3>1. Free(hook, e)
      BY <1>1, <1>2, <1>11, <2>2 DEF Free
    <3> QED BY <1>5, <1>11, <2>2, <3>1 DEF Bannered, Settled
  <2> QED BY <2>1, <2>2
<1> QED BY <1>2, <1>9, <1>10, <1>11 DEF Bannered

LEMMA BanneredNext == Good /\ Bannered /\ Next => Bannered'
<1> SUFFICES ASSUME Good, Bannered, Next PROVE Bannered'
  OBVIOUS
<1>1. ASSUME UNCHANGED callVars PROVE Bannered'
  BY <1>1, StayBanners DEF callVars
<1>2. ASSUME NEW p \in Requests, CreateCallToken(p) \/ RevokeConference(p) \/ JoinConference(p) \/ CreateConference(p) \/ MarkRevoked(p) PROVE Bannered'
  BY <1>1, <1>2 DEF CreateCallToken, RevokeConference, JoinConference, CreateConference, MarkRevoked
<1>3. ASSUME NEW p \in Requests, JoinToken(p) \/ MintFails(p) \/ AnnounceRemoved(p) \/ RemovalAnswerLost(p) \/ GuestToken(p) PROVE Bannered'
  BY <1>3, StayBanners DEF JoinToken, MintFails, AnnounceRemoved, RemovalAnswerLost, GuestToken
<1>4. ASSUME NEW p \in Requests, CloseConference(p) PROVE Bannered'
  BY <1>4, CloseConferenceBanners
<1>5. ASSUME NEW u \in Users, DeactivateUser(u) \/ EjectEverywhere(u) PROVE Bannered'
  BY <1>5, StayBanners DEF DeactivateUser, EjectEverywhere
<1>6. ASSUME NEW e \in ejecting, ejectWithRetry(e) PROVE Bannered'
  BY <1>6, EjectionBanners
<1>7. ASSUME NEW t \in tickets, JoinRoom(t) \/ TicketExpires(t) PROVE Bannered'
  BY <1>7, JoinBanners, StayBanners DEF TicketExpires
<1>8. ASSUME NEW t \in inRoom, LeaveRoom(t) PROVE Bannered'
  BY <1>8, LeaveBanners
<1>9. ASSUME NEW r, EmptyRoomCloses(r) \/ ConferenceExpires(r) PROVE Bannered'
  BY <1>1, <1>9, StayBanners DEF EmptyRoomCloses, ConferenceExpires
<1>10. ASSUME NEW h \in Hooks, Transition(h) \/ announceCall(h) \/ \E c \in ChannelIds : HookReads(h, c) PROVE Bannered'
  BY <1>10, TransitionBanners, AnnounceBanners, ReadBanners
<1> QED BY <1>1, <1>2, <1>3, <1>4, <1>5, <1>6, <1>7, <1>8, <1>9, <1>10 DEF Next

-------------------------------------------------------------------------------
(* The first state, and every state.                                       *)

LEMMA InitIs ==
  ASSUME Init
  PROVE  /\ Typed
         /\ (\E u \in Users : GroupRow(channels[1], u)) /\ (\A c \in ChannelIds \ {1} : channels[c] = NoRow)
         /\ (\A c, u : <<c, u>> \in members <=> c = 1 /\ u \in InitialMembers)
         /\ InitialMembers \subseteq Users /\ InitialMembers # {}
<1>1. /\ channels = [c \in ChannelIds |->
            IF c = 1 THEN Store!Group(CHOOSE s \in Slugs : TRUE, FALSE, CHOOSE u \in InitialMembers : TRUE) ELSE NoRow]
      /\ members = {1} \X InitialMembers /\ conferences = [k \in Conferences |-> Store!NoConference]
      /\ locked = {} /\ active = Users /\ req = [p \in Requests |-> Idle] /\ budget \in Workloads /\ shown = members /\ raced = {} /\ untold = {}
  BY DEF Init, ChannelsInit
<1>2. PICK s, w : s = (CHOOSE x \in Slugs : TRUE) /\ w = (CHOOSE x \in InitialMembers : TRUE)
  OBVIOUS
<1>3. s \in Slugs /\ w \in InitialMembers /\ InitialMembers \subseteq Users /\ InitialMembers # {}
  BY <1>2, ChannelsAssumptions
<1>4. PICK row : row = Store!Group(s, FALSE, w)
  OBVIOUS
<1>5. GroupRow(row, w) /\ row \in Store!ChannelRow
  BY <1>3, <1>4, GroupIs DEF GroupRow
<1>6. channels = [c \in ChannelIds |-> IF c = 1 THEN row ELSE NoRow]
  BY <1>1, <1>2, <1>4
<1>7. channels \in [ChannelIds -> Store!ChannelRow] /\ channels[1] = row /\ \A c \in ChannelIds \ {1} : channels[c] = NoRow
  BY <1>5, <1>6, NoRowIs, Constants
<1>8. members \subseteq ChannelIds \X Users /\ (\A c, u : <<c, u>> \in members <=> c = 1 /\ u \in InitialMembers)
  BY <1>1, <1>3, Constants
<1>9. conferences \in [Conferences -> Store!ConferenceRow]
  BY <1>1, Constants
<1>10. Tables
  BY <1>1, <1>7, <1>8, <1>9, ChannelsAssumptions DEF Tables
<1>11. Media
  BY NoHookIs, Constants DEF Init, Media
<1>12. req \in [Requests -> Request]
  BY <1>1, IdleIs
<1> QED BY <1>3, <1>5, <1>7, <1>8, <1>10, <1>11, <1>12 DEF Typed

LEMMA InitHolds == Init => IInv
<1> SUFFICES ASSUME Init PROVE IInv
  OBVIOUS
<1>1. /\ Typed /\ (\A c \in ChannelIds \ {1} : channels[c] = NoRow)
      /\ (\A c, u : <<c, u>> \in members <=> c = 1 /\ u \in InitialMembers)
      /\ InitialMembers \subseteq Users /\ InitialMembers # {}
  BY InitIs
<1>2. /\ req = [p \in Requests |-> Idle] /\ shown = members /\ inRoom = {} /\ rooms = {}
      /\ conferences = [k \in Conferences |-> Store!NoConference]
      /\ hook = [h \in Hooks |-> NoHook] /\ banner = {} /\ announced = {} /\ pending = {} /\ muddied = {}
  BY DEF Init, ChannelsInit
<1>3. \A p \in Requests : req[p] = Idle
  BY <1>2
<1>4. PICK u \in Users : GroupRow(channels[1], u)
  BY InitIs
<1>5. channels[1].kind = "group" /\ channels[1].slug \in Slugs /\ channels[1].pair = {}
  BY <1>4, GroupIs
<1>6. Numbered
  <2>1. Rowed(channels)
    <3>1. ASSUME NEW c \in ChannelIds
          PROVE  /\ channels[c].kind = "none"  => channels[c] = NoRow
                 /\ channels[c].kind = "group" => channels[c].slug \in Slugs /\ channels[c].pair = {}
                 /\ channels[c].kind = "dm"    => channels[c].slug = NoSlug /\ channels[c].pair # {}
      BY <1>1, <1>5, NoRowIs
    <3> QED BY <3>1 DEF Rowed
  <2>2. \A p, q \in Requests : ApartRows(req[p], req[q])
    BY <1>3, IdleIs DEF ApartRows
  <2> QED BY <1>3, <2>1, <2>2, IdleKnows DEF Numbered
<1>7. Peopled
  <2>1. \A p \in Requests : KnowsLock(req[p], members, locked)
    BY <1>3, IdleIs DEF KnowsLock, Locking
  <2>2. \A p, q \in Requests : ApartLocks(req[p], req[q])
    BY <1>3, IdleIs DEF ApartLocks, Locking
  <2>3. In(members, 1) # {} /\ \A c \in ChannelIds \ {1} : In(members, c) = {}
    BY <1>1 DEF In
  <2>4. Full(channels, members)
    BY <1>1, <1>5, <2>3, NoRowIs DEF Full
  <2> QED BY <2>1, <2>2, <2>4 DEF Peopled
<1>8. Told
  <2>1. \A p \in Requests : KnowsTold(req[p], members, raced)
    BY <1>3, IdleIs DEF KnowsTold, Tells
  <2> QED BY <1>2, <2>1 DEF Told
<1>9. Walks
  BY <1>3, IdleKnows DEF Walks
<1>10. Attended
  BY <1>2 DEF Attended
<1>11. Revoked
  <2>1. Shut(conferences, rooms, slipped)
    BY <1>2 DEF Shut
  <2> QED BY <1>3, <2>1, DoneIsClosed DEF Revoked
<1>12. Bannered
  <2>1. \A h \in Hooks : hook[h] = NoHook
    BY <1>2
  <2>2. KnowsCall(NoHook, banner, announced, pending, muddied, inRoom)
    BY NoHookIs DEF KnowsCall
  <2>3. ApartCalls(NoHook, NoHook)
    BY NoHookIs DEF ApartCalls
  <2>4. \A c : Settled(c, banner, announced, pending, inRoom)
    BY <1>2 DEF Settled, Runs
  <2> QED BY <2>1, <2>2, <2>3, <2>4 DEF Bannered
<1> QED BY <1>1, <1>6, <1>7, <1>8, <1>9, <1>10, <1>11, <1>12 DEF IInv

LEMMA StillHolds == IInv /\ UNCHANGED vars => IInv'
<1> SUFFICES ASSUME IInv, UNCHANGED vars PROVE IInv'
  OBVIOUS
<1>1. UNCHANGED channelVars /\ UNCHANGED callVars
  BY DEF vars
<1>2. UNCHANGED <<channels, members, conferences, locked, active, req, budget, shown, raced, untold>>
  BY <1>1 DEF channelVars, storeVars
<1>3. UNCHANGED <<rooms, inRoom, tickets, ejecting, sweeping, announced, pending, hook, banner, outages, kept, muddied, slipped>>
  BY <1>1 DEF callVars
<1>4. Good
  BY DEF IInv, Good, Stores
<1>5. Good'
  <2>1. Media'
    BY <1>3, <1>4 DEF Good, Typed, Media
  <2> QED BY <1>1, <1>4, <2>1, MediaSteps
<1>6. Attended'
  BY <1>2, <1>3 DEF IInv, Attended
<1>7. Revoked'
  BY <1>2, <1>3 DEF IInv, Revoked
<1>8. Bannered'
  BY <1>3, StayBanners DEF IInv
<1> QED BY <1>5, <1>6, <1>7, <1>8 DEF IInv, Good, Stores

LEMMA NextHolds == IInv /\ [Next]_vars => IInv'
<1> SUFFICES ASSUME IInv, [Next]_vars PROVE IInv'
  OBVIOUS
<1>1. CASE Next
  <2>1. Good /\ Attended /\ Revoked /\ Bannered
    BY DEF IInv, Good, Stores
  <2>2. Good' /\ Attended' /\ Revoked' /\ Bannered'
    BY <1>1, <2>1, NextGood, AttendedNext, RevokedNext, BanneredNext
  <2> QED BY <2>2 DEF IInv, Good, Stores
<1>2. CASE UNCHANGED vars
  BY <1>2, StillHolds
<1> QED BY <1>1, <1>2

\* The tables, locks, announcements, rooms and banners of every reachable state
\* fit each other (IInv), however many requests and deliveries are handled.
THEOREM Invariant == Spec => []IInv
BY InitHolds, NextHolds, PTL DEF Spec

LEMMA TypedIsOK == Typed => TypeOK
<1> SUFFICES ASSUME Typed PROVE TypeOK
  OBVIOUS
<1>1. \A p \in Requests : DOMAIN req[p] = DOMAIN Idle
  <2>1. Idle \in Request /\ \A p \in Requests : req[p] \in Request
    BY IdleIs DEF Typed
  <2> QED BY <2>1 DEF Request
<1>2. ChannelsTypeOK
  BY <1>1 DEF ChannelsTypeOK, Typed, Tables
<1> QED BY <1>2 DEF TypeOK, Typed, Media, Delivery

\* Every channel keeps a member although a removal counts and deletes in two
\* statements, a direct message keeps its two, users were last told to be in the
\* channels they are in, unless two announcements crossed or the last was never
\* made, and a walk through pages misses nothing and lists
\* nothing twice, for every page size.
THEOREM MembershipIsTrueAlways == Spec => []MembershipIsTrue
<1>1. ASSUME IInv PROVE MembershipIsTrue
  <2>1. TypeOK
    BY <1>1, TypedIsOK DEF IInv
  <2>2. NobodyIsStranded
    BY <1>1, MembersAre DEF IInv, Peopled, Full, NobodyIsStranded
  <2>3. TellsMembership
    <3>1. SUFFICES ASSUME Quiet, NEW c \in ChannelIds, NEW u \in Users, <<c, u>> \notin raced \cup untold
                   PROVE  <<c, u>> \in shown <=> <<c, u>> \in members
      BY DEF TellsMembership
    <3>2. \A p \in Requests : ~Tells(req[p], c, u)
      BY <3>1 DEF Quiet, Tells
    <3> QED BY <1>1, <3>1, <3>2 DEF IInv, Told
  <2>4. WalkIsComplete
    BY <1>1 DEF IInv, Walks, KnowsWalk, WalkIsComplete
  <2> QED BY <2>1, <2>2, <2>3, <2>4 DEF MembershipIsTrue
<1> QED BY Invariant, <1>1, PTL

\* Whoever was removed from a channel or deactivated is being ejected from its
\* call, or was let in again by a ticket from before or could not be ejected
\* twice; and a conference that was revoked has no room, unless a join that had
\* looked its link up before made the room again.
THEOREM AccessEndsAlways == Spec => []AccessEnds
<1>1. ASSUME IInv PROVE AccessEnds
  <2>1. NobodyIsForgotten
    <3>1. SUFFICES ASSUME NEW r \in ChannelRooms, NEW u \in Users, <<r, u>> \in inRoom, ~Entitled(r, u)
                   PROVE  \/ <<r, u>> \in kept
                          \/ u \in sweeping
                          \/ \E n \in {1, 2} : <<r, u, n>> \in ejecting
                          \/ \E p \in Requests : req[p].at = "removed" /\ RoomFor(req[p].on) = r /\ req[p].who = u
      BY DEF NobodyIsForgotten
    <3>2. ~May(active, members, r, u)
      BY <3>1 DEF May, Entitled
    <3>3. Minded(kept, sweeping, ejecting, req, r, u)
      BY <1>1, <3>1, <3>2 DEF IInv, Attended
    <3> QED BY <3>3 DEF Minded, Removes
  <2>2. RevokedHasNoRoom
    BY <1>1 DEF IInv, Revoked, Shut, RevokedHasNoRoom
  <2> QED BY <2>1, <2>2 DEF AccessEnds
<1> QED BY Invariant, <1>1, PTL

\* When the webhooks of a channel are handled, its banner says whether its call
\* runs, however deliveries overlap, repeat and cross, unless the announcement
\* overlapped another delivery's or a read failed.
THEOREM BannerFollowsCallAlways == Spec => []BannerFollowsCall
<1>1. ASSUME IInv PROVE BannerFollowsCall
  BY <1>1, BusyIs, CallRunsIs DEF IInv, Bannered, Settled, BannerFollowsCall
<1> QED BY Invariant, <1>1, PTL

-------------------------------------------------------------------------------
(* The statements do to the tables what the operations of the store do.    *)

LEMMA StoreMembersAre == \A c : Store!Members(c) = In(members, c)
BY DEF Store!Members, In

LEMMA InitRefines == Init => Store!Init
<1> SUFFICES ASSUME Init PROVE Store!Init
  OBVIOUS
<1>1. Typed /\ (\E u \in Users : GroupRow(channels[1], u)) /\ (\A c \in ChannelIds \ {1} : channels[c] = NoRow)
  BY InitIs
<1>2. channels[1].slug \in Slugs
  BY <1>1, GroupIs
<1>3. Peopled
  BY InitHolds DEF IInv
<1>4. ASSUME NEW c \in ChannelIds, NEW d \in ChannelIds \ {c}, channels[c] # NoRow
      PROVE  <<channels[d].slug, channels[d].pair>> # <<channels[c].slug, channels[c].pair>>
  BY <1>1, <1>2, <1>4, NoRowIs, Constants
<1>5. ASSUME NEW c \in ChannelIds
      PROVE  /\ channels[c].kind = "none"  => Store!Members(c) = {}
             /\ channels[c].kind = "group" => Store!Members(c) # {}
             /\ channels[c].kind = "dm"    => Store!Members(c) = channels[c].pair
  BY <1>3, <1>5, StoreMembersAre DEF Peopled, Full
<1>6. conferences = [k \in Conferences |-> Store!NoConference]
  BY DEF Init, ChannelsInit
<1>7. Store!ChannelIds = ChannelIds /\ Store!NoRow = NoRow
  BY Constants DEF NoRow
<1>8. channels \in [ChannelIds -> Store!ChannelRow] /\ members \subseteq ChannelIds \X Users
  BY <1>1 DEF Typed, Tables
<1> QED BY <1>4, <1>5, <1>6, <1>7, <1>8 DEF Store!Init

\* No other channel has the slug or the pair of the row that is committed.
LEMMA CommitRefines == ASSUME Good, NEW p \in Requests, CommitChannel(p) PROVE Store!Operation
<1>1. PICK c, row, u, v : c = req[p].on /\ row = req[p].row /\ u = req[p].by /\ v = req[p].who
  OBVIOUS
<1>2. /\ req[p].at = "inserted" /\ channels' = [channels EXCEPT ![c] = row]
      /\ members' = members \cup ({c} \X ({u} \cup row.pair)) /\ UNCHANGED conferences
  BY <1>1 DEF CommitChannel
<1>3. KnowsRow(req[p], channels, conferences) /\ Rowed(channels)
  BY KnowsOf DEF Good, Stores, Numbered
<1>4. /\ c \in ChannelIds /\ channels[c] = NoRow /\ (\A d \in ChannelIds : ~SameKey(channels[d], row)) /\ u \in Users
      /\ (GroupRow(row, u) \/ (v \in Users /\ DirectRow(row, u, v)))
  BY <1>1, <1>2, <1>3 DEF KnowsRow, Inserting
<1>5. Store!ChannelIds = ChannelIds /\ Store!NoRow = NoRow
  BY Constants DEF NoRow
<1>6. ASSUME NEW d \in ChannelIds
      PROVE  /\ channels[d].slug \in Slugs => channels[d].pair = {}
             /\ channels[d].pair # {} => channels[d].slug = NoSlug
  BY <1>3, KindIs, NoRowIs, Constants DEF Rowed, Good
<1>7. CASE GroupRow(row, u)
  <2>1. PICK slug \in Slugs, e \in BOOLEAN : row = Store!Group(slug, e, u)
    BY <1>7 DEF GroupRow
  <2>2. row.slug = slug /\ row.pair = {}
    BY <2>1 DEF Store!Group
  <2>3. \A d \in ChannelIds : channels[d].slug # slug
    BY <1>4, <1>6, <2>2 DEF SameKey
  <2>4. members' = members \cup {<<c, u>>}
    <3>1. {c} \X ({u} \cup {}) = {<<c, u>>}
      OBVIOUS
    <3> QED BY <1>2, <2>2, <3>1
  <2>5. Store!CreateChannel(c, slug, e, u)
    BY <1>2, <1>4, <1>5, <2>1, <2>3, <2>4 DEF Store!CreateChannel
  <2> QED BY <1>4, <1>5, <2>1, <2>5 DEF Store!Operation
<1>8. CASE v \in Users /\ DirectRow(row, u, v)
  <2>1. PICK e \in BOOLEAN : row = Store!Direct(u, v, e)
    BY <1>8 DEF DirectRow
  <2>2. row.slug = NoSlug /\ row.pair = {u, v} /\ u # v
    BY <1>4, <1>8, DirectIs
  <2>3. \A d \in ChannelIds : channels[d].pair # {u, v}
    BY <1>4, <1>6, <2>2 DEF SameKey
  <2>4. members' = members \cup {<<c, u>>, <<c, v>>}
    <3>1. {c} \X ({u} \cup {u, v}) = {<<c, u>>, <<c, v>>}
      OBVIOUS
    <3> QED BY <1>2, <2>2, <3>1
  <2>5. Store!OpenDirectMessage(c, u, v, e)
    BY <1>2, <1>4, <1>5, <2>1, <2>2, <2>3, <2>4 DEF Store!OpenDirectMessage
  <2>6. PICK slug : slug \in Slugs
    BY Constants
  <2> QED BY <1>4, <1>5, <1>8, <2>1, <2>5, <2>6 DEF Store!Operation
<1> QED BY <1>4, <1>7, <1>8

\* Members are added and removed, and topics changed, in groups only; the lock
\* keeps the count of members true until the DELETE.
LEMMA MemberRefines ==
  ASSUME Good, NEW p \in Requests, UpdateChannelTopic(p) \/ InsertMember(p) \/ DeleteMember(p)
  PROVE  Store!Operation \/ UNCHANGED storeVars
<1>1. PICK c, v : c = req[p].on /\ v = req[p].who
  OBVIOUS
<1>2. KnowsRow(req[p], channels, conferences) /\ KnowsLock(req[p], members, locked) /\ Store!ChannelIds = ChannelIds
  BY KnowsOf, Constants
<1>3. CASE UpdateChannelTopic(p)
  <2>1. c \in ChannelIds /\ channels[c].kind = "group"
    BY <1>1, <1>2, <1>3 DEF UpdateChannelTopic, KnowsRow, OnChannel, OnGroup
  <2>2. Store!UpdateChannelTopic(c, 1)
    BY <1>1, <1>3, <2>1 DEF UpdateChannelTopic, Store!UpdateChannelTopic
  <2> QED BY <1>2, <2>1, <2>2 DEF Store!Operation
<1>4. CASE InsertMember(p)
  <2>1. c \in ChannelIds /\ channels[c] # NoRow /\ v \in Users /\ channels[c].kind \in {"none", "group", "dm"}
    BY <1>1, <1>2, <1>4, KindIs DEF InsertMember, KnowsRow, OnChannel, Good
  <2>2. CASE channels[c].kind = "dm"
    BY <1>1, <1>4, <2>2 DEF InsertMember, storeVars
  <2>3. CASE channels[c].kind # "dm"
    <3>1. channels[c].kind = "group"
      BY <2>1, <2>3 DEF Good, Stores, Numbered, Rowed
    <3>2. Store!AddChannelMember(c, v)
      BY <1>1, <1>4, <2>3, <3>1 DEF InsertMember, Store!AddChannelMember
    <3> QED BY <1>2, <2>1, <3>2 DEF Store!Operation
  <2> QED BY <2>2, <2>3
<1>5. CASE DeleteMember(p)
  <2>1. c \in ChannelIds /\ channels[c].kind = "group" /\ v \in Users /\ In(members, c) # {v}
    BY <1>1, <1>2, <1>5 DEF DeleteMember, KnowsRow, KnowsLock, OnChannel, OnGroup, Removing
  <2>2. Store!RemoveChannelMember(c, v)
    BY <1>1, <1>5, <2>1, StoreMembersAre DEF DeleteMember, Store!RemoveChannelMember
  <2> QED BY <1>2, <2>1, <2>2 DEF Store!Operation
<1> QED BY <1>3, <1>4, <1>5

LEMMA ChannelRefines == ASSUME Good, NEW p \in Requests, ChannelStep(p), UNCHANGED callVars PROVE Store!Operation \/ UNCHANGED storeVars
<1>1. Begins(p) => UNCHANGED storeVars
  BY DEF Begins, Only
<1>2. ASSUME InsertChannel(p) \/ RollbackChannel(p) \/ AnnounceChannel(p) \/ AnnounceAdded(p) \/ CommitAnswerLost(p) \/ LockChannel(p) \/ CountMembers(p)
             \/ MembersPage(p) \/ ChannelsPage(p) \/ FinishList(p)
      PROVE  UNCHANGED storeVars
  BY <1>2 DEF InsertChannel, RollbackChannel, AnnounceChannel, AnnounceAdded, CommitAnswerLost, LockChannel, CountMembers, MembersPage, ChannelsPage, FinishList
<1> QED BY <1>1, <1>2, ArrivalSteps, CommitRefines, MemberRefines DEF ChannelStep

LEMMA CreateConferenceRefines == ASSUME NEW p \in Requests, CreateConference(p) PROVE Store!Operation
<1>1. PICK u \in Users, k \in Conferences : Store!CreateConference(k, u)
  BY DEF CreateConference, Store!CreateConference
<1> QED BY <1>1 DEF Store!Operation

LEMMA ExpiryRefines == ASSUME NEW k \in Conferences, ConferenceExpires(k) PROVE Store!Operation
<1>1. Store!Expire(k)
  BY DEF ConferenceExpires, Store!Expire
<1> QED BY <1>1 DEF Store!Operation

\* The second of two revocations finds nothing to do.
LEMMA RevocationRefines == ASSUME Good, NEW p \in Requests, MarkRevoked(p) PROVE Store!Operation \/ UNCHANGED storeVars
<1>1. PICK k : k = req[p].on
  OBVIOUS
<1>2. /\ k \in Conferences /\ conferences[k].state # "none"
      /\ conferences' = [conferences EXCEPT ![k].state = "revoked"] /\ UNCHANGED <<channels, members>>
  BY <1>1, KnowsOf DEF MarkRevoked, KnowsRow, OnLink
<1>3. conferences \in [Conferences -> Store!ConferenceRow]
  BY DEF Good, Typed, Tables
<1>4. conferences[k].state \in {"live", "expired", "revoked"}
  BY <1>2, <1>3, Constants
<1>5. CASE conferences[k].state = "revoked"
  <2>1. [conferences[k] EXCEPT !.state = "revoked"] = conferences[k]
    BY <1>2, <1>3, <1>5, Constants
  <2>2. conferences' = conferences
    BY <1>2, <1>3, <2>1
  <2> QED BY <1>2, <2>2 DEF storeVars
<1>6. CASE conferences[k].state # "revoked"
  <2>1. Store!RevokeConference(k)
    BY <1>2, <1>4, <1>6 DEF Store!RevokeConference
  <2> QED BY <1>2, <2>1 DEF Store!Operation
<1> QED BY <1>5, <1>6

LEMMA StepRefines == IInv /\ [Next]_vars => [Store!Next]_(Store!storeVars)
<1> SUFFICES ASSUME IInv, [Next]_vars PROVE Store!Operation \/ UNCHANGED storeVars
  BY DEF Store!Next, Store!storeVars, storeVars
<1>1. Good
  BY DEF IInv, Good, Stores
<1>2. ASSUME NEW p \in Requests, CreateCallToken(p) \/ JoinToken(p) \/ MintFails(p) \/ AnnounceRemoved(p) \/ RemovalAnswerLost(p) \/ RevokeConference(p)
                                 \/ CloseConference(p) \/ JoinConference(p) \/ GuestToken(p)
      PROVE  UNCHANGED storeVars
  BY <1>2 DEF CreateCallToken, JoinToken, MintFails, AnnounceRemoved, RemovalAnswerLost, RevokeConference, CloseConference, JoinConference, GuestToken
<1>3. ASSUME NEW u, DeactivateUser(u) \/ EjectEverywhere(u) \/ ejectWithRetry(u) PROVE UNCHANGED storeVars
  BY <1>3 DEF DeactivateUser, EjectEverywhere, ejectWithRetry, channelVars
<1>4. ASSUME NEW t, JoinRoom(t) \/ TicketExpires(t) \/ LeaveRoom(t) \/ EmptyRoomCloses(t) PROVE UNCHANGED storeVars
  BY <1>4 DEF JoinRoom, TicketExpires, LeaveRoom, EmptyRoomCloses, channelVars
<1>5. ASSUME NEW h, Transition(h) \/ announceCall(h) \/ \E c \in ChannelIds : HookReads(h, c) PROVE UNCHANGED storeVars
  BY <1>5 DEF Transition, announceCall, HookReads, channelVars
<1>6. UNCHANGED vars => UNCHANGED storeVars
  BY DEF vars, channelVars
<1> QED BY <1>1, <1>2, <1>3, <1>4, <1>5, <1>6, ChannelRefines, CreateConferenceRefines, ExpiryRefines, RevocationRefines
  DEF Next

\* What the handlers do to channels, memberships and conferences on PostgreSQL,
\* statement by statement and with other requests in between, is what each
\* operation does as one step on SQLite (server/internal/sqlitestore/channels.go).
THEOREM RefinesStoreAlways == Spec => RefinesStore
BY Invariant, InitRefines, StepRefines, PTL DEF Spec, RefinesStore, Store!Spec
===============================================================================
