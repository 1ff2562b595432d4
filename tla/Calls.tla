-------------------------------- MODULE Calls ---------------------------------
(***************************************************************************)
(* Calls and conferences (server/internal/calls and the handlers over it),  *)
(* composed with the channels whose members may join a call.  The media     *)
(* server LiveKit is external: it keeps rooms and participants, honours     *)
(* tickets without asking, lets nobody create a room by joining             *)
(* (auto_create: false), and reports changes by webhooks that arrive late,  *)
(* twice, in any order, or at the same time.                                *)
(***************************************************************************)
EXTENDS Channels

CONSTANTS
  Guests,       \* the random identities of conference guests
  Hooks,        \* webhook deliveries handled at once
  MaxOutages    \* bound: failing calls to LiveKit

VARIABLES
  rooms,      \* rooms that exist at LiveKit
  inRoom,     \* pairs <<room, identity>>: participants
  tickets,    \* pairs <<room, identity>>: join tickets that are valid
  ejecting,   \* triples <<room, user, tries>>: ejections under way
  sweeping,   \* deactivated users whose rooms are not listed yet
  announced,  \* Service.announced
  pending,    \* channels with a webhook that was not handled
  hook,       \* per delivery: the channel, what it read, what it will announce
  banner,     \* channels whose call was last announced as running
  outages     \* LiveKit calls that failed so far

\* History.
VARIABLES
  kept,       \* pairs <<room, user>> let in after the entitlement ended, or
              \* whose ejection failed twice or was never begun
  muddied,    \* channels whose last announcement overlapped another delivery
              \* or whose read failed
  slipped     \* conferences whose room a join made again under a revocation

callVars == <<rooms, inRoom, tickets, ejecting, sweeping, announced, pending, hook, banner, outages,
              kept, muddied, slipped>>
vars == <<channelVars, callVars>>

\* A room's name is a function of the channel or the conference.
RoomFor(c)           == <<"chan", c>>
ConferenceRoomFor(k) == <<"conf", k>>
ChannelRooms    == {RoomFor(c) : c \in ChannelIds}
ConferenceRooms == {ConferenceRoomFor(k) : k \in Conferences}
Rooms == ChannelRooms \cup ConferenceRooms
Identities == Users \cup Guests

NoHook == [at |-> "idle", ch |-> 0, active |-> FALSE, label |-> "none", alone |-> TRUE]

ASSUME CallsAssumptions == Guests \cap Users = {} /\ MaxOutages \in Nat

\* Channels, rooms, tickets and ejections are well formed; an ejection is tried
\* twice and no more (ejectWithRetry).
TypeOK ==
  /\ ChannelsTypeOK
  /\ rooms \subseteq Rooms /\ inRoom \subseteq Rooms \X Identities /\ tickets \subseteq Rooms \X Identities
  /\ ejecting \subseteq Rooms \X Users \X {1, 2}
  /\ sweeping \subseteq Users /\ announced \subseteq ChannelIds /\ pending \subseteq ChannelIds
  /\ hook \in [Hooks -> [at : {"idle", "read", "announce"}, ch : ChannelIds \cup {0}, active : BOOLEAN,
                         label : {"none", "Started", "Updated", "Ended"}, alone : BOOLEAN]]
  /\ banner \subseteq ChannelIds /\ outages \in 0 .. MaxOutages
  /\ kept \subseteq Rooms \X Users /\ muddied \subseteq ChannelIds /\ slipped \subseteq Conferences

Init ==
  /\ ChannelsInit
  /\ rooms = {} /\ inRoom = {} /\ tickets = {}
  /\ ejecting = {} /\ sweeping = {}
  /\ announced = {} /\ pending = {} /\ banner = {}
  /\ hook = [h \in Hooks |-> NoHook]
  /\ outages = 0
  /\ kept = {} /\ muddied = {} /\ slipped = {}

\* LiveKit reports a change in a channel's room.  Two undelivered reports of a
\* channel are one: nothing but the room of a report is used.
Report(R) == pending' = pending \cup {c \in ChannelIds : RoomFor(c) \in R}

Outage == outages < MaxOutages /\ outages' = outages + 1

--------------------------------------------------------------------------------
\* Tickets.

CreateCallToken(p) == \E u \in Users, c \in ChannelIds :
  /\ resolveChannel(c, u) /\ canChannel(c, u, "CallJoin")
  /\ Arrive(p, "CreateCallToken", u, [Idle EXCEPT !.at = "mint", !.by = u, !.on = c])
  /\ UNCHANGED <<storeVars, locked, active, shown, raced, untold, callVars>>

\* ticket makes the room, which may be there, and signs the ticket.
ticket(room, identity) ==
  /\ rooms' = rooms \cup {room}
  /\ tickets' = tickets \cup {<<room, identity>>}

JoinToken(p) ==
  /\ req[p].at = "mint"
  /\ ticket(RoomFor(req[p].on), req[p].by)
  /\ Done(p)
  /\ UNCHANGED <<storeVars, locked, active, budget, shown, raced, untold,
                 inRoom, ejecting, sweeping, announced, pending, hook, banner, outages, kept, muddied, slipped>>

\* The room cannot be made: no ticket, status 500.
MintFails(p) ==
  /\ req[p].at \in {"mint", "mintGuest"}
  /\ Outage
  /\ Done(p)
  /\ UNCHANGED <<storeVars, locked, active, budget, shown, raced, untold, rooms, inRoom, tickets, ejecting,
                 sweeping, announced, pending, hook, banner, kept, muddied, slipped>>

--------------------------------------------------------------------------------
\* The end of an entitlement: removal from the channel, and deactivation.

Entitled(r, u) == u \in active /\ \E c \in ChannelIds : r = RoomFor(c) /\ <<c, u>> \in members

\* Fault: the removed member is not ejected.
AnnounceRemovedOnly(p) ==
  /\ req[p].at = "removed"
  /\ shown' = shown \ {<<req[p].on, req[p].who>>}
  /\ untold' = untold \ {<<req[p].on, req[p].who>>}
  /\ Done(p)
  /\ UNCHANGED <<storeVars, locked, active, budget, raced, callVars>>

\* MemberRemoved, ChannelRemoved, which needs no read and cannot be dropped, and
\* then the ejection in the background.
AnnounceRemoved(p) ==
  /\ req[p].at = "removed"
  /\ shown' = shown \ {<<req[p].on, req[p].who>>}
  /\ untold' = untold \ {<<req[p].on, req[p].who>>}
  /\ ejecting' = ejecting \cup {<<RoomFor(req[p].on), req[p].who, 1>>}
  /\ Done(p)
  /\ UNCHANGED <<storeVars, locked, active, budget, raced, rooms, inRoom, tickets, sweeping, announced,
                 pending, hook, banner, outages, kept, muddied, slipped>>

\* The commit of a removal went through and its answer is lost: status 500,
\* nobody is told and nobody is ejected.
RemovalAnswerLost(p) ==
  /\ req[p].at = "removed"
  /\ untold' = untold \cup {<<req[p].on, req[p].who>>}
  /\ kept' = kept \cup {<<RoomFor(req[p].on), req[p].who>>}
  /\ Done(p)
  /\ UNCHANGED <<storeVars, locked, active, budget, shown, raced, rooms, inRoom, tickets, ejecting, sweeping,
                 announced, pending, hook, banner, outages, muddied, slipped>>

\* Deactivation starts EjectEverywhere in the background.
DeactivateUser(u) ==
  /\ budget["DeactivateUser"] > 0 /\ u \in active
  /\ budget' = [budget EXCEPT !["DeactivateUser"] = @ - 1]
  /\ active' = active \ {u}
  /\ sweeping' = sweeping \cup {u}
  /\ UNCHANGED <<storeVars, locked, req, shown, raced, untold, rooms, inRoom, tickets, ejecting, announced,
                 pending, hook, banner, outages, kept, muddied, slipped>>

\* The sweep lists the live rooms once; if it cannot, it ends there.
EjectEverywhere(u) ==
  /\ u \in sweeping
  /\ sweeping' = sweeping \ {u}
  /\ \/ /\ ejecting' = ejecting \cup {<<r, u, 1>> : r \in rooms \cap ChannelRooms}
        /\ UNCHANGED <<outages, kept>>
     \/ /\ Outage
        /\ kept' = kept \cup {<<r, u>> : r \in rooms}
        /\ UNCHANGED ejecting
  /\ UNCHANGED <<channelVars, rooms, inRoom, tickets, announced, pending, hook, banner, muddied, slipped>>

\* One ejection: the call, and one retry if it failed.
ejectWithRetry(e) ==
  LET r == e[1]  u == e[2] IN
  /\ e \in ejecting
  /\ \/ /\ ejecting' = ejecting \ {e}
        /\ inRoom' = inRoom \ {<<r, u>>}
        /\ IF <<r, u>> \in inRoom THEN Report({r}) ELSE UNCHANGED pending
        /\ UNCHANGED <<outages, kept>>
     \/ /\ Outage
        /\ ejecting' = (ejecting \ {e}) \cup (IF e[3] = 1 THEN {<<r, u, 2>>} ELSE {})
        /\ kept' = IF e[3] = 1 THEN kept ELSE kept \cup {<<r, u>>}
        /\ UNCHANGED <<inRoom, pending>>
  /\ UNCHANGED <<channelVars, rooms, tickets, sweeping, announced, hook, banner, muddied, slipped>>

--------------------------------------------------------------------------------
\* LiveKit, external.

\* A participant keeps a token that is renewed, so the ticket stays.
JoinRoom(t) ==
  /\ t \in tickets /\ t[1] \in rooms /\ t \notin inRoom
  /\ inRoom' = inRoom \cup {t}
  /\ Report({t[1]})
  /\ kept' = IF t[2] \in Users /\ ~Entitled(t[1], t[2]) THEN kept \cup {t} ELSE kept
  /\ UNCHANGED <<channelVars, rooms, tickets, ejecting, sweeping, announced, hook, banner, outages,
                 muddied, slipped>>

LeaveRoom(t) ==
  /\ t \in inRoom
  /\ inRoom' = inRoom \ {t}
  /\ Report({t[1]})
  /\ UNCHANGED <<channelVars, rooms, tickets, ejecting, sweeping, announced, hook, banner, outages,
                 kept, muddied, slipped>>

TicketExpires(t) ==
  /\ t \in tickets \ inRoom
  /\ tickets' = tickets \ {t}
  /\ UNCHANGED <<channelVars, rooms, inRoom, ejecting, sweeping, announced, pending, hook, banner, outages,
                 kept, muddied, slipped>>

EmptyRoomCloses(r) ==
  /\ r \in rooms
  /\ \A i \in Identities : <<r, i>> \notin inRoom
  /\ rooms' = rooms \ {r}
  /\ UNCHANGED <<channelVars, inRoom, tickets, ejecting, sweeping, announced, pending, hook, banner, outages,
                 kept, muddied, slipped>>

--------------------------------------------------------------------------------
\* A webhook is handled: read the room, decide the event, announce it.

CallRuns(c) == \E u \in Users : <<RoomFor(c), u>> \in inRoom

Busy(c) == {h \in Hooks : hook[h].ch = c}

\* The delivery may come again.  A failed read costs the announcement.
HookReads(h, c) ==
  /\ hook[h].at = "idle" /\ c \in pending
  /\ \E again \in BOOLEAN : pending' = IF again THEN pending ELSE pending \ {c}
  /\ \/ /\ hook' = [g \in Hooks |->
              IF g = h THEN [at |-> "read", ch |-> c, active |-> CallRuns(c), label |-> "none", alone |-> Busy(c) = {}]
              ELSE IF hook[g].ch = c THEN [hook[g] EXCEPT !.alone = FALSE] ELSE hook[g]]
        /\ muddied' = IF Busy(c) = {} THEN muddied ELSE muddied \cup {c}
        /\ UNCHANGED outages
     \/ /\ Outage
        /\ hook' = [g \in Hooks |-> IF hook[g].ch = c THEN [hook[g] EXCEPT !.alone = FALSE] ELSE hook[g]]
        /\ muddied' = muddied \cup {c}
  /\ UNCHANGED <<channelVars, rooms, inRoom, tickets, ejecting, sweeping, announced, banner, kept, slipped>>

\* Fault: a call that ended is not forgotten, so the next one is an update.
ForgetfulTransition(h) ==
  LET c == hook[h].ch  was == c \in announced IN
  /\ hook[h].at = "read"
  /\ announced' = IF hook[h].active THEN announced \cup {c} ELSE announced
  /\ hook' = [hook EXCEPT ![h].at = "announce",
                          ![h].label = IF hook[h].active THEN (IF was THEN "Updated" ELSE "Started") ELSE "none"]
  /\ UNCHANGED <<channelVars, rooms, inRoom, tickets, ejecting, sweeping, pending, banner, outages,
                 kept, muddied, slipped>>

\* Service.Transition, under its mutex.
Transition(h) ==
  LET c == hook[h].ch  was == c \in announced IN
  /\ hook[h].at = "read"
  /\ announced' = IF hook[h].active THEN announced \cup {c} ELSE announced \ {c}
  /\ hook' = [hook EXCEPT ![h].at = "announce",
                          ![h].label = IF hook[h].active THEN (IF was THEN "Updated" ELSE "Started")
                                       ELSE (IF was THEN "Ended" ELSE "none")]
  /\ UNCHANGED <<channelVars, rooms, inRoom, tickets, ejecting, sweeping, pending, banner, outages,
                 kept, muddied, slipped>>

\* What is announced, after the mutex.  An announcement nobody overlapped
\* says how things are.
announceCall(h) ==
  LET c == hook[h].ch IN
  /\ hook[h].at = "announce"
  /\ banner' = CASE hook[h].label = "Ended" -> banner \ {c}
                 [] hook[h].label = "none"  -> banner
                 [] OTHER                   -> banner \cup {c}
  /\ muddied' = IF hook[h].label # "none" /\ hook[h].alone THEN muddied \ {c} ELSE muddied
  /\ hook' = [hook EXCEPT ![h] = NoHook]
  /\ UNCHANGED <<channelVars, rooms, inRoom, tickets, ejecting, sweeping, announced, pending, outages,
                 kept, slipped>>

--------------------------------------------------------------------------------
\* Conferences.

CreateConference(p) == \E u \in Users, k \in Conferences :
  /\ conferences[k] = Store!NoConference
  /\ Arrive(p, "CreateConference", u, Idle)
  /\ conferences' = [conferences EXCEPT ![k] = [state |-> "live", by |-> u]]
  /\ UNCHANGED <<channels, members, locked, active, shown, raced, untold, callVars>>

ConferenceExpires(k) ==
  /\ conferences[k].state = "live"
  /\ conferences' = [conferences EXCEPT ![k].state = "expired"]
  /\ UNCHANGED <<channels, members, locked, active, req, budget, shown, raced, untold, callVars>>

\* Only the owner and administrators; anybody else is told there is none.
canConference(k, u) == conferences[k].by = u \/ u \in Admins

RevokeConference(p) == \E u \in Users, k \in Conferences :
  /\ conferences[k].state \in {"live", "expired"} /\ canConference(k, u)
  /\ Arrive(p, "RevokeConference", u, [Idle EXCEPT !.at = "close", !.by = u, !.on = k])
  /\ UNCHANGED <<storeVars, locked, active, shown, raced, untold, callVars>>

\* The room is deleted with everybody in it; if that fails, nothing is
\* revoked and the caller can try again.
CloseConference(p) ==
  LET k == req[p].on IN
  /\ req[p].at = "close"
  /\ \/ /\ rooms' = rooms \ {ConferenceRoomFor(k)}
        /\ inRoom' = {t \in inRoom : t[1] # ConferenceRoomFor(k)}
        /\ Goto(p, "revoke")
        /\ UNCHANGED outages
     \/ Outage /\ Done(p) /\ UNCHANGED <<rooms, inRoom>>
  /\ UNCHANGED <<storeVars, locked, active, budget, shown, raced, untold, tickets, ejecting, sweeping,
                 announced, pending, hook, banner, kept, muddied, slipped>>

\* The UPDATE finds nothing when another request revoked the link first.
MarkRevoked(p) ==
  /\ req[p].at = "revoke"
  /\ conferences' = [conferences EXCEPT ![req[p].on].state = "revoked"]
  /\ Done(p)
  /\ UNCHANGED <<channels, members, locked, active, budget, shown, raced, untold, callVars>>

\* The link is looked up before the ticket is minted.
JoinConference(p) == \E k \in Conferences, g \in Guests :
  /\ conferences[k].state = "live"
  /\ req[p].at = "idle" /\ budget["JoinConference"] > 0
  /\ req' = [req EXCEPT ![p] = [Idle EXCEPT !.at = "mintGuest", !.on = k, !.who = g]]
  /\ budget' = [budget EXCEPT !["JoinConference"] = @ - 1]
  /\ UNCHANGED <<storeVars, locked, active, shown, raced, untold, callVars>>

\* The room was closed for this conference and the link not asked since.
ClosedUnder(p) == \/ conferences[req[p].on].state = "revoked"
                  \/ \E q \in Requests : req[q].at = "revoke" /\ req[q].on = req[p].on

GuestToken(p) ==
  /\ req[p].at = "mintGuest"
  /\ ticket(ConferenceRoomFor(req[p].on), req[p].who)
  /\ slipped' = IF ClosedUnder(p) THEN slipped \cup {req[p].on} ELSE slipped
  /\ Done(p)
  /\ UNCHANGED <<storeVars, locked, active, budget, shown, raced, untold, inRoom, ejecting, sweeping, announced,
                 pending, hook, banner, outages, kept, muddied>>

--------------------------------------------------------------------------------
Next ==
  \/ \E p \in Requests :
       \/ ChannelStep(p) /\ UNCHANGED callVars
       \/ CreateCallToken(p) \/ JoinToken(p) \/ MintFails(p) \/ AnnounceRemoved(p) \/ RemovalAnswerLost(p)
       \/ CreateConference(p) \/ RevokeConference(p) \/ CloseConference(p) \/ MarkRevoked(p)
       \/ JoinConference(p) \/ GuestToken(p)
  \/ \E u \in Users : DeactivateUser(u) \/ EjectEverywhere(u)
  \/ \E e \in ejecting : ejectWithRetry(e)
  \/ \E t \in tickets : JoinRoom(t) \/ TicketExpires(t)
  \/ \E t \in inRoom : LeaveRoom(t)
  \/ \E r \in rooms : EmptyRoomCloses(r)
  \/ \E k \in Conferences : ConferenceExpires(k)
  \/ \E h \in Hooks : Transition(h) \/ announceCall(h) \/ \E c \in ChannelIds : HookReads(h, c)

Spec == Init /\ [][Next]_vars

\* Somebody in a channel's call who is not entitled to it any more is being
\* ejected, or the ejection failed twice, or a ticket from before let them in
\* again (calls.go:455; channel_handlers.go:651), or the answer to the commit of
\* their removal was lost.  Nobody is simply forgotten.
NobodyIsForgotten == \A r \in ChannelRooms, u \in Users :
  <<r, u>> \in inRoom /\ ~Entitled(r, u) =>
    \/ <<r, u>> \in kept
    \/ u \in sweeping
    \/ \E n \in {1, 2} : <<r, u, n>> \in ejecting
    \/ \E p \in Requests : req[p].at = "removed" /\ RoomFor(req[p].on) = r /\ req[p].who = u

\* When every webhook of a channel is handled, clients were last told whether
\* its call runs, unless that announcement overlapped another delivery's or a
\* read failed (call_handlers.go:153).
BannerFollowsCall == \A c \in ChannelIds :
  c \notin pending \cup muddied /\ Busy(c) = {} => (c \in banner <=> CallRuns(c))

\* A revoked conference has no room, so that no ticket for it is worth
\* anything, unless a join that had looked the link up before made the room
\* again (conference_handlers.go:186).
RevokedHasNoRoom == \A k \in Conferences :
  conferences[k].state = "revoked" /\ k \notin slipped => ConferenceRoomFor(k) \notin rooms

\* Memberships: every channel keeps a member, and what users were told and what
\* they list is what is stored.
MembershipIsTrue == TypeOK /\ NobodyIsStranded /\ TellsMembership /\ WalkIsComplete

\* Access to a call ends with the right to it: nobody who was removed or
\* deactivated is forgotten in a room, and a revoked conference has none.
AccessEnds == NobodyIsForgotten /\ RevokedHasNoRoom
===============================================================================
