----------------------------- MODULE ChannelStore -----------------------------
(***************************************************************************)
(* What the store promises about channels, memberships and conferences, in *)
(* the form in which the SQLite store keeps that promise                   *)
(* (server/internal/sqlitestore): the database has one connection, so an   *)
(* operation is one step.  Channels.tla and Calls.tla, with PostgreSQL's   *)
(* statements and row locks and the handlers around them, implement this   *)
(* specification.                                                          *)
(***************************************************************************)
EXTENDS Integers

CONSTANTS
  Users,        \* accounts, as numbers in username order
  MaxChannels,  \* bound: channels that are created
  Slugs,        \* names a public or private channel can have
  NoSlug,       \* the NULL slug of a direct message
  Conferences   \* conference ids

VARIABLES
  channels,     \* the channels table
  members,      \* the channel_members table: pairs <<channel, user>>
  conferences   \* the conferences table

storeVars == <<channels, members, conferences>>

ChannelIds == 1 .. MaxChannels
Unassigned == 0

\* Public and private channels obey the same rules in this code: both are
\* "group".  A direct message has two users and no slug.
NoRow == [kind |-> "none", slug |-> NoSlug, pair |-> {}, by |-> Unassigned, e2ee |-> FALSE, topic |-> 0]
Group(slug, e2ee, by) == [kind |-> "group", slug |-> slug, pair |-> {}, by |-> by, e2ee |-> e2ee, topic |-> 0]
Direct(a, b, e2ee)    == [kind |-> "dm", slug |-> NoSlug, pair |-> {a, b}, by |-> a, e2ee |-> e2ee, topic |-> 0]

ChannelRow == [kind : {"none", "group", "dm"}, slug : Slugs \cup {NoSlug}, pair : SUBSET Users,
               by : Users \cup {Unassigned}, e2ee : BOOLEAN, topic : {0, 1}]

NoConference == [state |-> "none", by |-> Unassigned]
ConferenceRow == [state : {"none", "live", "expired", "revoked"}, by : Users \cup {Unassigned}]

Members(c) == {u \in Users : <<c, u>> \in members}

\* The tables as earlier operations can have left them.
Init ==
  /\ channels \in [ChannelIds -> ChannelRow]
  /\ members \subseteq ChannelIds \X Users
  /\ conferences = [k \in Conferences |-> NoConference]
  /\ \A c \in ChannelIds :
       /\ channels[c].kind = "none"  => Members(c) = {}
       /\ channels[c].kind = "group" => Members(c) # {}
       /\ channels[c].kind = "dm"    => Members(c) = channels[c].pair
       /\ \A d \in ChannelIds \ {c} : channels[c] # NoRow =>
            <<channels[d].slug, channels[d].pair>> # <<channels[c].slug, channels[c].pair>>

CreateChannel(c, slug, e2ee, by) ==
  /\ channels[c] = NoRow
  /\ \A d \in ChannelIds : channels[d].slug # slug
  /\ channels' = [channels EXCEPT ![c] = Group(slug, e2ee, by)]
  /\ members' = members \cup {<<c, by>>}
  /\ UNCHANGED conferences

\* An existing direct message of the two is returned as it is.
OpenDirectMessage(c, caller, peer, e2ee) ==
  /\ caller # peer
  /\ channels[c] = NoRow
  /\ \A d \in ChannelIds : channels[d].pair # {caller, peer}
  /\ channels' = [channels EXCEPT ![c] = Direct(caller, peer, e2ee)]
  /\ members' = members \cup {<<c, caller>>, <<c, peer>>}
  /\ UNCHANGED conferences

UpdateChannelTopic(c, topic) ==
  /\ channels[c].kind = "group"
  /\ channels' = [channels EXCEPT ![c].topic = topic]
  /\ UNCHANGED <<members, conferences>>

\* The two statements are not in a transaction, but the kind never changes.
AddChannelMember(c, u) ==
  /\ channels[c].kind = "group"
  /\ members' = members \cup {<<c, u>>}
  /\ UNCHANGED <<channels, conferences>>

\* The last member cannot leave.
RemoveChannelMember(c, u) ==
  /\ channels[c].kind = "group"
  /\ Members(c) # {u}
  /\ members' = members \ {<<c, u>>}
  /\ UNCHANGED <<channels, conferences>>

CreateConference(k, by) ==
  /\ conferences[k] = NoConference
  /\ conferences' = [conferences EXCEPT ![k] = [state |-> "live", by |-> by]]
  /\ UNCHANGED <<channels, members>>

\* expires_at passes: the link is dead, the row can still be revoked.
Expire(k) ==
  /\ conferences[k].state = "live"
  /\ conferences' = [conferences EXCEPT ![k].state = "expired"]
  /\ UNCHANGED <<channels, members>>

RevokeConference(k) ==
  /\ conferences[k].state \in {"live", "expired"}
  /\ conferences' = [conferences EXCEPT ![k].state = "revoked"]
  /\ UNCHANGED <<channels, members>>

Operation ==
  \/ \E c \in ChannelIds, u, v \in Users, e2ee \in BOOLEAN, slug \in Slugs :
       CreateChannel(c, slug, e2ee, u) \/ OpenDirectMessage(c, u, v, e2ee)
  \/ \E c \in ChannelIds, t \in {0, 1} : UpdateChannelTopic(c, t)
  \/ \E c \in ChannelIds, u \in Users : AddChannelMember(c, u) \/ RemoveChannelMember(c, u)
  \/ \E k \in Conferences :
       Expire(k) \/ RevokeConference(k) \/ \E u \in Users : CreateConference(k, u)

\* A read or a refusal changes no table and is no step of this specification.
Next == storeVars' # storeVars /\ Operation

Spec == Init /\ [][Next]_storeVars
===============================================================================
