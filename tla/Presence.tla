------------------------------ MODULE Presence -------------------------------
(***************************************************************************)
(* Presence of one user in the gateway (server/internal/wsgateway), as one *)
(* direct-message peer who stays connected is shown it.  The record of a   *)
(* user changes under g.mu, but what is announced is queued after the lock *)
(* is released: by the read loop of a socket that registered or reported a *)
(* state, and by the sweep that spent the grace period.                    *)
(***************************************************************************)
EXTENDS Integers, Sequences, SequencesExt

CONSTANTS
  Connections,    \* one slot per socket of the user
  PresenceQueue,  \* eventQueue, 1024
  MayLose         \* whether the fan-out query or the peer's queue may fail

ASSUME PresenceAssumptions ==
  /\ PresenceQueue \in Nat \ {0}
  /\ MayLose \in BOOLEAN

VARIABLES
  up,         \* the registered sockets: g.sockets[user]
  record,     \* g.presence[user]: no record, or a state and whether goneAt is set
  say,        \* per socket: the change its read loop has still to announce
  expired,    \* the sweep has deleted the record and has still to announce it
  queue,      \* g.events, the presence events of this user
  seen,       \* what the peer was last told
  lost        \* history: an announcement was dropped on its way

presenceVars == <<up, record, say, expired, queue, seen, lost>>

Claimable == {"online", "away"}
States    == Claimable \cup {"offline"}

\* goneAt is set when the last socket has left.
Record   == [state : Claimable, gone : BOOLEAN]
NoRecord == [state |-> "none", gone |-> FALSE]
Online   == [state |-> "online", gone |-> FALSE]

PresenceInit ==
  /\ up      = {}
  /\ record  = NoRecord
  /\ say     = [s \in Connections |-> <<>>]
  /\ expired = FALSE
  /\ queue   = <<>>
  /\ seen    = "offline"
  /\ lost    = FALSE

\* announcePresence: a full queue drops it.
announcePresence(state) ==
  IF Len(queue) < PresenceQueue
    THEN queue' = Append(queue, state) /\ lost' = lost
    ELSE queue' = queue /\ lost' = TRUE
-------------------------------------------------------------------------------
\* registerAndReplay.  The user's first socket makes them online, even within
\* the grace period of the last one.
Register(s) ==
  /\ s \notin up /\ say[s] = <<>>
  /\ up' = up \cup {s}
  /\ record' = IF up = {} THEN Online
               ELSE IF record # NoRecord THEN [record EXCEPT !.gone = FALSE] ELSE record
  /\ say' = IF up = {} THEN [say EXCEPT ![s] = <<"online">>] ELSE say
  /\ UNCHANGED <<expired, queue, seen, lost>>

\* reportPresence: a client says it is idle, or back.
reportPresence(s, state) ==
  /\ s \in up /\ say[s] = <<>>
  /\ record' = IF record = NoRecord THEN [Online EXCEPT !.state = state]
               ELSE [record EXCEPT !.state = state]
  /\ say' = IF record = NoRecord \/ record.state # state
              THEN [say EXCEPT ![s] = <<state>>] ELSE say
  /\ UNCHANGED <<up, expired, queue, seen, lost>>

\* The read loop queues what it has changed, the lock released.
Announce(s) ==
  /\ say[s] # <<>>
  /\ announcePresence(say[s][1])
  /\ say' = [say EXCEPT ![s] = <<>>]
  /\ UNCHANGED <<up, record, expired, seen>>

\* Fault: the socket leaves with its announcement still to be made.
deregisterEarly(s) ==
  /\ s \in up
  /\ up' = up \ {s}
  /\ record' = IF up' = {} /\ record # NoRecord THEN [record EXCEPT !.gone = TRUE] ELSE record
  /\ UNCHANGED <<say, expired, queue, seen, lost>>

\* After the read loop: the last socket starts the grace period.
deregister(s) ==
  /\ s \in up /\ say[s] = <<>>
  /\ up' = up \ {s}
  /\ record' = IF up' = {} /\ record # NoRecord THEN [record EXCEPT !.gone = TRUE] ELSE record
  /\ UNCHANGED <<say, expired, queue, seen, lost>>
-------------------------------------------------------------------------------
\* The sweep finds that the grace period is over and deletes the record ...
expirePresence ==
  /\ ~expired
  /\ record.gone
  /\ record'  = NoRecord
  /\ expired' = TRUE
  /\ UNCHANGED <<up, say, queue, seen, lost>>

\* ... and announces it once g.mu is released.
AnnounceOffline ==
  /\ expired
  /\ announcePresence("offline")
  /\ expired' = FALSE
  /\ UNCHANGED <<up, record, say, seen>>

\* The dispatcher fans one change out to the peer.
deliverPresence ==
  /\ queue # <<>>
  /\ queue' = Tail(queue)
  /\ seen'  = Head(queue)
  /\ UNCHANGED <<up, record, say, expired, lost>>

deliverPresenceFails ==
  /\ MayLose
  /\ queue # <<>>
  /\ queue' = Tail(queue)
  /\ lost'   = TRUE
  /\ UNCHANGED <<up, record, say, expired, seen>>
-------------------------------------------------------------------------------
PresenceNext ==
  \/ \E s \in Connections :
       \/ Register(s) \/ Announce(s) \/ deregister(s)
       \/ \E state \in Claimable : reportPresence(s, state)
  \/ expirePresence \/ AnnounceOffline
  \/ deliverPresence \/ deliverPresenceFails

PresenceSpec == PresenceInit /\ [][PresenceNext]_presenceVars

\* Read loops, the sweep and the dispatcher are goroutines that run; the grace
\* period ends.  Nothing obliges a client to connect, report or leave.
PresenceFairness ==
  /\ \A s \in Connections : WF_presenceVars(Announce(s))
  /\ WF_presenceVars(expirePresence) /\ WF_presenceVars(AnnounceOffline)
  /\ WF_presenceVars(deliverPresence \/ deliverPresenceFails)

PresenceFairSpec == PresenceSpec /\ PresenceFairness
-------------------------------------------------------------------------------
(* Properties                                                              *)

\* The state is well formed, and announcing keeps the event queue within its
\* capacity (enqueue).
PresenceTypeOK ==
  /\ up \subseteq Connections
  /\ record \in Record \cup {NoRecord}
  /\ say \in [Connections -> {<<>>} \cup {<<state>> : state \in Claimable}]
  /\ expired \in BOOLEAN
  /\ queue \in Seq(States) /\ Len(queue) <= PresenceQueue
  /\ seen \in States
  /\ lost \in BOOLEAN

\* The record follows the sockets through every reconnect: a user with a socket
\* has a record that the sweep will not take, and one without has none or one
\* the sweep will (registerAndReplay, deregister and expirePresence).
RecordFollowsSockets ==
  IF up = {} THEN record = NoRecord \/ record.gone
             ELSE record # NoRecord /\ ~record.gone

\* What the peer will have been told once the queue is drained.
Settled == IF queue = <<>> THEN seen ELSE Last(queue)

\* The last thing said about a user who left is that they are offline: whatever
\* their sockets announced, and in whichever order, came before it.
LastWordIsOffline ==
  (record = NoRecord /\ ~expired /\ ~lost) => Settled = "offline"

\* A user who leaves for good is shown offline for good.
GoneIsShown ==
  (<>[](up = {}) /\ []~lost) => <>[](seen = "offline")
===============================================================================
