------------------------------ MODULE ChatSync -------------------------------
(***************************************************************************)
(* One channel as one web client sees it: the message table, the gateway   *)
(* that numbers and sends what the handlers announce, and the client with  *)
(* its resume cursor (webapp/src/chat/realtime.ts), its view of the        *)
(* history and its REST reads (useChat.ts, store.ts).                      *)
(*                                                                         *)
(* The gateway is taken in large steps here (module Gateway has the small  *)
(* ones): an event is published, or a socket registered, in one step.  The *)
(* interleavings are those between handlers, dispatcher, network, REST     *)
(* answers and the user who enters and leaves the channel.                 *)
(***************************************************************************)
EXTENDS ReplayBuffer, FiniteSets

CONSTANTS
  Loads,         \* REST reads of the history that can be under way at once
  EventQueue,    \* eventQueue, 1024
  MaxMessages,   \* bound: messages sent
  MaxRestarts    \* bound: restarts of the server

ASSUME ChatSyncAssumptions ==
  /\ EventQueue \in Nat \ {0}
  /\ MaxMessages \in Nat /\ MaxRestarts \in Nat

VARIABLES
  stored,      \* the message table: messages 1 .. stored, by commit
  announcing,  \* committed, and not handed to the gateway yet
  events,      \* g.events
  buffer,      \* the channel's replay buffer
  log,         \* per number: the message its frame carries
  socket,      \* whether the client's socket is registered
  net,         \* frames on their way to the client
  cursor,      \* seqByChannel, 0 when there is no entry
  view,        \* the messages of the view
  status,      \* the view's status
  inside,      \* whether the channel is the open one
  load,        \* per read: where it is, and the page that was read
  restarts     \* what has been spent of the bound

\* History: what has happened that may cost the client a message.
VARIABLE disturbed

server   == <<stored, announcing, events, buffer, log, restarts>>
client   == <<cursor, view, status, inside, load>>
syncVars == <<server, socket, net, client, disturbed>>

Messages == 1 .. MaxMessages
NoLoad   == [pc |-> "none", page |-> {}]
Resync   == [type |-> "resync", seq |-> 0]
HelloOK  == [type |-> "hello_ok", seq |-> 0]
Event(n) == [type |-> "event", seq |-> n]

Causes == {"dropped", "restarted", "cursorless", "overwritten", "forgotten"}

SyncInit ==
  /\ stored = 0 /\ announcing = {} /\ events = <<>>
  /\ buffer = NoBuffer /\ log = <<>>
  /\ socket = "down" /\ net = <<>>
  /\ cursor = 0 /\ view = {} /\ status = "idle" /\ inside = FALSE
  /\ load = [l \in Loads |-> NoLoad]
  /\ restarts = 0
  /\ disturbed = {}
-------------------------------------------------------------------------------
(* The server                                                              *)

\* SendMessage commits.
Commit ==
  /\ stored < MaxMessages
  /\ stored' = stored + 1
  /\ announcing' = announcing \cup {stored + 1}
  /\ UNCHANGED <<events, buffer, log, restarts, socket, net, client, disturbed>>

\* The handler announces; handlers that committed in one order may do this in
\* another.  A full queue drops.
MessageCreated(m) ==
  /\ m \in announcing
  /\ announcing' = announcing \ {m}
  /\ IF Len(events) < EventQueue
       THEN events' = Append(events, m) /\ UNCHANGED disturbed
       ELSE disturbed' = disturbed \cup {"dropped"} /\ UNCHANGED events
  /\ UNCHANGED <<stored, buffer, log, restarts, socket, net, client>>

\* The dispatcher numbers, buffers and sends.  A socket that is behind is told
\* to resync instead, ahead of what is queued for it.
Publish ==
  /\ events # <<>>
  /\ LET n == nextSeq(buffer) IN
       /\ buffer' = store(buffer, n)
       /\ \/ net' = IF socket = "up" THEN Append(net, Event(n)) ELSE net
          \/ socket = "up" /\ net # <<>> /\ net[1] # HelloOK /\ net' = <<Resync>> \o net
  /\ log'    = Append(log, Head(events))
  /\ events' = Tail(events)
  /\ UNCHANGED <<stored, announcing, restarts, socket, client, disturbed>>

PruneReplay ==
  /\ \E k \in 1 .. Len(buffer.entries) : buffer' = prune(buffer, k)
  /\ UNCHANGED <<stored, announcing, events, log, restarts, socket, net, client, disturbed>>

\* The server goes down and comes back: sockets, queue and buffers are gone,
\* and what a handler had still to announce stays unannounced.
Restart ==
  /\ restarts < MaxRestarts
  /\ restarts' = restarts + 1
  /\ announcing' = {} /\ events' = <<>> /\ buffer' = NoBuffer /\ log' = <<>>
  /\ socket' = "down" /\ net' = <<>>
  /\ disturbed' = disturbed \cup {"restarted"}
  /\ UNCHANGED <<stored, client>>
-------------------------------------------------------------------------------
(* The socket                                                              *)

Disconnect ==
  /\ socket = "up"
  /\ socket' = "down" /\ net' = <<>>
  /\ UNCHANGED <<server, client, disturbed>>

\* handleOpen sends the cursor of the channels that have one; the gateway
\* replays or answers resync, and knows nothing of the others.
Connect ==
  /\ socket = "down"
  /\ socket' = "up"
  /\ net' = IF cursor = 0 THEN <<HelloOK>>
            ELSE IF buffer.lastSeq > 0 /\ canResume(buffer, cursor)
              THEN <<HelloOK>> \o [i \in 1 .. buffer.lastSeq - cursor |-> Event(cursor + i)]
              ELSE <<HelloOK, Resync>>
  /\ disturbed' = IF cursor = 0 /\ status # "idle"
                    THEN disturbed \cup {"cursorless"} ELSE disturbed
  /\ UNCHANGED <<server, client>>
-------------------------------------------------------------------------------
(* The client                                                              *)

\* loadHistory in mode "replace".
StartLoad(l) ==
  /\ load[l] = NoLoad
  /\ load' = [load EXCEPT ![l].pc = "asked"]
  /\ status' = "loading"

\* A message-bearing frame is upserted, and its number recorded afterwards.
ReceiveEvent ==
  /\ net # <<>> /\ net[1].type = "event"
  /\ view' = view \cup {log[net[1].seq]}
  /\ cursor' = IF net[1].seq > cursor THEN net[1].seq ELSE cursor
  /\ net' = Tail(net)
  /\ UNCHANGED <<server, socket, status, inside, load, disturbed>>

ReceiveHelloOK ==
  /\ net # <<>> /\ net[1] = HelloOK
  /\ net' = Tail(net)
  /\ UNCHANGED <<server, socket, client, disturbed>>

\* Fault: the cursor is dropped and nothing is fetched.
ReceiveResyncOnly ==
  /\ net # <<>> /\ net[1] = Resync
  /\ cursor' = 0
  /\ net' = Tail(net)
  /\ UNCHANGED <<server, socket, view, status, inside, load, disturbed>>

\* The cursor is forgotten and the channel backfilled.  The newest page has no
\* after_cursor, so the backfill of a view that holds it is a fresh load.
ReceiveResync ==
  /\ net # <<>> /\ net[1] = Resync
  /\ cursor' = 0
  /\ \E l \in Loads : StartLoad(l)
  /\ net' = Tail(net)
  /\ UNCHANGED <<server, socket, view, inside, disturbed>>

\* The user opens the channel: subscribe, and a load unless it is loaded.
Enter ==
  /\ ~inside
  /\ inside' = TRUE
  /\ IF status \in {"idle", "error"}
       THEN \E l \in Loads : StartLoad(l)
       ELSE UNCHANGED <<status, load>>
  /\ UNCHANGED <<server, socket, net, cursor, view, disturbed>>

\* The user opens another one: unsubscribe forgets the cursor.
Leave ==
  /\ inside
  /\ inside' = FALSE
  /\ cursor' = 0
  /\ UNCHANGED <<server, socket, net, view, status, load, disturbed>>

\* The server reads the page.
ReadPage(l) ==
  /\ load[l].pc = "asked"
  /\ load' = [load EXCEPT ![l] = [pc |-> "answered", page |-> 1 .. stored]]
  /\ UNCHANGED <<server, socket, net, cursor, view, status, inside, disturbed>>

\* The answer arrives: history/loaded replaces the messages of the view.
Loaded(l) ==
  /\ load[l].pc = "answered"
  /\ view' = load[l].page
  /\ status' = "ready"
  /\ load' = [load EXCEPT ![l] = NoLoad]
  /\ disturbed' = IF view \subseteq load[l].page THEN disturbed
                  ELSE disturbed \cup {"overwritten"}
  /\ UNCHANGED <<server, socket, net, cursor, inside>>

\* history/failed.  A view that another read has made, or will make, ready does
\* not remember that this one failed.
LoadFails(l) ==
  /\ load[l].pc # "none"
  /\ status' = IF status = "ready" THEN "ready" ELSE "error"
  /\ load' = [load EXCEPT ![l] = NoLoad]
  /\ disturbed' = IF status = "ready" \/ \E k \in Loads \ {l} : load[k] # NoLoad
                    THEN disturbed \cup {"forgotten"} ELSE disturbed
  /\ UNCHANGED <<server, socket, net, cursor, view, inside>>
-------------------------------------------------------------------------------
SyncNext ==
  \/ Commit \/ Publish \/ PruneReplay \/ Restart \/ Disconnect \/ Connect
  \/ \E m \in Messages : MessageCreated(m)
  \/ ReceiveEvent \/ ReceiveHelloOK \/ ReceiveResync \/ Enter \/ Leave
  \/ \E l \in Loads : ReadPage(l) \/ Loaded(l) \/ LoadFails(l)

SyncSpec == SyncInit /\ [][SyncNext]_syncVars
-------------------------------------------------------------------------------
(* Properties                                                              *)

\* The state is well formed, and the event queue keeps to its capacity
\* (enqueue).
SyncTypeOK ==
  /\ stored \in Nat /\ announcing \subseteq Messages /\ events \in Seq(Messages)
  /\ Len(events) <= EventQueue
  /\ buffer \in Buffer /\ log \in Seq(Messages)
  /\ socket \in {"down", "up"}
  /\ net \in Seq([type : {"event", "resync", "hello_ok"}, seq : Nat])
  /\ cursor \in Nat /\ view \subseteq Messages
  /\ status \in {"idle", "loading", "ready", "error"} /\ inside \in BOOLEAN
  /\ load \in [Loads -> [pc : {"none", "asked", "answered"}, page : SUBSET Messages]]
  /\ restarts \in Nat
  /\ disturbed \subseteq Causes

\* Nothing is on its way to a client that is connected and has its history.
Quiet ==
  /\ socket = "up" /\ net = <<>> /\ announcing = {} /\ events = <<>>
  /\ status = "ready" /\ \A l \in Loads : load[l] = NoLoad

\* A client that was never without a cursor loses no message to disconnects,
\* late announcements, replays, prunes, resyncs and failed reads: once things
\* are quiet it shows the whole channel (realtime.ts, useChat.ts).
Converges == (Quiet /\ disturbed = {}) => view = 1 .. stored

\* The client's state is well formed, and its view ends as the channel.
ViewIsTrue == SyncTypeOK /\ Converges
===============================================================================
