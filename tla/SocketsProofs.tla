---------------------------- MODULE SocketsProofs -----------------------------
(***************************************************************************)
(* The sockets of the gateway, for every number of them.  The presence     *)
(* record follows the sockets of a user, and the last word on a user who   *)
(* left is that they are offline; Close leaves nothing behind, and the     *)
(* gateway's loops outlive its sockets; a client's view of a channel ends  *)
(* as the channel.                                                         *)
(***************************************************************************)
EXTENDS Presence, SocketLifecycle, ChatSync, SequenceTheorems, TLAPS

-------------------------------------------------------------------------------
(* Presence.                                                               *)

\* A read loop announces before it returns, so only a registered socket has
\* something to announce.
SpeakersAreUp == \A s \in Connections : say[s] # <<>> => s \in up

\* LastWordIsOffline alone is not inductive: an announcement by a socket of a
\* user without a record would spoil it.  SpeakersAreUp and
\* RecordFollowsSockets say that there is no such socket.
IInv == PresenceTypeOK /\ RecordFollowsSockets /\ SpeakersAreUp /\ LastWordIsOffline

\* The states of the program begin in the invariant.
LEMMA InitIInv == PresenceInit => IInv
<1> SUFFICES ASSUME PresenceInit PROVE IInv
  OBVIOUS
<1>1. queue = <<>> /\ queue \in Seq(States) /\ Len(queue) = 0 /\ PresenceQueue \in Nat
  BY PresenceAssumptions DEF PresenceInit
<1>2. Len(queue) <= PresenceQueue
  BY <1>1
<1>3. PresenceTypeOK
  BY <1>1, <1>2 DEF PresenceInit, PresenceTypeOK, States
<1>4. RecordFollowsSockets /\ SpeakersAreUp /\ LastWordIsOffline
  BY DEF PresenceInit, RecordFollowsSockets, SpeakersAreUp, LastWordIsOffline, Settled
<1> QED BY <1>3, <1>4 DEF IInv

\* Queueing an announcement leaves the queue a queue, within its limit.
LEMMA AnnounceType ==
  ASSUME PresenceTypeOK, NEW state \in States, announcePresence(state)
  PROVE  queue' \in Seq(States) /\ Len(queue') <= PresenceQueue /\ lost' \in BOOLEAN
<1>1. Len(queue) \in Nat /\ PresenceQueue \in Nat
  BY PresenceAssumptions DEF PresenceTypeOK
<1>2. CASE Len(queue) < PresenceQueue
  <2>1. queue' = Append(queue, state) /\ lost' = lost
    BY <1>2 DEF announcePresence
  <2>2. queue' \in Seq(States) /\ Len(queue') = Len(queue) + 1
    BY <2>1 DEF PresenceTypeOK
  <2> QED BY <1>1, <1>2, <2>1, <2>2 DEF PresenceTypeOK
<1>3. CASE ~(Len(queue) < PresenceQueue)
  BY <1>3 DEF announcePresence, PresenceTypeOK
<1> QED BY <1>2, <1>3

\* Unless it is lost, an announcement is the last word.
LEMMA AnnounceSettles ==
  ASSUME PresenceTypeOK, NEW state \in States, announcePresence(state), ~lost'
  PROVE  Settled' = state
<1>1. queue' = Append(queue, state)
  BY DEF announcePresence
<1>2. queue' # <<>> /\ Len(queue') = Len(queue) + 1 /\ queue'[Len(queue) + 1] = state
  BY <1>1 DEF PresenceTypeOK
<1> QED BY <1>2 DEF Settled, Last

\* Delivering the head of the queue changes nothing about how it settles.
LEMMA DeliverSettles ==
  ASSUME PresenceTypeOK, deliverPresence
  PROVE  Settled' = Settled
<1>1. /\ queue # <<>> /\ queue \in Seq(States)
      /\ queue' = Tail(queue) /\ seen' = queue[1]
  BY DEF deliverPresence, PresenceTypeOK
<1>2. Len(queue) \in Nat /\ Len(queue) # 0 /\ Len(queue') = Len(queue) - 1
  BY <1>1
<1>3. CASE Len(queue) = 1
  <2>1. queue' = <<>> BY <1>1, <1>2, <1>3
  <2> QED BY <1>1, <1>3, <2>1 DEF Settled, Last
<1>4. CASE Len(queue) # 1
  <2>1. Len(queue') \in Nat /\ Len(queue') # 0
    BY <1>2, <1>4
  <2>2. \A i \in 1 .. Len(queue') : queue'[i] = queue[i + 1]
    BY <1>1, <1>2
  <2>3. queue'[Len(queue')] = queue[Len(queue)]
    BY <1>2, <2>1, <2>2
  <2>4. queue' # <<>>
    BY <2>1
  <2> QED BY <1>1, <2>3, <2>4 DEF Settled, Last
<1> QED BY <1>3, <1>4

\* Every step keeps the types.
LEMMA NextTypeOK == PresenceTypeOK /\ [PresenceNext]_presenceVars => PresenceTypeOK'
<1> SUFFICES ASSUME PresenceTypeOK, [PresenceNext]_presenceVars PROVE PresenceTypeOK'
  OBVIOUS
<1> USE DEF PresenceTypeOK
<1>1. ASSUME NEW s \in Connections, Register(s) PROVE PresenceTypeOK'
  BY <1>1 DEF Register, Record, NoRecord, Online, Claimable
<1>2. ASSUME NEW s \in Connections, Announce(s) PROVE PresenceTypeOK'
  <2>1. say[s][1] \in States
    BY <1>2 DEF Announce, States
  <2>2. queue' \in Seq(States) /\ Len(queue') <= PresenceQueue /\ lost' \in BOOLEAN
    BY <1>2, <2>1, AnnounceType DEF Announce
  <2> QED BY <1>2, <2>2 DEF Announce
<1>3. ASSUME NEW s \in Connections, deregister(s) PROVE PresenceTypeOK'
  BY <1>3 DEF deregister, Record, NoRecord
<1>4. ASSUME NEW s \in Connections, NEW state \in Claimable, reportPresence(s, state) PROVE PresenceTypeOK'
  BY <1>4 DEF reportPresence, Record, NoRecord, Online
<1>5. CASE expirePresence
  BY <1>5 DEF expirePresence
<1>6. CASE AnnounceOffline
  <2>1. queue' \in Seq(States) /\ Len(queue') <= PresenceQueue /\ lost' \in BOOLEAN
    BY <1>6, AnnounceType DEF AnnounceOffline, States
  <2> QED BY <1>6, <2>1 DEF AnnounceOffline
<1>7. CASE deliverPresence \/ deliverPresenceFails
  <2>1. queue \in Seq(States) /\ queue # <<>> /\ queue' = Tail(queue)
    BY <1>7 DEF deliverPresence, deliverPresenceFails
  <2>2. /\ queue' \in Seq(States) /\ Len(queue') = Len(queue) - 1
        /\ Len(queue) \in Nat /\ Head(queue) \in States
    BY <2>1
  <2>3. PresenceQueue \in Nat BY PresenceAssumptions
  <2>4. Len(queue') <= PresenceQueue
    BY <2>2, <2>3
  <2>5. seen' \in States /\ lost' \in BOOLEAN
    BY <1>7, <2>2 DEF deliverPresence, deliverPresenceFails
  <2>6. UNCHANGED <<up, record, say, expired>>
    BY <1>7 DEF deliverPresence, deliverPresenceFails
  <2> QED BY <2>2, <2>4, <2>5, <2>6
<1>8. CASE UNCHANGED presenceVars
  BY <1>8 DEF presenceVars
<1> QED BY <1>1, <1>2, <1>3, <1>4, <1>5, <1>6, <1>7, <1>8 DEF PresenceNext

\* Every step keeps record and sockets together, and only registered sockets
\* speaking.
LEMMA NextRecord ==
  ASSUME PresenceTypeOK, RecordFollowsSockets, SpeakersAreUp, [PresenceNext]_presenceVars
  PROVE  RecordFollowsSockets' /\ SpeakersAreUp'
<1> USE DEF RecordFollowsSockets, SpeakersAreUp
<1>1. ASSUME NEW s \in Connections, Register(s) PROVE RecordFollowsSockets' /\ SpeakersAreUp'
  BY <1>1 DEF Register, PresenceTypeOK, Record, NoRecord, Online, Claimable
<1>2. ASSUME NEW s \in Connections, Announce(s) PROVE RecordFollowsSockets' /\ SpeakersAreUp'
  BY <1>2 DEF Announce, PresenceTypeOK
<1>3. ASSUME NEW s \in Connections, deregister(s) PROVE RecordFollowsSockets' /\ SpeakersAreUp'
  BY <1>3 DEF deregister, PresenceTypeOK, Record, NoRecord
<1>4. ASSUME NEW s \in Connections, NEW state \in Claimable, reportPresence(s, state)
      PROVE  RecordFollowsSockets' /\ SpeakersAreUp'
  BY <1>4 DEF reportPresence, PresenceTypeOK, Record, NoRecord, Online, Claimable
<1>5. CASE expirePresence
  BY <1>5 DEF expirePresence, NoRecord
<1>6. CASE AnnounceOffline
  BY <1>6 DEF AnnounceOffline
<1>7. CASE deliverPresence \/ deliverPresenceFails
  BY <1>7 DEF deliverPresence, deliverPresenceFails
<1>8. CASE UNCHANGED presenceVars
  BY <1>8 DEF presenceVars
<1> QED BY <1>1, <1>2, <1>3, <1>4, <1>5, <1>6, <1>7, <1>8 DEF PresenceNext

\* Every step keeps the last word.
LEMMA NextLastWord ==
  ASSUME IInv, [PresenceNext]_presenceVars
  PROVE  LastWordIsOffline'
<1> SUFFICES ASSUME record' = NoRecord, ~expired', ~lost' PROVE Settled' = "offline"
  BY DEF LastWordIsOffline
<1>0. PresenceTypeOK /\ RecordFollowsSockets /\ SpeakersAreUp /\ LastWordIsOffline
  BY DEF IInv
<1>1. ASSUME NEW s \in Connections, Register(s) PROVE FALSE
  BY <1>0, <1>1 DEF Register, RecordFollowsSockets, PresenceTypeOK, Record, NoRecord, Online, Claimable
<1>2. ASSUME NEW s \in Connections, Announce(s) PROVE FALSE
  BY <1>0, <1>2 DEF Announce, SpeakersAreUp, RecordFollowsSockets
<1>3. ASSUME NEW s \in Connections, deregister(s) PROVE FALSE
  BY <1>0, <1>3 DEF deregister, RecordFollowsSockets, PresenceTypeOK, Record, NoRecord, Claimable
<1>4. ASSUME NEW s \in Connections, NEW state \in Claimable, reportPresence(s, state) PROVE FALSE
  BY <1>0, <1>4 DEF reportPresence, PresenceTypeOK, Record, NoRecord, Online, Claimable
<1>5. CASE expirePresence
  BY <1>5 DEF expirePresence
<1>6. CASE AnnounceOffline
  <2>1. "offline" \in States BY DEF States
  <2> QED BY <1>0, <1>6, <2>1, AnnounceSettles DEF AnnounceOffline
<1>7. CASE deliverPresence
  <2>1. Settled' = Settled BY <1>0, <1>7, DeliverSettles
  <2>2. record = NoRecord /\ ~expired /\ ~lost BY <1>7 DEF deliverPresence
  <2> QED BY <1>0, <2>1, <2>2 DEF LastWordIsOffline
<1>8. CASE deliverPresenceFails
  BY <1>8 DEF deliverPresenceFails
<1>9. CASE UNCHANGED presenceVars
  BY <1>0, <1>9 DEF presenceVars, LastWordIsOffline, Settled
<1> QED BY <1>1, <1>2, <1>3, <1>4, <1>5, <1>6, <1>7, <1>8, <1>9 DEF PresenceNext

\* The invariant holds throughout.
LEMMA SpecIInv == PresenceSpec => []IInv
<1>1. IInv /\ [PresenceNext]_presenceVars => IInv'
  BY NextTypeOK, NextRecord, NextLastWord DEF IInv
<1> QED BY InitIInv, <1>1, PTL DEF PresenceSpec

\* Every state is well typed, and the event queue keeps to its limit.
THEOREM PresenceIsTyped == PresenceSpec => []PresenceTypeOK
BY SpecIInv, PTL DEF IInv

\* A user with a socket always has a record the sweep will not take, and one
\* without never keeps such a record (registerAndReplay, deregister,
\* expirePresence).
THEOREM RecordAlwaysFollows == PresenceSpec => []RecordFollowsSockets
BY SpecIInv, PTL DEF IInv

\* Whatever order read loops and sweep announce in, "offline" is the last word
\* on a user who is gone, unless an announcement was lost.
THEOREM OfflineIsLast == PresenceSpec => []LastWordIsOffline
BY SpecIInv, PTL DEF IInv

-------------------------------------------------------------------------------
(* Lifecycle.                                                              *)

\* g.live is what is being served, and a connection that is not served has no
\* write pump.
LiveIsServed ==
  \A s \in Slots :
    /\ s \in live <=> reader[s] \in {"reading", "ended"}
    /\ reader[s] \in {"none", "accepted"} => pump[s] = "none"

\* How far Close has come.  Once the flag is up nothing is admitted, so live
\* stays empty after Close has waited for it.
CloseProgress ==
  /\ closer.pc # "idle" => closing
  /\ closer.pc \in {"cancelled", "returned"} => live = {}
  /\ cancelled => closer.pc \in {"cancelled", "returned"}
  /\ closer.pc = "returned" => workers = {}

LifeIInv == LifecycleTypeOK /\ LiveIsServed /\ CloseProgress

\* The states of the program begin in the invariant.
LEMMA InitLifeIInv == LifecycleInit => LifeIInv
<1> SUFFICES ASSUME LifecycleInit PROVE LifeIInv
  OBVIOUS
<1>1. LifecycleTypeOK
  BY DEF LifecycleInit, LifecycleTypeOK
<1>2. LiveIsServed
  BY DEF LifecycleInit, LiveIsServed
<1>3. CloseProgress
  BY DEF LifecycleInit, CloseProgress
<1> QED BY <1>1, <1>2, <1>3 DEF LifeIInv

\* Naming a code is all that shutdown does.
LEMMA ShutdownType ==
  ASSUME LifecycleTypeOK, NEW s \in Slots, NEW c \in Codes, shutdown(s, c)
  PROVE  code' \in [Slots -> Codes \cup {None}]
BY DEF LifecycleTypeOK, shutdown

\* What the goroutines of one connection do keeps the invariant.
LEMMA SlotStep ==
  ASSUME LifeIInv, NEW s \in Slots,
         \/ Accept(s) \/ track(s) \/ TimerFires(s) \/ HelloTimeout(s) \/ ReadLoop(s)
         \/ closeConn(s) \/ abort(s) \/ HeartbeatTimeout(s) \/ untrack(s) \/ SweepCloses(s)
  PROVE  LifeIInv'
<1> USE DEF LifeIInv, LifecycleTypeOK, LiveIsServed, CloseProgress, gateway, slots
<1>1. CASE Accept(s)
  <2>1. dials' \in Nat
    BY <1>1 DEF Accept
  <2>2. LiveIsServed'
    BY <1>1 DEF Accept
  <2>3. CloseProgress'
    BY <1>1 DEF Accept
  <2>4. /\ reader' \in [Slots -> {"none", "accepted", "reading", "ended"}]
        /\ open' \in [Slots -> BOOLEAN]
    BY <1>1 DEF Accept
  <2>5. UNCHANGED <<closing, live, workers, cancelled, closer, greeting, pump, code>>
    BY <1>1 DEF Accept
  <2>6. LifecycleTypeOK'
    BY <2>1, <2>4, <2>5
  <2> QED BY <2>2, <2>3, <2>6
<1>2. CASE track(s)
  <2>1. CASE closing
    <3>4. reader' \in [Slots -> {"none", "accepted", "reading", "ended"}]
      BY ZenonT(30), <1>2, <2>1 DEF track
    <3>6. open' \in [Slots -> BOOLEAN]
      BY ZenonT(30), <1>2, <2>1 DEF track
    <3>5. UNCHANGED <<closing, live, workers, cancelled, closer, greeting, pump, code, dials>>
      BY <1>2, <2>1 DEF track
    <3>1. LifecycleTypeOK'
      BY <3>4, <3>5, <3>6
    <3>2. LiveIsServed'
      BY <1>2, <2>1 DEF track
    <3>3. CloseProgress'
      BY <1>2, <2>1 DEF track
    <3> QED BY <3>1, <3>2, <3>3
  <2>2. CASE ~closing
    <3>4. /\ live' \subseteq Slots
          /\ reader' \in [Slots -> {"none", "accepted", "reading", "ended"}]
          /\ greeting' \in [Slots -> {"off", "armed", "fired"}]
          /\ pump' \in [Slots -> {"none", "running", "ended"}]
      BY <1>2, <2>2 DEF track
    <3>5. UNCHANGED <<closing, workers, cancelled, closer, open, code, dials>>
      BY <1>2, <2>2 DEF track
    <3>1. LifecycleTypeOK'
      BY <3>4, <3>5
    <3>2. LiveIsServed'
      BY <1>2, <2>2 DEF track
    <3>3. CloseProgress'
      BY <1>2, <2>2 DEF track
    <3> QED BY <3>1, <3>2, <3>3
  <2> QED BY <2>1, <2>2
<1>3. CASE TimerFires(s)
  BY <1>3 DEF TimerFires
<1>4. CASE HelloTimeout(s)
  <2>1. code' \in [Slots -> Codes \cup {None}]
    BY <1>4, ShutdownType DEF HelloTimeout, Codes
  <2> QED BY <1>4, <2>1 DEF HelloTimeout
<1>5. CASE Hello(s)
  BY <1>5 DEF Hello
<1>6. CASE BadFrame(s)
  <2>1. code' \in [Slots -> Codes \cup {None}]
    BY <1>6, ShutdownType DEF BadFrame, Codes
  <2> QED BY <1>6, <2>1 DEF BadFrame
<1>7. CASE ReadFails(s)
  <2>1. code' \in [Slots -> Codes \cup {None}]
    BY <1>7, ShutdownType DEF ReadFails, Codes
  <2> QED BY <1>7, <2>1 DEF ReadFails
<1>8. CASE closeConn(s)
  BY <1>8 DEF closeConn
<1>9. CASE abort(s)
  <2>1. code' \in [Slots -> Codes \cup {None}]
    BY <1>9, ShutdownType DEF abort, Codes
  <2> QED BY <1>9, <2>1 DEF abort
<1>10. CASE HeartbeatTimeout(s)
  <2>1. code' \in [Slots -> Codes \cup {None}]
    BY <1>10, ShutdownType DEF HeartbeatTimeout, Codes
  <2> QED BY <1>10, <2>1 DEF HeartbeatTimeout
<1>11. CASE untrack(s)
  BY <1>11 DEF untrack
<1>12. CASE SweepCloses(s)
  <2>1. code' \in [Slots -> Codes \cup {None}]
    BY <1>12, ShutdownType DEF SweepCloses, Codes
  <2> QED BY <1>12, <2>1 DEF SweepCloses
<1> QED BY <1>1, <1>2, <1>3, <1>4, <1>5, <1>6, <1>7, <1>8, <1>9, <1>10, <1>11, <1>12
        DEF ReadLoop

\* What Close and the two loops do keeps the invariant.
LEMMA CloseStep ==
  ASSUME LifeIInv, Close \/ Closing
  PROVE  LifeIInv'
<1> USE DEF LifeIInv, LifecycleTypeOK, LiveIsServed, CloseProgress, slots
<1>1. CASE Close
  BY <1>1 DEF Close
<1>2. ASSUME NEW s \in Slots, CloseSocket(s) PROVE LifeIInv'
  <2>1. code' \in [Slots -> Codes \cup {None}]
    BY <1>2, ShutdownType DEF CloseSocket, Codes
  <2> QED BY <1>2, <2>1 DEF CloseSocket
<1>3. CASE CloseWaits
  BY <1>3 DEF CloseWaits
<1>4. ASSUME NEW w \in workers, WorkerEnds(w) PROVE LifeIInv'
  BY <1>4 DEF WorkerEnds
<1>5. CASE CloseReturns
  BY <1>5 DEF CloseReturns
<1> QED BY <1>1, <1>2, <1>3, <1>4, <1>5 DEF Closing

\* The invariant holds throughout.
LEMMA SpecLifeIInv == LifecycleSpec => []LifeIInv
<1>1. ASSUME LifeIInv, UNCHANGED lifecycleVars PROVE LifeIInv'
  BY <1>1 DEF lifecycleVars, gateway, slots, LifeIInv, LifecycleTypeOK, LiveIsServed, CloseProgress
<1>2. LifeIInv /\ [LifecycleNext]_lifecycleVars => LifeIInv'
  BY <1>1, SlotStep, CloseStep DEF LifecycleNext
<1> QED BY InitLifeIInv, <1>2, PTL DEF LifecycleSpec

\* Every state is well typed.
THEOREM LifecycleIsTyped == LifecycleSpec => []LifecycleTypeOK
BY SpecLifeIInv, PTL DEF LifeIInv

\* When Close has returned no loop, read loop or write pump is left, however
\* many connections arrived while it ran (Close, track, untrack).
THEOREM CloseLeavesNothing == LifecycleSpec => []NothingOutlivesClose
<1>1. LifeIInv => NothingOutlivesClose
  BY DEF LifeIInv, LifecycleTypeOK, LiveIsServed, CloseProgress, NothingOutlivesClose
<1> QED BY SpecLifeIInv, <1>1, PTL

\* The dispatcher and the sweep are not told to stop while a socket is served.
THEOREM LoopsAlwaysOutliveSockets == LifecycleSpec => []LoopsOutliveSockets
<1>1. LifeIInv => LoopsOutliveSockets
  BY DEF LifeIInv, CloseProgress, LoopsOutliveSockets
<1> QED BY SpecLifeIInv, <1>1, PTL
-------------------------------------------------------------------------------
(* A client's view of a channel.                                           *)

\* What a frame can be when k events have been numbered.
Frames(k) == {HelloOK, Resync} \cup {Event(n) : n \in 1 .. k}

\* The server's side is well formed: what is announced, queued and numbered are
\* stored messages, and the log is as long as the buffer's counter says.
ServerIsTyped ==
  /\ stored \in 0 .. MaxMessages
  /\ announcing \subseteq 1 .. stored
  /\ events \in Seq(1 .. stored) /\ Len(events) <= EventQueue
  /\ buffer \in Buffer /\ log \in Seq(1 .. stored) /\ Len(log) = buffer.lastSeq
  /\ restarts \in Nat

\* Frames are under way only to a socket that is up, and carry given numbers.
FramesAreTyped ==
  /\ socket \in {"down", "up"}
  /\ net \in Seq(Frames(Len(log)))
  /\ socket = "down" => net = <<>>

\* The client's side is well formed, and shows and has read stored messages only.
ClientIsTyped ==
  /\ cursor \in Nat /\ view \subseteq 1 .. stored
  /\ status \in {"idle", "loading", "ready", "error"} /\ inside \in BOOLEAN
  /\ load \in [Loads -> [pc : {"none", "asked", "answered"}, page : SUBSET (1 .. stored)]]
  /\ disturbed \subseteq Causes

IsSent(f) == \E i \in 1 .. Len(net) : net[i] = f

\* The cursor is a number that was given, and the events under way go up from
\* it, with every resync ahead of them: no number is passed over.
InLine ==
  /\ cursor <= Len(log)
  /\ \A i \in 1 .. Len(net) : net[i].type = "event" =>
       /\ net[i].seq > cursor
       /\ \A j \in 1 .. Len(net) : j > i =>
            net[j].type = "event" /\ net[j].seq > net[i].seq

\* A view that is not loaded, and not being loaded, waits for no read.
ReadsAreKnown == status \in {"idle", "error"} => \A l \in Loads : load[l] = NoLoad

\* The message has a number above the cursor, and either the next hello will ask
\* for it, or it or a resync is under way.
Ahead(m) ==
  \E n \in 1 .. Len(log) :
    /\ n > cursor /\ log[n] = m
    /\ socket = "down" \/ IsSent(Resync) \/ IsSent(Event(n))

\* The view holds the message, or will: it is being announced, a read has it or
\* will have it, or it is ahead of the cursor.
Coming(m) ==
  \/ m \in view \/ m \in announcing \/ \E i \in 1 .. Len(events) : events[i] = m
  \/ \E l \in Loads : load[l].pc = "asked"
  \/ \E l \in Loads : load[l].pc = "answered" /\ m \in load[l].page
  \/ Ahead(m)

NothingIsLost == status \notin {"idle", "error"} => \A m \in 1 .. stored : Coming(m)

\* Converges alone is not inductive, because it speaks of quiet states only:
\* NothingIsLost says where a message is when things are not quiet, InLine that
\* the cursor never passes one that is under way, and ReadsAreKnown that a read
\* is never under way for a view whose status would have it loaded again.
SyncInv ==
  /\ ServerIsTyped /\ FramesAreTyped /\ ClientIsTyped
  /\ disturbed = {} => InLine /\ ReadsAreKnown /\ NothingIsLost

\* A sequence over a set is one over any larger set.
LEMMA SeqGrows ==
  ASSUME NEW S, NEW T, S \subseteq T, NEW s \in Seq(S)
  PROVE  s \in Seq(T)
<1>1. \A i \in 1 .. Len(s) : s[i] \in T
  BY ElementOfSeq
<1> QED BY <1>1, LenProperties, SeqDef

\* What is left when the first element is taken.
LEMMA TailFacts ==
  ASSUME NEW S, NEW s \in Seq(S), s # <<>>
  PROVE  /\ Tail(s) \in Seq(S) /\ Len(s) \in Nat \ {0} /\ Len(Tail(s)) = Len(s) - 1
         /\ \A i \in 1 .. Len(s) - 1 : Tail(s)[i] = s[i + 1]
         /\ s[1] \in S
<1>1. Tail(s) \in Seq(S) /\ Len(s) \in Nat \ {0} /\ Len(Tail(s)) = Len(s) - 1
  BY HeadTailProperties, EmptySeq, LenProperties
<1>2. \A i \in 1 .. Len(s) - 1 : Tail(s)[i] = s[i + 1]
  BY <1>1, HeadTailProperties
<1>3. s[1] \in S
  BY <1>1, ElementOfSeq
<1> QED BY <1>1, <1>2, <1>3

\* The frames are told apart by their type.
LEMMA FrameFacts ==
  ASSUME NEW k \in Nat
  PROVE  /\ HelloOK # Resync /\ HelloOK.type # "event" /\ Resync.type # "event"
         /\ HelloOK \in Frames(k) /\ Resync \in Frames(k)
         /\ \A n : Event(n).type = "event" /\ Event(n).seq = n
         /\ \A n \in 1 .. k : Event(n) \in Frames(k)
         /\ \A f \in Frames(k) : f.type = "event" => f.seq \in 1 .. k /\ f = Event(f.seq)
         /\ \A f \in Frames(k) : f.type # "event" => f \in {HelloOK, Resync}
         /\ Frames(k) \subseteq Frames(k + 1)
<1>1. HelloOK # Resync /\ HelloOK.type # "event" /\ Resync.type # "event"
  BY DEF HelloOK, Resync
<1>2. \A n : Event(n).type = "event" /\ Event(n).seq = n
  BY DEF Event
<1>3. /\ HelloOK \in Frames(k) /\ Resync \in Frames(k)
      /\ \A n \in 1 .. k : Event(n) \in Frames(k)
  BY DEF Frames
<1>4. \A f \in Frames(k) : f \in {HelloOK, Resync} \/ \E n \in 1 .. k : f = Event(n)
  BY DEF Frames
<1>5. \A f \in Frames(k) : f.type = "event" => f.seq \in 1 .. k /\ f = Event(f.seq)
  BY <1>1, <1>2, <1>4
<1>6. \A f \in Frames(k) : f.type # "event" => f \in {HelloOK, Resync}
  BY <1>2, <1>4
<1>7. Frames(k) \subseteq Frames(k + 1)
  BY DEF Frames
<1> QED BY <1>1, <1>2, <1>3, <1>5, <1>6, <1>7

\* nextSeq and store count on, and prune does not touch the counter.
LEMMA CounterFacts ==
  ASSUME NEW b \in Buffer
  PROVE  /\ b.lastSeq \in Nat /\ nextSeq(b) = b.lastSeq + 1
         /\ store(b, nextSeq(b)) \in Buffer /\ store(b, nextSeq(b)).lastSeq = b.lastSeq + 1
         /\ \A k \in 1 .. Len(b.entries) :
              prune(b, k) \in Buffer /\ prune(b, k).lastSeq = b.lastSeq
<1>1. b.lastSeq \in Nat /\ b.entries \in Seq(Nat) /\ nextSeq(b) = b.lastSeq + 1
      /\ nextSeq(b) \in Nat /\ Len(b.entries) \in Nat
  BY LenProperties DEF Buffer, nextSeq
<1>2. ASSUME NEW s \in Seq(Nat), NEW j \in Nat \ {0} PROVE SubSeq(s, j, Len(s)) \in Seq(Nat)
  <2>1. \A i \in j .. Len(s) : s[i] \in Nat
    BY ElementOfSeq, LenProperties
  <2> QED BY <2>1, LenProperties, SubSeqProperties
<1>3. PICK as : as = Append(b.entries, nextSeq(b))
  OBVIOUS
<1>4. as \in Seq(Nat) /\ Len(as) \in Nat
  BY <1>1, <1>3, AppendProperties, LenProperties
<1>5. PICK es : es = LastEntries(as, ReplayMaxEvents)
  OBVIOUS
<1>9. es \in Seq(Nat)
  <2>1. PICK j : j = IF Len(as) > ReplayMaxEvents THEN Len(as) - ReplayMaxEvents + 1 ELSE 1
    OBVIOUS
  <2>2. j \in Nat \ {0}
    <3>1. CASE Len(as) > ReplayMaxEvents
      <4>1. j = Len(as) - ReplayMaxEvents + 1
        BY <2>1, <3>1
      <4>2. PICK k \in Nat : k = Len(as)
        BY <1>4
      <4>3. ReplayMaxEvents \in Nat /\ k > ReplayMaxEvents /\ j = k - ReplayMaxEvents + 1
        BY <3>1, <4>1, <4>2, ReplayMaxEventsAssumption
      <4> QED BY <4>3
    <3>2. CASE ~(Len(as) > ReplayMaxEvents)
      BY <2>1, <3>2
    <3> QED BY <3>1, <3>2
  <2>3. es = SubSeq(as, j, Len(as))
    BY <1>5, <2>1 DEF LastEntries
  <2> QED BY <1>2, <1>4, <2>2, <2>3
<1>6. store(b, nextSeq(b)) = [lastSeq |-> nextSeq(b), entries |-> es]
  BY <1>3, <1>5 DEF store
<1>7. store(b, nextSeq(b)) \in Buffer /\ store(b, nextSeq(b)).lastSeq = b.lastSeq + 1
  BY <1>1, <1>6, <1>9 DEF Buffer
<1>8. ASSUME NEW k \in 1 .. Len(b.entries)
      PROVE  prune(b, k) \in Buffer /\ prune(b, k).lastSeq = b.lastSeq
  <2>1. SubSeq(b.entries, k + 1, Len(b.entries)) \in Seq(Nat)
    BY <1>1, <1>2
  <2> QED BY <1>1, <2>1 DEF prune, Buffer
<1> QED BY <1>1, <1>7, <1>8

\* The states of the program begin in the invariant.
LEMMA InitSyncInv == SyncInit => SyncInv
<1> SUFFICES ASSUME SyncInit PROVE SyncInv
  OBVIOUS
<1>1. <<>> \in Seq(1 .. 0) /\ <<>> \in Seq(Frames(0)) /\ Len(<<>>) = 0
  OBVIOUS
<1>2. NoBuffer \in Buffer /\ NoBuffer.lastSeq = 0
  BY DEF NoBuffer, Buffer
<1>3. ServerIsTyped
  BY <1>1, <1>2, ChatSyncAssumptions DEF SyncInit, ServerIsTyped
<1>4. FramesAreTyped
  BY <1>1 DEF SyncInit, FramesAreTyped
<1>5. ClientIsTyped
  BY DEF SyncInit, ClientIsTyped, NoLoad, Causes
<1>6. InLine
  BY <1>1 DEF SyncInit, InLine
<1>7. ReadsAreKnown /\ NothingIsLost
  BY DEF SyncInit, ReadsAreKnown, NothingIsLost
<1> QED BY <1>3, <1>4, <1>5, <1>6, <1>7 DEF SyncInv

\* The parts of the invariant that a step does not touch.
LEMMA ServerStays == ASSUME ServerIsTyped, UNCHANGED server PROVE ServerIsTyped'
BY DEF ServerIsTyped, server

LEMMA FramesStay == ASSUME FramesAreTyped, UNCHANGED <<socket, net, log>> PROVE FramesAreTyped'
BY DEF FramesAreTyped

LEMMA ClientStays == ASSUME ClientIsTyped, UNCHANGED <<client, stored, disturbed>> PROVE ClientIsTyped'
BY DEF ClientIsTyped, client

LEMMA LineStays == ASSUME InLine, UNCHANGED <<cursor, log, net>> PROVE InLine'
BY DEF InLine

\* What is ahead of the cursor stays there when neither moves.
LEMMA AheadStays ==
  ASSUME NEW m, Ahead(m), UNCHANGED <<cursor, log, socket, net>>
  PROVE  Ahead(m)'
BY DEF Ahead, IsSent

\* What is ahead of the cursor when the network loses a frame that is neither.
LEMMA AheadOfTail ==
  ASSUME NEW m, Ahead(m), FramesAreTyped, net # <<>>, net' = Tail(net),
         net[1] # Resync,
         \A n \in 1 .. Len(log) : (n > cursor /\ log[n] = m) => net[1] # Event(n),
         UNCHANGED <<socket, log, cursor>>
  PROVE  Ahead(m)'
<1>1. /\ Len(net) \in Nat \ {0} /\ Len(Tail(net)) = Len(net) - 1
      /\ \A i \in 1 .. Len(net) - 1 : Tail(net)[i] = net[i + 1]
  BY TailFacts DEF FramesAreTyped
<1>2. ASSUME NEW f, IsSent(f), net[1] # f PROVE IsSent(f)'
  <2>1. PICK i \in 1 .. Len(net) : net[i] = f
    BY <1>2 DEF IsSent
  <2>2. i # 1
    BY <1>2, <2>1
  <2>3. i - 1 \in 1 .. Len(net) - 1 /\ (i - 1) + 1 = i
    BY <1>1, <2>1, <2>2
  <2>4. net'[i - 1] = f
    BY <1>1, <2>1, <2>3
  <2> QED BY <1>1, <2>3, <2>4 DEF IsSent
<1>3. PICK n \in 1 .. Len(log) :
        /\ n > cursor /\ log[n] = m
        /\ socket = "down" \/ IsSent(Resync) \/ IsSent(Event(n))
  BY DEF Ahead
<1>4. socket = "down" \/ IsSent(Resync)' \/ IsSent(Event(n))'
  BY <1>2, <1>3
<1> QED BY <1>3, <1>4 DEF Ahead

\* Taking the first frame leaves the others in line.
LEMMA LineOfTail ==
  ASSUME InLine, FramesAreTyped, ClientIsTyped, net # <<>>, net' = Tail(net), UNCHANGED log,
         cursor' \in Nat, cursor' <= Len(log),
         \A j \in 2 .. Len(net) : net[j].type = "event" => net[j].seq > cursor'
  PROVE  InLine'
<1>1. /\ Len(net) \in Nat \ {0} /\ Len(net') = Len(net) - 1
      /\ \A i \in 1 .. Len(net') : net'[i] = net[i + 1] /\ i + 1 \in 2 .. Len(net)
  BY TailFacts DEF FramesAreTyped
<1>2. ASSUME NEW i \in 1 .. Len(net'), net'[i].type = "event"
      PROVE  /\ net'[i].seq > cursor'
             /\ \A j \in 1 .. Len(net') : j > i =>
                  net'[j].type = "event" /\ net'[j].seq > net'[i].seq
  <2>1. net[i + 1].type = "event" /\ i + 1 \in 1 .. Len(net)
    BY <1>1, <1>2
  <2>2. ASSUME NEW j \in 1 .. Len(net'), j > i
        PROVE  net'[j].type = "event" /\ net'[j].seq > net'[i].seq
    <3>1. j + 1 \in 1 .. Len(net) /\ j + 1 > i + 1
      BY <1>1, <2>2
    <3>2. net[j + 1].type = "event" /\ net[j + 1].seq > net[i + 1].seq
      BY <2>1, <3>1 DEF InLine
    <3> QED BY <1>1, <3>2
  <2>3. net'[i].seq > cursor'
    BY <1>1, <2>1
  <2> QED BY <2>2, <2>3
<1> QED BY <1>2 DEF InLine

\* Commit.
LEMMA CommitKeeps == ASSUME SyncInv, Commit PROVE SyncInv'
<1>0. ServerIsTyped /\ FramesAreTyped /\ ClientIsTyped
  BY DEF SyncInv
<1>1. /\ stored \in Nat /\ stored' = stored + 1 /\ stored' \in 0 .. MaxMessages
      /\ 1 .. stored \subseteq 1 .. stored'
      /\ UNCHANGED <<events, buffer, log, restarts, socket, net, client, disturbed>>
      /\ announcing' = announcing \cup {stored'} /\ stored' \in 1 .. stored'
  BY <1>0, ChatSyncAssumptions DEF Commit, ServerIsTyped
<1>2. events' \in Seq(1 .. stored') /\ log' \in Seq(1 .. stored')
  BY <1>0, <1>1, SeqGrows DEF ServerIsTyped
<1>3. ServerIsTyped'
  BY <1>0, <1>1, <1>2 DEF ServerIsTyped
<1>4. FramesAreTyped'
  BY <1>0, <1>1, FramesStay
<1>5. ClientIsTyped'
  <2>1. load' \in [Loads -> [pc : {"none", "asked", "answered"}, page : SUBSET (1 .. stored')]]
    BY <1>0, <1>1 DEF ClientIsTyped, client
  <2> QED BY <1>0, <1>1, <2>1 DEF ClientIsTyped, client
<1>6. ASSUME disturbed' = {} PROVE InLine' /\ ReadsAreKnown' /\ NothingIsLost'
  <2>1. InLine /\ ReadsAreKnown /\ NothingIsLost
    BY <1>1, <1>6 DEF SyncInv
  <2>2. InLine' /\ ReadsAreKnown'
    BY <1>1, <2>1, LineStays DEF ReadsAreKnown, client
  <2>3. ASSUME NEW m \in 1 .. stored', status' \notin {"idle", "error"} PROVE Coming(m)'
    <3>1. CASE m = stored'
      BY <1>1, <3>1 DEF Coming
    <3>2. CASE m \in 1 .. stored
      <4>1. Coming(m)
        BY <1>1, <2>1, <2>3, <3>2 DEF NothingIsLost, client
      <4>2. Ahead(m) => Ahead(m)'
        BY <1>1, AheadStays DEF client
      <4> QED BY <1>1, <4>1, <4>2 DEF Coming, client
    <3> QED BY <1>1, <2>3, <3>1, <3>2
  <2> QED BY <2>2, <2>3 DEF NothingIsLost
<1> QED BY <1>3, <1>4, <1>5, <1>6 DEF SyncInv

\* MessageCreated, whether the queue takes the announcement or drops it.
LEMMA CreatedKeeps == ASSUME SyncInv, NEW a \in Messages, MessageCreated(a) PROVE SyncInv'
<1>0. ServerIsTyped /\ FramesAreTyped /\ ClientIsTyped
  BY DEF SyncInv
<1>1. /\ a \in 1 .. stored /\ announcing' = announcing \ {a}
      /\ UNCHANGED <<stored, buffer, log, restarts, socket, net, client>>
  BY <1>0 DEF MessageCreated, ServerIsTyped
<1>2. FramesAreTyped'
  BY <1>0, <1>1, FramesStay
<1>3. CASE Len(events) < EventQueue
  <2>1. events' = Append(events, a) /\ disturbed' = disturbed
    BY <1>3 DEF MessageCreated
  <2>2. /\ events' \in Seq(1 .. stored) /\ Len(events') = Len(events) + 1 /\ Len(events) \in Nat
        /\ \A i \in 1 .. Len(events) : events'[i] = events[i]
        /\ events'[Len(events) + 1] = a
    BY <1>0, <1>1, <2>1, AppendProperties, LenProperties DEF ServerIsTyped
  <2>3. ServerIsTyped' /\ ClientIsTyped'
    <3>1. EventQueue \in Nat /\ Len(events') <= EventQueue
      BY <1>3, <2>2, ChatSyncAssumptions
    <3>2. ServerIsTyped'
      BY <1>0, <1>1, <2>2, <3>1 DEF ServerIsTyped
    <3> QED BY <1>0, <1>1, <2>1, <3>2, ClientStays
  <2>4. ASSUME disturbed' = {} PROVE InLine' /\ ReadsAreKnown' /\ NothingIsLost'
    <3>1. InLine /\ ReadsAreKnown /\ NothingIsLost
      BY <2>1, <2>4 DEF SyncInv
    <3>2. InLine' /\ ReadsAreKnown'
      BY <1>1, <3>1, LineStays DEF ReadsAreKnown, client
    <3>3. ASSUME NEW m \in 1 .. stored', status' \notin {"idle", "error"} PROVE Coming(m)'
      <4>1. Coming(m)
        BY <1>1, <3>1, <3>3 DEF NothingIsLost, client
      <4>2. Ahead(m) => Ahead(m)'
        BY <1>1, AheadStays DEF client
      <4>3. (m = a \/ \E i \in 1 .. Len(events) : events[i] = m)
              => \E i \in 1 .. Len(events') : events'[i] = m
        BY <2>2
      <4> QED BY <1>1, <4>1, <4>2, <4>3 DEF Coming, client
    <3> QED BY <3>2, <3>3 DEF NothingIsLost
  <2> QED BY <1>2, <2>3, <2>4 DEF SyncInv
<1>4. CASE ~(Len(events) < EventQueue)
  <2>1. events' = events /\ disturbed' = disturbed \cup {"dropped"}
    BY <1>4 DEF MessageCreated
  <2>2. ServerIsTyped'
    BY <1>0, <1>1, <2>1 DEF ServerIsTyped
  <2>3. ClientIsTyped'
    BY <1>0, <1>1, <2>1 DEF ClientIsTyped, client, Causes
  <2> QED BY <1>2, <2>1, <2>2, <2>3 DEF SyncInv
<1> QED BY <1>3, <1>4

\* Restart and Disconnect empty the network.
LEMMA DownKeeps == ASSUME SyncInv, Restart \/ Disconnect PROVE SyncInv'
<1>0. ServerIsTyped /\ FramesAreTyped /\ ClientIsTyped
  BY DEF SyncInv
<1>1. CASE Restart
  <2>1. NoBuffer \in Buffer /\ NoBuffer.lastSeq = 0 /\ Len(<<>>) = 0
    BY DEF NoBuffer, Buffer
  <2>2. ServerIsTyped'
    BY <1>0, <1>1, <2>1, ChatSyncAssumptions DEF ServerIsTyped, Restart
  <2>3. FramesAreTyped' /\ ClientIsTyped' /\ disturbed' # {}
    BY <1>0, <1>1 DEF FramesAreTyped, ClientIsTyped, Restart, client, Causes
  <2> QED BY <2>2, <2>3 DEF SyncInv
<1>2. CASE Disconnect
  <2>1. socket' = "down" /\ net' = <<>> /\ UNCHANGED <<server, client, disturbed>> /\ log' = log
        /\ stored' = stored
    BY <1>2 DEF Disconnect, server
  <2>2. ServerIsTyped' /\ ClientIsTyped' /\ FramesAreTyped'
    <3>1. ServerIsTyped' /\ ClientIsTyped'
      BY <1>0, <2>1, ServerStays, ClientStays
    <3> QED BY <2>1, <3>1 DEF FramesAreTyped
  <2>3. ASSUME disturbed' = {} PROVE InLine' /\ ReadsAreKnown' /\ NothingIsLost'
    <3>1. InLine /\ ReadsAreKnown /\ NothingIsLost
      BY <2>1, <2>3 DEF SyncInv
    <3>2. InLine' /\ ReadsAreKnown'
      BY <2>1, <3>1 DEF ReadsAreKnown, InLine, client
    <3>3. ASSUME NEW m \in 1 .. stored', status' \notin {"idle", "error"} PROVE Coming(m)'
      <4>1. Coming(m)
        BY <2>1, <3>1, <3>3 DEF NothingIsLost, client
      <4>2. Ahead(m) => Ahead(m)'
        BY <2>1 DEF Ahead, client
      <4> QED BY <2>1, <4>1, <4>2 DEF Coming, client, server
    <3> QED BY <3>2, <3>3 DEF NothingIsLost
  <2> QED BY <2>2, <2>3 DEF SyncInv
<1> QED BY <1>1, <1>2

\* PruneReplay touches the window only.
LEMMA PruneKeeps == ASSUME SyncInv, PruneReplay PROVE SyncInv'
<1>0. ServerIsTyped /\ FramesAreTyped /\ ClientIsTyped
  BY DEF SyncInv
<1>1. UNCHANGED <<stored, announcing, events, log, restarts, socket, net, client, disturbed>>
  BY DEF PruneReplay
<1>2. buffer' \in Buffer /\ buffer'.lastSeq = buffer.lastSeq
  BY <1>0, CounterFacts DEF PruneReplay, ServerIsTyped
<1>3. ServerIsTyped'
  BY <1>0, <1>1, <1>2 DEF ServerIsTyped
<1>4. FramesAreTyped' /\ ClientIsTyped'
  BY <1>0, <1>1, FramesStay, ClientStays
<1>5. ASSUME disturbed' = {} PROVE InLine' /\ ReadsAreKnown' /\ NothingIsLost'
  <2>1. InLine /\ ReadsAreKnown /\ NothingIsLost
    BY <1>1, <1>5 DEF SyncInv
  <2>2. InLine' /\ ReadsAreKnown'
    BY <1>1, <2>1, LineStays DEF ReadsAreKnown, client
  <2>3. ASSUME NEW m \in 1 .. stored', status' \notin {"idle", "error"} PROVE Coming(m)'
    <3>1. Coming(m)
      BY <1>1, <2>1, <2>3 DEF NothingIsLost, client
    <3>2. Ahead(m) => Ahead(m)'
      BY <1>1, AheadStays DEF client
    <3> QED BY <1>1, <3>1, <3>2 DEF Coming, client
  <2> QED BY <2>2, <2>3 DEF NothingIsLost
<1> QED BY <1>3, <1>4, <1>5 DEF SyncInv

\* What publish may do to the frames under way: it adds the event behind them,
\* or a resync ahead of them, or nothing when there is nobody to send to.
LEMMA PublishSends ==
  ASSUME ServerIsTyped, FramesAreTyped, Publish
  PROVE  LET n == Len(log) + 1 IN
         /\ net' \in Seq(Frames(n)) /\ Len(net) \in Nat
         /\ \/ socket = "down" /\ net' = <<>>
            \/ /\ socket = "up" /\ Len(net') = Len(net) + 1 /\ net'[Len(net) + 1] = Event(n)
               /\ \A i \in 1 .. Len(net) : net'[i] = net[i]
            \/ /\ socket = "up" /\ Len(net') = Len(net) + 1 /\ net'[1] = Resync
               /\ \A i \in 1 .. Len(net) : net'[i + 1] = net[i]
<1> DEFINE n == Len(log) + 1
<1>1. n \in Nat /\ nextSeq(buffer) = n /\ Len(log) \in Nat /\ n \in 1 .. n
  BY CounterFacts DEF ServerIsTyped
<1> HIDE DEF n
<1>2. Event(n) \in Frames(n) /\ Resync \in Frames(n) /\ Frames(Len(log)) \subseteq Frames(n)
  BY <1>1, FrameFacts DEF n
<1>3. net \in Seq(Frames(n)) /\ Len(net) \in Nat
  BY <1>2, SeqGrows, LenProperties DEF FramesAreTyped
<1>4. \/ net' = IF socket = "up" THEN Append(net, Event(n)) ELSE net
      \/ socket = "up" /\ net' = <<Resync>> \o net
  BY <1>1 DEF Publish
<1>5. CASE socket # "up"
  <2>1. socket = "down" /\ net' = <<>> /\ net' = net
    BY <1>4, <1>5 DEF FramesAreTyped
  <2> QED BY <1>3, <2>1 DEF n
<1>6. CASE socket = "up" /\ net' = Append(net, Event(n))
  <2>1. /\ net' \in Seq(Frames(n)) /\ Len(net') = Len(net) + 1
        /\ net'[Len(net) + 1] = Event(n) /\ \A i \in 1 .. Len(net) : net'[i] = net[i]
    BY <1>2, <1>3, <1>6, AppendProperties
  <2> QED BY <1>3, <1>6, <2>1 DEF n
<1>7. CASE socket = "up" /\ net' = <<Resync>> \o net
  <2>1. <<Resync>> \in Seq(Frames(n)) /\ Len(<<Resync>>) = 1 /\ <<Resync>>[1] = Resync
    BY <1>2
  <2>2. /\ net' \in Seq(Frames(n)) /\ Len(net') = 1 + Len(net)
        /\ \A i \in 1 .. 1 + Len(net) :
             net'[i] = IF i <= 1 THEN <<Resync>>[i] ELSE net[i - 1]
    BY <1>3, <1>7, <2>1, ConcatProperties
  <2>3. net'[1] = Resync
    BY <1>3, <2>1, <2>2
  <2>4. ASSUME NEW i \in 1 .. Len(net) PROVE net'[i + 1] = net[i]
    <3>1. i + 1 \in 1 .. 1 + Len(net) /\ ~(i + 1 <= 1) /\ (i + 1) - 1 = i
      BY <1>3
    <3> QED BY <2>2, <3>1
  <2> QED BY <1>3, <1>7, <2>2, <2>3, <2>4 DEF n
<1> QED BY <1>4, <1>5, <1>6, <1>7

\* Publish: the message at the head of the queue gets the next number.
LEMMA PublishKeeps == ASSUME SyncInv, Publish PROVE SyncInv'
<1>0. ServerIsTyped /\ FramesAreTyped /\ ClientIsTyped
  BY DEF SyncInv
<1>1. /\ events # <<>> /\ log' = Append(log, Head(events)) /\ events' = Tail(events)
      /\ UNCHANGED <<stored, announcing, restarts, socket, client, disturbed>>
  BY DEF Publish
<1>8. PICK n : n = Len(log) + 1
  OBVIOUS
<1>9. PICK h : h = events[1]
  OBVIOUS
<1>2. /\ events' \in Seq(1 .. stored) /\ Len(events) \in Nat \ {0} /\ Len(events') = Len(events) - 1
      /\ \A i \in 1 .. Len(events) - 1 : events'[i] = events[i + 1]
      /\ h \in 1 .. stored /\ Head(events) = h
  BY <1>0, <1>1, <1>9, TailFacts, HeadTailProperties DEF ServerIsTyped
<1>3. /\ log' \in Seq(1 .. stored) /\ Len(log) \in Nat /\ n \in Nat /\ Len(log') = n
      /\ \A i \in 1 .. Len(log) : log'[i] = log[i]
      /\ log'[n] = h
  <2>1. log \in Seq(1 .. stored) /\ Len(log) \in Nat /\ log' = Append(log, h)
    BY <1>0, <1>1, <1>2, LenProperties DEF ServerIsTyped
  <2>2. /\ log' \in Seq(1 .. stored) /\ Len(log') = Len(log) + 1
        /\ \A i \in 1 .. Len(log) : log'[i] = log[i]
        /\ log'[Len(log) + 1] = h
    BY <1>2, <2>1, AppendProperties
  <2> QED BY <1>8, <2>1, <2>2
<1>4. ServerIsTyped'
  <2>1. buffer' \in Buffer /\ buffer'.lastSeq = n
    BY <1>0, <1>8, CounterFacts DEF Publish, ServerIsTyped
  <2>2. EventQueue \in Nat /\ Len(events') <= EventQueue
    BY <1>0, <1>2, ChatSyncAssumptions DEF ServerIsTyped
  <2> QED BY <1>0, <1>1, <1>2, <1>3, <2>1, <2>2 DEF ServerIsTyped
<1>5. /\ net' \in Seq(Frames(n)) /\ Len(net) \in Nat
      /\ \/ socket = "down" /\ net' = <<>>
         \/ /\ socket = "up" /\ Len(net') = Len(net) + 1 /\ net'[Len(net) + 1] = Event(n)
            /\ \A i \in 1 .. Len(net) : net'[i] = net[i]
         \/ /\ socket = "up" /\ Len(net') = Len(net) + 1 /\ net'[1] = Resync
            /\ \A i \in 1 .. Len(net) : net'[i + 1] = net[i]
  BY <1>0, <1>8, PublishSends
<1>6. FramesAreTyped' /\ ClientIsTyped'
  <2>1. FramesAreTyped'
    BY <1>0, <1>1, <1>3, <1>5 DEF FramesAreTyped
  <2> QED BY <1>0, <1>1, <2>1, ClientStays
<1>7. ASSUME disturbed' = {} PROVE InLine' /\ ReadsAreKnown' /\ NothingIsLost'
  <2>0. InLine /\ ReadsAreKnown /\ NothingIsLost /\ cursor \in Nat /\ cursor' = cursor
    BY <1>0, <1>1, <1>7 DEF SyncInv, ClientIsTyped, client
  <2>1. ReadsAreKnown'
    BY <1>1, <2>0 DEF ReadsAreKnown, client
  <2>2. cursor <= Len(log) /\ Len(log) < n /\ cursor' <= Len(log')
    BY <1>3, <1>8, <2>0 DEF InLine
  <2>3. /\ \A i \in 1 .. Len(net) : net[i].type = "event" =>
             net[i].seq \in 1 .. Len(log) /\ net[i].seq < n
        /\ Event(n).type = "event" /\ Event(n).seq = n /\ Resync.type # "event"
    <3>1. \A i \in 1 .. Len(net) : net[i] \in Frames(Len(log))
      BY <1>0, ElementOfSeq DEF FramesAreTyped
    <3>2. /\ \A f \in Frames(Len(log)) : f.type = "event" => f.seq \in 1 .. Len(log)
          /\ Event(n).type = "event" /\ Event(n).seq = n /\ Resync.type # "event"
      BY <1>3, FrameFacts
    <3>3. \A k \in 1 .. Len(log) : k < n
      BY <1>3, <2>2
    <3> QED BY <3>1, <3>2, <3>3
  <2>4. InLine'
    <3>1. CASE socket = "down" /\ net' = <<>>
      BY <2>2, <3>1 DEF InLine
    <3>2. CASE /\ Len(net') = Len(net) + 1 /\ net'[Len(net) + 1] = Event(n)
               /\ \A i \in 1 .. Len(net) : net'[i] = net[i]
      <4>1. ASSUME NEW i \in 1 .. Len(net'), net'[i].type = "event"
            PROVE  /\ net'[i].seq > cursor'
                   /\ \A j \in 1 .. Len(net') : j > i =>
                        net'[j].type = "event" /\ net'[j].seq > net'[i].seq
        <5>1. CASE i = Len(net) + 1
          BY <1>3, <1>5, <2>0, <2>2, <2>3, <3>2, <5>1
        <5>2. CASE i \in 1 .. Len(net)
          <6>1. net[i].type = "event" /\ net'[i] = net[i]
            BY <3>2, <4>1, <5>2
          <6>2. net[i].seq > cursor /\ net[i].seq < n
            BY <2>0, <2>3, <5>2, <6>1 DEF InLine
          <6>3. ASSUME NEW j \in 1 .. Len(net'), j > i
                PROVE  net'[j].type = "event" /\ net'[j].seq > net'[i].seq
            <7>1. CASE j = Len(net) + 1
              BY <1>3, <2>3, <3>2, <5>2, <6>1, <6>2, <7>1
            <7>2. CASE j \in 1 .. Len(net)
              <8>1. net[j].type = "event" /\ net[j].seq > net[i].seq
                BY <2>0, <5>2, <6>1, <6>3, <7>2 DEF InLine
              <8> QED BY <3>2, <6>1, <7>2, <8>1
            <7> QED BY <1>5, <3>2, <7>1, <7>2
          <6> QED BY <2>0, <6>1, <6>2, <6>3
        <5> QED BY <1>5, <3>2, <5>1, <5>2
      <4> QED BY <2>2, <4>1 DEF InLine
    <3>3. CASE /\ Len(net') = Len(net) + 1 /\ net'[1] = Resync
               /\ \A i \in 1 .. Len(net) : net'[i + 1] = net[i]
      <4>0. ASSUME NEW i \in 1 .. Len(net'), i # 1
            PROVE  i - 1 \in 1 .. Len(net) /\ net'[i] = net[i - 1]
        <5>1. i - 1 \in 1 .. Len(net) /\ (i - 1) + 1 = i
          BY <1>5, <3>3, <4>0
        <5> QED BY <3>3, <5>1
      <4>1. ASSUME NEW i \in 1 .. Len(net'), net'[i].type = "event"
            PROVE  /\ net'[i].seq > cursor'
                   /\ \A j \in 1 .. Len(net') : j > i =>
                        net'[j].type = "event" /\ net'[j].seq > net'[i].seq
        <5>1. i # 1
          BY <2>3, <3>3, <4>1
        <5>2. i - 1 \in 1 .. Len(net) /\ net'[i] = net[i - 1]
          BY <4>0, <5>1
        <5>3. ASSUME NEW j \in 1 .. Len(net'), j > i
              PROVE  net'[j].type = "event" /\ net'[j].seq > net'[i].seq
          <6>1. j # 1 /\ j - 1 > i - 1
            BY <5>3
          <6>2. j - 1 \in 1 .. Len(net) /\ net'[j] = net[j - 1]
            BY <4>0, <6>1
          <6> QED BY <2>0, <4>1, <5>2, <6>1, <6>2 DEF InLine
        <5>4. net'[i].seq > cursor'
          BY <2>0, <4>1, <5>2 DEF InLine
        <5> QED BY <5>3, <5>4
      <4> QED BY <2>2, <4>1 DEF InLine
    <3> QED BY <1>5, <3>1, <3>2, <3>3
  <2>5. \A f : IsSent(f) => IsSent(f)' \/ socket' = "down"
    <3> SUFFICES ASSUME NEW f, IsSent(f), socket' # "down" PROVE IsSent(f)'
      OBVIOUS
    <3>1. PICK i \in 1 .. Len(net) : net[i] = f
      BY DEF IsSent
    <3>2. /\ i \in 1 .. Len(net) + 1 /\ i + 1 \in 1 .. Len(net) + 1
          /\ Len(net') = Len(net) + 1 /\ (net'[i] = f \/ net'[i + 1] = f)
      BY <1>1, <1>5, <3>1
    <3> QED BY <3>2 DEF IsSent
  <2>6. Ahead(h)'
    <3>1. socket' = "down" \/ IsSent(Event(n))' \/ IsSent(Resync)'
      <4>1. Len(net) + 1 \in 1 .. Len(net) + 1 /\ 1 \in 1 .. Len(net) + 1
        BY <1>5
      <4> QED BY <1>1, <1>5, <4>1 DEF IsSent
    <3>2. n \in 1 .. Len(log') /\ n > cursor' /\ log'[n] = h
      BY <1>3, <2>0, <2>2
    <3> QED BY <3>1, <3>2 DEF Ahead
  <2>7. ASSUME NEW m \in 1 .. stored', status' \notin {"idle", "error"} PROVE Coming(m)'
    <3>1. Coming(m)
      BY <1>1, <2>0, <2>7 DEF NothingIsLost, client
    <3>2. Ahead(m) => Ahead(m)'
      <4> SUFFICES ASSUME Ahead(m) PROVE Ahead(m)'
        OBVIOUS
      <4>1. PICK k \in 1 .. Len(log) :
              /\ k > cursor /\ log[k] = m
              /\ socket = "down" \/ IsSent(Resync) \/ IsSent(Event(k))
        BY DEF Ahead
      <4>2. k \in 1 .. Len(log') /\ k > cursor' /\ log'[k] = m
        BY <1>3, <2>0, <2>2, <4>1
      <4>3. socket' = "down" \/ IsSent(Resync)' \/ IsSent(Event(k))'
        BY <1>1, <2>5, <4>1
      <4> QED BY <4>2, <4>3 DEF Ahead
    <3>3. CASE \E i \in 1 .. Len(events) : events[i] = m
      <4>1. PICK i \in 1 .. Len(events) : events[i] = m
        BY <3>3
      <4>2. CASE i = 1
        BY <1>9, <2>6, <4>1, <4>2 DEF Coming
      <4>3. CASE i # 1
        <5>1. i - 1 \in 1 .. Len(events) - 1 /\ (i - 1) + 1 = i
          BY <1>2, <4>1, <4>3
        <5>2. i - 1 \in 1 .. Len(events') /\ events'[i - 1] = m
          BY <1>2, <4>1, <5>1
        <5> QED BY <5>2 DEF Coming
      <4> QED BY <4>2, <4>3
    <3>4. CASE ~\E i \in 1 .. Len(events) : events[i] = m
      BY <1>1, <3>1, <3>2, <3>4 DEF Coming, client
    <3> QED BY <3>3, <3>4
  <2> QED BY <2>1, <2>4, <2>7 DEF NothingIsLost
<1> QED BY <1>4, <1>6, <1>7 DEF SyncInv

\* What a hello is answered with: hello_ok alone, or with a resync, or with every
\* event after the cursor, in order.
LEMMA HelloAnswers ==
  ASSUME ServerIsTyped, ClientIsTyped, Connect
  PROVE  /\ net' \in Seq(Frames(Len(log))) /\ Len(net') \in Nat
         /\ \/ cursor = 0 /\ Len(net') = 1 /\ net'[1] = HelloOK
            \/ Len(net') = 2 /\ net'[1] = HelloOK /\ net'[2] = Resync
            \/ /\ cursor <= Len(log) /\ Len(net') = 1 + (Len(log) - cursor) /\ net'[1] = HelloOK
               /\ \A i \in 1 .. Len(log) - cursor : net'[1 + i] = Event(cursor + i)
<1>1. /\ Len(log) \in Nat /\ buffer.lastSeq = Len(log) /\ cursor \in Nat
      /\ HelloOK \in Frames(Len(log)) /\ Resync \in Frames(Len(log))
      /\ \A n \in 1 .. Len(log) : Event(n) \in Frames(Len(log))
  <2>1. Len(log) \in Nat /\ buffer.lastSeq = Len(log) /\ cursor \in Nat
    BY LenProperties DEF ServerIsTyped, ClientIsTyped
  <2> QED BY <2>1, FrameFacts
<1>2. CASE cursor = 0
  BY <1>1, <1>2 DEF Connect
<1>3. CASE net' = <<HelloOK, Resync>>
  BY <1>1, <1>3
<1>4. CASE cursor # 0 /\ buffer.lastSeq > 0 /\ canResume(buffer, cursor)
  <2>1. PICK k : k = Len(log) - cursor
    OBVIOUS
  <2>2. k \in Nat /\ cursor <= Len(log)
    BY <1>1, <1>4, <2>1 DEF canResume
  <2>3. PICK ev : ev = [i \in 1 .. k |-> Event(cursor + i)]
    OBVIOUS
  <2>4. \A i \in 1 .. k : Event(cursor + i) \in Frames(Len(log))
    <3>1. \A i \in 1 .. k : cursor + i \in 1 .. Len(log)
      BY <1>1, <2>1, <2>2
    <3> QED BY <1>1, <3>1
  <2>5. /\ ev \in Seq(Frames(Len(log))) /\ Len(ev) = k
        /\ \A i \in 1 .. k : ev[i] = Event(cursor + i)
    BY <2>2, <2>3, <2>4
  <2>6. net' = <<HelloOK>> \o ev
    BY <1>1, <1>4, <2>1, <2>3 DEF Connect
  <2>7. <<HelloOK>> \in Seq(Frames(Len(log))) /\ Len(<<HelloOK>>) = 1 /\ <<HelloOK>>[1] = HelloOK
    BY <1>1
  <2>8. /\ net' \in Seq(Frames(Len(log))) /\ Len(net') = 1 + k
        /\ \A i \in 1 .. 1 + k : net'[i] = IF i <= 1 THEN <<HelloOK>>[i] ELSE ev[i - 1]
    BY <2>5, <2>6, <2>7, ConcatProperties
  <2>9. net'[1] = HelloOK /\ Len(net') \in Nat
    BY <2>2, <2>7, <2>8
  <2>10. ASSUME NEW i \in 1 .. k PROVE net'[1 + i] = Event(cursor + i)
    <3>1. 1 + i \in 1 .. 1 + k /\ ~(1 + i <= 1) /\ (1 + i) - 1 = i
      BY <2>2
    <3>2. net'[1 + i] = ev[i]
      BY <2>8, <3>1
    <3> QED BY <2>5, <3>2
  <2> QED BY <2>1, <2>2, <2>8, <2>9, <2>10
<1> QED BY <1>2, <1>3, <1>4 DEF Connect

\* Connect: a client that asks for nothing has nothing to lose, and is
\* undisturbed only then.
LEMMA ConnectKeeps == ASSUME SyncInv, Connect PROVE SyncInv'
<1>0. ServerIsTyped /\ FramesAreTyped /\ ClientIsTyped
  BY DEF SyncInv
<1>1. /\ socket' = "up" /\ UNCHANGED <<server, client>> /\ log' = log /\ stored' = stored
      /\ cursor' = cursor /\ socket = "down"
      /\ disturbed' = IF cursor = 0 /\ status # "idle" THEN disturbed \cup {"cursorless"} ELSE disturbed
  BY DEF Connect, server, client
<1>2. ServerIsTyped'
  BY <1>0, <1>1, ServerStays
<1>3. ClientIsTyped'
  BY <1>0, <1>1 DEF ClientIsTyped, client, Causes
<1>4. /\ net' \in Seq(Frames(Len(log))) /\ Len(net') \in Nat
      /\ \/ cursor = 0 /\ Len(net') = 1 /\ net'[1] = HelloOK
         \/ Len(net') = 2 /\ net'[1] = HelloOK /\ net'[2] = Resync
         \/ /\ cursor <= Len(log) /\ Len(net') = 1 + (Len(log) - cursor) /\ net'[1] = HelloOK
            /\ \A i \in 1 .. Len(log) - cursor : net'[1 + i] = Event(cursor + i)
  BY <1>0, HelloAnswers
<1>5. FramesAreTyped'
  BY <1>1, <1>4 DEF FramesAreTyped
<1>6. ASSUME disturbed' = {} PROVE InLine' /\ ReadsAreKnown' /\ NothingIsLost'
  <2>1. /\ InLine /\ ReadsAreKnown /\ NothingIsLost /\ (cursor = 0 => status = "idle")
        /\ cursor \in Nat /\ cursor <= Len(log) /\ Len(log) \in Nat
    <3>1. disturbed = {} /\ (cursor = 0 => status = "idle")
      BY <1>1, <1>6
    <3>2. InLine /\ ReadsAreKnown /\ NothingIsLost
      BY <3>1 DEF SyncInv
    <3> QED BY <1>0, <3>1, <3>2, LenProperties DEF InLine, ServerIsTyped, ClientIsTyped
  <2>2. HelloOK.type # "event" /\ Resync.type # "event" /\ \A n : Event(n).type = "event" /\ Event(n).seq = n
    BY <2>1, FrameFacts
  <2>3. InLine'
    <3>1. CASE \A i \in 1 .. Len(net') : net'[i].type # "event"
      BY <1>1, <2>1, <3>1 DEF InLine
    <3>2. CASE /\ Len(net') = 1 + (Len(log) - cursor) /\ net'[1] = HelloOK
               /\ \A i \in 1 .. Len(log) - cursor : net'[1 + i] = Event(cursor + i)
      <4>1. ASSUME NEW i \in 1 .. Len(net'), i # 1
            PROVE  net'[i].type = "event" /\ net'[i].seq = cursor + (i - 1)
        <5>1. i - 1 \in 1 .. Len(log) - cursor /\ 1 + (i - 1) = i
          BY <1>4, <2>1, <3>2, <4>1
        <5>2. net'[i] = Event(cursor + (i - 1))
          BY <3>2, <5>1
        <5> QED BY <2>2, <5>2
      <4>2. ASSUME NEW i \in 1 .. Len(net'), net'[i].type = "event"
            PROVE  /\ net'[i].seq > cursor'
                   /\ \A j \in 1 .. Len(net') : j > i =>
                        net'[j].type = "event" /\ net'[j].seq > net'[i].seq
        <5>1. i # 1
          BY <2>2, <3>2, <4>2
        <5>2. net'[i].seq = cursor + (i - 1)
          BY <4>1, <5>1
        <5>3. ASSUME NEW j \in 1 .. Len(net'), j > i
              PROVE  net'[j].type = "event" /\ net'[j].seq > net'[i].seq
          <6>1. j # 1
            BY <5>3
          <6>2. net'[j].type = "event" /\ net'[j].seq = cursor + (j - 1)
            BY <4>1, <6>1
          <6> QED BY <2>1, <5>2, <5>3, <6>2
        <5>4. net'[i].seq > cursor'
          BY <1>1, <2>1, <5>1, <5>2
        <5> QED BY <5>3, <5>4
      <4> QED BY <1>1, <2>1, <4>2 DEF InLine
    <3> QED BY <1>4, <2>2, <3>1, <3>2
  <2>4. ReadsAreKnown'
    BY <1>1, <2>1 DEF ReadsAreKnown, client
  <2>5. ASSUME NEW m \in 1 .. stored', status' \notin {"idle", "error"} PROVE Coming(m)'
    <3>1. Coming(m) /\ cursor # 0
      BY <1>1, <2>1, <2>5 DEF NothingIsLost, client
    <3>2. Ahead(m) => Ahead(m)'
      <4> SUFFICES ASSUME Ahead(m) PROVE Ahead(m)'
        OBVIOUS
      <4>1. PICK k \in 1 .. Len(log) : k > cursor /\ log[k] = m
        BY DEF Ahead
      <4>2. IsSent(Resync)' \/ IsSent(Event(k))'
        <5>1. CASE Len(net') = 2 /\ net'[2] = Resync
          BY <5>1 DEF IsSent
        <5>2. CASE /\ Len(net') = 1 + (Len(log) - cursor)
                   /\ \A i \in 1 .. Len(log) - cursor : net'[1 + i] = Event(cursor + i)
          <6>1. k - cursor \in 1 .. Len(log) - cursor /\ cursor + (k - cursor) = k
                /\ 1 + (k - cursor) \in 1 .. Len(net')
            BY <2>1, <4>1, <5>2
          <6>2. net'[1 + (k - cursor)] = Event(k)
            BY <5>2, <6>1
          <6> QED BY <6>1, <6>2 DEF IsSent
        <5> QED BY <1>4, <3>1, <5>1, <5>2
      <4> QED BY <1>1, <4>1, <4>2 DEF Ahead
    <3> QED BY <1>1, <3>1, <3>2 DEF Coming, client, server
  <2> QED BY <2>3, <2>4, <2>5 DEF NothingIsLost
<1> QED BY <1>2, <1>3, <1>5, <1>6 DEF SyncInv

\* ReceiveEvent: the view gets what the cursor passes, and no more than that.
LEMMA EventKeeps == ASSUME SyncInv, ReceiveEvent PROVE SyncInv'
<1>0. ServerIsTyped /\ FramesAreTyped /\ ClientIsTyped
  BY DEF SyncInv
<1>1. /\ net # <<>> /\ net[1].type = "event" /\ net' = Tail(net)
      /\ UNCHANGED <<server, socket, status, inside, load, disturbed>> /\ log' = log /\ stored' = stored
  BY DEF ReceiveEvent, server
<1>2. PICK k : k = net[1].seq
  OBVIOUS
<1>3. /\ Len(log) \in Nat /\ cursor \in Nat /\ k \in 1 .. Len(log) /\ net[1] = Event(k)
      /\ Len(net) \in Nat \ {0} /\ net' \in Seq(Frames(Len(log)))
      /\ HelloOK.type # "event" /\ Resync.type # "event" /\ \A n : Event(n).type = "event" /\ Event(n).seq = n
  <2>1. Len(log) \in Nat /\ cursor \in Nat
    BY <1>0, LenProperties DEF ServerIsTyped, ClientIsTyped
  <2>2. net[1] \in Frames(Len(log)) /\ Len(net) \in Nat \ {0} /\ net' \in Seq(Frames(Len(log)))
    BY <1>0, <1>1, TailFacts DEF FramesAreTyped
  <2> QED BY <1>1, <1>2, <2>1, <2>2, FrameFacts
<1>4. /\ view' = view \cup {log[k]} /\ log[k] \in 1 .. stored
      /\ cursor' = IF k > cursor THEN k ELSE cursor
  <2>1. log[k] \in 1 .. stored
    BY <1>0, <1>3, ElementOfSeq DEF ServerIsTyped
  <2> QED BY <1>2, <2>1 DEF ReceiveEvent
<1>5. ServerIsTyped' /\ FramesAreTyped' /\ ClientIsTyped'
  <2>1. ServerIsTyped'
    BY <1>0, <1>1, ServerStays
  <2>2. FramesAreTyped'
    BY <1>0, <1>1, <1>3 DEF FramesAreTyped
  <2>3. cursor' \in Nat
    BY <1>3, <1>4
  <2>4. ClientIsTyped'
    BY <1>0, <1>1, <1>4, <2>3 DEF ClientIsTyped
  <2> QED BY <2>1, <2>2, <2>4
<1>6. ASSUME disturbed' = {} PROVE InLine' /\ ReadsAreKnown' /\ NothingIsLost'
  <2>1. InLine /\ ReadsAreKnown /\ NothingIsLost
    BY <1>1, <1>6 DEF SyncInv
  <2>2. /\ k > cursor /\ cursor' = k
        /\ \A j \in 2 .. Len(net) : net[j].type = "event" /\ net[j].seq > k
    <3>1. 1 \in 1 .. Len(net) /\ \A j \in 2 .. Len(net) : j \in 1 .. Len(net) /\ j > 1
      BY <1>3
    <3>2. k > cursor /\ \A j \in 2 .. Len(net) : net[j].type = "event" /\ net[j].seq > k
      BY <1>1, <1>2, <2>1, <3>1 DEF InLine
    <3> QED BY <1>4, <3>2
  <2>3. InLine'
    <3>1. cursor' \in Nat /\ cursor' <= Len(log)
      BY <1>3, <2>2
    <3> QED BY <1>0, <1>1, <2>1, <2>2, <3>1, LineOfTail
  <2>4. ReadsAreKnown'
    BY <1>1, <2>1 DEF ReadsAreKnown
  <2>5. ASSUME NEW m \in 1 .. stored', status' \notin {"idle", "error"} PROVE Coming(m)'
    <3>1. Coming(m)
      BY <1>1, <2>1, <2>5 DEF NothingIsLost
    <3>2. Ahead(m) => Ahead(m)' \/ m = log[k]
      <4> SUFFICES ASSUME Ahead(m), m # log[k] PROVE Ahead(m)'
        OBVIOUS
      <4>1. PICK n \in 1 .. Len(log) :
              /\ n > cursor /\ log[n] = m
              /\ socket = "down" \/ IsSent(Resync) \/ IsSent(Event(n))
        BY DEF Ahead
      <4>2. socket # "down" /\ n # k
        BY <1>0, <1>1, <4>1 DEF FramesAreTyped
      <4>3. ASSUME NEW f, NEW j \in 1 .. Len(net), net[j] = f, f # Event(k)
            PROVE  f.type = "event" /\ f.seq > k /\ IsSent(f)'
        <5>1. j # 1
          BY <1>3, <4>3
        <5>2. j \in 2 .. Len(net) /\ j - 1 \in 1 .. Len(net) - 1 /\ (j - 1) + 1 = j
          BY <1>3, <4>3, <5>1
        <5>3. Len(net') = Len(net) - 1 /\ \A i \in 1 .. Len(net) - 1 : net'[i] = net[i + 1]
          BY <1>0, <1>1, TailFacts DEF FramesAreTyped
        <5>4. j - 1 \in 1 .. Len(net') /\ net'[j - 1] = f
          BY <4>3, <5>2, <5>3
        <5> QED BY <2>2, <4>3, <5>2, <5>4 DEF IsSent
      <4>4. Event(n) # Event(k) /\ Resync # Event(k)
        BY <1>3, <4>2
      <4>5. IsSent(Event(n))
        <5>1. ~IsSent(Resync)
          BY <1>3, <4>3, <4>4 DEF IsSent
        <5> QED BY <4>1, <4>2, <5>1
      <4>6. PICK j \in 1 .. Len(net) : net[j] = Event(n)
        BY <4>5 DEF IsSent
      <4>7. Event(n).seq > k /\ IsSent(Event(n))'
        BY <4>3, <4>4, <4>6
      <4>8. n > cursor'
        BY <1>3, <2>2, <4>7
      <4> QED BY <1>1, <4>1, <4>7, <4>8 DEF Ahead
    <3> QED BY <1>1, <1>4, <3>1, <3>2 DEF Coming, server
  <2> QED BY <2>3, <2>4, <2>5 DEF NothingIsLost
<1> QED BY <1>5, <1>6 DEF SyncInv

\* ReceiveHelloOK.
LEMMA HelloOKKeeps == ASSUME SyncInv, ReceiveHelloOK PROVE SyncInv'
<1>0. ServerIsTyped /\ FramesAreTyped /\ ClientIsTyped
  BY DEF SyncInv
<1>1. /\ net # <<>> /\ net[1] = HelloOK /\ net' = Tail(net)
      /\ UNCHANGED <<server, socket, client, disturbed>> /\ log' = log /\ stored' = stored
      /\ cursor' = cursor
  BY DEF ReceiveHelloOK, server, client
<1>2. /\ Len(log) \in Nat /\ cursor \in Nat /\ Len(net) \in Nat \ {0}
      /\ net' \in Seq(Frames(Len(log))) /\ HelloOK # Resync /\ \A n : HelloOK # Event(n)
  <2>1. Len(log) \in Nat /\ cursor \in Nat
    BY <1>0, LenProperties DEF ServerIsTyped, ClientIsTyped
  <2>2. Len(net) \in Nat \ {0} /\ net' \in Seq(Frames(Len(log)))
    BY <1>0, <1>1, TailFacts DEF FramesAreTyped
  <2> QED BY <2>1, <2>2, FrameFacts
<1>3. ServerIsTyped' /\ FramesAreTyped' /\ ClientIsTyped'
  <2>1. ServerIsTyped' /\ ClientIsTyped'
    BY <1>0, <1>1, ServerStays, ClientStays
  <2> QED BY <1>0, <1>1, <1>2, <2>1 DEF FramesAreTyped
<1>4. ASSUME disturbed' = {} PROVE InLine' /\ ReadsAreKnown' /\ NothingIsLost'
  <2>1. InLine /\ ReadsAreKnown /\ NothingIsLost
    BY <1>1, <1>4 DEF SyncInv
  <2>2. InLine'
    <3>1. \A j \in 2 .. Len(net) : j \in 1 .. Len(net)
      BY <1>2
    <3>2. cursor' <= Len(log) /\ \A j \in 2 .. Len(net) : net[j].type = "event" => net[j].seq > cursor'
      BY <1>1, <2>1, <3>1 DEF InLine
    <3> QED BY <1>0, <1>1, <1>2, <2>1, <3>2, LineOfTail
  <2>3. ReadsAreKnown'
    BY <1>1, <2>1 DEF ReadsAreKnown, client
  <2>4. ASSUME NEW m \in 1 .. stored', status' \notin {"idle", "error"} PROVE Coming(m)'
    <3>1. Coming(m)
      BY <1>1, <2>1, <2>4 DEF NothingIsLost, client
    <3>2. Ahead(m) => Ahead(m)'
      BY <1>0, <1>1, <1>2, AheadOfTail
    <3> QED BY <1>1, <3>1, <3>2 DEF Coming, client, server
  <2> QED BY <2>2, <2>3, <2>4 DEF NothingIsLost
<1> QED BY <1>3, <1>4 DEF SyncInv

\* StartLoad asks.
LEMMA StartAsks ==
  ASSUME ClientIsTyped, NEW l \in Loads, StartLoad(l), UNCHANGED stored
  PROVE  /\ load' \in [Loads -> [pc : {"none", "asked", "answered"}, page : SUBSET (1 .. stored')]]
         /\ status' = "loading" /\ load'[l].pc = "asked"
BY DEF StartLoad, ClientIsTyped, NoLoad

\* ReceiveResync: the frame that is taken is replaced by a read.
LEMMA ResyncKeeps == ASSUME SyncInv, ReceiveResync PROVE SyncInv'
<1>0. ServerIsTyped /\ FramesAreTyped /\ ClientIsTyped
  BY DEF SyncInv
<1>1. /\ net # <<>> /\ cursor' = 0 /\ net' = Tail(net)
      /\ UNCHANGED <<server, socket, view, inside, disturbed>> /\ log' = log /\ stored' = stored
  BY DEF ReceiveResync, server
<1>2. PICK l \in Loads : StartLoad(l)
  BY DEF ReceiveResync
<1>3. /\ load' \in [Loads -> [pc : {"none", "asked", "answered"}, page : SUBSET (1 .. stored')]]
      /\ status' = "loading" /\ load'[l].pc = "asked"
  BY <1>0, <1>1, <1>2, StartAsks
<1>4. Len(log) \in Nat /\ Len(net) \in Nat \ {0} /\ net' \in Seq(Frames(Len(log))) /\ cursor \in Nat
  <2>1. Len(log) \in Nat /\ cursor \in Nat
    BY <1>0, LenProperties DEF ServerIsTyped, ClientIsTyped
  <2> QED BY <1>0, <1>1, <2>1, TailFacts DEF FramesAreTyped
<1>5. ServerIsTyped' /\ FramesAreTyped' /\ ClientIsTyped'
  <2>1. ServerIsTyped'
    BY <1>0, <1>1, ServerStays
  <2>2. FramesAreTyped'
    BY <1>0, <1>1, <1>4 DEF FramesAreTyped
  <2>3. ClientIsTyped'
    BY <1>0, <1>1, <1>3 DEF ClientIsTyped
  <2> QED BY <2>1, <2>2, <2>3
<1>6. ASSUME disturbed' = {} PROVE InLine' /\ ReadsAreKnown' /\ NothingIsLost'
  <2>1. InLine
    BY <1>1, <1>6 DEF SyncInv
  <2>2. \A j \in 2 .. Len(net) : net[j].type = "event" => net[j].seq > cursor'
    <3>1. ASSUME NEW j \in 2 .. Len(net), net[j].type = "event" PROVE net[j].seq > cursor'
      <4>1. j \in 1 .. Len(net)
        BY <1>4
      <4>2. net[j] \in Frames(Len(log))
        BY <1>0, <4>1, ElementOfSeq DEF FramesAreTyped
      <4>3. net[j].seq \in 1 .. Len(log)
        BY <1>4, <3>1, <4>2, FrameFacts
      <4> QED BY <1>1, <1>4, <4>3
    <3> QED BY <3>1
  <2>3. InLine'
    BY <1>0, <1>1, <1>4, <2>1, <2>2, LineOfTail
  <2>4. ReadsAreKnown'
    BY <1>3 DEF ReadsAreKnown
  <2>5. NothingIsLost'
    BY <1>3 DEF NothingIsLost, Coming
  <2> QED BY <2>3, <2>4, <2>5
<1> QED BY <1>5, <1>6 DEF SyncInv

\* Enter and Leave: a view that is not loaded is loaded when it is opened.
LEMMA EnterKeeps == ASSUME SyncInv, Enter PROVE SyncInv'
<1>0. ServerIsTyped /\ FramesAreTyped /\ ClientIsTyped
  BY DEF SyncInv
<1>1. /\ inside' = TRUE /\ UNCHANGED <<server, socket, net, cursor, view, disturbed>>
      /\ log' = log /\ stored' = stored
  BY DEF Enter, server
<1>2. ServerIsTyped' /\ FramesAreTyped' /\ (InLine => InLine')
  BY <1>0, <1>1, ServerStays, FramesStay, LineStays
<1>3. CASE status \in {"idle", "error"}
  <2>1. PICK l \in Loads : StartLoad(l)
    BY <1>3 DEF Enter
  <2>2. /\ load' \in [Loads -> [pc : {"none", "asked", "answered"}, page : SUBSET (1 .. stored')]]
        /\ status' = "loading" /\ load'[l].pc = "asked"
    BY <1>0, <1>1, <2>1, StartAsks
  <2>3. ClientIsTyped'
    BY <1>0, <1>1, <2>2 DEF ClientIsTyped
  <2>4. ReadsAreKnown' /\ NothingIsLost'
    BY <2>2 DEF ReadsAreKnown, NothingIsLost, Coming
  <2> QED BY <1>1, <1>2, <2>3, <2>4 DEF SyncInv
<1>4. CASE status \notin {"idle", "error"}
  <2>1. UNCHANGED <<status, load>>
    BY <1>4 DEF Enter
  <2>2. ClientIsTyped'
    BY <1>0, <1>1, <2>1 DEF ClientIsTyped
  <2>3. ReadsAreKnown => ReadsAreKnown'
    BY <2>1 DEF ReadsAreKnown
  <2>4. ASSUME NothingIsLost PROVE NothingIsLost'
    <3>1. ASSUME NEW m \in 1 .. stored', status' \notin {"idle", "error"} PROVE Coming(m)'
      <4>1. Coming(m)
        BY <1>1, <2>1, <2>4, <3>1 DEF NothingIsLost
      <4>2. Ahead(m) => Ahead(m)'
        BY <1>1, AheadStays
      <4> QED BY <1>1, <2>1, <4>1, <4>2 DEF Coming, server
    <3> QED BY <3>1 DEF NothingIsLost
  <2> QED BY <1>1, <1>2, <2>2, <2>3, <2>4 DEF SyncInv
<1> QED BY <1>3, <1>4

LEMMA LeaveKeeps == ASSUME SyncInv, Leave PROVE SyncInv'
<1>0. ServerIsTyped /\ FramesAreTyped /\ ClientIsTyped
  BY DEF SyncInv
<1>1. /\ inside' = FALSE /\ cursor' = 0
      /\ UNCHANGED <<server, socket, net, view, status, load, disturbed>>
      /\ log' = log /\ stored' = stored
  BY DEF Leave, server
<1>2. ServerIsTyped' /\ FramesAreTyped' /\ ClientIsTyped'
  <2>1. ServerIsTyped' /\ FramesAreTyped'
    BY <1>0, <1>1, ServerStays, FramesStay
  <2> QED BY <1>0, <1>1, <2>1 DEF ClientIsTyped
<1>3. Len(log) \in Nat /\ cursor \in Nat
  BY <1>0, LenProperties DEF ServerIsTyped, ClientIsTyped
<1>4. ASSUME disturbed' = {} PROVE InLine' /\ ReadsAreKnown' /\ NothingIsLost'
  <2>1. InLine /\ ReadsAreKnown /\ NothingIsLost
    BY <1>1, <1>4 DEF SyncInv
  <2>2. \A i \in 1 .. Len(net) : net[i].type = "event" => net[i].seq > 0
    <3>1. ASSUME NEW i \in 1 .. Len(net), net[i].type = "event" PROVE net[i].seq > 0
      <4>1. net[i] \in Frames(Len(log))
        BY <1>0, ElementOfSeq DEF FramesAreTyped
      <4>2. net[i].seq \in 1 .. Len(log)
        BY <1>3, <3>1, <4>1, FrameFacts
      <4> QED BY <1>3, <4>2
    <3> QED BY <3>1
  <2>3. InLine'
    BY <1>1, <1>3, <2>1, <2>2 DEF InLine
  <2>4. ReadsAreKnown'
    BY <1>1, <2>1 DEF ReadsAreKnown
  <2>5. ASSUME NEW m \in 1 .. stored', status' \notin {"idle", "error"} PROVE Coming(m)'
    <3>1. Coming(m)
      BY <1>1, <2>1, <2>5 DEF NothingIsLost
    <3>2. Ahead(m) => Ahead(m)'
      <4> SUFFICES ASSUME Ahead(m) PROVE Ahead(m)'
        OBVIOUS
      <4>1. PICK n \in 1 .. Len(log) :
              /\ n > cursor /\ log[n] = m
              /\ socket = "down" \/ IsSent(Resync) \/ IsSent(Event(n))
        BY DEF Ahead
      <4>2. n > cursor' /\ log'[n] = m /\ n \in 1 .. Len(log')
        BY <1>1, <1>3, <4>1
      <4>3. socket' = "down" \/ IsSent(Resync)' \/ IsSent(Event(n))'
        BY <1>1, <4>1 DEF IsSent
      <4> QED BY <4>2, <4>3 DEF Ahead
    <3> QED BY <1>1, <3>1, <3>2 DEF Coming, server
  <2> QED BY <2>3, <2>4, <2>5 DEF NothingIsLost
<1> QED BY <1>2, <1>4 DEF SyncInv

\* ReadPage: what was to be read has been read.
LEMMA ReadKeeps == ASSUME SyncInv, NEW l \in Loads, ReadPage(l) PROVE SyncInv'
<1>0. ServerIsTyped /\ FramesAreTyped /\ ClientIsTyped
  BY DEF SyncInv
<1>1. /\ load[l].pc = "asked" /\ UNCHANGED <<server, socket, net, cursor, view, status, inside, disturbed>>
      /\ load' = [load EXCEPT ![l] = [pc |-> "answered", page |-> 1 .. stored]]
      /\ log' = log /\ stored' = stored
  BY DEF ReadPage, server
<1>2. ServerIsTyped' /\ FramesAreTyped' /\ (InLine => InLine')
  BY <1>0, <1>1, ServerStays, FramesStay, LineStays
<1>3. /\ load' \in [Loads -> [pc : {"none", "asked", "answered"}, page : SUBSET (1 .. stored')]]
      /\ load'[l].pc = "answered" /\ load'[l].page = 1 .. stored
  BY <1>0, <1>1 DEF ClientIsTyped
<1>4. ClientIsTyped'
  BY <1>0, <1>1, <1>3 DEF ClientIsTyped
<1>5. ReadsAreKnown => ReadsAreKnown'
  BY <1>1 DEF ReadsAreKnown, NoLoad
<1>6. NothingIsLost'
  BY <1>1, <1>3 DEF NothingIsLost, Coming
<1> QED BY <1>1, <1>2, <1>4, <1>5, <1>6 DEF SyncInv

\* Loaded: a page that lacks nothing of the view replaces it.
LEMMA LoadedKeeps == ASSUME SyncInv, NEW l \in Loads, Loaded(l) PROVE SyncInv'
<1>0. ServerIsTyped /\ FramesAreTyped /\ ClientIsTyped
  BY DEF SyncInv
<1>1. /\ load[l].pc = "answered" /\ view' = load[l].page /\ status' = "ready"
      /\ load' = [load EXCEPT ![l] = NoLoad]
      /\ UNCHANGED <<server, socket, net, cursor, inside>> /\ log' = log /\ stored' = stored
      /\ disturbed' = IF view \subseteq load[l].page THEN disturbed ELSE disturbed \cup {"overwritten"}
  BY DEF Loaded, server
<1>2. ServerIsTyped' /\ FramesAreTyped' /\ (InLine => InLine')
  BY <1>0, <1>1, ServerStays, FramesStay, LineStays
<1>3. ClientIsTyped'
  BY <1>0, <1>1 DEF ClientIsTyped, NoLoad, Causes
<1>4. ASSUME disturbed' = {} PROVE InLine' /\ ReadsAreKnown' /\ NothingIsLost'
  <2>1. disturbed = {} /\ view \subseteq view'
    BY <1>1, <1>4
  <2>2. InLine /\ ReadsAreKnown /\ NothingIsLost
    BY <2>1 DEF SyncInv
  <2>3. ReadsAreKnown'
    BY <1>1 DEF ReadsAreKnown
  <2>4. ASSUME NEW m \in 1 .. stored' PROVE Coming(m)'
    <3>1. status \notin {"idle", "error"}
      BY <1>1, <2>2 DEF ReadsAreKnown, NoLoad
    <3>2. Coming(m)
      BY <1>1, <2>2, <3>1 DEF NothingIsLost
    <3>3. Ahead(m) => Ahead(m)'
      BY <1>1, AheadStays
    <3>4. (\E k \in Loads : load[k].pc = "asked") => \E k \in Loads : load'[k].pc = "asked"
      BY <1>0, <1>1 DEF ClientIsTyped
    <3>5. ASSUME NEW k \in Loads, load[k].pc = "answered", m \in load[k].page
          PROVE  m \in view' \/ (load'[k].pc = "answered" /\ m \in load'[k].page)
      BY <1>0, <1>1, <3>5 DEF ClientIsTyped
    <3> QED BY <1>1, <2>1, <3>2, <3>3, <3>4, <3>5 DEF Coming, server
  <2> QED BY <1>2, <2>2, <2>3, <2>4 DEF NothingIsLost
<1> QED BY <1>2, <1>3, <1>4 DEF SyncInv

\* LoadFails: the only read there was, so the view is to be loaded again.
LEMMA FailsKeeps == ASSUME SyncInv, NEW l \in Loads, LoadFails(l) PROVE SyncInv'
<1>0. ServerIsTyped /\ FramesAreTyped /\ ClientIsTyped
  BY DEF SyncInv
<1>1. /\ status' = (IF status = "ready" THEN "ready" ELSE "error")
      /\ load' = [load EXCEPT ![l] = NoLoad]
      /\ UNCHANGED <<server, socket, net, cursor, view, inside>> /\ log' = log /\ stored' = stored
      /\ disturbed' = IF status = "ready" \/ \E k \in Loads \ {l} : load[k] # NoLoad
                        THEN disturbed \cup {"forgotten"} ELSE disturbed
  BY DEF LoadFails, server
<1>2. ServerIsTyped' /\ FramesAreTyped' /\ (InLine => InLine')
  BY <1>0, <1>1, ServerStays, FramesStay, LineStays
<1>3. ClientIsTyped'
  BY <1>0, <1>1 DEF ClientIsTyped, NoLoad, Causes
<1>4. ASSUME disturbed' = {} PROVE InLine' /\ ReadsAreKnown' /\ NothingIsLost'
  <2>1. disturbed = {} /\ status' = "error" /\ \A k \in Loads \ {l} : load[k] = NoLoad
    BY <1>1, <1>4
  <2>2. InLine
    BY <2>1 DEF SyncInv
  <2>3. \A k \in Loads : load'[k] = NoLoad
    BY <1>0, <1>1, <2>1 DEF ClientIsTyped
  <2> QED BY <1>2, <2>1, <2>2, <2>3 DEF ReadsAreKnown, NothingIsLost
<1> QED BY <1>2, <1>3, <1>4 DEF SyncInv

\* The invariant is inductive.
LEMMA SyncStep == SyncInv /\ [SyncNext]_syncVars => SyncInv'
<1> SUFFICES ASSUME SyncInv, [SyncNext]_syncVars PROVE SyncInv'
  OBVIOUS
<1>1. CASE UNCHANGED syncVars
  <2>1. UNCHANGED <<stored, announcing, events, buffer, log, restarts, socket, net, cursor, view,
                    status, inside, load, disturbed>>
    BY <1>1 DEF syncVars, server, client
  <2>2. ServerIsTyped' /\ FramesAreTyped' /\ ClientIsTyped' /\ (InLine => InLine')
    BY <2>1, ServerStays, FramesStay, ClientStays, LineStays DEF SyncInv, server, client
  <2>3. ReadsAreKnown => ReadsAreKnown'
    BY <2>1 DEF ReadsAreKnown
  <2>4. ASSUME NothingIsLost PROVE NothingIsLost'
    <3>1. ASSUME NEW m \in 1 .. stored', status' \notin {"idle", "error"} PROVE Coming(m)'
      <4>1. Coming(m) /\ (Ahead(m) => Ahead(m)')
        BY <2>1, <2>4, <3>1, AheadStays DEF NothingIsLost
      <4> QED BY <2>1, <4>1 DEF Coming
    <3> QED BY <3>1 DEF NothingIsLost
  <2> QED BY <2>1, <2>2, <2>3, <2>4 DEF SyncInv
<1>2. CASE SyncNext
  BY <1>2, CommitKeeps, CreatedKeeps, DownKeeps, PruneKeeps, PublishKeeps, ConnectKeeps, EventKeeps,
     HelloOKKeeps, ResyncKeeps, EnterKeeps, LeaveKeeps, ReadKeeps, LoadedKeeps, FailsKeeps DEF SyncNext
<1> QED BY <1>1, <1>2

\* What the invariant says of a client, quiet or not.
LEMMA SyncInvImplies == SyncInv => ViewIsTrue
<1> SUFFICES ASSUME SyncInv PROVE ViewIsTrue
  OBVIOUS
<1>0. ServerIsTyped /\ FramesAreTyped /\ ClientIsTyped
  BY DEF SyncInv
<1>1. stored \in Nat /\ 1 .. stored \subseteq Messages /\ Len(log) \in Nat
  BY <1>0, ChatSyncAssumptions, LenProperties DEF ServerIsTyped, Messages
<1>2. events \in Seq(Messages) /\ log \in Seq(Messages)
  BY <1>0, <1>1, SeqGrows DEF ServerIsTyped
<1>3. net \in Seq([type : {"event", "resync", "hello_ok"}, seq : Nat])
  <2>1. Frames(Len(log)) \subseteq [type : {"event", "resync", "hello_ok"}, seq : Nat]
    BY <1>1 DEF Frames, HelloOK, Resync, Event
  <2> QED BY <1>0, <2>1, SeqGrows DEF FramesAreTyped
<1>4. SyncTypeOK
  <2>1. load \in [Loads -> [pc : {"none", "asked", "answered"}, page : SUBSET Messages]]
    BY <1>0, <1>1 DEF ClientIsTyped
  <2> QED BY <1>0, <1>1, <1>2, <1>3, <2>1 DEF SyncTypeOK, ServerIsTyped, FramesAreTyped, ClientIsTyped
<1>5. ASSUME Quiet, disturbed = {} PROVE view = 1 .. stored
  <2>1. NothingIsLost /\ view \subseteq 1 .. stored
    BY <1>0, <1>5 DEF SyncInv, ClientIsTyped
  <2>2. ASSUME NEW m \in 1 .. stored PROVE m \in view
    <3>1. Coming(m)
      BY <1>5, <2>1 DEF NothingIsLost, Quiet
    <3>2. Len(net) = 0 /\ Len(events) = 0
      BY <1>5 DEF Quiet
    <3>3. ~Ahead(m)
      BY <1>5, <3>2 DEF Ahead, IsSent, Quiet
    <3> QED BY <1>5, <3>1, <3>2, <3>3 DEF Coming, Quiet, NoLoad
  <2> QED BY <2>1, <2>2
<1> QED BY <1>4, <1>5 DEF ViewIsTrue, Converges

\* A client that was hit by none of the disturbances ends with the whole channel,
\* for every window, queue, number of messages and of reads under way
\* (realtime.ts, useChat.ts; replay.go, dispatch.go).
THEOREM ViewIsAlwaysTrue == SyncSpec => []ViewIsTrue
<1>1. SyncSpec => []SyncInv
  BY InitSyncInv, SyncStep, PTL DEF SyncSpec
<1> QED BY <1>1, SyncInvImplies, PTL
===============================================================================
